----------------------------- MODULE SlackDays ------------------------------
(***************************************************************************)
(* One day of one Slack conversation in the company context service        *)
(* (slack_tasks.rs and slack_documents.rs of                               *)
(* crates/centaur-company-context/src): discoveries that observe the       *)
(* conversation, history syncs that store its messages, the projection     *)
(* each sync spawns, the embed tasks that publish what was rendered, and   *)
(* the reconciliation that removes a conversation nobody observes.  The    *)
(* messages of the day are one text, recent enough for every sync to read  *)
(* it again; one credential lists the conversation; what is published of   *)
(* the day is one document.                                                *)
(***************************************************************************)
EXTENDS Naturals, Sequences

CONSTANTS
  Tasks,      \* a discovery, the sync it spawns and the projection that one spawns
  Workers,    \* attempts of embed tasks at the same time
  Texts,      \* what the messages of the day may say
  Refused,    \* texts the embeddings service rejects
  None,       \* no text
  Nobody,     \* no sync holds the history
  Gone,       \* a task that failed for good and still holds the history
  MaxEdits,   \* bound on changes of the messages
  MaxMoves,   \* bound on changes of what the credential may see
  MaxFaults   \* bound on failed attempts and stalls

DaysAssumption ==
  /\ Refused \subseteq Texts /\ None \notin Texts
  /\ Nobody \notin Tasks /\ Gone \notin Tasks /\ Nobody # Gone
  /\ MaxEdits \in Nat /\ MaxMoves \in Nat /\ MaxFaults \in Nat

VARIABLES
  said,       \* Slack: the messages of the day
  access,     \* Slack and Console: what the credential is to the conversation
  observed,   \* slack_broker_observations: the row is active
  conv,       \* slack_conversations: is there a row, who holds its history
  stored,     \* slack_messages of the day
  day,        \* slack_channel_days: the row; revision 0 before there is one
  docs,       \* slack_documents of the day
  timeline,   \* the times that are compared, oldest first, by who has them
  task,       \* discoveries, syncs and projections
  embeds,     \* embed tasks that wait or run, by revision
  spawned,    \* idempotency keys of the embed tasks there have been
  run,        \* attempts of embed tasks
  edits, moves, faults

vars == <<said, access, observed, conv, stored, day, docs, timeline, task, embeds,
          spawned, run, edits, moves, faults>>
world == <<said, access, edits, moves>>
tables == <<observed, conv, stored, day, docs>>
queue == <<embeds, spawned, run>>

Idle == [pc |-> "idle"]
At(pc) == [pc |-> pc]
NoConv == [row |-> FALSE, holder |-> Nobody]
NoDay == [revision |-> 0, text |-> None, status |-> "none"]

Init ==
  /\ said \in Texts /\ access = "member"
  /\ observed = FALSE /\ conv = NoConv /\ stored = None /\ day = NoDay /\ docs = None
  /\ timeline = <<>>
  /\ task = [t \in Tasks |-> Idle]
  /\ embeds = {} /\ spawned = {}
  /\ run = [w \in Workers |-> Idle]
  /\ edits = 0 /\ moves = 0 /\ faults = 0

Goes(t, c) == task' = [task EXCEPT ![t] = c]
Runs(w, c) == run' = [run EXCEPT ![w] = c]

(***************************************************************************)
(* Times.  "msg" has the latest updated_at of the messages, "day" the      *)
(* rendered_at of the day, a task the NOW() of its transaction or query.   *)
(***************************************************************************)
Without(os) == SelectSeq(timeline, LAMBDA o : o \notin os)
Stamped(o) == Append(Without({o}), o)
\* The row gets the time of the task.
Handed(t, row) == [i \in DOMAIN Without({row}) |->
                     IF Without({row})[i] = t THEN row ELSE Without({row})[i]]
Earlier(a, b) ==
  \E i, j \in DOMAIN timeline : i < j /\ timeline[i] = a /\ timeline[j] = b

(***************************************************************************)
(* Slack and the Console.                                                  *)
(***************************************************************************)

\* A message is posted, edited or deleted.
Edit(text) ==
  /\ edits < MaxEdits /\ text # said
  /\ said' = text /\ edits' = edits + 1
  /\ UNCHANGED <<access, moves, tables, timeline, task, queue, faults>>

\* The user leaves or joins the conversation, the credential dies or is renewed.
Move(to) ==
  /\ moves < MaxMoves /\ to # access
  /\ access' = to /\ moves' = moves + 1
  /\ UNCHANGED <<said, edits, tables, timeline, task, queue, faults>>

(***************************************************************************)
(* Discovery and reconciliation.                                           *)
(***************************************************************************)

\* discover of the next cycle: Slack lists the conversations of the user.
Discover(t) ==
  /\ task[t] = Idle /\ access # "dead"
  /\ Goes(t, [pc |-> "discovered", listed |-> access = "member"])
  /\ UNCHANGED <<world, tables, timeline, queue, faults>>

\* Mutant: what is no longer listed keeps its observation.
RecordListed(t) ==
  /\ task[t].pc = "discovered"
  /\ observed' = (observed \/ task[t].listed)
  /\ conv' = IF task[t].listed THEN [conv EXCEPT !.row = TRUE] ELSE conv
  /\ Goes(t, IF task[t].listed THEN At("claim") ELSE Idle)
  /\ UNCHANGED <<world, stored, day, docs, timeline, queue, faults>>

\* record_discovery, one transaction, and the sync of what was listed.
RecordDiscovery(t) ==
  /\ task[t].pc = "discovered"
  /\ observed' = task[t].listed
  /\ conv' = IF task[t].listed THEN [conv EXCEPT !.row = TRUE] ELSE conv
  /\ Goes(t, IF task[t].listed THEN At("claim") ELSE Idle)
  /\ UNCHANGED <<world, stored, day, docs, timeline, queue, faults>>

\* remove_unobserved: observations of a dead credential are deactivated, and the
\* conversation goes with everything that refers to it.
Reconcile ==
  /\ conv.row /\ (access = "dead" \/ ~observed)
  /\ observed' = FALSE
  /\ conv' = NoConv /\ stored' = None /\ day' = NoDay /\ docs' = None
  /\ timeline' = Without({"msg", "day"})
  /\ UNCHANGED <<world, task, queue, faults>>

(***************************************************************************)
(* History syncs.                                                          *)
(***************************************************************************)

Free(t) == conv.holder \in {Nobody, Gone, t}

\* claim_history; the history of a task that is gone is free after an hour.
Claim(t) ==
  /\ task[t].pc = "claim" /\ conv.row /\ Free(t)
  /\ conv' = [conv EXCEPT !.holder = t]
  /\ Goes(t, At("read"))
  /\ UNCHANGED <<world, observed, stored, day, docs, timeline, queue, faults>>

\* The holder has not stored a page for an hour, and is not gone.
ClaimLapsed(t) ==
  /\ task[t].pc = "claim" /\ conv.row /\ ~Free(t) /\ faults < MaxFaults
  /\ conv' = [conv EXCEPT !.holder = t]
  /\ Goes(t, At("read"))
  /\ faults' = faults + 1
  /\ UNCHANGED <<world, observed, stored, day, docs, timeline, queue>>

\* The conversation is gone or another live sync holds it.
Skip(t) ==
  /\ task[t].pc = "claim" /\ (~conv.row \/ conv.holder \in Tasks \ {t})
  /\ Goes(t, Idle)
  /\ UNCHANGED <<world, tables, timeline, queue, faults>>

\* conversations.history, checkpointed by paced_call.
Read(t) ==
  /\ task[t].pc = "read" /\ access = "member"
  /\ Goes(t, [pc |-> "begin", page |-> said])
  /\ UNCHANGED <<world, tables, timeline, queue, faults>>

\* record_history_error releases what the task still holds when Slack rejects it,
Released(t) == IF conv.holder = t THEN [conv EXCEPT !.holder = Nobody] ELSE conv
\* and a task that has failed for good leaves it to the lease.
Abandoned(t) == IF conv.holder = t THEN [conv EXCEPT !.holder = Gone] ELSE conv

ReadRejected(t) ==
  /\ task[t].pc = "read" /\ access = "left"
  /\ conv' = Released(t) /\ Goes(t, Idle)
  /\ UNCHANGED <<world, observed, stored, day, docs, timeline, queue, faults>>

\* The credential cannot be loaded, in any attempt.
ReadDead(t) ==
  /\ task[t].pc = "read" /\ access = "dead"
  /\ conv' = Abandoned(t) /\ Goes(t, Idle)
  /\ UNCHANGED <<world, observed, stored, day, docs, timeline, queue, faults>>

\* store_messages: the transaction begins,
BeginStore(t) ==
  /\ task[t].pc = "begin"
  /\ timeline' = Stamped(t)
  /\ Goes(t, [task[t] EXCEPT !.pc = "store"])
  /\ UNCHANGED <<world, tables, queue, faults>>

\* and commits with its time, after those it waited for.
CommitStore(t) ==
  /\ task[t].pc = "store" /\ conv.row
  /\ stored' = task[t].page
  /\ timeline' = Handed(t, "msg")
  /\ Goes(t, [task[t] EXCEPT !.pc = "finish"])
  /\ UNCHANGED <<world, observed, conv, day, docs, queue, faults>>

\* There is no conversation any more: rejected.
StoreRejected(t) ==
  /\ task[t].pc = "store" /\ ~conv.row
  /\ timeline' = Without({t})
  /\ Goes(t, Idle)
  /\ UNCHANGED <<world, tables, queue, faults>>

\* finish_history
Finish(t) ==
  /\ task[t].pc = "finish"
  /\ conv' = Released(t)
  /\ Goes(t, [task[t] EXCEPT !.pc = "spawn"])
  /\ UNCHANGED <<world, observed, stored, day, docs, timeline, queue, faults>>

\* spawn_projection
SpawnProjection(t) ==
  /\ task[t].pc = "spawn"
  /\ Goes(t, At("project"))
  /\ UNCHANGED <<world, tables, timeline, queue, faults>>

(***************************************************************************)
(* Projection.                                                             *)
(***************************************************************************)

\* stale_days: never rendered, rendered before a message changed, or pending.
Stale ==
  /\ conv.row /\ stored # None
  /\ day.revision = 0 \/ Earlier("day", "msg") \/ day.status = "pending"

StaleDays(t) ==
  /\ task[t].pc = "project"
  /\ Goes(t, IF Stale THEN At("clock") ELSE Idle)
  /\ UNCHANGED <<world, tables, timeline, queue, faults>>

\* project_day: the time of the rendering,
RenderedAt(t) ==
  /\ task[t].pc = "clock"
  /\ timeline' = IF conv.row THEN Stamped(t) ELSE timeline
  /\ Goes(t, IF conv.row THEN At("load") ELSE Idle)
  /\ UNCHANGED <<world, tables, queue, faults>>

\* then what it renders,
LoadDay(t) ==
  /\ task[t].pc = "load"
  /\ Goes(t, [pc |-> "upsert", text |-> stored])
  /\ UNCHANGED <<world, tables, timeline, queue, faults>>

\* Mutant: the revision is that of the row.
RenderedInPlace(text) ==
  IF day.revision > 0 /\ day.text = text THEN day
  ELSE [revision |-> 1, text |-> text, status |-> "pending"]

\* The row with a rendering that is not older: content that changed is pending
\* under the next revision.
Rendered(text) ==
  IF day.revision > 0 /\ day.text = text THEN day
  ELSE [revision |-> day.revision + 1, text |-> text, status |-> "pending"]

\* Mutant: the conversation may have been removed meanwhile.
UpsertUnlocked(t) ==
  LET text == task[t].text IN
  /\ task[t].pc = "upsert"
  /\ day.revision = 0 \/ Earlier("day", t)
  /\ day' = Rendered(text)
  /\ timeline' = Handed(t, "day")
  /\ Goes(t, IF day'.status = "pending" THEN [pc |-> "embed", revision |-> day'.revision]
             ELSE Idle)
  /\ UNCHANGED <<world, observed, conv, stored, docs, queue, faults>>

\* and the row, if the conversation is still there.
UpsertDay(t) ==
  LET text == task[t].text IN
  /\ task[t].pc = "upsert" /\ conv.row
  /\ day.revision = 0 \/ Earlier("day", t)
  /\ day' = Rendered(text)
  /\ timeline' = Handed(t, "day")
  /\ Goes(t, IF day'.status = "pending" THEN [pc |-> "embed", revision |-> day'.revision]
             ELSE Idle)
  /\ UNCHANGED <<world, observed, conv, stored, docs, queue, faults>>

DiscardRendering(t) ==
  /\ task[t].pc = "upsert"
  /\ ~conv.row \/ (day.revision > 0 /\ ~Earlier("day", t))
  /\ timeline' = Without({t})
  /\ Goes(t, Idle)
  /\ UNCHANGED <<world, tables, queue, faults>>

\* project_conversation spawns the embed task of the revision, once.
SpawnEmbed(t) ==
  LET r == task[t].revision IN
  /\ task[t].pc = "embed"
  /\ embeds' = IF r \in spawned THEN embeds ELSE embeds \cup {r}
  /\ spawned' = spawned \cup {r}
  /\ Goes(t, Idle)
  /\ UNCHANGED <<world, tables, timeline, run, faults>>

\* Where the next attempt of a task begins: a page that was read is checkpointed.
Retried(c) ==
  CASE c.pc \in {"begin", "store", "finish", "spawn"} -> [pc |-> "begin", page |-> c.page]
    [] c.pc \in {"project", "clock", "load", "upsert", "embed"} -> At("project")
    [] OTHER -> c

\* The worker stops or a query fails; the task is tried again,
AttemptFails(t) ==
  /\ task[t].pc \notin {"idle", "discovered"} /\ Retried(task[t]) # task[t]
  /\ faults < MaxFaults /\ faults' = faults + 1
  /\ timeline' = Without({t})
  /\ Goes(t, Retried(task[t]))
  /\ UNCHANGED <<world, tables, queue>>

\* or was tried for the last time.
TaskFails(t) ==
  /\ task[t].pc # "idle"
  /\ faults < MaxFaults /\ faults' = faults + 1
  /\ timeline' = Without({t})
  /\ conv' = Abandoned(t)
  /\ Goes(t, Idle)
  /\ UNCHANGED <<world, observed, stored, day, docs, queue>>

(***************************************************************************)
(* Publication.                                                            *)
(***************************************************************************)

Current(r) == day.revision = r /\ day.status = "pending"

\* embed_day reads what it publishes, unless it is superseded.
StartEmbed(w, r) ==
  /\ run[w] = Idle /\ r \in embeds /\ \A v \in Workers : run[v] # Idle => run[v].revision # r
  /\ Runs(w, IF Current(r) THEN [pc |-> "publish", revision |-> r, text |-> day.text]
             ELSE Idle)
  /\ embeds' = IF Current(r) THEN embeds ELSE embeds \ {r}
  /\ UNCHANGED <<world, tables, timeline, task, spawned, faults>>

\* record_embedding_failure
Reject(w) ==
  LET r == run[w].revision IN
  /\ run[w].pc = "publish" /\ run[w].text \in Refused
  /\ day' = IF Current(r) THEN [day EXCEPT !.status = "rejected"] ELSE day
  /\ Runs(w, Idle) /\ embeds' = embeds \ {r}
  /\ UNCHANGED <<world, observed, conv, stored, docs, timeline, task, spawned, faults>>

\* Mutant: the row is not looked at again.
PublishUnfenced(w) ==
  LET r == run[w].revision IN
  /\ run[w].pc = "publish" /\ run[w].text \notin Refused
  /\ docs' = run[w].text /\ day' = [day EXCEPT !.status = "completed"]
  /\ Runs(w, Idle) /\ embeds' = embeds \ {r}
  /\ UNCHANGED <<world, observed, conv, stored, timeline, task, spawned, faults>>

\* embed_day publishes, with the row locked.
Publish(w) ==
  LET r == run[w].revision IN
  /\ run[w].pc = "publish" /\ run[w].text \notin Refused
  /\ IF Current(r)
     THEN docs' = run[w].text /\ day' = [day EXCEPT !.status = "completed"]
     ELSE UNCHANGED <<docs, day>>
  /\ Runs(w, Idle) /\ embeds' = embeds \ {r}
  /\ UNCHANGED <<world, observed, conv, stored, timeline, task, spawned, faults>>

\* The attempt fails and the task waits again.
EmbedFails(w) ==
  /\ run[w] # Idle
  /\ faults < MaxFaults /\ faults' = faults + 1
  /\ Runs(w, Idle)
  /\ UNCHANGED <<world, tables, timeline, task, embeds, spawned>>

-----------------------------------------------------------------------------
SyncStep(t) ==
  \/ RecordDiscovery(t) \/ Claim(t) \/ Skip(t)
  \/ Read(t) \/ ReadRejected(t) \/ ReadDead(t)
  \/ BeginStore(t) \/ CommitStore(t) \/ StoreRejected(t) \/ Finish(t) \/ SpawnProjection(t)

ProjectStep(t) ==
  \/ StaleDays(t) \/ RenderedAt(t) \/ LoadDay(t) \/ UpsertDay(t) \/ DiscardRendering(t)
  \/ SpawnEmbed(t)

Next ==
  \/ \E text \in Texts : Edit(text)
  \/ \E to \in {"member", "left", "dead"} : Move(to)
  \/ Reconcile
  \/ \E t \in Tasks : \/ Discover(t) \/ SyncStep(t) \/ ProjectStep(t)
                      \/ ClaimLapsed(t) \/ AttemptFails(t) \/ TaskFails(t)
  \/ \E w \in Workers : Reject(w) \/ Publish(w) \/ EmbedFails(w)
  \/ \E w \in Workers : \E r \in embeds : StartEmbed(w, r)

Spec == Init /\ [][Next]_vars

\* The scheduler starts a cycle every interval, and the queue runs every task.
FairSpec ==
  /\ Spec
  /\ WF_vars(\E t \in Tasks : Discover(t)) /\ WF_vars(Reconcile)
  /\ \A t \in Tasks : WF_vars(SyncStep(t) \/ ProjectStep(t))
  /\ SF_vars(\E w \in Workers : \E r \in embeds : StartEmbed(w, r))
  /\ \A w \in Workers : WF_vars(Reject(w) \/ Publish(w))

-----------------------------------------------------------------------------
(* Properties.                                                             *)

TaskStates ==
  {Idle} \cup [pc : {"discovered"}, listed : BOOLEAN]
    \cup [pc : {"claim", "read", "project", "clock", "load"}]
    \cup [pc : {"begin", "store", "finish", "spawn"}, page : Texts]
    \cup [pc : {"upsert"}, text : Texts \cup {None}]
    \cup [pc : {"embed"}, revision : Nat \ {0}]

\* The types, and that what refers to a conversation goes with it: a conversation
\* that was removed leaves no message, rendering or document behind.
TypeOK ==
  /\ said \in Texts /\ access \in {"member", "left", "dead"} /\ observed \in BOOLEAN
  /\ conv \in [row : BOOLEAN, holder : Tasks \cup {Nobody, Gone}]
  /\ stored \in Texts \cup {None} /\ docs \in Texts \cup {None}
  /\ day \in [revision : Nat, text : Texts \cup {None},
              status : {"none", "pending", "completed", "rejected"}]
  /\ task \in [Tasks -> TaskStates]
  /\ embeds \subseteq spawned /\ spawned \subseteq Nat \ {0}
  /\ run \in [Workers -> {Idle} \cup [pc : {"publish"}, revision : Nat \ {0}, text : Texts \cup {None}]]
  /\ ~conv.row => conv = NoConv /\ stored = None /\ day = NoDay /\ docs = None

\* A day that says it was published has that very content in its documents,
\* whichever embed task ran late (embed_day).
CompletedIsPublished == day.status = "completed" => docs = day.text

\* The migration that made slack_channel_days: "A day is rendered again when its
\* messages, channel name, or rendered user names change".
ChangedIsRendered ==
  conv.row /\ day.revision > 0 /\ stored # None /\ day.text # stored => Stale

\* Once Slack is quiet, what is published of the conversation is what it says,
\* although stores and renderings overlap and tasks fail (project_conversation).
Settles == <>[](access = "member" => said \in Refused \/ docs = said)

\* A conversation the credential can no longer see is removed for good, although
\* discoveries and syncs that listed it before are still running (remove_unobserved,
\* record_discovery).
LeftIsRemoved == <>[](access # "member" => docs = None /\ stored = None)
=============================================================================
