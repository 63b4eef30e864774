----------------------------- MODULE NoteIndex ------------------------------
(***************************************************************************)
(* One Granola meeting note in the company context service                 *)
(* (crates/centaur-company-context/src/granola_tasks.rs): syncs that list  *)
(* the meeting for each credential, fetches that stage what Granola shows, *)
(* embed tasks that publish what was staged, with the vectors of unchanged *)
(* text reused, and the reconciliation that removes a note nobody observes *)
(* any more.  All are tasks of the durable queue, which runs them again    *)
(* after a failure and may run an attempt twice when its lease is lost.    *)
(* A note is one chunk.                                                    *)
(***************************************************************************)
EXTENDS Naturals, FiniteSets

CONSTANTS
  Credentials,   \* Granola broker credentials
  Workers,       \* attempts of fetch and embed tasks at the same time
  Texts,         \* title and summary of the note, what a vector stands for
  People,        \* owner, attendees and date: published, but not embedded
  Blank,         \* a note without text
  Title,         \* the text of a listing without details
  NoContent,     \* nothing staged, nothing published
  MaxMoves,      \* bound on changes from outside
  MaxFaults      \* bound on failed attempts and lost leases

Contents == Texts \X People

ASSUME NoteAssumption ==
  /\ Blank \in Texts /\ Title \in Texts
  /\ NoContent \notin Contents /\ NoContent \notin Texts
  /\ MaxMoves \in Nat /\ MaxFaults \in Nat

VARIABLES
  meeting,    \* Granola: the content of the note
  live,       \* Console: credentials that are not dead
  window,     \* credentials whose watermark does not exclude the meeting
  obs,        \* granola_broker_observations: credentials with an active row
  note,       \* granola_notes: the row; revision 0 before there is one
  docs, vec,  \* granola_documents and granola_document_embeddings
  fetches,    \* fetch tasks that wait
  embeds,     \* embed tasks that wait, by revision
  spawned,    \* idempotency keys of the embed tasks there have been
  run,        \* attempts of fetch and embed tasks
  sweep,      \* the reconcile task
  moves, faults

vars == <<meeting, live, window, obs, note, docs, vec, fetches, embeds, spawned,
          run, sweep, moves, faults>>
granola == <<meeting, live>>
queue == <<fetches, embeds, spawned>>
index == <<docs, vec>>

Idle == [pc |-> "idle"]
NoNote == [revision |-> 0, content |-> NoContent, status |-> "none"]

Init ==
  /\ meeting \in Contents
  /\ live = Credentials /\ window = Credentials
  /\ obs = {} /\ note = NoNote
  /\ docs = NoContent /\ vec = NoContent
  /\ fetches = {} /\ embeds = {} /\ spawned = {}
  /\ run = [w \in Workers |-> Idle]
  /\ sweep = Idle
  /\ moves = 0 /\ faults = 0

Goes(w, r) == run' = [run EXCEPT ![w] = r]
Finish(w) == Goes(w, Idle)

-----------------------------------------------------------------------------
(* Granola and the Console.                                                *)

Move == moves < MaxMoves /\ moves' = moves + 1

MeetingChanges(c) ==
  /\ Move
  /\ meeting' = c
  /\ UNCHANGED <<live, window, obs, note, index, queue, run, sweep, faults>>

\* A credential dies, or is authorized again.
CredentialChanges(k) ==
  /\ Move
  /\ live' = IF k \in live THEN live \ {k} ELSE live \cup {k}
  /\ UNCHANGED <<meeting, window, obs, note, index, queue, run, sweep, faults>>

-----------------------------------------------------------------------------
(* sync_account.                                                           *)

\* The meeting is listed and a fetch spawned.
Sync(k) ==
  /\ k \in live \cap window
  /\ fetches' = fetches \cup {k}
  /\ UNCHANGED <<granola, window, obs, note, index, embeds, spawned, run, sweep,
                 moves, faults>>

\* The listing holds a meeting of a later day as well, and the watermark moves
\* past this one.
SyncPast(k) ==
  /\ Move
  /\ k \in live \cap window
  /\ fetches' = fetches \cup {k}
  /\ window' = window \ {k}
  /\ UNCHANGED <<granola, obs, note, index, embeds, spawned, run, sweep, faults>>

-----------------------------------------------------------------------------
(* fetch_notes.                                                            *)

\* granola_credential and get_meetings.
Fetch(w, k) ==
  /\ run[w] = Idle /\ k \in fetches \cap live
  /\ fetches' = fetches \ {k}
  /\ Goes(w, [pc |-> "stage", by |-> k, content |-> meeting])
  /\ UNCHANGED <<granola, window, obs, note, index, embeds, spawned, sweep, moves, faults>>

\* Granola omits the details: the note is staged as it was listed.
FetchListed(w, k) ==
  /\ Move
  /\ run[w] = Idle /\ k \in fetches \cap live
  /\ fetches' = fetches \ {k}
  /\ Goes(w, [pc |-> "stage", by |-> k, content |-> <<Title, meeting[2]>>])
  /\ UNCHANGED <<granola, window, obs, note, index, embeds, spawned, sweep, faults>>

\* A dead credential fails every attempt, until the task is given up.
FetchDead(w, k) ==
  /\ run[w] = Idle /\ k \in fetches \ live
  /\ fetches' = fetches \ {k}
  /\ UNCHANGED <<granola, window, obs, note, index, embeds, spawned, run, sweep,
                 moves, faults>>

\* The row after the upsert: only different content makes a new revision.
Staged(c) ==
  IF note.content = c THEN note
  ELSE [revision |-> note.revision + 1, content |-> c, status |-> "pending"]

\* Mutant: a note that did not change is not returned, pending or not.
StageChanged(w) ==
  /\ run[w].pc = "stage"
  /\ ~(sweep.pc = "lock" /\ run[w].by \in sweep.drop)
  /\ obs' = obs \cup {run[w].by}
  /\ note' = Staged(run[w].content)
  /\ Goes(w, IF note' # note
             THEN [pc |-> "spawn", by |-> run[w].by, revision |-> note'.revision]
             ELSE Idle)
  /\ UNCHANGED <<granola, window, index, queue, sweep, moves, faults>>

\* stage_note, one transaction.  It waits for a reconciliation that holds the
\* credential's observation.
StageNote(w) ==
  /\ run[w].pc = "stage"
  /\ ~(sweep.pc = "lock" /\ run[w].by \in sweep.drop)
  /\ obs' = obs \cup {run[w].by}
  /\ note' = Staged(run[w].content)
  /\ Goes(w, IF note'.status = "pending"
             THEN [pc |-> "spawn", by |-> run[w].by, revision |-> note'.revision]
             ELSE Idle)
  /\ UNCHANGED <<granola, window, index, queue, sweep, moves, faults>>

\* At most one embed task of a revision, ever.
SpawnEmbed(w) ==
  /\ run[w].pc = "spawn"
  /\ embeds' = IF run[w].revision \in spawned THEN embeds
               ELSE embeds \cup {run[w].revision}
  /\ spawned' = spawned \cup {run[w].revision}
  /\ Finish(w)
  /\ UNCHANGED <<granola, window, obs, note, index, fetches, sweep, moves, faults>>

-----------------------------------------------------------------------------
(* embed_note.                                                             *)

Current(r) == note.revision = r /\ note.status = "pending"

\* The staged row, unless the task was superseded.
StartEmbed(w, r) ==
  /\ run[w] = Idle /\ r \in embeds
  /\ embeds' = embeds \ {r}
  /\ Goes(w, IF Current(r) THEN [pc |-> "vectors", revision |-> r, content |-> note.content]
             ELSE Idle)
  /\ UNCHANGED <<granola, window, obs, note, index, fetches, spawned, sweep, moves, faults>>

\* The vector that can be reused; the embeddings API is asked for one otherwise.
ReadVectors(w) ==
  /\ run[w].pc = "vectors" /\ run[w].content[1] # Blank
  /\ Goes(w, [pc |-> "publish", revision |-> run[w].revision, content |-> run[w].content,
              reuse |-> vec = run[w].content[1]])
  /\ UNCHANGED <<granola, window, obs, note, index, queue, sweep, moves, faults>>

\* record_embedding_failure of a note without text, or that the API refuses.
Reject(w) ==
  /\ \/ run[w].pc = "vectors" /\ run[w].content[1] = Blank
     \/ run[w].pc = "publish" /\ ~run[w].reuse
  /\ note' = IF Current(run[w].revision) THEN [note EXCEPT !.status = "rejected"] ELSE note
  /\ Finish(w)
  /\ UNCHANGED <<granola, window, obs, index, queue, sweep, moves, faults>>

\* Mutant: the documents are written whatever the row has become.
PublishUnfenced(w) ==
  /\ run[w].pc = "publish"
  /\ note' = IF Current(run[w].revision) THEN [note EXCEPT !.status = "completed"] ELSE note
  /\ docs' = run[w].content
  /\ vec' = IF run[w].reuse THEN vec ELSE run[w].content[1]
  /\ Finish(w)
  /\ UNCHANGED <<granola, window, obs, queue, sweep, moves, faults>>

\* Mutant: the fence looks at the status alone.
PublishAnyRevision(w) ==
  /\ run[w].pc = "publish"
  /\ IF note.status = "pending"
     THEN /\ docs' = run[w].content
          /\ vec' = IF run[w].reuse THEN vec ELSE run[w].content[1]
          /\ note' = [note EXCEPT !.status = "completed"]
     ELSE UNCHANGED <<note, index>>
  /\ Finish(w)
  /\ UNCHANGED <<granola, window, obs, queue, sweep, moves, faults>>

\* The last transaction, behind a fence on the locked row.
Publish(w) ==
  /\ run[w].pc = "publish"
  /\ IF Current(run[w].revision)
     THEN /\ docs' = run[w].content
          /\ vec' = IF run[w].reuse THEN vec ELSE run[w].content[1]
          /\ note' = [note EXCEPT !.status = "completed"]
     ELSE UNCHANGED <<note, index>>
  /\ Finish(w)
  /\ UNCHANGED <<granola, window, obs, queue, sweep, moves, faults>>

-----------------------------------------------------------------------------
(* reconcile_credentials.                                                  *)

\* retained_granola_credential_ids.
StartSweep ==
  /\ sweep = Idle
  /\ sweep' = [pc |-> "deactivate", keep |-> live]
  /\ UNCHANGED <<granola, window, obs, note, index, queue, run, moves, faults>>

\* remove_unobserved_notes: the observations are deactivated, which others see at
\* the end, and the note is a candidate as of the statement that then waits for
\* the lock on its row.
FindCandidate ==
  /\ sweep.pc = "deactivate"
  /\ LET drop == obs \ sweep.keep IN
     sweep' = [pc |-> "lock", drop |-> drop,
               candidate |-> note.status \notin {"none", "deleted"} /\ obs \subseteq drop]
  /\ UNCHANGED <<granola, window, obs, note, index, queue, run, moves, faults>>

\* Mutant: the content stays in the row.
ClearedStatus == [note EXCEPT !.revision = @ + 1, !.status = "deleted"]

Cleared == [revision |-> note.revision + 1, content |-> NoContent, status |-> "deleted"]

\* Mutant: no recheck under the lock.
RemoveWithoutRecheck ==
  /\ sweep.pc = "lock"
  /\ obs' = obs \ sweep.drop
  /\ IF sweep.candidate
     THEN note' = Cleared /\ docs' = NoContent /\ vec' = NoContent
     ELSE UNCHANGED <<note, index>>
  /\ sweep' = Idle
  /\ UNCHANGED <<granola, window, queue, run, moves, faults>>

\* Under the lock: the recheck, the documents, the row.  Vectors go with their
\* documents.
RemoveNote ==
  /\ sweep.pc = "lock"
  /\ obs' = obs \ sweep.drop
  /\ IF sweep.candidate /\ note.status # "deleted" /\ obs' = {}
     THEN note' = Cleared /\ docs' = NoContent /\ vec' = NoContent
     ELSE UNCHANGED <<note, index>>
  /\ sweep' = Idle
  /\ UNCHANGED <<granola, window, queue, run, moves, faults>>

-----------------------------------------------------------------------------
(* Failures.                                                               *)

Fault == faults < MaxFaults /\ faults' = faults + 1

\* The task waits again.
Again(w) ==
  IF run[w].pc \in {"stage", "spawn"}
  THEN fetches' = fetches \cup {run[w].by} /\ UNCHANGED embeds
  ELSE embeds' = embeds \cup {run[w].revision} /\ UNCHANGED fetches

\* An attempt ends anywhere.
AttemptFails(w) ==
  /\ Fault
  /\ run[w] # Idle
  /\ Again(w)
  /\ Finish(w)
  /\ UNCHANGED <<granola, window, obs, note, index, spawned, sweep, moves>>

\* Its lease is lost, but it goes on.
LeaseExpires(w) ==
  /\ Fault
  /\ run[w] # Idle
  /\ Again(w)
  /\ UNCHANGED <<granola, window, obs, note, index, spawned, run, sweep, moves>>

\* The transaction of a reconciliation rolls back.
SweepFails ==
  /\ Fault
  /\ sweep # Idle
  /\ sweep' = Idle
  /\ UNCHANGED <<granola, window, obs, note, index, queue, run, moves>>

-----------------------------------------------------------------------------

Environment ==
  \/ \E c \in Contents : MeetingChanges(c)
  \/ \E k \in Credentials : CredentialChanges(k) \/ SyncPast(k)

StartFetch(w, k) == Fetch(w, k) \/ FetchListed(w, k) \/ FetchDead(w, k)

Step(w) ==
  StageNote(w) \/ SpawnEmbed(w) \/ ReadVectors(w) \/ Reject(w) \/ Publish(w)

Sweep == FindCandidate \/ RemoveNote

Next ==
  \/ Environment
  \/ \E k \in Credentials : Sync(k)
  \/ \E w \in Workers, k \in Credentials : StartFetch(w, k)
  \/ \E w \in Workers : \E r \in embeds : StartEmbed(w, r)
  \/ \E w \in Workers : Step(w) \/ AttemptFails(w) \/ LeaseExpires(w)
  \/ StartSweep \/ Sweep \/ SweepFails

Spec == Init /\ [][Next]_vars

\* The scheduler ticks, the queue hands out tasks in order of their time, and a
\* handler that nothing stops goes on.
FairSpec ==
  /\ Spec
  /\ \A k \in Credentials : SF_vars(Sync(k))
  /\ \A k \in Credentials : SF_vars(\E w \in Workers : Fetch(w, k) \/ FetchDead(w, k))
  /\ SF_vars(\E w \in Workers : \E r \in embeds : StartEmbed(w, r))
  /\ \A w \in Workers : WF_vars(Step(w))
  /\ WF_vars(StartSweep) /\ WF_vars(Sweep)

-----------------------------------------------------------------------------
(* Properties.                                                             *)

Statuses == {"none", "pending", "completed", "rejected", "deleted"}

Running ==
  {Idle}
    \cup [pc : {"stage"}, by : Credentials, content : Contents]
    \cup [pc : {"spawn"}, by : Credentials, revision : Nat]
    \cup [pc : {"vectors"}, revision : Nat, content : Contents]
    \cup [pc : {"publish"}, revision : Nat, content : Contents, reuse : BOOLEAN]

Sweeping ==
  {Idle}
    \cup [pc : {"deactivate"}, keep : SUBSET Credentials]
    \cup [pc : {"lock"}, drop : SUBSET Credentials, candidate : BOOLEAN]

\* The values the variables take; a row that was cleared has no content and any
\* other has.
TypeOK ==
  /\ meeting \in Contents
  /\ live \subseteq Credentials /\ window \subseteq Credentials
  /\ obs \subseteq Credentials /\ fetches \subseteq Credentials
  /\ note \in [revision : Nat, content : Contents \cup {NoContent}, status : Statuses]
  /\ (note.content = NoContent) <=> note.status \in {"none", "deleted"}
  /\ docs \in Contents \cup {NoContent}
  /\ vec \in Texts \cup {NoContent}
  /\ embeds \subseteq Nat /\ spawned \subseteq Nat
  /\ run \in [Workers -> Running]
  /\ sweep \in Sweeping
  /\ moves \in Nat /\ faults \in Nat

\* What the row says of the index is true: a completed note is published as it
\* is staged, and nothing of a deleted note is left, however many attempts of
\* its embed tasks are under way (embed_note, remove_unobserved_notes).
RowTellsIndex ==
  /\ note.status = "completed" => docs = note.content
  /\ note.status \in {"none", "deleted"} => docs = NoContent

\* A published note has the vector of its own text, although a vector that is
\* reused was read long before it is relied on (embed_note).
VectorIsOfText ==
  IF docs = NoContent THEN vec = NoContent ELSE vec = docs[1]

\* A note that somebody observes is not removed, by a reconciliation that met a
\* fetch (remove_unobserved_notes: "a fetch that committed meanwhile keeps its
\* note").
ObservedIsKept == obs # {} => note.status \notin {"none", "deleted"}

\* Once nothing changes any more, a note that a sync still lists is staged as
\* Granola shows it and published or rejected, also when the spawn of its embed
\* task was lost, and nothing is published for dead credentials.
Settles ==
  <>[](/\ live \cap window # {} => note.content = meeting /\ note.status # "pending"
       /\ live = {} => docs = NoContent)
=============================================================================
