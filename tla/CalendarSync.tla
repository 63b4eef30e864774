---------------------------- MODULE CalendarSync ----------------------------
(***************************************************************************)
(* The calendar connector of the company context service                   *)
(* (crates/centaur-company-context/src/calendar_tasks.rs): one             *)
(* credential's view of one calendar.  Discovery records the calendar,     *)
(* reconciliation removes it when the credential is gone, and sync tasks   *)
(* bring its events over page by page from a stored cursor.  All three are *)
(* tasks of the durable queue, so two of a kind may run at once, and an    *)
(* attempt may end anywhere.  Calendars of other credentials, and other    *)
(* calendars, are other rows that share nothing with this one.             *)
(***************************************************************************)
EXTENDS Naturals, FiniteSets

CONSTANTS
  Workers,      \* sync tasks that run at the same time
  Listers,      \* discovery and reconciliation tasks that run at the same time
  NEvents,      \* events of the calendar
  PageSize,     \* events a page covers
  Ends,         \* when an event may end; the largest stands for recurring ones
  FirstCutoff,  \* end of the history at the start
  RaiseBy,      \* by how much a deployment raises the history days
  Moves,        \* kinds of change from outside
  MaxMoves,     \* bound on their number
  Faults,       \* kinds of fault: "attempt", "expiry"
  MaxFaults,    \* bound on failed attempts and expired tokens together
  MaxQueued     \* bound on sync tasks waiting

CalendarAssumption ==
  /\ NEvents \in Nat \ {0} /\ PageSize \in Nat \ {0}
  /\ Ends \subseteq Nat /\ FirstCutoff \in Nat /\ RaiseBy \in Nat
  /\ RaiseBy < FirstCutoff
  /\ Moves \subseteq {"event", "listed", "live", "age", "raise"}
  /\ Faults \subseteq {"attempt", "expiry"}
  /\ MaxMoves \in Nat /\ MaxFaults \in Nat /\ MaxQueued \in Nat \ {0}

VARIABLES
  event,     \* Google: each event as of its last change
  changes,   \* Google: number of the last change, what a sync token stands for
  listed,    \* Google: the credential's calendar list has the calendar
  live,      \* Console: the credential is not dead
  cutoff,    \* now less the configured history days
  calendar,  \* google_calendars: no row or one, the cursor
  docs,      \* google_calendar_documents
  clock,     \* NOW(): only its order with the start of a full sync matters
  queued,    \* sync tasks waiting
  run,       \* per worker: the task attempt it runs
  moves, faults

vars == <<event, changes, listed, live, cutoff, calendar, docs, clock,
          queued, run, moves, faults>>
outside == <<event, changes, listed, live, cutoff, moves>>

Events == 1..NEvents
Tasks == Workers \cup Listers
NoPage == [at |-> 0, pos |-> 0]
Idle == [pc |-> "idle"]
\* The defaults of a new row: empty tokens, no full sync, no history.
Fresh == [sync |-> 0, page |-> NoPage, started |-> 0, history |-> 0, tag |-> 0]

Init ==
  /\ event \in [Events -> [at : {1}, on : {TRUE}, end : Ends]]
  /\ changes = 1
  /\ listed = TRUE /\ live = TRUE
  /\ cutoff = FirstCutoff
  /\ calendar = {} /\ docs = {}
  /\ clock = 1
  /\ queued = 0
  /\ run = [w \in Tasks |-> Idle]
  /\ moves = 0 /\ faults = 0

Fault(kind) == kind \in Faults /\ faults < MaxFaults /\ faults' = faults + 1
OneMore == IF queued < MaxQueued THEN queued + 1 ELSE queued

-----------------------------------------------------------------------------
(* Google and Console.                                                     *)

Move(kind) == kind \in Moves /\ moves < MaxMoves /\ moves' = moves + 1

\* An event is edited, moved, cancelled or created again.
EventChanges(e, on, end) ==
  /\ Move("event")
  /\ changes' = changes + 1
  /\ event' = [event EXCEPT ![e] = [at |-> changes + 1, on |-> on, end |-> end]]
  /\ UNCHANGED <<listed, live, cutoff, calendar, docs, clock, queued, run, faults>>

Relist ==
  /\ Move("listed")
  /\ listed' = ~listed
  /\ UNCHANGED <<event, changes, live, cutoff, calendar, docs, clock, queued, run, faults>>

\* The credential dies, or its user authorizes it again.
Toggle ==
  /\ Move("live")
  /\ live' = ~live
  /\ UNCHANGED <<event, changes, listed, cutoff, calendar, docs, clock, queued, run, faults>>

Age ==
  /\ Move("age")
  /\ cutoff' = cutoff + 1
  /\ UNCHANGED <<event, changes, listed, live, calendar, docs, clock, queued, run, faults>>

\* More history days.  The deployment's strategy is Recreate: no attempt with
\* the old value lives on, and the tasks it held wait again.
RaiseHistory ==
  /\ Move("raise")
  /\ RaiseBy > 0 /\ RaiseBy < cutoff
  /\ cutoff' = cutoff - RaiseBy
  /\ run' = [w \in Tasks |-> Idle]
  /\ queued' = MaxQueued
  /\ UNCHANGED <<event, changes, listed, live, calendar, docs, clock, faults>>

\* Google does not give out a token twice.  A listing gets a tag that no cursor
\* and no page still around has.
TagsHeld ==
  {c.tag : c \in calendar}
    \cup {run[w].cursor.tag : w \in {x \in Tasks : "cursor" \in DOMAIN run[x]}}
    \cup {run[w].page.tag : w \in {x \in Tasks : "page" \in DOMAIN run[x]}}
NewTag == CHOOSE n \in 1..2 * Cardinality(Tasks) + 2 :
            n \notin TagsHeld /\ \A m \in 1..(n - 1) : m \in TagsHeld

\* What events.list answers a cursor: the page its token names, the changes
\* since its sync token, or the first page of everything that is not cancelled.
Page(c) ==
  LET at == IF c.page = NoPage THEN changes ELSE c.page.at
      covered == {e \in Events : c.page.pos < e /\ e <= c.page.pos + PageSize}
  IN  [at |-> at, pos |-> c.page.pos + PageSize,
       tag |-> IF c.page = NoPage THEN NewTag ELSE c.tag,
       last |-> c.page.pos + PageSize >= NEvents,
       items |-> {[id |-> e, at |-> event[e].at, on |-> event[e].on,
                   end |-> event[e].end] :
                  e \in {x \in covered : IF c.sync = 0 THEN event[x].on
                                         ELSE event[x].at > c.sync}}]

-----------------------------------------------------------------------------
(* Discovery and reconciliation, enqueued by the scheduler on every tick.  *)

Goes(w, r) == run' = [run EXCEPT ![w] = r]
Finish(w) == Goes(w, Idle)

\* google_credential and list_calendars.
Discover(w) ==
  /\ run[w] = Idle /\ live
  /\ Goes(w, [pc |-> "record", listed |-> listed])
  /\ UNCHANGED <<outside, calendar, docs, clock, queued, faults>>

\* Mutant: a calendar that is no longer listed is left alone.
RecordWithoutRemoval(w) ==
  /\ run[w].pc = "record"
  /\ IF run[w].listed
     THEN /\ calendar' = IF calendar = {} THEN {Fresh} ELSE calendar
          /\ \/ queued' = OneMore /\ UNCHANGED faults
             \/ Fault("attempt") /\ UNCHANGED queued
          /\ UNCHANGED docs
     ELSE UNCHANGED <<calendar, docs, queued, faults>>
  /\ Finish(w)
  /\ UNCHANGED <<outside, clock>>

\* record_discovery: a listed calendar keeps its cursor or gets a fresh one, one
\* that is not goes, and its documents with it (on delete cascade).  A listed
\* calendar's sync is spawned, or that call fails.
RecordDiscovery(w) ==
  /\ run[w].pc = "record"
  /\ IF run[w].listed
     THEN /\ calendar' = IF calendar = {} THEN {Fresh} ELSE calendar
          /\ \/ queued' = OneMore /\ UNCHANGED faults
             \/ Fault("attempt") /\ UNCHANGED queued
          /\ UNCHANGED docs
     ELSE calendar' = {} /\ docs' = {} /\ UNCHANGED <<queued, faults>>
  /\ Finish(w)
  /\ UNCHANGED <<outside, clock>>

\* retained_google_credential_ids.
Reconcile(w) ==
  /\ run[w] = Idle
  /\ Goes(w, [pc |-> "reconcile", live |-> live])
  /\ UNCHANGED <<outside, calendar, docs, clock, queued, faults>>

RemoveUnretained(w) ==
  /\ run[w].pc = "reconcile"
  /\ IF run[w].live THEN UNCHANGED <<calendar, docs>> ELSE calendar' = {} /\ docs' = {}
  /\ Finish(w)
  /\ UNCHANGED <<outside, clock, queued, faults>>

-----------------------------------------------------------------------------
(* sync_calendar.                                                          *)

StartSync(w) ==
  /\ run[w] = Idle /\ queued > 0
  /\ queued' = queued - 1
  /\ Goes(w, [pc |-> "load", cutoff |-> cutoff])
  /\ UNCHANGED <<outside, calendar, docs, clock, faults>>

\* The history reaches further back than the last full sync did.
NeedsFullSync(c, from) == c.history = 0 \/ from < c.history

\* load_cursor, and the decision to start a full sync.
LoadCursor(w) ==
  /\ run[w].pc = "load"
  /\ \/ calendar = {} /\ Finish(w)
     \/ \E c \in calendar :
          Goes(w, [pc |-> IF NeedsFullSync(c, run[w].cutoff) THEN "restart" ELSE "list",
                   cutoff |-> run[w].cutoff, cursor |-> c])
  /\ UNCHANGED <<outside, calendar, docs, clock, queued, faults>>

FromToken(c) == c.sync # 0 \/ c.page # NoPage

\* A page arrives.
ListEvents(w) ==
  /\ run[w].pc = "list" /\ live /\ listed
  /\ Goes(w, [pc |-> "begin", cutoff |-> run[w].cutoff, cursor |-> run[w].cursor,
              page |-> Page(run[w].cursor)])
  /\ UNCHANGED <<outside, calendar, docs, clock, queued, faults>>

\* Google refuses the stored tokens (410, or a rejection), or the calendar: a
\* full sync replaces tokens, and a refused full sync ends the task.
ListRefused(w) ==
  /\ run[w].pc = "list" /\ live
  /\ \/ ~listed /\ UNCHANGED faults
     \/ FromToken(run[w].cursor) /\ Fault("expiry")
  /\ IF FromToken(run[w].cursor)
     THEN Goes(w, [pc |-> "restart", cutoff |-> run[w].cutoff, cursor |-> run[w].cursor])
     ELSE Finish(w)
  /\ UNCHANGED <<outside, calendar, docs, clock, queued>>

\* The credential cannot be loaded: the attempt fails, and is retried or was
\* the last one.
ListFails(w) ==
  /\ run[w].pc = "list" /\ ~live
  /\ Finish(w)
  /\ queued' \in {queued, OneMore}
  /\ UNCHANGED <<outside, calendar, docs, clock, faults>>

\* restart_full_sync begins its transaction, which fixes NOW().
BeginRestart(w) ==
  /\ run[w].pc = "restart"
  /\ clock' = clock + 1
  /\ Goes(w, [pc |-> "restarting", cutoff |-> run[w].cutoff,
              cursor |-> run[w].cursor, now |-> clock + 1])
  /\ UNCHANGED <<outside, calendar, docs, queued, faults>>

\* Mutant: the start of the full sync is not recorded.
RestartUndated(w) ==
  /\ run[w].pc = "restarting"
  /\ IF run[w].cursor \in calendar
     THEN /\ calendar' = {[Fresh EXCEPT !.history = run[w].cutoff]}
          /\ Goes(w, [pc |-> "load", cutoff |-> run[w].cutoff])
     ELSE UNCHANGED calendar /\ Finish(w)
  /\ UNCHANGED <<outside, docs, clock, queued, faults>>

\* restart_full_sync, once it has the row: superseded if the cursor moved.
RestartFullSync(w) ==
  /\ run[w].pc = "restarting"
  /\ IF run[w].cursor \in calendar
     THEN /\ calendar' = {[Fresh EXCEPT !.started = run[w].now,
                                        !.history = run[w].cutoff]}
          /\ Goes(w, [pc |-> "load", cutoff |-> run[w].cutoff])
     ELSE UNCHANGED calendar /\ Finish(w)
  /\ UNCHANGED <<outside, docs, clock, queued, faults>>

BeginApply(w) ==
  /\ run[w].pc = "begin"
  /\ Goes(w, [pc |-> "apply", cutoff |-> run[w].cutoff, cursor |-> run[w].cursor,
              page |-> run[w].page, now |-> clock])
  /\ UNCHANGED <<outside, calendar, docs, clock, queued, faults>>

\* Mutant: an event is published next to its older document.
PublishAgain(page, from, now) ==
  docs \cup {[id |-> i.id, at |-> i.at, end |-> i.end, seen |-> now] :
             i \in {x \in page.items : x.on /\ x.end >= from}}

\* The page's events are published; cancelled ones and those that ended before
\* the cutoff are removed.
Publish(page, from, now) ==
  {d \in docs : \A i \in page.items : i.id # d.id}
    \cup {[id |-> i.id, at |-> i.at, end |-> i.end, seen |-> now] :
          i \in {x \in page.items : x.on /\ x.end >= from}}

\* The last page: what a full sync did not list is gone, and what aged out.
Sweep(D, c, from) ==
  {d \in D : ~(c.started # 0 /\ d.seen < c.started) /\ d.end >= from}

Advance(c, page) ==
  IF page.last
  THEN [c EXCEPT !.sync = page.at, !.page = NoPage, !.started = 0, !.tag = page.tag]
  ELSE [c EXCEPT !.page = [at |-> page.at, pos |-> page.pos], !.tag = page.tag]

\* Mutant: the page is applied whatever became of the cursor.
ApplyStale(w) ==
  /\ run[w].pc = "apply"
  /\ LET c == run[w].cursor  page == run[w].page  from == run[w].cutoff IN
     IF calendar # {}
     THEN LET D == Publish(page, from, run[w].now) IN
          /\ docs' = IF page.last THEN Sweep(D, c, from) ELSE D
          /\ calendar' = {Advance(c, page)}
          /\ IF page.last THEN Finish(w) ELSE Goes(w, [pc |-> "load", cutoff |-> from])
     ELSE UNCHANGED <<calendar, docs>> /\ Finish(w)
  /\ UNCHANGED <<outside, clock, queued, faults>>

\* apply_page, once it has the row: nothing is stored if the cursor moved.
ApplyPage(w) ==
  /\ run[w].pc = "apply"
  /\ LET c == run[w].cursor  page == run[w].page  from == run[w].cutoff IN
     IF c \in calendar
     THEN LET D == Publish(page, from, run[w].now) IN
          /\ docs' = IF page.last THEN Sweep(D, c, from) ELSE D
          /\ calendar' = {Advance(c, page)}
          /\ IF page.last THEN Finish(w) ELSE Goes(w, [pc |-> "load", cutoff |-> from])
     ELSE UNCHANGED <<calendar, docs>> /\ Finish(w)
  /\ UNCHANGED <<outside, clock, queued, faults>>

\* An attempt ends anywhere: an error, a crash, a lost lease.  A sync task waits
\* again, or that was its last attempt; the others return with the next tick.
AttemptFails(w) ==
  /\ run[w] # Idle
  /\ Fault("attempt")
  /\ Finish(w)
  /\ queued' \in IF w \in Workers THEN {queued, OneMore} ELSE {queued}
  /\ UNCHANGED <<outside, calendar, docs, clock>>

-----------------------------------------------------------------------------

Environment ==
  \/ \E e \in Events, on \in BOOLEAN, end \in Ends : EventChanges(e, on, end)
  \/ Relist \/ Toggle \/ Age \/ RaiseHistory

Step(w) ==
  \/ RecordDiscovery(w) \/ RemoveUnretained(w)
  \/ LoadCursor(w) \/ ListEvents(w) \/ ListRefused(w) \/ ListFails(w)
  \/ BeginRestart(w) \/ RestartFullSync(w) \/ BeginApply(w) \/ ApplyPage(w)

Next ==
  \/ Environment
  \/ \E w \in Listers : Discover(w) \/ Reconcile(w)
  \/ \E w \in Workers : StartSync(w)
  \/ \E w \in Tasks : Step(w) \/ AttemptFails(w)

Spec == Init /\ [][Next]_vars

\* The scheduler ticks, the queue hands out tasks in order of their time, and a
\* handler that nothing stops goes on.
FairSpec ==
  /\ Spec
  /\ SF_vars(\E w \in Listers : Discover(w))
  /\ SF_vars(\E w \in Listers : Reconcile(w))
  /\ SF_vars(\E w \in Workers : StartSync(w))
  /\ \A w \in Tasks : WF_vars(Step(w))

-----------------------------------------------------------------------------
(* Properties.                                                             *)

Cursors == [sync : Nat, page : [at : Nat, pos : Nat], started : Nat, history : Nat,
            tag : Nat]

\* One row at most, one document per event, and no document without the row.
TypeOK ==
  /\ calendar \subseteq Cursors /\ Cardinality(calendar) <= 1
  /\ docs \subseteq [id : Events, at : 1..changes, end : Ends, seen : 1..clock]
  /\ \A d1, d2 \in docs : d1.id = d2.id => d1 = d2
  /\ calendar = {} => docs = {}
  /\ queued \in 0..MaxQueued

\* The calendar is synced up to its sync token, for the current history.
Synced(c) == c.sync # 0 /\ c.page = NoPage /\ c.started = 0 /\ c.history <= cutoff

\* A completed sync missed nothing: an event that did not change after the sync
\* token was given out is published as it is if it is on and recent enough, and
\* is not published if it was cancelled.  This is what "concurrent syncs cannot
\* interleave" (Cursor, apply_page) is for: the next sync asks only for what
\* changed since the token, so what a sync lost would stay lost.
NothingMissed ==
  \A c \in calendar : Synced(c) =>
    \A e \in Events : event[e].at <= c.sync =>
      /\ event[e].on /\ event[e].end >= cutoff =>
           \E d \in docs : d.id = e /\ d.at = event[e].at
      /\ ~event[e].on => \A d \in docs : d.id # e

Published == {[id |-> d.id, at |-> d.at] : d \in docs}
Current == {[id |-> e, at |-> event[e].at] :
            e \in {x \in Events : event[x].on /\ event[x].end >= cutoff}}

\* Once nothing changes any more, what is published is what the credential can
\* read: all of it while the calendar is listed, none of it once the calendar
\* is no longer listed or the credential is dead.
Settles == <>[](Published = IF listed /\ live THEN Current ELSE {})

\* README: "Raising the value starts a full sync that backfills the older
\* events".
Backfilled == <>[](listed /\ live => Current \subseteq Published)
=============================================================================
