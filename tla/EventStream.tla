----------------------------- MODULE EventStream -----------------------------
(***************************************************************************)
(* The durable event log of one session thread and the streams clients     *)
(* read from it: the transactions that append events under the per-thread  *)
(* advisory lock, the LISTEN/NOTIFY wake-up with its safety tick, the      *)
(* `after_event_id' cursor of a stream, and the retention sweep.           *)
(*                                                                         *)
(* Sources: crates/centaur-session-sqlx/src/lib.rs (insert_session_event   *)
(* and its callers, list_events_after), its migrations 0001 and 0002,      *)
(* crates/centaur-session-runtime/src/lib.rs (session_event_stream) and    *)
(* retention.rs, crates/centaur-api-server/src/activity_summary.rs.        *)
(*                                                                         *)
(* An append is several steps (fence, lock, check, identity value, commit) *)
(* because readers see only what has committed.                            *)
(***************************************************************************)
EXTENDS Naturals, Sequences, FiniteSets

CONSTANTS
    Executions,   \* executions of the thread
    Writers,      \* database connections that append events
    Readers,      \* client streams
    Batch,        \* rows per read: the `limit 100' of list_events_after
    MaxId,        \* bound on identity values drawn
    MaxDrops      \* bound on broken streams

NoOne == "no one"
Thread == "whole thread"    \* the scope of a stream without execution_id

Kinds == {"output",    \* append_event_if_stdout_owner
          "progress",  \* append_active_execution_event_unless_recent
          "terminal",  \* the event that follows the fenced end of the row
          "note"}      \* any other append_event about an execution

ASSUME StreamAssumption ==
    /\ NoOne \notin Writers
    /\ Thread \notin Executions
    /\ Executions # {}
    /\ Batch \in Nat \ {0}
    /\ MaxId \in Nat
    /\ MaxDrops \in Nat

VARIABLES
    row,        \* session_executions.status, as far as appends read it
    txn,        \* what each connection is doing
    lock,       \* holder of pg_advisory_xact_lock('centaur:session-events:' || thread)
    lastId,     \* last value drawn from the identity of session_events
    events,     \* committed rows of session_events
    recent,     \* progress updates committed within the current window
    scope,      \* what each stream was asked for
    pc,         \* "closed", "reading", "waiting" or "complete"
    after,      \* after_event_id of the stream, kept by its client
    pending,    \* rows read and not yet emitted
    done,       \* the stream has emitted a terminal event it was waiting for
    notes,      \* notifications queued at the stream's listener
    received,   \* event ids the client was given, in order
    drops       \* broken streams left in the budget

logVars == <<row, txn, lock, lastId, events, recent>>
streamVars == <<scope, pc, after, pending, done, notes, received, drops>>
vars == <<row, txn, lock, lastId, events, recent, scope, pc, after, pending,
          done, notes, received, drops>>

Txn(at, k, e, i) == [at |-> at, kind |-> k, exec |-> e, id |-> i]
Free == Txn("idle", "note", CHOOSE e \in Executions : TRUE, 0)
Event(i, k, e) == [id |-> i, kind |-> k, exec |-> e]

Init ==
    /\ row = [e \in Executions |-> "active"]
    /\ txn = [w \in Writers |-> Free]
    /\ lock = NoOne
    /\ lastId = 0
    /\ events = {}
    /\ recent = [e \in Executions |-> 0]
    /\ scope \in [Readers -> Executions \cup {Thread}]
    /\ pc = [r \in Readers |-> "closed"]
    /\ after = [r \in Readers |-> 0]
    /\ pending = [r \in Readers |-> {}]
    /\ done = [r \in Readers |-> FALSE]
    /\ notes = [r \in Readers |-> {}]
    /\ received = [r \in Readers |-> <<>>]
    /\ drops = MaxDrops

-----------------------------------------------------------------------------
(* Appending *)

Move(w, at) == txn' = [txn EXCEPT ![w].at = at]
Finish(w) == txn' = [txn EXCEPT ![w] = Free]

(* The update that opens append_event_if_stdout_owner, and the terminal update
   of a row, lock the row until their transaction ends. *)
RowLocked(e) ==
    \E w \in Writers : /\ txn[w].at # "idle"
                       /\ txn[w].kind = "output" /\ txn[w].exec = e

(* A connection starts an append.  An output line needs its execution active
   and holds the row; notes are appended whatever the row says, and so are the
   progress updates at this point: the job read the row before its model call. *)
Begin(w, k, e) ==
    /\ txn[w].at = "idle"
    /\ k \in {"output", "progress", "note"}
    /\ k = "output" => row[e] = "active" /\ ~RowLocked(e)
    /\ txn' = [txn EXCEPT ![w] = Txn("begun", k, e, 0)]
    /\ UNCHANGED <<row, lock, lastId, events, recent, streamVars>>

(* The fenced terminal update commits; its winner appends the terminal event. *)
EndExecution(w, e) ==
    /\ txn[w].at = "idle"
    /\ row[e] = "active" /\ ~RowLocked(e)
    /\ row' = [row EXCEPT ![e] = "ended"]
    /\ txn' = [txn EXCEPT ![w] = Txn("begun", "terminal", e, 0)]
    /\ UNCHANGED <<lock, lastId, events, recent, streamVars>>

(* Mutant: nobody waits for the thread's event lock. *)
AppendWithoutLock(w) ==
    /\ txn[w].at = "begun"
    /\ Move(w, "locked")
    /\ UNCHANGED <<row, lock, lastId, events, recent, streamVars>>

AcquireLock(w) ==
    /\ txn[w].at = "begun"
    /\ lock = NoOne
    /\ lock' = w
    /\ Move(w, "locked")
    /\ UNCHANGED <<row, lastId, events, recent, streamVars>>

(* Mutant: the check of the execution's row is left to the caller. *)
CheckRecentOnly(w) ==
    /\ txn[w].at = "locked" /\ txn[w].kind = "progress"
    /\ IF recent[txn[w].exec] = 0
       THEN Move(w, "checked") /\ UNCHANGED lock
       ELSE Finish(w) /\ lock' = NoOne
    /\ UNCHANGED <<row, lastId, events, recent, streamVars>>

(* Mutant: the check does not look for a recent update. *)
CheckActiveOnly(w) ==
    /\ txn[w].at = "locked" /\ txn[w].kind = "progress"
    /\ IF row[txn[w].exec] = "active"
       THEN Move(w, "checked") /\ UNCHANGED lock
       ELSE Finish(w) /\ lock' = NoOne
    /\ UNCHANGED <<row, lastId, events, recent, streamVars>>

(* The check of append_active_execution_event_unless_recent, a statement of its
   own under the lock; a refusal commits nothing. *)
CheckProgress(w) ==
    /\ txn[w].at = "locked" /\ txn[w].kind = "progress"
    /\ IF row[txn[w].exec] = "active" /\ recent[txn[w].exec] = 0
       THEN Move(w, "checked") /\ UNCHANGED lock
       ELSE Finish(w) /\ lock' = NoOne
    /\ UNCHANGED <<row, lastId, events, recent, streamVars>>

(* The insert draws its identity value once it has the lock. *)
Insert(w) ==
    /\ \/ txn[w].at = "locked" /\ txn[w].kind # "progress"
       \/ txn[w].at = "checked"
    /\ lastId < MaxId
    /\ lastId' = lastId + 1
    /\ txn' = [txn EXCEPT ![w] = Txn("inserted", @.kind, @.exec, lastId + 1)]
    /\ UNCHANGED <<row, lock, events, recent, streamVars>>

(* Mutant: the row is published before it has its identity value. *)
CommitBeforeInsert(w) ==
    /\ txn[w].at \in {"locked", "inserted"}
    /\ events' = events \cup {Event(txn[w].id, txn[w].kind, txn[w].exec)}
    /\ lock' = NoOne
    /\ Finish(w)
    /\ UNCHANGED <<row, lastId, recent, streamVars>>

(* The row becomes visible, the trigger's notification goes to every listener
   and the lock is released. *)
Commit(w) ==
    /\ txn[w].at = "inserted"
    /\ events' = events \cup {Event(txn[w].id, txn[w].kind, txn[w].exec)}
    /\ recent' = [recent EXCEPT ![txn[w].exec] =
                      IF txn[w].kind = "progress" THEN @ + 1 ELSE @]
    /\ notes' = [r \in Readers |-> IF pc[r] \in {"reading", "waiting"}
                                   THEN notes[r] \cup {txn[w].id} ELSE notes[r]]
    /\ lock' = IF lock = w THEN NoOne ELSE lock
    /\ Finish(w)
    /\ UNCHANGED <<row, lastId, scope, pc, after, pending, done, received, drops>>

(* A lost connection or a stopped process: the transaction rolls back, its
   identity value is not used again. *)
Rollback(w) ==
    /\ txn[w].at # "idle"
    /\ Finish(w)
    /\ lock' = IF lock = w THEN NoOne ELSE lock
    /\ UNCHANGED <<row, lastId, events, recent, streamVars>>

(* The window of the last progress update passes, if its transaction waited
   long enough for the lock as soon as it has committed: created_at is the
   time the transaction began. *)
WindowPasses(e) ==
    /\ recent[e] > 0
    /\ recent' = [recent EXCEPT ![e] = 0]
    /\ UNCHANGED <<row, txn, lock, lastId, events, streamVars>>

(* Mutant: the sweep deletes events of every type. *)
SweepEverything(e) ==
    /\ row[e] = "ended"
    /\ \E n \in {ev.id : ev \in events} :
        events' = {ev \in events : ~(ev.exec = e /\ ev.id <= n)}
    /\ UNCHANGED <<row, txn, lock, lastId, recent, streamVars>>

(* One batch of delete_stdout_events_older_than: the oldest output lines of an
   execution that ended before the cutoff. *)
RetentionSweep(e) ==
    /\ row[e] = "ended"
    /\ \E n \in {ev.id : ev \in {x \in events : x.exec = e /\ x.kind = "output"}} :
        events' = {ev \in events : ~(ev.exec = e /\ ev.kind = "output" /\ ev.id <= n)}
    /\ UNCHANGED <<row, txn, lock, lastId, recent, streamVars>>

-----------------------------------------------------------------------------
(* Reading *)

Wanted(r, ev) == scope[r] \in {Thread, ev.exec}

(* list_events_after: the first rows after the cursor, by event_id. *)
ListEventsAfter(r) ==
    LET rows == {ev \in events : Wanted(r, ev) /\ ev.id > after[r]}
    IN  {ev \in rows : Cardinality({x \in rows : x.id < ev.id}) < Batch}

(* stream_events: LISTEN first, then the cursor the client asks for, which is
   the last event it was given. *)
Open(r) ==
    /\ pc[r] = "closed"
    /\ pc' = [pc EXCEPT ![r] = "reading"]
    /\ notes' = [notes EXCEPT ![r] = {}]
    /\ UNCHANGED <<logVars, scope, after, pending, done, received, drops>>

Read(r) ==
    /\ pc[r] = "reading"
    /\ pending[r] = {} /\ ~done[r]
    /\ pending' = [pending EXCEPT ![r] = ListEventsAfter(r)]
    /\ pc' = [pc EXCEPT ![r] = IF ListEventsAfter(r) = {} THEN "waiting" ELSE @]
    /\ UNCHANGED <<logVars, scope, after, done, notes, received, drops>>

(* The client takes the next pending event; the cursor follows it. *)
Emit(r) ==
    /\ pc[r] = "reading"
    /\ \E ev \in pending[r] :
        /\ \A x \in pending[r] : ev.id <= x.id
        /\ pending' = [pending EXCEPT ![r] = @ \ {ev}]
        /\ after' = [after EXCEPT ![r] = ev.id]
        /\ received' = [received EXCEPT ![r] = Append(@, ev.id)]
        /\ done' = [done EXCEPT ![r] = @ \/ (scope[r] # Thread /\ ev.kind = "terminal")]
    /\ UNCHANGED <<logVars, scope, pc, notes, drops>>

(* Nothing pending after the terminal event: the response completes. *)
Complete(r) ==
    /\ pc[r] = "reading"
    /\ pending[r] = {} /\ done[r]
    /\ pc' = [pc EXCEPT ![r] = "complete"]
    /\ UNCHANGED <<logVars, scope, after, pending, done, notes, received, drops>>

(* A notification wakes the stream when it is about an event past its cursor. *)
Notified(r) ==
    /\ pc[r] = "waiting"
    /\ \E n \in notes[r] :
        /\ \A m \in notes[r] : n <= m
        /\ notes' = [notes EXCEPT ![r] = @ \ {n}]
        /\ pc' = [pc EXCEPT ![r] = IF n > after[r] THEN "reading" ELSE @]
    /\ UNCHANGED <<logVars, scope, after, pending, done, received, drops>>

(* Mutant: the stream relies on notifications alone. *)
NeverTick(r) == FALSE /\ UNCHANGED vars

(* The 30 s safety tick. *)
SafetyTick(r) ==
    /\ pc[r] = "waiting"
    /\ pc' = [pc EXCEPT ![r] = "reading"]
    /\ UNCHANGED <<logVars, scope, after, pending, done, notes, received, drops>>

(* The listener's connection is replaced: what was queued for it is lost. *)
NotificationsLost(r) ==
    /\ pc[r] = "waiting"
    /\ notes[r] # {}
    /\ notes' = [notes EXCEPT ![r] = {}]
    /\ UNCHANGED <<logVars, scope, pc, after, pending, done, received, drops>>

(* A store error, or the client's connection breaks: what was read and not
   emitted is lost, the client still knows its last event. *)
StreamBreaks(r) ==
    /\ pc[r] \in {"reading", "waiting"}
    /\ ~done[r]
    /\ drops > 0
    /\ drops' = drops - 1
    /\ pc' = [pc EXCEPT ![r] = "closed"]
    /\ pending' = [pending EXCEPT ![r] = {}]
    /\ notes' = [notes EXCEPT ![r] = {}]
    /\ UNCHANGED <<logVars, scope, after, done, received>>

-----------------------------------------------------------------------------
AppendStep(w) ==
    AcquireLock(w) \/ CheckProgress(w) \/ Insert(w) \/ Commit(w)

StreamStep(r) == Open(r) \/ Read(r) \/ Emit(r) \/ Complete(r) \/ Notified(r)

Next ==
    \/ \E w \in Writers :
        \/ AppendStep(w) \/ Rollback(w)
        \/ \E e \in Executions :
            EndExecution(w, e) \/ \E k \in Kinds : Begin(w, k, e)
    \/ \E e \in Executions : WindowPasses(e) \/ RetentionSweep(e)
    \/ \E r \in Readers :
        \/ StreamStep(r) \/ SafetyTick(r)
        \/ NotificationsLost(r) \/ StreamBreaks(r)

Spec == Init /\ [][Next]_vars

(* Clients read their streams and reopen a broken one, and the interval of the
   safety tick elapses.  Nothing is assumed of the writers: a connection may
   stay in any transaction, and notifications may be late or lost. *)
FairSpec ==
    /\ Spec
    /\ \A r \in Readers :
        /\ WF_vars(Open(r)) /\ WF_vars(Read(r)) /\ WF_vars(Emit(r))
        /\ WF_vars(Complete(r)) /\ WF_vars(SafetyTick(r))

-----------------------------------------------------------------------------
(* Properties *)

Rows == [id: 1 .. MaxId, kind: Kinds, exec: Executions]

(* Every variable stays in its domain. *)
TypeOK ==
    /\ row \in [Executions -> {"active", "ended"}]
    /\ txn \in [Writers -> [at: {"idle", "begun", "locked", "checked", "inserted"},
                            kind: Kinds, exec: Executions, id: 0 .. MaxId]]
    /\ lock \in Writers \cup {NoOne}
    /\ lastId \in 0 .. MaxId
    /\ events \subseteq Rows
    /\ recent \in [Executions -> Nat]
    /\ scope \in [Readers -> Executions \cup {Thread}]
    /\ pc \in [Readers -> {"closed", "reading", "waiting", "complete"}]
    /\ after \in [Readers -> 0 .. MaxId]
    /\ pending \in [Readers -> SUBSET Rows]
    /\ done \in [Readers -> BOOLEAN]
    /\ notes \in [Readers -> SUBSET (1 .. MaxId)]
    /\ received \in [Readers -> Seq(1 .. MaxId)]
    /\ drops \in Nat

Got(r) == {received[r][i] : i \in DOMAIN received[r]}

(* The cursor never passes an event the client was not given: every stored
   event up to after_event_id was emitted, across breaks and reopenings
   ("Serialized per thread so event ids commit in order for `after_event_id`
   readers"). *)
NothingSkipped ==
    \A r \in Readers : \A ev \in events :
        Wanted(r, ev) /\ ev.id <= after[r] => ev.id \in Got(r)

(* A client is given events in the order of their ids, none of them twice. *)
DeliveredInOrder ==
    \A r \in Readers : \A i, j \in DOMAIN received[r] :
        i < j => received[r][i] < received[r][j]

(* No output line and no progress update of an execution is stored behind its
   terminal event ("nothing lands after the terminal event"). *)
NothingBehindTerminal ==
    \A x, y \in events :
        x.exec = y.exec /\ x.kind = "terminal" /\ y.kind \in {"output", "progress"}
            => y.id < x.id

(* Replicas that race to publish a progress update publish one per window
   ("competing api-rs replicas publish once"). *)
OneUpdatePerWindow == \A e \in Executions : recent[e] <= 1

Ended(e) == \E ev \in events : ev.kind = "terminal" /\ ev.exec = e

(* A stream of one execution completes once the terminal event is stored, even
   when every notification is lost, the stream breaks and retention deletes
   output meanwhile. *)
ScopedStreamCompletes ==
    \A r \in Readers, e \in Executions :
        Ended(e) /\ scope[r] = e ~> pc[r] = "complete"

(* Every stored event reaches every stream that wants it, unless retention
   deletes it first or the stream has completed. *)
EveryEventArrives ==
    \A r \in Readers, n \in 1 .. MaxId :
        (\E ev \in events : ev.id = n /\ Wanted(r, ev))
            ~> (\/ n \in Got(r) \/ pc[r] = "complete"
                \/ ~\E ev \in events : ev.id = n)
=============================================================================
