-------------------------- MODULE EventStreamProofs --------------------------
(***************************************************************************)
(* Type correctness and the four safety invariants of EventStream, for any *)
(* executions, connections and streams, any batch size and any number of   *)
(* events and breaks.                                                      *)
(*                                                                         *)
(* Two inductive invariants carry the argument.  LogInvariant is about the *)
(* log alone: the holder of the thread's event lock is the only connection *)
(* with an identity value drawn and not yet committed, and that value is   *)
(* above every committed one.  StreamInvariant is about each stream: what  *)
(* it has read and not yet emitted lies above its cursor, below any value  *)
(* still uncommitted, and leaves out no stored event on the way.           *)
(***************************************************************************)
EXTENDS EventStream, FiniteSetTheorems, TLAPS

Holding == {"locked", "checked", "inserted"}

(* Exactly the transactions past their lock statement hold the lock. *)
LockIsHeld == \A w \in Writers : txn[w].at \in Holding <=> lock = w

(* Committed ids are distinct and were drawn; an id that is drawn and not yet
   committed is the last one and lies above them all. *)
IdsInOrder ==
    /\ IsFiniteSet(events)
    /\ \A ev \in events : ev.id <= lastId
    /\ \A x, y \in events : x.id = y.id => x = y
    /\ \A w \in Writers : txn[w].at = "inserted" =>
          /\ txn[w].id = lastId /\ lastId > 0
          /\ \A ev \in events : ev.id < lastId

(* A terminal event, stored or under way, belongs to an ended execution; an
   output line under way to an active one. *)
RowsAgree ==
    /\ \A ev \in events : ev.kind = "terminal" => row[ev.exec] = "ended"
    /\ \A w \in Writers : txn[w].at # "idle" =>
          /\ txn[w].kind = "terminal" => row[txn[w].exec] = "ended"
          /\ txn[w].kind = "output" => row[txn[w].exec] = "active"

(* A progress update past its check: no terminal event of its execution is
   stored, and no other update within the window. *)
CheckStands ==
    \A w \in Writers : txn[w].at \in {"checked", "inserted"} /\ txn[w].kind = "progress" =>
        /\ recent[txn[w].exec] = 0
        /\ \A ev \in events : ev.kind = "terminal" => ev.exec # txn[w].exec

LogInvariant ==
    /\ TypeOK /\ LockIsHeld /\ IdsInOrder /\ RowsAgree /\ CheckStands
    /\ NothingBehindTerminal /\ OneUpdatePerWindow

(* What a stream has seen lies below what has not been committed. *)
SeenIsCommitted(r) ==
    /\ after[r] <= lastId
    /\ \A x \in pending[r] : x.id <= lastId
    /\ \A w \in Writers : txn[w].at = "inserted" =>
          /\ after[r] < txn[w].id
          /\ \A x \in pending[r] : x.id < txn[w].id

(* What is pending lies above the cursor and leaves out no stored event below
   any of its events. *)
PendingIsComplete(r) ==
    /\ \A x \in pending[r] : x.id > after[r]
    /\ \A x, y \in pending[r] : x.id = y.id => x = y
    /\ \A x \in pending[r], ev \in events :
          Wanted(r, ev) /\ ev.id > after[r] /\ ev.id < x.id => ev \in pending[r]

(* What was emitted lies at or below the cursor. *)
EmittedIsBehind(r) == \A i \in DOMAIN received[r] : received[r][i] <= after[r]

StreamInvariant ==
    /\ \A r \in Readers :
          SeenIsCommitted(r) /\ PendingIsComplete(r) /\ EmittedIsBehind(r)
    /\ NothingSkipped /\ DeliveredInOrder

Invariant == LogInvariant /\ StreamInvariant

Txns == [at: {"idle", "begun", "locked", "checked", "inserted"},
         kind: Kinds, exec: Executions, id: 0 .. MaxId]

(* An idle connection is a transaction record. *)
LEMMA FreeType == Free \in Txns /\ Free.at = "idle"
<1>1. (CHOOSE e \in Executions : TRUE) \in Executions
  BY StreamAssumption
<1>2. QED BY <1>1, StreamAssumption DEF Free, Txn, Txns, Kinds

(* A statement that moves a transaction on changes nothing else of it, and
   nothing of the other connections. *)
LEMMA Moved ==
    ASSUME TypeOK, NEW w \in Writers, NEW at \in {"locked", "checked"}, Move(w, at)
    PROVE  /\ txn' \in [Writers -> Txns]
           /\ txn'[w].at = at /\ txn'[w].kind = txn[w].kind
           /\ txn'[w].exec = txn[w].exec
           /\ \A v \in Writers \ {w} : txn'[v] = txn[v]
BY DEF Move, TypeOK, Txns

(* The same for the insert, which also draws an identity value. *)
LEMMA Drawn ==
    ASSUME TypeOK, NEW w \in Writers, Insert(w)
    PROVE  /\ txn' \in [Writers -> Txns]
           /\ txn'[w].at = "inserted" /\ txn'[w].kind = txn[w].kind
           /\ txn'[w].exec = txn[w].exec /\ txn'[w].id = lastId + 1
           /\ \A v \in Writers \ {w} : txn'[v] = txn[v]
<1>1. lastId + 1 \in 0 .. MaxId
  BY StreamAssumption DEF Insert, TypeOK
<1>2. QED BY <1>1 DEF Insert, Txn, TypeOK, Txns

(* The empty log and the closed streams are well typed. *)
LEMMA InitType == Init => TypeOK
<1>1. Init => txn \in [Writers -> Txns]
  BY FreeType DEF Init
<1>2. QED BY <1>1, StreamAssumption DEF Init, TypeOK, Txns, Rows

(* Every step of a connection or a stream keeps every variable in its domain. *)
LEMMA NextType == ASSUME TypeOK, IdsInOrder, Next PROVE TypeOK'
<1> USE StreamAssumption
<1>0. txn \in [Writers -> Txns]
  BY DEF TypeOK, Txns
<1>1. ASSUME NEW w \in Writers, NEW e \in Executions, NEW k \in Kinds, Begin(w, k, e)
      PROVE  TypeOK'
  BY <1>0, <1>1 DEF Begin, Txn, TypeOK, Txns, streamVars
<1>2. ASSUME NEW w \in Writers, NEW e \in Executions, EndExecution(w, e) PROVE TypeOK'
  BY <1>0, <1>2 DEF EndExecution, Txn, TypeOK, Txns, streamVars, Kinds
<1>3. ASSUME NEW w \in Writers, AcquireLock(w) PROVE TypeOK'
  BY <1>0, <1>3 DEF AcquireLock, Move, TypeOK, Txns, streamVars
<1>4. ASSUME NEW w \in Writers, CheckProgress(w) PROVE TypeOK'
  <2>1. CASE Move(w, "checked") /\ UNCHANGED lock
    <3>1. txn' \in [Writers -> Txns]
      BY <2>1, Moved
    <3>2. QED BY <1>4, <2>1, <3>1 DEF CheckProgress, TypeOK, Txns, streamVars
  <2>2. CASE Finish(w) /\ lock' = NoOne
    BY <1>0, <1>4, <2>2, FreeType DEF CheckProgress, Finish, TypeOK, Txns, streamVars
  <2>3. QED BY <1>4, <2>1, <2>2 DEF CheckProgress
<1>5. ASSUME NEW w \in Writers, Insert(w) PROVE TypeOK'
  <2>1. txn' \in [Writers -> Txns]
    BY <1>5, Drawn
  <2>2. lastId' \in 0 .. MaxId
    BY <1>5 DEF Insert, TypeOK
  <2>3. QED BY <1>5, <2>1, <2>2 DEF Insert, TypeOK, Txns, streamVars
<1>6. ASSUME NEW w \in Writers, Commit(w) PROVE TypeOK'
  <2>1. txn[w].id \in 1 .. MaxId
    BY <1>6 DEF Commit, IdsInOrder, TypeOK
  <2>2. Event(txn[w].id, txn[w].kind, txn[w].exec) \in Rows
    BY <1>0, <2>1 DEF Event, Rows, Txns
  <2>3. recent' \in [Executions -> Nat]
    BY <1>0, <1>6 DEF Commit, TypeOK, Txns
  <2>4. notes' \in [Readers -> SUBSET (1 .. MaxId)]
    BY <1>6, <2>1 DEF Commit, TypeOK
  <2>5. events' \subseteq Rows /\ lock' \in Writers \cup {NoOne}
    BY <1>6, <2>2 DEF Commit, TypeOK
  <2>6. txn' \in [Writers -> Txns]
    BY <1>0, <1>6, FreeType DEF Commit, Finish
  <2>7. QED BY <1>6, <2>3, <2>4, <2>5, <2>6 DEF Commit, TypeOK, Txns
<1>7. ASSUME NEW w \in Writers, Rollback(w) PROVE TypeOK'
  BY <1>0, <1>7, FreeType DEF Rollback, Finish, TypeOK, Txns, streamVars
<1>8. ASSUME NEW e \in Executions, WindowPasses(e) PROVE TypeOK'
  BY <1>0, <1>8 DEF WindowPasses, TypeOK, Txns, streamVars
<1>9. ASSUME NEW e \in Executions, RetentionSweep(e) PROVE TypeOK'
  BY <1>0, <1>9 DEF RetentionSweep, TypeOK, Txns, streamVars
<1>10. ASSUME NEW r \in Readers, Open(r) PROVE TypeOK'
  BY <1>0, <1>10 DEF Open, TypeOK, Txns, logVars
<1>11. ASSUME NEW r \in Readers, Read(r) PROVE TypeOK'
  <2>1. ListEventsAfter(r) \subseteq events
    BY DEF ListEventsAfter
  <2>2. QED BY <1>0, <1>11, <2>1 DEF Read, TypeOK, Txns, logVars
<1>12. ASSUME NEW r \in Readers, Emit(r) PROVE TypeOK'
  <2>1. PICK ev \in pending[r] :
          /\ pending' = [pending EXCEPT ![r] = @ \ {ev}]
          /\ after' = [after EXCEPT ![r] = ev.id]
          /\ received' = [received EXCEPT ![r] = Append(@, ev.id)]
          /\ done' = [done EXCEPT ![r] = @ \/ (scope[r] # Thread /\ ev.kind = "terminal")]
    BY <1>12 DEF Emit
  <2>2. ev.id \in 1 .. MaxId
    BY DEF TypeOK, Rows
  <2>3. received' \in [Readers -> Seq(1 .. MaxId)]
    BY <2>1, <2>2 DEF TypeOK
  <2>4. pending' \in [Readers -> SUBSET Rows] /\ after' \in [Readers -> 0 .. MaxId]
        /\ done' \in [Readers -> BOOLEAN]
    BY <2>1, <2>2 DEF TypeOK
  <2>5. QED BY <1>0, <1>12, <2>3, <2>4 DEF Emit, TypeOK, Txns, logVars
<1>13. ASSUME NEW r \in Readers, Complete(r) PROVE TypeOK'
  BY <1>0, <1>13 DEF Complete, TypeOK, Txns, logVars
<1>14. ASSUME NEW r \in Readers, Notified(r) PROVE TypeOK'
  BY <1>0, <1>14 DEF Notified, TypeOK, Txns, logVars
<1>15. ASSUME NEW r \in Readers, SafetyTick(r) PROVE TypeOK'
  BY <1>0, <1>15 DEF SafetyTick, TypeOK, Txns, logVars
<1>16. ASSUME NEW r \in Readers, NotificationsLost(r) PROVE TypeOK'
  BY <1>0, <1>16 DEF NotificationsLost, TypeOK, Txns, logVars
<1>17. ASSUME NEW r \in Readers, StreamBreaks(r) PROVE TypeOK'
  BY <1>0, <1>17 DEF StreamBreaks, TypeOK, Txns, logVars
<1>18. QED
  BY <1>1, <1>2, <1>3, <1>4, <1>5, <1>6, <1>7, <1>8, <1>9, <1>10, <1>11, <1>12,
     <1>13, <1>14, <1>15, <1>16, <1>17
  DEF Next, AppendStep, StreamStep

-----------------------------------------------------------------------------
(* The log.  Steps of streams do not touch it. *)

(* The rest of LogInvariant mentions no variable of the streams. *)
LogRest ==
    /\ LockIsHeld /\ IdsInOrder /\ RowsAgree /\ CheckStands
    /\ NothingBehindTerminal /\ OneUpdatePerWindow

LEMMA LogFrame == ASSUME LogRest, UNCHANGED logVars PROVE LogRest'
BY DEF LogRest, logVars, LockIsHeld, IdsInOrder, RowsAgree, CheckStands,
       NothingBehindTerminal, OneUpdatePerWindow

(* A transaction that has not reached its lock begins. *)
LEMMA LogBegin ==
    ASSUME LogInvariant, NEW w \in Writers, NEW k \in Kinds, NEW e \in Executions,
           Begin(w, k, e)
    PROVE  LogRest'
<1>1. txn'[w] = Txn("begun", k, e, 0) /\ \A v \in Writers \ {w} : txn'[v] = txn[v]
  BY DEF Begin, LogInvariant, TypeOK
<1>2. LockIsHeld'
  BY <1>1 DEF Begin, LogInvariant, LockIsHeld, Holding, Txn
<1>3. IdsInOrder'
  BY <1>1 DEF Begin, LogInvariant, IdsInOrder, Txn
<1>4. RowsAgree'
  BY <1>1 DEF Begin, LogInvariant, RowsAgree, Txn
<1>5. CheckStands'
  BY <1>1 DEF Begin, LogInvariant, CheckStands, Txn
<1>6. QED
  BY <1>2, <1>3, <1>4, <1>5
  DEF LogRest, LogInvariant, Begin, NothingBehindTerminal, OneUpdatePerWindow

(* The terminal update: no output line of the execution is under way. *)
LEMMA LogEnd ==
    ASSUME LogInvariant, NEW w \in Writers, NEW e \in Executions, EndExecution(w, e)
    PROVE  LogRest'
<1>1. txn'[w] = Txn("begun", "terminal", e, 0)
      /\ \A v \in Writers \ {w} : txn'[v] = txn[v]
  BY DEF EndExecution, LogInvariant, TypeOK
<1>2. LockIsHeld'
  BY <1>1 DEF EndExecution, LogInvariant, LockIsHeld, Holding, Txn
<1>3. IdsInOrder'
  BY <1>1 DEF EndExecution, LogInvariant, IdsInOrder, Txn
<1>4. RowsAgree'
  <2>1. row'[e] = "ended" /\ \A d \in Executions \ {e} : row'[d] = row[d]
    BY DEF EndExecution, LogInvariant, TypeOK
  <2>2. \A v \in Writers : txn[v].exec \in Executions
    BY DEF LogInvariant, TypeOK
  <2>3. \A ev \in events : ev.exec \in Executions
    BY DEF LogInvariant, TypeOK, Rows
  <2>4. \A ev \in events' : ev.kind = "terminal" => row'[ev.exec] = "ended"
    BY <2>1, <2>3 DEF EndExecution, LogInvariant, RowsAgree
  <2>5. ASSUME NEW v \in Writers, txn'[v].at # "idle", txn'[v].kind = "terminal"
        PROVE  row'[txn'[v].exec] = "ended"
    BY <1>1, <2>1, <2>2, <2>5 DEF LogInvariant, RowsAgree, Txn
  <2>6. ASSUME NEW v \in Writers, txn'[v].at # "idle", txn'[v].kind = "output"
        PROVE  row'[txn'[v].exec] = "active"
    <3>1. v # w
      BY <1>1, <2>6 DEF Txn
    <3>2. txn[v].exec # e
      BY <1>1, <2>6, <3>1 DEF EndExecution, RowLocked
    <3>3. QED BY <1>1, <2>1, <2>2, <2>6, <3>1, <3>2 DEF LogInvariant, RowsAgree
  <2>7. QED BY <2>4, <2>5, <2>6 DEF RowsAgree
<1>5. CheckStands'
  BY <1>1 DEF EndExecution, LogInvariant, CheckStands, Txn
<1>6. QED
  BY <1>2, <1>3, <1>4, <1>5
  DEF LogRest, LogInvariant, EndExecution, NothingBehindTerminal, OneUpdatePerWindow

(* The lock is free: nobody else is past the lock statement. *)
LEMMA LogLock ==
    ASSUME LogInvariant, NEW w \in Writers, AcquireLock(w) PROVE LogRest'
<1>1. TypeOK /\ Move(w, "locked")
  BY DEF LogInvariant, AcquireLock
<1>2. /\ txn'[w].at = "locked" /\ txn'[w].kind = txn[w].kind
      /\ txn'[w].exec = txn[w].exec
      /\ \A v \in Writers \ {w} : txn'[v] = txn[v]
  BY <1>1, Moved
<1>3. LockIsHeld'
  BY <1>2, StreamAssumption DEF AcquireLock, LogInvariant, LockIsHeld, Holding
<1>4. IdsInOrder'
  BY <1>2 DEF AcquireLock, LogInvariant, IdsInOrder
<1>5. RowsAgree'
  BY <1>2 DEF AcquireLock, LogInvariant, RowsAgree
<1>6. CheckStands'
  BY <1>2 DEF AcquireLock, LogInvariant, CheckStands
<1>7. QED
  BY <1>3, <1>4, <1>5, <1>6
  DEF LogRest, LogInvariant, AcquireLock, NothingBehindTerminal, OneUpdatePerWindow

(* A transaction ends without having written: a refused check, a rollback. *)
LEMMA LogFinish ==
    ASSUME LogInvariant, NEW w \in Writers, Finish(w),
           lock' = IF lock = w THEN NoOne ELSE lock,
           UNCHANGED <<row, lastId, events, recent>>
    PROVE  LogRest'
<1>1. txn'[w].at = "idle" /\ \A v \in Writers \ {w} : txn'[v] = txn[v]
  BY FreeType DEF Finish, LogInvariant, TypeOK
<1>2. LockIsHeld'
  BY <1>1, StreamAssumption DEF LogInvariant, LockIsHeld, Holding
<1>3. IdsInOrder'
  BY <1>1 DEF LogInvariant, IdsInOrder
<1>4. RowsAgree'
  BY <1>1 DEF LogInvariant, RowsAgree
<1>5. CheckStands'
  BY <1>1 DEF LogInvariant, CheckStands
<1>6. QED
  BY <1>2, <1>3, <1>4, <1>5
  DEF LogRest, LogInvariant, NothingBehindTerminal, OneUpdatePerWindow

(* The check of a progress update: the row is active, so that no terminal event
   of the execution is stored yet. *)
LEMMA LogCheck ==
    ASSUME LogInvariant, NEW w \in Writers, CheckProgress(w) PROVE LogRest'
<1>1. lock = w
  BY DEF CheckProgress, LogInvariant, LockIsHeld, Holding
<1>2. CASE row[txn[w].exec] = "active" /\ recent[txn[w].exec] = 0
  <2>1. TypeOK /\ Move(w, "checked") /\ lock' = lock
    BY <1>2 DEF LogInvariant, CheckProgress
  <2>2. /\ txn'[w].at = "checked" /\ txn'[w].kind = txn[w].kind
        /\ txn'[w].exec = txn[w].exec
        /\ \A v \in Writers \ {w} : txn'[v] = txn[v]
    BY <2>1, Moved
  <2>3. LockIsHeld'
    BY <1>1, <2>1, <2>2 DEF LogInvariant, LockIsHeld, Holding
  <2>4. IdsInOrder'
    BY <2>2 DEF CheckProgress, LogInvariant, IdsInOrder
  <2>5. RowsAgree'
    BY <2>2 DEF CheckProgress, LogInvariant, RowsAgree
  <2>6. \A ev \in events : ev.kind = "terminal" => ev.exec # txn[w].exec
    BY <1>2 DEF LogInvariant, RowsAgree
  <2>7. CheckStands'
    BY <1>2, <2>2, <2>6 DEF CheckProgress, LogInvariant, CheckStands
  <2>8. QED
    BY <2>3, <2>4, <2>5, <2>7
    DEF LogRest, LogInvariant, CheckProgress, NothingBehindTerminal, OneUpdatePerWindow
<1>3. CASE ~(row[txn[w].exec] = "active" /\ recent[txn[w].exec] = 0)
  BY <1>1, <1>3, LogFinish DEF CheckProgress
<1>4. QED BY <1>2, <1>3

(* The insert: its holder of the lock is alone, and the value it draws lies
   above every committed one. *)
LEMMA LogInsert ==
    ASSUME LogInvariant, NEW w \in Writers, Insert(w) PROVE LogRest'
<1>1. TypeOK /\ lock = w
  BY DEF LogInvariant, Insert, LockIsHeld, Holding
<1>2. /\ txn'[w].at = "inserted" /\ txn'[w].kind = txn[w].kind
      /\ txn'[w].exec = txn[w].exec /\ txn'[w].id = lastId + 1
      /\ \A v \in Writers \ {w} : txn'[v] = txn[v]
  BY <1>1, Drawn
<1>3. LockIsHeld'
  BY <1>1, <1>2 DEF Insert, LogInvariant, LockIsHeld, Holding
<1>4. IdsInOrder'
  <2>1. \A v \in Writers \ {w} : txn'[v].at # "inserted"
    BY <1>1, <1>2 DEF LogInvariant, LockIsHeld, Holding
  <2>2. lastId \in Nat /\ lastId' = lastId + 1 /\ events' = events
    BY <1>1 DEF Insert, TypeOK
  <2>3. \A ev \in events : ev.id \in Nat /\ ev.id <= lastId
    BY <1>1 DEF LogInvariant, IdsInOrder, TypeOK, Rows
  <2>4. QED BY <1>2, <2>1, <2>2, <2>3 DEF LogInvariant, IdsInOrder
<1>5. RowsAgree'
  BY <1>2 DEF Insert, LogInvariant, RowsAgree
<1>6. CheckStands'
  BY <1>2 DEF Insert, LogInvariant, CheckStands
<1>7. QED
  BY <1>3, <1>4, <1>5, <1>6
  DEF LogRest, LogInvariant, Insert, NothingBehindTerminal, OneUpdatePerWindow

(* The commit: the event becomes visible behind every other. *)
LEMMA LogCommit ==
    ASSUME LogInvariant, NEW w \in Writers, Commit(w) PROVE LogRest'
<1> DEFINE new == Event(txn[w].id, txn[w].kind, txn[w].exec)
<1>1. /\ TypeOK /\ lock = w /\ txn[w].at = "inserted"
      /\ events' = events \cup {new} /\ lastId' = lastId /\ row' = row
  BY DEF LogInvariant, Commit, LockIsHeld, Holding
<1>2. txn'[w].at = "idle" /\ \A v \in Writers \ {w} : txn'[v] = txn[v]
  BY FreeType DEF Commit, Finish, LogInvariant, TypeOK
<1>3. \A v \in Writers \ {w} : txn[v].at \notin Holding
  BY <1>1 DEF LogInvariant, LockIsHeld
<1>4. /\ new.id = lastId /\ new.kind = txn[w].kind /\ new.exec = txn[w].exec
      /\ \A ev \in events : ev.id < lastId
  BY <1>1 DEF LogInvariant, IdsInOrder, Event
<1>5. LockIsHeld'
  BY <1>1, <1>2, <1>3, StreamAssumption DEF Commit, LockIsHeld, Holding
<1>6. IdsInOrder'
  <2>1. IsFiniteSet(events')
    BY <1>1, FS_AddElement DEF LogInvariant, IdsInOrder
  <2>2. \A v \in Writers : txn'[v].at # "inserted"
    BY <1>2, <1>3 DEF Holding
  <2>3. lastId \in Nat /\ \A ev \in events : ev.id \in Nat
    BY <1>1 DEF TypeOK, Rows
  <2>4. \A ev \in events' : ev.id <= lastId'
    BY <1>1, <1>4, <2>3 DEF LogInvariant, IdsInOrder
  <2>5. \A x, y \in events' : x.id = y.id => x = y
    BY <1>1, <1>4, <2>3 DEF LogInvariant, IdsInOrder
  <2>6. QED BY <2>1, <2>2, <2>4, <2>5 DEF IdsInOrder
<1>7. RowsAgree'
  BY <1>1, <1>2, <1>4 DEF LogInvariant, RowsAgree
<1>8. CheckStands'
  BY <1>2, <1>3 DEF CheckStands, Holding
<1>9. NothingBehindTerminal'
  <2> SUFFICES ASSUME NEW x \in events', NEW y \in events', x.exec = y.exec,
                      x.kind = "terminal", y.kind \in {"output", "progress"}
               PROVE  y.id < x.id
    BY DEF NothingBehindTerminal
  <2>1. CASE x \in events /\ y \in events
    BY <2>1 DEF LogInvariant, NothingBehindTerminal
  <2>2. CASE x = new /\ y \in events
    BY <1>4, <2>2
  <2>3. CASE x \in events /\ y = new
    <3>1. row[x.exec] = "ended"
      BY <2>3 DEF LogInvariant, RowsAgree
    <3>2. CASE y.kind = "output"
      BY <1>1, <1>4, <2>3, <3>1, <3>2 DEF LogInvariant, RowsAgree
    <3>3. CASE y.kind = "progress"
      BY <1>1, <1>4, <2>3, <3>3 DEF LogInvariant, CheckStands
    <3>4. QED BY <3>2, <3>3
  <2>4. QED BY <1>1, <2>1, <2>2, <2>3
<1>10. OneUpdatePerWindow'
  <2>1. txn[w].exec \in Executions /\ recent \in [Executions -> Nat]
    BY <1>1 DEF TypeOK
  <2>2. recent' = [recent EXCEPT ![txn[w].exec] =
                     IF txn[w].kind = "progress" THEN @ + 1 ELSE @]
    BY DEF Commit
  <2>3. txn[w].kind = "progress" => recent[txn[w].exec] = 0
    BY <1>1 DEF LogInvariant, CheckStands
  <2>4. QED BY <2>1, <2>2, <2>3 DEF LogInvariant, OneUpdatePerWindow
<1>11. QED
  BY <1>5, <1>6, <1>7, <1>8, <1>9, <1>10 DEF LogRest

(* The window passes. *)
LEMMA LogWindow ==
    ASSUME LogInvariant, NEW e \in Executions, WindowPasses(e) PROVE LogRest'
<1>1. \A d \in Executions : recent'[d] = IF d = e THEN 0 ELSE recent[d]
  BY DEF WindowPasses, LogInvariant, TypeOK
<1>2. \A w \in Writers : txn[w].exec \in Executions
  BY DEF LogInvariant, TypeOK
<1>3. CheckStands'
  BY <1>1, <1>2 DEF WindowPasses, LogInvariant, CheckStands
<1>4. OneUpdatePerWindow'
  BY <1>1 DEF LogInvariant, OneUpdatePerWindow
<1>5. QED
  BY <1>3, <1>4
  DEF LogRest, LogInvariant, WindowPasses, LockIsHeld, IdsInOrder, RowsAgree,
      NothingBehindTerminal

(* Retention only takes events away. *)
LEMMA LogSweep ==
    ASSUME LogInvariant, NEW e \in Executions, RetentionSweep(e) PROVE LogRest'
<1>1. events' \subseteq events
  BY DEF RetentionSweep
<1>2. IsFiniteSet(events')
  BY <1>1, FS_Subset DEF LogInvariant, IdsInOrder
<1>3. UNCHANGED <<row, txn, lock, lastId, recent>>
  BY DEF RetentionSweep
<1>4. IdsInOrder'
  BY <1>1, <1>2, <1>3 DEF LogInvariant, IdsInOrder
<1>5. RowsAgree' /\ CheckStands' /\ NothingBehindTerminal'
  BY <1>1, <1>3 DEF LogInvariant, RowsAgree, CheckStands, NothingBehindTerminal
<1>6. QED
  BY <1>3, <1>4, <1>5 DEF LogRest, LogInvariant, LockIsHeld, OneUpdatePerWindow

(* Every step preserves the invariant of the log. *)
LEMMA LogStep == ASSUME LogInvariant, Next PROVE LogInvariant'
<1>1. TypeOK'
  BY NextType DEF LogInvariant
<1>2. LogRest'
  <2>1. ASSUME NEW r \in Readers,
               StreamStep(r) \/ SafetyTick(r) \/ NotificationsLost(r) \/ StreamBreaks(r)
        PROVE  LogRest'
    <3>1. UNCHANGED logVars
      BY <2>1 DEF StreamStep, SafetyTick, NotificationsLost, StreamBreaks, Open,
                  Read, Emit, Complete, Notified
    <3>2. QED BY <3>1, LogFrame DEF LogInvariant, LogRest
  <2>2. ASSUME NEW w \in Writers, Rollback(w) PROVE LogRest'
    BY <2>2, LogFinish DEF Rollback
  <2>3. QED
    BY <2>1, <2>2, LogBegin, LogEnd, LogLock, LogCheck, LogInsert, LogCommit,
       LogWindow, LogSweep
    DEF Next, AppendStep
<1>3. QED BY <1>1, <1>2 DEF LogInvariant, LogRest

-----------------------------------------------------------------------------
(* The streams. *)

(* Steps that store no event, draw no id and leave the cursors, the pending and
   the emitted events alone: most of Next. *)
LEMMA StreamFrame ==
    ASSUME StreamInvariant, UNCHANGED <<scope, after, pending, received, lastId>>,
           events' \subseteq events,
           \A w \in Writers : txn'[w].at = "inserted" =>
                                 txn[w].at = "inserted" /\ txn'[w].id = txn[w].id
    PROVE  StreamInvariant'
<1>1. \A r \in Readers : SeenIsCommitted(r)'
  BY DEF StreamInvariant, SeenIsCommitted
<1>2. \A r \in Readers : PendingIsComplete(r)'
  BY DEF StreamInvariant, PendingIsComplete, Wanted
<1>3. \A r \in Readers : EmittedIsBehind(r)'
  BY DEF StreamInvariant, EmittedIsBehind
<1>4. NothingSkipped' /\ DeliveredInOrder'
  BY DEF StreamInvariant, NothingSkipped, DeliveredInOrder, Wanted, Got
<1>5. QED BY <1>1, <1>2, <1>3, <1>4 DEF StreamInvariant

(* The steps of connections other than insert and commit are such steps. *)
LEMMA StreamOther ==
    ASSUME LogInvariant, StreamInvariant, NEW w \in Writers,
           \/ AcquireLock(w) \/ CheckProgress(w) \/ Rollback(w)
           \/ \E e \in Executions : EndExecution(w, e) \/ \E k \in Kinds : Begin(w, k, e)
    PROVE  StreamInvariant'
<1>1. TypeOK
  BY DEF LogInvariant
<1>2. UNCHANGED <<scope, after, pending, received, lastId, events>>
  BY DEF AcquireLock, CheckProgress, Rollback, EndExecution, Begin, streamVars
<1>3. txn'[w].at # "inserted" /\ \A v \in Writers \ {w} : txn'[v] = txn[v]
  <2>1. CASE Move(w, "locked") \/ Move(w, "checked")
    BY <1>1, <2>1, Moved
  <2>2. CASE Finish(w)
    BY <1>1, <2>2, FreeType DEF Finish, TypeOK
  <2>3. CASE \E e \in Executions : EndExecution(w, e) \/ \E k \in Kinds : Begin(w, k, e)
    BY <1>1, <2>3 DEF EndExecution, Begin, Txn, TypeOK
  <2>4. QED BY <2>1, <2>2, <2>3 DEF AcquireLock, CheckProgress, Rollback
<1>4. QED BY <1>2, <1>3, StreamFrame

(* The insert: whatever a stream has seen was drawn earlier. *)
LEMMA StreamInsert ==
    ASSUME LogInvariant, StreamInvariant, NEW w \in Writers, Insert(w)
    PROVE  StreamInvariant'
<1>1. TypeOK /\ lastId \in Nat /\ lastId' = lastId + 1
      /\ UNCHANGED <<scope, after, pending, received, events>>
  BY DEF LogInvariant, TypeOK, Insert, streamVars
<1>2. \A v \in Writers : txn'[v].at = "inserted" => v = w /\ txn'[v].id = lastId + 1
  <2>1. txn'[w].id = lastId + 1 /\ \A v \in Writers \ {w} : txn'[v] = txn[v]
    BY <1>1, Drawn
  <2>2. lock = w
    BY DEF Insert, LogInvariant, LockIsHeld, Holding
  <2>3. QED BY <2>1, <2>2 DEF LogInvariant, LockIsHeld, Holding
<1>3. \A r \in Readers : SeenIsCommitted(r)'
  <2>1. \A r \in Readers : after[r] \in Nat /\ \A x \in pending[r] : x.id \in Nat
    BY <1>1 DEF TypeOK, Rows
  <2>2. QED BY <1>1, <1>2, <2>1 DEF StreamInvariant, SeenIsCommitted
<1>4. \A r \in Readers : PendingIsComplete(r)' /\ EmittedIsBehind(r)'
  BY <1>1 DEF StreamInvariant, PendingIsComplete, EmittedIsBehind, Wanted
<1>5. NothingSkipped' /\ DeliveredInOrder'
  BY <1>1 DEF StreamInvariant, NothingSkipped, DeliveredInOrder, Wanted, Got
<1>6. QED BY <1>3, <1>4, <1>5 DEF StreamInvariant

(* The commit: the new event lies above every cursor and everything pending, so
   that no stream has passed it. *)
LEMMA StreamCommit ==
    ASSUME LogInvariant, StreamInvariant, NEW w \in Writers, Commit(w)
    PROVE  StreamInvariant'
<1> DEFINE new == Event(txn[w].id, txn[w].kind, txn[w].exec)
<1>1. /\ TypeOK /\ lock = w /\ txn[w].at = "inserted" /\ events' = events \cup {new}
      /\ UNCHANGED <<scope, after, pending, received, lastId>>
  BY DEF LogInvariant, Commit, LockIsHeld, Holding
<1>2. \A v \in Writers : txn'[v].at # "inserted"
  <2>1. txn'[w].at = "idle" /\ \A v \in Writers \ {w} : txn'[v] = txn[v]
    BY FreeType DEF Commit, Finish, LogInvariant, TypeOK
  <2>2. QED BY <1>1, <2>1 DEF LogInvariant, LockIsHeld, Holding
<1>3. \A r \in Readers : /\ after[r] \in Nat /\ new.id \in Nat /\ new.id > after[r]
                         /\ \A x \in pending[r] : x.id \in Nat /\ x.id < new.id
  BY <1>1 DEF StreamInvariant, SeenIsCommitted, Event, TypeOK, Rows
<1>4. \A r \in Readers : SeenIsCommitted(r)'
  BY <1>1, <1>2 DEF StreamInvariant, SeenIsCommitted
<1>5. \A r \in Readers : PendingIsComplete(r)'
  BY <1>1, <1>3 DEF StreamInvariant, PendingIsComplete, Wanted
<1>6. \A r \in Readers : EmittedIsBehind(r)'
  BY <1>1 DEF StreamInvariant, EmittedIsBehind
<1>7. NothingSkipped'
  BY <1>1, <1>3 DEF StreamInvariant, NothingSkipped, Wanted, Got
<1>8. DeliveredInOrder'
  BY <1>1 DEF StreamInvariant, DeliveredInOrder
<1>9. QED BY <1>4, <1>5, <1>6, <1>7, <1>8 DEF StreamInvariant

(* A batch of list_events_after leaves out no event below one it has. *)
LEMMA BatchIsComplete ==
    ASSUME LogInvariant, NEW r \in Readers,
           NEW x \in ListEventsAfter(r), NEW ev \in events,
           Wanted(r, ev), ev.id > after[r], ev.id < x.id
    PROVE  ev \in ListEventsAfter(r)
<1> DEFINE rows == {y \in events : Wanted(r, y) /\ y.id > after[r]}
           Below(z) == {y \in rows : y.id < z.id}
<1>1. x \in rows /\ ev \in rows
  BY DEF ListEventsAfter
<1>2. \A y \in rows : y.id \in Nat
  BY DEF LogInvariant, TypeOK, Rows
<1>3. Below(ev) \subseteq Below(x)
  BY <1>1, <1>2
<1>4. IsFiniteSet(Below(x))
  <2>1. Below(x) \subseteq events
    OBVIOUS
  <2>2. QED BY <2>1, FS_Subset DEF LogInvariant, IdsInOrder
<1>5. /\ IsFiniteSet(Below(ev)) /\ Cardinality(Below(ev)) <= Cardinality(Below(x))
  BY <1>3, <1>4, FS_Subset
<1>6. Cardinality(Below(ev)) \in Nat /\ Cardinality(Below(x)) \in Nat
  BY <1>4, <1>5, FS_CardinalityType
<1>7. Cardinality(Below(x)) < Batch
  BY DEF ListEventsAfter
<1>8. Cardinality(Below(ev)) < Batch
  BY <1>5, <1>6, <1>7, StreamAssumption
<1>9. QED BY <1>1, <1>8 DEF ListEventsAfter

(* A read takes a batch of committed events above the cursor. *)
LEMMA StreamRead ==
    ASSUME LogInvariant, StreamInvariant, NEW r \in Readers, Read(r)
    PROVE  StreamInvariant'
<1>1. /\ pending'[r] = ListEventsAfter(r)
      /\ \A q \in Readers \ {r} : pending'[q] = pending[q]
      /\ UNCHANGED <<scope, after, received, lastId, events, txn>>
  BY DEF Read, LogInvariant, TypeOK, logVars
<1>2. /\ ListEventsAfter(r) \subseteq events
      /\ \A x \in ListEventsAfter(r) : x.id > after[r]
  BY DEF ListEventsAfter
<1>3. \A q \in Readers : SeenIsCommitted(q)'
  BY <1>1, <1>2 DEF LogInvariant, IdsInOrder, StreamInvariant, SeenIsCommitted
<1>4. \A q \in Readers : PendingIsComplete(q)'
  <2>1. ASSUME NEW q \in Readers, q # r PROVE PendingIsComplete(q)'
    BY <1>1, <2>1 DEF StreamInvariant, PendingIsComplete, Wanted
  <2>2. PendingIsComplete(r)'
    BY <1>1, <1>2, BatchIsComplete DEF PendingIsComplete, Wanted, LogInvariant, IdsInOrder
  <2>3. QED BY <2>1, <2>2
<1>5. \A q \in Readers : EmittedIsBehind(q)'
  BY <1>1 DEF StreamInvariant, EmittedIsBehind
<1>6. NothingSkipped' /\ DeliveredInOrder'
  BY <1>1 DEF StreamInvariant, NothingSkipped, DeliveredInOrder, Wanted, Got
<1>7. QED BY <1>3, <1>4, <1>5, <1>6 DEF StreamInvariant

(* What Append does to the indices of a sequence. *)
LEMMA Appended ==
    ASSUME NEW D \in SUBSET Nat, NEW seq \in Seq(D), NEW x \in D
    PROVE  /\ DOMAIN Append(seq, x) = 1 .. Len(seq) + 1
           /\ Append(seq, x)[Len(seq) + 1] = x
           /\ \A i \in DOMAIN seq : /\ i \in DOMAIN Append(seq, x) /\ i \in Nat
                                    /\ i <= Len(seq)
                                    /\ Append(seq, x)[i] = seq[i]
                                    /\ seq[i] \in Nat
           /\ \A i \in DOMAIN Append(seq, x) : i \in DOMAIN seq \/ i = Len(seq) + 1
           /\ Len(seq) \in Nat
<1>1. Len(seq) \in Nat /\ DOMAIN seq = 1 .. Len(seq)
  OBVIOUS
<1>2. Len(Append(seq, x)) = Len(seq) + 1 /\ DOMAIN Append(seq, x) = 1 .. Len(seq) + 1
  BY <1>1
<1>3. Append(seq, x)[Len(seq) + 1] = x
  BY <1>1
<1>4. \A i \in 1 .. Len(seq) : Append(seq, x)[i] = seq[i] /\ seq[i] \in D
  BY <1>1
<1>5. \A i \in 1 .. Len(seq) : i \in 1 .. Len(seq) + 1 /\ i \in Nat /\ i <= Len(seq)
  BY <1>1
<1>6. \A i \in 1 .. Len(seq) + 1 : i \in 1 .. Len(seq) \/ i = Len(seq) + 1
  BY <1>1
<1>7. QED BY <1>1, <1>2, <1>3, <1>4, <1>5, <1>6

(* An emission moves the cursor to the lowest pending event: no stored event
   lies in between. *)
LEMMA StreamEmit ==
    ASSUME LogInvariant, StreamInvariant, NEW r \in Readers, Emit(r)
    PROVE  StreamInvariant'
<1>1. PICK ev \in pending[r] :
        /\ \A x \in pending[r] : ev.id <= x.id
        /\ pending' = [pending EXCEPT ![r] = @ \ {ev}]
        /\ after' = [after EXCEPT ![r] = ev.id]
        /\ received' = [received EXCEPT ![r] = Append(@, ev.id)]
  BY DEF Emit
<1>2. TypeOK /\ UNCHANGED <<scope, lastId, events, txn>>
  BY DEF Emit, LogInvariant, logVars
<1>3. /\ pending'[r] = pending[r] \ {ev} /\ after'[r] = ev.id
      /\ received'[r] = Append(received[r], ev.id)
      /\ \A q \in Readers \ {r} : /\ pending'[q] = pending[q] /\ after'[q] = after[q]
                                  /\ received'[q] = received[q]
  BY <1>1, <1>2 DEF TypeOK
<1>4. /\ ev.id \in 1 .. MaxId /\ after[r] \in Nat /\ received[r] \in Seq(1 .. MaxId)
      /\ \A x \in pending[r] : x.id \in Nat
      /\ \A x \in events : x.id \in Nat
  BY <1>2, StreamAssumption DEF TypeOK, Rows
<1>5. \A q \in Readers : SeenIsCommitted(q)'
  BY <1>2, <1>3 DEF StreamInvariant, SeenIsCommitted
<1>6. \A q \in Readers : PendingIsComplete(q)'
  <2>1. ASSUME NEW q \in Readers, q # r PROVE PendingIsComplete(q)'
    BY <1>2, <1>3, <2>1 DEF StreamInvariant, PendingIsComplete, Wanted
  <2>2. PendingIsComplete(r)
    BY DEF StreamInvariant
  <2>3. \A x \in pending'[r] : x.id > after'[r]
    BY <1>1, <1>3, <1>4, <2>2 DEF PendingIsComplete
  <2>4. \A x, y \in pending'[r] : x.id = y.id => x = y
    BY <1>3, <2>2 DEF PendingIsComplete
  <2>5. ASSUME NEW x \in pending'[r], NEW y \in events', Wanted(r, y)',
               y.id > after'[r], y.id < x.id
        PROVE  y \in pending'[r]
    BY <1>2, <1>3, <1>4, <2>2, <2>5 DEF PendingIsComplete, Wanted
  <2>6. QED BY <2>1, <2>3, <2>4, <2>5 DEF PendingIsComplete
<1>7. ev.id > after[r]
  BY DEF StreamInvariant, PendingIsComplete
<1>8. /\ DOMAIN received'[r] = 1 .. Len(received[r]) + 1
      /\ received'[r][Len(received[r]) + 1] = ev.id
      /\ \A i \in DOMAIN received[r] : /\ i \in DOMAIN received'[r] /\ i \in Nat
                                       /\ i <= Len(received[r])
                                       /\ received'[r][i] = received[r][i]
                                       /\ received[r][i] \in Nat
      /\ \A i \in DOMAIN received'[r] : i \in DOMAIN received[r] \/ i = Len(received[r]) + 1
      /\ Len(received[r]) \in Nat
  <2>1. 1 .. MaxId \subseteq Nat
    BY StreamAssumption
  <2>2. 1 .. MaxId \in SUBSET Nat /\ ev.id \in 1 .. MaxId /\ received[r] \in Seq(1 .. MaxId)
    BY <1>4, <2>1
  <2> DEFINE seq == received[r]
  <2>3. /\ DOMAIN Append(seq, ev.id) = 1 .. Len(seq) + 1
        /\ Append(seq, ev.id)[Len(seq) + 1] = ev.id
        /\ \A i \in DOMAIN seq : /\ i \in DOMAIN Append(seq, ev.id) /\ i \in Nat
                                 /\ i <= Len(seq)
                                 /\ Append(seq, ev.id)[i] = seq[i]
                                 /\ seq[i] \in Nat
        /\ \A i \in DOMAIN Append(seq, ev.id) : i \in DOMAIN seq \/ i = Len(seq) + 1
        /\ Len(seq) \in Nat
    <3> HIDE DEF seq
    <3>1. seq \in Seq(1 .. MaxId)
      BY <2>2 DEF seq
    <3>2. QED BY <2>2, <3>1, Appended
  <2>4. received'[r] = Append(seq, ev.id)
    BY <1>3
  <2>5. QED BY <2>3, <2>4
<1>9. \A q \in Readers : EmittedIsBehind(q)'
  <2>1. ASSUME NEW q \in Readers, q # r PROVE EmittedIsBehind(q)'
    BY <1>3, <2>1 DEF StreamInvariant, EmittedIsBehind
  <2>2. EmittedIsBehind(r)'
    BY <1>3, <1>4, <1>7, <1>8 DEF StreamInvariant, EmittedIsBehind
  <2>3. QED BY <2>1, <2>2
<1>10. NothingSkipped'
  <2> SUFFICES ASSUME NEW q \in Readers, NEW x \in events', Wanted(q, x)', x.id <= after'[q]
               PROVE  x.id \in Got(q)'
    BY DEF NothingSkipped
  <2>0. Wanted(q, x) /\ x \in events
    BY <1>2 DEF Wanted
  <2>1. CASE q # r
    BY <1>2, <1>3, <2>0, <2>1 DEF StreamInvariant, NothingSkipped, Got
  <2>2. CASE q = r /\ x.id <= after[r]
    <3>1. x.id \in Got(r)
      BY <2>0, <2>2 DEF StreamInvariant, NothingSkipped
    <3>2. QED BY <1>8, <2>2, <3>1 DEF Got
  <2>3. CASE q = r /\ x.id > after[r]
    <3>1. x.id = ev.id
      <4>1. x.id <= ev.id
        BY <1>3, <2>3
      <4>2. SUFFICES ASSUME x.id < ev.id PROVE FALSE
        BY <1>4, <2>0, <4>1
      <4>3. x \in pending[r]
        BY <2>0, <2>3, <4>2 DEF StreamInvariant, PendingIsComplete
      <4>4. QED BY <1>1, <1>4, <4>2, <4>3
    <3>2. Len(received[r]) + 1 \in DOMAIN received'[r]
      BY <1>8
    <3>3. QED BY <1>8, <2>3, <3>1, <3>2 DEF Got
  <2>4. QED BY <1>4, <2>0, <2>1, <2>2, <2>3
<1>11. DeliveredInOrder'
  <2> SUFFICES ASSUME NEW q \in Readers, NEW i \in DOMAIN received'[q],
                      NEW j \in DOMAIN received'[q], i < j
               PROVE  received'[q][i] < received'[q][j]
    BY DEF DeliveredInOrder
  <2>1. CASE q # r
    BY <1>3, <2>1 DEF StreamInvariant, DeliveredInOrder
  <2>2. CASE q = r /\ j \in DOMAIN received[r]
    <3>1. i \in DOMAIN received[r]
      BY <1>8, <2>2
    <3>2. QED BY <1>8, <2>2, <3>1 DEF StreamInvariant, DeliveredInOrder
  <2>3. CASE q = r /\ j = Len(received[r]) + 1
    <3>1. i \in DOMAIN received[r]
      BY <1>8, <2>3
    <3>2. received[r][i] <= after[r]
      BY <3>1 DEF StreamInvariant, EmittedIsBehind
    <3>3. QED BY <1>4, <1>7, <1>8, <2>3, <3>1, <3>2
  <2>4. QED BY <1>8, <2>1, <2>2, <2>3
<1>12. QED BY <1>5, <1>6, <1>9, <1>10, <1>11 DEF StreamInvariant

(* A break forgets what was pending; cursor and emitted events stay. *)
LEMMA StreamBreak ==
    ASSUME LogInvariant, StreamInvariant, NEW r \in Readers, StreamBreaks(r)
    PROVE  StreamInvariant'
<1>1. /\ pending'[r] = {} /\ \A q \in Readers \ {r} : pending'[q] = pending[q]
      /\ UNCHANGED <<scope, after, received, lastId, events, txn>>
  BY DEF StreamBreaks, LogInvariant, TypeOK, logVars
<1>2. \A q \in Readers : SeenIsCommitted(q)'
  BY <1>1 DEF StreamInvariant, SeenIsCommitted
<1>3. \A q \in Readers : PendingIsComplete(q)'
  BY <1>1 DEF StreamInvariant, PendingIsComplete, Wanted
<1>4. \A q \in Readers : EmittedIsBehind(q)'
  BY <1>1 DEF StreamInvariant, EmittedIsBehind
<1>5. NothingSkipped' /\ DeliveredInOrder'
  BY <1>1 DEF StreamInvariant, NothingSkipped, DeliveredInOrder, Wanted, Got
<1>6. QED BY <1>2, <1>3, <1>4, <1>5 DEF StreamInvariant

(* Every step preserves the invariant of the streams. *)
LEMMA StreamsStep ==
    ASSUME LogInvariant, StreamInvariant, Next PROVE StreamInvariant'
<1>1. ASSUME NEW e \in Executions, WindowPasses(e) \/ RetentionSweep(e)
      PROVE  StreamInvariant'
  <2>1. UNCHANGED <<scope, after, pending, received, lastId, txn>> /\ events' \subseteq events
    BY <1>1 DEF WindowPasses, RetentionSweep, streamVars
  <2>2. QED BY <2>1, StreamFrame
<1>2. ASSUME NEW r \in Readers, Open(r) \/ Complete(r) \/ Notified(r) \/ SafetyTick(r)
                                  \/ NotificationsLost(r)
      PROVE  StreamInvariant'
  <2>1. UNCHANGED <<scope, after, pending, received, lastId, txn, events>>
    BY <1>2 DEF Open, Complete, Notified, SafetyTick, NotificationsLost, logVars
  <2>2. QED BY <2>1, StreamFrame
<1>3. QED
  BY <1>1, <1>2, StreamOther, StreamInsert, StreamCommit, StreamRead, StreamEmit, StreamBreak
  DEF Next, AppendStep, StreamStep

(* The empty log and the closed streams satisfy both. *)
LEMMA InitInvariant == Init => Invariant
<1> SUFFICES ASSUME Init PROVE Invariant
  OBVIOUS
<1> USE StreamAssumption
<1>1. \A w \in Writers : txn[w].at = "idle"
  BY FreeType DEF Init
<1>2. IsFiniteSet(events)
  BY FS_EmptySet DEF Init
<1>3. LockIsHeld /\ IdsInOrder /\ RowsAgree /\ CheckStands
  BY <1>1, <1>2 DEF Init, LockIsHeld, Holding, IdsInOrder, RowsAgree, CheckStands
<1>4. NothingBehindTerminal /\ OneUpdatePerWindow /\ NothingSkipped
  BY DEF Init, NothingBehindTerminal, OneUpdatePerWindow, NothingSkipped
<1>5. \A r \in Readers : SeenIsCommitted(r) /\ PendingIsComplete(r)
  BY <1>1 DEF Init, SeenIsCommitted, PendingIsComplete
<1>6. (\A r \in Readers : EmittedIsBehind(r)) /\ DeliveredInOrder
  BY DEF Init, EmittedIsBehind, DeliveredInOrder
<1>7. QED BY <1>3, <1>4, <1>5, <1>6, InitType DEF Invariant, LogInvariant, StreamInvariant

(* The inductive invariant of the log and its streams, for every number of
   connections and streams. *)
THEOREM LogAndStreams == Spec => []Invariant
<1>1. ASSUME Invariant, [Next]_vars PROVE Invariant'
  <2>1. CASE Next
    BY <1>1, <2>1, LogStep, StreamsStep DEF Invariant
  <2>2. CASE UNCHANGED vars
    <3>1. TypeOK'
      BY <1>1, <2>2 DEF Invariant, LogInvariant, TypeOK, vars
    <3>2. LogRest'
      BY <1>1, <2>2, LogFrame DEF Invariant, LogInvariant, LogRest, vars, logVars
    <3>3. StreamInvariant'
      BY <1>1, <2>2, StreamFrame DEF Invariant, vars
    <3>4. QED BY <3>1, <3>2, <3>3 DEF Invariant, LogInvariant, LogRest
  <2>3. QED BY <1>1, <2>1, <2>2
<1>2. QED BY InitInvariant, <1>1, PTL DEF Spec

(* Every variable of EventStream stays in its domain. *)
THEOREM StreamTypeCorrect == Spec => []TypeOK
<1>1. Invariant => TypeOK
  BY DEF Invariant, LogInvariant
<1>2. QED BY <1>1, LogAndStreams, PTL

(* No cursor passes an event its client was not given: a commit never lands
   behind an id a stream has read, which is what insert_session_event's lock
   is for. *)
THEOREM NothingIsSkipped == Spec => []NothingSkipped
<1>1. Invariant => NothingSkipped
  BY DEF Invariant, StreamInvariant
<1>2. QED BY <1>1, LogAndStreams, PTL

(* No client is given events out of order or twice, whichever connections
   wrote them and however often its stream broke and was reopened. *)
THEOREM DeliveryIsInOrder == Spec => []DeliveredInOrder
<1>1. Invariant => DeliveredInOrder
  BY DEF Invariant, StreamInvariant
<1>2. QED BY <1>1, LogAndStreams, PTL

(* Nothing of a turn is stored behind its terminal event: the guarded append
   checks under the log's lock. *)
THEOREM TerminalIsLast == Spec => []NothingBehindTerminal
<1>1. Invariant => NothingBehindTerminal
  BY DEF Invariant, LogInvariant
<1>2. QED BY <1>1, LogAndStreams, PTL

(* Replicas that tick together publish one progress update per window. *)
THEOREM OneUpdateOfAllReplicas == Spec => []OneUpdatePerWindow
<1>1. Invariant => OneUpdatePerWindow
  BY DEF Invariant, LogInvariant
<1>2. QED BY <1>1, LogAndStreams, PTL
=============================================================================
