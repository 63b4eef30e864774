---------------------------- MODULE SandboxProofs ----------------------------
(***************************************************************************)
(* Why no two sessions share a sandbox, why what is released, swept as an  *)
(* orphan or reaped is in nobody's hands, and that the variables keep      *)
(* their types: for any replicas, sessions, sandboxes, jobs and faults.    *)
(*                                                                         *)
(* Each layer of the invariant rests on the ones before it:                *)
(*   Types    the variables' domains and the shape of the workers' tasks;  *)
(*   Hands    what a session is assigned or its driver carries is its own, *)
(*            was created, and is not offered by the pool;                 *)
(*   Retired  a sandbox nobody can get hold of again.                      *)
(***************************************************************************)
EXTENDS SandboxLifecycle, TLAPS, FiniteSetTheorems

(***************************************************************************)
(* Types                                                                   *)
(***************************************************************************)

Boxes == Sandboxes \cup {None}
Drivers == [pc: DriverPcs, box: Boxes, by: Replicas \cup {None}]
TaskRecords == [kind: JobKinds, by: Replicas, box: Boxes,
                session: Sessions \cup {None}, pc: TaskPcs, exec: 0 .. MaxTurns]

(* Where a task of each kind may stand; switches and prunings are configured. *)
Stands(k, pc) ==
    /\ k = "fill" => pc = "insert"
    /\ k \in {"prune", "stale"} => pc \in {"check", "mark"}
    /\ k = "unconfigured" => pc \in {"evict", "evicted"}
    /\ k = "reap" => pc \in {"judge", "evict", "evicted", "expired"}
    /\ k \in {"orphan", "release"} => pc = "stop"
    /\ k = "pause" => pc \in {"check", "pause"}
    /\ k = "drain" => pc \in {"check", "stop", "mark"}
    /\ k = "switch" => pc \in {"stop", "clear"}

TaskOK(t) ==
    /\ t \in TaskRecords
    /\ t.box = None => t.kind = "switch" /\ t.pc = "clear"
    /\ Stands(t.kind, t.pc)
    /\ t.kind \in {"switch", "prune"} => t.kind \in Jobs

StoreOK ==
    /\ backend \in [Sandboxes -> Statuses]
    /\ old \in [Sandboxes -> BOOLEAN]
    /\ warm \in [Sandboxes -> {None, "ready", "claimed", "evicting", "failed"}]
    /\ claim \in [Sandboxes -> {"never", "young", "old"}]
    /\ assigned \in [Sessions -> Boxes]
    /\ IsFiniteSet(Ready)
WorkOK ==
    /\ need \in [Replicas -> 0 .. Target]
    /\ pending \in [Replicas -> SUBSET Sandboxes]
    /\ referenced \in [Replicas -> [read: BOOLEAN, ids: SUBSET Sandboxes]]
    /\ faults \in 0 .. MaxFaults
TasksOK == \A t \in tasks : TaskOK(t)

(* A driver is past its admission only while its turn is open, and is admitted
   only while there is a turn left; one that has no sandbox carries none. *)
EmptyHanded == {"none", "detach", "acquire", "cold", "lost"}
TurnsOK ==
    /\ turn \in [Sessions -> {"none", "active", "stuck"}]
    /\ turnNo \in [Sessions -> 0 .. MaxTurns]
    /\ dispatch \in [Sessions -> Drivers]
    /\ \A s \in Sessions :
        /\ dispatch[s].pc = "arrived" => turnNo[s] < MaxTurns
        /\ dispatch[s].pc \notin {"none", "arrived"} => turn[s] # "none"
        /\ dispatch[s].pc \in EmptyHanded => dispatch[s].box = None

Types == StoreOK /\ WorkOK /\ TasksOK /\ TurnsOK

LEMMA TypesSuffice == Types => TypeOK
BY DEF Types, StoreOK, WorkOK, TasksOK, TurnsOK, TypeOK, TaskOK, TaskRecords, Boxes,
       Drivers, At

(* A task that ends, moves on or starts. *)
LEMMA EndOK == ASSUME TasksOK, NEW t \in tasks, End(t) PROVE TasksOK'
BY DEF TasksOK, End, TaskOK

LEMMA Moved ==
    ASSUME TasksOK, NEW t \in tasks, NEW pc, Goto(t, pc), NEW u \in tasks'
    PROVE  \/ u \in tasks
           \/ /\ u = [t EXCEPT !.pc = pc] /\ u.pc = pc /\ u.kind = t.kind
              /\ u.box = t.box /\ u.by = t.by /\ u.session = t.session
              /\ u.exec = t.exec
<1>1. t \in TaskRecords
  BY DEF TasksOK, TaskOK
<1> QED BY <1>1 DEF Goto, TaskRecords

LEMMA GotoOK ==
    ASSUME TasksOK, NEW t \in tasks, NEW pc \in TaskPcs, Goto(t, pc),
           Stands(t.kind, pc), t.box # None \/ (t.kind = "switch" /\ pc = "clear")
    PROVE  TasksOK'
<1> SUFFICES ASSUME NEW u \in tasks' PROVE TaskOK(u)
  BY DEF TasksOK, TaskOK
<1>1. CASE u \in tasks
  BY <1>1 DEF TasksOK
<1>2. CASE u = [t EXCEPT !.pc = pc]
  <2>1. TaskOK(t)
    BY DEF TasksOK
  <2>2. u \in TaskRecords /\ u.kind = t.kind /\ u.pc = pc /\ u.box = t.box
    BY <1>2, <2>1 DEF TaskOK, TaskRecords
  <2> QED BY <2>1, <2>2 DEF TaskOK
<1> QED BY <1>1, <1>2 DEF Goto

LEMMA StartOK ==
    ASSUME TasksOK, NEW ts, \A u \in ts : TaskOK(u), Start(ts)
    PROVE  TasksOK'
BY DEF TasksOK, Start, TaskOK

(* The record of a new task. *)
LEMMA NewTask ==
    ASSUME NEW k \in JobKinds, NEW r \in Replicas, NEW x \in Boxes,
           NEW s \in Sessions \cup {None}, NEW pc \in TaskPcs, NEW n \in 0 .. MaxTurns,
           Stands(k, pc), x = None => k = "switch" /\ pc = "clear",
           k \in {"switch", "prune"} => k \in Jobs
    PROVE  /\ TaskOK(Task(k, r, x, s, pc, n))
           /\ Task(k, r, x, s, pc, n).kind = k /\ Task(k, r, x, s, pc, n).box = x
           /\ Task(k, r, x, s, pc, n).pc = pc
BY DEF TaskOK, Task, TaskRecords

(* What a task acts on. *)
LEMMA TaskBox ==
    ASSUME TasksOK, NEW t \in tasks
    PROVE  /\ t.by \in Replicas /\ t.kind \in JobKinds /\ t.pc \in TaskPcs
           /\ t.kind # "switch" \/ t.pc # "clear" => t.box \in Sandboxes
           /\ t.session \in Sessions \cup {None} /\ Stands(t.kind, t.pc)
BY DEF TasksOK, TaskOK, TaskRecords, Boxes

LEMMA FaultOK ==
    ASSUME WorkOK, NEW k, Fault(k) PROVE faults' \in 0 .. MaxFaults
BY LifecycleAssumption DEF WorkOK, Fault

(* A stop deletes the sandbox or fails. *)
LEMMA StopOK ==
    ASSUME StoreOK, WorkOK, NEW t, t.box \in Sandboxes, Stop(t)
    PROVE  /\ backend' \in [Sandboxes -> Statuses]
           /\ faults' \in 0 .. MaxFaults
           /\ \A x \in Sandboxes : backend'[x] \in {backend[x], "gone"}
<1>1. CASE backend' = [backend EXCEPT ![t.box] = "gone"] /\ UNCHANGED faults
  BY <1>1 DEF StoreOK, WorkOK, Statuses
<1>2. CASE Fault("error") /\ UNCHANGED backend
  BY <1>2, FaultOK DEF StoreOK
<1> QED BY <1>1, <1>2 DEF Stop

(* The move of a driver. *)
LEMMA MoveOK ==
    ASSUME TurnsOK, NEW s \in Sessions, NEW pc \in DriverPcs, NEW x \in Boxes,
           Move(s, pc, x)
    PROVE  /\ dispatch' \in [Sessions -> Drivers]
           /\ dispatch'[s].pc = pc /\ dispatch'[s].box = x
           /\ dispatch'[s].by = dispatch[s].by
           /\ \A u \in Sessions \ {s} : dispatch'[u] = dispatch[u]
BY DEF TurnsOK, Move, Drivers

LEMMA DriverFields ==
    ASSUME TurnsOK, NEW s \in Sessions
    PROVE  /\ dispatch[s].pc \in DriverPcs /\ dispatch[s].box \in Boxes
           /\ dispatch[s].by \in Replicas \cup {None}
           /\ NoDriver \in Drivers /\ NoDriver.pc = "none" /\ NoDriver.box = None
BY DEF TurnsOK, Drivers, NoDriver, Driver, Boxes, DriverPcs

(* Rows that leave the pool. *)
LEMMA ReadyShrinks ==
    ASSUME StoreOK, \A x \in Sandboxes : warm'[x] = "ready" => warm[x] = "ready"
    PROVE  IsFiniteSet(Ready')
<1>1. Ready' \subseteq Ready
  BY DEF Ready
<1> QED BY <1>1, FS_Subset DEF StoreOK

(* A driver whose turn is open moves on. *)
LEMMA DriverMoves ==
    ASSUME TurnsOK, NEW s \in Sessions, NEW pc \in DriverPcs \ {"none", "arrived"},
           NEW x \in Boxes, Move(s, pc, x), UNCHANGED <<turn, turnNo>>,
           dispatch[s].pc \notin {"none", "arrived"}, pc \in EmptyHanded => x = None
    PROVE  TurnsOK'
<1>1. /\ dispatch' \in [Sessions -> Drivers] /\ dispatch'[s].pc = pc /\ dispatch'[s].box = x
      /\ \A u \in Sessions \ {s} : dispatch'[u] = dispatch[u]
  BY MoveOK
<1> QED BY <1>1 DEF TurnsOK

(* A turn ends with its driver. *)
LEMMA DriverLeaves ==
    ASSUME TurnsOK, NEW s \in Sessions, dispatch' = [dispatch EXCEPT ![s] = NoDriver],
           turn' = [turn EXCEPT ![s] = "none"], turnNo' = turnNo
    PROVE  TurnsOK'
<1>1. NoDriver \in Drivers /\ NoDriver.pc = "none" /\ NoDriver.box = None
  BY DriverFields
<1> QED BY <1>1 DEF TurnsOK

LEMMA DriverTypes == ASSUME Types, NEW s \in Sessions, DriverStep(s) PROVE Types'
<1> DEFINE x == dispatch[s].box
<1>0. /\ StoreOK /\ WorkOK /\ TasksOK /\ TurnsOK
      /\ x \in Boxes /\ dispatch[s].pc \in DriverPcs /\ None \in Boxes
      /\ Sandboxes \subseteq Boxes
      /\ {"admitted", "ensure", "ready", "acquire", "detach", "claimed", "holding",
          "cold", "running"} \subseteq DriverPcs \ {"none", "arrived"}
  BY DriverFields DEF Types, DriverPcs, Using, Boxes
<1>1. CASE Admit(s)
  <2>1. /\ dispatch' \in [Sessions -> Drivers] /\ dispatch'[s].pc = "admitted"
        /\ \A u \in Sessions \ {s} : dispatch'[u] = dispatch[u]
    BY <1>0, <1>1, MoveOK DEF Admit
  <2>2. turnNo[s] < MaxTurns /\ turnNo[s] \in 0 .. MaxTurns
    BY <1>0, <1>1 DEF TurnsOK, Admit
  <2>3. turnNo' \in [Sessions -> 0 .. MaxTurns] /\ \A u \in Sessions \ {s} : turnNo'[u] = turnNo[u]
    BY <1>0, <1>1, <2>2, LifecycleAssumption DEF TurnsOK, Admit
  <2>4. TurnsOK'
    BY <1>0, <1>1, <2>1, <2>3 DEF TurnsOK, Admit, EmptyHanded
  <2> QED BY <1>0, <1>1, <2>4 DEF Types, StoreOK, WorkOK, TasksOK, TaskOK, Admit, rows, workers, Ready
<1>2. CASE Reread(s)
  <2>1. assigned[s] \in Boxes
    BY <1>0 DEF StoreOK
  <2>2. TurnsOK'
    BY <1>0, <1>2, <2>1, DriverMoves DEF Reread, EmptyHanded
  <2> QED BY <1>0, <1>2, <2>2 DEF Types, StoreOK, WorkOK, TasksOK, TaskOK, Reread, rows, workers, Ready
<1>3. CASE EnsureExisting(s)
  <2>1. TurnsOK'
    BY <1>0, <1>3, DriverMoves DEF EnsureExisting, EmptyHanded
  <2>2. backend' \in [Sandboxes -> Statuses]
    BY <1>0, <1>3 DEF EnsureExisting, StoreOK, Statuses
  <2>3. faults' \in 0 .. MaxFaults
    BY <1>0, <1>3, FaultOK DEF EnsureExisting, WorkOK
  <2> QED BY <1>0, <1>3, <2>1, <2>2, <2>3
          DEF Types, StoreOK, WorkOK, TasksOK, TaskOK, EnsureExisting, rows, workers, Ready
<1>4. CASE StopMismatched(s)
  <2>1. TurnsOK'
    BY <1>0, <1>4, DriverMoves DEF StopMismatched, EmptyHanded
  <2>2. backend' \in [Sandboxes -> Statuses]
    BY <1>0, <1>4 DEF StopMismatched, StoreOK, Statuses
  <2>3. faults' \in 0 .. MaxFaults
    BY <1>0, <1>4, FaultOK DEF StopMismatched
  <2> QED BY <1>0, <1>4, <2>1, <2>2, <2>3
          DEF Types, StoreOK, WorkOK, TasksOK, TaskOK, StopMismatched, rows, workers, Ready
<1>5. CASE ClearMismatched(s)
  <2>1. TurnsOK'
    BY <1>0, <1>5, DriverMoves DEF ClearMismatched, EmptyHanded
  <2>2. assigned' \in [Sessions -> Boxes]
    BY <1>0, <1>5 DEF ClearMismatched, StoreOK
  <2> QED BY <1>0, <1>5, <2>1, <2>2
          DEF Types, StoreOK, WorkOK, TasksOK, TaskOK, ClearMismatched, rows, workers, Ready
<1>6. CASE ClaimReadyWarm(s)
  <2>1. PICK y \in Ready : /\ warm' = [warm EXCEPT ![y] = "claimed"]
                           /\ claim' = [claim EXCEPT ![y] = "young"]
                           /\ Move(s, "claimed", y)
    BY <1>6 DEF ClaimReadyWarm
  <2>2. y \in Boxes
    BY <1>0 DEF Ready
  <2>3. TurnsOK'
    BY <1>0, <1>6, <2>1, <2>2, DriverMoves DEF ClaimReadyWarm, EmptyHanded
  <2>4. IsFiniteSet(Ready')
    BY <1>0, <2>1, ReadyShrinks DEF StoreOK
  <2>5. StoreOK'
    BY <1>0, <1>6, <2>1, <2>4 DEF StoreOK, ClaimReadyWarm
  <2> QED BY <1>0, <1>6, <2>3, <2>5 DEF Types, WorkOK, TasksOK, TaskOK, ClaimReadyWarm, workers
<1>7. CASE BindClaimed(s)
  <2>1. TurnsOK'
    BY <1>0, <1>7, DriverMoves DEF BindClaimed, EmptyHanded
  <2>2. warm' \in [Sandboxes -> {None, "ready", "claimed", "evicting", "failed"}]
        /\ \A y \in Sandboxes : warm'[y] = "ready" => warm[y] = "ready"
    BY <1>0, <1>7 DEF BindClaimed, StoreOK
  <2>3. IsFiniteSet(Ready')
    BY <1>0, <2>2, ReadyShrinks
  <2>4. faults' \in 0 .. MaxFaults
    BY <1>0, <1>7, FaultOK DEF BindClaimed, WorkOK
  <2>5. StoreOK'
    BY <1>0, <1>7, <2>2, <2>3 DEF StoreOK, BindClaimed
  <2> QED BY <1>0, <1>7, <2>1, <2>4, <2>5 DEF Types, WorkOK, TasksOK, TaskOK, BindClaimed, workers
<1>8. CASE CreateCold(s)
  <2>1. PICK y \in Sandboxes : /\ backend' = [backend EXCEPT ![y] = "running"]
                               /\ Move(s, "holding", y)
    BY <1>8 DEF CreateCold
  <2>2. TurnsOK'
    BY <1>0, <1>8, <2>1, DriverMoves DEF CreateCold, EmptyHanded
  <2>3. backend' \in [Sandboxes -> Statuses]
    BY <1>0, <2>1 DEF StoreOK, Statuses
  <2> QED BY <1>0, <1>8, <2>2, <2>3
          DEF Types, StoreOK, WorkOK, TasksOK, TaskOK, CreateCold, rows, workers, Ready
<1>9. CASE AssignSandbox(s)
  <2>1. TurnsOK'
    BY <1>0, <1>9, DriverMoves DEF AssignSandbox, EmptyHanded
  <2>2. assigned' \in [Sessions -> Boxes]
    BY <1>0, <1>9 DEF AssignSandbox, StoreOK
  <2> QED BY <1>0, <1>9, <2>1, <2>2
          DEF Types, StoreOK, WorkOK, TasksOK, TaskOK, AssignSandbox, rows, workers, Ready
<1>10. CASE StartTurn(s)
  <2>1. TurnsOK'
    BY <1>0, <1>10, DriverMoves, DriverLeaves DEF StartTurn, EmptyHanded
  <2> QED BY <1>0, <1>10, <2>1
          DEF Types, StoreOK, WorkOK, TasksOK, TaskOK, StartTurn, rows, workers, Ready
<1>11. CASE EndTurn(s)
  <2>1. TurnsOK'
    BY <1>0, <1>11, DriverLeaves DEF EndTurn
  <2> QED BY <1>0, <1>11, <2>1
          DEF Types, StoreOK, WorkOK, TasksOK, TaskOK, EndTurn, rows, workers, Ready
<1>12. CASE DispatchFails(s)
  <2>1. TurnsOK'
    BY <1>0, <1>12, DriverLeaves DEF DispatchFails
  <2>2. faults' \in 0 .. MaxFaults
    BY <1>0, <1>12, FaultOK DEF DispatchFails
  <2> QED BY <1>0, <1>12, <2>1, <2>2
          DEF Types, StoreOK, WorkOK, TasksOK, TaskOK, DispatchFails, rows, workers, Ready
<1>13. CASE TurnAges(s)
  <2>1. TurnsOK'
    BY <1>0, <1>13 DEF TurnAges, TurnsOK
  <2> QED BY <1>0, <1>13, <2>1
          DEF Types, StoreOK, WorkOK, TasksOK, TaskOK, TurnAges, rows, workers, Ready
<1> QED
  BY <1>1, <1>2, <1>3, <1>4, <1>5, <1>6, <1>7, <1>8, <1>9, <1>10, <1>11, <1>12, <1>13
     DEF DriverStep

(* Where the tasks stand and what they act on, by their guards. *)
LEMMA Standing ==
    ASSUME TasksOK, NEW t \in tasks
    PROVE  /\ t.pc \in {"evict", "evicted", "expired"} =>
                t.kind \in {"unconfigured", "reap"} /\ t.box \in Sandboxes
           /\ t.pc = "mark" => t.kind \in {"prune", "stale", "drain"} /\ t.box \in Sandboxes
           /\ t.kind # "switch" => t.box \in Sandboxes
           /\ t.pc # "clear" => t.box \in Sandboxes
           /\ t.by \in Replicas
<1>1. Stands(t.kind, t.pc) /\ t.kind \in JobKinds
  BY TaskBox
<1>2. /\ t.pc \in {"evict", "evicted", "expired"} => t.kind \in {"unconfigured", "reap"}
      /\ t.pc = "mark" => t.kind \in {"prune", "stale", "drain"}
  BY <1>1 DEF Stands, JobKinds
<1> QED BY <1>2, TaskBox

(* A worker's step leaves turns and drivers alone. *)
LEMMA WorkerFrame ==
    ASSUME Types, UNCHANGED <<turn, turnNo, dispatch, old, claim>>,
           backend' \in [Sandboxes -> Statuses],
           warm' \in [Sandboxes -> {None, "ready", "claimed", "evicting", "failed"}],
           IsFiniteSet(Ready'),
           assigned' \in [Sessions -> Boxes], TasksOK', WorkOK'
    PROVE  Types'
BY DEF Types, StoreOK, TurnsOK

LEMMA WorkerTypes == ASSUME Types, NEW t \in tasks, WorkerStep(t) PROVE Types'
<1> DEFINE WarmTypes == {None, "ready", "claimed", "evicting", "failed"}
<1>0. /\ StoreOK /\ WorkOK /\ TasksOK /\ TurnsOK
      /\ IsFiniteSet(Ready) /\ t.by \in Replicas
      /\ backend \in [Sandboxes -> Statuses] /\ warm \in [Sandboxes -> WarmTypes]
      /\ assigned \in [Sessions -> Boxes]
      /\ need \in [Replicas -> 0 .. Target] /\ pending \in [Replicas -> SUBSET Sandboxes]
      /\ faults \in 0 .. MaxFaults
  BY Standing DEF Types, StoreOK, WorkOK
<1>1. CASE EvictUnclaimed(t)
  <2>1. t.kind \in {"unconfigured", "reap"} /\ t.box \in Sandboxes
    BY <1>0, <1>1, Standing DEF EvictUnclaimed
  <2>2. TasksOK'
    <3>1. CASE End(t)
      BY <1>0, <3>1, EndOK
    <3>2. CASE Goto(t, "evicted")
      BY <1>0, <2>1, <3>2, GotoOK, LifecycleAssumption DEF Stands, TaskPcs
    <3> QED BY <1>1, <3>1, <3>2 DEF EvictUnclaimed
  <2>3. warm' \in [Sandboxes -> WarmTypes]
        /\ \A y \in Sandboxes : warm'[y] = "ready" => warm[y] = "ready"
    BY <1>0, <1>1 DEF EvictUnclaimed
  <2>4. IsFiniteSet(Ready')
    BY <1>0, <2>3, ReadyShrinks
  <2> QED BY <1>0, <1>1, <2>2, <2>3, <2>4, WorkerFrame DEF EvictUnclaimed, turns, WorkOK
<1>2. CASE StopEvicted(t)
  <2>1. TasksOK'
    BY <1>0, <1>2, EndOK DEF StopEvicted
  <2>2. t.box \in Sandboxes
    BY <1>0, <1>2, Standing DEF StopEvicted
  <2>3. backend' \in [Sandboxes -> Statuses] /\ faults' \in 0 .. MaxFaults
    BY <1>0, <1>2, <2>2, StopOK DEF StopEvicted
  <2> QED BY <1>0, <1>2, <2>1, <2>3, WorkerFrame DEF StopEvicted, rows, turns, WorkOK, Ready
<1>3. CASE MarkFailed(t)
  <2>1. TasksOK'
    BY <1>0, <1>3, EndOK DEF MarkFailed
  <2>3. warm' \in [Sandboxes -> WarmTypes]
        /\ \A y \in Sandboxes : warm'[y] = "ready" => warm[y] = "ready"
    BY <1>0, <1>3 DEF MarkFailed
  <2>4. IsFiniteSet(Ready')
    BY <1>0, <2>3, ReadyShrinks
  <2> QED BY <1>0, <1>3, <2>1, <2>3, <2>4, WorkerFrame DEF MarkFailed, turns, WorkOK
<1>4. CASE PruneChecks(t)
  <2>1. TasksOK'
    <3>1. CASE End(t)
      BY <1>0, <3>1, EndOK
    <3>2. CASE Goto(t, "mark")
      BY <1>0, <1>4, <3>2, GotoOK, Standing, LifecycleAssumption
         DEF Stands, TaskPcs, PruneChecks, At
    <3> QED BY <1>4, <3>1, <3>2 DEF PruneChecks
  <2> QED BY <1>0, <1>4, <2>1, WorkerFrame DEF PruneChecks, rows, turns, WorkOK, Ready
<1>5. CASE StaleStops(t)
  <2>1. t.kind = "stale" /\ t.box \in Sandboxes
    BY <1>0, <1>5, Standing DEF StaleStops, At
  <2>2. TasksOK'
    <3>1. CASE End(t)
      BY <1>0, <3>1, EndOK
    <3>2. CASE Goto(t, "mark")
      BY <1>0, <2>1, <3>2, GotoOK, LifecycleAssumption DEF Stands, TaskPcs
    <3> QED BY <1>5, <3>1, <3>2 DEF StaleStops
  <2>3. backend' \in [Sandboxes -> Statuses] /\ faults' \in 0 .. MaxFaults
    BY <1>0, <1>5, <2>1, StopOK DEF StaleStops
  <2> QED BY <1>0, <1>5, <2>2, <2>3, WorkerFrame DEF StaleStops, rows, turns, WorkOK, Ready
<1>6. CASE FillInserts(t)
  <2>1. TasksOK'
    BY <1>0, <1>6, EndOK DEF FillInserts
  <2>2. t.box \in Sandboxes
    BY <1>0, <1>6, Standing DEF FillInserts, At
  <2>3. warm' \in [Sandboxes -> WarmTypes] /\ Ready' \subseteq Ready \cup {t.box}
    BY <1>0, <1>6, <2>2 DEF FillInserts, Ready
  <2>4. IsFiniteSet(Ready')
    <3>1. IsFiniteSet(Ready \cup {t.box})
      BY <1>0, FS_AddElement
    <3> QED BY <2>3, <3>1, FS_Subset
  <2>5. backend' \in [Sandboxes -> Statuses]
    BY <1>0, <1>6, <2>2 DEF FillInserts, Statuses
  <2>6. need' \in [Replicas -> 0 .. Target] /\ faults' \in 0 .. MaxFaults
    BY <1>0, <1>6, FaultOK, LifecycleAssumption DEF FillInserts
  <2> QED BY <1>0, <1>6, <2>1, <2>3, <2>4, <2>5, <2>6, WorkerFrame DEF FillInserts, turns, WorkOK
<1>7. CASE ReaperJudges(t)
  <2>1. TasksOK'
    <3>1. CASE End(t)
      BY <1>0, <3>1, EndOK
    <3>2. ASSUME NEW pc \in {"expired", "evict"}, Goto(t, pc) PROVE TasksOK'
      BY <1>0, <1>7, <3>2, GotoOK, Standing, LifecycleAssumption
         DEF Stands, TaskPcs, ReaperJudges, At
    <3> QED BY <1>7, <3>1, <3>2 DEF ReaperJudges
  <2> QED BY <1>0, <1>7, <2>1, WorkerFrame DEF ReaperJudges, rows, turns, WorkOK, Ready
<1>8. CASE CleanupStops(t)
  <2>1. TasksOK'
    BY <1>0, <1>8, EndOK DEF CleanupStops
  <2>2. t.box \in Sandboxes
    BY <1>0, <1>8, Standing DEF CleanupStops, At
  <2>3. backend' \in [Sandboxes -> Statuses] /\ faults' \in 0 .. MaxFaults
    BY <1>0, <1>8, <2>2, StopOK DEF CleanupStops
  <2>4. pending' \in [Replicas -> SUBSET Sandboxes]
    BY <1>0, <1>8 DEF CleanupStops
  <2> QED BY <1>0, <1>8, <2>1, <2>3, <2>4, WorkerFrame DEF CleanupStops, rows, turns, WorkOK, Ready
<1>9. CASE PauseChecks(t)
  <2>1. TasksOK'
    <3>1. CASE End(t)
      BY <1>0, <3>1, EndOK
    <3>2. CASE Goto(t, "pause")
      BY <1>0, <1>9, <3>2, GotoOK, Standing, LifecycleAssumption
         DEF Stands, TaskPcs, PauseChecks, At
    <3> QED BY <1>9, <3>1, <3>2 DEF PauseChecks
  <2> QED BY <1>0, <1>9, <2>1, WorkerFrame DEF PauseChecks, rows, turns, WorkOK, Ready
<1>10. CASE Pause(t)
  <2>1. TasksOK'
    BY <1>0, <1>10, EndOK DEF Pause
  <2>2. t.box \in Sandboxes
    BY <1>0, <1>10, Standing DEF Pause, At
  <2>3. backend' \in [Sandboxes -> Statuses]
    BY <1>0, <1>10, <2>2 DEF Pause, Statuses
  <2> QED BY <1>0, <1>10, <2>1, <2>3, WorkerFrame DEF Pause, rows, turns, WorkOK, Ready
<1>11. CASE ReleaseStops(t)
  <2>1. TasksOK'
    BY <1>0, <1>11, EndOK DEF ReleaseStops
  <2>2. t.box \in Sandboxes
    BY <1>0, <1>11, Standing DEF ReleaseStops, At
  <2>3. backend' \in [Sandboxes -> Statuses] /\ faults' \in 0 .. MaxFaults
    BY <1>0, <1>11, <2>2, StopOK DEF ReleaseStops
  <2> QED BY <1>0, <1>11, <2>1, <2>3, WorkerFrame DEF ReleaseStops, rows, turns, WorkOK, Ready
<1>12. CASE SwitchStops(t)
  <2>1. t.kind = "switch" /\ t.box \in Sandboxes
    BY <1>0, <1>12, Standing DEF SwitchStops, At
  <2>2. TasksOK'
    <3>1. CASE End(t)
      BY <1>0, <3>1, EndOK
    <3>2. CASE Goto(t, "clear")
      BY <1>0, <2>1, <3>2, GotoOK DEF Stands, TaskPcs
    <3> QED BY <1>12, <3>1, <3>2 DEF SwitchStops
  <2>3. backend' \in [Sandboxes -> Statuses] /\ faults' \in 0 .. MaxFaults
    BY <1>0, <1>12, <2>1, StopOK DEF SwitchStops
  <2> QED BY <1>0, <1>12, <2>2, <2>3, WorkerFrame DEF SwitchStops, rows, turns, WorkOK, Ready
<1>13. CASE SwitchClears(t)
  <2>1. TasksOK'
    BY <1>0, <1>13, EndOK DEF SwitchClears
  <2>2. assigned' \in [Sessions -> Boxes]
    BY <1>0, <1>13 DEF SwitchClears, Boxes
  <2> QED BY <1>0, <1>13, <2>1, <2>2, WorkerFrame DEF SwitchClears, turns, WorkOK, Ready
<1>14. CASE DrainChecks(t)
  <2>1. TasksOK'
    <3>1. CASE End(t)
      BY <1>0, <3>1, EndOK
    <3>2. CASE Goto(t, "stop")
      BY <1>0, <1>14, <3>2, GotoOK, Standing, LifecycleAssumption
         DEF Stands, TaskPcs, DrainChecks, At
    <3> QED BY <1>14, <3>1, <3>2 DEF DrainChecks
  <2> QED BY <1>0, <1>14, <2>1, WorkerFrame DEF DrainChecks, rows, turns, WorkOK, Ready
<1>15. CASE DrainStops(t)
  <2>1. t.kind = "drain" /\ t.box \in Sandboxes
    BY <1>0, <1>15, Standing DEF DrainStops, At
  <2>2. TasksOK'
    <3>1. CASE End(t)
      BY <1>0, <3>1, EndOK
    <3>2. CASE Goto(t, "mark")
      BY <1>0, <2>1, <3>2, GotoOK, LifecycleAssumption DEF Stands, TaskPcs
    <3> QED BY <1>15, <3>1, <3>2 DEF DrainStops
  <2>3. backend' \in [Sandboxes -> Statuses] /\ faults' \in 0 .. MaxFaults
    BY <1>0, <1>15, <2>1, StopOK DEF DrainStops
  <2> QED BY <1>0, <1>15, <2>2, <2>3, WorkerFrame DEF DrainStops, rows, turns, WorkOK, Ready
<1> QED
  BY <1>1, <1>2, <1>3, <1>4, <1>5, <1>6, <1>7, <1>8, <1>9, <1>10, <1>11, <1>12, <1>13,
     <1>14, <1>15 DEF WorkerStep

(* The tasks a worker starts from the list xs. *)
Listed(k, r, xs, pc) == {Task(k, r, x, None, pc, 0) : x \in xs}

LEMMA StartListed ==
    ASSUME TasksOK, NEW r \in Replicas, NEW xs \in SUBSET Sandboxes,
           NEW k \in JobKinds \ {"switch"}, NEW pc \in TaskPcs, Stands(k, pc),
           k = "prune" => k \in Jobs, Start(Listed(k, r, xs, pc))
    PROVE  /\ TasksOK'
           /\ \A u \in tasks' : u \in tasks \/ (u.kind = k /\ u.pc = pc /\ u.box \in xs)
<1>1. ASSUME NEW u \in Listed(k, r, xs, pc)
      PROVE  TaskOK(u) /\ u.kind = k /\ u.pc = pc /\ u.box \in xs
  <2>1. PICK x \in xs : u = Task(k, r, x, None, pc, 0)
    BY <1>1 DEF Listed
  <2>2. x \in Boxes /\ x # None /\ 0 \in 0 .. MaxTurns
    BY LifecycleAssumption DEF Boxes
  <2> QED BY <2>1, <2>2, NewTask
<1>2. TasksOK'
  BY <1>1, StartOK
<1> QED BY <1>1, <1>2 DEF Start

LEMMA ReplicaTypes == ASSUME Types, NEW r \in Replicas, ReplicaStep(r) PROVE Types'
<1>0. /\ StoreOK /\ WorkOK /\ TasksOK /\ TurnsOK /\ IsFiniteSet(Ready)
      /\ assigned \in [Sessions -> Boxes]
      /\ backend \in [Sandboxes -> Statuses]
      /\ warm \in [Sandboxes -> {None, "ready", "claimed", "evicting", "failed"}]
      /\ need \in [Replicas -> 0 .. Target] /\ pending \in [Replicas -> SUBSET Sandboxes]
      /\ referenced \in [Replicas -> [read: BOOLEAN, ids: SUBSET Sandboxes]]
      /\ faults \in 0 .. MaxFaults
      /\ Ready \subseteq Sandboxes
      /\ turn \in [Sessions -> {"none", "active", "stuck"}]
      /\ turnNo \in [Sessions -> 0 .. MaxTurns]
  BY DEF Types, StoreOK, WorkOK, TurnsOK, Ready
<1>1. CASE PruneLists(r)
  <2>1. Stands("prune", "check") /\ "prune" \in JobKinds \ {"switch"} /\ "check" \in TaskPcs
        /\ "prune" \in Jobs
    BY <1>1 DEF Stands, JobKinds, TaskPcs, PruneLists, MayReplenish
  <2>2. TasksOK'
    <3>1. Start(Listed("prune", r, Ready, "check"))
      BY <1>1 DEF PruneLists, Listed
    <3> QED BY <1>0, <2>1, <3>1, StartListed
  <2> QED BY <1>0, <1>1, <2>2, WorkerFrame DEF PruneLists, rows, turns, WorkOK, Ready
<1>2. CASE StaleLists(r)
  <2>1. Stands("stale", "check") /\ "stale" \in JobKinds \ {"switch"} /\ "check" \in TaskPcs
    BY DEF Stands, JobKinds, TaskPcs
  <2>2. TasksOK'
    <3>1. Start(Listed("stale", r, {y \in Sandboxes : warm[y] = "evicting"}, "check"))
      BY <1>2 DEF StaleLists, Listed
    <3> QED BY <1>0, <2>1, <3>1, StartListed
  <2> QED BY <1>0, <1>2, <2>2, WorkerFrame DEF StaleLists, rows, turns, WorkOK, Ready
<1>3. CASE UnconfiguredLists(r)
  <2>1. PICK xs \in SUBSET Ready : Start(Listed("unconfigured", r, xs, "evict"))
    BY <1>3 DEF UnconfiguredLists, Listed
  <2>2. Stands("unconfigured", "evict") /\ "unconfigured" \in JobKinds \ {"switch"}
        /\ "evict" \in TaskPcs
    BY DEF Stands, JobKinds, TaskPcs
  <2>3. TasksOK'
    BY <1>0, <2>1, <2>2, StartListed
  <2> QED BY <1>0, <1>3, <2>3, WorkerFrame DEF UnconfiguredLists, rows, turns, WorkOK, Ready
<1>4. CASE FillCounts(r)
  <2>1. Cardinality(Ready) \in Nat
    BY <1>0, FS_CardinalityType
  <2>2. need' \in [Replicas -> 0 .. Target]
    BY <1>0, <1>4, <2>1, LifecycleAssumption DEF FillCounts
  <2>3. TasksOK' /\ WorkOK'
    BY <1>0, <1>4, <2>2 DEF TasksOK, TaskOK, WorkOK, FillCounts
  <2> QED BY <1>0, <1>4, <2>3, WorkerFrame DEF FillCounts, rows, turns, Ready
<1>5. CASE FillCreates(r)
  <2>1. PICK x \in Sandboxes : /\ backend' = [backend EXCEPT ![x] = "running"]
                               /\ Start({Task("fill", r, x, None, "insert", 0)})
    BY <1>5 DEF FillCreates
  <2>2. Stands("fill", "insert") /\ "fill" \in JobKinds \ {"switch"} /\ "insert" \in TaskPcs
    BY DEF Stands, JobKinds, TaskPcs
  <2>3. TaskOK(Task("fill", r, x, None, "insert", 0))
    BY <2>2, NewTask, LifecycleAssumption DEF Boxes
  <2>4. TasksOK'
    BY <1>0, <2>1, <2>3, StartOK
  <2>5. need' \in [Replicas -> 0 .. Target]
    BY <1>0, <1>5, LifecycleAssumption DEF FillCreates
  <2>6. backend' \in [Sandboxes -> Statuses]
    BY <1>0, <2>1 DEF Statuses
  <2> QED BY <1>0, <1>5, <2>4, <2>5, <2>6, WorkerFrame DEF FillCreates, rows, turns, WorkOK, Ready
<1>6. CASE ReaperLists(r)
  <2>1. Stands("reap", "judge") /\ "reap" \in JobKinds \ {"switch"} /\ "judge" \in TaskPcs
    BY DEF Stands, JobKinds, TaskPcs
  <2>2. TasksOK'
    <3>1. Start(Listed("reap", r, {x \in Sandboxes : Observed(x) /\ old[x]}, "judge"))
      BY <1>6 DEF ReaperLists, Listed
    <3> QED BY <1>0, <2>1, <3>1, StartListed
  <2> QED BY <1>0, <1>6, <2>2, WorkerFrame DEF ReaperLists, rows, turns, WorkOK, Ready
<1>7. CASE CleanupReads(r)
  <2>1. referenced' \in [Replicas -> [read: BOOLEAN, ids: SUBSET Sandboxes]]
    BY <1>0, <1>7 DEF CleanupReads
  <2>2. TasksOK' /\ WorkOK'
    BY <1>0, <1>7, <2>1 DEF TasksOK, TaskOK, WorkOK, CleanupReads
  <2> QED BY <1>0, <1>7, <2>2, WorkerFrame DEF CleanupReads, rows, turns, Ready
<1>8. CASE CleanupLists(r)
  <2>1. Stands("orphan", "stop") /\ "orphan" \in JobKinds \ {"switch"} /\ "stop" \in TaskPcs
        /\ Orphans(r) \subseteq Sandboxes
    BY DEF Stands, JobKinds, TaskPcs, Orphans
  <2>2. TasksOK'
    <3>1. Start(Listed("orphan", r, Orphans(r) \cap pending[r], "stop"))
      BY <1>8 DEF CleanupLists, Listed
    <3> QED BY <1>0, <2>1, <3>1, StartListed
  <2>3. /\ pending' \in [Replicas -> SUBSET Sandboxes]
        /\ referenced' \in [Replicas -> [read: BOOLEAN, ids: SUBSET Sandboxes]]
    BY <1>0, <1>8, <2>1 DEF CleanupLists, NotSweeping
  <2> QED BY <1>0, <1>8, <2>2, <2>3, WorkerFrame DEF CleanupLists, rows, turns, WorkOK, Ready
<1>9. CASE DrainLists(r)
  <2>1. Stands("drain", "check") /\ "drain" \in JobKinds \ {"switch"} /\ "check" \in TaskPcs
    BY DEF Stands, JobKinds, TaskPcs
  <2>2. TasksOK'
    <3>1. Start(Listed("drain", r, {x \in Sandboxes : Observed(x) /\ backend[x] # "stopped"}, "check"))
      BY <1>9 DEF DrainLists, Listed
    <3> QED BY <1>0, <2>1, <3>1, StartListed
  <2> QED BY <1>0, <1>9, <2>2, WorkerFrame DEF DrainLists, rows, turns, WorkOK, Ready
<1>10. CASE Crash(r)
  <2>1. TasksOK'
    BY <1>0, <1>10 DEF TasksOK, TaskOK, Crash
  <2>2. WorkOK'
    BY <1>0, <1>10, FaultOK, LifecycleAssumption DEF WorkOK, Crash, NotSweeping
  <2>3. NoDriver \in Drivers /\ Driver("lost", None, None) \in Drivers
        /\ NoDriver.pc = "none" /\ Driver("lost", None, None).pc = "lost"
        /\ NoDriver.box = None /\ Driver("lost", None, None).box = None
    BY DEF NoDriver, Driver, Drivers, DriverPcs, Boxes
  <2>4. TurnsOK'
    BY <1>0, <1>10, <2>3 DEF TurnsOK, Crash
  <2> QED BY <1>0, <1>10, <2>1, <2>2, <2>4 DEF Types, StoreOK, Crash, rows, Ready
<1>11. ASSUME NEW s \in Sessions, Arrive(r, s) PROVE Types'
  <2>1. Driver("arrived", assigned[s], r) \in Drivers
        /\ Driver("arrived", assigned[s], r).pc = "arrived"
    BY <1>0 DEF Driver, Drivers, DriverPcs
  <2>2. TurnsOK'
    BY <1>0, <1>11, <2>1 DEF TurnsOK, Arrive, EmptyHanded
  <2> QED BY <1>0, <1>11, <2>2
          DEF Types, StoreOK, WorkOK, TasksOK, TaskOK, Arrive, rows, workers, Ready
<1>12. ASSUME NEW s \in Sessions, IdleFound(r, s) PROVE Types'
  <2>1. Stands("pause", "check") /\ "pause" \in JobKinds /\ "check" \in TaskPcs
        /\ assigned[s] \in Boxes /\ assigned[s] # None /\ turnNo[s] \in 0 .. MaxTurns
    BY <1>0, <1>12 DEF Stands, JobKinds, TaskPcs, IdleFound
  <2>2. TaskOK(Task("pause", r, assigned[s], s, "check", turnNo[s]))
    BY <2>1, NewTask
  <2>3. TasksOK'
    BY <1>0, <1>12, <2>2, StartOK DEF IdleFound
  <2> QED BY <1>0, <1>12, <2>3, WorkerFrame DEF IdleFound, rows, turns, WorkOK, Ready
<1>13. ASSUME NEW s \in Sessions, Release(r, s) PROVE Types'
  <2>1. Stands("release", "stop") /\ "release" \in JobKinds /\ "stop" \in TaskPcs
        /\ assigned[s] \in Boxes /\ assigned[s] # None /\ 0 \in 0 .. MaxTurns
    BY <1>0, <1>13, LifecycleAssumption DEF Stands, JobKinds, TaskPcs, Release
  <2>2. TaskOK(Task("release", r, assigned[s], s, "stop", 0))
    BY <2>1, NewTask
  <2>3. TasksOK'
    BY <1>0, <1>13, <2>2, StartOK DEF Release
  <2>4. assigned' \in [Sessions -> Boxes]
    BY <1>0, <1>13 DEF Release, Boxes
  <2>5. /\ warm' \in [Sandboxes -> {None, "ready", "claimed", "evicting", "failed"}]
        /\ \A y \in Sandboxes : warm'[y] = "ready" => warm[y] = "ready"
    BY <1>0, <1>13 DEF Release
  <2>6. IsFiniteSet(Ready')
    BY <1>0, <2>5, ReadyShrinks
  <2> QED BY <1>0, <1>13, <2>3, <2>4, <2>5, <2>6, WorkerFrame DEF Release, turns, WorkOK
<1>14. ASSUME NEW s \in Sessions, SwitchReads(r, s) PROVE Types'
  <2> DEFINE pc == IF assigned[s] = None THEN "clear" ELSE "stop"
  <2>1. Stands("switch", pc) /\ "switch" \in JobKinds /\ pc \in TaskPcs
        /\ assigned[s] \in Boxes /\ 0 \in 0 .. MaxTurns /\ "switch" \in Jobs
        /\ (assigned[s] = None => pc = "clear")
    BY <1>0, <1>14, LifecycleAssumption DEF Stands, JobKinds, TaskPcs, SwitchReads
  <2> HIDE DEF pc
  <2>2. TaskOK(Task("switch", r, assigned[s], s, pc, 0))
    BY <2>1, NewTask
  <2>3. TasksOK'
    BY <1>0, <1>14, <2>2, StartOK DEF SwitchReads, pc
  <2> QED BY <1>0, <1>14, <2>3, WorkerFrame DEF SwitchReads, rows, turns, WorkOK, Ready
<1> QED
  BY <1>1, <1>2, <1>3, <1>4, <1>5, <1>6, <1>7, <1>8, <1>9, <1>10, <1>11, <1>12, <1>13,
     <1>14 DEF ReplicaStep

(* Time and the environment. *)
EnvStep(x) ==
    BoxAges(x) \/ ClaimAges(x) \/ SandboxDies(x) \/ SandboxRegresses(x) \/ SandboxRecovers(x)

LEMMA EnvTypes == ASSUME Types, NEW x \in Sandboxes, EnvStep(x) PROVE Types'
<1>0. StoreOK /\ WorkOK /\ TasksOK /\ TurnsOK
  BY DEF Types
<1>1. /\ tasks' = tasks /\ turn' = turn /\ turnNo' = turnNo /\ dispatch' = dispatch
      /\ need' = need /\ pending' = pending /\ referenced' = referenced
      /\ warm' = warm /\ assigned' = assigned
  BY DEF EnvStep, BoxAges, ClaimAges, SandboxDies, SandboxRegresses, SandboxRecovers,
         rows, turns, workers
<1>2. faults' \in 0 .. MaxFaults
  BY <1>0, FaultOK
     DEF EnvStep, BoxAges, ClaimAges, SandboxDies, SandboxRegresses, SandboxRecovers, WorkOK
<1>3. /\ backend' \in [Sandboxes -> Statuses]
      /\ old' \in [Sandboxes -> BOOLEAN]
      /\ claim' \in [Sandboxes -> {"never", "young", "old"}]
  BY <1>0 DEF EnvStep, BoxAges, ClaimAges, SandboxDies, SandboxRegresses, SandboxRecovers,
              StoreOK, Statuses, rows
<1>4. TasksOK' /\ TurnsOK' /\ WorkOK'
  BY <1>0, <1>1, <1>2 DEF TasksOK, TaskOK, TurnsOK, WorkOK
<1> QED BY <1>0, <1>1, <1>3, <1>4 DEF Types, StoreOK, Ready

LEMMA InitTypes == Init => Types
<1> SUFFICES ASSUME Init PROVE Types
  OBVIOUS
<1>1. NoDriver \in Drivers /\ NoDriver.pc = "none" /\ NoDriver.box = None
  BY DEF NoDriver, Driver, Drivers, DriverPcs, Boxes
<1>2. TurnsOK
  BY <1>1, LifecycleAssumption DEF Init, TurnsOK
<1>3. Ready = {}
  BY DEF Init, Ready, None
<1>4. StoreOK
  BY <1>3, FS_EmptySet DEF Init, StoreOK, Statuses, Boxes
<1> QED BY <1>2, <1>4, LifecycleAssumption
        DEF Init, Types, WorkOK, TasksOK, NotSweeping

LEMMA StepTypes == Types /\ [Next]_vars => Types'
<1> SUFFICES ASSUME Types, [Next]_vars PROVE Types'
  OBVIOUS
<1>1. CASE UNCHANGED vars
  BY <1>1 DEF vars, Types, StoreOK, WorkOK, TasksOK, TaskOK, TurnsOK, Ready
<1> QED
  BY <1>1, DriverTypes, WorkerTypes, ReplicaTypes, EnvTypes DEF Next, EnvStep

LEMMA AlwaysTypes == Spec => []Types
BY InitTypes, StepTypes, PTL DEF Spec

(* Every variable of SandboxLifecycle stays in its domain, whatever the numbers of
   replicas, sessions and sandboxes, the jobs and the faults. *)
THEOREM LifecycleTypes == Spec => []TypeOK
BY AlwaysTypes, TypesSuffice, PTL

-----------------------------------------------------------------------------
(***************************************************************************)
(* Hands                                                                   *)
(***************************************************************************)

(* x is the session's sandbox, or the one its driver read, claimed or created,
   whether it still is the session's or not. *)
Has(s, x) == assigned[s] = x \/ dispatch[s].box = x

(* What a session has, no other one has; it was created and is not in the pool. *)
Exclusive == \A s, u \in Sessions, x \in Sandboxes : Has(s, x) /\ Has(u, x) => s = u
Taken == \A s \in Sessions, x \in Sandboxes :
            Has(s, x) => backend[x] # "absent" /\ warm[x] # "ready"
RowIsCreated == \A x \in Sandboxes : backend[x] = "absent" => warm[x] = None

(* What the replenisher has created and not yet inserted, only it knows. *)
Fresh ==
    \A t \in tasks : t.kind = "fill" =>
        /\ backend[t.box] # "absent" /\ warm[t.box] = None
        /\ \A s \in Sessions : ~Has(s, t.box)
        /\ \A u \in tasks : u.kind = "fill" /\ u.box = t.box => u = t

Hands == Exclusive /\ Taken /\ RowIsCreated /\ Fresh

(* Nobody has the sandbox or can get hold of it any more; a driver that is not
   past its second reading may still carry it, and will not use it. *)
BeforeReread == {"arrived", "admitted"}
Retired(x) ==
    /\ backend[x] # "absent" /\ warm[x] # "ready"
    /\ \A t \in tasks : t.kind = "fill" => t.box # x
    /\ \A s \in Sessions :
        /\ assigned[s] # x
        /\ dispatch[s].box = x => dispatch[s].pc \in BeforeReread

(* Most steps are calm: no session gets a sandbox that it did not have, none is
   created, and none is put into the pool. *)
Keeps(s) ==
    /\ \/ assigned'[s] \in {assigned[s], None}
       \/ assigned'[s] = dispatch[s].box /\ dispatch[s].pc \notin BeforeReread
    /\ \/ dispatch'[s].box \in {None, assigned[s]}
       \/ /\ dispatch'[s].box = dispatch[s].box
          /\ dispatch[s].pc \in BeforeReread => dispatch'[s].pc \in BeforeReread
NoNew(ks) == \A u \in tasks' : u.kind \in ks => u \in tasks
Calm ==
    /\ \A s \in Sessions : Keeps(s)
    /\ \A x \in Sandboxes : /\ backend'[x] = "absent" => backend[x] = "absent"
                            /\ warm'[x] = "ready" => warm[x] = "ready"
                            /\ warm'[x] # None =>
                                 warm[x] # None \/ \E s \in Sessions : Has(s, x)
    /\ NoNew({"fill"})

LEMMA CalmHands == ASSUME Types, Hands, Calm PROVE Hands'
<1>0. ASSUME NEW t \in tasks, t.kind = "fill" PROVE t.box \in Sandboxes
  BY <1>0, Standing DEF Types
<1>1. ASSUME NEW s \in Sessions, NEW x \in Sandboxes, Has(s, x)' PROVE Has(s, x)
  BY <1>1, LifecycleAssumption DEF Calm, Keeps, Has
<1>2. Exclusive' /\ Taken'
  BY <1>1 DEF Calm, Hands, Exclusive, Taken
<1>3. RowIsCreated'
  BY DEF Calm, Hands, Taken, RowIsCreated
<1>4. Fresh'
  BY <1>0, <1>1 DEF Calm, NoNew, Hands, Fresh
<1> QED BY <1>2, <1>3, <1>4 DEF Hands

LEMMA CalmRetired ==
    ASSUME Calm, NEW x \in Sandboxes, Retired(x) PROVE Retired(x)'
<1>1. x # None
  BY LifecycleAssumption
<1>2. ASSUME NEW s \in Sessions
      PROVE  /\ assigned'[s] # x
             /\ dispatch'[s].box = x => dispatch'[s].pc \in BeforeReread
  BY <1>1 DEF Calm, Keeps, Retired
<1> QED BY <1>2 DEF Calm, NoNew, Retired

(* Ending, moving or starting tasks of other kinds. *)
LEMMA EndNoNew == ASSUME NEW t, End(t), NEW ks PROVE NoNew(ks)
BY DEF End, NoNew

LEMMA GotoNoNew ==
    ASSUME TasksOK, NEW t \in tasks, NEW pc, Goto(t, pc), NEW ks, t.kind \notin ks
    PROVE  NoNew(ks)
BY Moved DEF NoNew

(* The move of a driver that takes nothing new is calm. *)
LEMMA MoveKeeps ==
    ASSUME Types, NEW s \in Sessions, NEW pc \in DriverPcs, NEW x \in Boxes,
           Move(s, pc, x), assigned' = assigned,
           \/ x \in {None, assigned[s]}
           \/ x = dispatch[s].box /\ (dispatch[s].pc \in BeforeReread => pc \in BeforeReread)
    PROVE  \A u \in Sessions : Keeps(u)
<1>1. /\ dispatch'[s].pc = pc /\ dispatch'[s].box = x
      /\ \A u \in Sessions \ {s} : dispatch'[u] = dispatch[u]
  BY MoveOK DEF Types
<1> QED BY <1>1 DEF Keeps

LEMMA LeaveKeeps ==
    ASSUME Types, NEW s \in Sessions, dispatch' = [dispatch EXCEPT ![s] = NoDriver],
           assigned' = assigned
    PROVE  \A u \in Sessions : Keeps(u)
<1>1. /\ dispatch'[s].box = None
      /\ \A u \in Sessions \ {s} : dispatch'[u] = dispatch[u]
  BY DriverFields DEF Types, TurnsOK
<1> QED BY <1>1 DEF Keeps

LEMMA DriverCalm ==
    ASSUME Types, NEW s \in Sessions, DriverStep(s)
    PROVE  Calm \/ ClaimReadyWarm(s) \/ CreateCold(s)
<1> DEFINE x == dispatch[s].box
<1>0. /\ StoreOK /\ WorkOK /\ TasksOK /\ TurnsOK
      /\ x \in Boxes /\ dispatch[s].pc \in DriverPcs /\ None \in Boxes
      /\ assigned[s] \in Boxes /\ assigned \in [Sessions -> Boxes]
      /\ backend \in [Sandboxes -> Statuses]
      /\ warm \in [Sandboxes -> {None, "ready", "claimed", "evicting", "failed"}]
      /\ {"admitted", "ensure", "ready", "acquire", "detach", "claimed", "holding",
          "cold", "running"} \subseteq DriverPcs
  BY DriverFields DEF Types, DriverPcs, Using, Boxes, StoreOK
<1>n. ASSUME tasks' = tasks PROVE NoNew({"fill"})
  BY <1>n DEF NoNew
<1>1. CASE Admit(s)
  <2>1. \A u \in Sessions : Keeps(u)
    BY <1>0, <1>1, MoveKeeps DEF Admit, rows, BeforeReread
  <2> QED BY <1>1, <1>n, <2>1 DEF Calm, Admit, rows, workers
<1>2. CASE Reread(s)
  <2>1. \A u \in Sessions : Keeps(u)
    BY <1>0, <1>2, MoveKeeps DEF Reread, rows
  <2> QED BY <1>2, <1>n, <2>1 DEF Calm, Reread, rows, workers
<1>3. CASE EnsureExisting(s)
  <2>1. \A u \in Sessions : Keeps(u)
    BY <1>0, <1>3, MoveKeeps DEF EnsureExisting, rows, BeforeReread
  <2>2. \A y \in Sandboxes : backend'[y] = "absent" => backend[y] = "absent"
    BY <1>0, <1>3 DEF EnsureExisting
  <2> QED BY <1>3, <1>n, <2>1, <2>2 DEF Calm, EnsureExisting, rows, workers
<1>4. CASE StopMismatched(s)
  <2>1. \A u \in Sessions : Keeps(u)
    BY <1>0, <1>4, MoveKeeps DEF StopMismatched, rows
  <2>2. \A y \in Sandboxes : backend'[y] = "absent" => backend[y] = "absent"
    BY <1>0, <1>4 DEF StopMismatched
  <2> QED BY <1>4, <1>n, <2>1, <2>2 DEF Calm, StopMismatched, rows, workers
<1>5. CASE ClearMismatched(s)
  <2>1. /\ dispatch'[s].box = None
        /\ \A u \in Sessions \ {s} : dispatch'[u] = dispatch[u]
    BY <1>0, <1>5, MoveOK DEF ClearMismatched
  <2>2. \A u \in Sessions : Keeps(u)
    BY <1>0, <1>5, <2>1 DEF ClearMismatched, Keeps
  <2> QED BY <1>5, <1>n, <2>2 DEF Calm, ClearMismatched, workers
<1>7. CASE BindClaimed(s)
  <2>1. \A u \in Sessions : Keeps(u)
    BY <1>0, <1>7, MoveKeeps DEF BindClaimed, BeforeReread
  <2>2. ASSUME NEW y \in Sandboxes
        PROVE  /\ warm'[y] = "ready" => warm[y] = "ready"
               /\ warm'[y] # None => warm[y] # None \/ Has(s, y)
    BY <1>0, <1>7 DEF BindClaimed, Has
  <2> QED BY <1>7, <1>n, <2>1, <2>2 DEF Calm, BindClaimed, workers
<1>9. CASE AssignSandbox(s)
  <2>1. /\ dispatch'[s].box = x
        /\ \A u \in Sessions \ {s} : dispatch'[u] = dispatch[u]
    BY <1>0, <1>9, MoveOK DEF AssignSandbox
  <2>2. \A u \in Sessions : Keeps(u)
    BY <1>0, <1>9, <2>1 DEF AssignSandbox, Keeps, BeforeReread
  <2> QED BY <1>9, <1>n, <2>2 DEF Calm, AssignSandbox, workers
<1>10. CASE StartTurn(s)
  <2>1. \A u \in Sessions : Keeps(u)
    BY <1>0, <1>10, MoveKeeps, LeaveKeeps DEF StartTurn, rows, BeforeReread
  <2> QED BY <1>10, <1>n, <2>1 DEF Calm, StartTurn, rows, workers
<1>11. CASE EndTurn(s)
  <2>1. \A u \in Sessions : Keeps(u)
    BY <1>0, <1>11, LeaveKeeps DEF EndTurn, rows
  <2> QED BY <1>11, <1>n, <2>1 DEF Calm, EndTurn, rows, workers
<1>12. CASE DispatchFails(s)
  <2>1. \A u \in Sessions : Keeps(u)
    BY <1>0, <1>12, LeaveKeeps DEF DispatchFails, rows
  <2> QED BY <1>12, <1>n, <2>1 DEF Calm, DispatchFails, rows, workers
<1>13. CASE TurnAges(s)
  BY <1>13, <1>n DEF Calm, Keeps, TurnAges, rows, workers
<1> QED
  BY <1>1, <1>2, <1>3, <1>4, <1>5, <1>7, <1>9, <1>10, <1>11, <1>12, <1>13 DEF DriverStep

(* A step that no sweep of the cleanup worker takes. *)
SweepsGoOn ==
    \A r \in Replicas : /\ pending'[r] \subseteq pending[r]
                        /\ referenced'[r].read => referenced'[r] = referenced[r]

(* Steps of workers and replicas that change neither drivers nor assignments. *)
LEMMA AsideCalm ==
    ASSUME UNCHANGED <<dispatch, warm>>, NoNew({"fill"}),
           \A s \in Sessions : assigned'[s] \in {assigned[s], None},
           \A x \in Sandboxes : backend'[x] = "absent" => backend[x] = "absent"
    PROVE  Calm
BY DEF Calm, Keeps

LEMMA WorkerCalm ==
    ASSUME Types, NEW t \in tasks, WorkerStep(t)
    PROVE  \/ Calm /\ NoNew({"release", "orphan"}) /\ SweepsGoOn
           \/ FillInserts(t)
<1> DEFINE K == {"fill", "release", "orphan"}
<1>0. /\ StoreOK /\ WorkOK /\ TasksOK /\ t.kind \in JobKinds /\ t.by \in Replicas
      /\ t.kind # "switch" => t.box \in Sandboxes
      /\ t.pc # "clear" => t.box \in Sandboxes
      /\ backend \in [Sandboxes -> Statuses] /\ assigned \in [Sessions -> Boxes]
      /\ warm \in [Sandboxes -> {None, "ready", "claimed", "evicting", "failed"}]
      /\ pending \in [Replicas -> SUBSET Sandboxes]
  BY Standing, TaskBox DEF Types, StoreOK, WorkOK
<1>k. NoNew(K) => NoNew({"fill"}) /\ NoNew({"release", "orphan"})
  BY DEF NoNew
<1>e. End(t) => NoNew(K)
  BY EndNoNew
<1>g. ASSUME t.kind \notin K, NEW pc, Goto(t, pc) PROVE NoNew(K)
  BY <1>0, <1>g, GotoNoNew
<1>s. ASSUME Stop(t), t.box \in Sandboxes
      PROVE  \A x \in Sandboxes : backend'[x] = "absent" => backend[x] = "absent"
  BY <1>0, <1>s, StopOK
<1>w. UNCHANGED <<pending, referenced>> => SweepsGoOn
  BY DEF SweepsGoOn
<1>b. UNCHANGED backend => \A x \in Sandboxes : backend'[x] = "absent" => backend[x] = "absent"
  OBVIOUS
<1>a. UNCHANGED assigned => \A s \in Sessions : assigned'[s] \in {assigned[s], None}
  OBVIOUS
<1> HIDE DEF K
<1>1. CASE EvictUnclaimed(t)
  <2>1. t.kind \notin K
    BY <1>0, <1>1, Standing DEF EvictUnclaimed, K
  <2>2. NoNew(K)
    BY <1>1, <2>1, <1>e, <1>g DEF EvictUnclaimed
  <2>3. \A x \in Sandboxes : /\ warm'[x] = "ready" => warm[x] = "ready"
                             /\ warm'[x] # None => warm[x] # None
    BY <1>0, <1>1 DEF EvictUnclaimed, None
  <2> QED BY <1>1, <1>k, <1>w, <2>2, <2>3 DEF EvictUnclaimed, turns, Calm, Keeps
<1>2. CASE StopEvicted(t)
  <2>1. t.box \in Sandboxes
    BY <1>0, <1>2, Standing DEF StopEvicted
  <2> QED BY <1>2, <2>1, <1>k, <1>e, <1>s, <1>w, <1>a, AsideCalm DEF StopEvicted, rows, turns
<1>3. CASE MarkFailed(t)
  <2>3. \A x \in Sandboxes : /\ warm'[x] = "ready" => warm[x] = "ready"
                             /\ warm'[x] # None => warm[x] # None
    BY <1>0, <1>3 DEF MarkFailed
  <2> QED BY <1>3, <1>k, <1>e, <1>w, <2>3 DEF MarkFailed, turns, Calm, Keeps
<1>4. CASE PruneChecks(t)
  <2>1. NoNew(K)
    BY <1>4, <1>e, <1>g DEF PruneChecks, At, K
  <2> QED BY <1>4, <2>1, <1>k, <1>w, <1>a, <1>b, AsideCalm DEF PruneChecks, rows, turns
<1>5. CASE StaleStops(t)
  <2>1. NoNew(K)
    BY <1>5, <1>e, <1>g DEF StaleStops, At, K
  <2>2. t.box \in Sandboxes
    BY <1>0, <1>5 DEF StaleStops, At
  <2>3. \A x \in Sandboxes : backend'[x] = "absent" => backend[x] = "absent"
    BY <1>5, <2>2, <1>s, <1>b DEF StaleStops
  <2> QED BY <1>5, <2>1, <2>3, <1>k, <1>w, <1>a, AsideCalm DEF StaleStops, rows, turns
<1>7. CASE ReaperJudges(t)
  <2>1. NoNew(K)
    BY <1>7, <1>e, <1>g DEF ReaperJudges, At, K
  <2> QED BY <1>7, <2>1, <1>k, <1>w, <1>a, <1>b, AsideCalm DEF ReaperJudges, rows, turns
<1>8. CASE CleanupStops(t)
  <2>1. t.box \in Sandboxes
    BY <1>0, <1>8 DEF CleanupStops, At
  <2>2. SweepsGoOn
    BY <1>0, <1>8 DEF CleanupStops, SweepsGoOn
  <2> QED BY <1>8, <2>1, <2>2, <1>k, <1>e, <1>s, <1>a, AsideCalm DEF CleanupStops, rows, turns
<1>9. CASE PauseChecks(t)
  <2>1. NoNew(K)
    BY <1>9, <1>e, <1>g DEF PauseChecks, At, K
  <2> QED BY <1>9, <2>1, <1>k, <1>w, <1>a, <1>b, AsideCalm DEF PauseChecks, rows, turns
<1>10. CASE Pause(t)
  <2>1. \A x \in Sandboxes : backend'[x] = "absent" => backend[x] = "absent"
    BY <1>0, <1>10 DEF Pause
  <2> QED BY <1>10, <2>1, <1>k, <1>e, <1>w, <1>a, AsideCalm DEF Pause, rows, turns
<1>11. CASE ReleaseStops(t)
  <2>1. t.box \in Sandboxes
    BY <1>0, <1>11 DEF ReleaseStops, At
  <2> QED BY <1>11, <2>1, <1>k, <1>e, <1>s, <1>w, <1>a, AsideCalm DEF ReleaseStops, rows, turns
<1>12. CASE SwitchStops(t)
  <2>1. NoNew(K)
    BY <1>12, <1>e, <1>g DEF SwitchStops, At, K
  <2>2. t.box \in Sandboxes
    BY <1>0, <1>12 DEF SwitchStops, At
  <2> QED BY <1>12, <2>1, <2>2, <1>k, <1>s, <1>w, <1>a, AsideCalm DEF SwitchStops, rows, turns
<1>13. CASE SwitchClears(t)
  <2>1. \A s \in Sessions : assigned'[s] \in {assigned[s], None}
    BY <1>0, <1>13 DEF SwitchClears
  <2> QED BY <1>13, <2>1, <1>k, <1>e, <1>w, <1>b, AsideCalm DEF SwitchClears, turns
<1>14. CASE DrainChecks(t)
  <2>1. NoNew(K)
    BY <1>14, <1>e, <1>g DEF DrainChecks, At, K
  <2> QED BY <1>14, <2>1, <1>k, <1>w, <1>a, <1>b, AsideCalm DEF DrainChecks, rows, turns
<1>15. CASE DrainStops(t)
  <2>1. NoNew(K)
    BY <1>15, <1>e, <1>g DEF DrainStops, At, K
  <2>2. t.box \in Sandboxes
    BY <1>0, <1>15 DEF DrainStops, At
  <2> QED BY <1>15, <2>1, <2>2, <1>k, <1>s, <1>w, <1>a, AsideCalm DEF DrainStops, rows, turns
<1> QED
  BY <1>1, <1>2, <1>3, <1>4, <1>5, <1>7, <1>8, <1>9, <1>10, <1>11, <1>12, <1>13, <1>14,
     <1>15 DEF WorkerStep

(* Starting listed tasks of other kinds. *)
LEMMA ListedNoNew ==
    ASSUME NEW k, NEW r, NEW xs, NEW pc, Start(Listed(k, r, xs, pc)), NEW ks, k \notin ks
    PROVE  NoNew(ks)
<1>1. \A u \in Listed(k, r, xs, pc) : u.kind = k
  BY DEF Listed, Task
<1> QED BY <1>1 DEF Start, NoNew

LEMMA ReplicaCalm ==
    ASSUME Types, NEW r \in Replicas, ReplicaStep(r)
    PROVE  \/ Calm /\ NoNew({"release", "orphan"}) /\ SweepsGoOn
           \/ Calm /\ NoNew({"release", "orphan"}) /\ CleanupReads(r)
           \/ Calm /\ NoNew({"release"}) /\ CleanupLists(r)
           \/ \E s \in Sessions : Calm /\ NoNew({"orphan"}) /\ SweepsGoOn /\ Release(r, s)
           \/ FillCreates(r)
<1> DEFINE K == {"fill", "release", "orphan"}
<1>0. /\ StoreOK /\ WorkOK /\ TasksOK /\ TurnsOK
      /\ assigned \in [Sessions -> Boxes] /\ dispatch \in [Sessions -> Drivers]
      /\ warm \in [Sandboxes -> {None, "ready", "claimed", "evicting", "failed"}]
      /\ pending \in [Replicas -> SUBSET Sandboxes]
      /\ referenced \in [Replicas -> [read: BOOLEAN, ids: SUBSET Sandboxes]]
  BY DEF Types, StoreOK, WorkOK, TurnsOK
<1>k. NoNew(K) => NoNew({"fill"}) /\ NoNew({"release", "orphan"})
  BY DEF NoNew
<1>w. UNCHANGED <<pending, referenced>> => SweepsGoOn
  BY DEF SweepsGoOn
<1>l. ASSUME NEW k \in JobKinds \ K, NEW xs, NEW pc, Start(Listed(k, r, xs, pc)) PROVE NoNew(K)
  BY <1>l, ListedNoNew
<1>n. ASSUME NEW k \in JobKinds \ K, NEW x, NEW s, NEW pc, NEW n,
             Start({Task(k, r, x, s, pc, n)})
      PROVE  NoNew(K)
  BY <1>n DEF Start, NoNew, Task
<1>a. ASSUME UNCHANGED <<dispatch, warm, assigned, backend>>, NoNew(K) PROVE Calm
  BY <1>a, <1>k, AsideCalm
<1>j. {"prune", "stale", "unconfigured", "reap", "drain", "pause", "switch"} \subseteq JobKinds \ K
  BY DEF JobKinds
<1> HIDE DEF K
<1>1. CASE PruneLists(r)
  <2>1. Start(Listed("prune", r, Ready, "check"))
    BY <1>1 DEF PruneLists, Listed
  <2> QED BY <1>1, <2>1, <1>k, <1>w, <1>l, <1>a, <1>j DEF PruneLists, rows, turns
<1>2. CASE StaleLists(r)
  <2>1. Start(Listed("stale", r, {y \in Sandboxes : warm[y] = "evicting"}, "check"))
    BY <1>2 DEF StaleLists, Listed
  <2> QED BY <1>2, <2>1, <1>k, <1>w, <1>l, <1>a, <1>j DEF StaleLists, rows, turns
<1>3. CASE UnconfiguredLists(r)
  <2>1. PICK xs \in SUBSET Ready : Start(Listed("unconfigured", r, xs, "evict"))
    BY <1>3 DEF UnconfiguredLists, Listed
  <2> QED BY <1>3, <2>1, <1>k, <1>w, <1>l, <1>a, <1>j DEF UnconfiguredLists, rows, turns
<1>4. CASE FillCounts(r)
  <2>1. NoNew(K)
    BY <1>4 DEF FillCounts, NoNew
  <2> QED BY <1>4, <2>1, <1>k, <1>w, <1>a DEF FillCounts, rows, turns
<1>6. CASE ReaperLists(r)
  <2>1. Start(Listed("reap", r, {x \in Sandboxes : Observed(x) /\ old[x]}, "judge"))
    BY <1>6 DEF ReaperLists, Listed
  <2> QED BY <1>6, <2>1, <1>k, <1>w, <1>l, <1>a, <1>j DEF ReaperLists, rows, turns
<1>7. CASE CleanupReads(r)
  <2>1. NoNew(K)
    BY <1>7 DEF CleanupReads, NoNew
  <2> QED BY <1>7, <2>1, <1>k, <1>a DEF CleanupReads, rows, turns
<1>8. CASE CleanupLists(r)
  <2>1. Start(Listed("orphan", r, Orphans(r) \cap pending[r], "stop"))
    BY <1>8 DEF CleanupLists, Listed
  <2>2. NoNew({"fill"}) /\ NoNew({"release"})
    BY <2>1, ListedNoNew
  <2> QED BY <1>8, <2>2, AsideCalm DEF CleanupLists, rows, turns
<1>9. CASE DrainLists(r)
  <2>1. Start(Listed("drain", r, {x \in Sandboxes : Observed(x) /\ backend[x] # "stopped"}, "check"))
    BY <1>9 DEF DrainLists, Listed
  <2> QED BY <1>9, <2>1, <1>k, <1>w, <1>l, <1>a, <1>j DEF DrainLists, rows, turns
<1>10. CASE Crash(r)
  <2>1. NoNew(K)
    BY <1>10 DEF Crash, NoNew
  <2>2. NoDriver.box = None /\ Driver("lost", None, None).box = None
    BY DEF NoDriver, Driver
  <2>3. \A s \in Sessions : Keeps(s)
    BY <1>0, <1>10, <2>2 DEF Crash, Keeps, rows
  <2>4. SweepsGoOn
    BY <1>0, <1>10 DEF Crash, SweepsGoOn, NotSweeping
  <2> QED BY <1>10, <2>1, <2>3, <2>4, <1>k DEF Calm, Crash, rows
<1>11. ASSUME NEW s \in Sessions, Arrive(r, s)
       PROVE  Calm /\ NoNew({"release", "orphan"}) /\ SweepsGoOn
  <2>1. NoNew(K)
    BY <1>11 DEF Arrive, workers, NoNew
  <2>2. \A u \in Sessions : Keeps(u)
    BY <1>0, <1>11 DEF Arrive, Keeps, rows, Driver
  <2> QED BY <1>11, <2>1, <2>2, <1>k, <1>w DEF Calm, Arrive, rows, workers
<1>12. ASSUME NEW s \in Sessions, IdleFound(r, s)
       PROVE  Calm /\ NoNew({"release", "orphan"}) /\ SweepsGoOn
  BY <1>12, <1>k, <1>w, <1>n, <1>a, <1>j DEF IdleFound, rows, turns
<1>13. ASSUME NEW s \in Sessions, Release(r, s)
       PROVE  Calm /\ NoNew({"orphan"}) /\ SweepsGoOn
  <2>1. NoNew({"fill"}) /\ NoNew({"orphan"})
    BY <1>13 DEF Release, Start, Task, NoNew
  <2>2. \A x \in Sandboxes : /\ warm'[x] = "ready" => warm[x] = "ready"
                             /\ warm'[x] # None => warm[x] # None
    BY <1>0, <1>13 DEF Release
  <2>3. \A u \in Sessions : Keeps(u)
    BY <1>0, <1>13 DEF Release, Keeps, turns
  <2> QED BY <1>13, <2>1, <2>2, <2>3, <1>w DEF Calm, Release
<1>14. ASSUME NEW s \in Sessions, SwitchReads(r, s)
       PROVE  Calm /\ NoNew({"release", "orphan"}) /\ SweepsGoOn
  BY <1>14, <1>k, <1>w, <1>n, <1>a, <1>j DEF SwitchReads, rows, turns
<1> QED
  BY <1>1, <1>2, <1>3, <1>4, <1>6, <1>7, <1>8, <1>9, <1>10, <1>11, <1>12, <1>13, <1>14
     DEF ReplicaStep

LEMMA EnvCalm ==
    ASSUME Types, NEW x \in Sandboxes, EnvStep(x)
    PROVE  Calm /\ NoNew({"release", "orphan"}) /\ SweepsGoOn
<1>1. /\ tasks' = tasks /\ dispatch' = dispatch /\ warm' = warm /\ assigned' = assigned
      /\ pending' = pending /\ referenced' = referenced
  BY DEF EnvStep, BoxAges, ClaimAges, SandboxDies, SandboxRegresses, SandboxRecovers,
         rows, turns, workers
<1>2. \A y \in Sandboxes : backend'[y] = "absent" => backend[y] = "absent"
  BY DEF EnvStep, BoxAges, ClaimAges, SandboxDies, SandboxRegresses, SandboxRecovers,
         Types, StoreOK
<1>3. NoNew({"fill"}) /\ NoNew({"release", "orphan"}) /\ SweepsGoOn
  BY <1>1 DEF NoNew, SweepsGoOn
<1> QED BY <1>1, <1>2, <1>3, AsideCalm

(* The four steps that are not calm take a sandbox that no session has: one out of
   the pool, one that is just being created, or the one in a fill task. *)
LEMMA ClaimHands ==
    ASSUME Types, Hands, NEW s \in Sessions, ClaimReadyWarm(s)
    PROVE  Hands' /\ \A x \in Sandboxes : Retired(x) => Retired(x)'
<1>1. PICK y \in Ready : /\ warm' = [warm EXCEPT ![y] = "claimed"]
                         /\ Move(s, "claimed", y)
  BY DEF ClaimReadyWarm
<1>2. /\ y \in Sandboxes /\ y \in Boxes /\ warm[y] = "ready" /\ "claimed" \in DriverPcs
      /\ warm \in [Sandboxes -> {None, "ready", "claimed", "evicting", "failed"}]
      /\ backend' = backend /\ assigned' = assigned /\ tasks' = tasks
  BY DEF Ready, Boxes, DriverPcs, Using, Types, StoreOK, ClaimReadyWarm, workers
<1>3. /\ dispatch'[s].box = y /\ \A u \in Sessions \ {s} : dispatch'[u] = dispatch[u]
  BY <1>1, <1>2, MoveOK DEF Types
<1>4. /\ \A u \in Sessions : ~Has(u, y)
      /\ backend[y] # "absent"
      /\ \A t \in tasks : t.kind = "fill" => t.box # y
  BY <1>2 DEF Hands, Taken, RowIsCreated, Fresh, None
<1>5. ASSUME NEW u \in Sessions, NEW x \in Sandboxes, Has(u, x)'
      PROVE  Has(u, x) \/ (u = s /\ x = y)
  BY <1>2, <1>3, <1>5 DEF Has
<1>6. Exclusive'
  BY <1>4, <1>5 DEF Hands, Exclusive
<1>7. Taken' /\ RowIsCreated'
  BY <1>1, <1>2, <1>4, <1>5 DEF Hands, Taken, RowIsCreated
<1>8. Fresh'
  <2>1. \A t \in tasks : t.kind = "fill" => t.box \in Sandboxes
    BY Standing DEF Types
  <2> QED BY <1>1, <1>2, <1>4, <1>5, <2>1 DEF Hands, Fresh
<1>9. ASSUME NEW x \in Sandboxes, Retired(x) PROVE Retired(x)'
  <2>1. x # y
    BY <1>2, <1>9 DEF Retired
  <2> QED BY <1>1, <1>2, <1>3, <1>9, <2>1 DEF Retired
<1> QED BY <1>6, <1>7, <1>8, <1>9 DEF Hands

LEMMA ColdHands ==
    ASSUME Types, Hands, NEW s \in Sessions, CreateCold(s)
    PROVE  Hands' /\ \A x \in Sandboxes : Retired(x) => Retired(x)'
<1>1. PICK y \in Sandboxes : /\ backend[y] = "absent"
                             /\ backend' = [backend EXCEPT ![y] = "running"]
                             /\ Move(s, "holding", y)
  BY DEF CreateCold
<1>2. /\ y \in Boxes /\ "holding" \in DriverPcs /\ backend \in [Sandboxes -> Statuses]
      /\ warm' = warm /\ assigned' = assigned /\ tasks' = tasks
  BY DEF Boxes, DriverPcs, Using, Types, StoreOK, CreateCold, workers, rows
<1>3. /\ dispatch'[s].box = y /\ \A u \in Sessions \ {s} : dispatch'[u] = dispatch[u]
  BY <1>1, <1>2, MoveOK DEF Types
<1>4. /\ \A u \in Sessions : ~Has(u, y)
      /\ warm[y] = None
      /\ \A t \in tasks : t.kind = "fill" => t.box # y
  BY <1>1 DEF Hands, Taken, RowIsCreated, Fresh
<1>5. ASSUME NEW u \in Sessions, NEW x \in Sandboxes, Has(u, x)'
      PROVE  Has(u, x) \/ (u = s /\ x = y)
  BY <1>2, <1>3, <1>5 DEF Has
<1>6. Exclusive'
  BY <1>4, <1>5 DEF Hands, Exclusive
<1>7. Taken' /\ RowIsCreated'
  BY <1>1, <1>2, <1>4, <1>5 DEF Hands, Taken, RowIsCreated, None
<1>8. Fresh'
  <2>1. \A t \in tasks : t.kind = "fill" => t.box \in Sandboxes
    BY Standing DEF Types
  <2> QED BY <1>1, <1>2, <1>4, <1>5, <2>1 DEF Hands, Fresh
<1>9. ASSUME NEW x \in Sandboxes, Retired(x) PROVE Retired(x)'
  <2>1. x # y
    BY <1>1, <1>9 DEF Retired
  <2> QED BY <1>1, <1>2, <1>3, <1>9, <2>1 DEF Retired
<1> QED BY <1>6, <1>7, <1>8, <1>9 DEF Hands

LEMMA CreateHands ==
    ASSUME Types, Hands, NEW r \in Replicas, FillCreates(r)
    PROVE  Hands' /\ \A x \in Sandboxes : Retired(x) => Retired(x)'
<1>1. PICK y \in Sandboxes : /\ backend[y] = "absent"
                             /\ backend' = [backend EXCEPT ![y] = "running"]
                             /\ Start({Task("fill", r, y, None, "insert", 0)})
  BY DEF FillCreates
<1> DEFINE n == Task("fill", r, y, None, "insert", 0)
<1>2. /\ backend \in [Sandboxes -> Statuses] /\ n.box = y /\ tasks' = tasks \cup {n}
      /\ warm' = warm /\ assigned' = assigned /\ dispatch' = dispatch
  BY <1>1 DEF Types, StoreOK, FillCreates, Start, Task, turns, rows
<1> HIDE DEF n
<1>4. /\ \A u \in Sessions : ~Has(u, y)
      /\ warm[y] = None
      /\ \A t \in tasks : t.kind = "fill" => t.box # y
  BY <1>1 DEF Hands, Taken, RowIsCreated, Fresh
<1>5. \A u \in Sessions, x \in Sandboxes : Has(u, x)' <=> Has(u, x)
  BY <1>2 DEF Has
<1>6. Exclusive' /\ Taken' /\ RowIsCreated'
  BY <1>1, <1>2, <1>5 DEF Hands, Exclusive, Taken, RowIsCreated
<1>8. Fresh'
  <2>1. \A t \in tasks : t.kind = "fill" => t.box \in Sandboxes
    BY Standing DEF Types
  <2>2. ASSUME NEW t \in tasks', t.kind = "fill"
        PROVE  /\ backend'[t.box] # "absent" /\ warm'[t.box] = None
               /\ \A u \in Sessions : ~Has(u, t.box)'
               /\ \A u \in tasks' : u.kind = "fill" /\ u.box = t.box => u = t
    <3>1. CASE t = n
      BY <1>1, <1>2, <1>4, <1>5, <3>1
    <3>2. CASE t \in tasks
      BY <1>1, <1>2, <1>4, <1>5, <2>1, <2>2, <3>2 DEF Hands, Fresh
    <3> QED BY <1>2, <3>1, <3>2
  <2> QED BY <2>2 DEF Fresh, Has
<1>9. ASSUME NEW x \in Sandboxes, Retired(x) PROVE Retired(x)'
  <2>1. x # y
    BY <1>1, <1>9 DEF Retired
  <2> QED BY <1>1, <1>2, <1>9, <2>1 DEF Retired
<1> QED BY <1>6, <1>8, <1>9 DEF Hands

LEMMA InsertHands ==
    ASSUME Types, Hands, NEW t \in tasks, FillInserts(t)
    PROVE  Hands' /\ \A x \in Sandboxes : Retired(x) => Retired(x)'
<1>1. /\ t.kind = "fill" /\ t.box \in Sandboxes
      /\ backend \in [Sandboxes -> Statuses]
      /\ warm \in [Sandboxes -> {None, "ready", "claimed", "evicting", "failed"}]
      /\ assigned' = assigned /\ dispatch' = dispatch /\ tasks' = tasks \ {t}
  BY Standing DEF Types, StoreOK, FillInserts, At, End, turns
<1>2. /\ \A u \in Sessions : ~Has(u, t.box)
      /\ backend[t.box] # "absent"
      /\ \A u \in tasks : u.kind = "fill" /\ u # t => u.box # t.box
  BY <1>1 DEF Hands, Fresh
<1>3. \A x \in Sandboxes : /\ backend'[x] = "absent" => backend[x] = "absent"
                           /\ x # t.box => warm'[x] = warm[x]
  BY <1>1 DEF FillInserts
<1>4. \A u \in Sessions, x \in Sandboxes : Has(u, x)' <=> Has(u, x)
  BY <1>1 DEF Has
<1>5. Exclusive' /\ Taken' /\ RowIsCreated'
  BY <1>1, <1>2, <1>3, <1>4 DEF Hands, Exclusive, Taken, RowIsCreated
<1>6. Fresh'
  <2>1. \A u \in tasks : u.kind = "fill" => u.box \in Sandboxes
    BY Standing DEF Types
  <2> QED BY <1>1, <1>2, <1>3, <1>4, <2>1 DEF Hands, Fresh
<1>7. ASSUME NEW x \in Sandboxes, Retired(x) PROVE Retired(x)'
  <2>1. x # t.box
    BY <1>1, <1>7 DEF Retired
  <2> QED BY <1>1, <1>3, <1>7, <2>1 DEF Retired
<1> QED BY <1>5, <1>6, <1>7 DEF Hands

LEMMA InitHands == Init => Hands
BY LifecycleAssumption
   DEF Init, Hands, Exclusive, Taken, RowIsCreated, Fresh, Has, NoDriver, Driver

(* Every step: no session gets what another one has, and the retired stay retired. *)
LEMMA StepHands ==
    ASSUME Types, Hands, [Next]_vars
    PROVE  Hands' /\ \A x \in Sandboxes : Retired(x) => Retired(x)'
<1>1. CASE Calm
  BY <1>1, CalmHands, CalmRetired
<1>2. ASSUME NEW s \in Sessions, DriverStep(s)
      PROVE  Hands' /\ \A x \in Sandboxes : Retired(x) => Retired(x)'
  BY <1>1, <1>2, DriverCalm, ClaimHands, ColdHands
<1>3. ASSUME NEW t \in tasks, WorkerStep(t)
      PROVE  Hands' /\ \A x \in Sandboxes : Retired(x) => Retired(x)'
  BY <1>1, <1>3, WorkerCalm, InsertHands
<1>4. ASSUME NEW r \in Replicas, ReplicaStep(r)
      PROVE  Hands' /\ \A x \in Sandboxes : Retired(x) => Retired(x)'
  BY <1>1, <1>4, ReplicaCalm, CreateHands
<1>5. CASE UNCHANGED vars
  <2>1. Calm
    BY <1>5 DEF vars, Calm, Keeps, NoNew
  <2> QED BY <1>1, <2>1
<1> QED BY <1>1, <1>2, <1>3, <1>4, <1>5, EnvCalm DEF Next, EnvStep

LEMMA AlwaysHands == Spec => [](Types /\ Hands)
<1>1. Types /\ Hands /\ [Next]_vars => Hands'
  BY StepHands
<1> QED BY <1>1, InitHands, AlwaysTypes, PTL DEF Spec

(* However sessions on any number of replicas claim, create, reuse, lose and release
   sandboxes, and whatever the replenisher, the reaper, the drain and the switch do
   in between, no sandbox is ever in the hands of two sessions, and none that is in
   use is offered by the pool (claim_ready_warm_sandbox, update_sandbox_assignment). *)
THEOREM NeverShared == Spec => []NoSharedSandbox
<1>1. Types /\ Hands => NoSharedSandbox
  <2> SUFFICES ASSUME Types, Hands PROVE NoSharedSandbox
    OBVIOUS
  <2>1. ASSUME NEW s \in Sessions, NEW x \in Holds(s) PROVE x \in Boxes /\ Has(s, x)
    BY <2>1, DriverFields DEF Holds, Has, Types, StoreOK
  <2>2. \A s, u \in Sessions : s # u => Holds(s) \cap Holds(u) \subseteq {None}
    BY <2>1 DEF Hands, Exclusive, Boxes
  <2>3. \A s \in Sessions : Holds(s) \cap Ready = {}
    BY <2>1 DEF Hands, Taken, Ready
  <2> QED BY <2>2, <2>3 DEF NoSharedSandbox
<1> QED BY <1>1, AlwaysHands, PTL

(* A sandbox that was released, or that no row and no driver refers to any more, never
   comes back into the pool or into the hands of a session. *)
THEOREM RetiredForGood ==
    Spec => [][\A x \in Sandboxes : Retired(x) => Retired(x)']_vars
<1>1. Types /\ Hands /\ [Next]_vars => [\A x \in Sandboxes : Retired(x) => Retired(x)']_vars
  BY StepHands
<1> QED BY <1>1, AlwaysHands, PTL DEF Spec

-----------------------------------------------------------------------------
(***************************************************************************)
(* Release and the orphan sweep                                            *)
(***************************************************************************)

(* A driver's step starts no task and touches no sweep. *)
LEMMA DriverFrame ==
    ASSUME NEW s \in Sessions, DriverStep(s)
    PROVE  /\ tasks' = tasks /\ pending' = pending /\ referenced' = referenced
           /\ old' = old
BY DEF DriverStep, Admit, Reread, EnsureExisting, StopMismatched, ClearMismatched,
       ClaimReadyWarm, BindClaimed, CreateCold, AssignSandbox, StartTurn, EndTurn,
       DispatchFails, TurnAges, workers

(* The steps as the sweeps and the releases see them. *)
LEMMA StepFrame ==
    ASSUME Types, [Next]_vars
    PROVE  \/ NoNew({"release", "orphan"}) /\ SweepsGoOn
           \/ \E r \in Replicas : NoNew({"release", "orphan"}) /\ CleanupReads(r)
           \/ \E r \in Replicas : NoNew({"release"}) /\ CleanupLists(r)
           \/ \E r \in Replicas, s \in Sessions :
                NoNew({"orphan"}) /\ SweepsGoOn /\ Release(r, s)
<1> DEFINE Still == tasks' = tasks /\ pending' = pending /\ referenced' = referenced
<1>1. Still => NoNew({"release", "orphan"}) /\ SweepsGoOn
  BY DEF NoNew, SweepsGoOn
<1>2. ASSUME NEW t \in tasks, FillInserts(t) PROVE NoNew({"release", "orphan"}) /\ SweepsGoOn
  BY <1>2 DEF FillInserts, End, NoNew, SweepsGoOn
<1>3. ASSUME NEW r \in Replicas, FillCreates(r) PROVE NoNew({"release", "orphan"}) /\ SweepsGoOn
  BY <1>3 DEF FillCreates, Start, Task, NoNew, SweepsGoOn
<1>4. ASSUME NEW s \in Sessions, DriverStep(s) PROVE Still
  BY <1>4, DriverFrame
<1>5. UNCHANGED vars => Still
  BY DEF vars
<1> HIDE DEF Still
<1>6. ASSUME NEW t \in tasks, WorkerStep(t) PROVE NoNew({"release", "orphan"}) /\ SweepsGoOn
  BY <1>2, <1>6, WorkerCalm
<1>7. ASSUME NEW r \in Replicas, ReplicaStep(r)
      PROVE  \/ NoNew({"release", "orphan"}) /\ SweepsGoOn
             \/ NoNew({"release", "orphan"}) /\ CleanupReads(r)
             \/ NoNew({"release"}) /\ CleanupLists(r)
             \/ \E s \in Sessions : NoNew({"orphan"}) /\ SweepsGoOn /\ Release(r, s)
  BY <1>3, <1>7, ReplicaCalm
<1> QED BY <1>1, <1>4, <1>5, <1>6, <1>7, EnvCalm DEF Next, EnvStep

(* What is released is retired. *)
ReleasedIsRetired == \A t \in tasks : t.kind = "release" => Retired(t.box)

LEMMA ReleaseRetires ==
    ASSUME Types, Hands, NEW r \in Replicas, NEW s \in Sessions, Release(r, s)
    PROVE  /\ \A x \in Boxes : assigned[s] = x => Retired(x)'
           /\ \A t \in tasks' : t.kind = "release" => t \in tasks \/ Retired(t.box)'
<1> PICK x \in Boxes : assigned[s] = x
  BY DEF Types, StoreOK
<1> DEFINE n == Task("release", r, x, s, "stop", 0)
<1>1. /\ x \in Sandboxes /\ x # None /\ assigned[s] = x /\ turn[s] = "none" /\ dispatch' = dispatch
      /\ backend' = backend /\ warm' = [warm EXCEPT ![x] = IF @ = None THEN None ELSE "failed"]
      /\ assigned' = [assigned EXCEPT ![s] = None] /\ assigned \in [Sessions -> Boxes]
      /\ warm \in [Sandboxes -> {None, "ready", "claimed", "evicting", "failed"}]
      /\ tasks' = tasks \cup {n} /\ n.kind = "release" /\ n.box = x
  BY DEF Release, Start, Task, Types, StoreOK, Boxes, turns
<1> HIDE DEF n
<1>2. backend[x] # "absent" /\ warm'[x] # "ready"
  BY <1>1 DEF Hands, Taken, Has, None
<1>3. \A t \in tasks' : t.kind = "fill" => t.box # x
  BY <1>1 DEF Hands, Fresh, Has
<1>4. ASSUME NEW u \in Sessions
      PROVE  /\ assigned'[u] # x
             /\ dispatch[u].box = x => dispatch[u].pc \in BeforeReread
  <2>1. CASE u = s
    <3>1. dispatch[s].pc \in {"none", "arrived"}
      BY <1>1 DEF Types, TurnsOK
    <3>2. dispatch[s].pc = "none" => dispatch[s].box = None
      BY DEF Types, TurnsOK, EmptyHanded
    <3> QED BY <1>1, <2>1, <3>1, <3>2 DEF BeforeReread
  <2>2. CASE u # s
    <3>1. ~Has(u, x)
      BY <1>1, <2>2 DEF Hands, Exclusive, Has
    <3> QED BY <1>1, <2>2, <3>1 DEF Has
  <2> QED BY <2>1, <2>2
<1>5. Retired(x)'
  BY <1>1, <1>2, <1>3, <1>4 DEF Retired
<1> QED BY <1>1, <1>5 DEF Retired

LEMMA StepReleased ==
    ASSUME Types, Hands, ReleasedIsRetired, [Next]_vars PROVE ReleasedIsRetired'
<1>1. ASSUME NEW t \in tasks', t.kind = "release" PROVE t \in tasks \/ Retired(t.box)'
  <2>1. NoNew({"release"}) \/ \E r \in Replicas, s \in Sessions : Release(r, s)
    BY StepFrame DEF NoNew
  <2> QED BY <1>1, <2>1, ReleaseRetires DEF NoNew
<1>2. ASSUME NEW t \in tasks, t.kind = "release" PROVE Retired(t.box)'
  <2>1. t.box \in Sandboxes /\ Retired(t.box)
    BY <1>2, Standing DEF Types, ReleasedIsRetired
  <2> QED BY <2>1, StepHands
<1> QED BY <1>1, <1>2 DEF ReleasedIsRetired, Retired

(* A retired sandbox is in nobody's hands. *)
LEMMA RetiredIsUnused ==
    ASSUME Types, NEW x \in Sandboxes, Retired(x) PROVE ~InUse(x) /\ ~Assigned(x)
BY DEF Retired, InUse, Assigned, Using, BeforeReread

(* The sandbox a release took from a session, with whatever delay it is stopped, is
   not in the hands of any turn, although the turn that was being admitted meanwhile
   had read it as the session's (detach_idle_session_sandbox and the second reading in
   execute_session_impl). *)
THEOREM NotReused == Spec => []ReleasedIsNotReused
<1>1. Init => ReleasedIsRetired
  BY DEF Init, ReleasedIsRetired
<1>2. Types /\ Hands /\ ReleasedIsRetired /\ [Next]_vars => ReleasedIsRetired'
  BY StepReleased
<1>3. Types /\ ReleasedIsRetired => ReleasedIsNotReused
  BY RetiredIsUnused, Standing DEF ReleasedIsRetired, ReleasedIsNotReused, Types
<1> QED BY <1>1, <1>2, <1>3, AlwaysHands, PTL DEF Spec

(* A driver that has read, or was given, the session's sandbox is in the sandbox that
   the session is assigned, unless a switch to another harness clears the assignment
   of such a driver. *)
Bound == {"ensure", "ready", "running"}
Agrees(s) ==
    dispatch[s].pc \in Bound /\ dispatch[s].box # None => assigned[s] = dispatch[s].box
DrivenIsAssigned == \A s \in Sessions : Agrees(s)

SwitchSparesTurn ==
    \A t \in tasks : SwitchClears(t) =>
        dispatch[t.session].pc \notin Bound \/ dispatch[t.session].box = None

LEMMA DriverAgrees ==
    ASSUME Types, DrivenIsAssigned, NEW s \in Sessions, DriverStep(s) PROVE DrivenIsAssigned'
<1> DEFINE x == dispatch[s].box
<1>0. /\ TurnsOK /\ x \in Boxes /\ None \in Boxes /\ assigned \in [Sessions -> Boxes]
      /\ assigned[s] \in Boxes /\ Agrees(s)
      /\ {"admitted", "ensure", "ready", "acquire", "detach", "claimed", "holding",
          "cold", "running"} \subseteq DriverPcs
  BY DriverFields DEF Types, DriverPcs, Using, Boxes, StoreOK, DrivenIsAssigned
<1>m. ASSUME NEW pc \in DriverPcs, NEW y \in Boxes, Move(s, pc, y)
      PROVE  /\ dispatch'[s].pc = pc /\ dispatch'[s].box = y
             /\ \A u \in Sessions \ {s} : dispatch'[u] = dispatch[u]
  BY <1>0, <1>m, MoveOK
<1>l. dispatch' = [dispatch EXCEPT ![s] = NoDriver] => /\ dispatch'[s].box = None
        /\ \A u \in Sessions \ {s} : dispatch'[u] = dispatch[u]
  BY DriverFields DEF Types, TurnsOK
<1>1. CASE assigned' = assigned
  <2>1. ASSUME NEW pc \in DriverPcs, NEW y \in Boxes, Move(s, pc, y),
               y # None /\ pc \in Bound => assigned[s] = y
        PROVE  DrivenIsAssigned'
    BY <1>1, <1>m, <2>1 DEF DrivenIsAssigned, Agrees
  <2>2. ASSUME dispatch' = [dispatch EXCEPT ![s] = NoDriver] PROVE DrivenIsAssigned'
    BY <1>1, <1>l, <2>2 DEF DrivenIsAssigned, Agrees
  <2>3. CASE Admit(s)
    BY <1>0, <2>1, <2>3 DEF Admit, Bound
  <2>4. CASE Reread(s)
    BY <1>0, <2>1, <2>4 DEF Reread
  <2>5. CASE EnsureExisting(s)
    BY <1>0, <2>1, <2>5 DEF EnsureExisting, Agrees, Bound
  <2>6. CASE StopMismatched(s)
    BY <1>0, <2>1, <2>6 DEF StopMismatched
  <2>7. CASE ClaimReadyWarm(s)
    <3>1. PICK y \in Ready : Move(s, "claimed", y)
      BY <2>7 DEF ClaimReadyWarm
    <3> QED BY <1>0, <2>1, <3>1 DEF Bound, Ready, Boxes
  <2>8. CASE BindClaimed(s)
    BY <1>0, <2>1, <2>8 DEF BindClaimed, Bound
  <2>9. CASE CreateCold(s)
    <3>1. PICK y \in Sandboxes : Move(s, "holding", y)
      BY <2>9 DEF CreateCold
    <3> QED BY <1>0, <2>1, <3>1 DEF Bound, Boxes
  <2>10. CASE StartTurn(s)
    BY <1>0, <2>1, <2>2, <2>10 DEF StartTurn, Agrees, Bound
  <2>11. CASE EndTurn(s) \/ DispatchFails(s)
    BY <2>2, <2>11 DEF EndTurn, DispatchFails
  <2>12. CASE TurnAges(s)
    BY <1>1, <2>12 DEF TurnAges, DrivenIsAssigned, Agrees
  <2>13. CASE ClearMismatched(s)
    BY <1>0, <2>1, <2>13 DEF ClearMismatched
  <2>14. CASE AssignSandbox(s)
    <3>1. assigned[s] = x
      BY <1>0, <1>1, <2>14 DEF AssignSandbox
    <3> QED BY <1>0, <2>1, <2>14, <3>1 DEF AssignSandbox
  <2> QED
    BY <2>3, <2>4, <2>5, <2>6, <2>7, <2>8, <2>9, <2>10, <2>11, <2>12, <2>13, <2>14
       DEF DriverStep
<1>2. CASE ClearMismatched(s)
  <2>1. dispatch'[s].box = None /\ \A u \in Sessions \ {s} : dispatch'[u] = dispatch[u]
    BY <1>0, <1>m, <1>2 DEF ClearMismatched
  <2> QED BY <1>0, <1>2, <2>1 DEF ClearMismatched, DrivenIsAssigned, Agrees
<1>3. CASE AssignSandbox(s)
  <2>1. dispatch'[s].box = x /\ \A u \in Sessions \ {s} : dispatch'[u] = dispatch[u]
    BY <1>0, <1>m, <1>3 DEF AssignSandbox
  <2> QED BY <1>0, <1>3, <2>1 DEF AssignSandbox, DrivenIsAssigned, Agrees
<1> QED
  BY <1>1, <1>2, <1>3 DEF DriverStep, Admit, Reread, EnsureExisting, StopMismatched,
     ClaimReadyWarm, BindClaimed, CreateCold, StartTurn, EndTurn, DispatchFails, TurnAges, rows

(* What the workers do to the sessions. *)
LEMMA WorkerSessions ==
    ASSUME NEW t \in tasks, WorkerStep(t)
    PROVE  dispatch' = dispatch /\ (assigned' = assigned \/ SwitchClears(t))
BY DEF WorkerStep, EvictUnclaimed, StopEvicted, MarkFailed, PruneChecks, StaleStops,
       FillInserts, ReaperJudges, CleanupStops, PauseChecks, Pause, ReleaseStops, SwitchStops,
       SwitchClears, DrainChecks, DrainStops, rows, turns

LEMMA ReplicaSessions ==
    ASSUME NEW r \in Replicas, ReplicaStep(r)
    PROVE  \/ dispatch' = dispatch /\ assigned' = assigned
           \/ Crash(r)
           \/ \E s \in Sessions : Arrive(r, s) \/ Release(r, s)
BY DEF ReplicaStep, PruneLists, StaleLists, UnconfiguredLists, FillCounts, FillCreates,
       ReaperLists, CleanupReads, CleanupLists, DrainLists, IdleFound, SwitchReads, rows, turns

LEMMA StepAgrees ==
    ASSUME Types, DrivenIsAssigned, [Next]_vars, [SwitchSparesTurn]_vars
    PROVE  DrivenIsAssigned'
<1>0. /\ assigned \in [Sessions -> Boxes] /\ dispatch \in [Sessions -> Drivers] /\ TurnsOK
  BY DEF Types, StoreOK, TurnsOK
<1>1. dispatch' = dispatch /\ assigned' = assigned => DrivenIsAssigned'
  BY DEF DrivenIsAssigned, Agrees
<1>2. ASSUME NEW t \in tasks, WorkerStep(t) PROVE DrivenIsAssigned'
  <2>1. CASE SwitchClears(t) /\ SwitchSparesTurn
    <3>1. \A u \in Sessions \ {t.session} : assigned'[u] = assigned[u]
      BY <1>0, <2>1 DEF SwitchClears
    <3> QED BY <1>2, <2>1, <3>1, WorkerSessions DEF SwitchSparesTurn, DrivenIsAssigned, Agrees
  <2> QED BY <1>1, <1>2, <2>1, WorkerSessions DEF vars
<1>3. ASSUME NEW r \in Replicas, NEW s \in Sessions, Arrive(r, s) PROVE DrivenIsAssigned'
  <2>1. dispatch'[s].pc = "arrived" /\ \A u \in Sessions \ {s} : dispatch'[u] = dispatch[u]
    BY <1>0, <1>3 DEF Arrive, Driver
  <2> QED BY <1>3, <2>1 DEF Arrive, rows, DrivenIsAssigned, Agrees, Bound
<1>4. ASSUME NEW r \in Replicas, NEW s \in Sessions, Release(r, s) PROVE DrivenIsAssigned'
  <2>1. dispatch[s].pc \in {"none", "arrived"} /\ dispatch' = dispatch
    BY <1>0, <1>4 DEF Release, turns, TurnsOK
  <2>2. \A u \in Sessions \ {s} : assigned'[u] = assigned[u]
    BY <1>0, <1>4 DEF Release
  <2> QED BY <2>1, <2>2 DEF DrivenIsAssigned, Agrees, Bound
<1>5. ASSUME NEW r \in Replicas, Crash(r) PROVE DrivenIsAssigned'
  <2>1. \A s \in Sessions : dispatch'[s] = dispatch[s] \/ dispatch'[s].box = None
    BY <1>5 DEF Crash, NoDriver, Driver
  <2> QED BY <1>5, <2>1 DEF Crash, rows, DrivenIsAssigned, Agrees
<1>6. ASSUME NEW x \in Sandboxes, EnvStep(x) PROVE DrivenIsAssigned'
  <2>1. dispatch' = dispatch /\ assigned' = assigned
    BY <1>6 DEF EnvStep, BoxAges, ClaimAges, SandboxDies, SandboxRegresses,
                SandboxRecovers, rows, turns
  <2> QED BY <1>1, <2>1
<1>7. CASE UNCHANGED vars
  BY <1>1, <1>7 DEF vars
<1> QED
  BY <1>1, <1>2, <1>3, <1>4, <1>5, <1>6, <1>7, DriverAgrees, ReplicaSessions
     DEF Next, EnvStep

(* What was created stays created: its name is not used again. *)
LEMMA StaysCreated ==
    ASSUME Types, [Next]_vars
    PROVE  \A x \in Sandboxes : backend'[x] = "absent" => backend[x] = "absent"
<1>0. backend \in [Sandboxes -> Statuses]
  BY DEF Types, StoreOK
<1>1. CASE Calm
  BY <1>1 DEF Calm
<1>2. ASSUME NEW s \in Sessions, ClaimReadyWarm(s) \/ CreateCold(s)
      PROVE  \A x \in Sandboxes : backend'[x] = "absent" => backend[x] = "absent"
  BY <1>0, <1>2 DEF ClaimReadyWarm, CreateCold
<1>3. ASSUME NEW r \in Replicas, FillCreates(r)
      PROVE  \A x \in Sandboxes : backend'[x] = "absent" => backend[x] = "absent"
  BY <1>0, <1>3 DEF FillCreates
<1>4. ASSUME NEW t \in tasks, FillInserts(t)
      PROVE  \A x \in Sandboxes : backend'[x] = "absent" => backend[x] = "absent"
  BY <1>0, <1>4 DEF FillInserts
<1>5. UNCHANGED vars => backend' = backend
  BY DEF vars
<1> QED
  BY <1>1, <1>2, <1>3, <1>4, <1>5, DriverCalm, WorkerCalm, ReplicaCalm, EnvCalm
     DEF Next, EnvStep

(* What a sweep remembers was created; what it has seen twice without a reference is
   retired, and so is what it is about to stop. *)
SweptIsRetired ==
    /\ \A r \in Replicas : \A x \in pending[r] : backend[x] # "absent"
    /\ \A r \in Replicas : referenced[r].read =>
            \A x \in pending[r] \ referenced[r].ids : Retired(x)
    /\ \A t \in tasks : t.kind = "orphan" => Retired(t.box)

(* A sandbox of the previous sweep that is not referenced at this reading is retired:
   no driver has just claimed or created it, none is in it, and no fill holds it. *)
LEMMA ReadingRetires ==
    ASSUME Types, DrivenIsAssigned, SweptIsRetired, NEW r \in Replicas, CleanupReads(r),
           NEW x \in pending[r] \ referenced'[r].ids
    PROVE  Retired(x)
<1>1. /\ x \in Sandboxes /\ ~Assigned(x) /\ warm[x] # "ready"
  BY DEF CleanupReads, Types, WorkOK
<1>2. \A t \in tasks : t.kind = "fill" => t.box # x
  BY DEF CleanupReads, IntervalElapsed
<1>3. ASSUME NEW s \in Sessions, dispatch[s].box = x PROVE dispatch[s].pc \in BeforeReread
  <2>1. dispatch[s].pc \in DriverPcs /\ x # None /\ assigned[s] # x
    BY <1>1, DriverFields, LifecycleAssumption DEF Types, Assigned
  <2>2. dispatch[s].pc \notin {"claimed", "holding"}
    BY <1>3 DEF CleanupReads, IntervalElapsed
  <2>3. dispatch[s].pc \notin Bound
    BY <1>3, <2>1 DEF DrivenIsAssigned, Agrees
  <2>4. dispatch[s].pc \notin EmptyHanded
    BY <1>3, <2>1 DEF Types, TurnsOK
  <2> QED BY <2>1, <2>2, <2>3, <2>4 DEF DriverPcs, Using, Bound, EmptyHanded, BeforeReread
<1> QED BY <1>1, <1>2, <1>3 DEF Retired, SweptIsRetired, Assigned

LEMMA StepSwept ==
    ASSUME Types, Hands, DrivenIsAssigned, SweptIsRetired, [Next]_vars
    PROVE  SweptIsRetired'
<1>0. /\ pending \in [Replicas -> SUBSET Sandboxes]
      /\ referenced \in [Replicas -> [read: BOOLEAN, ids: SUBSET Sandboxes]]
      /\ \A t \in tasks : t.kind = "orphan" => t.box \in Sandboxes
  BY Standing DEF Types, WorkOK
<1>r. \A x \in Sandboxes : Retired(x) => Retired(x)'
  BY StepHands
<1>b. \A x \in Sandboxes : backend[x] # "absent" => backend'[x] # "absent"
  BY StaysCreated
<1>1. ASSUME NEW t \in tasks', t.kind = "orphan", t \in tasks PROVE Retired(t.box)'
  BY <1>0, <1>r, <1>1 DEF SweptIsRetired
<1>2. ASSUME NoNew({"orphan"}), SweepsGoOn PROVE SweptIsRetired'
  <2>1. \A t \in tasks' : t.kind = "orphan" => Retired(t.box)'
    BY <1>1, <1>2 DEF NoNew
  <2>2. \A q \in Replicas : \A x \in pending'[q] : backend'[x] # "absent"
    BY <1>0, <1>2, <1>b DEF SweepsGoOn, SweptIsRetired
  <2>3. \A q \in Replicas : referenced'[q].read =>
            \A x \in pending'[q] \ referenced'[q].ids : Retired(x)'
    BY <1>0, <1>2, <1>r DEF SweepsGoOn, SweptIsRetired
  <2> QED BY <2>1, <2>2, <2>3 DEF SweptIsRetired
<1>3. ASSUME NEW r \in Replicas, NoNew({"orphan"}), CleanupReads(r) PROVE SweptIsRetired'
  <2>1. \A t \in tasks' : t.kind = "orphan" => Retired(t.box)'
    BY <1>1, <1>3 DEF NoNew
  <2>2. pending' = pending /\ \A q \in Replicas \ {r} : referenced'[q] = referenced[q]
    BY <1>0, <1>3 DEF CleanupReads
  <2>3. \A q \in Replicas : \A x \in pending'[q] : backend'[x] # "absent"
    BY <1>0, <2>2, <1>b DEF SweptIsRetired
  <2>4. \A x \in pending[r] \ referenced'[r].ids : Retired(x)
    BY <1>3, ReadingRetires
  <2>5. ASSUME NEW q \in Replicas, referenced'[q].read, NEW x \in pending'[q] \ referenced'[q].ids
        PROVE  Retired(x)'
    <3>1. Retired(x) /\ x \in Sandboxes
      BY <1>0, <2>2, <2>4, <2>5 DEF SweptIsRetired
    <3> QED BY <1>r, <3>1
  <2> QED BY <2>1, <2>3, <2>5 DEF SweptIsRetired
<1>4. ASSUME NEW r \in Replicas, CleanupLists(r) PROVE SweptIsRetired'
  <2>1. /\ referenced[r].read /\ tasks' = tasks \cup Listed("orphan", r, Orphans(r) \cap pending[r], "stop")
        /\ pending' = [pending EXCEPT ![r] = Orphans(r)]
        /\ referenced' = [referenced EXCEPT ![r] = NotSweeping]
    BY <1>4 DEF CleanupLists, Start, Listed
  <2>2. /\ ~referenced'[r].read /\ pending'[r] = Orphans(r)
        /\ \A q \in Replicas \ {r} : referenced'[q] = referenced[q] /\ pending'[q] = pending[q]
    BY <1>0, <2>1 DEF NotSweeping
  <2>3. ASSUME NEW t \in tasks', t.kind = "orphan" PROVE Retired(t.box)'
    <3>1. CASE t \in tasks
      BY <1>1, <2>3, <3>1
    <3>2. CASE t \notin tasks
      <4>1. PICK x \in Orphans(r) \cap pending[r] : t = Task("orphan", r, x, None, "stop", 0)
        BY <2>1, <3>2 DEF Listed
      <4>2. t.box = x /\ x \in Sandboxes /\ x \notin referenced[r].ids
        BY <4>1 DEF Task, Orphans
      <4>3. Retired(x)'
        BY <1>r, <2>1, <4>1, <4>2 DEF SweptIsRetired
      <4> QED BY <4>2, <4>3
    <3> QED BY <3>1, <3>2
  <2>4. \A x \in Orphans(r) : x \in Sandboxes /\ backend[x] # "absent"
    BY DEF Orphans
  <2>5. \A q \in Replicas : \A x \in pending'[q] : backend'[x] # "absent"
    BY <1>0, <1>b, <2>2, <2>4 DEF SweptIsRetired
  <2>6. ASSUME NEW q \in Replicas, referenced'[q].read, NEW x \in pending'[q] \ referenced'[q].ids
        PROVE  Retired(x)'
    BY <1>0, <1>r, <2>2, <2>6 DEF SweptIsRetired
  <2> QED BY <2>3, <2>5, <2>6 DEF SweptIsRetired
<1>5. NoNew({"release", "orphan"}) => NoNew({"orphan"})
  BY DEF NoNew
<1> QED BY <1>2, <1>3, <1>4, <1>5, StepFrame

(* What the orphan sweep stops is assigned to no session and in no driver's hands,
   although it acts on what it read of the store before it listed the backend and on
   what it remembers from the sweep before (select_orphan_reap_candidates).  One step
   can break this, and is excluded: a harness switch that clears the assignment of a
   turn that is past its second reading leaves a sandbox in use without reference. *)
THEOREM OrphansAreUnused == Spec /\ [][SwitchSparesTurn]_vars => []OrphanIsUnused
<1>1. Init => DrivenIsAssigned /\ SweptIsRetired
  BY DEF Init, DrivenIsAssigned, Agrees, SweptIsRetired, NoDriver, Driver, NotSweeping
<1>2. Types /\ Hands /\ DrivenIsAssigned /\ SweptIsRetired /\ [Next]_vars
        /\ [SwitchSparesTurn]_vars => DrivenIsAssigned' /\ SweptIsRetired'
  BY StepAgrees, StepSwept
<1>3. Types /\ SweptIsRetired => OrphanIsUnused
  BY RetiredIsUnused, Standing DEF SweptIsRetired, OrphanIsUnused, Types
<1> QED BY <1>1, <1>2, <1>3, AlwaysHands, PTL DEF Spec

(* In particular where no session is switched at all. *)
COROLLARY OrphansWithoutSwitches == "switch" \notin Jobs => (Spec => []OrphanIsUnused)
<1> SUFFICES ASSUME "switch" \notin Jobs PROVE Spec => []OrphanIsUnused
  OBVIOUS
<1>1. Types => SwitchSparesTurn
  BY DEF Types, TasksOK, TaskOK, SwitchSparesTurn, SwitchClears, At
<1> QED BY <1>1, AlwaysTypes, OrphansAreUnused, PTL

-----------------------------------------------------------------------------
(***************************************************************************)
(* The reaper and young claims                                             *)
(***************************************************************************)

(* What a driver has claimed or created and not yet assigned is not the session's. *)
Held == {"claimed", "holding"}
HeldIsNew ==
    \A s \in Sessions : dispatch[s].pc \in Held =>
        dispatch[s].box \in Sandboxes /\ assigned[s] # dispatch[s].box

LEMMA DriverHeld ==
    ASSUME Types, Hands, HeldIsNew, NEW s \in Sessions, DriverStep(s) PROVE HeldIsNew'
<1> DEFINE x == dispatch[s].box
<1>0. /\ TurnsOK /\ x \in Boxes /\ None \in Boxes /\ assigned \in [Sessions -> Boxes]
      /\ assigned[s] \in Boxes
      /\ dispatch[s].pc \in Held => x \in Sandboxes /\ assigned[s] # x
      /\ {"admitted", "ensure", "ready", "acquire", "detach", "claimed", "holding",
          "cold", "running"} \subseteq DriverPcs
  BY DriverFields DEF Types, DriverPcs, Using, Boxes, StoreOK, HeldIsNew
<1>1. ASSUME NEW pc \in DriverPcs, NEW y \in Boxes, Move(s, pc, y), assigned' = assigned,
             pc \in Held => y \in Sandboxes /\ assigned[s] # y
      PROVE  HeldIsNew'
  <2>1. /\ dispatch'[s].pc = pc /\ dispatch'[s].box = y
        /\ \A u \in Sessions \ {s} : dispatch'[u] = dispatch[u]
    BY <1>0, <1>1, MoveOK
  <2> QED BY <1>1, <2>1 DEF HeldIsNew
<1>2. ASSUME NEW pc \in DriverPcs, NEW y \in Boxes, Move(s, pc, y), pc \notin Held,
             \A u \in Sessions \ {s} : assigned'[u] = assigned[u]
      PROVE  HeldIsNew'
  <2>1. /\ dispatch'[s].pc = pc /\ dispatch'[s].box = y
        /\ \A u \in Sessions \ {s} : dispatch'[u] = dispatch[u]
    BY <1>0, <1>2, MoveOK
  <2> QED BY <1>2, <2>1 DEF HeldIsNew
<1>3. ASSUME dispatch' = [dispatch EXCEPT ![s] = NoDriver], assigned' = assigned
      PROVE  HeldIsNew'
  <2>1. /\ dispatch'[s].pc = "none"
        /\ \A u \in Sessions \ {s} : dispatch'[u] = dispatch[u]
    BY <1>3 DEF Types, TurnsOK, NoDriver, Driver
  <2> QED BY <1>3, <2>1 DEF HeldIsNew, Held
<1>4. CASE Admit(s)
  BY <1>0, <1>1, <1>4 DEF Admit, Held, rows
<1>5. CASE Reread(s)
  BY <1>0, <1>1, <1>5 DEF Reread, Held, rows
<1>6. CASE EnsureExisting(s)
  BY <1>0, <1>1, <1>6 DEF EnsureExisting, Held, rows
<1>7. CASE StopMismatched(s)
  BY <1>0, <1>1, <1>7 DEF StopMismatched, Held, rows
<1>8. CASE ClearMismatched(s)
  BY <1>0, <1>2, <1>8 DEF ClearMismatched, Held
<1>9. CASE ClaimReadyWarm(s)
  <2>1. PICK y \in Ready : Move(s, "claimed", y)
    BY <1>9 DEF ClaimReadyWarm
  <2>2. y \in Sandboxes /\ assigned[s] # y
    BY DEF Hands, Taken, Has, Ready
  <2> QED BY <1>0, <1>1, <1>9, <2>1, <2>2 DEF ClaimReadyWarm, Boxes
<1>10. CASE BindClaimed(s)
  BY <1>0, <1>1, <1>10 DEF BindClaimed, Held
<1>11. CASE CreateCold(s)
  <2>1. PICK y \in Sandboxes : backend[y] = "absent" /\ Move(s, "holding", y)
    BY <1>11 DEF CreateCold
  <2>2. assigned[s] # y
    BY <2>1 DEF Hands, Taken, Has
  <2> QED BY <1>0, <1>1, <1>11, <2>1, <2>2 DEF CreateCold, Boxes, rows
<1>12. CASE AssignSandbox(s)
  BY <1>0, <1>2, <1>12 DEF AssignSandbox, Held
<1>13. CASE StartTurn(s)
  BY <1>0, <1>1, <1>3, <1>13 DEF StartTurn, Held, rows
<1>14. CASE EndTurn(s) \/ DispatchFails(s)
  BY <1>3, <1>14 DEF EndTurn, DispatchFails, rows
<1>15. CASE TurnAges(s)
  BY <1>15 DEF TurnAges, HeldIsNew, rows
<1> QED
  BY <1>4, <1>5, <1>6, <1>7, <1>8, <1>9, <1>10, <1>11, <1>12, <1>13, <1>14, <1>15
     DEF DriverStep

LEMMA StepHeld ==
    ASSUME Types, Hands, HeldIsNew, [Next]_vars PROVE HeldIsNew'
<1>0. /\ assigned \in [Sessions -> Boxes] /\ dispatch \in [Sessions -> Drivers] /\ TurnsOK
      /\ None \notin Sandboxes
  BY LifecycleAssumption DEF Types, StoreOK, TurnsOK
<1>1. ASSUME dispatch' = dispatch, \A s \in Sessions : assigned'[s] \in {assigned[s], None}
      PROVE  HeldIsNew'
  BY <1>0, <1>1 DEF HeldIsNew
<1>2. ASSUME NEW t \in tasks, WorkerStep(t) PROVE HeldIsNew'
  BY <1>0, <1>1, <1>2, WorkerSessions DEF SwitchClears
<1>3. ASSUME NEW r \in Replicas, NEW s \in Sessions, Arrive(r, s) PROVE HeldIsNew'
  <2>1. dispatch'[s].pc = "arrived" /\ \A u \in Sessions \ {s} : dispatch'[u] = dispatch[u]
    BY <1>0, <1>3 DEF Arrive, Driver
  <2> QED BY <1>3, <2>1 DEF Arrive, rows, HeldIsNew, Held
<1>4. ASSUME NEW r \in Replicas, NEW s \in Sessions, Release(r, s) PROVE HeldIsNew'
  BY <1>0, <1>1, <1>4 DEF Release, turns
<1>5. ASSUME NEW r \in Replicas, Crash(r) PROVE HeldIsNew'
  <2>1. \A s \in Sessions : dispatch'[s] = dispatch[s] \/ dispatch'[s].pc \in {"none", "lost"}
    BY <1>5 DEF Crash, NoDriver, Driver
  <2> QED BY <1>5, <2>1 DEF Crash, rows, HeldIsNew, Held
<1>6. ASSUME NEW x \in Sandboxes, EnvStep(x) PROVE HeldIsNew'
  <2>1. dispatch' = dispatch /\ assigned' = assigned
    BY <1>6 DEF EnvStep, BoxAges, ClaimAges, SandboxDies, SandboxRegresses,
                SandboxRecovers, rows, turns
  <2> QED BY <1>1, <2>1
<1>7. CASE UNCHANGED vars
  BY <1>1, <1>7 DEF vars
<1> QED
  BY <1>1, <1>2, <1>3, <1>4, <1>5, <1>6, <1>7, DriverHeld, ReplicaSessions DEF Next, EnvStep

(* A sandbox that was deleted does not come back. *)
LEMMA StaysGone ==
    ASSUME Types, [Next]_vars
    PROVE  \A x \in Sandboxes : backend[x] = "gone" => backend'[x] = "gone"
<1>0. backend \in [Sandboxes -> Statuses]
  BY DEF Types, StoreOK
<1> DEFINE Goal == \A x \in Sandboxes : backend[x] = "gone" => backend'[x] = "gone"
<1>1. ASSUME NEW s \in Sessions, DriverStep(s) PROVE Goal
  BY <1>0, <1>1 DEF DriverStep, Admit, Reread, EnsureExisting, StopMismatched,
     ClearMismatched, ClaimReadyWarm, BindClaimed, CreateCold, AssignSandbox, StartTurn,
     EndTurn, DispatchFails, TurnAges
<1>2. ASSUME NEW t \in tasks, WorkerStep(t) PROVE Goal
  BY <1>0, <1>2 DEF WorkerStep, EvictUnclaimed, StopEvicted, MarkFailed, PruneChecks,
     StaleStops, FillInserts, ReaperJudges, CleanupStops, PauseChecks, Pause, ReleaseStops,
     SwitchStops, SwitchClears, DrainChecks, DrainStops, Stop
<1>3. ASSUME NEW r \in Replicas, ReplicaStep(r) PROVE Goal
  BY <1>0, <1>3 DEF ReplicaStep, PruneLists, StaleLists, UnconfiguredLists, FillCounts,
     FillCreates, ReaperLists, CleanupReads, CleanupLists, DrainLists, Crash, Arrive,
     IdleFound, Release, SwitchReads
<1>4. ASSUME NEW x \in Sandboxes, EnvStep(x) PROVE Goal
  BY <1>0, <1>4 DEF EnvStep, BoxAges, ClaimAges, SandboxDies, SandboxRegresses,
     SandboxRecovers
<1>5. UNCHANGED vars => Goal
  BY DEF vars
<1> QED BY <1>1, <1>2, <1>3, <1>4, <1>5 DEF Next, EnvStep

(* How a row of the pool and its claim belong together.  A row that failed although
   its claim is young is that of a sandbox that is gone or that nobody has. *)
RowFine(x) ==
    /\ warm[x] \in {None, "ready", "evicting"} => claim[x] = "never"
    /\ warm[x] = "claimed" => claim[x] # "never"
    /\ old[x] => backend[x] # "absent"
    /\ warm[x] = "failed" /\ claim[x] = "young" => backend[x] = "gone" \/ Retired(x)

(* What a task knows of the row and the age of its sandbox, whoever else is at work. *)
TaskFine(t) ==
    /\ t.kind = "fill" => ~old[t.box]
    /\ t.kind = "stale" => warm[t.box] \in {"evicting", "failed"} /\ claim[t.box] = "never"
    /\ t.kind = "drain" /\ t.pc = "mark" => backend[t.box] = "gone"
    /\ t.kind = "reap" =>
        /\ old[t.box]
        /\ t.pc = "evicted" => warm[t.box] \notin {"ready", "claimed"}
        /\ t.pc = "expired" => claim[t.box] = "old"

RowsFine == \A x \in Sandboxes : RowFine(x)
TasksFine == \A t \in tasks : TaskFine(t)
Claims == RowsFine /\ TasksFine

(* A pruning marks no row failed that was claimed since the pruning listed it. *)
PruneSparesClaims ==
    \A t \in tasks : t.kind = "prune" /\ MarkFailed(t) => warm[t.box] # "claimed"

(* A step that leaves the rows and ages alone preserves what is known of them. *)
LEMMA QuietRows ==
    ASSUME Types, Hands, RowsFine, [Next]_vars, UNCHANGED <<warm, claim, old>>
    PROVE  RowsFine'
<1>1. \A x \in Sandboxes : Retired(x) => Retired(x)'
  BY StepHands
<1> QED BY <1>1, StaysGone, StaysCreated DEF RowsFine, RowFine

LEMMA QuietTasks ==
    ASSUME Types, [Next]_vars, UNCHANGED <<warm, claim, old>>, NEW t \in tasks, TaskFine(t)
    PROVE  TaskFine(t)'
<1>1. t.kind # "switch" => t.box \in Sandboxes
  BY Standing DEF Types
<1> QED BY <1>1, StaysGone DEF TaskFine

(* A step that changes only the row of x, and only its status, to failed or evicting. *)
LEMMA FailedRow ==
    ASSUME Types, Hands, Claims, [Next]_vars, UNCHANGED <<claim, old, backend>>,
           NEW x \in Sandboxes, NEW v \in {"evicting", "failed"},
           warm' = [warm EXCEPT ![x] = v],
           v = "evicting" => claim[x] = "never",
           v = "failed" /\ claim[x] = "young" => backend[x] = "gone" \/ Retired(x)'
    PROVE  RowsFine' /\ \A t \in tasks : TaskFine(t)'
<1>0. warm \in [Sandboxes -> {None, "ready", "claimed", "evicting", "failed"}]
      /\ \A t \in tasks : t.kind # "switch" => t.box \in Sandboxes
  BY Standing DEF Types, StoreOK
<1>1. \A y \in Sandboxes : Retired(y) => Retired(y)'
  BY StepHands
<1>2. ASSUME NEW y \in Sandboxes PROVE RowFine(y)'
  BY <1>0, <1>1 DEF Claims, RowsFine, RowFine, None
<1>3. ASSUME NEW t \in tasks PROVE TaskFine(t)'
  BY <1>0 DEF Claims, TasksFine, TaskFine
<1> QED BY <1>2, <1>3 DEF RowsFine

(* Claiming a ready sandbox: no task has marked it or judged it expired. *)
LEMMA ClaimFine ==
    ASSUME Types, Hands, Claims, [Next]_vars, NEW s \in Sessions, ClaimReadyWarm(s)
    PROVE  Claims'
<1>1. PICK y \in Ready : /\ warm' = [warm EXCEPT ![y] = "claimed"]
                         /\ claim' = [claim EXCEPT ![y] = "young"]
  BY DEF ClaimReadyWarm
<1>2. /\ y \in Sandboxes /\ warm[y] = "ready" /\ claim[y] = "never"
      /\ old' = old /\ backend' = backend /\ tasks' = tasks
      /\ warm \in [Sandboxes -> {None, "ready", "claimed", "evicting", "failed"}]
      /\ claim \in [Sandboxes -> {"never", "young", "old"}]
      /\ \A t \in tasks : t.kind # "switch" => t.box \in Sandboxes
  BY Standing DEF ClaimReadyWarm, Ready, Claims, RowsFine, RowFine, Types, StoreOK, workers
<1>3. \A x \in Sandboxes : Retired(x) => Retired(x)'
  BY StepHands
<1>4. ASSUME NEW x \in Sandboxes PROVE RowFine(x)'
  BY <1>1, <1>2, <1>3 DEF Claims, RowsFine, RowFine, None
<1>5. ASSUME NEW t \in tasks PROVE TaskFine(t)'
  BY <1>1, <1>2 DEF Claims, TasksFine, TaskFine
<1> QED BY <1>2, <1>4, <1>5 DEF Claims, RowsFine, TasksFine

(* A claimed sandbox that cannot be bound is given up before its row fails. *)
LEMMA BindFine ==
    ASSUME Types, Hands, HeldIsNew, Claims, [Next]_vars, NEW s \in Sessions, BindClaimed(s)
    PROVE  Claims'
<1> PICK x : x = dispatch[s].box
  OBVIOUS
<1>1. /\ x \in Sandboxes /\ assigned[s] # x /\ tasks' = tasks /\ dispatch[s].box = x
      /\ UNCHANGED <<claim, old, backend, assigned>>
      /\ {"holding", "acquire", "cold"} \subseteq DriverPcs /\ x \in Boxes /\ None \in Boxes
      /\ warm \in [Sandboxes -> {None, "ready", "claimed", "evicting", "failed"}] /\ TurnsOK
      /\ x # None
  BY LifecycleAssumption
     DEF BindClaimed, HeldIsNew, Held, workers, DriverPcs, Using, Boxes, Types, StoreOK
<1>2. CASE UNCHANGED warm
  BY <1>1, <1>2, QuietRows, QuietTasks DEF Claims, TasksFine
<1>3. CASE warm' = [warm EXCEPT ![x] = "failed"] /\ (Move(s, "acquire", None) \/ Move(s, "cold", None))
  <2>1. dispatch'[s].box = None /\ \A u \in Sessions \ {s} : dispatch'[u] = dispatch[u]
    BY <1>1, <1>3, MoveOK
  <2>2. \A u \in Sessions : assigned'[u] # x /\ dispatch'[u].box # x
    BY <1>1, <2>1 DEF Hands, Exclusive, Has
  <2>3. Has(s, x)
    BY <1>1 DEF Has
  <2>4. Retired(x)'
    BY <1>1, <1>3, <2>2, <2>3 DEF Retired, Hands, Taken, Fresh
  <2> QED BY <1>1, <1>3, <2>4, FailedRow DEF Claims, TasksFine
<1> QED BY <1>1, <1>2, <1>3 DEF BindClaimed

(* A task moves on: its successor has to be fine. *)
LEMMA GotoFine ==
    ASSUME Types, NEW t \in tasks, NEW pc, Goto(t, pc), \A u \in tasks : TaskFine(u)',
           t.kind = "drain" /\ pc = "mark" => backend'[t.box] = "gone",
           t.kind = "reap" /\ pc = "evicted" => warm'[t.box] \notin {"ready", "claimed"},
           t.kind = "reap" /\ pc = "expired" => claim'[t.box] = "old"
    PROVE  TasksFine'
<1>1. ASSUME NEW u \in tasks' PROVE TaskFine(u)'
  <2>1. u \in tasks \/ (u.kind = t.kind /\ u.pc = pc /\ u.box = t.box)
    BY Moved DEF Types
  <2>2. TaskFine(t)'
    OBVIOUS
  <2> QED BY <2>1, <2>2 DEF TaskFine
<1> QED BY <1>1 DEF TasksFine

LEMMA EndFine ==
    ASSUME NEW t, End(t), \A u \in tasks : TaskFine(u)' PROVE TasksFine'
BY DEF End, TasksFine

LEMMA WorkerFine ==
    ASSUME Types, Hands, Claims, [Next]_vars, PruneSparesClaims, NEW t \in tasks, WorkerStep(t)
    PROVE  Claims'
<1>0. /\ warm \in [Sandboxes -> {None, "ready", "claimed", "evicting", "failed"}]
      /\ backend \in [Sandboxes -> Statuses] /\ claim \in [Sandboxes -> {"never", "young", "old"}]
      /\ \A u \in tasks : u.kind # "switch" => u.box \in Sandboxes
      /\ TasksOK /\ TaskFine(t)
      /\ \A x \in Sandboxes : RowFine(x)
  BY Standing DEF Types, StoreOK, Claims, TasksFine, RowsFine
<1>q. UNCHANGED <<warm, claim, old>> => RowsFine' /\ \A u \in tasks : TaskFine(u)'
  BY QuietRows, QuietTasks DEF Claims, TasksFine
<1>s. ASSUME NEW v \in {"evicting", "failed"}, t.box \in Sandboxes, UNCHANGED <<claim, old, backend>>,
             warm' = [warm EXCEPT ![t.box] = v],
             v = "evicting" => claim[t.box] = "never",
             v = "failed" /\ claim[t.box] = "young" => backend[t.box] = "gone" \/ Retired(t.box)
      PROVE  RowsFine' /\ \A u \in tasks : TaskFine(u)'
  <2> PICK x \in Sandboxes : x = t.box
    BY <1>s
  <2>1. v = "failed" /\ claim[x] = "young" => backend[x] = "gone" \/ Retired(x)'
    BY <1>s, StepHands
  <2> QED BY <1>s, <2>1, FailedRow
<1>1. CASE EvictUnclaimed(t)
  <2>1. t.box \in Sandboxes /\ UNCHANGED <<claim, old, backend>>
    BY <1>0, <1>1, Standing DEF EvictUnclaimed
  <2>2. warm' = warm \/ (warm[t.box] = "ready" /\ warm' = [warm EXCEPT ![t.box] = "evicting"])
    BY <1>0, <1>1, <2>1 DEF EvictUnclaimed
  <2>3. claim[t.box] = "never" \/ warm[t.box] # "ready"
    BY <1>0, <2>1 DEF RowFine
  <2>4. RowsFine' /\ \A u \in tasks : TaskFine(u)'
    BY <1>q, <1>s, <2>1, <2>2, <2>3
  <2>5. CASE warm[t.box] = "claimed"
    BY <1>1, <2>4, <2>5, EndFine DEF EvictUnclaimed, Claims
  <2>6. CASE warm[t.box] # "claimed"
    <3>1. warm'[t.box] \notin {"ready", "claimed"}
      BY <1>0, <1>1, <2>1, <2>6 DEF EvictUnclaimed
    <3> QED BY <1>1, <2>4, <2>6, <3>1, GotoFine DEF EvictUnclaimed, Claims
  <2> QED BY <2>5, <2>6
<1>2. CASE MarkFailed(t)
  <2>1. t.kind \in {"prune", "stale", "drain"} /\ t.box \in Sandboxes /\ UNCHANGED <<claim, old, backend>>
    BY <1>0, <1>2, Standing DEF MarkFailed
  <2>2. \/ warm[t.box] = None /\ warm' = warm
        \/ warm[t.box] # None /\ warm' = [warm EXCEPT ![t.box] = "failed"]
    BY <1>0, <1>2, <2>1 DEF MarkFailed
  <2>3. ASSUME warm[t.box] # None, claim[t.box] = "young"
        PROVE  backend[t.box] = "gone" \/ Retired(t.box)
    <3>1. RowFine(t.box)
      BY <1>0, <2>1
    <3>2. CASE t.kind = "prune"
      BY <1>0, <1>2, <2>1, <2>3, <3>1, <3>2 DEF PruneSparesClaims, RowFine
    <3>3. CASE t.kind \in {"stale", "drain"}
      BY <1>0, <1>2, <2>3, <3>3 DEF TaskFine, MarkFailed
    <3> QED BY <2>1, <3>2, <3>3
  <2>4. RowsFine' /\ \A u \in tasks : TaskFine(u)'
    BY <1>q, <1>s, <2>1, <2>2, <2>3
  <2> QED BY <1>2, <2>4, EndFine DEF MarkFailed, Claims
<1>3. CASE FillInserts(t)
  <2>1. t.kind = "fill" /\ t.box \in Sandboxes /\ warm[t.box] = None /\ UNCHANGED <<claim, old>>
    BY <1>0, <1>3 DEF FillInserts, At, Hands, Fresh
  <2>2. CASE UNCHANGED warm
    BY <1>3, <1>q, <2>1, <2>2, EndFine DEF FillInserts, Claims
  <2>3. CASE warm' = [warm EXCEPT ![t.box] = "ready"] /\ UNCHANGED backend
    <3>1. claim[t.box] = "never" /\ ~old[t.box]
      BY <1>0, <2>1 DEF RowFine, TaskFine
    <3>2. \A x \in Sandboxes : Retired(x) => Retired(x)'
      BY StepHands
    <3>3. ASSUME NEW x \in Sandboxes PROVE RowFine(x)'
      BY <1>0, <2>1, <2>3, <3>1, <3>2 DEF RowFine
    <3>4. ASSUME NEW u \in tasks PROVE TaskFine(u)'
      <4>1. TaskFine(u) /\ (u.kind # "switch" => u.box \in Sandboxes)
        BY <1>0 DEF Claims, TasksFine
      <4> QED BY <1>0, <2>1, <2>3, <3>1, <4>1 DEF TaskFine, None
    <3> QED BY <1>3, <3>3, <3>4, EndFine DEF FillInserts, Claims, RowsFine
  <2> QED BY <1>3, <2>2, <2>3 DEF FillInserts
<1>4. CASE ReaperJudges(t)
  <2>1. t.kind = "reap" /\ t.box \in Sandboxes /\ UNCHANGED <<warm, claim, old>>
    BY <1>0, <1>4 DEF ReaperJudges, At, rows
  <2>2. warm[t.box] = "claimed" /\ claim[t.box] # "young" => claim[t.box] = "old"
    BY <1>0, <2>1 DEF RowFine
  <2> QED BY <1>4, <1>q, <2>1, <2>2, EndFine, GotoFine DEF ReaperJudges, Claims
<1>5. CASE DrainStops(t) \/ StaleStops(t)
  <2>1. t.kind \in {"drain", "stale"} /\ UNCHANGED <<warm, claim, old>>
    BY <1>5 DEF DrainStops, StaleStops, At, rows
  <2>2. \/ End(t)
        \/ Goto(t, "mark") /\ (t.kind = "drain" => backend'[t.box] = "gone")
    BY <1>5 DEF DrainStops, StaleStops, At
  <2> QED BY <1>q, <2>1, <2>2, EndFine, GotoFine DEF Claims
<1>6. CASE DrainChecks(t)
  BY <1>6, <1>q, EndFine, GotoFine DEF DrainChecks, At, rows, Claims
<1>7. CASE PruneChecks(t) \/ PauseChecks(t) \/ SwitchStops(t)
  <2>1. UNCHANGED <<warm, claim, old>> /\ t.kind \in {"prune", "pause", "switch"}
    BY <1>7 DEF PruneChecks, PauseChecks, SwitchStops, At, rows
  <2>2. End(t) \/ \E pc \in {"mark", "pause", "clear"} : Goto(t, pc)
    BY <1>7 DEF PruneChecks, PauseChecks, SwitchStops
  <2> QED BY <1>q, <2>1, <2>2, EndFine, GotoFine DEF Claims
<1>8. CASE StopEvicted(t) \/ CleanupStops(t) \/ Pause(t) \/ ReleaseStops(t) \/ SwitchClears(t)
  <2>1. UNCHANGED <<warm, claim, old>> /\ End(t)
    BY <1>8 DEF StopEvicted, CleanupStops, Pause, ReleaseStops, SwitchClears, rows
  <2> QED BY <1>q, <2>1, EndFine DEF Claims
<1> QED BY <1>1, <1>2, <1>3, <1>4, <1>5, <1>6, <1>7, <1>8 DEF WorkerStep

LEMMA ReplicaFine ==
    ASSUME Types, Hands, Claims, [Next]_vars, NEW r \in Replicas, ReplicaStep(r)
    PROVE  Claims'
<1>0. /\ warm \in [Sandboxes -> {None, "ready", "claimed", "evicting", "failed"}]
      /\ assigned \in [Sessions -> Boxes]
      /\ \A x \in Sandboxes : RowFine(x)
  BY DEF Types, StoreOK, Claims, RowsFine
<1>q. UNCHANGED <<warm, claim, old>> => RowsFine' /\ \A u \in tasks : TaskFine(u)'
  BY QuietRows, QuietTasks DEF Claims, TasksFine
<1>n. ASSUME UNCHANGED <<warm, claim, old>>, NEW ts, \A u \in ts : TaskFine(u)', Start(ts)
      PROVE  Claims'
  BY <1>n, <1>q DEF Start, Claims, TasksFine
<1>l. ASSUME NEW k, NEW xs, NEW pc, NEW u \in Listed(k, r, xs, pc)
      PROVE  u.kind = k /\ u.pc = pc /\ u.box \in xs
  BY <1>l DEF Listed, Task
<1>1. CASE PruneLists(r)
  <2>1. Start(Listed("prune", r, Ready, "check")) /\ UNCHANGED <<warm, claim, old>>
    BY <1>1 DEF PruneLists, Listed, rows
  <2>2. \A u \in Listed("prune", r, Ready, "check") : TaskFine(u)'
    BY <1>l DEF TaskFine
  <2> QED BY <1>n, <2>1, <2>2
<1>2. CASE StaleLists(r)
  <2> DEFINE xs == {y \in Sandboxes : warm[y] = "evicting"}
  <2>1. Start(Listed("stale", r, xs, "check")) /\ UNCHANGED <<warm, claim, old>>
    BY <1>2 DEF StaleLists, Listed, rows
  <2>2. ASSUME NEW u \in Listed("stale", r, xs, "check") PROVE TaskFine(u)'
    <3>1. u.kind = "stale" /\ u.box \in xs
      BY <1>l, <2>2
    <3>2. u.box \in Sandboxes /\ warm[u.box] = "evicting" /\ claim[u.box] = "never"
      BY <1>0, <3>1 DEF RowFine
    <3> QED BY <2>1, <3>1, <3>2 DEF TaskFine
  <2> HIDE DEF xs
  <2> QED BY <1>n, <2>1, <2>2
<1>3. CASE UnconfiguredLists(r)
  <2>1. PICK xs \in SUBSET Ready : Start(Listed("unconfigured", r, xs, "evict"))
    BY <1>3 DEF UnconfiguredLists, Listed
  <2>2. \A u \in Listed("unconfigured", r, xs, "evict") : TaskFine(u)'
    BY <1>l DEF TaskFine
  <2> QED BY <1>3, <1>n, <2>1, <2>2 DEF UnconfiguredLists, rows
<1>4. CASE FillCreates(r)
  <2>1. PICK x \in Sandboxes : /\ backend[x] = "absent"
                               /\ Start({Task("fill", r, x, None, "insert", 0)})
    BY <1>4 DEF FillCreates
  <2>2. ~old[x] /\ UNCHANGED <<warm, claim, old>>
    BY <1>0, <1>4, <2>1 DEF RowFine, FillCreates, rows
  <2>3. \A u \in {Task("fill", r, x, None, "insert", 0)} : TaskFine(u)'
    BY <2>2 DEF TaskFine, Task
  <2> QED BY <1>n, <2>1, <2>2, <2>3
<1>5. CASE ReaperLists(r)
  <2> DEFINE xs == {x \in Sandboxes : Observed(x) /\ old[x]}
  <2>1. Start(Listed("reap", r, xs, "judge")) /\ UNCHANGED <<warm, claim, old>>
    BY <1>5 DEF ReaperLists, Listed, rows
  <2>2. ASSUME NEW u \in Listed("reap", r, xs, "judge") PROVE TaskFine(u)'
    <3>1. u.kind = "reap" /\ u.box \in xs /\ u.pc = "judge"
      BY <1>l, <2>2
    <3> QED BY <2>1, <3>1 DEF TaskFine
  <2> HIDE DEF xs
  <2> QED BY <1>n, <2>1, <2>2
<1>6. CASE DrainLists(r)
  <2> DEFINE xs == {x \in Sandboxes : Observed(x) /\ backend[x] # "stopped"}
  <2>1. Start(Listed("drain", r, xs, "check")) /\ UNCHANGED <<warm, claim, old>>
    BY <1>6 DEF DrainLists, Listed, rows
  <2>2. \A u \in Listed("drain", r, xs, "check") : TaskFine(u)'
    BY <1>l DEF TaskFine
  <2> HIDE DEF xs
  <2> QED BY <1>n, <2>1, <2>2
<1>7. CASE CleanupLists(r)
  <2> DEFINE xs == Orphans(r) \cap pending[r]
  <2>1. Start(Listed("orphan", r, xs, "stop")) /\ UNCHANGED <<warm, claim, old>>
    BY <1>7 DEF CleanupLists, Listed, rows
  <2>2. \A u \in Listed("orphan", r, xs, "stop") : TaskFine(u)'
    BY <1>l DEF TaskFine
  <2> HIDE DEF xs
  <2> QED BY <1>n, <2>1, <2>2
<1>8. ASSUME NEW s \in Sessions, IdleFound(r, s) \/ SwitchReads(r, s) PROVE Claims'
  <2>1. PICK k \in {"pause", "switch"}, pc \in TaskPcs, n \in {0, turnNo[s]} :
            Start({Task(k, r, assigned[s], s, pc, n)})
    BY <1>8 DEF IdleFound, SwitchReads, TaskPcs
  <2>2. \A u \in {Task(k, r, assigned[s], s, pc, n)} : TaskFine(u)'
    BY DEF TaskFine, Task
  <2> HIDE DEF TaskFine
  <2> QED BY <1>8, <1>n, <2>1, <2>2 DEF IdleFound, SwitchReads, rows
<1>9. ASSUME NEW s \in Sessions, Release(r, s) PROVE Claims'
  <2> PICK x \in Boxes : assigned[s] = x
    BY <1>0
  <2> DEFINE n == Task("release", r, x, s, "stop", 0)
  <2>1. /\ x \in Sandboxes /\ UNCHANGED <<claim, old, backend>> /\ tasks' = tasks \cup {n}
        /\ n.kind = "release" /\ n.box = x
    BY <1>9 DEF Release, Start, Boxes, Task
  <2>2. TaskFine(n)'
    BY <2>1 DEF TaskFine
  <2>3. \/ warm[x] = None /\ warm' = warm
        \/ warm[x] # None /\ warm' = [warm EXCEPT ![x] = "failed"]
    BY <1>0, <1>9, <2>1 DEF Release
  <2>4. claim[x] = "young" /\ warm' # warm => backend[x] = "gone" \/ Retired(x)'
    BY <1>9, ReleaseRetires
  <2> HIDE DEF n
  <2>5. RowsFine' /\ \A u \in tasks : TaskFine(u)'
    BY <1>q, <2>1, <2>3, <2>4, FailedRow
  <2> QED BY <2>1, <2>2, <2>5 DEF Claims, TasksFine
<1>10. CASE \/ FillCounts(r) \/ CleanupReads(r) \/ Crash(r)
            \/ \E s \in Sessions : Arrive(r, s)
  <2>1. tasks' \subseteq tasks /\ UNCHANGED <<warm, claim, old>>
    BY <1>10 DEF FillCounts, CleanupReads, Crash, Arrive, rows, workers
  <2> QED BY <1>q, <2>1 DEF Claims, TasksFine
<1> QED
  BY <1>1, <1>2, <1>3, <1>4, <1>5, <1>6, <1>7, <1>8, <1>9, <1>10 DEF ReplicaStep

LEMMA EnvFine ==
    ASSUME Types, Hands, Claims, [Next]_vars, NEW x \in Sandboxes, EnvStep(x)
    PROVE  Claims'
<1>0. /\ tasks' = tasks /\ warm' = warm
      /\ \A t \in tasks : t.kind # "switch" => t.box \in Sandboxes
      /\ \A y \in Sandboxes : Retired(y) => Retired(y)'
      /\ old \in [Sandboxes -> BOOLEAN] /\ claim \in [Sandboxes -> {"never", "young", "old"}]
  BY Standing, StepHands
     DEF Types, StoreOK, EnvStep, BoxAges, ClaimAges, SandboxDies, SandboxRegresses,
         SandboxRecovers, rows, workers
<1>1. CASE UNCHANGED <<claim, old>>
  BY <1>0, <1>1, QuietRows, QuietTasks DEF Claims, TasksFine
<1>2. CASE BoxAges(x)
  <2>1. /\ old' = [old EXCEPT ![x] = TRUE] /\ backend' = backend /\ claim' = claim
        /\ backend[x] # "absent" /\ \A t \in tasks : t.kind = "fill" => t.box # x
    BY <1>2 DEF BoxAges, Settled, Observed, rows
  <2>2. \A y \in Sandboxes : RowFine(y)'
    BY <1>0, <2>1 DEF Claims, RowsFine, RowFine
  <2>3. \A t \in tasks : TaskFine(t)'
    BY <1>0, <2>1 DEF Claims, TasksFine, TaskFine
  <2> QED BY <1>0, <2>2, <2>3 DEF Claims, RowsFine, TasksFine
<1>3. CASE ClaimAges(x)
  <2>1. /\ claim' = [claim EXCEPT ![x] = "old"] /\ backend' = backend /\ old' = old
        /\ claim[x] = "young"
    BY <1>3 DEF ClaimAges
  <2>2. \A y \in Sandboxes : RowFine(y)'
    BY <1>0, <2>1 DEF Claims, RowsFine, RowFine
  <2>3. \A t \in tasks : TaskFine(t)'
    BY <1>0, <2>1 DEF Claims, TasksFine, TaskFine
  <2> QED BY <1>0, <2>2, <2>3 DEF Claims, RowsFine, TasksFine
<1> QED
  BY <1>1, <1>2, <1>3 DEF EnvStep, SandboxDies, SandboxRegresses, SandboxRecovers, rows

LEMMA DriverFine ==
    ASSUME Types, Hands, HeldIsNew, Claims, [Next]_vars, NEW s \in Sessions, DriverStep(s)
    PROVE  Claims'
<1>1. CASE ClaimReadyWarm(s) \/ BindClaimed(s)
  BY <1>1, ClaimFine, BindFine
<1>2. CASE UNCHANGED <<warm, claim>>
  BY <1>2, DriverFrame, QuietRows, QuietTasks DEF Claims, TasksFine
<1> QED
  BY <1>1, <1>2 DEF DriverStep, Admit, Reread, EnsureExisting, StopMismatched,
     ClearMismatched, CreateCold, AssignSandbox, StartTurn, EndTurn, DispatchFails,
     TurnAges, rows

(* The reaper stops no running sandbox that a session took from the pool less than the
   max lifetime ago and has in use, however its listing, its reading and its eviction
   interleave with the claim, with every other worker and with the faults (reap_reason,
   evict_unclaimed_warm_sandbox).  One step can break this, and is excluded: a pruning
   that marks a row failed although it was claimed since the pruning listed it. *)
THEOREM YoungClaimsSpared == Spec /\ [][PruneSparesClaims]_vars => []YoungClaimIsNotReaped
<1>1. Init => HeldIsNew /\ Claims
  BY DEF Init, HeldIsNew, Held, Claims, RowsFine, TasksFine, RowFine, NoDriver, Driver, None
<1>2. Types /\ Hands /\ HeldIsNew /\ Claims /\ [Next]_vars /\ [PruneSparesClaims]_vars
        => HeldIsNew' /\ Claims'
  <2> SUFFICES ASSUME Types, Hands, HeldIsNew, Claims, [Next]_vars, [PruneSparesClaims]_vars
               PROVE  HeldIsNew' /\ Claims'
    OBVIOUS
  <2>1. CASE UNCHANGED vars
    <3>1. tasks' = tasks /\ UNCHANGED <<warm, claim, old>>
      BY <2>1 DEF vars
    <3> QED BY <3>1, StepHeld, QuietRows, QuietTasks DEF Claims, TasksFine
  <2>2. CASE Next /\ PruneSparesClaims
    BY <2>2, StepHeld, DriverFine, WorkerFine, ReplicaFine, EnvFine DEF Next, EnvStep
  <2> QED BY <2>1, <2>2
<1>3. Types /\ Claims => YoungClaimIsNotReaped
  <2> SUFFICES ASSUME Types, Claims, NEW t \in tasks, t.kind = "reap",
                      t.pc \in {"evicted", "expired"}, claim[t.box] = "young",
                      backend[t.box] = "running"
               PROVE  ~InUse(t.box)
    BY DEF YoungClaimIsNotReaped
  <2>1. t.box \in Sandboxes /\ TaskFine(t) /\ RowFine(t.box)
    BY Standing DEF Types, Claims, RowsFine, TasksFine
  <2>2. warm[t.box] \in {None, "ready", "claimed", "evicting", "failed"}
    BY <2>1 DEF Types, StoreOK
  <2>3. Retired(t.box)
    BY <2>1, <2>2 DEF TaskFine, RowFine
  <2> QED BY <2>1, <2>3, RetiredIsUnused
<1> QED BY <1>1, <1>2, <1>3, AlwaysHands, PTL DEF Spec

(* In particular where the replenisher prunes nothing. *)
COROLLARY YoungWithoutPruning == "prune" \notin Jobs => (Spec => []YoungClaimIsNotReaped)
<1> SUFFICES ASSUME "prune" \notin Jobs PROVE Spec => []YoungClaimIsNotReaped
  OBVIOUS
<1>1. Types => PruneSparesClaims
  BY DEF Types, TasksOK, TaskOK, PruneSparesClaims
<1> QED BY <1>1, AlwaysTypes, YoungClaimsSpared, PTL
=============================================================================
