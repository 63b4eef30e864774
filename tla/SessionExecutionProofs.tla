----------------------- MODULE SessionExecutionProofs -----------------------
(***************************************************************************)
(* SessionExecution for any processes, executions and faults: types; why   *)
(* an execution's input is delivered at most once; why nothing but a late  *)
(* "started" follows its terminal event; that ExecutionContract is         *)
(* implemented; and why a turn with a time limit is never owned and left   *)
(* undriven.                                                               *)
(***************************************************************************)
EXTENDS SessionExecution, TLAPS

(* An activity under way is a record over the processes and the executions. *)
LEMMA TaskTypes ==
    ASSUME TypeOK, NEW t \in tasks
    PROVE  /\ t \in Tasks /\ t.proc \in Procs /\ t.exec \in Executions
           /\ t = [proc |-> t.proc, exec |-> t.exec, kind |-> t.kind, pc |-> t.pc]
BY DEF TypeOK, Tasks

(* An activity that moves on, or ends, leaves a set of activities behind. *)
LEMMA GotoType ==
    ASSUME TypeOK, NEW t \in tasks,
           NEW pc \in AttemptPcs \cup ScanPcs \cup PumpPcs \cup FinishPcs \cup {"armed"}
    PROVE  Goto(t, pc) \subseteq Tasks /\ End(t) \subseteq Tasks
BY TaskTypes DEF TypeOK, Tasks, Goto, End

(* A freshly spawned activity is an activity. *)
LEMMA TaskType ==
    ASSUME NEW p \in Procs, NEW e \in Executions,
           NEW k \in {"attempt", "scan", "pump", "timer"},
           NEW pc \in AttemptPcs \cup ScanPcs \cup PumpPcs \cup FinishPcs \cup {"armed"}
    PROVE  Task(p, e, k, pc) \in Tasks
BY DEF Task, Tasks

(* The empty store and the idle processes are well typed. *)
THEOREM InitTypeOK == Init => TypeOK
BY ConstantsAssumption DEF Init, TypeOK, Active, Terminal

(* Ending an execution, by whichever path, keeps every variable in its domain. *)
LEMMA TerminateType ==
    ASSUME TypeOK, NEW t \in tasks, NEW outcome \in Terminal,
           Terminate(t, outcome)
    PROVE  TypeOK'
<1>1. tasks' \subseteq Tasks
  BY GotoType DEF Terminate, FinishPcs
<1>2. status' \in [Executions -> {"absent"} \cup Active \cup Terminal]
  BY DEF Terminate, TypeOK, rows
<1>3. owner' \in [Executions -> Procs \cup {None}]
  BY DEF Terminate, TypeOK, rows
<1>4. lease' \in [Executions -> BOOLEAN]
  BY DEF Terminate, TypeOK, rows
<1>5. QED BY <1>1, <1>2, <1>3, <1>4 DEF TypeOK, Terminate, rows, sandboxVars

(* Every step of every process, timer, scan, sandbox and fault keeps every
   variable in its domain: one step per action, one sub-step per variable that
   the action writes. *)
LEMMA NextTypeOK == ASSUME TypeOK, Next PROVE TypeOK'
<1>1. ASSUME NEW p \in Procs, NEW e \in Executions, Enqueue(p, e) PROVE TypeOK'
  <2>1. status' \in [Executions -> {"absent"} \cup Active \cup Terminal]
    BY <1>1 DEF Enqueue, IsActive, Active, TypeOK
  <2>2. tasks' \subseteq Tasks
    BY <1>1, TaskType, TaskTypes DEF Enqueue, IsActive, AttemptPcs, ScanPcs, PumpPcs, FinishPcs, TypeOK
  <2>3. QED BY <1>1, <2>1, <2>2 DEF TypeOK, Enqueue, IsActive, rows, sandboxVars
<1>2. ASSUME NEW p \in Procs, NEW e \in Executions, EnqueueAgain(p, e) PROVE TypeOK'
  <2>1. tasks' \subseteq Tasks
    BY <1>2, TaskType, TaskTypes DEF EnqueueAgain, AttemptPcs, ScanPcs, PumpPcs, FinishPcs, TypeOK
  <2>2. faults' \in Nat
    BY <1>2 DEF EnqueueAgain, Fault, TypeOK
  <2>3. QED BY <1>2, <2>1, <2>2 DEF TypeOK, EnqueueAgain, rows, sandboxVars
<1>3. ASSUME NEW t \in tasks, MarkRunning(t) PROVE TypeOK'
  <2>0. t.exec \in Executions /\ t.proc \in Procs
    BY TaskTypes
  <2>1. status' \in [Executions -> {"absent"} \cup Active \cup Terminal]
    BY <1>3, <2>0 DEF MarkRunning, Active, TypeOK
  <2>2. tasks' \subseteq Tasks
    BY <1>3, GotoType, TaskType, TaskTypes DEF MarkRunning, AttemptPcs, ScanPcs, PumpPcs, FinishPcs, TypeOK
  <2>3. QED BY <1>3, <2>1, <2>2 DEF TypeOK, MarkRunning, rows, sandboxVars
<1>4. ASSUME NEW t \in tasks, CheckShuttingDown(t) PROVE TypeOK'
  <2>0. t.exec \in Executions /\ t.proc \in Procs
    BY TaskTypes
  <2>1. tasks' \subseteq Tasks
    BY <1>4, GotoType, TaskType, TaskTypes DEF CheckShuttingDown, AttemptPcs, ScanPcs, PumpPcs, FinishPcs, TypeOK
  <2>2. QED BY <1>4, <2>1 DEF TypeOK, CheckShuttingDown, rows, sandboxVars
<1>5. ASSUME NEW t \in tasks, ClaimStdoutOwner(t) PROVE TypeOK'
  <2>0. t.exec \in Executions /\ t.proc \in Procs
    BY TaskTypes
  <2>1. owner' \in [Executions -> Procs \cup {None}]
    BY <1>5, <2>0 DEF ClaimStdoutOwner, TypeOK
  <2>2. lease' \in [Executions -> BOOLEAN]
    BY <1>5, <2>0 DEF ClaimStdoutOwner, TypeOK
  <2>3. renewers' \subseteq Procs \X Executions
    BY <1>5, <2>0 DEF ClaimStdoutOwner, TypeOK
  <2>4. tasks' \subseteq Tasks
    BY <1>5, GotoType, TaskType, TaskTypes DEF ClaimStdoutOwner, AttemptPcs, ScanPcs, PumpPcs, FinishPcs, TypeOK
  <2>5. QED BY <1>5, <2>1, <2>2, <2>3, <2>4 DEF TypeOK, ClaimStdoutOwner, rows, sandboxVars
<1>6. ASSUME NEW t \in tasks, Requeue(t) PROVE TypeOK'
  <2>0. t.exec \in Executions /\ t.proc \in Procs
    BY TaskTypes
  <2>1. status' \in [Executions -> {"absent"} \cup Active \cup Terminal]
    <3>0. status \in [Executions -> {"absent"} \cup Active \cup Terminal]
      BY DEF TypeOK
    <3>1. CASE status[t.exec] = "running" /\ owner[t.exec] = None
      <4>1. status' = [status EXCEPT ![t.exec] = "queued"]
        BY <1>6, <3>1 DEF Requeue
      <4>2. QED BY <2>0, <3>0, <4>1 DEF Active
    <3>2. CASE ~(status[t.exec] = "running" /\ owner[t.exec] = None)
      BY <1>6, <3>0, <3>2 DEF Requeue
    <3>3. QED BY <3>1, <3>2
  <2>2. finishedSince' \subseteq Executions
    BY <1>6, <2>0 DEF Requeue, TypeOK
  <2>3. tasks' \subseteq Tasks
    BY <1>6, GotoType, TaskType, TaskTypes DEF Requeue, AttemptPcs, ScanPcs, PumpPcs, FinishPcs, TypeOK
  <2>4. QED BY <1>6, <2>1, <2>2, <2>3 DEF TypeOK, Requeue, rows, sandboxVars
<1>7. ASSUME NEW t \in tasks, AppendStarted(t) PROVE TypeOK'
  <2>0. t.exec \in Executions /\ t.proc \in Procs
    BY TaskTypes
  <2>1. log' \in [Executions -> Seq({"started", "output", "terminal"})]
    BY <1>7, <2>0 DEF AppendStarted, TypeOK
  <2>2. tasks' \subseteq Tasks
    BY <1>7, GotoType, TaskType, TaskTypes DEF AppendStarted, AttemptPcs, ScanPcs, PumpPcs, FinishPcs, TypeOK
  <2>3. QED BY <1>7, <2>1, <2>2 DEF TypeOK, AppendStarted, rows, sandboxVars
<1>8. ASSUME NEW t \in tasks, EnsureSessionSandbox(t) PROVE TypeOK'
  <2>0. t.exec \in Executions /\ t.proc \in Procs
    BY TaskTypes
  <2>1. tasks' \subseteq Tasks
    BY <1>8, GotoType, TaskType, TaskTypes DEF EnsureSessionSandbox, AttemptPcs, ScanPcs, PumpPcs, FinishPcs, TypeOK
  <2>2. sandbox' \in {"none", "live", "down"}
    BY <1>8, <2>0 DEF EnsureSessionSandbox, TypeOK
  <2>3. turns' \subseteq Executions
    BY <1>8, <2>0 DEF EnsureSessionSandbox, TypeOK
  <2>4. finishedSince' \subseteq Executions
    BY <1>8, <2>0 DEF EnsureSessionSandbox, TypeOK
  <2>5. stream' \in [Procs -> {"none", "open", "closed"}]
    BY <1>8, <2>0 DEF EnsureSessionSandbox, TypeOK
  <2>6. QED BY <1>8, <2>1, <2>2, <2>3, <2>4, <2>5 DEF TypeOK, EnsureSessionSandbox, rows, sandboxVars
<1>9. ASSUME NEW t \in tasks, WriteInput(t) PROVE TypeOK'
  <2>0. t.exec \in Executions /\ t.proc \in Procs
    BY TaskTypes
  <2>1. stream' \in [Procs -> {"none", "open", "closed"}]
    <3>1. UNCHANGED stream \/ EnsureSessionPipe(t.proc)
      BY <1>9 DEF WriteInput
    <3>2. stream \in [Procs -> {"none", "open", "closed"}]
      BY DEF TypeOK
    <3>3. QED BY <2>0, <3>1, <3>2 DEF EnsureSessionPipe
  <2>2. delivered' \in [Executions -> Nat]
    <3>0. delivered \in [Executions -> Nat]
      BY DEF TypeOK
    <3>1. \/ delivered' = [delivered EXCEPT ![t.exec] = delivered[t.exec] + 1]
          \/ UNCHANGED delivered
      BY <1>9 DEF WriteInput
    <3>2. QED BY <2>0, <3>0, <3>1
  <2>3. turns' \subseteq Executions
    BY <1>9, <2>0 DEF WriteInput, Armed, TypeOK
  <2>4. tasks' \subseteq Tasks
    BY <1>9, GotoType, TaskType, TaskTypes DEF WriteInput, Armed, AttemptPcs, ScanPcs, PumpPcs, FinishPcs, TypeOK
  <2>5. QED BY <1>9, <2>1, <2>2, <2>3, <2>4 DEF TypeOK, WriteInput, Armed, rows, sandboxVars
<1>10. ASSUME NEW t \in tasks, ProvisionError(t) PROVE TypeOK'
  <2>0. t.exec \in Executions /\ t.proc \in Procs
    BY TaskTypes
  <2>1. tasks' \subseteq Tasks
    BY <1>10, GotoType, TaskType, TaskTypes DEF ProvisionError, AttemptPcs, ScanPcs, PumpPcs, FinishPcs, TypeOK
  <2>2. faults' \in Nat
    BY <1>10, <2>0 DEF ProvisionError, Fault, TypeOK
  <2>3. QED BY <1>10, <2>1, <2>2 DEF TypeOK, ProvisionError, rows, sandboxVars
<1>11. ASSUME NEW t \in tasks, RecordTerminalOutput(t) PROVE TypeOK'
  BY <1>11, TerminateType, ConstantsAssumption DEF RecordTerminalOutput, Terminal
<1>12. ASSUME NEW t \in tasks, RecordFailure(t) PROVE TypeOK'
  BY <1>12, TerminateType, ConstantsAssumption DEF RecordFailure, Terminal
<1>13. ASSUME NEW t \in tasks, MaxDurationFires(t) PROVE TypeOK'
  BY <1>13, TerminateType, ConstantsAssumption DEF MaxDurationFires, Terminal
<1>14. ASSUME NEW t \in tasks, AdoptRecorded(t) PROVE TypeOK'
  BY <1>14, TerminateType, ConstantsAssumption DEF AdoptRecorded, Terminal
<1>15. ASSUME NEW t \in tasks, AppendTerminalEvent(t) PROVE TypeOK'
  <2>0. t.exec \in Executions /\ t.proc \in Procs
    BY TaskTypes
  <2>1. log' \in [Executions -> Seq({"started", "output", "terminal"})]
    BY <1>15, <2>0 DEF AppendTerminalEvent, TypeOK
  <2>2. tasks' \subseteq Tasks
    BY <1>15, GotoType, TaskType, TaskTypes DEF AppendTerminalEvent, AttemptPcs, ScanPcs, PumpPcs, FinishPcs, TypeOK
  <2>3. QED BY <1>15, <2>1, <2>2 DEF TypeOK, AppendTerminalEvent, rows, sandboxVars
<1>16. ASSUME NEW p \in Procs, AttachStream(p) PROVE TypeOK'
  <2>1. stream' \in [Procs -> {"none", "open", "closed"}]
    BY <1>16 DEF AttachStream, TypeOK
  <2>2. faults' \in Nat
    BY <1>16 DEF AttachStream, Fault, TypeOK
  <2>3. QED BY <1>16, <2>1, <2>2 DEF TypeOK, AttachStream, rows, sandboxVars
<1>17. ASSUME NEW p \in Procs, PumpLine(p) PROVE TypeOK'
  <2>1. inbox' \in [Procs -> SUBSET Executions]
    BY <1>17 DEF PumpLine, ActiveExecutions, TypeOK
  <2>2. tasks' \subseteq Tasks
    BY <1>17, TaskType, TaskTypes DEF PumpLine, ActiveExecutions, AttemptPcs, ScanPcs, PumpPcs, FinishPcs, TypeOK
  <2>3. QED BY <1>17, <2>1, <2>2 DEF TypeOK, PumpLine, ActiveExecutions, rows, sandboxVars
<1>18. ASSUME NEW t \in tasks, AppendOutputLine(t) PROVE TypeOK'
  <2>0. t.exec \in Executions /\ t.proc \in Procs
    BY TaskTypes
  <2>1. lease' \in [Executions -> BOOLEAN]
    BY <1>18, <2>0 DEF AppendOutputLine, TypeOK
  <2>2. log' \in [Executions -> Seq({"started", "output", "terminal"})]
    <3>0. log \in [Executions -> Seq({"started", "output", "terminal"})]
      BY DEF TypeOK
    <3>1. CASE Fenced(t.proc, t.exec)
      <4>1. log' = [log EXCEPT ![t.exec] = Append(log[t.exec], "output")]
        BY <1>18, <3>1 DEF AppendOutputLine
      <4>2. QED BY <2>0, <3>0, <4>1
    <3>2. CASE ~(Fenced(t.proc, t.exec))
      BY <1>18, <3>0, <3>2 DEF AppendOutputLine
    <3>3. QED BY <3>1, <3>2
  <2>3. tasks' \subseteq Tasks
    BY <1>18, GotoType, TaskType, TaskTypes DEF AppendOutputLine, AttemptPcs, ScanPcs, PumpPcs, FinishPcs, TypeOK
  <2>4. QED BY <1>18, <2>1, <2>2, <2>3 DEF TypeOK, AppendOutputLine, rows, sandboxVars
<1>19. ASSUME NEW p \in Procs, PumpEof(p) PROVE TypeOK'
  <2>1. stream' \in [Procs -> {"none", "open", "closed"}]
    BY <1>19 DEF PumpEof, ActiveExecutions, TypeOK
  <2>2. tasks' \subseteq Tasks
    BY <1>19, TaskType, TaskTypes DEF PumpEof, ActiveExecutions, AttemptPcs, ScanPcs, PumpPcs, FinishPcs, TypeOK
  <2>3. QED BY <1>19, <2>1, <2>2 DEF TypeOK, PumpEof, ActiveExecutions, rows, sandboxVars
<1>20. ASSUME NEW t \in tasks, PumpDetached(t) PROVE TypeOK'
  <2>0. t.exec \in Executions /\ t.proc \in Procs
    BY TaskTypes
  <2>1. stream' \in [Procs -> {"none", "open", "closed"}]
    BY <1>20, <2>0 DEF PumpDetached, TypeOK
  <2>2. tasks' \subseteq Tasks
    BY <1>20, GotoType, TaskType, TaskTypes DEF PumpDetached, AttemptPcs, ScanPcs, PumpPcs, FinishPcs, TypeOK
  <2>3. faults' \in Nat
    BY <1>20 DEF PumpDetached, NoRecordedEnd, Fault, TypeOK
  <2>4. QED BY <1>20, <2>1, <2>2, <2>3 DEF TypeOK, PumpDetached, rows, sandboxVars
<1>21. ASSUME NEW p \in Procs, NEW e \in Executions, ScanReplaysQueued(p, e) PROVE TypeOK'
  <2>1. tasks' \subseteq Tasks
    BY <1>21, TaskType, TaskTypes DEF ScanReplaysQueued, AttemptPcs, ScanPcs, PumpPcs, FinishPcs, TypeOK
  <2>2. QED BY <1>21, <2>1 DEF TypeOK, ScanReplaysQueued, rows, sandboxVars
<1>22. ASSUME NEW p \in Procs, NEW e \in Executions, ScanCannotReadQueued(p, e) PROVE TypeOK'
  <2>1. tasks' \subseteq Tasks
    BY <1>22, TaskType, TaskTypes DEF ScanCannotReadQueued, AttemptPcs, ScanPcs, PumpPcs, FinishPcs, TypeOK
  <2>2. faults' \in Nat
    BY <1>22 DEF ScanCannotReadQueued, Fault, TypeOK
  <2>3. QED BY <1>22, <2>1, <2>2 DEF TypeOK, ScanCannotReadQueued, rows, sandboxVars
<1>23. ASSUME NEW p \in Procs, NEW e \in Executions, ScanTakesRunning(p, e) PROVE TypeOK'
  <2>1. tasks' \subseteq Tasks
    BY <1>23, TaskType, TaskTypes DEF ScanTakesRunning, AttemptPcs, ScanPcs, PumpPcs, FinishPcs, TypeOK
  <2>2. QED BY <1>23, <2>1 DEF TypeOK, ScanTakesRunning, rows, sandboxVars
<1>24. ASSUME NEW t \in tasks, FailOrphaned(t) PROVE TypeOK'
  <2>0. t.exec \in Executions /\ t.proc \in Procs
    BY TaskTypes
  <2>1. owner' \in [Executions -> Procs \cup {None}]
    BY <1>24, <2>0 DEF FailOrphaned, TypeOK
  <2>2. lease' \in [Executions -> BOOLEAN]
    BY <1>24, <2>0 DEF FailOrphaned, TypeOK
  <2>3. tasks' \subseteq Tasks
    BY <1>24, GotoType, TaskType, TaskTypes DEF FailOrphaned, AttemptPcs, ScanPcs, PumpPcs, FinishPcs, TypeOK
  <2>4. QED BY <1>24, <2>1, <2>2, <2>3 DEF TypeOK, FailOrphaned, rows, sandboxVars
<1>25. ASSUME NEW t \in tasks, ClaimExpiredStdoutOwner(t) PROVE TypeOK'
  <2>0. t.exec \in Executions /\ t.proc \in Procs
    BY TaskTypes
  <2>1. owner' \in [Executions -> Procs \cup {None}]
    BY <1>25, <2>0 DEF ClaimExpiredStdoutOwner, TypeOK
  <2>2. lease' \in [Executions -> BOOLEAN]
    BY <1>25, <2>0 DEF ClaimExpiredStdoutOwner, TypeOK
  <2>3. renewers' \subseteq Procs \X Executions
    BY <1>25, <2>0 DEF ClaimExpiredStdoutOwner, TypeOK
  <2>4. tasks' \subseteq Tasks
    BY <1>25, GotoType, TaskType, TaskTypes DEF ClaimExpiredStdoutOwner, AttemptPcs, ScanPcs, PumpPcs, FinishPcs, TypeOK
  <2>5. QED BY <1>25, <2>1, <2>2, <2>3, <2>4 DEF TypeOK, ClaimExpiredStdoutOwner, rows, sandboxVars
<1>26. ASSUME NEW t \in tasks, AdoptLive(t) PROVE TypeOK'
  <2>0. t.exec \in Executions /\ t.proc \in Procs
    BY TaskTypes
  <2>1. stream' \in [Procs -> {"none", "open", "closed"}]
    BY <1>26, <2>0 DEF AdoptLive, EnsureSessionPipe, Armed, TypeOK
  <2>2. tasks' \subseteq Tasks
    BY <1>26, GotoType, TaskType, TaskTypes DEF AdoptLive, Armed, AttemptPcs, ScanPcs, PumpPcs, FinishPcs, TypeOK
  <2>3. faults' \in Nat
    BY <1>26 DEF AdoptLive, NoRecordedEnd, Fault, TypeOK
  <2>4. QED BY <1>26, <2>1, <2>2, <2>3 DEF TypeOK, AdoptLive, Armed, rows, sandboxVars
<1>27. ASSUME NEW t \in tasks, AdoptAttachFails(t) PROVE TypeOK'
  <2>0. t.exec \in Executions /\ t.proc \in Procs
    BY TaskTypes
  <2>1. owner' \in [Executions -> Procs \cup {None}]
    BY <1>27, <2>0 DEF AdoptAttachFails, TypeOK
  <2>2. lease' \in [Executions -> BOOLEAN]
    BY <1>27, <2>0 DEF AdoptAttachFails, TypeOK
  <2>3. tasks' \subseteq Tasks
    BY <1>27, GotoType, TaskType, TaskTypes DEF AdoptAttachFails, AttemptPcs, ScanPcs, PumpPcs, FinishPcs, TypeOK
  <2>4. faults' \in Nat
    BY <1>27 DEF AdoptAttachFails, NoRecordedEnd, Fault, TypeOK
  <2>5. QED BY <1>27, <2>1, <2>2, <2>3, <2>4 DEF TypeOK, AdoptAttachFails, rows, sandboxVars
<1>28. ASSUME NEW e \in Executions, LeaseRunsOut(e) PROVE TypeOK'
  <2>1. lease' \in [Executions -> BOOLEAN]
    BY <1>28 DEF LeaseRunsOut, TypeOK
  <2>2. QED BY <1>28, <2>1 DEF TypeOK, LeaseRunsOut, rows, sandboxVars
<1>29. ASSUME NEW e \in Executions, LeaseLapsesInStall(e) PROVE TypeOK'
  <2>1. lease' \in [Executions -> BOOLEAN]
    BY <1>29 DEF LeaseLapsesInStall, TypeOK
  <2>2. faults' \in Nat
    BY <1>29 DEF LeaseLapsesInStall, Fault, TypeOK
  <2>3. QED BY <1>29, <2>1, <2>2 DEF TypeOK, LeaseLapsesInStall, rows, sandboxVars
<1>30. ASSUME NEW p \in Procs, NEW e \in Executions, Renew(p, e) PROVE TypeOK'
  <2>1. lease' \in [Executions -> BOOLEAN]
    BY <1>30 DEF Renew, TypeOK
  <2>2. renewers' \subseteq Procs \X Executions
    BY <1>30 DEF Renew, TypeOK
  <2>3. QED BY <1>30, <2>1, <2>2 DEF TypeOK, Renew, rows, sandboxVars
<1>31. ASSUME NEW p \in Procs, NEW e \in Executions, RenewError(p, e) PROVE TypeOK'
  <2>1. renewers' \subseteq Procs \X Executions
    BY <1>31 DEF RenewError, TypeOK
  <2>2. faults' \in Nat
    BY <1>31 DEF RenewError, Fault, TypeOK
  <2>3. QED BY <1>31, <2>1, <2>2 DEF TypeOK, RenewError, rows, sandboxVars
<1>32. ASSUME NEW p \in Procs, StartShutdown(p) PROVE TypeOK'
  <2>1. proc' \in [Procs -> {"up", "draining", "released", "down"}]
    BY <1>32 DEF StartShutdown, TypeOK
  <2>2. faults' \in Nat
    BY <1>32 DEF StartShutdown, Fault, TypeOK
  <2>3. QED BY <1>32, <2>1, <2>2 DEF TypeOK, StartShutdown, rows, sandboxVars
<1>33. ASSUME NEW p \in Procs, HandOff(p) PROVE TypeOK'
  <2>1. proc' \in [Procs -> {"up", "draining", "released", "down"}]
    BY <1>33 DEF HandOff, TypeOK
  <2>2. owner' \in [Executions -> Procs \cup {None}]
    BY <1>33 DEF HandOff, TypeOK
  <2>3. lease' \in [Executions -> BOOLEAN]
    BY <1>33 DEF HandOff, TypeOK
  <2>4. QED BY <1>33, <2>1, <2>2, <2>3 DEF TypeOK, HandOff, rows, sandboxVars
<1>34. ASSUME NEW p \in Procs, Exit(p) PROVE TypeOK'
  <2>1. proc' \in [Procs -> {"up", "draining", "released", "down"}]
    BY <1>34 DEF Exit, Stop, TypeOK
  <2>2. tasks' \subseteq Tasks
    BY <1>34, TaskType, TaskTypes DEF Exit, Stop, AttemptPcs, ScanPcs, PumpPcs, FinishPcs, TypeOK
  <2>3. renewers' \subseteq Procs \X Executions
    BY <1>34 DEF Exit, Stop, TypeOK
  <2>4. stream' \in [Procs -> {"none", "open", "closed"}]
    BY <1>34 DEF Exit, Stop, TypeOK
  <2>5. inbox' \in [Procs -> SUBSET Executions]
    BY <1>34 DEF Exit, Stop, TypeOK
  <2>6. QED BY <1>34, <2>1, <2>2, <2>3, <2>4, <2>5 DEF TypeOK, Exit, Stop, rows, sandboxVars
<1>35. ASSUME NEW p \in Procs, Crash(p) PROVE TypeOK'
  <2>1. proc' \in [Procs -> {"up", "draining", "released", "down"}]
    BY <1>35 DEF Crash, Stop, TypeOK
  <2>2. tasks' \subseteq Tasks
    BY <1>35, TaskType, TaskTypes DEF Crash, Stop, AttemptPcs, ScanPcs, PumpPcs, FinishPcs, TypeOK
  <2>3. renewers' \subseteq Procs \X Executions
    BY <1>35 DEF Crash, Stop, TypeOK
  <2>4. stream' \in [Procs -> {"none", "open", "closed"}]
    BY <1>35 DEF Crash, Stop, TypeOK
  <2>5. inbox' \in [Procs -> SUBSET Executions]
    BY <1>35 DEF Crash, Stop, TypeOK
  <2>6. faults' \in Nat
    BY <1>35 DEF Crash, Stop, Fault, TypeOK
  <2>7. QED BY <1>35, <2>1, <2>2, <2>3, <2>4, <2>5, <2>6 DEF TypeOK, Crash, Stop, rows, sandboxVars
<1>36. ASSUME NEW t \in tasks, StoreError(t) PROVE TypeOK'
  <2>0. t.exec \in Executions /\ t.proc \in Procs
    BY TaskTypes
  <2>1. tasks' \subseteq Tasks
    BY <1>36, GotoType, TaskType, TaskTypes DEF StoreError, AttemptPcs, ScanPcs, PumpPcs, FinishPcs, TypeOK
  <2>2. stream' \in [Procs -> {"none", "open", "closed"}]
    BY <1>36, <2>0 DEF StoreError, TypeOK
  <2>3. faults' \in Nat
    BY <1>36, <2>0 DEF StoreError, Fault, TypeOK
  <2>4. QED BY <1>36, <2>1, <2>2, <2>3 DEF TypeOK, StoreError, rows, sandboxVars
<1>37. ASSUME NEW e \in Executions, SandboxFinishesTurn(e) PROVE TypeOK'
  <2>1. turns' \subseteq Executions
    BY <1>37 DEF SandboxFinishesTurn, TypeOK
  <2>2. finishedSince' \subseteq Executions
    BY <1>37 DEF SandboxFinishesTurn, TypeOK
  <2>3. inbox' \in [Procs -> SUBSET Executions]
    BY <1>37 DEF SandboxFinishesTurn, TypeOK
  <2>4. QED BY <1>37, <2>1, <2>2, <2>3 DEF TypeOK, SandboxFinishesTurn, rows, sandboxVars
<1>38. ASSUME NEW p \in Procs, StreamReadError(p) PROVE TypeOK'
  <2>1. stream' \in [Procs -> {"none", "open", "closed"}]
    BY <1>38 DEF StreamReadError, ActiveExecutions, TypeOK
  <2>2. tasks' \subseteq Tasks
    BY <1>38, TaskType, TaskTypes DEF StreamReadError, ActiveExecutions, AttemptPcs, ScanPcs, PumpPcs, FinishPcs, TypeOK
  <2>3. faults' \in Nat
    BY <1>38 DEF StreamReadError, ActiveExecutions, Fault, TypeOK
  <2>4. QED BY <1>38, <2>1, <2>2, <2>3 DEF TypeOK, StreamReadError, ActiveExecutions, rows, sandboxVars
<1>39. ASSUME SandboxGoesDown PROVE TypeOK'
  <2>1. sandbox' \in {"none", "live", "down"}
    BY <1>39 DEF SandboxGoesDown, CloseStreams, TypeOK
  <2>2. turns' \subseteq Executions
    BY <1>39 DEF SandboxGoesDown, CloseStreams, TypeOK
  <2>3. stream' \in [Procs -> {"none", "open", "closed"}]
    BY <1>39 DEF SandboxGoesDown, CloseStreams, TypeOK
  <2>4. faults' \in Nat
    BY <1>39 DEF SandboxGoesDown, CloseStreams, Fault, TypeOK
  <2>5. QED BY <1>39, <2>1, <2>2, <2>3, <2>4 DEF TypeOK, SandboxGoesDown, CloseStreams, rows, sandboxVars
<1>40. ASSUME NEW p \in Procs, AttachBreaks(p) PROVE TypeOK'
  <2>1. stream' \in [Procs -> {"none", "open", "closed"}]
    BY <1>40 DEF AttachBreaks, TypeOK
  <2>2. faults' \in Nat
    BY <1>40 DEF AttachBreaks, Fault, TypeOK
  <2>3. QED BY <1>40, <2>1, <2>2 DEF TypeOK, AttachBreaks, rows, sandboxVars
<1>41. QED
  BY <1>1, <1>2, <1>3, <1>4, <1>5, <1>6, <1>7, <1>8, <1>9, <1>10, <1>11, <1>12, <1>13, <1>14, <1>15, <1>16, <1>17, <1>18, <1>19, <1>20, <1>21, <1>22, <1>23, <1>24, <1>25, <1>26, <1>27, <1>28, <1>29, <1>30, <1>31, <1>32, <1>33, <1>34, <1>35, <1>36, <1>37, <1>38, <1>39, <1>40
  DEF Next, TaskStep, AttemptStep, FinishStep, PumpStep, ScanStep, FaultStep

(* Type correctness: in every behaviour of the control plane, for any number of
   processes, executions and faults, every variable stays in its domain. *)
THEOREM TypeCorrect == Spec => []TypeOK
<1>1. Init => TypeOK
  BY InitTypeOK
<1>2. TypeOK /\ [Next]_vars => TypeOK'
  <2>1. CASE UNCHANGED vars
    BY <2>1 DEF vars, TypeOK
  <2>2. QED BY <2>1, NextTypeOK
<1>3. QED BY <1>1, <1>2, PTL DEF Spec

-----------------------------------------------------------------------------
(* Safety and refinement.  SafetyInvariant is inductive.  Most steps are quiet:
   they touch neither the rows' status nor the logs nor the deliveries, and
   start neither a dispatch nor a publication; one lemma settles them all.  The
   others are taken one by one. *)

(* What a task becomes when it moves on: only its pc changes. *)
LEMMA GotoTasks ==
    ASSUME TypeOK, NEW t \in tasks, NEW pc, NEW u \in Goto(t, pc)
    PROVE  \/ u \in tasks /\ u # t
           \/ /\ u.pc = pc /\ u.exec = t.exec /\ u.kind = t.kind
              /\ u = [t EXCEPT !.pc = pc]
<1>1. t \in Tasks
  BY DEF TypeOK
<1>2. QED BY <1>1 DEF Goto, Tasks

(* The invariant speaks only of dispatching and publishing tasks. *)
Neutral(u) == u.pc # "event" /\ ~InDispatch(u)

(* A step that changes no status, log or delivery, and whose new activities
   neither dispatch nor publish, preserves the invariant. *)
LEMMA NeutralStep ==
    ASSUME SafetyInvariant, UNCHANGED <<status, log, delivered>>,
           \A u \in tasks' : u \in tasks \/ Neutral(u)
    PROVE  SafetyInvariant'
<1>1. DeliveredAtMostOnce' /\ QueuedIsUndelivered' /\ ClosedTurnStaysClosed'
  BY DEF SafetyInvariant, DeliveredAtMostOnce, QueuedIsUndelivered, ClosedTurnStaysClosed
<1>2. DispatchIsExclusive'
  BY DEF SafetyInvariant, DispatchIsExclusive, InDispatch, Neutral
<1>3. PublisherWonTheFence'
  BY DEF SafetyInvariant, PublisherWonTheFence, Published, Neutral
<1>4. QED BY <1>1, <1>2, <1>3 DEF SafetyInvariant

(* The driver that holds an execution in dispatch moves on to its next
   statement: it stays the only one. *)
LEMMA DispatchStep ==
    ASSUME TypeOK, SafetyInvariant, UNCHANGED <<status, delivered>>,
           NEW t \in tasks, InDispatch(t), NEW pc \in AttemptPcs \ {"spawned"},
           tasks' \subseteq Goto(t, pc)
    PROVE  /\ DeliveredAtMostOnce' /\ QueuedIsUndelivered'
           /\ DispatchIsExclusive'
           /\ \A u \in tasks' : u.pc = "event" => u \in tasks
<1>1. DeliveredAtMostOnce' /\ QueuedIsUndelivered'
  BY DEF SafetyInvariant, DeliveredAtMostOnce, QueuedIsUndelivered
<1>2. \A u \in tasks' : \/ u \in tasks /\ u # t
                        \/ /\ u.pc = pc /\ u.exec = t.exec
                           /\ u = [t EXCEPT !.pc = pc]
  BY GotoTasks
<1>3. DispatchIsExclusive'
  <2> SUFFICES ASSUME NEW u \in tasks', InDispatch(u)
               PROVE  /\ status[u.exec] \notin {"absent", "queued"}
                      /\ delivered[u.exec] = 0
                      /\ \A w \in tasks' : InDispatch(w) /\ w.exec = u.exec => w = u
    BY DEF DispatchIsExclusive, InDispatch
  <2>1. CASE u \in tasks /\ u # t
    <3>1. u.exec # t.exec
      BY <2>1 DEF SafetyInvariant, DispatchIsExclusive
    <3>2. QED BY <1>2, <2>1, <3>1 DEF SafetyInvariant, DispatchIsExclusive
  <2>2. CASE u.exec = t.exec /\ u = [t EXCEPT !.pc = pc]
    <3>1. \A w \in tasks : InDispatch(w) /\ w.exec = t.exec => w = t
      BY DEF SafetyInvariant, DispatchIsExclusive
    <3>2. QED BY <1>2, <2>2, <3>1 DEF SafetyInvariant, DispatchIsExclusive
  <2>3. QED BY <1>2, <2>1, <2>2
<1>4. \A u \in tasks' : u.pc = "event" => u \in tasks
  BY <1>2 DEF AttemptPcs
<1>5. QED BY <1>1, <1>3, <1>4

(* A dispatch move that stores no event preserves the invariant. *)
LEMMA DispatchStepSafe ==
    ASSUME TypeOK, SafetyInvariant, UNCHANGED <<status, log, delivered>>,
           NEW t \in tasks, InDispatch(t), NEW pc \in AttemptPcs \ {"spawned"},
           tasks' \subseteq Goto(t, pc)
    PROVE  SafetyInvariant'
<1>1. /\ DeliveredAtMostOnce' /\ QueuedIsUndelivered' /\ DispatchIsExclusive'
      /\ \A u \in tasks' : u.pc = "event" => u \in tasks
  BY DispatchStep
<1>2. ClosedTurnStaysClosed'
  BY DEF SafetyInvariant, ClosedTurnStaysClosed
<1>3. PublisherWonTheFence'
  BY <1>1 DEF SafetyInvariant, PublisherWonTheFence, Published
<1>4. QED BY <1>1, <1>2, <1>3 DEF SafetyInvariant

(* Moving on to record an end, or to finish an adoption, is neutral. *)
LEMMA NeutralGoto ==
    ASSUME TypeOK, NEW t \in tasks, NEW pc \in {"failing", "finish", "adopted"}
    PROVE  \A u \in Goto(t, pc) : u \in tasks \/ Neutral(u)
<1>1. \A u \in Goto(t, pc) : u \in tasks \/ u.pc = pc
  BY GotoTasks
<1>2. QED BY <1>1 DEF Neutral, InDispatch, AttemptPcs

(* Ending an activity adds none. *)
LEMMA NeutralEnd ==
    ASSUME NEW t
    PROVE  \A u \in End(t) : u \in tasks
BY DEF End

(* The activities that requests, scans, pumps and timers spawn are neutral. *)
LEMMA NeutralNew ==
    ASSUME NEW p, NEW e, NEW k,
           NEW pc \in {"spawned", "append", "detached", "failing", "giveup",
                       "attachable", "armed"}
    PROVE  Neutral(Task(p, e, k, pc))
BY DEF Neutral, InDispatch, Task, AttemptPcs

(* A max-duration timer is neutral. *)
LEMMA NeutralArmed ==
    ASSUME NEW p, NEW e
    PROVE  \A u \in Armed(p, e) : Neutral(u)
BY NeutralNew DEF Armed
(* A quiet step leaves the rows' status, the logs and the deliveries alone and
   starts no dispatch and no publication. *)
Quiet == /\ UNCHANGED <<status, log, delivered>>
         /\ \A u \in tasks' : u \in tasks \/ Neutral(u)

QuietTask(t) ==
    \/ ProvisionError(t) \/ StoreError(t) \/ PumpDetached(t) \/ FailOrphaned(t)
    \/ ClaimExpiredStdoutOwner(t) \/ AdoptLive(t) \/ AdoptAttachFails(t)

QuietProcess(p) ==
    \/ AttachStream(p) \/ PumpLine(p) \/ PumpEof(p) \/ HandOff(p) \/ Exit(p)
    \/ Crash(p) \/ StartShutdown(p) \/ AttachBreaks(p) \/ StreamReadError(p)

QuietPair(p, e) ==
    \/ EnqueueAgain(p, e) \/ Renew(p, e) \/ RenewError(p, e)
    \/ ScanReplaysQueued(p, e) \/ ScanCannotReadQueued(p, e)
    \/ ScanTakesRunning(p, e)

QuietExecution(e) ==
    LeaseRunsOut(e) \/ LeaseLapsesInStall(e) \/ SandboxFinishesTurn(e)

(* Scans, detached pumps, provisioning errors and store errors are quiet. *)
LEMMA QuietTaskStep == ASSUME TypeOK, NEW t \in tasks, QuietTask(t) PROVE Quiet
<1>1. CASE ProvisionError(t)
  BY <1>1, NeutralGoto DEF ProvisionError, Quiet, rows, sandboxVars
<1>2. CASE StoreError(t)
  BY <1>2, NeutralEnd DEF StoreError, Quiet, rows, sandboxVars
<1>3. CASE PumpDetached(t)
  BY <1>3, NeutralGoto, NeutralEnd DEF PumpDetached, Quiet, rows, sandboxVars
<1>4. CASE FailOrphaned(t)
  BY <1>4, NeutralGoto DEF FailOrphaned, Quiet, rows, sandboxVars
<1>5. CASE ClaimExpiredStdoutOwner(t)
  BY <1>5, NeutralGoto, NeutralEnd DEF ClaimExpiredStdoutOwner, Quiet, rows, sandboxVars
<1>6. CASE AdoptLive(t)
  BY <1>6, NeutralEnd, NeutralArmed DEF AdoptLive, Quiet, rows, sandboxVars
<1>7. CASE AdoptAttachFails(t)
  BY <1>7, NeutralEnd DEF AdoptAttachFails, Quiet, rows, sandboxVars
<1>8. QED BY <1>1, <1>2, <1>3, <1>4, <1>5, <1>6, <1>7 DEF QuietTask

(* Pumps, attaches, handoffs, exits and crashes of a process are quiet. *)
LEMMA QuietProcessStep == ASSUME NEW p \in Procs, QuietProcess(p) PROVE Quiet
<1>1. CASE AttachStream(p)
  BY <1>1 DEF AttachStream, Quiet, rows, sandboxVars
<1>2. CASE PumpLine(p)
  BY <1>2, NeutralNew DEF PumpLine, Quiet, rows, sandboxVars
<1>3. CASE PumpEof(p)
  BY <1>3, NeutralNew DEF PumpEof, Quiet, rows, sandboxVars
<1>4. CASE HandOff(p)
  BY <1>4 DEF HandOff, Quiet, sandboxVars
<1>5. CASE Exit(p)
  BY <1>5 DEF Exit, Stop, Quiet, rows, sandboxVars
<1>6. CASE Crash(p)
  BY <1>6 DEF Crash, Stop, Quiet, rows, sandboxVars
<1>7. CASE StartShutdown(p)
  BY <1>7 DEF StartShutdown, Quiet, rows, sandboxVars
<1>8. CASE AttachBreaks(p)
  BY <1>8 DEF AttachBreaks, Quiet, rows, sandboxVars
<1>9. CASE StreamReadError(p)
  BY <1>9, NeutralNew DEF StreamReadError, Quiet, rows, sandboxVars
<1>10. QED BY <1>1, <1>2, <1>3, <1>4, <1>5, <1>6, <1>7, <1>8, <1>9 DEF QuietProcess

(* Retried requests, renewals and the choices of the adoption scan are quiet. *)
LEMMA QuietPairStep ==
    ASSUME NEW p \in Procs, NEW e \in Executions, QuietPair(p, e) PROVE Quiet
<1>1. CASE EnqueueAgain(p, e)
  BY <1>1, NeutralNew DEF EnqueueAgain, Quiet, rows, sandboxVars
<1>2. CASE Renew(p, e)
  BY <1>2 DEF Renew, Quiet, rows, sandboxVars
<1>3. CASE RenewError(p, e)
  BY <1>3 DEF RenewError, Quiet, rows, sandboxVars
<1>4. CASE ScanReplaysQueued(p, e)
  BY <1>4, NeutralNew DEF ScanReplaysQueued, Quiet, rows, sandboxVars
<1>5. CASE ScanCannotReadQueued(p, e)
  BY <1>5, NeutralNew DEF ScanCannotReadQueued, Quiet, rows, sandboxVars
<1>6. CASE ScanTakesRunning(p, e)
  BY <1>6, NeutralNew DEF ScanTakesRunning, Quiet, rows, sandboxVars
<1>7. QED BY <1>1, <1>2, <1>3, <1>4, <1>5, <1>6 DEF QuietPair

(* Leases that run out and turns that end in the sandbox are quiet. *)
LEMMA QuietExecutionStep ==
    ASSUME NEW e \in Executions, QuietExecution(e) PROVE Quiet
BY DEF QuietExecution, LeaseRunsOut, LeaseLapsesInStall, SandboxFinishesTurn,
       Quiet, rows, sandboxVars

(* Losing the sandbox is quiet. *)
LEMMA SandboxDownStep == ASSUME SandboxGoesDown PROVE Quiet
BY DEF SandboxGoesDown, Quiet, rows

(* What append_event does to the log of an execution, and to no other. *)
LEMMA AppendFacts ==
    ASSUME TypeOK, NEW e \in Executions, NEW ev \in {"started", "output", "terminal"},
           log' = [log EXCEPT ![e] = Append(@, ev)]
    PROVE  /\ \A f \in Executions : f # e => log'[f] = log[f]
           /\ DOMAIN log[e] = 1 .. Len(log[e]) /\ Len(log[e]) \in Nat
           /\ DOMAIN log'[e] = 1 .. (Len(log[e]) + 1)
           /\ log'[e][Len(log[e]) + 1] = ev
           /\ \A i \in DOMAIN log[e] : log'[e][i] = log[e][i]
<1>1. log \in [Executions -> Seq({"started", "output", "terminal"})]
  BY DEF TypeOK
<1>2. log[e] \in Seq({"started", "output", "terminal"}) /\ log'[e] = Append(log[e], ev)
  BY <1>1
<1>3. \A f \in Executions : f # e => log'[f] = log[f]
  BY <1>1
<1>4. QED BY <1>2, <1>3

(* A new row starts in the queue with nothing delivered. *)
LEMMA EnqueueSafe ==
    ASSUME TypeOK, SafetyInvariant, NEW p \in Procs, NEW e \in Executions, Enqueue(p, e)
    PROVE  SafetyInvariant'
<1>1. /\ status' = [status EXCEPT ![e] = "queued"] /\ status[e] = "absent"
      /\ UNCHANGED <<log, delivered>>
      /\ status \in [Executions -> {"absent"} \cup Active \cup Terminal]
  BY DEF Enqueue, sandboxVars, TypeOK
<1>2. \A u \in tasks' : u \in tasks \/ Neutral(u)
  BY NeutralNew DEF Enqueue
<1>3. \A u \in tasks : u.exec \in Executions
  BY TaskTypes
<1>4. DeliveredAtMostOnce' /\ QueuedIsUndelivered'
  BY <1>1 DEF SafetyInvariant, DeliveredAtMostOnce, QueuedIsUndelivered
<1>5. ClosedTurnStaysClosed'
  BY <1>1 DEF SafetyInvariant, ClosedTurnStaysClosed, Terminal
<1>6. DispatchIsExclusive'
  BY <1>1, <1>2, <1>3 DEF SafetyInvariant, DispatchIsExclusive, InDispatch, Neutral
<1>7. PublisherWonTheFence'
  BY <1>1, <1>2, <1>3 DEF SafetyInvariant, PublisherWonTheFence, Published, Neutral, Terminal
<1>8. QED BY <1>4, <1>5, <1>6, <1>7 DEF SafetyInvariant

(* mark_execution_running admits one driver: the row was queued, so nobody was
   dispatching it and nothing was delivered. *)
LEMMA MarkRunningSafe ==
    ASSUME TypeOK, SafetyInvariant, NEW t \in tasks, MarkRunning(t)
    PROVE  SafetyInvariant'
<1>0. t.exec \in Executions
  BY TaskTypes
<1>1. CASE ~(proc[t.proc] = "up" /\ status[t.exec] = "queued")
  <2>1. Quiet
    BY <1>1, NeutralEnd DEF MarkRunning, Quiet, sandboxVars
  <2>2. QED BY <2>1, NeutralStep DEF Quiet
<1>2. CASE proc[t.proc] = "up" /\ status[t.exec] = "queued"
  <2>1. /\ status' = [status EXCEPT ![t.exec] = "running"] /\ status[t.exec] = "queued"
        /\ UNCHANGED <<log, delivered>> /\ tasks' = Goto(t, "marked")
        /\ status \in [Executions -> {"absent"} \cup Active \cup Terminal]
    BY <1>2 DEF MarkRunning, sandboxVars, TypeOK
  <2>2. \A u \in tasks' : u \in tasks \/ (u.pc = "marked" /\ u.exec = t.exec
                                            /\ u = [t EXCEPT !.pc = "marked"])
    BY <2>1, GotoTasks
  <2>3. \A u \in tasks : u.exec \in Executions
    BY TaskTypes
  <2>4. DeliveredAtMostOnce' /\ QueuedIsUndelivered'
    BY <1>0, <2>1 DEF SafetyInvariant, DeliveredAtMostOnce, QueuedIsUndelivered
  <2>5. ClosedTurnStaysClosed'
    BY <1>0, <2>1 DEF SafetyInvariant, ClosedTurnStaysClosed, Terminal
  <2>6. \A u \in tasks : InDispatch(u) => u.exec # t.exec
    BY <2>1 DEF SafetyInvariant, DispatchIsExclusive
  <2>7. delivered[t.exec] = 0
    BY <1>0, <2>1 DEF SafetyInvariant, QueuedIsUndelivered
  <2>8. DispatchIsExclusive'
    <3> SUFFICES ASSUME NEW u \in tasks', InDispatch(u)
                 PROVE  /\ status'[u.exec] \notin {"absent", "queued"}
                        /\ delivered[u.exec] = 0
                        /\ \A w \in tasks' : InDispatch(w) /\ w.exec = u.exec => w = u
      BY <2>1 DEF DispatchIsExclusive, InDispatch
    <3>1. CASE u \in tasks
      BY <2>1, <2>2, <2>3, <2>6, <3>1 DEF SafetyInvariant, DispatchIsExclusive
    <3>2. CASE u.exec = t.exec /\ u = [t EXCEPT !.pc = "marked"]
      BY <1>0, <2>1, <2>2, <2>6, <2>7, <3>2
    <3>3. QED BY <2>2, <3>1, <3>2
  <2>9. PublisherWonTheFence'
    BY <1>0, <2>1, <2>2, <2>3 DEF SafetyInvariant, PublisherWonTheFence, Published, Terminal
  <2>10. QED BY <2>4, <2>5, <2>8, <2>9 DEF SafetyInvariant
<1>3. QED BY <1>1, <1>2

(* requeue_undelivered_execution puts back only what its driver still held
   undelivered. *)
LEMMA RequeueSafe ==
    ASSUME TypeOK, SafetyInvariant, NEW t \in tasks, Requeue(t)
    PROVE  SafetyInvariant'
<1>0. t.exec \in Executions
  BY TaskTypes
<1>1. CASE ~(status[t.exec] = "running" /\ owner[t.exec] = None)
  <2>1. Quiet
    BY <1>1, NeutralGoto DEF Requeue, Quiet, sandboxVars
  <2>2. QED BY <2>1, NeutralStep DEF Quiet
<1>2. CASE status[t.exec] = "running" /\ owner[t.exec] = None
  <2>1. /\ status' = [status EXCEPT ![t.exec] = "queued"] /\ status[t.exec] = "running"
        /\ UNCHANGED <<log, delivered>> /\ tasks' = tasks \ {t}
        /\ status \in [Executions -> {"absent"} \cup Active \cup Terminal]
    BY <1>2 DEF Requeue, TypeOK, End
  <2>2. InDispatch(t)
    BY DEF Requeue, At, InDispatch, AttemptPcs
  <2>3. \A u \in tasks : u.exec \in Executions
    BY TaskTypes
  <2>4. \A u \in tasks' : InDispatch(u) => u.exec # t.exec
    BY <2>1, <2>2 DEF SafetyInvariant, DispatchIsExclusive
  <2>5. DeliveredAtMostOnce' /\ QueuedIsUndelivered'
    BY <1>0, <2>1, <2>2 DEF SafetyInvariant, DeliveredAtMostOnce, QueuedIsUndelivered,
                            DispatchIsExclusive
  <2>6. ClosedTurnStaysClosed'
    BY <1>0, <2>1 DEF SafetyInvariant, ClosedTurnStaysClosed, Terminal
  <2>7. DispatchIsExclusive'
    BY <2>1, <2>3, <2>4 DEF SafetyInvariant, DispatchIsExclusive, InDispatch
  <2>8. PublisherWonTheFence'
    BY <1>0, <2>1, <2>3 DEF SafetyInvariant, PublisherWonTheFence, Published, Terminal
  <2>9. QED BY <2>5, <2>6, <2>7, <2>8 DEF SafetyInvariant
<1>3. QED BY <1>1, <1>2

(* The execution_started event may be late, but it is not an output line. *)
LEMMA AppendStartedSafe ==
    ASSUME TypeOK, SafetyInvariant, NEW t \in tasks, AppendStarted(t)
    PROVE  SafetyInvariant'
<1>0. t.exec \in Executions /\ \A u \in tasks : u.exec \in Executions
  BY TaskTypes
<1>1. /\ UNCHANGED <<status, delivered>> /\ tasks' = Goto(t, "started")
      /\ InDispatch(t) /\ log' = [log EXCEPT ![t.exec] = Append(@, "started")]
  BY DEF AppendStarted, At, InDispatch, AttemptPcs, rows, sandboxVars
<1>2. /\ DeliveredAtMostOnce' /\ QueuedIsUndelivered' /\ DispatchIsExclusive'
      /\ \A u \in tasks' : u.pc = "event" => u \in tasks
  BY <1>1, DispatchStep DEF AttemptPcs
<1>3. /\ \A f \in Executions : f # t.exec => log'[f] = log[f]
      /\ DOMAIN log[t.exec] = 1 .. Len(log[t.exec]) /\ Len(log[t.exec]) \in Nat
      /\ DOMAIN log'[t.exec] = 1 .. (Len(log[t.exec]) + 1)
      /\ log'[t.exec][Len(log[t.exec]) + 1] = "started"
      /\ \A i \in DOMAIN log[t.exec] : log'[t.exec][i] = log[t.exec][i]
  BY <1>0, <1>1, AppendFacts
<1>4. ClosedTurnStaysClosed'
  BY <1>0, <1>1, <1>3 DEF SafetyInvariant, ClosedTurnStaysClosed
<1>5. PublisherWonTheFence'
  BY <1>0, <1>1, <1>2, <1>3 DEF SafetyInvariant, PublisherWonTheFence, Published
<1>6. QED BY <1>2, <1>4, <1>5 DEF SafetyInvariant

(* append_event_if_stdout_owner stores output only while the row is active,
   so before any terminal event. *)
LEMMA AppendOutputSafe ==
    ASSUME TypeOK, SafetyInvariant, NEW t \in tasks, AppendOutputLine(t)
    PROVE  SafetyInvariant'
<1>0. t.exec \in Executions /\ \A u \in tasks : u.exec \in Executions
  BY TaskTypes
<1>1. CASE ~Fenced(t.proc, t.exec)
  <2>1. Quiet
    BY <1>1, NeutralEnd DEF AppendOutputLine, Quiet, sandboxVars
  <2>2. QED BY <2>1, NeutralStep DEF Quiet
<1>2. CASE Fenced(t.proc, t.exec)
  <2>1. /\ UNCHANGED <<status, delivered>> /\ tasks' = Goto(t, "finish")
        /\ log' = [log EXCEPT ![t.exec] = Append(@, "output")]
        /\ status[t.exec] \notin Terminal
    BY <1>2 DEF AppendOutputLine, Fenced, IsActive, Active, Terminal, sandboxVars
  <2>2. \A u \in tasks' : u \in tasks \/ Neutral(u)
    BY <2>1, NeutralGoto
  <2>3. DeliveredAtMostOnce' /\ QueuedIsUndelivered'
    BY <2>1 DEF SafetyInvariant, DeliveredAtMostOnce, QueuedIsUndelivered
  <2>4. DispatchIsExclusive'
    BY <2>1, <2>2 DEF SafetyInvariant, DispatchIsExclusive, InDispatch, Neutral
  <2>5. /\ \A f \in Executions : f # t.exec => log'[f] = log[f]
        /\ DOMAIN log[t.exec] = 1 .. Len(log[t.exec]) /\ Len(log[t.exec]) \in Nat
        /\ DOMAIN log'[t.exec] = 1 .. (Len(log[t.exec]) + 1)
        /\ log'[t.exec][Len(log[t.exec]) + 1] = "output"
        /\ \A i \in DOMAIN log[t.exec] : log'[t.exec][i] = log[t.exec][i]
    BY <1>0, <2>1, AppendFacts
  <2>6. ClosedTurnStaysClosed'
    BY <1>0, <2>1, <2>5 DEF SafetyInvariant, ClosedTurnStaysClosed
  <2>7. PublisherWonTheFence'
    BY <1>0, <2>1, <2>2, <2>5 DEF SafetyInvariant, PublisherWonTheFence, Published, Neutral
  <2>8. QED BY <2>3, <2>4, <2>6, <2>7 DEF SafetyInvariant
<1>3. QED BY <1>1, <1>2

(* write_input_lines is the only delivery, by the only driver in dispatch. *)
LEMMA WriteInputSafe ==
    ASSUME TypeOK, SafetyInvariant, NEW t \in tasks, WriteInput(t)
    PROVE  SafetyInvariant'
<1>0. t.exec \in Executions /\ \A u \in tasks : u.exec \in Executions
  BY TaskTypes
<1>1. CASE UNCHANGED delivered
  <2>1. tasks' = Goto(t, "failing") \/ tasks' = End(t) \cup Armed(t.proc, t.exec)
    BY DEF WriteInput
  <2>2. \A u \in tasks' : u \in tasks \/ Neutral(u)
    BY <2>1, NeutralGoto, NeutralArmed, NeutralEnd
  <2>3. Quiet BY <1>1, <2>2 DEF WriteInput, Quiet, rows
  <2>4. QED BY <2>3, NeutralStep DEF Quiet
<1>2. CASE /\ tasks' = End(t) \cup Armed(t.proc, t.exec)
           /\ delivered' = [delivered EXCEPT ![t.exec] = @ + 1]
  <2>1. /\ UNCHANGED <<status, log>> /\ tasks' = End(t) \cup Armed(t.proc, t.exec)
        /\ delivered' = [delivered EXCEPT ![t.exec] = @ + 1]
        /\ delivered \in [Executions -> Nat]
    BY <1>2 DEF WriteInput, rows, TypeOK
  <2>2. InDispatch(t)
    BY DEF WriteInput, At, InDispatch, AttemptPcs
  <2>3. /\ delivered[t.exec] = 0 /\ status[t.exec] \notin {"absent", "queued"}
        /\ \A u \in tasks : InDispatch(u) /\ u.exec = t.exec => u = t
    BY <2>2 DEF SafetyInvariant, DispatchIsExclusive
  <2>4. \A u \in tasks' : (u \in tasks /\ u # t) \/ Neutral(u)
    BY <2>1, NeutralArmed DEF End
  <2>5. DeliveredAtMostOnce' /\ QueuedIsUndelivered'
    BY <1>0, <2>1, <2>3 DEF SafetyInvariant, DeliveredAtMostOnce, QueuedIsUndelivered
  <2>6. DispatchIsExclusive'
    BY <1>0, <2>1, <2>3, <2>4 DEF SafetyInvariant, DispatchIsExclusive, InDispatch, Neutral
  <2>7. ClosedTurnStaysClosed'
    BY <2>1 DEF SafetyInvariant, ClosedTurnStaysClosed
  <2>8. PublisherWonTheFence'
    BY <2>1, <2>4 DEF SafetyInvariant, PublisherWonTheFence, Published, Neutral
  <2>9. QED BY <2>5, <2>6, <2>7, <2>8 DEF SafetyInvariant
<1>3. QED BY <1>1, <1>2 DEF WriteInput

(* The fenced terminal update has one winner, who publishes next. *)
LEMMA TerminateSafe ==
    ASSUME TypeOK, SafetyInvariant, NEW t \in tasks, NEW outcome \in Terminal,
           Terminate(t, outcome)
    PROVE  SafetyInvariant'
<1>0. t.exec \in Executions /\ \A u \in tasks : u.exec \in Executions
  BY TaskTypes
<1>1. CASE ~Fenced(t.proc, t.exec)
  <2>1. Quiet
    BY <1>1, NeutralEnd DEF Terminate, Quiet, rows, sandboxVars
  <2>2. QED BY <2>1, NeutralStep DEF Quiet
<1>2. CASE Fenced(t.proc, t.exec)
  <2>1. /\ UNCHANGED <<log, delivered>> /\ tasks' = Goto(t, "event")
        /\ status' = [status EXCEPT ![t.exec] = outcome]
        /\ status \in [Executions -> {"absent"} \cup Active \cup Terminal]
        /\ status[t.exec] \notin Terminal
    BY <1>2 DEF Terminate, Fenced, IsActive, Active, Terminal, sandboxVars, TypeOK
  <2>2. \A u \in tasks' : \/ u \in tasks
                          \/ /\ u.pc = "event" /\ u.exec = t.exec
                             /\ u = [t EXCEPT !.pc = "event"]
    BY <2>1, GotoTasks
  <2>3. outcome \notin {"absent", "queued"}
    BY DEF Terminal
  <2>4. DeliveredAtMostOnce' /\ QueuedIsUndelivered'
    BY <1>0, <2>1, <2>3 DEF SafetyInvariant, DeliveredAtMostOnce, QueuedIsUndelivered
  <2>5. DispatchIsExclusive'
    BY <1>0, <2>1, <2>2, <2>3 DEF SafetyInvariant, DispatchIsExclusive, InDispatch, AttemptPcs
  <2>6. ClosedTurnStaysClosed'
    BY <1>0, <2>1 DEF SafetyInvariant, ClosedTurnStaysClosed
  <2>7. /\ ~Published(t.exec)
        /\ \A u \in tasks : u.pc = "event" => u.exec # t.exec
    BY <1>0, <2>1 DEF SafetyInvariant, ClosedTurnStaysClosed, PublisherWonTheFence, Published
  <2>8. PublisherWonTheFence'
    BY <1>0, <2>1, <2>2, <2>7 DEF SafetyInvariant, PublisherWonTheFence, Published
  <2>9. QED BY <2>4, <2>5, <2>6, <2>8 DEF SafetyInvariant
<1>3. QED BY <1>1, <1>2

(* The terminal event is published by the winner alone, so once. *)
LEMMA AppendTerminalSafe ==
    ASSUME TypeOK, SafetyInvariant, NEW t \in tasks, AppendTerminalEvent(t)
    PROVE  SafetyInvariant'
<1>0. t.exec \in Executions /\ \A u \in tasks : u.exec \in Executions
  BY TaskTypes
<1>1. /\ UNCHANGED <<status, delivered>> /\ tasks' = tasks \ {t}
      /\ log' = [log EXCEPT ![t.exec] = Append(@, "terminal")] /\ t.pc = "event"
  BY DEF AppendTerminalEvent, End, rows, sandboxVars
<1>2. /\ \A f \in Executions : f # t.exec => log'[f] = log[f]
      /\ DOMAIN log[t.exec] = 1 .. Len(log[t.exec]) /\ Len(log[t.exec]) \in Nat
      /\ DOMAIN log'[t.exec] = 1 .. (Len(log[t.exec]) + 1)
      /\ log'[t.exec][Len(log[t.exec]) + 1] = "terminal"
      /\ \A i \in DOMAIN log[t.exec] : log'[t.exec][i] = log[t.exec][i]
  BY <1>0, <1>1, AppendFacts
<1>3. /\ status[t.exec] \in Terminal /\ ~Published(t.exec)
      /\ \A u \in tasks : u.pc = "event" /\ u.exec = t.exec => u = t
  BY <1>1 DEF SafetyInvariant, PublisherWonTheFence
<1>4. DeliveredAtMostOnce' /\ QueuedIsUndelivered'
  BY <1>1 DEF SafetyInvariant, DeliveredAtMostOnce, QueuedIsUndelivered
<1>5. DispatchIsExclusive'
  BY <1>1 DEF SafetyInvariant, DispatchIsExclusive, InDispatch
<1>6. ClosedTurnStaysClosed'
  BY <1>0, <1>1, <1>2, <1>3 DEF SafetyInvariant, ClosedTurnStaysClosed, Published
<1>7. PublisherWonTheFence'
  BY <1>0, <1>1, <1>2, <1>3 DEF SafetyInvariant, PublisherWonTheFence, Published
<1>8. QED BY <1>4, <1>5, <1>6, <1>7 DEF SafetyInvariant


(* The steps that are not quiet. *)
DispatchMove(t) == CheckShuttingDown(t) \/ ClaimStdoutOwner(t) \/ EnsureSessionSandbox(t)

Ending(t) ==
    RecordTerminalOutput(t) \/ RecordFailure(t) \/ MaxDurationFires(t) \/ AdoptRecorded(t)

(* Every step is quiet, or one of the nine kinds treated above. *)
LEMMA NextCases ==
    ASSUME Next
    PROVE  \/ \E p \in Procs, e \in Executions : Enqueue(p, e) \/ QuietPair(p, e)
           \/ \E t \in tasks : \/ DispatchMove(t) \/ Ending(t) \/ QuietTask(t)
                               \/ MarkRunning(t) \/ Requeue(t) \/ AppendStarted(t)
                               \/ WriteInput(t) \/ AppendOutputLine(t)
                               \/ AppendTerminalEvent(t)
           \/ \E p \in Procs : QuietProcess(p)
           \/ \E e \in Executions : QuietExecution(e)
           \/ SandboxGoesDown
BY DEF Next, TaskStep, AttemptStep, FinishStep, PumpStep, ScanStep, FaultStep,
       DispatchMove, Ending, QuietTask, QuietPair, QuietProcess, QuietExecution

(* A dispatch move stays in dispatch or gives up. *)
LEMMA DispatchMoveIs ==
    ASSUME TypeOK, NEW t \in tasks, DispatchMove(t)
    PROVE  /\ UNCHANGED <<status, log, delivered>>
           /\ \/ Quiet
              \/ /\ InDispatch(t)
                 /\ \E pc \in AttemptPcs \ {"spawned"} : tasks' \subseteq Goto(t, pc)
<1>1. CASE CheckShuttingDown(t)
  BY <1>1 DEF CheckShuttingDown, At, InDispatch, AttemptPcs, rows, sandboxVars
<1>2. CASE ClaimStdoutOwner(t)
  <2>1. CASE Claimable(t.proc, t.exec)
    BY <1>2, <2>1 DEF ClaimStdoutOwner, At, InDispatch, AttemptPcs, sandboxVars
  <2>2. CASE ~Claimable(t.proc, t.exec)
    BY <1>2, <2>2, NeutralGoto DEF ClaimStdoutOwner, Quiet, sandboxVars
  <2>3. QED BY <2>1, <2>2
<1>3. CASE EnsureSessionSandbox(t)
  BY <1>3 DEF EnsureSessionSandbox, At, InDispatch, AttemptPcs, rows
<1>4. QED BY <1>1, <1>2, <1>3 DEF DispatchMove

(* Every way to end an execution goes through the same fenced update. *)
LEMMA EndingIs ==
    ASSUME NEW t \in tasks, Ending(t)
    PROVE  \E outcome \in Terminal : Terminate(t, outcome)
BY ConstantsAssumption
   DEF Ending, RecordTerminalOutput, RecordFailure, MaxDurationFires, AdoptRecorded, Terminal

(* SafetyInvariant is preserved by every step. *)
LEMMA NextSafe == ASSUME TypeOK, SafetyInvariant, Next PROVE SafetyInvariant'
<1>1. ASSUME NEW p \in Procs, NEW e \in Executions, Enqueue(p, e) PROVE SafetyInvariant'
  BY <1>1, EnqueueSafe
<1>2. ASSUME Quiet PROVE SafetyInvariant'
  BY <1>2, NeutralStep DEF Quiet
<1>3. ASSUME NEW t \in tasks, DispatchMove(t) PROVE SafetyInvariant'
  <2>1. CASE Quiet
    BY <2>1, <1>2
  <2>2. CASE InDispatch(t) /\ \E pc \in AttemptPcs \ {"spawned"} : tasks' \subseteq Goto(t, pc)
    BY <1>3, <2>2, DispatchMoveIs, DispatchStepSafe
  <2>3. QED BY <1>3, <2>1, <2>2, DispatchMoveIs
<1>4. ASSUME NEW t \in tasks, Ending(t) PROVE SafetyInvariant'
  BY <1>4, EndingIs, TerminateSafe
<1>5. ASSUME NEW t \in tasks,
             \/ MarkRunning(t) \/ Requeue(t) \/ AppendStarted(t)
             \/ WriteInput(t) \/ AppendOutputLine(t) \/ AppendTerminalEvent(t)
      PROVE  SafetyInvariant'
  BY <1>5, MarkRunningSafe, RequeueSafe, AppendStartedSafe, WriteInputSafe,
     AppendOutputSafe, AppendTerminalSafe
<1>6. QED
  BY <1>1, <1>2, <1>3, <1>4, <1>5, NextCases, QuietPairStep, QuietTaskStep,
     QuietProcessStep, QuietExecutionStep, SandboxDownStep

(* SafetyInvariant holds of the empty store. *)
LEMMA InitSafe == ASSUME Init PROVE SafetyInvariant
BY DEF Init, SafetyInvariant, DeliveredAtMostOnce, DispatchIsExclusive,
       QueuedIsUndelivered, ClosedTurnStaysClosed, PublisherWonTheFence

(* The inductive invariant holds throughout: a driver past mark_execution_running
   is alone with an undelivered execution, and whoever publishes an end won the
   fenced update. *)
THEOREM Safety == Spec => []SafetyInvariant
<1>1. Init => SafetyInvariant
  BY InitSafe
<1>2. TypeOK /\ SafetyInvariant /\ [Next]_vars => SafetyInvariant'
  <2>1. ASSUME SafetyInvariant, UNCHANGED vars PROVE SafetyInvariant'
    <3>1. UNCHANGED <<status, log, delivered, tasks>>
      BY <2>1 DEF vars
    <3>2. QED BY <2>1, <3>1, NeutralStep
  <2>2. QED BY <2>1, NextSafe
<1>3. QED BY <1>1, <1>2, TypeCorrect, PTL DEF Spec

(* However many processes, retries, scans, requeues and crashes race for an
   execution, its input reaches a sandbox at most once. *)
THEOREM AtMostOneDelivery == Spec => []DeliveredAtMostOnce
<1>1. SafetyInvariant => DeliveredAtMostOnce
  BY DEF SafetyInvariant
<1>2. QED BY <1>1, Safety, PTL

(* An execution publishes at most one terminal event, only when its row is
   terminal, and no output is stored after it. *)
THEOREM NothingAfterTheEnd == Spec => []ClosedTurnStaysClosed
<1>1. SafetyInvariant => ClosedTurnStaysClosed
  BY DEF SafetyInvariant
<1>2. QED BY <1>1, Safety, PTL


(* Every step of the control plane is a step of the contract or invisible to
   its clients. *)
LEMMA NextContract ==
    ASSUME TypeOK, SafetyInvariant, Next
    PROVE  Contract!ContractNext \/ UNCHANGED <<status, delivered, log>>
<1> DEFINE Same == UNCHANGED <<status, delivered, log>>
<1>0. \A t \in tasks : t.exec \in Executions
  BY TaskTypes
<1>1. ASSUME NEW p \in Procs, NEW e \in Executions, Enqueue(p, e)
      PROVE  Contract!ContractNext
  <2>1. \A f \in Executions : status[f] \notin {"queued", "running"}
    BY <1>1 DEF Enqueue, ActiveExecutions, IsActive, Active
  <2>2. Contract!Accept(e)
    BY <1>1, <2>1 DEF Contract!Accept, Contract!Moves, Contract!ActivePhases, Enqueue, sandboxVars
  <2>3. QED BY <2>2 DEF Contract!ContractNext
<1>2. ASSUME Quiet PROVE Same
  BY <1>2 DEF Quiet
<1>3. ASSUME NEW t \in tasks, DispatchMove(t) PROVE Same
  BY <1>3, DispatchMoveIs
<1>4. ASSUME NEW t \in tasks, Ending(t) PROVE Contract!ContractNext \/ Same
  <2>1. PICK outcome \in Terminal : Terminate(t, outcome)
    BY <1>4, EndingIs
  <2>2. CASE ~Fenced(t.proc, t.exec)
    BY <2>1, <2>2 DEF Terminate, rows, sandboxVars
  <2>3. CASE Fenced(t.proc, t.exec)
    <3>1. Contract!Finish(t.exec)
      BY <2>1, <2>3 DEF Contract!Finish, Contract!Moves, Contract!ActivePhases,
                        Contract!EndPhases, Terminate, Fenced, IsActive, Active,
                        Terminal, sandboxVars
    <3>2. QED BY <1>0, <3>1 DEF Contract!ContractNext
  <2>4. QED BY <2>2, <2>3
<1>5. ASSUME NEW t \in tasks, MarkRunning(t) PROVE Contract!ContractNext \/ Same
  <2>1. Contract!Begin(t.exec) \/ Same
    BY <1>5 DEF Contract!Begin, Contract!Moves, MarkRunning, sandboxVars
  <2>2. QED BY <1>0, <2>1 DEF Contract!ContractNext
<1>6. ASSUME NEW t \in tasks, Requeue(t) PROVE Contract!ContractNext \/ Same
  <2>1. delivered[t.exec] = 0
    BY <1>6 DEF Requeue, At, InDispatch, AttemptPcs, SafetyInvariant, DispatchIsExclusive
  <2>2. Contract!PutBack(t.exec) \/ Same
    BY <1>6, <2>1 DEF Contract!PutBack, Contract!Moves, Requeue
  <2>3. QED BY <1>0, <2>2 DEF Contract!ContractNext
<1>7. ASSUME NEW t \in tasks, AppendStarted(t) PROVE Contract!ContractNext
  <2>1. status[t.exec] \notin {"absent", "queued"}
    BY <1>7 DEF AppendStarted, At, InDispatch, AttemptPcs, SafetyInvariant, DispatchIsExclusive
  <2>2. Contract!StoreStarted(t.exec)
    BY <1>7, <2>1 DEF Contract!StoreStarted, Contract!Store, AppendStarted, rows, sandboxVars
  <2>3. QED BY <1>0, <2>2 DEF Contract!ContractNext
<1>8. ASSUME NEW t \in tasks, WriteInput(t) PROVE Contract!ContractNext \/ Same
  <2>1. status[t.exec] \notin {"absent", "queued"} /\ delivered[t.exec] = 0
    BY <1>8 DEF WriteInput, At, InDispatch, AttemptPcs, SafetyInvariant, DispatchIsExclusive
  <2>2. CASE delivered' = [delivered EXCEPT ![t.exec] = @ + 1]
    <3>1. delivered' = [delivered EXCEPT ![t.exec] = 1]
      BY <2>1, <2>2
    <3>2. Contract!Send(t.exec)
      BY <1>8, <2>1, <3>1 DEF Contract!Send, WriteInput, rows
    <3>3. QED BY <1>0, <3>2 DEF Contract!ContractNext
  <2>3. CASE UNCHANGED delivered
    BY <1>8, <2>3 DEF WriteInput, rows
  <2>4. QED BY <1>8, <2>2, <2>3 DEF WriteInput
<1>9. ASSUME NEW t \in tasks, AppendOutputLine(t) PROVE Contract!ContractNext \/ Same
  <2>1. Contract!StoreOutput(t.exec) \/ Same
    BY <1>9 DEF Contract!StoreOutput, Contract!Store, Contract!ActivePhases,
                AppendOutputLine, Fenced, IsActive, Active, sandboxVars
  <2>2. QED BY <1>0, <2>1 DEF Contract!ContractNext
<1>10. ASSUME NEW t \in tasks, AppendTerminalEvent(t) PROVE Contract!ContractNext
  <2>1. status[t.exec] \in Terminal /\ ~Published(t.exec)
    BY <1>10 DEF AppendTerminalEvent, SafetyInvariant, PublisherWonTheFence
  <2>2. Contract!Announce(t.exec)
    BY <1>10, <2>1 DEF Contract!Announce, Contract!Store, Contract!EndPhases, Terminal,
                       Published, AppendTerminalEvent, rows, sandboxVars
  <2>3. QED BY <1>0, <2>2 DEF Contract!ContractNext
<1>11. QED
  BY <1>1, <1>2, <1>3, <1>4, <1>5, <1>6, <1>7, <1>8, <1>9, <1>10, NextCases,
     QuietPairStep, QuietTaskStep, QuietProcessStep, QuietExecutionStep, SandboxDownStep

(* The control plane implements the contract its clients rely on: the status,
   delivery and event log of each execution move only as ExecutionContract
   allows. *)
THEOREM Refinement == Spec => ImplementsContract
<1>1. Init => Contract!ContractInit
  BY DEF Init, Contract!ContractInit
<1>2. TypeOK /\ SafetyInvariant /\ [Next]_vars
        => [Contract!ContractNext]_(Contract!contractVars)
  <2>1. ASSUME UNCHANGED vars PROVE UNCHANGED Contract!contractVars
    BY <2>1 DEF vars, Contract!contractVars
  <2>2. QED BY <2>1, NextContract DEF Contract!contractVars
<1>3. QED
  BY <1>1, <1>2, TypeCorrect, Safety, PTL
  DEF Spec, ImplementsContract, Contract!ContractSpec
-----------------------------------------------------------------------------
(* Turns with a time limit are driven: the invariant is that every turn a live
   process owns has a dispatch, an adoption or an armed timer of that process,
   each of which ends it or hands it to the next. *)

Drives(t) ==
    \/ t.kind = "attempt" /\ t.pc \in {"claimed", "started", "provisioned", "failing"}
    \/ t.kind = "scan" /\ t.pc \in {"adopted", "failing"}
    \/ t.kind = "timer" /\ t.pc = "armed"

Driver(t, p, e) == t.proc = p /\ t.exec = e /\ Drives(t)

Holds(p, e) == Fenced(p, e) /\ Alive(p)

AbsentIsUnowned == \A e \in Executions : status[e] = "absent" => owner[e] = None

OwnersDrive ==
    /\ AbsentIsUnowned
    /\ \A p \in Procs, e \in Executions :
            Holds(p, e) => \E t \in tasks : Driver(t, p, e)

(* A step at which nobody gains a turn, and no driver of a turn that stays
   owned ends, preserves the invariant. *)
Keeps ==
    /\ \A e \in Executions : owner'[e] # owner[e] => owner'[e] = None
    /\ \A e \in Executions : status'[e] = "absent" => status[e] = "absent"
    /\ \A p \in Procs, e \in Executions : Holds(p, e)' => Holds(p, e)
    /\ \A u \in tasks : Drives(u) /\ Holds(u.proc, u.exec)' => u \in tasks'

(* Such a step leaves every turn with the driver it had. *)
LEMMA KeepsDrives == ASSUME TypeOK, OwnersDrive, Keeps PROVE OwnersDrive'
<1>1. AbsentIsUnowned'
  BY DEF OwnersDrive, AbsentIsUnowned, Keeps
<1>2. ASSUME NEW p \in Procs, NEW e \in Executions, Holds(p, e)'
      PROVE  \E t \in tasks' : Driver(t, p, e)
  <2>1. Holds(p, e)
    BY <1>2 DEF Keeps
  <2>2. PICK t \in tasks : Driver(t, p, e)
    BY <2>1 DEF OwnersDrive
  <2>3. t \in tasks'
    BY <1>2, <2>2 DEF Keeps, Driver
  <2>4. QED BY <2>2, <2>3
<1>3. QED BY <1>1, <1>2 DEF OwnersDrive, Driver, Drives
(* A task that drives its turn hands it to its successor: itself at its next
   statement, or the timer it arms.  Only its own process may gain the turn. *)
LEMMA PassesOn ==
    ASSUME TypeOK, OwnersDrive, NEW t \in tasks, UNCHANGED <<status, proc>>,
           \A e \in Executions : e # t.exec => owner'[e] = owner[e],
           UNCHANGED owner \/ (owner'[t.exec] = t.proc /\ IsActive(t.exec)),
           \A v \in tasks : Drives(v) /\ v # t => v \in tasks',
           \E u \in tasks' : Driver(u, t.proc, t.exec)
    PROVE  OwnersDrive'
<1>0. t.proc \in Procs /\ t.exec \in Executions
  BY TaskTypes
<1>1. AbsentIsUnowned'
  BY DEF OwnersDrive, AbsentIsUnowned, IsActive, Active
<1>2. ASSUME NEW p \in Procs, NEW e \in Executions, Holds(p, e)'
      PROVE  \E u \in tasks' : Driver(u, p, e)
  <2>1. CASE p = t.proc /\ e = t.exec
    BY <2>1
  <2>2. CASE ~(p = t.proc /\ e = t.exec)
    <3>1. Holds(p, e)
      BY <1>2, <2>2 DEF Holds, Fenced, IsActive, Alive
    <3>2. PICK v \in tasks : Driver(v, p, e)
      BY <3>1 DEF OwnersDrive
    <3>3. v # t
      BY <2>2, <3>2 DEF Driver
    <3>4. QED BY <3>2, <3>3 DEF Driver
  <2>3. QED BY <2>1, <2>2
<1>3. QED BY <1>1, <1>2 DEF OwnersDrive, Driver, Drives

(* The task t moves on to pc. *)
LEMMA GotoDrives ==
    ASSUME TypeOK, NEW t \in tasks, NEW pc, tasks' = Goto(t, pc),
           Drives([t EXCEPT !.pc = pc])
    PROVE  /\ \A v \in tasks : Drives(v) /\ v # t => v \in tasks'
           /\ \E u \in tasks' : Driver(u, t.proc, t.exec)
<1>1. t \in Tasks
  BY DEF TypeOK
<1>2. [t EXCEPT !.pc = pc].proc = t.proc /\ [t EXCEPT !.pc = pc].exec = t.exec
  BY <1>1 DEF Tasks
<1>3. [t EXCEPT !.pc = pc] \in tasks'
  BY DEF Goto
<1>4. QED BY <1>2, <1>3 DEF Driver, Goto

(* What the moves of a dispatch and of a scan lead to drives the turn. *)
LEMMA NextPcDrives ==
    ASSUME TypeOK, NEW t \in tasks, NEW pc,
           \/ t.kind = "attempt" /\ pc \in {"claimed", "started", "provisioned", "failing"}
           \/ t.kind = "scan" /\ pc \in {"adopted", "failing"}
    PROVE  Drives([t EXCEPT !.pc = pc])
<1>1. t \in Tasks
  BY DEF TypeOK
<1>2. [t EXCEPT !.pc = pc].kind = t.kind /\ [t EXCEPT !.pc = pc].pc = pc
  BY <1>1 DEF Tasks
<1>3. QED BY <1>2 DEF Drives

(* A turn with a limit is handed to its timer. *)
LEMMA TimerDrives ==
    ASSUME MaxDuration, NEW t \in tasks,
           tasks' = End(t) \cup Armed(t.proc, t.exec)
    PROVE  /\ \A v \in tasks : Drives(v) /\ v # t => v \in tasks'
           /\ \E u \in tasks' : Driver(u, t.proc, t.exec)
<1>1. Task(t.proc, t.exec, "timer", "armed") \in tasks'
  BY DEF Armed
<1>2. Driver(Task(t.proc, t.exec, "timer", "armed"), t.proc, t.exec)
  BY DEF Driver, Drives, Task
<1>3. QED BY <1>1, <1>2 DEF End
(* Nothing but the tasks changes hands and no driver ends: the step keeps the
   invariant. *)
LEMMA SameHands ==
    ASSUME UNCHANGED <<status, owner, proc>>,
           \A u \in tasks : Drives(u) => u \in tasks'
    PROVE  Keeps
BY DEF Keeps, Holds, Fenced, IsActive, Alive

(* The steps of a dispatch. *)
LEMMA AttemptDrives ==
    ASSUME TypeOK, OwnersDrive, MaxDuration, NEW t \in tasks,
           AttemptStep(t) \/ ProvisionError(t)
    PROVE  OwnersDrive'
<1>0. t.proc \in Procs /\ t.exec \in Executions /\ None \notin Procs
  BY TaskTypes, ConstantsAssumption
<1>1. CASE MarkRunning(t)
  <2>1. Keeps
    <3>1. ~Drives(t) /\ UNCHANGED <<owner, proc>>
      BY <1>1 DEF MarkRunning, At, Drives
    <3>2. \A u \in tasks : Drives(u) => u \in tasks'
      BY <1>1, <3>1 DEF MarkRunning, Goto, End
    <3>3. \A e \in Executions : status'[e] = "absent" => status[e] = "absent"
      BY <1>1 DEF MarkRunning, TypeOK
    <3>4. \A e \in Executions : IsActive(e)' => IsActive(e)
      BY <1>1 DEF MarkRunning, TypeOK, IsActive, Active
    <3>5. QED BY <3>1, <3>2, <3>3, <3>4 DEF Keeps, Holds, Fenced, Alive
  <2>2. QED BY <2>1, KeepsDrives
<1>2. CASE CheckShuttingDown(t)
  <2>1. ~Drives(t) /\ UNCHANGED <<status, owner, proc>>
    BY <1>2 DEF CheckShuttingDown, At, Drives, rows
  <2>2. \A u \in tasks : Drives(u) => u \in tasks'
    BY <1>2, <2>1 DEF CheckShuttingDown, Goto
  <2>3. QED BY <2>1, <2>2, SameHands, KeepsDrives
<1>3. CASE ClaimStdoutOwner(t)
  <2>1. /\ t.kind = "attempt" /\ UNCHANGED <<status, proc>>
        /\ tasks' = Goto(t, IF Claimable(t.proc, t.exec) THEN "claimed" ELSE "failing")
        /\ UNCHANGED owner \/ (IsActive(t.exec) /\ owner' = [owner EXCEPT ![t.exec] = t.proc])
    BY <1>3 DEF ClaimStdoutOwner, At, Claimable
  <2>2. QED BY <1>0, <2>1, GotoDrives, NextPcDrives, PassesOn DEF TypeOK
<1>4. CASE Requeue(t)
  <2>1. Keeps
    <3>1. ~Drives(t) /\ UNCHANGED <<owner, proc>>
      BY <1>4 DEF Requeue, At, Drives
    <3>2. \A u \in tasks : Drives(u) => u \in tasks'
      BY <1>4, <3>1 DEF Requeue, Goto, End
    <3>3. \A e \in Executions : status'[e] = "absent" => status[e] = "absent"
      BY <1>4 DEF Requeue, TypeOK
    <3>4. \A e \in Executions : IsActive(e)' => IsActive(e)
      BY <1>4 DEF Requeue, TypeOK, IsActive, Active
    <3>5. QED BY <3>1, <3>2, <3>3, <3>4 DEF Keeps, Holds, Fenced, Alive
  <2>2. QED BY <2>1, KeepsDrives
<1>5. CASE AppendStarted(t)
  <2>1. t.kind = "attempt" /\ UNCHANGED <<status, owner, proc>> /\ tasks' = Goto(t, "started")
    BY <1>5 DEF AppendStarted, At, rows
  <2>2. QED BY <2>1, GotoDrives, NextPcDrives, PassesOn
<1>6. CASE EnsureSessionSandbox(t)
  <2> DEFINE next == [t EXCEPT !.pc = "provisioned"]
  <2>1. /\ t.kind = "attempt" /\ UNCHANGED <<status, owner, proc>>
        /\ tasks' = Goto(t, "provisioned") \/ tasks' = Goto(t, "provisioned") \ Superseded(t.proc)
    BY <1>6 DEF EnsureSessionSandbox, At, rows
  <2>2. t \in Tasks /\ Drives(next)
    BY <2>1, NextPcDrives DEF TypeOK
  <2>3. next.kind = "attempt" /\ next.proc = t.proc /\ next.exec = t.exec
    BY <2>1, <2>2 DEF Tasks
  <2>4. next \in tasks'
    BY <2>1, <2>3 DEF Goto, Superseded
  <2>5. \A v \in tasks : Drives(v) /\ v # t => v \in tasks'
    BY <2>1 DEF Goto, Superseded, Drives
  <2>6. \E u \in tasks' : Driver(u, t.proc, t.exec)
    BY <2>2, <2>3, <2>4 DEF Driver
  <2>7. QED BY <2>1, <2>5, <2>6, PassesOn
<1>7. CASE WriteInput(t)
  <2>1. /\ t.kind = "attempt" /\ UNCHANGED <<status, owner, proc>>
        /\ \/ tasks' = End(t) \cup Armed(t.proc, t.exec)
           \/ tasks' = Goto(t, "failing")
    BY <1>7 DEF WriteInput, At, rows
  <2>2. QED BY <2>1, GotoDrives, NextPcDrives, TimerDrives, PassesOn
<1>8. CASE ProvisionError(t)
  <2>1. t.kind = "attempt" /\ UNCHANGED <<status, owner, proc>> /\ tasks' = Goto(t, "failing")
    BY <1>8 DEF ProvisionError, At, rows
  <2>2. QED BY <2>1, GotoDrives, NextPcDrives, PassesOn
<1>9. QED BY <1>1, <1>2, <1>3, <1>4, <1>5, <1>6, <1>7, <1>8 DEF AttemptStep
(* Whoever ends a turn by the fenced update leaves it unowned; a refused fence
   says the task drove a turn that is not its process's any more. *)
LEMMA TerminateDrives ==
    ASSUME TypeOK, OwnersDrive, NEW t \in tasks, NEW outcome \in Terminal,
           Terminate(t, outcome)
    PROVE  OwnersDrive'
<1>0. t.proc \in Procs /\ t.exec \in Executions /\ None \notin Procs
  BY TaskTypes, ConstantsAssumption
<1>1. UNCHANGED proc /\ \A u \in tasks : u # t => u \in tasks'
  BY DEF Terminate, Goto, End
<1>2. CASE Fenced(t.proc, t.exec)
  <2>1. /\ status' = [status EXCEPT ![t.exec] = outcome]
        /\ owner' = [owner EXCEPT ![t.exec] = None]
    BY <1>2 DEF Terminate
  <2>2. \A e \in Executions : e # t.exec => owner'[e] = owner[e] /\ status'[e] = status[e]
    BY <2>1 DEF TypeOK
  <2>3. owner'[t.exec] = None /\ status'[t.exec] = outcome
    BY <1>0, <2>1 DEF TypeOK
  <2>4. Keeps
    <3>1. \A p \in Procs : ~Holds(p, t.exec)'
      BY <1>0, <2>3 DEF Holds, Fenced
    <3>2. \A p \in Procs, e \in Executions : Holds(p, e)' => Holds(p, e)
      BY <1>1, <2>2, <3>1 DEF Holds, Fenced, IsActive, Alive
    <3>3. \A u \in tasks : Drives(u) /\ Holds(u.proc, u.exec)' => u \in tasks'
      BY <1>0, <1>1, <3>1
    <3>4. QED BY <2>2, <2>3, <3>2, <3>3 DEF Keeps, Terminal
  <2>5. QED BY <2>4, KeepsDrives
<1>3. CASE ~Fenced(t.proc, t.exec)
  <2>1. UNCHANGED <<status, owner>>
    BY <1>3 DEF Terminate, rows
  <2>2. ~Holds(t.proc, t.exec)'
    BY <1>3, <2>1 DEF Holds, Fenced, IsActive
  <2>3. Keeps
    BY <1>1, <2>1, <2>2 DEF Keeps, Holds, Fenced, IsActive, Alive
  <2>4. QED BY <2>3, KeepsDrives
<1>4. QED BY <1>2, <1>3

(* The steps of the adoption scan that do not end the turn. *)
LEMMA ScanDrives ==
    ASSUME TypeOK, OwnersDrive, MaxDuration, NEW t \in tasks,
           \/ FailOrphaned(t) \/ ClaimExpiredStdoutOwner(t)
           \/ AdoptLive(t) \/ AdoptAttachFails(t)
    PROVE  OwnersDrive'
<1>0. t.proc \in Procs /\ t.exec \in Executions /\ None \notin Procs
  BY TaskTypes, ConstantsAssumption
<1>1. CASE FailOrphaned(t)
  <2>1. /\ t.kind = "scan" /\ UNCHANGED <<status, proc>> /\ tasks' = Goto(t, "failing")
        /\ UNCHANGED owner \/ (IsActive(t.exec) /\ owner' = [owner EXCEPT ![t.exec] = t.proc])
    BY <1>1 DEF FailOrphaned, At, Claimable
  <2>2. QED BY <1>0, <2>1, GotoDrives, NextPcDrives, PassesOn DEF TypeOK
<1>2. CASE ClaimExpiredStdoutOwner(t)
  <2>1. CASE IsActive(t.exec) /\ (owner[t.exec] = None \/ ~lease[t.exec])
    <3>1. /\ t.kind = "scan" /\ UNCHANGED <<status, proc>> /\ tasks' = Goto(t, "adopted")
          /\ owner' = [owner EXCEPT ![t.exec] = t.proc]
      BY <1>2, <2>1 DEF ClaimExpiredStdoutOwner, At
    <3>2. QED BY <1>0, <2>1, <3>1, GotoDrives, NextPcDrives, PassesOn DEF TypeOK
  <2>2. CASE ~(IsActive(t.exec) /\ (owner[t.exec] = None \/ ~lease[t.exec]))
    <3>1. ~Drives(t) /\ UNCHANGED <<status, owner, proc>> /\ tasks' = End(t)
      BY <1>2, <2>2 DEF ClaimExpiredStdoutOwner, At, Drives
    <3>2. QED BY <3>1, SameHands, KeepsDrives DEF End
  <2>3. QED BY <2>1, <2>2
<1>3. CASE AdoptLive(t)
  <2>1. UNCHANGED <<status, owner, proc>> /\ tasks' = End(t) \cup Armed(t.proc, t.exec)
    BY <1>3 DEF AdoptLive, rows
  <2>2. QED BY <2>1, TimerDrives, PassesOn
<1>4. CASE AdoptAttachFails(t)
  <2>1. UNCHANGED <<status, proc>> /\ \A u \in tasks : u # t => u \in tasks'
    BY <1>4 DEF AdoptAttachFails, End
  <2>2. /\ \A e \in Executions : owner'[e] = owner[e] \/ owner'[e] = None
        /\ owner'[t.exec] # t.proc
    BY <1>0, <1>4 DEF AdoptAttachFails, TypeOK
  <2>3. ~Holds(t.proc, t.exec)'
    BY <2>2 DEF Holds, Fenced
  <2>4. Keeps
    BY <1>0, <2>1, <2>2, <2>3 DEF Keeps, Holds, Fenced, IsActive, Alive
  <2>5. QED BY <2>4, KeepsDrives
<1>5. QED BY <1>1, <1>2, <1>3, <1>4

(* Pumps drive nothing in this account, so what they do and lose is theirs. *)
LEMMA PumpDrives ==
    ASSUME TypeOK, OwnersDrive, NEW t \in tasks,
           AppendOutputLine(t) \/ PumpDetached(t) \/ AppendTerminalEvent(t)
    PROVE  OwnersDrive'
<1>1. ~Drives(t)
  BY DEF AppendOutputLine, PumpDetached, AppendTerminalEvent, At, Drives
<1>2. UNCHANGED <<status, owner, proc>>
  BY DEF AppendOutputLine, PumpDetached, AppendTerminalEvent, rows
<1>3. \A u \in tasks : u # t => u \in tasks'
  BY DEF AppendOutputLine, PumpDetached, AppendTerminalEvent, Goto, End
<1>4. QED BY <1>1, <1>2, <1>3, SameHands, KeepsDrives

(* Requests, renewals and the choices of the scan: a new row is unowned. *)
LEMMA PairDrives ==
    ASSUME TypeOK, OwnersDrive, NEW p \in Procs, NEW e \in Executions,
           Enqueue(p, e) \/ QuietPair(p, e)
    PROVE  OwnersDrive'
<1>1. UNCHANGED <<owner, proc>> /\ \A u \in tasks : u \in tasks'
  BY DEF Enqueue, QuietPair, EnqueueAgain, Renew, RenewError, ScanReplaysQueued,
         ScanCannotReadQueued, ScanTakesRunning, rows
<1>2. CASE Enqueue(p, e)
  <2>1. /\ \A f \in Executions : f # e => status'[f] = status[f]
        /\ status[e] = "absent" /\ status'[e] = "queued"
    BY <1>2 DEF Enqueue, TypeOK
  <2>2. owner[e] = None /\ None \notin Procs
    BY <2>1, ConstantsAssumption DEF OwnersDrive, AbsentIsUnowned
  <2>3. Keeps
    BY <1>1, <2>1, <2>2 DEF Keeps, Holds, Fenced, IsActive, Alive
  <2>4. QED BY <2>3, KeepsDrives
<1>3. CASE QuietPair(p, e)
  <2>1. UNCHANGED status
    BY <1>3, QuietPairStep DEF Quiet
  <2>2. QED BY <1>1, <2>1, SameHands, KeepsDrives
<1>4. QED BY <1>2, <1>3

(* A handoff gives up what the process owns; a stopped process holds nothing. *)
LEMMA ProcessDrives ==
    ASSUME TypeOK, OwnersDrive, NEW p \in Procs, QuietProcess(p)
    PROVE  OwnersDrive'
<1>0. UNCHANGED status /\ None \notin Procs
  BY QuietProcessStep, ConstantsAssumption DEF Quiet
<1>1. CASE \/ AttachStream(p) \/ PumpLine(p) \/ PumpEof(p)
           \/ AttachBreaks(p) \/ StreamReadError(p)
  <2>1. UNCHANGED <<owner, proc>> /\ \A u \in tasks : u \in tasks'
    BY <1>1 DEF AttachStream, PumpLine, PumpEof, AttachBreaks, StreamReadError, rows
  <2>2. QED BY <1>0, <2>1, SameHands, KeepsDrives
<1>2. CASE StartShutdown(p) \/ HandOff(p)
  <2>1. UNCHANGED tasks /\ \A q \in Procs : Alive(q)' => Alive(q)
    BY <1>2 DEF StartShutdown, HandOff, Alive, TypeOK
  <2>2. \A e \in Executions : owner'[e] = owner[e] \/ owner'[e] = None
    BY <1>2 DEF StartShutdown, HandOff, rows
  <2>3. Keeps
    BY <1>0, <2>1, <2>2 DEF Keeps, Holds, Fenced, IsActive
  <2>4. QED BY <2>3, KeepsDrives
<1>3. CASE Exit(p) \/ Crash(p)
  <2>1. /\ UNCHANGED owner /\ proc' = [proc EXCEPT ![p] = "down"]
        /\ \A u \in tasks : u.proc # p => u \in tasks'
    BY <1>3 DEF Exit, Crash, Stop, rows
  <2>2. ~Alive(p)' /\ \A q \in Procs : q # p => Alive(q)' = Alive(q)
    BY <2>1 DEF Alive, TypeOK
  <2>3. Keeps
    BY <1>0, <2>1, <2>2 DEF Keeps, Holds, Fenced, IsActive
  <2>4. QED BY <2>3, KeepsDrives
<1>4. QED BY <1>1, <1>2, <1>3 DEF QuietProcess

(* Leases and the sandbox change no hands. *)
LEMMA OtherDrives ==
    ASSUME TypeOK, OwnersDrive,
           SandboxGoesDown \/ \E e \in Executions : QuietExecution(e)
    PROVE  OwnersDrive'
<1>1. UNCHANGED <<status, owner, proc, tasks>>
  BY DEF SandboxGoesDown, QuietExecution, LeaseRunsOut, LeaseLapsesInStall,
         SandboxFinishesTurn, rows
<1>2. QED BY <1>1, SameHands, KeepsDrives

(* Every turn that a live process owns has a dispatch, an adoption or an armed
   timer of that process, when turns have a limit (max_duration_ms) and the
   store answers: an abandoned dispatch, adoption or timer would leave its turn
   to a renewer alone. *)
THEOREM OwnersDriveTheirTurns ==
    ASSUME MaxDuration, "store" \notin Faults
    PROVE  Spec => []OwnersDrive
<1>1. Init => OwnersDrive
  BY ConstantsAssumption
  DEF Init, OwnersDrive, AbsentIsUnowned, Holds, Fenced, IsActive, Active
<1>2. ASSUME TypeOK, OwnersDrive, Next PROVE OwnersDrive'
  <2>1. ASSUME NEW t \in tasks, Ending(t) PROVE OwnersDrive'
    BY <1>2, <2>1, EndingIs, TerminateDrives
  <2>2. ASSUME NEW t \in tasks, QuietTask(t) PROVE OwnersDrive'
    <3>1. ~StoreError(t)
      BY DEF StoreError, Fault
    <3>2. QED BY <1>2, <2>2, <3>1, AttemptDrives, ScanDrives, PumpDrives DEF QuietTask
  <2>3. ASSUME NEW t \in tasks,
               \/ DispatchMove(t) \/ MarkRunning(t) \/ Requeue(t) \/ AppendStarted(t)
               \/ WriteInput(t)
        PROVE  OwnersDrive'
    BY <1>2, <2>3, AttemptDrives DEF DispatchMove, AttemptStep
  <2>4. ASSUME NEW t \in tasks, AppendOutputLine(t) \/ AppendTerminalEvent(t)
        PROVE  OwnersDrive'
    BY <1>2, <2>4, PumpDrives
  <2>5. QED
    BY <1>2, <2>1, <2>2, <2>3, <2>4, NextCases, PairDrives, ProcessDrives, OtherDrives
<1>3. ASSUME TypeOK, OwnersDrive, UNCHANGED vars PROVE OwnersDrive'
  BY <1>3, SameHands, KeepsDrives DEF vars
<1>4. QED BY <1>1, <1>2, <1>3, TypeCorrect, PTL DEF Spec

(* While a live process holds and renews the lease of a turn with a limit, some
   activity of that process can still end the turn: nobody is kept away from
   one that nothing drives. *)
THEOREM LimitedTurnsAreDriven ==
    ASSUME MaxDuration, "store" \notin Faults
    PROVE  Spec => []OwnedTurnIsDriven
<1>1. OwnersDrive => OwnedTurnIsDriven
  BY DEF OwnersDrive, OwnedTurnIsDriven, Holds, Driver
<1>2. QED BY <1>1, OwnersDriveTheirTurns, PTL
=============================================================================
