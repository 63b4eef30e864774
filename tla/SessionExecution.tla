-------------------------- MODULE SessionExecution --------------------------
(***************************************************************************)
(* The life of the executions (turns) of one session thread, as driven by  *)
(* the control-plane processes that share the Postgres session store:      *)
(* enqueue, dispatch, stdout-owner leases, the stdout pump, the orphan-    *)
(* adoption scan, the max-duration timer, shutdown handoff and crashes.    *)
(*                                                                         *)
(* Sources: crates/centaur-session-runtime/src/lib.rs (the runtime) and    *)
(* crates/centaur-session-sqlx/src/lib.rs (the store).  Every SQL          *)
(* statement is one atomic step; what a handler does between two awaits on *)
(* the store is folded into the step before it.                            *)
(*                                                                         *)
(* An asynchronous activity of a process is a record in `tasks': a         *)
(* dispatch attempt, a pass of the adoption scan over one execution, the   *)
(* handling of one line or of the end of a stdout stream, a timer.         *)
(***************************************************************************)
EXTENDS Naturals, Sequences, FiniteSets

CONSTANTS
    Procs,        \* control-plane processes; a restarted one has a new owner id
    Executions,   \* the requests clients make on the thread, by idempotency key
    Outcomes,     \* how a harness may report the end of a turn
    MaxDuration,  \* TRUE iff requests carry max_duration_ms
    Faults,       \* what the environment may do beyond making requests: fault
                  \* the system, stop a process, retry a request, view a stream
    MaxFaults     \* bound on how often it does so in one behaviour

None == "none"

Active == {"queued", "running"}
Terminal == {"completed", "failed", "cancelled"}
FaultKinds == {"crash", "shutdown", "store", "stall", "sandbox", "retry", "viewer"}

ASSUME ConstantsAssumption ==
    /\ None \notin Procs
    /\ Outcomes \subseteq Terminal
    /\ Outcomes # {}
    /\ MaxDuration \in BOOLEAN
    /\ Faults \subseteq FaultKinds
    /\ MaxFaults \in Nat

VARIABLES
    (* rows of session_executions *)
    status,         \* [Executions -> {"absent"} \cup Active \cup Terminal]
    owner,          \* stdout_owner_id, or None
    lease,          \* stdout_owner_lease_expires_at > now()
    (* the session's sandbox and the thread's event log *)
    sandbox,        \* sessions.sandbox_id and its backend status
    log,            \* per execution, its durable events in commit order
    (* processes *)
    proc,           \* "up", "draining", "released" (handed off) or "down"
    tasks,          \* the asynchronous activities under way
    renewers,       \* <<p, e>>: p runs a lease renewer for e
    stream,         \* p's stdout attach to the sandbox: "none", "open", "closed"
    inbox,          \* turns whose terminal line is in p's attach stream
    (* the sandbox *)
    turns,          \* turns the sandbox accepted and has not finished
    finishedSince,  \* executions since whose start a terminal line was recorded
    delivered,      \* how many times e's input reached a sandbox
    faults          \* faults left in the budget

rows == <<status, owner, lease>>
sandboxVars == <<turns, finishedSince, delivered>>
vars == <<status, owner, lease, sandbox, log, proc, tasks,
          renewers, stream, inbox, turns, finishedSince, delivered, faults>>

-----------------------------------------------------------------------------
(* Tasks *)

AttemptPcs == {"spawned", "marked", "admitted", "refused", "claimed",
               "started", "provisioned"}
ScanPcs == {"giveup", "attachable", "adopted"}
PumpPcs == {"append", "detached"}
FinishPcs == {"finish", "failing", "event"}

Tasks == [proc: Procs, exec: Executions,
          kind: {"attempt", "scan", "pump", "timer"},
          pc: AttemptPcs \cup ScanPcs \cup PumpPcs \cup FinishPcs \cup {"armed"}]

Task(p, e, k, pc) == [proc |-> p, exec |-> e, kind |-> k, pc |-> pc]
End(t) == tasks \ {t}
Goto(t, pc) == (tasks \ {t}) \cup {[t EXCEPT !.pc = pc]}
At(t, k, pc) == t \in tasks /\ t.kind = k /\ t.pc = pc
Busy(p, k) == \E t \in tasks : t.proc = p /\ t.kind = k

Alive(p) == proc[p] # "down"
IsActive(e) == status[e] \in Active
ActiveExecutions == {e \in Executions : IsActive(e)}

(* `stdout_owner_id = $me and status in (queued, running)': the fence of
   every write that belongs to the stdout owner.  The lease is not read. *)
Fenced(p, e) == IsActive(e) /\ owner[e] = p

(* DispatchingExecution: the marker a dispatch holds from its stdout claim
   until its input is written; the pumps of the same process consult it. *)
Dispatching(p, e) ==
    \E t \in tasks : /\ t.proc = p /\ t.exec = e /\ t.kind = "attempt"
                     /\ t.pc \in {"claimed", "started", "provisioned"}

Fault(k) == /\ k \in Faults
            /\ faults > 0
            /\ faults' = faults - 1

(* A timer armed by spawn_max_duration_failure when the request has a limit. *)
Armed(p, e) == IF MaxDuration THEN {Task(p, e, "timer", "armed")} ELSE {}

-----------------------------------------------------------------------------
Init ==
    /\ status = [e \in Executions |-> "absent"]
    /\ owner = [e \in Executions |-> None]
    /\ lease = [e \in Executions |-> FALSE]
    /\ sandbox \in {"none", "live", "down"}
    /\ log = [e \in Executions |-> <<>>]
    /\ proc = [p \in Procs |-> "up"]
    /\ tasks = {}
    /\ renewers = {}
    /\ stream = [p \in Procs |-> "none"]
    /\ inbox = [p \in Procs |-> {}]
    /\ turns = {}
    /\ finishedSince = {}
    /\ delivered = [e \in Executions |-> 0]
    /\ faults = MaxFaults

-----------------------------------------------------------------------------
(* Accepting a request *)

(* Mutant: the one-active-execution index is missing. *)
EnqueueBesideActive(p, e) ==
    /\ proc[p] = "up"
    /\ status[e] = "absent"
    /\ status' = [status EXCEPT ![e] = "queued"]
    /\ tasks' = tasks \cup {Task(p, e, "attempt", "spawned")}
    /\ UNCHANGED <<owner, lease, sandbox, log, proc, renewers,
                   stream, inbox, sandboxVars, faults>>

(* enqueue_session_execution of a new request: one insert (refused by the
   one-active-execution index while another execution is active), then the
   background driver is spawned. *)
Enqueue(p, e) ==
    /\ proc[p] = "up"
    /\ status[e] = "absent"
    /\ ActiveExecutions = {}
    /\ status' = [status EXCEPT ![e] = "queued"]
    /\ tasks' = tasks \cup {Task(p, e, "attempt", "spawned")}
    /\ UNCHANGED <<owner, lease, sandbox, log, proc, renewers,
                   stream, inbox, sandboxVars, faults>>

(* The same request retried (same idempotency key) on any process while its
   row is still queued: the row is kept and one more driver is spawned. *)
EnqueueAgain(p, e) ==
    /\ proc[p] = "up"
    /\ status[e] = "queued"
    /\ Fault("retry")
    /\ tasks' = tasks \cup {Task(p, e, "attempt", "spawned")}
    /\ UNCHANGED <<rows, sandbox, log, proc, renewers, stream,
                   inbox, sandboxVars>>

-----------------------------------------------------------------------------
(* Dispatch: execute_session_impl on a persisted execution *)

(* Mutant: the update to running does not require a queued row. *)
MarkRunningAnyway(t) ==
    /\ At(t, "attempt", "spawned")
    /\ IF proc[t.proc] = "up" /\ IsActive(t.exec)
       THEN /\ status' = [status EXCEPT ![t.exec] = "running"]
            /\ tasks' = Goto(t, "marked")
       ELSE /\ tasks' = End(t)
            /\ UNCHANGED status
    /\ UNCHANGED <<owner, lease, sandbox, log, proc, renewers,
                   stream, inbox, sandboxVars, faults>>

(* Admission, then mark_execution_running: only the driver that moves the row
   from queued to running goes on. *)
MarkRunning(t) ==
    /\ At(t, "attempt", "spawned")
    /\ IF proc[t.proc] = "up" /\ status[t.exec] = "queued"
       THEN /\ status' = [status EXCEPT ![t.exec] = "running"]
            /\ tasks' = Goto(t, "marked")
       ELSE /\ tasks' = End(t)
            /\ UNCHANGED status
    /\ UNCHANGED <<owner, lease, sandbox, log, proc, renewers,
                   stream, inbox, sandboxVars, faults>>

(* Mutant: the refusal of a process that shuts down is an error nobody handles. *)
CheckShuttingDownUnhandled(t) ==
    /\ At(t, "attempt", "marked")
    /\ tasks' = Goto(t, IF proc[t.proc] = "up" THEN "admitted" ELSE "shutting_down")
    /\ UNCHANGED <<rows, sandbox, log, proc, renewers, stream,
                   inbox, sandboxVars, faults>>

(* The runtime's claim_stdout_owner reads shutting_down before it claims. *)
CheckShuttingDown(t) ==
    /\ At(t, "attempt", "marked")
    /\ tasks' = Goto(t, IF proc[t.proc] = "up" THEN "admitted" ELSE "refused")
    /\ UNCHANGED <<rows, sandbox, log, proc, renewers, stream,
                   inbox, sandboxVars, faults>>

(* The store's claim_stdout_owner; when it is taken the renewer is spawned,
   when it is refused the dispatch goes to record_execution_failure. *)
Claimable(p, e) == IsActive(e) /\ (owner[e] \in {None, p} \/ ~lease[e])

ClaimStdoutOwner(t) ==
    /\ At(t, "attempt", "admitted")
    /\ IF Claimable(t.proc, t.exec)
       THEN /\ owner' = [owner EXCEPT ![t.exec] = t.proc]
            /\ lease' = [lease EXCEPT ![t.exec] = TRUE]
            /\ renewers' = renewers \cup {<<t.proc, t.exec>>}
            /\ tasks' = Goto(t, "claimed")
       ELSE /\ tasks' = Goto(t, "failing")
            /\ UNCHANGED <<owner, lease, renewers>>
    /\ UNCHANGED <<status, sandbox, log, proc, stream, inbox,
                   sandboxVars, faults>>

(* handle_stdout_claim_failure on ShuttingDown: the undelivered execution
   goes back to the queue unless somebody adopted it meanwhile. *)
Requeue(t) ==
    /\ At(t, "attempt", "refused")
    /\ IF status[t.exec] = "running" /\ owner[t.exec] = None
       THEN /\ status' = [status EXCEPT ![t.exec] = "queued"]
            /\ finishedSince' = finishedSince \ {t.exec}
            /\ tasks' = End(t)
       ELSE /\ tasks' = Goto(t, "failing")
            /\ UNCHANGED <<status, finishedSince>>
    /\ UNCHANGED <<owner, lease, sandbox, log, proc, renewers,
                   stream, inbox, turns, delivered, faults>>

AppendStarted(t) ==
    /\ At(t, "attempt", "claimed")
    /\ log' = [log EXCEPT ![t.exec] = Append(@, "started")]
    /\ tasks' = Goto(t, "started")
    /\ UNCHANGED <<rows, sandbox, proc, renewers, stream, inbox,
                   sandboxVars, faults>>

(* ensure_session_sandbox: a Running sandbox with the right capabilities is
   reused; any other is resumed or replaced, which loses the turns and the
   recorded output of the old one and closes every attach to it.  The process
   that does so forgets its own pipe first: a pump that was about to reattach
   it is superseded. *)
CloseStreams ==
    stream' = [p \in Procs |-> IF stream[p] = "open" THEN "closed"
                               ELSE stream[p]]

Superseded(p) ==
    {u \in tasks : u.proc = p /\ u.kind = "pump" /\ u.pc = "detached"}

EnsureSessionSandbox(t) ==
    /\ At(t, "attempt", "started")
    /\ sandbox' = "live"
    /\ \/ /\ sandbox = "live"
          /\ tasks' = Goto(t, "provisioned")
          /\ UNCHANGED <<turns, finishedSince, stream>>
       \/ /\ tasks' = Goto(t, "provisioned") \ Superseded(t.proc)
          /\ turns' = {}
          /\ finishedSince' = {}
          /\ stream' = [p \in Procs |-> IF p = t.proc THEN "none"
                                        ELSE IF stream[p] = "open" THEN "closed"
                                        ELSE stream[p]]
    /\ UNCHANGED <<rows, log, proc, renewers, inbox, delivered,
                   faults>>

(* ensure_session_pipe: a pipe the process still has is reused, even one whose
   stdout has ended and whose pump has not given it up yet; without one, a pipe
   is opened, and its pump. *)
EnsureSessionPipe(p) ==
    stream' = [stream EXCEPT ![p] = IF @ = "none" THEN "open" ELSE @]

(* ensure_session_pipe, then write_input_lines; the dispatching marker is
   dropped and the max-duration timer armed.  The row is not read again before
   the write.  A write to a pipe whose other end is gone is refused, or is
   taken and lost. *)
WriteInput(t) ==
    /\ At(t, "attempt", "provisioned")
    /\ \/ /\ sandbox = "live" /\ stream[t.proc] # "closed"
          /\ EnsureSessionPipe(t.proc)
          /\ delivered' = [delivered EXCEPT ![t.exec] = @ + 1]
          /\ turns' = turns \cup {t.exec}
          /\ tasks' = End(t) \cup Armed(t.proc, t.exec)
       \/ /\ stream[t.proc] = "closed"
          /\ tasks' = End(t) \cup Armed(t.proc, t.exec)
          /\ UNCHANGED <<stream, delivered, turns>>
       \/ /\ sandbox # "live" \/ stream[t.proc] = "closed"
          /\ tasks' = Goto(t, "failing")
          /\ UNCHANGED <<stream, delivered, turns>>
    /\ UNCHANGED <<rows, sandbox, log, proc, renewers, inbox, finishedSince,
                   faults>>

(* A sandbox backend error while the dispatch provisions. *)
ProvisionError(t) ==
    /\ At(t, "attempt", "started")
    /\ Fault("sandbox")
    /\ tasks' = Goto(t, "failing")
    /\ UNCHANGED <<rows, sandbox, log, proc, renewers, stream,
                   inbox, sandboxVars>>

-----------------------------------------------------------------------------
(* Ending an execution: record_terminal_output, record_execution_failure and
   record_max_duration_failure share their shape: the fenced update of the
   row, then, in a statement of its own, the terminal event.  A refused fence
   ends the task with nothing recorded. *)

(* Mutant: complete_execution where complete_execution_if_active_and_stdout_owner
   is needed. *)
TerminateUnfenced(t, outcome) ==
    /\ status' = [status EXCEPT ![t.exec] = outcome]
    /\ owner' = [owner EXCEPT ![t.exec] = None]
    /\ lease' = [lease EXCEPT ![t.exec] = FALSE]
    /\ tasks' = Goto(t, "event")
    /\ UNCHANGED <<sandbox, log, proc, renewers, stream, inbox,
                   sandboxVars, faults>>

Terminate(t, outcome) ==
    /\ IF Fenced(t.proc, t.exec)
       THEN /\ status' = [status EXCEPT ![t.exec] = outcome]
            /\ owner' = [owner EXCEPT ![t.exec] = None]
            /\ lease' = [lease EXCEPT ![t.exec] = FALSE]
            /\ tasks' = Goto(t, "event")
       ELSE /\ tasks' = End(t)
            /\ UNCHANGED rows
    /\ UNCHANGED <<sandbox, log, proc, renewers, stream, inbox,
                   sandboxVars, faults>>

RecordTerminalOutput(t) ==
    /\ At(t, "pump", "finish")
    /\ \E outcome \in Outcomes : Terminate(t, outcome)

(* Mutant: the failure is recorded in the row and never published. *)
RecordFailureSilently(t) ==
    /\ t \in tasks /\ t.pc = "failing"
    /\ tasks' = End(t)
    /\ status' = [status EXCEPT ![t.exec] = IF Fenced(t.proc, t.exec) THEN "failed" ELSE @]
    /\ owner' = [owner EXCEPT ![t.exec] = IF Fenced(t.proc, t.exec) THEN None ELSE @]
    /\ UNCHANGED <<lease, sandbox, log, proc, renewers, stream, inbox,
                   sandboxVars, faults>>

RecordFailure(t) ==
    /\ t \in tasks /\ t.pc = "failing"
    /\ Terminate(t, "failed")

MaxDurationFires(t) ==
    /\ At(t, "timer", "armed")
    /\ Terminate(t, "failed")

AppendTerminalEvent(t) ==
    /\ t \in tasks /\ t.pc = "event"
    /\ log' = [log EXCEPT ![t.exec] = Append(@, "terminal")]
    /\ tasks' = End(t)
    /\ UNCHANGED <<rows, sandbox, proc, renewers, stream, inbox,
                   sandboxVars, faults>>

-----------------------------------------------------------------------------
(* The stdout pump of a process *)

(* stream_events and the steering paths open the session's pipe on whatever
   process serves the client, owner or not (ensure_session_pipe_if_live). *)
AttachStream(p) ==
    /\ Alive(p)
    /\ sandbox = "live"
    /\ stream[p] = "none"
    /\ Fault("viewer")
    /\ stream' = [stream EXCEPT ![p] = "open"]
    /\ UNCHANGED <<rows, sandbox, log, proc, tasks, renewers,
                   inbox, sandboxVars>>

(* The next line: the pump reads the thread's active execution and attributes
   the line to it (execution_for_line).  A line of another turn is dropped
   when this pump knows its turn id, and is taken for the active execution's
   when it does not. *)
PumpLine(p) ==
    /\ Alive(p)
    /\ ~Busy(p, "pump")
    /\ \E turn \in inbox[p] :
        /\ inbox' = [inbox EXCEPT ![p] = @ \ {turn}]
        /\ \/ \E e \in ActiveExecutions :
                tasks' = tasks \cup {Task(p, e, "pump", "append")}
           \/ /\ turn \notin ActiveExecutions
              /\ UNCHANGED tasks
    /\ UNCHANGED <<rows, sandbox, log, proc, renewers, stream,
                   sandboxVars, faults>>

(* Mutant: append_event where append_event_if_stdout_owner is needed. *)
AppendOutputUnfenced(t) ==
    /\ At(t, "pump", "append")
    /\ log' = [log EXCEPT ![t.exec] = Append(@, "output")]
    /\ tasks' = Goto(t, "finish")
    /\ UNCHANGED <<rows, sandbox, proc, renewers, stream, inbox,
                   sandboxVars, faults>>

(* append_event_if_stdout_owner: fenced, and it renews the lease. *)
AppendOutputLine(t) ==
    /\ At(t, "pump", "append")
    /\ IF Fenced(t.proc, t.exec)
       THEN /\ lease' = [lease EXCEPT ![t.exec] = TRUE]
            /\ log' = [log EXCEPT ![t.exec] = Append(@, "output")]
            /\ tasks' = Goto(t, "finish")
       ELSE /\ tasks' = End(t)
            /\ UNCHANGED <<lease, log>>
    /\ UNCHANGED <<status, owner, sandbox, proc, renewers,
                   stream, inbox, sandboxVars, faults>>

(* End of the stream: with no active execution, or one that is queued or in
   this process's own dispatch, the pump just ends; otherwise it sets out to
   recover, reattach or fail the execution it read. *)
PumpEof(p) ==
    /\ Alive(p)
    /\ stream[p] = "closed"
    /\ inbox[p] = {}
    /\ ~Busy(p, "pump")
    /\ LET detached == {e \in ActiveExecutions :
                            status[e] = "running" /\ ~Dispatching(p, e)}
       IN  IF detached = {}
           THEN /\ stream' = [stream EXCEPT ![p] = "none"]
                /\ UNCHANGED tasks
           ELSE /\ tasks' = tasks \cup
                        {Task(p, e, "pump", "detached") : e \in detached}
                /\ UNCHANGED stream
    /\ UNCHANGED <<rows, sandbox, log, proc, renewers, inbox,
                   sandboxVars, faults>>

(* The recorded output holds no terminal line of the turn; one that is there
   is missed only if the backend cannot be read. *)
NoRecordedEnd(e) == IF e \in finishedSince THEN Fault("sandbox") ELSE UNCHANGED faults

(* recover_detached_terminal_output, else reattach_session_pipe, else
   fail_detached_execution: the instance is dead or another one, or the
   attempts to reattach are used up. *)
PumpDetached(t) ==
    /\ At(t, "pump", "detached")
    /\ \/ /\ t.exec \in finishedSince
          /\ stream' = [stream EXCEPT ![t.proc] = "none"]
          /\ tasks' = Goto(t, "finish")
          /\ UNCHANGED faults
       \/ /\ NoRecordedEnd(t.exec)
          /\ sandbox = "live"
          /\ stream' = [stream EXCEPT ![t.proc] = "open"]
          /\ tasks' = End(t)
       \/ /\ NoRecordedEnd(t.exec)
          /\ stream' = [stream EXCEPT ![t.proc] = "none"]
          /\ tasks' = Goto(t, "failing")
    /\ UNCHANGED <<rows, sandbox, log, proc, renewers, inbox, sandboxVars>>

-----------------------------------------------------------------------------
(* Orphan adoption: run_orphan_adoption_scan and adopt_orphaned_execution.
   The list and the look at the session and its sandbox only select what the
   claims below decide on, so they are one step.  A live lease, the process's
   own or a peer's, is skipped. *)

Orphan(p, e) == Alive(p) /\ ~Busy(p, "scan") /\ IsActive(e) /\ ~lease[e]

(* A queued row is replayed from its persisted request by a new driver. *)
ScanReplaysQueued(p, e) ==
    /\ Orphan(p, e)
    /\ status[e] = "queued"
    /\ tasks' = tasks \cup {Task(p, e, "attempt", "spawned")}
    /\ UNCHANGED <<rows, sandbox, log, proc, renewers, stream, inbox,
                   sandboxVars, faults>>

(* A request that cannot be read back fails the queued execution. *)
ScanCannotReadQueued(p, e) ==
    /\ Orphan(p, e)
    /\ status[e] = "queued"
    /\ Fault("store")
    /\ tasks' = tasks \cup {Task(p, e, "scan", "giveup")}
    /\ UNCHANGED <<rows, sandbox, log, proc, renewers, stream, inbox,
                   sandboxVars>>

(* PRE_SANDBOX_ORPHAN_GRACE (120 s) outlasts the two statements by which a
   dispatch that is alive marks its row running and claims its stdout. *)
GraceElapsed(e) ==
    \A t \in tasks : t.exec = e /\ t.kind = "attempt"
                        => t.pc \notin {"marked", "admitted", "refused"}

(* A running row is judged by the session's sandbox: none yet (after the
   grace) or one without I/O fails it, a Running one is attached to. *)
ScanTakesRunning(p, e) ==
    /\ Orphan(p, e)
    /\ status[e] = "running"
    /\ sandbox = "none" => GraceElapsed(e)
    /\ tasks' = tasks \cup {Task(p, e, "scan",
                    IF sandbox = "live" THEN "attachable" ELSE "giveup")}
    /\ UNCHANGED <<rows, sandbox, log, proc, renewers, stream, inbox,
                   sandboxVars, faults>>

(* fail_orphaned_execution: the claim's result is ignored, the fence of the
   failure decides. *)
FailOrphaned(t) ==
    /\ At(t, "scan", "giveup")
    /\ IF Claimable(t.proc, t.exec)
       THEN /\ owner' = [owner EXCEPT ![t.exec] = t.proc]
            /\ lease' = [lease EXCEPT ![t.exec] = TRUE]
       ELSE UNCHANGED <<owner, lease>>
    /\ tasks' = Goto(t, "failing")
    /\ UNCHANGED <<status, sandbox, log, proc, renewers, stream,
                   inbox, sandboxVars, faults>>

(* Mutant: only unowned executions are adopted, not those of a dead owner. *)
ClaimUnownedOnly(t) ==
    /\ At(t, "scan", "attachable")
    /\ IF IsActive(t.exec) /\ owner[t.exec] = None
       THEN /\ owner' = [owner EXCEPT ![t.exec] = t.proc]
            /\ lease' = [lease EXCEPT ![t.exec] = TRUE]
            /\ renewers' = renewers \cup {<<t.proc, t.exec>>}
            /\ tasks' = Goto(t, "adopted")
       ELSE /\ tasks' = End(t)
            /\ UNCHANGED <<owner, lease, renewers>>
    /\ UNCHANGED <<status, sandbox, log, proc, stream, inbox,
                   sandboxVars, faults>>

(* claim_expired_stdout_owner: shutting_down is not consulted. *)
ClaimExpiredStdoutOwner(t) ==
    /\ At(t, "scan", "attachable")
    /\ IF IsActive(t.exec) /\ (owner[t.exec] = None \/ ~lease[t.exec])
       THEN /\ owner' = [owner EXCEPT ![t.exec] = t.proc]
            /\ lease' = [lease EXCEPT ![t.exec] = TRUE]
            /\ renewers' = renewers \cup {<<t.proc, t.exec>>}
            /\ tasks' = Goto(t, "adopted")
       ELSE /\ tasks' = End(t)
            /\ UNCHANGED <<owner, lease, renewers>>
    /\ UNCHANGED <<status, sandbox, log, proc, stream, inbox,
                   sandboxVars, faults>>

(* The recorded output holds a terminal line since started_at. *)
AdoptRecorded(t) ==
    /\ At(t, "scan", "adopted")
    /\ t.exec \in finishedSince
    /\ \E outcome \in Outcomes : Terminate(t, outcome)

(* The turn is taken to be in flight: attach the pump and re-arm the timer. *)
AdoptLive(t) ==
    /\ At(t, "scan", "adopted")
    /\ NoRecordedEnd(t.exec)
    /\ sandbox = "live"
    /\ EnsureSessionPipe(t.proc)
    /\ tasks' = End(t) \cup Armed(t.proc, t.exec)
    /\ UNCHANGED <<rows, sandbox, log, proc, renewers, inbox, sandboxVars>>

(* Mutant: the claim of an adoption whose attach failed is kept. *)
AdoptAttachFailsHolding(t) ==
    /\ At(t, "scan", "adopted")
    /\ t.exec \notin finishedSince
    /\ sandbox # "live"
    /\ tasks' = End(t)
    /\ UNCHANGED <<rows, sandbox, log, proc, renewers, stream,
                   inbox, sandboxVars, faults>>

(* The attach fails, also to a sandbox that lives if its backend does: the
   claim is released for the next scan. *)
AdoptAttachFails(t) ==
    /\ At(t, "scan", "adopted")
    /\ IF sandbox = "live" THEN Fault("sandbox") ELSE NoRecordedEnd(t.exec)
    /\ IF owner[t.exec] = t.proc
       THEN /\ owner' = [owner EXCEPT ![t.exec] = None]
            /\ lease' = [lease EXCEPT ![t.exec] = FALSE]
       ELSE UNCHANGED <<owner, lease>>
    /\ tasks' = End(t)
    /\ UNCHANGED <<status, sandbox, log, proc, renewers, stream,
                   inbox, sandboxVars>>

-----------------------------------------------------------------------------
(* Leases: a renewer renews every 10 s of a 45 s lease, so a lease runs out
   once its renewer is gone, or when its process stalls.  45 s outlast the two
   statements by which a scan claims and fails an orphan without a renewer. *)

LeaseRunsOut(e) ==
    /\ lease[e]
    /\ <<owner[e], e>> \notin renewers
    /\ Task(owner[e], e, "scan", "failing") \notin tasks
    /\ lease' = [lease EXCEPT ![e] = FALSE]
    /\ UNCHANGED <<status, owner, sandbox, log, proc, tasks,
                   renewers, stream, inbox, sandboxVars, faults>>

LeaseLapsesInStall(e) ==
    /\ lease[e]
    /\ Fault("stall")
    /\ lease' = [lease EXCEPT ![e] = FALSE]
    /\ UNCHANGED <<status, owner, sandbox, log, proc, tasks,
                   renewers, stream, inbox, sandboxVars>>

(* renew_stdout_owner is fenced by the owner, not by the old expiry; a false
   answer ends the renewer. *)
Renew(p, e) ==
    /\ <<p, e>> \in renewers
    /\ IF Fenced(p, e)
       THEN /\ ~lease[e]
            /\ lease' = [lease EXCEPT ![e] = TRUE]
            /\ UNCHANGED renewers
       ELSE /\ renewers' = renewers \ {<<p, e>>}
            /\ UNCHANGED lease
    /\ UNCHANGED <<status, owner, sandbox, log, proc, tasks,
                   stream, inbox, sandboxVars, faults>>

(* One failed renewal ends the renewer for good. *)
RenewError(p, e) ==
    /\ <<p, e>> \in renewers
    /\ Fault("store")
    /\ renewers' = renewers \ {<<p, e>>}
    /\ UNCHANGED <<rows, sandbox, log, proc, tasks, stream,
                   inbox, sandboxVars>>

-----------------------------------------------------------------------------
(* Shutdown, crashes and the environment *)

SomeOtherUp(p) == \E q \in Procs \ {p} : proc[q] = "up"

Owned(p) == {e \in Executions : Fenced(p, e)}

(* handoff_owned_executions: set the flag, wait until nothing is owned or the
   deadline passes, then release every lease in one statement. *)
StartShutdown(p) ==
    /\ proc[p] = "up"
    /\ SomeOtherUp(p)
    /\ Fault("shutdown")
    /\ proc' = [proc EXCEPT ![p] = "draining"]
    /\ UNCHANGED <<rows, sandbox, log, tasks, renewers, stream,
                   inbox, sandboxVars>>

HandOff(p) ==
    /\ proc[p] = "draining"
    /\ proc' = [proc EXCEPT ![p] = "released"]
    /\ owner' = [e \in Executions |-> IF e \in Owned(p) THEN None ELSE owner[e]]
    /\ lease' = [e \in Executions |-> lease[e] /\ e \notin Owned(p)]
    /\ UNCHANGED <<status, sandbox, log, tasks, renewers, stream,
                   inbox, sandboxVars, faults>>

(* The process ends: every activity of it stops, its rows stay as they are. *)
Stop(p) ==
    /\ proc' = [proc EXCEPT ![p] = "down"]
    /\ tasks' = {t \in tasks : t.proc # p}
    /\ renewers' = {r \in renewers : r[1] # p}
    /\ stream' = [stream EXCEPT ![p] = "none"]
    /\ inbox' = [inbox EXCEPT ![p] = {}]
    /\ UNCHANGED <<rows, sandbox, log, sandboxVars>>

Exit(p) == proc[p] = "released" /\ Stop(p) /\ UNCHANGED faults

Crash(p) == Alive(p) /\ SomeOtherUp(p) /\ Fault("crash") /\ Stop(p)

(* A store call that fails with `?' abandons the activity where it stands;
   a pump loop that fails drops its pipe. *)
AbandonPcs(k) ==
    CASE k = "attempt" -> {"spawned", "marked", "claimed", "started",
                           "failing", "event"}
      [] k = "scan"    -> {"attachable", "adopted", "failing", "event"}
      [] k = "pump"    -> {"append", "failing", "finish", "event"}
      [] k = "timer"   -> {"armed", "event"}

StoreError(t) ==
    /\ t \in tasks
    /\ t.pc \in AbandonPcs(t.kind)
    /\ Fault("store")
    /\ tasks' = End(t)
    /\ stream' = IF t.kind = "pump" THEN [stream EXCEPT ![t.proc] = "none"]
                 ELSE stream
    /\ UNCHANGED <<rows, sandbox, log, proc, renewers, inbox,
                   sandboxVars>>

(* The sandbox ends a turn: its terminal line goes to the recorded output and
   to every process attached at that moment. *)
SandboxFinishesTurn(turn) ==
    /\ sandbox = "live"
    /\ turn \in turns
    /\ turns' = turns \ {turn}
    /\ finishedSince' = finishedSince \cup
                            {e \in Executions : status[e] = "running"}
    /\ inbox' = [p \in Procs |-> IF stream[p] = "open" THEN inbox[p] \cup {turn}
                                 ELSE inbox[p]]
    /\ UNCHANGED <<rows, sandbox, log, proc, tasks, renewers,
                   stream, delivered, faults>>

(* A read error on a stream (record_stdout_pump_failure) fails whatever
   execution is active; the dispatching marker is not consulted. *)
StreamReadError(p) ==
    /\ stream[p] = "open"
    /\ ~Busy(p, "pump")
    /\ Fault("sandbox")
    /\ stream' = [stream EXCEPT ![p] = "none"]
    /\ tasks' = tasks \cup
                    {Task(p, e, "pump", "failing") : e \in ActiveExecutions}
    /\ UNCHANGED <<rows, sandbox, log, proc, renewers, inbox,
                   sandboxVars>>

(* The sandbox is paused, stopped or lost; every attach sees its end. *)
SandboxGoesDown ==
    /\ sandbox = "live"
    /\ Fault("sandbox")
    /\ sandbox' = "down"
    /\ turns' = {}
    /\ CloseStreams
    /\ UNCHANGED <<rows, log, proc, tasks, renewers, inbox,
                   finishedSince, delivered>>

(* Kubernetes closes one attach stream while the sandbox runs on. *)
AttachBreaks(p) ==
    /\ stream[p] = "open"
    /\ Fault("sandbox")
    /\ stream' = [stream EXCEPT ![p] = "closed"]
    /\ UNCHANGED <<rows, sandbox, log, proc, tasks, renewers,
                   inbox, sandboxVars>>

-----------------------------------------------------------------------------
(* One step of task t that is not a fault. *)
AttemptStep(t) ==
    \/ MarkRunning(t) \/ CheckShuttingDown(t) \/ ClaimStdoutOwner(t)
    \/ Requeue(t) \/ AppendStarted(t) \/ EnsureSessionSandbox(t)
    \/ WriteInput(t)

FinishStep(t) ==
    RecordTerminalOutput(t) \/ RecordFailure(t) \/ AppendTerminalEvent(t)

PumpStep(t) == AppendOutputLine(t) \/ PumpDetached(t)

ScanStep(t) ==
    \/ FailOrphaned(t) \/ ClaimExpiredStdoutOwner(t)
    \/ AdoptRecorded(t) \/ AdoptLive(t) \/ AdoptAttachFails(t)

TaskStep(t) ==
    \/ AttemptStep(t) \/ FinishStep(t) \/ PumpStep(t) \/ ScanStep(t)
    \/ MaxDurationFires(t)

FaultStep ==
    \/ \E t \in tasks : ProvisionError(t) \/ StoreError(t)
    \/ \E e \in Executions : LeaseLapsesInStall(e)
    \/ \E p \in Procs, e \in Executions :
            EnqueueAgain(p, e) \/ RenewError(p, e) \/ ScanCannotReadQueued(p, e)
    \/ \E p \in Procs : \/ Crash(p) \/ StartShutdown(p) \/ AttachStream(p)
                        \/ AttachBreaks(p) \/ StreamReadError(p)
    \/ SandboxGoesDown

Next ==
    \/ \E p \in Procs, e \in Executions :
            \/ Enqueue(p, e) \/ Renew(p, e)
            \/ ScanReplaysQueued(p, e) \/ ScanTakesRunning(p, e)
    \/ \E t \in tasks : TaskStep(t)
    \/ \E p \in Procs : PumpLine(p) \/ PumpEof(p) \/ HandOff(p) \/ Exit(p)
    \/ \E e \in Executions : LeaseRunsOut(e) \/ SandboxFinishesTurn(e)
    \/ FaultStep

Spec == Init /\ [][Next]_vars

(* Tokio runs every spawned task, the scan and the renewers tick for the
   lifetime of the process, leases run out and timers fire.  Nothing is
   assumed of clients, of the harness in the sandbox, or of the faults. *)
Of(p, e, k) == {t \in tasks : t.proc = p /\ t.exec = e /\ t.kind = k}

Fairness ==
    /\ \A p \in Procs, e \in Executions :
        /\ WF_vars(\E t \in Of(p, e, "attempt") : AttemptStep(t) \/ FinishStep(t))
        /\ WF_vars(\E t \in Of(p, e, "scan") : ScanStep(t) \/ FinishStep(t))
        /\ WF_vars(\E t \in Of(p, e, "pump") : PumpStep(t) \/ FinishStep(t))
        /\ WF_vars(\E t \in Of(p, e, "timer") : MaxDurationFires(t) \/ FinishStep(t))
        /\ WF_vars(ScanReplaysQueued(p, e) \/ ScanTakesRunning(p, e))
        /\ WF_vars(Renew(p, e))
    /\ \A p \in Procs : WF_vars(PumpLine(p)) /\ WF_vars(PumpEof(p))
                        /\ WF_vars(HandOff(p)) /\ WF_vars(Exit(p))
    /\ \A e \in Executions : WF_vars(LeaseRunsOut(e))

FairSpec == Spec /\ Fairness

-----------------------------------------------------------------------------
(* Properties *)

(* Every variable stays in its domain. *)
TypeOK ==
    /\ status \in [Executions -> {"absent"} \cup Active \cup Terminal]
    /\ owner \in [Executions -> Procs \cup {None}]
    /\ lease \in [Executions -> BOOLEAN]
    /\ sandbox \in {"none", "live", "down"}
    /\ log \in [Executions -> Seq({"started", "output", "terminal"})]
    /\ proc \in [Procs -> {"up", "draining", "released", "down"}]
    /\ tasks \subseteq Tasks
    /\ renewers \subseteq Procs \X Executions
    /\ stream \in [Procs -> {"none", "open", "closed"}]
    /\ inbox \in [Procs -> SUBSET Executions]
    /\ turns \subseteq Executions
    /\ finishedSince \subseteq Executions
    /\ delivered \in [Executions -> Nat]
    /\ faults \in Nat

(* The input of an execution reaches a sandbox at most once, however many
   drivers, scans, retries and requeues race for it ("a periodic scan can
   safely race the accepting process without double delivery"). *)
DeliveredAtMostOnce == \A e \in Executions : delivered[e] <= 1

(* An execution publishes at most one terminal event, only once its row is
   terminal, and no output row of it is ever stored after that event: neither
   a process that lost the lease nor a late pump can add to a closed turn. *)
ClosedTurnStaysClosed ==
    \A e \in Executions : \A i \in DOMAIN log[e] :
        log[e][i] = "terminal" =>
            /\ status[e] \in Terminal
            /\ \A j \in DOMAIN log[e] : j > i => log[e][j] = "started"

(* Why input is delivered at most once.  A driver past mark_execution_running
   is alone with its execution until it has written the input or given up:
   its row has left the queue and nothing was delivered.  A requeue puts back
   only what was never delivered. *)
InDispatch(t) == t.kind = "attempt" /\ t.pc \in AttemptPcs \ {"spawned"}

DispatchIsExclusive ==
    \A t \in tasks : InDispatch(t) =>
        /\ status[t.exec] \notin {"absent", "queued"}
        /\ delivered[t.exec] = 0
        /\ \A u \in tasks : InDispatch(u) /\ u.exec = t.exec => u = t

QueuedIsUndelivered ==
    \A e \in Executions : status[e] \in {"absent", "queued"} => delivered[e] = 0

(* Why a turn is closed once.  Whoever is about to publish an end won the
   fenced update of the row, so it is the only one and nobody has published
   before. *)
Published(e) == \E i \in DOMAIN log[e] : log[e][i] = "terminal"

PublisherWonTheFence ==
    \A t \in tasks : t.pc = "event" =>
        /\ status[t.exec] \in Terminal
        /\ ~Published(t.exec)
        /\ \A u \in tasks : u.pc = "event" /\ u.exec = t.exec => u = t

SafetyInvariant ==
    /\ DeliveredAtMostOnce /\ DispatchIsExclusive /\ QueuedIsUndelivered
    /\ ClosedTurnStaysClosed /\ PublisherWonTheFence

(* While a live process holds a live lease on a turn, some activity of that
   process can still end it: a dispatch, an attached stream or a timer.
   Otherwise its renewer would keep every other process away for ever. *)
OwnedTurnIsDriven ==
    \A e \in Executions, p \in Procs :
        Fenced(p, e) /\ lease[e] /\ Alive(p) /\ <<p, e>> \in renewers =>
            stream[p] # "none" \/ \E t \in tasks : t.proc = p /\ t.exec = e

(* Every accepted execution ends: crashes, handoffs, lapsed leases and lost
   sandboxes may move it between processes but cannot leave it active. *)
AcceptedExecutionEnds ==
    \A e \in Executions : status[e] = "queued" ~> status[e] \in Terminal

(* As long as no process stops, the end of a row is announced: no path that
   ends an execution leaves its clients waiting. *)
EndIsPublishedWhileUp ==
    \A e \in Executions :
        status[e] \in Terminal ~> (Published(e) \/ \E p \in Procs : ~Alive(p))

(* The control plane implements the contract its clients see: at most one
   active execution, input sent at most once, one end, one announcement. *)
Contract == INSTANCE ExecutionContract
                WITH phase <- status, sent <- delivered, history <- log

ImplementsContract == Contract!ContractSpec

-----------------------------------------------------------------------------
(* Statements of comments and documents that the model refutes; the README
   gives the instance and the counterexample of each. *)

(* A turn that a live process owns and that is no longer being dispatched or
   taken over has been given to a sandbox: adoption attaches live only where
   "The sandbox is still running the turn". *)
AttachedTurnWasDelivered ==
    \A e \in Executions, p \in Procs :
        /\ Fenced(p, e) /\ Alive(p) /\ <<p, e>> \in renewers
        /\ \A t \in tasks : t.exec = e => t.kind = "timer"
        => delivered[e] > 0

(* The row's end is followed by the terminal event the clients wait for. *)
EndIsPublished ==
    \A e \in Executions :
        status[e] \in Terminal ~> Published(e)

(* A dead stdout stream does not fail an execution that this process is still
   dispatching to a sandbox (the comment on the pump loop's dispatching check:
   "This dead stream is not that execution's to fail"). *)
DeadStreamSparesDispatch ==
    \A t \in tasks : t.kind = "pump" /\ t.pc = "failing"
                     /\ Dispatching(t.proc, t.exec) => ~Fenced(t.proc, t.exec)

(* The adoption scan fails only executions nobody is dispatching ("A periodic
   adoption scan must not fail a young row"). *)
OrphanVerdictIsTrue ==
    \A t \in tasks : t.kind = "scan" /\ t.pc = "event" =>
        \A u \in tasks : u.exec = t.exec /\ u.kind = "attempt"
                            => u.pc \notin {"marked", "admitted", "claimed",
                                            "started", "provisioned"}

(* A process that shut down cleanly leaves no lease behind: handoff fences new
   claims so that none "outlives the process". *)
HandoffLeavesNoLease ==
    \A p \in Procs : proc[p] = "down" => \A e \in Executions : owner[e] # p

(* Once an execution's terminal event is stored, nothing else of it is ("after
   the execution's terminal event nothing else will ever arrive"). *)
TerminalEventIsLast ==
    \A e \in Executions : \A i \in DOMAIN log[e] :
        log[e][i] = "terminal" => i = Len(log[e])

(* "Sandbox pod dies: The execution becomes terminal". *)
PodDeathEndsExecution ==
    \A e \in Executions :
        (sandbox = "down" /\ status[e] = "running")
            ~> (status[e] \in Terminal \/ sandbox # "down")
=============================================================================
