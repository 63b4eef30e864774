---------------------------- MODULE AbsurdQueue ----------------------------
(***************************************************************************)
(* The durable task queue (crates/absurd-sdk and the SQL functions of      *)
(* migrations 0007 to 0009).  A task has one run per attempt.  A worker    *)
(* claims a run under a lease, replays the task's handler over the stored  *)
(* checkpoints, and completes, fails or suspends the run.  Leases lapse,   *)
(* workers crash and stall, replies are lost; a superseded worker goes on  *)
(* with a run that the queue has already given up.                         *)
(*                                                                         *)
(* A handler is a Program: a sequence of durable operations.  The value of *)
(* a checkpoint is the attempt that wrote it.                              *)
(***************************************************************************)
EXTENDS Naturals, Sequences, FiniteSets

CONSTANTS
  Tasks,        \* idempotency keys: a second spawn of a key finds the first
  Workers,      \* worker slots, each in a process of its own
  Program,      \* the operations of the handler
  MaxAttempts,  \* max_attempts of a spawned task
  MaxRuns,      \* bound on the runs of a task, retry_task included
  RetryState,   \* "pending" without, "sleeping" with a retry delay
  Faults,       \* what may go wrong in this instance, each kind once
  MaxFaults     \* how many kinds in one behaviour

Ops == {"step", "sleep", "event", "timed", "turn"}

ASSUME QueueAssumption ==
  /\ Program \in Seq(Ops)
  /\ MaxAttempts \in Nat \ {0}
  /\ MaxRuns \in Nat
  /\ MaxAttempts <= MaxRuns
  /\ RetryState \in {"pending", "sleeping"}
  /\ MaxFaults \in Nat

VARIABLES
  db,       \* per task: its row, its runs, its waits and its checkpoints
  emitted,  \* the event the program waits for has a payload
  due,      \* the wake-up time of the task's sleep has come
  ctx,      \* what each worker slot executes (TaskContext)
  faults    \* the kinds of fault that have happened

qvars == <<db, emitted, due, ctx, faults>>

Steps == 1..Len(Program)
Live == {"pending", "sleeping", "running"}
Ended == {"completed", "failed", "cancelled"}
None == "none"
NoValues == [k \in Steps |-> 0]

Idle == [pc |-> "idle", t |-> None, n |-> 0, k |-> 0, seen |-> NoValues]
Busy(w) == ctx[w].pc # "idle"
RunOf(w) == db[ctx[w].t].runs[ctx[w].n]

NewRun(state) ==
  [state |-> state, avail |-> IF state = "pending" THEN "now" ELSE "later",
   lease |-> "none", wake |-> FALSE]

NoRow == [state |-> None, max |-> MaxAttempts, runs |-> <<>>, waits |-> {},
          ckpt |-> NoValues]

Init ==
  /\ db = [t \in Tasks |-> NoRow]
  /\ emitted = FALSE
  /\ due = [t \in Tasks |-> FALSE]
  /\ ctx = [w \in Workers |-> Idle]
  /\ faults = {}

Fault(kind) ==
  /\ kind \in Faults \ faults
  /\ Cardinality(faults) < MaxFaults
  /\ faults' = faults \cup {kind}

-----------------------------------------------------------------------------
(* Effects of the SQL functions on the row of one task.                    *)

\* Mutant: one attempt too many.
AfterFailLate(row, n) ==
  LET retried == n <= row.max
      runs == [row.runs EXCEPT ![n].state = "failed", ![n].lease = "none",
                               ![n].wake = FALSE]
  IN [row EXCEPT
        !.state = IF retried THEN RetryState ELSE "failed",
        !.runs = IF retried THEN Append(runs, NewRun(RetryState)) ELSE runs,
        !.waits = {x \in @ : x.run # n}]

\* fail_run: the run is failed and, while attempts are left, a new one
\* follows it; the waits of the run are deleted.
AfterFail(row, n) ==
  LET retried == n + 1 <= row.max
      runs == [row.runs EXCEPT ![n].state = "failed", ![n].lease = "none",
                               ![n].wake = FALSE]
  IN [row EXCEPT
        !.state = IF retried THEN RetryState ELSE "failed",
        !.runs = IF retried THEN Append(runs, NewRun(RetryState)) ELSE runs,
        !.waits = {x \in @ : x.run # n}]

\* The claiming update of claim_task; waits whose timeout has passed go.
AfterClaim(row, n) ==
  [row EXCEPT !.state = "running",
              !.runs[n] = [@ EXCEPT !.state = "running", !.avail = "now",
                                    !.lease = "live"],
              !.waits = {x \in @ : x.run # n \/ ~x.timed}]

\* complete_run, as migration 0008 has it.
AfterComplete(row, n) ==
  [row EXCEPT !.state = "completed",
              !.runs[n] = [@ EXCEPT !.state = "completed", !.lease = "none"],
              !.waits = {x \in @ : x.run # n}]

\* schedule_run: the run sleeps until a time.
AfterSchedule(row, n) ==
  [row EXCEPT !.state = "sleeping",
              !.runs[n] = [@ EXCEPT !.state = "sleeping", !.avail = "later",
                                    !.lease = "none", !.wake = FALSE]]

\* The last branch of await_event: a wait is registered and the run sleeps
\* until the event or its timeout.
AfterWait(row, n, k) ==
  LET timed == Program[k] = "timed"
  IN [row EXCEPT !.state = "sleeping",
                 !.runs[n] = [state |-> "sleeping", lease |-> "none", wake |-> TRUE,
                              avail |-> IF timed THEN "later" ELSE "never"],
                 !.waits = {x \in @ : x.run # n \/ x.step # k}
                             \cup {[run |-> n, step |-> k, timed |-> timed]}]

\* emit_event: a sleeping run whose wait has not expired gets the payload as
\* its checkpoint and becomes pending.  A wait has expired when its run may
\* be claimed already.
Expired(row, x) == x.timed /\ row.runs[x.run].avail = "now"
Woken(row) == {x \in row.waits : ~Expired(row, x) /\ row.runs[x.run].state = "sleeping"}
AfterEmit(row) ==
  LET ns == {x.run : x \in Woken(row)}
      ks == {x.step : x \in Woken(row)}
  IN [row EXCEPT
        !.state = IF ns = {} THEN @ ELSE "pending",
        !.runs = [n \in DOMAIN @ |-> IF n \in ns THEN NewRun("pending") ELSE @[n]],
        !.ckpt = [k \in Steps |->
                    IF k \in ks THEN (CHOOSE x \in Woken(row) : x.step = k).run
                                ELSE @[k]],
        !.waits = {x \in @ : ~Expired(row, x)} \ Woken(row)]

\* cancel_task: a live task and its live runs.
AfterCancel(row) ==
  [row EXCEPT !.state = "cancelled",
              !.runs = [n \in DOMAIN @ |->
                          IF @[n].state \in Live
                            THEN [@[n] EXCEPT !.state = "cancelled", !.lease = "none"]
                            ELSE @[n]],
              !.waits = {}]

\* retry_task in place: one more attempt.
AfterRetry(row) ==
  [row EXCEPT !.state = "pending", !.max = @ + 1,
              !.runs = Append(@, NewRun("pending"))]

-----------------------------------------------------------------------------
(* Callers of the queue and the passing of time.                           *)

\* await_event holds its locks (the event FOR SHARE, run and task FOR
\* UPDATE) from reading the payload to its decision.
Locking(w) == ctx[w].pc \in {"resolved", "unresolved"}
RowFree(t) == \A w \in Workers : ~(Locking(w) /\ ctx[w].t = t)

\* spawn_task.
Spawn(t) ==
  /\ db[t].state = None
  /\ db' = [db EXCEPT ![t].state = "pending", ![t].runs = <<NewRun("pending")>>]
  /\ UNCHANGED <<emitted, due, ctx, faults>>

\* Mutant: the upsert does not wait for the waiter's lock.
EmitUnlocked ==
  /\ ~emitted
  /\ emitted' = TRUE
  /\ db' = [t \in Tasks |-> AfterEmit(db[t])]
  /\ UNCHANGED <<due, ctx, faults>>

\* emit_event.  The upsert of the event's row waits for the FOR SHARE locks.
EmitEvent ==
  /\ ~emitted
  /\ \A w \in Workers : ~Locking(w)
  /\ emitted' = TRUE
  /\ db' = [t \in Tasks |-> AfterEmit(db[t])]
  /\ UNCHANGED <<due, ctx, faults>>

\* cancel_task.
CancelTask(t) ==
  /\ Fault("cancel")
  /\ db[t].state \in Live
  /\ RowFree(t)
  /\ db' = [db EXCEPT ![t] = AfterCancel(@)]
  /\ UNCHANGED <<emitted, due, ctx>>

\* retry_task.
RetryTask(t) ==
  /\ db[t].state = "failed"
  /\ Len(db[t].runs) < MaxRuns
  /\ db' = [db EXCEPT ![t] = AfterRetry(@)]
  /\ UNCHANGED <<emitted, due, ctx, faults>>

\* available_at comes: a sleep ends, a wait times out, a retry delay is over.
\* The wake-up time a sleep has stored may also come while its run is awake.
SleepStored(t) == \E k \in Steps : Program[k] = "sleep" /\ db[t].ckpt[k] # 0
TimePasses(t) ==
  /\ \/ \E n \in DOMAIN db[t].runs :
          /\ db[t].runs[n].state = "sleeping"
          /\ db[t].runs[n].avail = "later"
          /\ db' = [db EXCEPT ![t].runs[n].avail = "now"]
     \/ SleepStored(t) /\ ~due[t] /\ UNCHANGED db
  /\ due' = [due EXCEPT ![t] = SleepStored(t)]
  /\ UNCHANGED <<emitted, ctx, faults>>

\* claim_expires_at passes: nobody has extended the claim in time, because
\* the slot is gone or, as a fault, because it stalls.
LeaseLapses(t) ==
  \E n \in DOMAIN db[t].runs :
    /\ db[t].runs[n].state = "running"
    /\ db[t].runs[n].lease = "live"
    /\ IF \E w \in Workers : Busy(w) /\ ctx[w].t = t /\ ctx[w].n = n
         THEN Fault("lapse")
         ELSE UNCHANGED faults
    /\ db' = [db EXCEPT ![t].runs[n].lease = "lapsed"]
    /\ UNCHANGED <<emitted, due, ctx>>

-----------------------------------------------------------------------------
(* A worker slot: worker_loop and execute_task.                            *)

Lapsed == {x \in Tasks \X (1..MaxRuns) :
             /\ x[2] \in DOMAIN db[x[1]].runs
             /\ db[x[1]].runs[x[2]].state = "running"
             /\ db[x[1]].runs[x[2]].lease = "lapsed"
             /\ RowFree(x[1])}

\* Mutant: lapsed leases are left alone.
NoSweep == {db}

\* The sweep at the start of claim_task, bounded by the batch size of one:
\* one run with a lapsed lease is failed.
Swept == IF Lapsed = {} THEN {db}
                        ELSE {[db EXCEPT ![x[1]] = AfterFail(@, x[2])] : x \in Lapsed}

Claimable(d, t, n) ==
  /\ n \in DOMAIN d[t].runs
  /\ d[t].runs[n].state \in {"pending", "sleeping"}
  /\ d[t].runs[n].avail = "now"
  /\ d[t].state \in Live
  /\ RowFree(t)

\* claim_task: a sweep and a claim in one transaction.
ClaimTask(w) ==
  /\ ctx[w] = Idle
  /\ \E d \in Swept, t \in Tasks, n \in 1..MaxRuns :
       /\ Claimable(d, t, n)
       /\ db' = [d EXCEPT ![t] = AfterClaim(@, n)]
       /\ ctx' = [ctx EXCEPT ![w] = [Idle EXCEPT !.pc = "load", !.t = t, !.n = n]]
  /\ UNCHANGED <<emitted, due, faults>>

\* claim_task returns no run; the sweep it made stays.
ClaimNothing(w) ==
  /\ ctx[w] = Idle
  /\ Lapsed # {}
  /\ \E d \in Swept :
       /\ \A t \in Tasks, n \in 1..MaxRuns : ~Claimable(d, t, n)
       /\ db' = d
  /\ UNCHANGED <<emitted, due, ctx, faults>>

At(w, pc) == ctx[w].pc = pc
Goto(w, pc) == ctx' = [ctx EXCEPT ![w].pc = pc]
Leave(w) == ctx' = [ctx EXCEPT ![w] = Idle]
Keep == UNCHANGED <<emitted, due, faults>>

\* TaskContext::create: the checkpoints of this and of earlier attempts.
LoadCheckpoints(w) ==
  /\ At(w, "load")
  /\ ctx' = [ctx EXCEPT ![w].pc = "op", ![w].k = 1,
                        ![w].seen = [k \in Steps |->
                          IF db[ctx[w].t].ckpt[k] <= ctx[w].n
                            THEN db[ctx[w].t].ckpt[k] ELSE 0]]
  /\ UNCHANGED db /\ Keep

\* A claimed run that this process does not start: the task is not registered
\* here and the run is deferred; it cannot be deferred, is registered for
\* another queue or has headers that do not parse, and fails; or loading its
\* checkpoints fails and the run is left to its lease.
RefuseRun(w) ==
  /\ At(w, "load")
  /\ \/ /\ Fault("unknown")
        /\ RunOf(w).state = "running"
        /\ db' = [db EXCEPT ![ctx[w].t] = AfterSchedule(@, ctx[w].n)]
        /\ Leave(w)
     \/ Fault("unknown") /\ Goto(w, "error") /\ UNCHANGED db
     \/ Fault("load") /\ Leave(w) /\ UNCHANGED db
  /\ UNCHANGED <<emitted, due>>

Known(w) == LET c == ctx[w] IN IF c.seen[c.k] # 0 THEN c.seen[c.k] ELSE db[c.t].ckpt[c.k]
Op(w) == Program[ctx[w].k]
AtOp(w) == At(w, "op") /\ ctx[w].k \in Steps

\* lookup_checkpoint finds the operation done; a sleep also has to be over.
Replay(w) ==
  /\ AtOp(w)
  /\ Known(w) # 0
  /\ Op(w) = "sleep" => due[ctx[w].t]
  /\ ctx' = [ctx EXCEPT ![w].seen[ctx[w].k] = Known(w), ![w].k = @ + 1]
  /\ UNCHANGED db /\ Keep

\* No checkpoint: a step runs its body, which may fail; a sleep computes its
\* wake-up time.  Both then store their value.  A turn is not checkpointed.
Begin(w) ==
  /\ AtOp(w)
  /\ Known(w) = 0
  /\ \/ Op(w) \in {"step", "sleep"} /\ Goto(w, "put") /\ UNCHANGED faults
     \/ Op(w) = "turn" /\ Goto(w, "turn") /\ UNCHANGED faults
     \/ Op(w) = "step" /\ Fault("handler") /\ Goto(w, "error")
  /\ UNCHANGED <<db, emitted, due>>

\* sleep_until with a wake-up time in the future: schedule_run and suspend.
SleepOn(w) ==
  /\ AtOp(w)
  /\ Op(w) = "sleep" /\ Known(w) # 0 /\ ~due[ctx[w].t]
  /\ RowFree(ctx[w].t)
  /\ IF RunOf(w).state = "running"
       THEN /\ db' = [db EXCEPT ![ctx[w].t] = AfterSchedule(@, ctx[w].n)]
            /\ Leave(w)
       ELSE UNCHANGED db /\ Goto(w, "error")
  /\ Keep

\* set_task_checkpoint_state: refused once the task is cancelled or the run
\* failed; otherwise it extends the claim and writes unless a later attempt
\* owns the checkpoint.
Refused(w) == db[ctx[w].t].state = "cancelled" \/ RunOf(w).state = "failed"
Owns(w) == ctx[w].n >= db[ctx[w].t].ckpt[ctx[w].k]
Extended(run) == IF run.state = "running" THEN [run EXCEPT !.lease = "live"] ELSE run
Passed(w) ==
  ctx' = [ctx EXCEPT ![w].pc = "op", ![w].seen[ctx[w].k] = ctx[w].n,
                     ![w].k = IF Op(w) = "sleep" THEN @ ELSE @ + 1]
\* Mutant: the last write wins.
PutBlindly(w) ==
  /\ At(w, "put")
  /\ RowFree(ctx[w].t)
  /\ db' = [db EXCEPT ![ctx[w].t].ckpt[ctx[w].k] = ctx[w].n]
  /\ Passed(w)
  /\ Keep
PutCheckpoint(w) ==
  /\ At(w, "put")
  /\ RowFree(ctx[w].t)
  /\ \/ Refused(w) /\ UNCHANGED db /\ Goto(w, "error")
     \/ /\ ~Refused(w)
        /\ db' = [db EXCEPT
                    ![ctx[w].t].runs[ctx[w].n] = Extended(@),
                    ![ctx[w].t].ckpt[ctx[w].k] = IF Owns(w) THEN ctx[w].n ELSE @]
        /\ Passed(w)
  /\ Keep

\* The same call, stalled between its statements.  Its first read takes no
\* lock; only the extension of a run that still runs does, and then the rest
\* is as above.  After a lost race the comparison with the owner and the
\* write are separate statements too.
StallPut(w) ==
  /\ At(w, "put") /\ ~Refused(w)
  /\ Fault("stall")
  /\ Goto(w, "checked")
  /\ UNCHANGED <<db, emitted, due>>
ComparePut(w) ==
  /\ At(w, "checked")
  /\ RowFree(ctx[w].t)
  /\ IF RunOf(w).state = "running"
       THEN /\ db' = [db EXCEPT
                        ![ctx[w].t].runs[ctx[w].n] = Extended(@),
                        ![ctx[w].t].ckpt[ctx[w].k] = IF Owns(w) THEN ctx[w].n ELSE @]
            /\ Passed(w)
       ELSE /\ UNCHANGED db
            /\ IF Owns(w) THEN Goto(w, "compared") ELSE Passed(w)
  /\ Keep
LatePut(w) ==
  /\ At(w, "compared")
  /\ db' = [db EXCEPT ![ctx[w].t].ckpt[ctx[w].k] = ctx[w].n]
  /\ Passed(w)
  /\ Keep

\* await_event up to its locks and the reading of the payload.
AwaitEvent(w) ==
  /\ AtOp(w)
  /\ Op(w) \in {"event", "timed"} /\ Known(w) = 0
  /\ RowFree(ctx[w].t)
  /\ Goto(w, IF db[ctx[w].t].state = "cancelled" \/ RunOf(w).state # "running"
               THEN "error"
               ELSE IF emitted THEN "resolved" ELSE "unresolved")
  /\ UNCHANGED db /\ Keep

\* The event is there: it becomes the checkpoint.
ResolveEvent(w) ==
  /\ At(w, "resolved")
  /\ db' = [db EXCEPT ![ctx[w].t].ckpt[ctx[w].k] = ctx[w].n]
  /\ Passed(w)
  /\ Keep

\* The run was woken by its timeout.  The handler gets an error, which it may
\* catch; no checkpoint records it.
TimeOut(w) ==
  /\ At(w, "unresolved")
  /\ RunOf(w).wake
  /\ db' = [db EXCEPT ![ctx[w].t].runs[ctx[w].n].wake = FALSE]
  /\ \/ ctx' = [ctx EXCEPT ![w].pc = "op", ![w].k = @ + 1]
     \/ Goto(w, "error")
  /\ Keep

\* The wait is registered and the handler suspends.  If the reply is lost the
\* handler takes it for an error.
RegisterWait(w) ==
  /\ At(w, "unresolved")
  /\ ~RunOf(w).wake
  /\ db' = [db EXCEPT ![ctx[w].t] = AfterWait(@, ctx[w].n, ctx[w].k)]
  /\ \/ Leave(w) /\ UNCHANGED faults
     \/ Fault("reply") /\ Goto(w, "error")
  /\ UNCHANGED <<emitted, due>>

\* heartbeat: extend_claim.
Heartbeat(w) ==
  /\ Busy(w)
  /\ RunOf(w).state = "running" /\ RunOf(w).lease = "lapsed"
  /\ RowFree(ctx[w].t)
  /\ db' = [db EXCEPT ![ctx[w].t].runs[ctx[w].n].lease = "live"]
  /\ UNCHANGED ctx /\ Keep

\* The handler has returned: complete_run, refused unless the run is running.
Complete(w) ==
  /\ At(w, "op") /\ ctx[w].k > Len(Program)
  /\ RowFree(ctx[w].t)
  /\ db' = IF RunOf(w).state = "running"
             THEN [db EXCEPT ![ctx[w].t] = AfterComplete(@, ctx[w].n)] ELSE db
  /\ Leave(w)
  /\ Keep

\* Mutant: whatever has become of the run.
FailAnyRun(w) ==
  /\ At(w, "error")
  /\ RowFree(ctx[w].t)
  /\ db' = [db EXCEPT ![ctx[w].t] = AfterFail(@, ctx[w].n)]
  /\ Leave(w)
  /\ Keep

\* The handler has failed, or the run was refused: fail_run, itself refused
\* unless the run is running or asleep.
FailRun(w) ==
  /\ At(w, "error")
  /\ RowFree(ctx[w].t)
  /\ db' = IF RunOf(w).state \in {"running", "sleeping"}
             THEN [db EXCEPT ![ctx[w].t] = AfterFail(@, ctx[w].n)] ELSE db
  /\ Leave(w)
  /\ Keep

\* wait_for_run_cancellation wins the race with the handler.  A call that the
\* database has begun is finished there.
SeeCancellation(w) ==
  /\ Busy(w) /\ ctx[w].pc \notin {"load", "checked", "compared"} /\ ~Locking(w)
  /\ RunOf(w).state \in {"cancelled", "failed"}
  /\ Leave(w)
  /\ UNCHANGED db /\ Keep

\* The worker's process dies.
Crash(w) ==
  /\ Busy(w)
  /\ Fault("crash")
  /\ Leave(w)
  /\ UNCHANGED <<db, emitted, due>>

Execute(w) ==
  \/ LoadCheckpoints(w) \/ Replay(w) \/ Begin(w) \/ SleepOn(w)
  \/ PutCheckpoint(w) \/ ComparePut(w) \/ LatePut(w)
  \/ AwaitEvent(w) \/ ResolveEvent(w) \/ TimeOut(w) \/ RegisterWait(w)
  \/ Complete(w) \/ FailRun(w)

Next ==
  \/ EmitEvent
  \/ \E t \in Tasks : Spawn(t) \/ CancelTask(t) \/ RetryTask(t)
                        \/ TimePasses(t) \/ LeaseLapses(t)
  \/ \E w \in Workers : \/ ClaimTask(w) \/ ClaimNothing(w) \/ Execute(w)
                        \/ RefuseRun(w) \/ StallPut(w) \/ Heartbeat(w)
                        \/ SeeCancellation(w) \/ Crash(w)

Spec == Init /\ [][Next]_qvars

\* Workers poll and handlers go on; time passes.  Callers owe nothing.
Fairness ==
  /\ \A w \in Workers : WF_qvars(ClaimTask(w) \/ ClaimNothing(w)) /\ WF_qvars(Execute(w))
  /\ \A t \in Tasks : WF_qvars(TimePasses(t)) /\ WF_qvars(LeaseLapses(t))

FairSpec == Spec /\ Fairness

-----------------------------------------------------------------------------
(* Properties.                                                             *)

RunType == [state : Live \cup Ended, avail : {"now", "later", "never"},
            lease : {"none", "live", "lapsed"}, wake : BOOLEAN]
WaitType == [run : 1..MaxRuns, step : Steps, timed : BOOLEAN]
Values == [Steps -> 0..MaxRuns]
Pcs == {"idle", "load", "op", "put", "checked", "compared", "resolved",
        "unresolved", "turn", "error"}

\* Every variable stays in its domain; a busy slot refers to a run that exists.
TypeOK ==
  /\ \A t \in Tasks :
       /\ db[t].state \in Live \cup Ended \cup {None}
       /\ db[t].max \in MaxAttempts..MaxRuns
       /\ db[t].runs \in Seq(RunType) /\ Len(db[t].runs) <= db[t].max
       /\ db[t].waits \subseteq WaitType
       /\ db[t].ckpt \in Values
  /\ emitted \in BOOLEAN
  /\ due \in [Tasks -> BOOLEAN]
  /\ faults \subseteq Faults
  /\ \A w \in Workers :
       /\ ctx[w].pc \in Pcs
       /\ ctx[w].seen \in Values
       /\ Busy(w) => /\ ctx[w].t \in Tasks
                     /\ ctx[w].n \in DOMAIN db[ctx[w].t].runs
                     /\ ctx[w].k \in 0..(Len(Program) + 1)

\* A task that has not ended has exactly one live run, its last; an ended task
\* has none, and the runs before the last have failed.  Retries, sweeps,
\* cancellations and late answers of superseded workers all go through these
\* rows; two live runs of one task would execute it twice at once.
OneLiveRun ==
  \A t \in Tasks :
    LET runs == db[t].runs
    IN \A n \in DOMAIN runs :
         /\ n < Len(runs) => runs[n].state = "failed"
         /\ n = Len(runs) => \/ runs[n].state = db[t].state
                             \/ runs[n].state \in Live /\ db[t].state \in Live

\* No run sleeps on an event that has been emitted, unless its timeout has
\* passed and it may be claimed: await_event reads the payload and registers
\* its wait under the lock that emit_event's upsert has to wait for.
NoLostWakeup ==
  emitted => \A t \in Tasks : Woken(db[t]) = {}

\* What an operation has returned to a handler of the current run is what the
\* checkpoint says, so that a replay by this run or a later one takes the same
\* way.  (A call of set_task_checkpoint_state that stalls between its
\* statements may overwrite the checkpoint of a later attempt.)
ReplayAgrees ==
  "stall" \notin faults =>
    \A w \in Workers : Busy(w) /\ RunOf(w).state = "running" =>
      \A k \in Steps : ctx[w].seen[k] # 0 => ctx[w].seen[k] = db[ctx[w].t].ckpt[k]

\* Once its event has been emitted, every spawned task ends, whatever the
\* workers in between did to it.
TaskEnds == \A t \in Tasks : (emitted /\ db[t].state # None) ~> db[t].state \in Ended
=============================================================================
