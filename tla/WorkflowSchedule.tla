-------------------------- MODULE WorkflowSchedule --------------------------
(***************************************************************************)
(* One workflow schedule (crates/centaur-workflows): the tick tasks that   *)
(* fire it, the reconciler on each replica that keeps a tick waiting, and  *)
(* the reaper that cancels the tasks of workflows that have gone.  A tick  *)
(* and a fired run are tasks of the durable queue under idempotency keys   *)
(* made of the schedule's id and the slot: a key is used once, whatever    *)
(* became of its task.  Replicas discover workflows on their own disks,    *)
(* which differ during a deployment.                                       *)
(***************************************************************************)
EXTENDS Naturals, FiniteSets

CONSTANTS
  Replicas,     \* api-server processes
  Kind,         \* "cron" or "interval"
  Period,       \* distance of two slots
  Horizon,      \* bound on the clock
  MaxAttempts,  \* max_attempts of a tick
  Threshold,    \* WORKFLOW_REAP_REMOVED_AFTER_TICKS
  Changes,      \* what a disk may change to
  MaxTrouble    \* bound on changes of disks and on crashes, lapsed leases and
                \* failed calls together

\* Discovery: the schedule is on, off or not listed; the workflow is gone;
\* nothing at all is found; the discovery process fails.
Finds == {"on", "off", "unlisted", "gone", "empty", "error"}

ASSUME ScheduleAssumption ==
  /\ Kind \in {"cron", "interval"}
  /\ Period \in Nat \ {0}
  /\ Horizon \in Nat \ {0}
  /\ MaxAttempts \in Nat \ {0}
  /\ Threshold \in Nat \ {0}
  /\ Changes \subseteq Finds
  /\ MaxTrouble \in Nat

VARIABLES
  now,       \* the clock
  disk,      \* per replica: what discovery would find
  registry,  \* per replica: the schedule registry
  pass,      \* per replica: where its reconcile pass is, and the slot it chose
  miss,      \* per replica: miss counts of the reaper, for runs and for ticks
  tick,      \* per slot: the tick task
  run,       \* per slot: the workflow task under the slot's fire key
  exec,      \* per replica: the tick its schedule worker executes
  changes, faults

vars == <<now, disk, registry, pass, miss, tick, run, exec, changes, faults>>

Slots == 1..(Horizon + Period)
Listed(x) == x \in {"on", "off"}
Discovered(x) == x \in {"on", "off", "unlisted"}
Ended == {"completed", "failed", "cancelled"}
Active(x) == x.state \in {"pending", "running"}
NoTask == [state |-> "none", attempt |-> 0]
Over(state) == [state |-> state, attempt |-> 0]
NoExec == [pc |-> "idle", slot |-> 0, attempt |-> 0, next |-> 0]
Between == [at |-> "idle", next |-> 0]

Init ==
  /\ now = 1
  /\ disk = [r \in Replicas |-> "on"]
  /\ registry = [r \in Replicas |-> "on"]
  /\ pass = [r \in Replicas |-> Between]
  /\ miss = [r \in Replicas |-> [runs |-> 0, ticks |-> 0]]
  /\ tick = [s \in Slots |-> NoTask]
  /\ run = [s \in Slots |-> "none"]
  /\ exec = [r \in Replicas |-> NoExec]
  /\ changes = 0 /\ faults = 0

-----------------------------------------------------------------------------
(* Slots.                                                                  *)

\* Mutant: a cron schedule counted from the time of the call.
NextFromCall(after) == after + Period

\* next_schedule_time: a cron expression has fixed slots, an interval counts
\* from the time of the call.
NextSlot(after) ==
  IF Kind = "cron" THEN Period * (after \div Period + 1) ELSE after + Period

\* next_schedule_time_after_tick: an interval keeps its phase and skips the
\* slots it has missed.
NextAfterTick(slot, at) ==
  IF Kind = "cron" THEN NextSlot(at)
  ELSE IF slot + Period > at THEN slot + Period
       ELSE slot + Period * ((at - slot) \div Period + 1)

\* spawn of a tick: a key that exists, in whatever state, is left alone.
Spawned(s) == IF tick[s] = NoTask THEN [tick EXCEPT ![s] = [state |-> "pending", attempt |-> 1]]
                                  ELSE tick

-----------------------------------------------------------------------------
(* The reconciler of a replica.                                            *)

At(r, at) == pass[r].at = at

\* Mutant: ended ticks count as active.
EnsureAnyTick(x, other) ==
  IF x # "on" \/ \E s \in Slots : tick[s] # NoTask
    THEN [at |-> other, next |-> 0]
    ELSE [at |-> "spawn", next |-> NextSlot(now)]

\* reconcile_schedules up to its decision: for an enabled schedule the next
\* slot and has_active_schedule_tick.
EnsureTick(x, other) ==
  IF x # "on" \/ \E s \in Slots : Active(tick[s])
    THEN [at |-> other, next |-> 0]
    ELSE [at |-> "spawn", next |-> NextSlot(now)]

\* A pass begins: discover_python_workflow_metadata, the writing of the
\* registries, reconcile_schedules.
Discover(r) ==
  /\ At(r, "idle")
  /\ disk[r] # "error"
  /\ registry' = [registry EXCEPT ![r] = disk[r]]
  /\ pass' = [pass EXCEPT ![r] = EnsureTick(disk[r], "reap")]
  /\ UNCHANGED <<now, disk, miss, tick, run, exec, changes, faults>>

SpawnTick(r) ==
  /\ At(r, "spawn")
  /\ tick' = Spawned(pass[r].next)
  /\ pass' = [pass EXCEPT ![r] = [at |-> "reap", next |-> 0]]
  /\ UNCHANGED <<now, disk, registry, miss, run, exec, changes, faults>>

\* Mutant: a name counts as missing once only.
MissOnce(count, known, active) == IF known \/ ~active THEN 0 ELSE 1

\* select_stale_cancellations for one name: its count while active tasks
\* refer to it and it is not known.
MissCount(count, known, active) == IF known \/ ~active THEN 0 ELSE count + 1

\* RemovedWorkflowReaper::reap.  The runs go by the discovered workflows, the
\* ticks by the schedule registry; a cancelled task has ended.
Reap(r) ==
  LET runs == {s \in Slots : run[s] = "active"}
      ticks == {s \in Slots : Active(tick[s])}
      m == [runs |-> MissCount(miss[r].runs, Discovered(registry[r]), runs # {}),
            ticks |-> MissCount(miss[r].ticks, Listed(registry[r]), ticks # {})]
  IN /\ At(r, "reap")
     /\ pass' = [pass EXCEPT ![r] = Between]
     /\ IF registry[r] = "empty"
          THEN UNCHANGED <<miss, tick, run>>
          ELSE /\ miss' = [miss EXCEPT ![r] = [runs |-> IF m.runs > Threshold THEN Threshold ELSE m.runs,
                                               ticks |-> IF m.ticks > Threshold THEN Threshold ELSE m.ticks]]
               /\ run' = [s \in Slots |-> IF s \in runs /\ m.runs >= Threshold
                                            THEN "over" ELSE run[s]]
               /\ tick' = [s \in Slots |-> IF s \in ticks /\ m.ticks >= Threshold
                                             THEN Over("cancelled")
                                             ELSE tick[s]]
     /\ UNCHANGED <<now, disk, registry, exec, changes, faults>>

\* A query of the pass fails: the rest of the pass, the reaper included, is
\* left out.
PassFails(r) ==
  /\ pass[r].at # "idle"
  /\ changes + faults < MaxTrouble
  /\ faults' = faults + 1
  /\ pass' = [pass EXCEPT ![r] = Between]
  /\ UNCHANGED <<now, disk, registry, miss, tick, run, exec, changes>>

-----------------------------------------------------------------------------
(* The schedule worker of a replica: run_schedule_tick.                    *)

\* The tick is claimed when its sleep is over; the handler reads the registry.
\* (The sleep that precedes it keeps the tick pending: see SleepFails.)
ClaimTick(r) ==
  /\ exec[r] = NoExec
  /\ \E s \in Slots :
       /\ s <= now
       /\ tick[s].state = "pending"
       /\ tick' = [tick EXCEPT ![s].state = "running"]
       /\ exec' = [exec EXCEPT ![r] = [pc |-> IF registry[r] = "on" THEN "fire" ELSE "done",
                                       slot |-> s, attempt |-> tick[s].attempt, next |-> 0]]
  /\ UNCHANGED <<now, disk, registry, pass, miss, run, changes, faults>>

\* The workflow is spawned under the slot's fire key; then the next slot is
\* computed.
Fire(r) ==
  /\ exec[r].pc = "fire"
  /\ run' = [run EXCEPT ![exec[r].slot] = IF @ = "none" THEN "active" ELSE @]
  /\ exec' = [exec EXCEPT ![r].pc = "next", ![r].next = NextAfterTick(exec[r].slot, now)]
  /\ UNCHANGED <<now, disk, registry, pass, miss, tick, changes, faults>>

\* Mutant: the successor is spawned as the reconciler does, unless a tick is
\* active, and this one is.
SpawnNextIfNone(r) ==
  /\ exec[r].pc = "next"
  /\ tick' = IF \E s \in Slots : Active(tick[s]) THEN tick ELSE Spawned(exec[r].next)
  /\ exec' = [exec EXCEPT ![r].pc = "done"]
  /\ UNCHANGED <<now, disk, registry, pass, miss, run, changes, faults>>

SpawnNext(r) ==
  /\ exec[r].pc = "next"
  /\ tick' = Spawned(exec[r].next)
  /\ exec' = [exec EXCEPT ![r].pc = "done"]
  /\ UNCHANGED <<now, disk, registry, pass, miss, run, changes, faults>>

\* complete_run of this attempt.
Holds(r) == LET x == tick[exec[r].slot]
            IN x.state = "running" /\ x.attempt = exec[r].attempt
CompleteTick(r) ==
  /\ exec[r].pc = "done"
  /\ tick' = IF Holds(r) THEN [tick EXCEPT ![exec[r].slot] = Over("completed")] ELSE tick
  /\ exec' = [exec EXCEPT ![r] = NoExec]
  /\ UNCHANGED <<now, disk, registry, pass, miss, run, changes, faults>>

\* Mutant: one attempt too many.
FailedLate(s) ==
  IF tick[s].attempt <= MaxAttempts
    THEN [tick EXCEPT ![s] = [state |-> "pending", attempt |-> @.attempt + 1]]
    ELSE [tick EXCEPT ![s] = Over("failed")]

\* An attempt fails: a call of the handler returned an error, or the lease
\* lapsed and a sweep failed the run while its handler went on.
FailedTick(s) ==
  IF tick[s].attempt < MaxAttempts
    THEN [tick EXCEPT ![s] = [state |-> "pending", attempt |-> @.attempt + 1]]
    ELSE [tick EXCEPT ![s] = Over("failed")]
TickFails(r) ==
  /\ exec[r].pc \in {"fire", "next"}
  /\ changes + faults < MaxTrouble
  /\ faults' = faults + 1
  /\ tick' = IF Holds(r) THEN FailedTick(exec[r].slot) ELSE tick
  /\ exec' = [exec EXCEPT ![r] = NoExec]
  /\ UNCHANGED <<now, disk, registry, pass, miss, run, changes>>

\* Before its slot a tick is claimed once, to be put to sleep: sleep_until
\* fails, or its worker does, and the attempt is lost.
SleepFails(s) ==
  /\ s > now
  /\ tick[s].state = "pending"
  /\ changes + faults < MaxTrouble
  /\ faults' = faults + 1
  /\ tick' = FailedTick(s)
  /\ UNCHANGED <<now, disk, registry, pass, miss, run, exec, changes>>

LeaseLapses(s) ==
  /\ tick[s].state = "running"
  /\ IF \E r \in Replicas : exec[r].slot = s /\ exec[r].attempt = tick[s].attempt
       THEN changes + faults < MaxTrouble /\ faults' = faults + 1
       ELSE UNCHANGED faults
  /\ tick' = FailedTick(s)
  /\ UNCHANGED <<now, disk, registry, pass, miss, run, exec, changes>>

\* The process restarts: WorkflowRuntime::new discovers and reconciles; the
\* reaper's counts start anew and there is no reaping in this first pass.
Restart(r) ==
  /\ changes + faults < MaxTrouble
  /\ disk[r] # "error"
  /\ faults' = faults + 1
  /\ registry' = [registry EXCEPT ![r] = disk[r]]
  /\ pass' = [pass EXCEPT ![r] = EnsureTick(disk[r], "idle")]
  /\ miss' = [miss EXCEPT ![r] = [runs |-> 0, ticks |-> 0]]
  /\ exec' = [exec EXCEPT ![r] = NoExec]
  /\ UNCHANGED <<now, disk, tick, run, changes>>

-----------------------------------------------------------------------------
(* The world: the clock, the disks, the workflow runs.                     *)

Advance ==
  /\ now < Horizon
  /\ now' = now + 1
  /\ UNCHANGED <<disk, registry, pass, miss, tick, run, exec, changes, faults>>

\* A deployment, or a directory that fails to mount, on some of the replicas.
ChangeDisk ==
  /\ changes + faults < MaxTrouble
  /\ \E rs \in SUBSET Replicas \ {{}}, x \in Changes :
       /\ \A r \in rs : disk[r] # x
       /\ disk' = [r \in Replicas |-> IF r \in rs THEN x ELSE disk[r]]
  /\ changes' = changes + 1
  /\ UNCHANGED <<now, registry, pass, miss, tick, run, exec, faults>>

\* A run ends where some replica has its workflow; elsewhere its attempts
\* fail with "unknown workflow_name" and are retried.
RunEnds(s) ==
  /\ run[s] = "active"
  /\ \E r \in Replicas : Discovered(disk[r])
  /\ run' = [run EXCEPT ![s] = "over"]
  /\ UNCHANGED <<now, disk, registry, pass, miss, tick, exec, changes, faults>>

Reconcile(r) == Discover(r) \/ SpawnTick(r) \/ Reap(r)
Execute(r) == ClaimTick(r) \/ Fire(r) \/ SpawnNext(r) \/ CompleteTick(r)

Next ==
  \/ Advance \/ ChangeDisk
  \/ \E r \in Replicas : \/ Reconcile(r) \/ Execute(r) \/ PassFails(r) \/ TickFails(r)
                         \/ Restart(r)
  \/ \E s \in Slots : SleepFails(s) \/ LeaseLapses(s) \/ RunEnds(s)

Spec == Init /\ [][Next]_vars

\* Time passes, reconcilers and workers are loops, an abandoned claim lapses.
Fairness ==
  /\ WF_vars(Advance)
  /\ \A r \in Replicas : WF_vars(Reconcile(r)) /\ WF_vars(Execute(r))
  /\ \A s \in Slots : WF_vars(LeaseLapses(s))

FairSpec == Spec /\ Fairness

-----------------------------------------------------------------------------
(* Properties.                                                             *)

\* Every variable stays in its domain.
TypeOK ==
  /\ now \in 1..Horizon
  /\ disk \in [Replicas -> Finds] /\ registry \in [Replicas -> Finds \ {"error"}]
  /\ pass \in [Replicas -> [at : {"idle", "spawn", "reap"}, next : Slots \cup {0}]]
  /\ miss \in [Replicas -> [runs : 0..Threshold, ticks : 0..Threshold]]
  /\ tick \in [Slots -> [state : {"none", "pending", "running"} \cup Ended,
                         attempt : 0..MaxAttempts]]
  /\ run \in [Slots -> {"none", "active", "over"}]
  /\ exec \in [Replicas -> [pc : {"idle", "fire", "next", "done"}, slot : Slots \cup {0},
                            attempt : 0..MaxAttempts, next : Slots \cup {0}]]
  /\ changes \in 0..MaxTrouble /\ faults \in 0..MaxTrouble

\* The ticks of a cron schedule that wait for a slot to come wait for the same
\* one.  Reconcilers check for a tick and spawn one in two statements, and a
\* late tick computes its successor from the clock: chains that start twice
\* have to merge, or every slot would be followed by several ticks.
OneWaitingTick ==
  \A s1, s2 \in Slots :
    Active(tick[s1]) /\ Active(tick[s2]) /\ s1 > now /\ s2 > now => s1 = s2

\* While every replica has the schedule on, a chain of ticks that has begun
\* goes on without a gap unless a tick uses up its attempts: a tick ends only
\* when its successor is there, over crashes, lapsed leases and late handlers.
ChainUnbroken ==
  (/\ changes = 0
   /\ \E s \in Slots : tick[s] # NoTask
   /\ \A s \in Slots : tick[s].state # "failed") => \E s \in Slots : Active(tick[s])

\* When all disks have the schedule on for good, it always gets a tick again:
\* after it was off or away, after ticks were cancelled or used up their
\* attempts.  The exception is a slot whose key is used up.
TickReturns ==
  <>[](\A r \in Replicas : disk[r] = "on") =>
    []<>(\/ \E s \in Slots : Active(tick[s])
         \/ tick[NextSlot(now)].state \in Ended)

\* When the workflow is gone from all disks for good, its ticks and runs end.
GoneIsReaped ==
  <>[](\A r \in Replicas : disk[r] = "gone") =>
    <>[](\A s \in Slots : ~Active(tick[s]) /\ run[s] # "active")
=============================================================================
