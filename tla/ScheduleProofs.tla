--------------------------- MODULE ScheduleProofs ---------------------------
(***************************************************************************)
(* Ticks of a schedule, for any replicas, period, horizon, attempts and    *)
(* trouble: those of a cron schedule that still wait all wait for one      *)
(* slot, and a chain that has begun goes on while the disks do not change. *)
(***************************************************************************)
EXTENDS WorkflowSchedule, TLAPS

(* Integer division by the period, in terms of products. *)
LEMMA Division ==
    ASSUME NEW a \in Nat
    PROVE  \E q \in Nat : /\ a \div Period = q
                          /\ Period * q <= a /\ a < Period * q + Period
                          /\ Period * (q + 1) = Period * q + Period
                          /\ Period * q \in Nat
<1>1. Period \in Nat /\ Period > 0
  BY ScheduleAssumption
<1>2. QED BY <1>1

(* Between two consecutive multiples of the period there is none. *)
LEMMA Multiples ==
    ASSUME NEW j \in Nat, NEW k \in Nat, Period * j < Period * k
    PROVE  Period * j + Period <= Period * k
<1>1. Period \in Nat /\ Period > 0
  BY ScheduleAssumption
<1>2. QED BY <1>1
(* The next slot is after the time it is computed from, by at most a period. *)
LEMMA SlotIsNear ==
    ASSUME NEW a \in Nat
    PROVE  NextSlot(a) \in Nat /\ a < NextSlot(a) /\ NextSlot(a) <= a + Period
<1>1. Period \in Nat /\ Period > 0
  BY ScheduleAssumption
<1>2. QED BY <1>1, Division DEF NextSlot

(* The slot a tick computes for its successor is ahead of the clock, hence of
   its own slot, which has come. *)
LEMMA SuccessorIsNear ==
    ASSUME NEW slot \in Nat, NEW at \in Nat, slot <= at
    PROVE  /\ NextAfterTick(slot, at) \in Nat /\ at < NextAfterTick(slot, at)
           /\ NextAfterTick(slot, at) <= at + Period
<1>1. Period \in Nat /\ Period > 0
  BY ScheduleAssumption
<1>2. CASE Kind = "cron"
  BY <1>2, SlotIsNear DEF NextAfterTick
<1>3. CASE Kind # "cron" /\ slot + Period > at
  BY <1>1, <1>3 DEF NextAfterTick
<1>4. CASE Kind # "cron" /\ ~(slot + Period > at)
  <2>1. at - slot \in Nat
    OBVIOUS
  <2>2. PICK q \in Nat : /\ (at - slot) \div Period = q
                         /\ Period * q <= at - slot /\ at - slot < Period * q + Period
                         /\ Period * (q + 1) = Period * q + Period
                         /\ Period * q \in Nat
    BY <2>1, Division
  <2>3. NextAfterTick(slot, at) = slot + (Period * q + Period)
    BY <1>4, <2>2 DEF NextAfterTick
  <2>4. QED BY <1>1, <2>2, <2>3
<1>5. QED BY <1>2, <1>3, <1>4

(* The slots of a cron expression are fixed: the next one is the first of them
   after the given time. *)
OnGrid(s) == \E k \in Nat : s = Period * k

(* NextSlot is the least multiple of the period above its argument. *)
LEMMA CronSlot ==
    ASSUME Kind = "cron", NEW a \in Nat
    PROVE  /\ OnGrid(NextSlot(a))
           /\ \A s \in Nat : OnGrid(s) /\ s > a => NextSlot(a) <= s
<1>0. Period \in Nat /\ Period > 0
  BY ScheduleAssumption
<1>1. PICK q \in Nat : /\ a \div Period = q
                       /\ Period * q <= a /\ a < Period * q + Period
                       /\ Period * (q + 1) = Period * q + Period
                       /\ Period * q \in Nat
  BY Division
<1>2. NextSlot(a) = Period * (q + 1) /\ q + 1 \in Nat
  BY <1>1 DEF NextSlot
<1>3. ASSUME NEW s \in Nat, OnGrid(s), s > a PROVE NextSlot(a) <= s
  <2>1. PICK k \in Nat : s = Period * k
    BY <1>3 DEF OnGrid
  <2>2. Period * q < Period * k
    BY <1>1, <1>3, <2>1
  <2>3. QED BY <1>1, <1>2, <2>1, <2>2, Multiples
<1>4. QED BY <1>2, <1>3 DEF OnGrid

(* Later times have later slots. *)
LEMMA CronSlotGrows ==
    ASSUME Kind = "cron", NEW a \in Nat, NEW b \in Nat, a <= b
    PROVE  NextSlot(a) <= NextSlot(b)
<1>1. NextSlot(b) \in Nat /\ NextSlot(b) > a /\ OnGrid(NextSlot(b))
  BY SlotIsNear, CronSlot
<1>2. QED BY <1>1, CronSlot
-----------------------------------------------------------------------------
(* The inductive invariant. *)

(* A pass that is about to spawn has a slot; a handler has the slot of its
   tick, which has come, and a later one for its successor. *)
Aimed ==
    \A r \in Replicas :
        /\ pass[r].at = "spawn" => pass[r].next \in Slots
        /\ exec[r].pc # "idle" => exec[r].slot \in Slots /\ exec[r].slot <= now
        /\ exec[r].pc = "next" => exec[r].next \in Slots /\ exec[r].next > exec[r].slot

(* Of a cron schedule, every tick there is or is about to be was computed from
   the clock: its slot is on the grid and not after the next one. *)
Due(s) == OnGrid(s) /\ s <= NextSlot(now)

OnTime ==
    Kind = "cron" =>
        /\ \A s \in Slots : tick[s] # NoTask => Due(s)
        /\ \A r \in Replicas : /\ pass[r].at = "spawn" => Due(pass[r].next)
                               /\ exec[r].pc = "next" => Due(exec[r].next)

(* A tick that is over, or whose handler is done, has a later one that is
   active or used up its attempts. *)
Followed(s) ==
    \E u \in Slots : u > s /\ (Active(tick[u]) \/ tick[u].state = "failed")

Chained ==
    /\ \A s \in Slots : tick[s].state = "none" => tick[s] = NoTask
    /\ changes = 0 =>
        /\ \A r \in Replicas : disk[r] = "on" /\ registry[r] = "on"
        /\ \A s \in Slots : /\ tick[s].state # "cancelled"
                            /\ tick[s].state = "completed" => Followed(s)
        /\ \A r \in Replicas : exec[r].pc = "done" => Followed(exec[r].slot)

Orderly == TypeOK /\ Aimed /\ OnTime /\ Chained

-----------------------------------------------------------------------------
(* What the steps write. *)

(* The values of the variables, by name. *)
Ticks == [state : {"none", "pending", "running"} \cup Ended, attempt : 0..MaxAttempts]

Times == now \in Nat /\ now <= Horizon /\ Horizon \in Nat /\ Period \in Nat

(* The types, as the steps below use them. *)
LEMMA TypesAre ==
    ASSUME TypeOK
    PROVE  /\ Times
           /\ \A s \in Slots : tick[s] \in Ticks /\ s \in Nat
           /\ tick \in [Slots -> Ticks]
           /\ NoTask \in Ticks /\ \A x \in Ended : Over(x) \in Ticks
           /\ [state |-> "pending", attempt |-> 1] \in Ticks
<1>1. MaxAttempts \in Nat /\ MaxAttempts > 0 /\ Horizon \in Nat /\ Period \in Nat
  BY ScheduleAssumption
<1>2. QED BY <1>1 DEF TypeOK, Ticks, Times, Slots, NoTask, Over, Ended

Execs == [pc : {"idle", "fire", "next", "done"}, slot : Slots \cup {0},
          attempt : 0..MaxAttempts, next : Slots \cup {0}]

(* What the schedule workers execute. *)
LEMMA ExecTypes ==
    ASSUME TypeOK
    PROVE  /\ exec \in [Replicas -> Execs] /\ NoExec \in Execs
           /\ \A r \in Replicas : [exec EXCEPT ![r] = NoExec] \in [Replicas -> Execs]
<1>1. exec \in [Replicas -> Execs]
  BY DEF TypeOK, Execs
<1>2. NoExec \in Execs
  BY ScheduleAssumption DEF NoExec, Execs
<1>3. QED BY <1>1, <1>2

(* The slots computed at the present time are within the horizon. *)
LEMMA SlotInRange ==
    ASSUME TypeOK
    PROVE  /\ NextSlot(now) \in Slots
           /\ \A slot \in Slots : slot <= now =>
                 NextAfterTick(slot, now) \in Slots /\ NextAfterTick(slot, now) > slot
<1>1. Times /\ \A slot \in Slots : slot \in Nat
  BY TypesAre
<1>2. NextSlot(now) \in Slots
  BY <1>1, SlotIsNear DEF Times, Slots
<1>3. ASSUME NEW slot \in Slots, slot <= now
      PROVE  NextAfterTick(slot, now) \in Slots /\ NextAfterTick(slot, now) > slot
  <2>1. /\ NextAfterTick(slot, now) \in Nat /\ now < NextAfterTick(slot, now)
        /\ NextAfterTick(slot, now) <= now + Period
    BY <1>1, <1>3, SuccessorIsNear DEF Times
  <2>2. QED BY <1>1, <1>3, <2>1 DEF Times, Slots
<1>4. QED BY <1>2, <1>3

(* The decision of a pass. *)
LEMMA Decision ==
    ASSUME NEW x, NEW other
    PROVE  \/ EnsureTick(x, other) = [at |-> other, next |-> 0]
           \/ EnsureTick(x, other) = [at |-> "spawn", next |-> NextSlot(now)]
BY DEF EnsureTick

(* A spawn leaves every tick there is, and the new one is pending. *)
LEMMA SpawnIs ==
    ASSUME TypeOK, Chained, NEW s \in Slots, tick' = Spawned(s)
    PROVE  /\ tick' \in [Slots -> Ticks]
           /\ \A u \in Slots : u # s => tick'[u] = tick[u]
           /\ tick[s] # NoTask => tick'[s] = tick[s]
           /\ tick[s] = NoTask => tick'[s].state = "pending"
           /\ tick'[s] # NoTask
<1>1. tick \in [Slots -> Ticks] /\ [state |-> "pending", attempt |-> 1] \in Ticks
  BY TypesAre
<1>2. QED BY <1>1 DEF Spawned, NoTask

(* A failed attempt is retried or is the last one. *)
LEMMA FailureIs ==
    ASSUME TypeOK, NEW s \in Slots, Active(tick[s]), tick' = FailedTick(s)
    PROVE  /\ tick' \in [Slots -> Ticks]
           /\ \A u \in Slots : u # s => tick'[u] = tick[u]
           /\ tick'[s].state \in {"pending", "failed"}
<1>1. tick \in [Slots -> Ticks] /\ Over("failed") \in Ticks
  BY TypesAre DEF Ended
<1>2. tick[s].attempt \in 0..MaxAttempts /\ MaxAttempts \in Nat
  BY <1>1, ScheduleAssumption DEF Ticks
<1>3. CASE tick[s].attempt < MaxAttempts
  <2>1. tick' = [tick EXCEPT ![s] = [state |-> "pending", attempt |-> tick[s].attempt + 1]]
    BY <1>1, <1>3 DEF FailedTick
  <2>2. [state |-> "pending", attempt |-> tick[s].attempt + 1] \in Ticks
    BY <1>2, <1>3 DEF Ticks
  <2>3. QED BY <1>1, <2>1, <2>2
<1>4. CASE ~(tick[s].attempt < MaxAttempts)
  <2>1. tick' = [tick EXCEPT ![s] = Over("failed")]
    BY <1>4 DEF FailedTick
  <2>2. QED BY <1>1, <2>1 DEF Over
<1>5. QED BY <1>3, <1>4
(* Nothing that follows a tick is lost while active ticks stay active or fail. *)
Lasting(u) == Active(tick[u]) \/ tick[u].state = "failed"

(* Being followed is kept. *)
LEMMA FollowedStays ==
    ASSUME \A u \in Slots : Lasting(u) => Lasting(u)'
    PROVE  \A s : Followed(s) => Followed(s)'
BY DEF Followed, Lasting

-----------------------------------------------------------------------------
(* One lemma per step. *)

(* A clock that advances moves the next slot forward only. *)
LEMMA AdvanceStep == ASSUME Orderly, Advance PROVE Orderly'
<1>1. TypeOK'
  BY ScheduleAssumption DEF Orderly, Advance, TypeOK
<1>2. now' = now + 1 /\ now \in Nat /\ UNCHANGED <<tick, pass, exec, disk, registry, changes>>
  BY TypesAre DEF Orderly, Advance, Times
<1>3. Aimed'
  BY <1>2, TypesAre DEF Orderly, Aimed, Times, TypeOK
<1>4. OnTime'
  <2>1. ASSUME Kind = "cron", NEW s \in Slots, Due(s) PROVE Due(s)'
    <3>1. NextSlot(now) <= NextSlot(now')
      BY <1>2, <2>1, CronSlotGrows
    <3>2. s \in Nat /\ NextSlot(now) \in Nat /\ NextSlot(now') \in Nat
      BY <1>2, SlotIsNear, TypesAre DEF Orderly
    <3>3. QED BY <2>1, <3>1, <3>2 DEF Due, OnGrid, NextSlot
  <2>2. QED BY <1>2, <2>1 DEF Orderly, OnTime, Aimed
<1>5. Chained'
  BY <1>2 DEF Orderly, Chained, Followed, Active
<1>6. QED BY <1>1, <1>3, <1>4, <1>5 DEF Orderly

(* A new disk is a change. *)
LEMMA ChangeDiskStep == ASSUME Orderly, ChangeDisk PROVE Orderly'
<1>1. TypeOK'
  BY ScheduleAssumption DEF Orderly, ChangeDisk, TypeOK
<1>2. changes' # 0 /\ UNCHANGED <<tick, pass, exec, now>>
  BY DEF Orderly, ChangeDisk, TypeOK
<1>3. Aimed' /\ OnTime' /\ Chained'
  BY <1>2 DEF Orderly, Aimed, OnTime, Chained, Due, OnGrid, NextSlot
<1>4. QED BY <1>1, <1>3 DEF Orderly

(* A pass decides on the slot after the present time. *)
LEMMA DecideStep ==
    ASSUME Orderly, NEW r \in Replicas, NEW other \in {"reap", "idle"},
           disk[r] # "error",
           registry' = [registry EXCEPT ![r] = disk[r]],
           pass' = [pass EXCEPT ![r] = EnsureTick(disk[r], other)],
           exec' = exec \/ exec' = [exec EXCEPT ![r] = NoExec],
           miss' = miss \/ miss' = [miss EXCEPT ![r] = [runs |-> 0, ticks |-> 0]],
           faults' \in 0..MaxTrouble,
           UNCHANGED <<now, disk, tick, run, changes>>
    PROVE  Orderly'
<1>0. NextSlot(now) \in Slots
  BY SlotInRange DEF Orderly
<1>1. pass' = [pass EXCEPT ![r] = [at |-> other, next |-> 0]]
      \/ pass' = [pass EXCEPT ![r] = [at |-> "spawn", next |-> NextSlot(now)]]
  BY Decision
<1>2. MaxAttempts \in Nat /\ Threshold \in Nat
  BY ScheduleAssumption
<1>3. TypeOK'
  <2>1. pass' \in [Replicas -> [at : {"idle", "spawn", "reap"}, next : Slots \cup {0}]]
    BY <1>0, <1>1 DEF Orderly, TypeOK
  <2>2. exec' \in [Replicas -> [pc : {"idle", "fire", "next", "done"}, slot : Slots \cup {0},
                                attempt : 0..MaxAttempts, next : Slots \cup {0}]]
    BY ExecTypes DEF Execs, Orderly
  <2>3. miss' \in [Replicas -> [runs : 0..Threshold, ticks : 0..Threshold]]
    BY <1>2 DEF Orderly, TypeOK
  <2>4. registry' \in [Replicas -> Finds \ {"error"}]
    BY DEF Orderly, TypeOK
  <2>5. QED BY <2>1, <2>2, <2>3, <2>4 DEF Orderly, TypeOK
<1>4. \A q \in Replicas : exec'[q] = exec[q] \/ exec'[q].pc = "idle"
  BY DEF Orderly, TypeOK, NoExec
<1>5. \A q \in Replicas : \/ pass'[q] = pass[q]
                          \/ pass'[q].at # "spawn"
                          \/ pass'[q].at = "spawn" /\ pass'[q].next = NextSlot(now)
  BY <1>1 DEF Orderly, TypeOK
<1>6. Aimed'
  BY <1>0, <1>4, <1>5 DEF Orderly, Aimed
<1>7. OnTime'
  <2>1. ASSUME Kind = "cron" PROVE Due(NextSlot(now))
    BY <2>1, CronSlot, SlotIsNear, TypesAre DEF Due, Orderly, Times
  <2>2. \A s : Due(s) => Due(s)'
    BY DEF Due, OnGrid, NextSlot
  <2>3. QED BY <1>4, <1>5, <2>1, <2>2 DEF Orderly, OnTime
<1>8. Chained'
  BY <1>4 DEF Orderly, Chained, Followed, Active, TypeOK
<1>9. QED BY <1>3, <1>6, <1>7, <1>8 DEF Orderly

(* A pass begins so. *)
LEMMA DiscoverStep == ASSUME Orderly, NEW r \in Replicas, Discover(r) PROVE Orderly'
<1>1. faults' \in 0..MaxTrouble
  BY DEF Discover, Orderly, TypeOK
<1>2. QED BY <1>1, DecideStep DEF Discover

(* So does a process that restarts; its handler is gone. *)
LEMMA RestartStep == ASSUME Orderly, NEW r \in Replicas, Restart(r) PROVE Orderly'
<1>1. faults' \in 0..MaxTrouble
  BY ScheduleAssumption DEF Restart, Orderly, TypeOK
<1>2. QED BY <1>1, DecideStep DEF Restart

(* A pass that ends has no slot any more. *)
LEMMA PassFailsStep == ASSUME Orderly, NEW r \in Replicas, PassFails(r) PROVE Orderly'
<1>1. TypeOK'
  BY ScheduleAssumption DEF Orderly, PassFails, TypeOK, Between
<1>2. /\ UNCHANGED <<now, tick, exec, disk, registry, changes>>
      /\ \A q \in Replicas : pass'[q] = pass[q] \/ pass'[q].at = "idle"
  BY DEF Orderly, PassFails, TypeOK, Between
<1>3. Aimed' /\ OnTime' /\ Chained'
  BY <1>2 DEF Orderly, Aimed, OnTime, Chained, Due, OnGrid, NextSlot, Followed, Active
<1>4. QED BY <1>1, <1>3 DEF Orderly
(* A tick spawned by a pass was computed from a time that has come. *)
LEMMA SpawnTickStep == ASSUME Orderly, NEW r \in Replicas, SpawnTick(r) PROVE Orderly'
<1>0. pass[r].next \in Slots /\ TypeOK /\ Chained
  BY DEF Orderly, SpawnTick, Aimed, At
<1>1. /\ tick' = Spawned(pass[r].next)
      /\ UNCHANGED <<now, exec, disk, registry, changes>>
      /\ \A q \in Replicas : pass'[q] = pass[q] \/ pass'[q].at = "reap"
  BY DEF Orderly, SpawnTick, TypeOK
<1>2. /\ tick' \in [Slots -> Ticks]
      /\ \A u \in Slots : u # pass[r].next => tick'[u] = tick[u]
      /\ tick[pass[r].next] # NoTask => tick'[pass[r].next] = tick[pass[r].next]
      /\ tick[pass[r].next] = NoTask => tick'[pass[r].next].state = "pending"
  BY <1>0, <1>1, SpawnIs
<1>3. TypeOK'
  BY <1>2 DEF Orderly, SpawnTick, TypeOK, Ticks
<1>4. Aimed'
  BY <1>1 DEF Orderly, Aimed
<1>5. OnTime'
  <2>1. \A s : Due(s) => Due(s)'
    BY <1>1 DEF Due, OnGrid, NextSlot
  <2>2. Kind = "cron" => Due(pass[r].next)
    BY DEF Orderly, OnTime, SpawnTick, At
  <2>3. QED BY <1>1, <1>2, <2>1, <2>2 DEF Orderly, OnTime
<1>6. Chained'
  <2>1. \A s : Followed(s) => Followed(s)'
    <3>1. \A u \in Slots : Lasting(u) => Lasting(u)'
      BY <1>0, <1>2 DEF Lasting, Active, NoTask
    <3>2. QED BY <3>1, FollowedStays
  <2>2. \A u \in Slots : tick'[u] = tick[u] \/ tick'[u].state = "pending"
    BY <1>0, <1>2
  <2>3. QED BY <1>1, <2>1, <2>2 DEF Orderly, Chained
<1>7. QED BY <1>3, <1>4, <1>5, <1>6 DEF Orderly

(* The reaper ends no tick of a schedule that is listed. *)
LEMMA ReapStep == ASSUME Orderly, NEW r \in Replicas, Reap(r) PROVE Orderly'
<1> DEFINE newTick == [s \in Slots |-> IF Active(tick[s]) /\ MissCount(miss[r].ticks,
                          Listed(registry[r]), {u \in Slots : Active(tick[u])} # {}) >= Threshold
                          THEN Over("cancelled") ELSE tick[s]]
<1>0. /\ UNCHANGED <<now, exec, disk, registry, changes, faults>>
      /\ pass' = [pass EXCEPT ![r] = Between]
      /\ UNCHANGED tick \/ tick' = newTick
  BY DEF Reap
<1>1. Threshold \in Nat /\ Threshold > 0
  BY ScheduleAssumption
<1>2. /\ tick' \in [Slots -> Ticks]
      /\ \A u \in Slots : \/ tick'[u] = tick[u]
                          \/ Active(tick[u]) /\ ~Listed(registry[r]) /\ tick'[u].state = "cancelled"
  <2>1. tick \in [Slots -> Ticks] /\ Over("cancelled") \in Ticks
    BY TypesAre DEF Orderly, Ended
  <2>2. CASE UNCHANGED tick
    BY <2>1, <2>2
  <2>3. CASE tick' = newTick
    <3>1. tick' \in [Slots -> Ticks]
      BY <2>1, <2>3
    <3>2. ASSUME Listed(registry[r]) PROVE \A u \in Slots : tick'[u] = tick[u]
      BY <1>1, <2>3, <3>2 DEF MissCount
    <3>3. \A u \in Slots : tick'[u] = tick[u] \/ (Active(tick[u]) /\ tick'[u].state = "cancelled")
      BY <2>3 DEF Over
    <3>4. QED BY <3>1, <3>2, <3>3
  <2>4. QED BY <1>0, <2>2, <2>3
<1>3. TypeOK'
  <2>1. run' \in [Slots -> {"none", "active", "over"}]
    BY DEF Reap, Orderly, TypeOK
  <2>2. miss' \in [Replicas -> [runs : 0..Threshold, ticks : 0..Threshold]]
    <3> DEFINE Cut(n) == IF n > Threshold THEN Threshold ELSE n
               a == MissCount(miss[r].runs, Discovered(registry[r]),
                              {s \in Slots : run[s] = "active"} # {})
               b == MissCount(miss[r].ticks, Listed(registry[r]),
                              {s \in Slots : Active(tick[s])} # {})
    <3>0. miss \in [Replicas -> [runs : 0..Threshold, ticks : 0..Threshold]]
      BY DEF Orderly, TypeOK
    <3>1. UNCHANGED miss \/ miss' = [miss EXCEPT ![r] = [runs |-> Cut(a), ticks |-> Cut(b)]]
      BY DEF Reap
    <3>2. a \in Nat /\ b \in Nat
      BY <1>1, <3>0 DEF MissCount
    <3> HIDE DEF a, b
    <3>3. Cut(a) \in 0..Threshold /\ Cut(b) \in 0..Threshold
      BY <1>1, <3>2
    <3> HIDE DEF Cut
    <3>4. QED BY <3>0, <3>1, <3>3
  <2>3. pass' \in [Replicas -> [at : {"idle", "spawn", "reap"}, next : Slots \cup {0}]]
    BY <1>0 DEF Orderly, TypeOK, Between
  <2>4. QED BY <1>0, <1>2, <2>1, <2>2, <2>3 DEF Orderly, TypeOK, Ticks
<1>4. \A q \in Replicas : pass'[q] = pass[q] \/ pass'[q].at = "idle"
  BY <1>0 DEF Orderly, TypeOK, Between
<1>5. Aimed'
  BY <1>0, <1>4 DEF Orderly, Aimed
<1>6. OnTime'
  <2>1. \A s : Due(s) => Due(s)'
    BY <1>0 DEF Due, OnGrid, NextSlot
  <2>2. \A u \in Slots : tick'[u] # NoTask => tick[u] # NoTask
    BY <1>2 DEF Active, NoTask
  <2>3. QED BY <1>0, <1>4, <2>1, <2>2 DEF Orderly, OnTime
<1>7. Chained'
  <2>1. CASE changes = 0
    <3>1. Listed(registry[r])
      BY <2>1 DEF Orderly, Chained, Listed
    <3>2. \A u \in Slots : tick'[u] = tick[u]
      BY <1>2, <3>1
    <3>3. QED BY <1>0, <3>2 DEF Orderly, Chained, Followed, Active
  <2>2. CASE changes # 0
    BY <1>0, <1>2, <2>2 DEF Orderly, Chained
  <2>3. QED BY <2>1, <2>2
<1>8. QED BY <1>3, <1>5, <1>6, <1>7 DEF Orderly

(* A run that ends concerns no tick. *)
LEMMA RunEndsStep == ASSUME Orderly, NEW s \in Slots, RunEnds(s) PROVE Orderly'
<1>1. TypeOK'
  BY DEF Orderly, RunEnds, TypeOK
<1>2. UNCHANGED <<now, tick, exec, pass, disk, registry, changes>>
  BY DEF RunEnds
<1>3. Aimed' /\ OnTime' /\ Chained'
  BY <1>2 DEF Orderly, Aimed, OnTime, Chained, Due, OnGrid, NextSlot, Followed, Active
<1>4. QED BY <1>1, <1>3 DEF Orderly
-----------------------------------------------------------------------------
(* The schedule workers.  What a step of theirs may do to a tick: spawn it in
   time, move it on, or end it when another follows. *)

Begins(u) == tick[u] = NoTask /\ tick'[u].state = "pending" /\ (Kind = "cron" => Due(u))

GoesOn(u) == Active(tick[u]) /\ tick'[u].state \in {"pending", "running", "failed"}

Completes(u) ==
    Active(tick[u]) /\ tick'[u].state = "completed" /\ (changes = 0 => Followed(u))

TickMoves ==
    /\ \A u \in Slots : tick'[u] = tick[u] \/ Begins(u) \/ GoesOn(u) \/ Completes(u)
    /\ \A u, v \in Slots : Completes(u) /\ Completes(v) => u = v

(* And to a handler: end it, or leave it with a slot that has come, a later one
   in time for the successor, and done only when that is there. *)
ExecMoves(q) ==
    \/ exec'[q] = exec[q]
    \/ exec'[q].pc = "idle"
    \/ /\ exec'[q].slot \in Slots /\ exec'[q].slot <= now
       /\ exec'[q].pc = "next" => /\ exec'[q].next \in Slots /\ exec'[q].next > exec'[q].slot
                                  /\ Kind = "cron" => Due(exec'[q].next)
       /\ exec'[q].pc = "done" /\ changes = 0 => Followed(exec[q].slot)'

(* Only a successor's completion could leave a tick unfollowed, and that has a
   successor of its own. *)
LEMMA FollowedOn ==
    ASSUME TypeOK, TickMoves, changes = 0, NEW s \in Slots, Followed(s)
    PROVE  Followed(s)'
<1>0. \A u \in Slots : u \in Nat
  BY TypesAre
<1>1. ASSUME NEW u \in Slots, Lasting(u), ~Completes(u) PROVE Lasting(u)'
  BY <1>1 DEF TickMoves, Lasting, Begins, GoesOn, Active, NoTask
<1>2. PICK w \in Slots : w > s /\ Lasting(w)
  BY DEF Followed, Lasting
<1>3. CASE ~Completes(w)
  <2>1. Lasting(w)'
    BY <1>1, <1>2, <1>3
  <2>2. QED BY <1>2, <2>1 DEF Followed, Lasting
<1>4. CASE Completes(w)
  <2>1. PICK v \in Slots : v > w /\ Lasting(v)
    BY <1>4 DEF Completes, Followed, Lasting
  <2>2. v # w /\ v > s
    BY <1>0, <1>2, <2>1
  <2>3. Lasting(v)'
    BY <1>1, <1>4, <2>1, <2>2 DEF TickMoves
  <2>4. QED BY <2>2, <2>3 DEF Followed, Lasting
<1>5. QED BY <1>3, <1>4

(* Steps of these shapes preserve the invariant. *)
LEMMA WorkerStep ==
    ASSUME Orderly, tick' \in [Slots -> Ticks], exec' \in [Replicas -> Execs],
           run' \in [Slots -> {"none", "active", "over"}], faults' \in 0..MaxTrouble,
           UNCHANGED <<now, disk, registry, pass, miss, changes>>,
           TickMoves, \A q \in Replicas : ExecMoves(q)
    PROVE  Orderly'
<1>1. TypeOK'
  BY DEF Orderly, TypeOK, Ticks, Execs
<1>2. Aimed'
  BY DEF Orderly, Aimed, ExecMoves
<1>3. OnTime'
  <2>1. \A s : Due(s) => Due(s)'
    BY DEF Due, OnGrid, NextSlot
  <2>2. ASSUME Kind = "cron", NEW u \in Slots, tick'[u] # NoTask PROVE Due(u)
    BY <2>2 DEF Orderly, OnTime, TickMoves, Begins, GoesOn, Completes, Active, NoTask
  <2>3. QED BY <2>1, <2>2 DEF Orderly, OnTime, ExecMoves
<1>4. Chained'
  <2>1. ASSUME NEW s \in Slots, tick'[s].state = "none" PROVE tick'[s] = NoTask
    BY <2>1 DEF Orderly, Chained, TickMoves, Begins, GoesOn, Completes
  <2>2. ASSUME changes = 0, NEW s \in Slots
        PROVE  /\ tick'[s].state # "cancelled"
               /\ tick'[s].state = "completed" => Followed(s)'
    <3>1. tick'[s].state # "cancelled"
      BY <2>2 DEF Orderly, Chained, TickMoves, Begins, GoesOn, Completes
    <3>2. ASSUME tick'[s].state = "completed" PROVE Followed(s)
      BY <2>2, <3>2 DEF Orderly, Chained, TickMoves, Begins, GoesOn, Completes
    <3>3. QED BY <2>2, <3>1, <3>2, FollowedOn DEF Orderly
  <2>3. ASSUME changes = 0, NEW q \in Replicas, exec'[q].pc = "done"
        PROVE  Followed(exec[q].slot)'
    <3>1. CASE exec'[q] = exec[q]
      <4>0. PICK s \in Slots : s = exec[q].slot
        BY <2>3, <3>1 DEF Orderly, Aimed
      <4>1. Followed(s)
        BY <2>3, <3>1, <4>0 DEF Orderly, Chained
      <4>2. Followed(s)'
        BY <2>3, <4>1, FollowedOn DEF Orderly
      <4>3. QED BY <3>1, <4>0, <4>2 DEF Followed
    <3>2. CASE exec'[q] # exec[q]
      BY <2>3, <3>2 DEF ExecMoves
    <3>3. QED BY <3>1, <3>2
  <2>4. QED BY <2>1, <2>2, <2>3 DEF Orderly, Chained
<1>5. QED BY <1>1, <1>2, <1>3, <1>4 DEF Orderly
(* A claim takes a tick whose slot has come; only where the schedule is not on
   the handler is done at once. *)
LEMMA ClaimTickStep == ASSUME Orderly, NEW r \in Replicas, ClaimTick(r) PROVE Orderly'
<1>1. PICK s \in Slots :
        /\ s <= now /\ tick[s].state = "pending"
        /\ tick' = [tick EXCEPT ![s].state = "running"]
        /\ exec' = [exec EXCEPT ![r] = [pc |-> IF registry[r] = "on" THEN "fire" ELSE "done",
                                        slot |-> s, attempt |-> tick[s].attempt, next |-> 0]]
  BY DEF ClaimTick
<1>2. tick \in [Slots -> Ticks] /\ exec \in [Replicas -> Execs]
  BY TypesAre, ExecTypes DEF Orderly
<1>3. /\ tick' \in [Slots -> Ticks]
      /\ \A u \in Slots : u # s => tick'[u] = tick[u]
      /\ tick'[s].state = "running"
  BY <1>1, <1>2 DEF Ticks
<1>4. tick[s].attempt \in 0..MaxAttempts
  BY <1>2 DEF Ticks
<1>5. /\ exec' \in [Replicas -> Execs]
      /\ \A q \in Replicas : q # r => exec'[q] = exec[q]
      /\ exec'[r].slot = s /\ exec'[r].pc = IF registry[r] = "on" THEN "fire" ELSE "done"
  BY <1>1, <1>2, <1>4 DEF Execs
<1>6. TickMoves
  BY <1>1, <1>3 DEF TickMoves, GoesOn, Completes, Active
<1>7. \A q \in Replicas : ExecMoves(q)
  <2>1. changes = 0 => registry[r] = "on"
    BY DEF Orderly, Chained
  <2>2. QED BY <1>1, <1>5, <2>1 DEF ExecMoves
<1>8. QED BY <1>3, <1>5, <1>6, <1>7, WorkerStep DEF ClaimTick, Orderly, TypeOK

(* Where the ticks stay as they are, nothing moves. *)
LEMMA SameTicks == ASSUME UNCHANGED tick PROVE TickMoves
BY DEF TickMoves, Completes, Active

(* The successor's slot is computed from the present time. *)
LEMMA FireStep == ASSUME Orderly, NEW r \in Replicas, Fire(r) PROVE Orderly'
<1>0. PICK s \in Slots : s = exec[r].slot /\ s <= now
  BY DEF Fire, Orderly, Aimed
<1>1. PICK n \in Slots : n = NextAfterTick(s, now) /\ n > s
  BY <1>0, SlotInRange DEF Orderly
<1>2. tick \in [Slots -> Ticks] /\ exec \in [Replicas -> Execs]
  BY TypesAre, ExecTypes DEF Orderly
<1>3. exec' = [exec EXCEPT ![r].pc = "next", ![r].next = n]
  BY <1>0, <1>1 DEF Fire
<1>4. /\ exec' \in [Replicas -> Execs]
      /\ \A q \in Replicas : q # r => exec'[q] = exec[q]
      /\ exec'[r].slot = s /\ exec'[r].pc = "next" /\ exec'[r].next = n
  BY <1>0, <1>2, <1>3 DEF Execs
<1>5. Kind = "cron" => Due(n)
  BY <1>1, CronSlot, SlotIsNear, TypesAre DEF Due, NextAfterTick, Orderly, Times
<1>6. \A q \in Replicas : ExecMoves(q)
  BY <1>0, <1>1, <1>4, <1>5 DEF ExecMoves
<1>7. run' \in [Slots -> {"none", "active", "over"}]
  BY DEF Fire, Orderly, TypeOK
<1>8. UNCHANGED tick
  BY DEF Fire
<1>9. QED BY <1>2, <1>4, <1>6, <1>7, <1>8, SameTicks, WorkerStep DEF Fire, Orderly, TypeOK

(* A handler is done once its successor has been spawned, now or before: one
   that is over already has a successor too. *)
LEMMA SpawnNextStep == ASSUME Orderly, NEW r \in Replicas, SpawnNext(r) PROVE Orderly'
<1>0. PICK s \in Slots, n \in Slots : s = exec[r].slot /\ s <= now /\ n = exec[r].next /\ n > s
  BY DEF SpawnNext, Orderly, Aimed
<1>1. tick' = Spawned(n) /\ exec' = [exec EXCEPT ![r].pc = "done"]
  BY <1>0 DEF SpawnNext
<1>2. /\ tick \in [Slots -> Ticks] /\ exec \in [Replicas -> Execs]
      /\ \A u \in Slots : u \in Nat
  BY TypesAre, ExecTypes DEF Orderly
<1>3. /\ tick' \in [Slots -> Ticks]
      /\ \A u \in Slots : u # n => tick'[u] = tick[u]
      /\ tick[n] # NoTask => tick'[n] = tick[n]
      /\ tick[n] = NoTask => tick'[n].state = "pending"
  BY <1>1, SpawnIs DEF Orderly
<1>4. /\ exec' \in [Replicas -> Execs]
      /\ \A q \in Replicas : q # r => exec'[q] = exec[q]
      /\ exec'[r].slot = s /\ exec'[r].pc = "done"
  BY <1>0, <1>1, <1>2 DEF Execs
<1>5. TickMoves
  <2>1. Kind = "cron" => Due(n)
    BY <1>0 DEF SpawnNext, Orderly, OnTime
  <2>2. QED BY <1>3, <2>1 DEF TickMoves, Begins, Completes, NoTask, Active
<1>6. ASSUME changes = 0 PROVE Followed(s)'
  <2>1. CASE tick[n] = NoTask
    BY <1>0, <1>3, <2>1 DEF Followed, Active
  <2>2. CASE Lasting(n)
    BY <1>0, <1>3, <2>2 DEF Followed, Lasting, Active, NoTask
  <2>3. CASE tick[n].state = "completed"
    <3>1. Followed(n)
      BY <1>6, <2>3 DEF Orderly, Chained
    <3>2. Followed(n)'
      BY <1>5, <1>6, <3>1, FollowedOn DEF Orderly
    <3>3. QED BY <1>0, <1>2, <3>2 DEF Followed
  <2>4. tick[n] = NoTask \/ Lasting(n) \/ tick[n].state = "completed"
    <3>1. tick[n].state \in {"none", "pending", "running"} \cup Ended
      BY <1>2 DEF Ticks
    <3>2. tick[n].state # "cancelled" /\ (tick[n].state = "none" => tick[n] = NoTask)
      BY <1>6 DEF Orderly, Chained
    <3>3. QED BY <3>1, <3>2 DEF Lasting, Active, Ended
  <2>5. QED BY <2>1, <2>2, <2>3, <2>4
<1>7. \A q \in Replicas : ExecMoves(q)
  <2>1. ASSUME changes = 0 PROVE Followed(exec[r].slot)'
    BY <1>4, <1>6, <2>1 DEF Followed
  <2>2. QED BY <1>0, <1>4, <2>1 DEF ExecMoves
<1>8. QED BY <1>3, <1>4, <1>5, <1>7, WorkerStep DEF SpawnNext, Orderly, TypeOK

(* The end of a handler. *)
LEMMA ExecEnds ==
    ASSUME Orderly, NEW r \in Replicas, exec' = [exec EXCEPT ![r] = NoExec]
    PROVE  exec' \in [Replicas -> Execs] /\ \A q \in Replicas : ExecMoves(q)
<1>1. exec \in [Replicas -> Execs] /\ exec' \in [Replicas -> Execs]
  BY ExecTypes DEF Orderly
<1>2. \A q \in Replicas : exec'[q] = exec[q] \/ exec'[q].pc = "idle"
  BY <1>1 DEF NoExec
<1>3. QED BY <1>1, <1>2 DEF ExecMoves

(* A tick is completed by a handler that is done, so another follows it. *)
LEMMA CompleteTickStep == ASSUME Orderly, NEW r \in Replicas, CompleteTick(r) PROVE Orderly'
<1>0. PICK s \in Slots : s = exec[r].slot
  BY DEF CompleteTick, Orderly, Aimed
<1>1. UNCHANGED tick
      \/ (tick[s].state = "running" /\ tick' = [tick EXCEPT ![s] = Over("completed")])
  BY <1>0 DEF CompleteTick, Holds
<1>2. tick \in [Slots -> Ticks] /\ Over("completed") \in Ticks
  BY TypesAre DEF Orderly, Ended
<1>3. changes = 0 => Followed(s)
  BY <1>0 DEF CompleteTick, Orderly, Chained
<1>4. CASE UNCHANGED tick
  BY <1>2, <1>4, SameTicks, ExecEnds, WorkerStep DEF CompleteTick, Orderly, TypeOK
<1>5. CASE tick[s].state = "running" /\ tick' = [tick EXCEPT ![s] = Over("completed")]
  <2>1. /\ tick' \in [Slots -> Ticks]
        /\ \A u \in Slots : u # s => tick'[u] = tick[u]
        /\ tick'[s].state = "completed"
    BY <1>2, <1>5 DEF Over
  <2>2. TickMoves
    BY <1>3, <1>5, <2>1 DEF TickMoves, Completes, Active
  <2>3. QED BY <2>1, <2>2, ExecEnds, WorkerStep DEF CompleteTick, Orderly, TypeOK
<1>6. QED BY <1>1, <1>4, <1>5

(* A failed attempt is retried, or its tick has failed. *)
LEMMA FailureMoves ==
    ASSUME Orderly, NEW s \in Slots, Active(tick[s]), tick' = FailedTick(s)
    PROVE  tick' \in [Slots -> Ticks] /\ TickMoves
<1>1. /\ tick' \in [Slots -> Ticks]
      /\ \A u \in Slots : u # s => tick'[u] = tick[u]
      /\ tick'[s].state \in {"pending", "failed"}
  BY FailureIs DEF Orderly
<1>2. QED BY <1>1 DEF TickMoves, GoesOn, Completes, Active

(* A handler's call fails. *)
LEMMA TickFailsStep == ASSUME Orderly, NEW r \in Replicas, TickFails(r) PROVE Orderly'
<1>0. PICK s \in Slots : s = exec[r].slot
  BY DEF TickFails, Orderly, Aimed
<1>1. UNCHANGED tick \/ (tick[s].state = "running" /\ tick' = FailedTick(s))
  BY <1>0 DEF TickFails, Holds
<1>2. tick' \in [Slots -> Ticks] /\ TickMoves
  BY <1>1, FailureMoves, SameTicks, TypesAre DEF Orderly, Active
<1>3. faults' \in 0..MaxTrouble
  BY ScheduleAssumption DEF TickFails, Orderly, TypeOK
<1>4. QED BY <1>2, <1>3, ExecEnds, WorkerStep DEF TickFails, Orderly, TypeOK

(* An attempt is lost before its slot, or a claim lapses while its handler goes on. *)
LEMMA LeaseLapsesStep ==
    ASSUME Orderly, NEW s \in Slots, SleepFails(s) \/ LeaseLapses(s)
    PROVE  Orderly'
<1>1. tick' \in [Slots -> Ticks] /\ TickMoves
  BY FailureMoves DEF SleepFails, LeaseLapses, Active
<1>2. faults' \in 0..MaxTrouble
  BY ScheduleAssumption DEF SleepFails, LeaseLapses, Orderly, TypeOK
<1>3. exec' \in [Replicas -> Execs] /\ \A q \in Replicas : ExecMoves(q)
  BY ExecTypes DEF SleepFails, LeaseLapses, Orderly, ExecMoves
<1>4. QED BY <1>1, <1>2, <1>3, WorkerStep DEF SleepFails, LeaseLapses, Orderly, TypeOK

-----------------------------------------------------------------------------
(* The inductive invariant holds throughout, for any replicas, period,
   horizon, attempts, changes of disks and trouble. *)
THEOREM ScheduleIsOrderly == Spec => []Orderly
<1>1. Init => Orderly
  <2> SUFFICES ASSUME Init PROVE Orderly
    OBVIOUS
  <2>1. MaxAttempts \in Nat /\ Threshold \in Nat /\ MaxTrouble \in Nat
        /\ Horizon \in Nat /\ Horizon > 0
    BY ScheduleAssumption
  <2>2. TypeOK
    BY <2>1 DEF Init, TypeOK, Finds, NoTask, NoExec, Between
  <2>3. Aimed /\ OnTime /\ Chained
    BY DEF Init, Aimed, OnTime, Chained, NoTask, NoExec, Between
  <2>4. QED BY <2>2, <2>3 DEF Orderly
<1>2. ASSUME Orderly, Next PROVE Orderly'
  BY <1>2, AdvanceStep, ChangeDiskStep, DiscoverStep, SpawnTickStep, ReapStep,
     ClaimTickStep, FireStep, SpawnNextStep, CompleteTickStep, PassFailsStep,
     TickFailsStep, RestartStep, LeaseLapsesStep, RunEndsStep
  DEF Next, Reconcile, Execute
<1>3. ASSUME Orderly, UNCHANGED vars PROVE Orderly'
  <2>1. TypeOK'
    BY <1>3 DEF Orderly, TypeOK, vars
  <2>2. UNCHANGED <<now, tick, exec, pass, disk, registry, changes>>
    BY <1>3 DEF vars
  <2>3. Aimed' /\ OnTime' /\ Chained'
    BY <1>3, <2>2 DEF Orderly, Aimed, OnTime, Chained, Due, OnGrid, NextSlot, Followed, Active
  <2>4. QED BY <2>1, <2>3 DEF Orderly
<1>4. QED BY <1>1, <1>2, <1>3, PTL DEF Spec

(* The ticks of a cron schedule that wait for a slot to come wait for the same
   one, however many replicas started a chain and however late their ticks ran. *)
THEOREM ChainsMerge == ASSUME Kind = "cron" PROVE Spec => []OneWaitingTick
<1>1. Orderly => OneWaitingTick
  <2> SUFFICES ASSUME Orderly, NEW s \in Slots, Active(tick[s]), s > now
               PROVE  s = NextSlot(now)
    BY DEF OneWaitingTick
  <2>1. s \in Nat /\ now \in Nat /\ NextSlot(now) \in Nat
    BY TypesAre, SlotIsNear DEF Orderly, Times
  <2>2. OnGrid(s) /\ s <= NextSlot(now)
    BY DEF Orderly, OnTime, Due, Active, NoTask
  <2>3. QED BY <2>1, <2>2, CronSlot
<1>2. QED BY <1>1, ScheduleIsOrderly, PTL

(* While every replica has the schedule on, a chain of ticks that has begun has
   an active tick unless one used up its attempts. *)
THEOREM ChainsGoOn == Spec => []ChainUnbroken
<1>1. Orderly => ChainUnbroken
  <2> SUFFICES ASSUME Orderly, changes = 0, NEW s \in Slots, tick[s] # NoTask,
                      \A u \in Slots : tick[u].state # "failed"
               PROVE  \E u \in Slots : Active(tick[u])
    BY DEF ChainUnbroken
  <2>1. tick[s].state \in {"none", "pending", "running"} \cup Ended
    BY TypesAre DEF Orderly, Ticks
  <2>2. tick[s].state \notin {"none", "cancelled", "failed"}
    BY DEF Orderly, Chained
  <2>3. CASE tick[s].state = "completed"
    BY <2>3 DEF Orderly, Chained, Followed
  <2>4. QED BY <2>1, <2>2, <2>3 DEF Active, Ended
<1>2. QED BY <1>1, ScheduleIsOrderly, PTL
=============================================================================
