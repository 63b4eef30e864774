--------------------------- MODULE WorkflowProofs ---------------------------
(***************************************************************************)
(* Proofs about the durable queue and the workflow runs on it, for any     *)
(* tasks, workers and handlers, any bounds on attempts and runs, and any   *)
(* faults.  Rows first, with what each SQL function does to them; then the *)
(* workers that refer to them.                                             *)
(***************************************************************************)
EXTENDS WorkflowRuns, TLAPS, SequenceTheorems

RowType == [state: Live \cup Ended \cup {None}, max: MaxAttempts .. MaxRuns,
            runs: Seq(RunType), waits: SUBSET WaitType, ckpt: Values]

(* The last run carries the state of the task; those before it have failed. *)
LastIsLive(row) ==
    \A n \in 1 .. Len(row.runs) :
        /\ n < Len(row.runs) => row.runs[n].state = "failed"
        /\ n = Len(row.runs) => \/ row.runs[n].state = row.state
                                \/ row.runs[n].state \in Live /\ row.state \in Live

(* A wait is that of a sleeping run, which without a timeout only the event wakes. *)
Waiting(row, x) ==
    /\ x.run \in 1 .. Len(row.runs)
    /\ row.runs[x.run].state = "sleeping"
    /\ ~x.timed => row.runs[x.run].avail = "never"

RowFine(row) ==
    /\ row \in RowType
    /\ Len(row.runs) <= row.max
    /\ row.state = None <=> Len(row.runs) = 0
    /\ row.state = "failed" => Len(row.runs) = row.max
    /\ \A k \in Steps : row.ckpt[k] <= Len(row.runs)
    /\ LastIsLive(row)
    /\ \A x \in row.waits : Waiting(row, x)

LEMMA Runs ==
    ASSUME NEW row, RowFine(row)
    PROVE  /\ row.runs \in Seq(RunType) /\ Len(row.runs) \in 0 .. MaxRuns
           /\ DOMAIN row.runs = 1 .. Len(row.runs)
           /\ \A n \in 1 .. Len(row.runs) : row.runs[n] \in RunType
           /\ row.max \in MaxAttempts .. MaxRuns /\ row.ckpt \in Values
           /\ row.waits \subseteq WaitType /\ \A k \in Steps : row.ckpt[k] \in 0 .. MaxRuns
           /\ row.state \in Live \cup Ended \cup {None}
           /\ MaxRuns \in Nat /\ MaxAttempts \in Nat \ {0} /\ MaxAttempts <= MaxRuns
<1>1. row.runs \in Seq(RunType) /\ row.max \in MaxAttempts .. MaxRuns
  BY DEF RowFine, RowType
<1>2. Len(row.runs) \in Nat /\ DOMAIN row.runs = 1 .. Len(row.runs)
      /\ \A n \in 1 .. Len(row.runs) : row.runs[n] \in RunType
  BY <1>1, LenProperties, ElementOfSeq
<1> QED BY <1>1, <1>2, QueueAssumption DEF RowFine, RowType, Values

(* A run that is not over is the last one. *)
LEMMA LiveIsLast ==
    ASSUME NEW row, RowFine(row), NEW n \in 1 .. Len(row.runs), row.runs[n].state # "failed"
    PROVE  n = Len(row.runs)
BY Runs DEF RowFine, LastIsLive

(* Whoever waits, the last run sleeps. *)
LEMMA NoWaits ==
    ASSUME NEW row, RowFine(row), NEW n \in 1 .. Len(row.runs),
           row.runs[n].state \notin {"sleeping", "failed"}
    PROVE  row.waits = {}
<1>1. n = Len(row.runs)
  BY LiveIsLast
<1>2. ASSUME NEW x \in row.waits PROVE FALSE
  <2>1. x.run \in 1 .. Len(row.runs) /\ row.runs[x.run].state = "sleeping"
    BY <1>2 DEF RowFine, Waiting
  <2>2. x.run = Len(row.runs)
    BY <2>1, LiveIsLast
  <2> QED BY <1>1, <2>1, <2>2
<1> QED BY <1>2

(* Replacing the last run, the task's state and the waits together. *)
SetLast(row, n, st, run, ws) ==
    [row EXCEPT !.state = st, !.runs = [@ EXCEPT ![n] = run], !.waits = ws]

LEMMA SetLastFine ==
    ASSUME NEW row, RowFine(row), NEW run \in RunType, NEW st \in Live \cup Ended,
           NEW ws \in SUBSET WaitType, NEW n \in 1 .. Len(row.runs), n = Len(row.runs),
           run.state = st \/ (run.state \in Live /\ st \in Live),
           st = "failed" => Len(row.runs) = row.max,
           \A x \in ws : x.run = n /\ run.state = "sleeping" /\ (~x.timed => run.avail = "never"),
           NEW new, new = SetLast(row, n, st, run, ws)
    PROVE  /\ RowFine(new) /\ Len(new.runs) = Len(row.runs) /\ new.ckpt = row.ckpt
           /\ new.runs[n] = run /\ new.waits = ws /\ new.max = row.max /\ new.state = st
           /\ \A m \in 1 .. Len(row.runs) : m # n => new.runs[m] = row.runs[m]
<1> DEFINE rs == [row.runs EXCEPT ![n] = run]
<1>1. /\ rs \in Seq(RunType) /\ Len(rs) = Len(row.runs) /\ rs[n] = run
      /\ \A m \in 1 .. Len(row.runs) : m # n => rs[m] = row.runs[m]
  BY Runs, ExceptSeq
<1>2. /\ new \in RowType /\ new.runs = rs /\ new.state = st /\ new.waits = ws
      /\ new.ckpt = row.ckpt /\ new.max = row.max
  BY <1>1 DEF RowFine, RowType, SetLast
<1> HIDE DEF rs
<1>3. st # None
  BY DEF Live, Ended, None
<1>4. LastIsLive(new)
  BY <1>1, <1>2, Runs DEF RowFine, LastIsLive
<1>5. \A x \in new.waits : Waiting(new, x)
  BY <1>1, <1>2 DEF Waiting
<1> QED BY <1>1, <1>2, <1>3, <1>4, <1>5, Runs DEF RowFine

(* What the statements on a run make of the last one. *)
ClaimedRun(run) == [run EXCEPT !.state = "running", !.avail = "now", !.lease = "live"]
CompletedRun(run) == [run EXCEPT !.state = "completed", !.lease = "none"]
ScheduledRun(run) ==
    [run EXCEPT !.state = "sleeping", !.avail = "later", !.lease = "none", !.wake = FALSE]
FailedRun(run) == [run EXCEPT !.state = "failed", !.lease = "none", !.wake = FALSE]

LEMMA ClaimRow ==
    ASSUME NEW row, RowFine(row), NEW n \in 1 .. Len(row.runs),
           row.runs[n].state \in {"pending", "sleeping"}, row.runs[n].avail = "now"
    PROVE  n = Len(row.runs)
           /\ AfterClaim(row, n) = SetLast(row, n, "running", ClaimedRun(row.runs[n]), {})
           /\ ClaimedRun(row.runs[n]) \in RunType /\ ClaimedRun(row.runs[n]).state = "running"
<1>1. n = Len(row.runs)
  BY LiveIsLast
<1>2. {x \in row.waits : x.run # n \/ ~x.timed} = {}
  <2>1. ASSUME NEW x \in row.waits PROVE x.run = n /\ x.timed
    <3>1. x.run \in 1 .. Len(row.runs) /\ row.runs[x.run].state = "sleeping"
          /\ (~x.timed => row.runs[x.run].avail = "never")
      BY <2>1 DEF RowFine, Waiting
    <3>2. x.run = n
      BY <1>1, <3>1, LiveIsLast
    <3> QED BY <3>1, <3>2
  <2> QED BY <2>1
<1>3. AfterClaim(row, n) = SetLast(row, n, "running", ClaimedRun(row.runs[n]), {})
  BY <1>2, Runs DEF AfterClaim, SetLast, ClaimedRun, RowFine, RowType
<1>4. ClaimedRun(row.runs[n]) \in RunType /\ ClaimedRun(row.runs[n]).state = "running"
  BY Runs DEF ClaimedRun, RunType, Live
<1> QED BY <1>1, <1>3, <1>4

LEMMA EndRow ==
    ASSUME NEW row, RowFine(row), NEW n \in 1 .. Len(row.runs), row.runs[n].state = "running"
    PROVE  /\ n = Len(row.runs)
           /\ AfterComplete(row, n)
                = SetLast(row, n, "completed", CompletedRun(row.runs[n]), {})
           /\ AfterSchedule(row, n)
                = SetLast(row, n, "sleeping", ScheduledRun(row.runs[n]), {})
           /\ CompletedRun(row.runs[n]) \in RunType /\ ScheduledRun(row.runs[n]) \in RunType
           /\ CompletedRun(row.runs[n]).state = "completed"
           /\ ScheduledRun(row.runs[n]).state = "sleeping"
<1>1. n = Len(row.runs)
  BY LiveIsLast
<1>2. row.waits = {}
  BY NoWaits
<1>3. AfterComplete(row, n) = SetLast(row, n, "completed", CompletedRun(row.runs[n]), {})
  BY <1>2, Runs DEF AfterComplete, SetLast, CompletedRun, RowFine, RowType
<1>4. AfterSchedule(row, n) = SetLast(row, n, "sleeping", ScheduledRun(row.runs[n]), {})
  BY <1>2, Runs DEF AfterSchedule, SetLast, ScheduledRun, RowFine, RowType
<1>5. /\ CompletedRun(row.runs[n]) \in RunType /\ ScheduledRun(row.runs[n]) \in RunType
      /\ CompletedRun(row.runs[n]).state = "completed"
      /\ ScheduledRun(row.runs[n]).state = "sleeping"
  BY Runs DEF CompletedRun, ScheduledRun, RunType, Live, Ended
<1> QED BY <1>1, <1>3, <1>4, <1>5

LEMMA WaitRow ==
    ASSUME NEW row, RowFine(row), NEW n \in 1 .. Len(row.runs), row.runs[n].state = "running",
           NEW k \in Steps, NEW new, new = AfterWait(row, n, k)
    PROVE  /\ n = Len(row.runs) /\ RowFine(new) /\ new.ckpt = row.ckpt
           /\ Len(new.runs) = Len(row.runs) /\ new.runs[n].state = "sleeping"
           /\ \A m \in 1 .. Len(row.runs) : m # n => new.runs[m] = row.runs[m]
           /\ \A x \in new.waits : x.step = k
<1> DEFINE timed == Program[k] = "timed"
           wait == [run |-> n, step |-> k, timed |-> timed]
           run == [state |-> "sleeping", lease |-> "none", wake |-> TRUE,
                   avail |-> IF timed THEN "later" ELSE "never"]
<1>1. n = Len(row.runs) /\ row.waits = {} /\ row \in RowType /\ n \in 1 .. MaxRuns
  BY LiveIsLast, NoWaits, Runs DEF RowFine
<1>t. timed \in BOOLEAN
  OBVIOUS
<1> HIDE DEF timed
<1>2. /\ run \in RunType /\ run.state = "sleeping" /\ {wait} \in SUBSET WaitType
      /\ wait.run = n /\ wait.step = k /\ (~wait.timed => run.avail = "never")
  BY <1>1, <1>t DEF RunType, WaitType, Live
<1>3. new = SetLast(row, n, "sleeping", run, {wait})
  BY <1>1, Runs DEF AfterWait, SetLast, RowType, timed
<1> HIDE DEF wait, run
<1>4. "sleeping" \in Live /\ "sleeping" # "failed"
  BY DEF Live
<1> QED BY <1>1, <1>2, <1>3, <1>4, SetLastFine

(* One more run follows the last, which has failed. *)
LEMMA AppendRun ==
    ASSUME NEW row, RowFine(row), Len(row.runs) > 0,
           row.runs[Len(row.runs)].state = "failed",
           NEW st \in {"pending", "sleeping"}, NEW mx \in MaxAttempts .. MaxRuns,
           Len(row.runs) < mx, NEW new, new \in RowType, new.state = st, new.max = mx,
           new.runs = Append(row.runs, NewRun(st)), new.ckpt = row.ckpt, new.waits = row.waits
    PROVE  /\ RowFine(new) /\ Len(new.runs) = Len(row.runs) + 1 /\ new.waits = {}
           /\ \A m \in 1 .. Len(row.runs) : new.runs[m] = row.runs[m]
<1>1. NewRun(st) \in RunType /\ NewRun(st).state = st /\ st # None /\ st # "failed"
  BY DEF NewRun, RunType, Live, None
<1>2. /\ Len(new.runs) = Len(row.runs) + 1 /\ new.runs[Len(row.runs) + 1] = NewRun(st)
      /\ \A m \in 1 .. Len(row.runs) : new.runs[m] = row.runs[m]
  BY <1>1, Runs
<1>3. LastIsLive(new)
  BY <1>1, <1>2, Runs DEF RowFine, LastIsLive
<1>4. row.waits = {}
  <2>1. ASSUME NEW x \in row.waits PROVE FALSE
    <3>1. x.run \in 1 .. Len(row.runs) /\ row.runs[x.run].state = "sleeping"
      BY <2>1 DEF RowFine, Waiting
    <3>2. x.run = Len(row.runs)
      BY <3>1, LiveIsLast
    <3> QED BY <3>1, <3>2
  <2> QED BY <2>1
<1>5. \A k \in Steps : new.ckpt[k] <= Len(new.runs)
  BY <1>2, Runs DEF RowFine
<1>6. Len(new.runs) # 0 /\ Len(new.runs) <= new.max
  BY <1>2, Runs
<1> QED BY <1>1, <1>2, <1>3, <1>4, <1>5, <1>6 DEF RowFine

LEMMA FailRow ==
    ASSUME NEW row, RowFine(row), NEW n \in 1 .. Len(row.runs),
           row.runs[n].state \in {"running", "sleeping"}, NEW new, new = AfterFail(row, n)
    PROVE  /\ n = Len(row.runs) /\ RowFine(new) /\ new.ckpt = row.ckpt /\ new.waits = {}
           /\ Len(new.runs) \in {n, n + 1} /\ new.runs[n].state = "failed"
           /\ \A m \in 1 .. Len(row.runs) : m # n => new.runs[m] = row.runs[m]
<1> DEFINE run == FailedRun(row.runs[n])
           mid == SetLast(row, n, "failed", run, {})
<1>1. n = Len(row.runs) /\ row \in RowType /\ n \in 1 .. MaxRuns
  BY LiveIsLast, Runs DEF RowFine
<1>2. run \in RunType /\ run.state = "failed" /\ "failed" \in Ended
  BY Runs DEF FailedRun, RunType, Ended
<1>3. {x \in row.waits : x.run # n} = {}
  <2>1. ASSUME NEW x \in row.waits PROVE x.run = n
    <3>1. x.run \in 1 .. Len(row.runs) /\ row.runs[x.run].state = "sleeping"
      BY <2>1 DEF RowFine, Waiting
    <3> QED BY <1>1, <3>1, LiveIsLast
  <2> QED BY <2>1
<1>4. [row.runs EXCEPT ![n].state = "failed", ![n].lease = "none", ![n].wake = FALSE]
        = [row.runs EXCEPT ![n] = run]
  BY Runs DEF FailedRun, RunType
<1> DEFINE rs == [row.runs EXCEPT ![n] = run]
<1>5. /\ rs \in Seq(RunType) /\ Len(rs) = Len(row.runs) /\ rs[n] = run
      /\ \A m \in 1 .. Len(row.runs) : m # n => rs[m] = row.runs[m]
  BY <1>2, Runs, ExceptSeq
<1> HIDE DEF run
<1>6. CASE n + 1 > row.max
  <2>0. ~(n + 1 <= row.max)
    BY <1>6, Runs
  <2>1. new = [row EXCEPT !.state = "failed", !.runs = rs, !.waits = {}]
    BY <1>1, <1>3, <1>4, <2>0 DEF AfterFail, RowType
  <2>3. new = mid
    BY <2>1 DEF SetLast
  <2>2. Len(row.runs) = row.max
    BY <1>1, <1>6, Runs DEF RowFine
  <2> QED BY <1>1, <1>2, <2>2, <2>3, SetLastFine
<1>7. CASE n + 1 <= row.max
  <2> DEFINE app == Append(rs, NewRun(RetryState))
  <2>1. new = [row EXCEPT !.state = RetryState, !.runs = app, !.waits = {}]
    BY <1>1, <1>3, <1>4, <1>7, Runs DEF AfterFail, RowType
  <2>2. NewRun(RetryState) \in RunType /\ NewRun(RetryState).state = RetryState
        /\ RetryState \in Live /\ RetryState # None
    BY QueueAssumption DEF NewRun, RunType, Live, None
  <2> HIDE DEF rs
  <2>3. /\ app \in Seq(RunType) /\ Len(app) = n + 1 /\ app[n + 1] = NewRun(RetryState)
        /\ \A m \in 1 .. n : app[m] = rs[m]
    BY <1>1, <1>5, <2>2
  <2> HIDE DEF app
  <2>4. /\ new \in RowType /\ new.runs = app /\ new.state = RetryState /\ new.waits = {}
        /\ new.max = row.max /\ new.ckpt = row.ckpt
    BY <1>1, <2>1, <2>2, <2>3 DEF RowType
  <2>5. LastIsLive(new)
    BY <1>1, <1>2, <1>5, <2>2, <2>3, <2>4 DEF RowFine, LastIsLive
  <2>6. /\ \A k \in Steps : new.ckpt[k] <= Len(new.runs)
        /\ Len(new.runs) # 0 /\ Len(new.runs) <= new.max /\ new.state # "failed"
    BY <1>1, <1>7, <2>3, <2>4, QueueAssumption, Runs DEF RowFine
  <2>7. RowFine(new)
    BY <2>2, <2>4, <2>5, <2>6 DEF RowFine
  <2> QED BY <1>1, <1>2, <1>5, <2>3, <2>4, <2>7
<1> QED BY <1>1, <1>6, <1>7, Runs

LEMMA RetryRow ==
    ASSUME NEW row, RowFine(row), row.state = "failed", Len(row.runs) < MaxRuns,
           NEW new, new = AfterRetry(row)
    PROVE  /\ RowFine(new) /\ new.ckpt = row.ckpt /\ new.waits = {}
           /\ Len(new.runs) = Len(row.runs) + 1
           /\ \A m \in 1 .. Len(row.runs) : new.runs[m] = row.runs[m]
<1>1. Len(row.runs) = row.max /\ Len(row.runs) \in 1 .. MaxRuns /\ row \in RowType
  BY Runs DEF RowFine, None
<1>2. row.runs[Len(row.runs)].state = "failed"
  BY <1>1 DEF RowFine, LastIsLive, Live
<1>3. NewRun("pending") \in RunType
  BY DEF NewRun, RunType, Live
<1>4. Append(row.runs, NewRun("pending")) \in Seq(RunType)
  BY <1>3, Runs
<1>6. row.max + 1 \in MaxAttempts .. MaxRuns /\ Len(row.runs) > 0 /\ Len(row.runs) < row.max + 1
  BY <1>1, Runs
<1> DEFINE rs == Append(row.runs, NewRun("pending"))
           mx == row.max + 1
<1>7. new = [row EXCEPT !.state = "pending", !.max = mx, !.runs = rs]
  BY DEF AfterRetry
<1> HIDE DEF rs, mx
<1>8. /\ new \in RowType /\ new.state = "pending" /\ new.max = mx /\ new.runs = rs
      /\ new.ckpt = row.ckpt /\ new.waits = row.waits
  BY <1>1, <1>4, <1>6, <1>7 DEF RowType, Live, rs, mx
<1>5. /\ new \in RowType /\ new.state = "pending" /\ new.max = row.max + 1
      /\ new.runs = Append(row.runs, NewRun("pending"))
      /\ new.ckpt = row.ckpt /\ new.waits = row.waits
  BY <1>8 DEF rs, mx
<1> QED BY <1>2, <1>5, <1>6, AppendRun

(* Mapping over the runs. *)
LEMMA MapRuns ==
    ASSUME NEW row, RowFine(row), NEW rs \in [1 .. Len(row.runs) -> RunType]
    PROVE  rs \in Seq(RunType) /\ Len(rs) = Len(row.runs)
<1>1. Len(row.runs) \in Nat /\ rs \in [1 .. Len(row.runs) -> RunType]
  BY Runs
<1>2. rs \in Seq(RunType)
  BY <1>1, SeqDef
<1>3. Len(rs) \in Nat /\ 1 .. Len(rs) = 1 .. Len(row.runs)
  BY <1>2, LenProperties
<1> QED BY <1>1, <1>2, <1>3

LEMMA CancelRow ==
    ASSUME NEW row, RowFine(row), row.state \in Live, NEW new, new = AfterCancel(row)
    PROVE  /\ RowFine(new) /\ new.ckpt = row.ckpt /\ new.waits = {}
           /\ Len(new.runs) = Len(row.runs)
           /\ \A m \in 1 .. Len(row.runs) : \/ new.runs[m] = row.runs[m]
                                            \/ new.runs[m].state = "cancelled"
<1> DEFINE Cancelled(run) == [run EXCEPT !.state = "cancelled", !.lease = "none"]
           rs == [n \in DOMAIN row.runs |->
                    IF row.runs[n].state \in Live THEN Cancelled(row.runs[n]) ELSE row.runs[n]]
<1>1. ASSUME NEW n \in 1 .. Len(row.runs)
      PROVE  /\ rs[n] \in RunType
             /\ row.runs[n].state \in Live => rs[n].state = "cancelled"
             /\ row.runs[n].state \notin Live => rs[n] = row.runs[n]
  <2>1. row.runs[n] \in RunType /\ n \in DOMAIN row.runs
    BY Runs
  <2>2. Cancelled(row.runs[n]) \in RunType /\ Cancelled(row.runs[n]).state = "cancelled"
    BY <2>1 DEF RunType, Ended
  <2> HIDE DEF Cancelled
  <2> QED BY <2>1, <2>2
<1>2. rs \in Seq(RunType) /\ Len(rs) = Len(row.runs)
  BY <1>1, Runs, MapRuns
<1>3. new = [row EXCEPT !.state = "cancelled", !.runs = rs, !.waits = {}]
  BY DEF AfterCancel
<1> HIDE DEF rs
<1>4. /\ new \in RowType /\ new.state = "cancelled" /\ new.runs = rs /\ new.waits = {}
      /\ new.ckpt = row.ckpt /\ new.max = row.max
  BY <1>2, <1>3 DEF RowFine, RowType, Ended
<1>5. LastIsLive(new)
  BY <1>1, <1>2, <1>4 DEF RowFine, LastIsLive, Live
<1>6. Len(row.runs) # 0
  BY DEF RowFine, Live, None
<1>7. RowFine(new)
  BY <1>2, <1>4, <1>5, <1>6 DEF RowFine, None
<1> QED BY <1>1, <1>2, <1>4, <1>7

LEMMA EmitRow ==
    ASSUME NEW row, RowFine(row), NEW new, new = AfterEmit(row)
    PROVE  /\ RowFine(new) /\ new.waits = {} /\ Len(new.runs) = Len(row.runs)
           /\ \A m \in 1 .. Len(row.runs) :
                \/ new.runs[m] = row.runs[m]
                \/ row.runs[m].state = "sleeping" /\ new.runs[m].state = "pending"
           /\ \A k \in Steps : \/ new.ckpt[k] = row.ckpt[k]
                               \/ /\ \E x \in row.waits : x.step = k
                                  /\ row.runs[Len(row.runs)].state = "sleeping"
<1> DEFINE ns == {x.run : x \in Woken(row)}
           ks == {x.step : x \in Woken(row)}
           rs == [n \in DOMAIN row.runs |-> IF n \in ns THEN NewRun("pending") ELSE row.runs[n]]
           ck == [k \in Steps |-> IF k \in ks THEN (CHOOSE x \in Woken(row) : x.step = k).run
                                              ELSE row.ckpt[k]]
<1>1. ASSUME NEW x \in row.waits
      PROVE  /\ x.run = Len(row.runs) /\ x.run \in 1 .. Len(row.runs)
             /\ row.runs[x.run].state = "sleeping"
  <2>1. x.run \in 1 .. Len(row.runs) /\ row.runs[x.run].state = "sleeping"
    BY <1>1 DEF RowFine, Waiting
  <2> QED BY <2>1, LiveIsLast
<1>2. /\ ns \subseteq {Len(row.runs)} /\ Woken(row) \subseteq row.waits
      /\ {x \in row.waits : ~Expired(row, x)} \ Woken(row) = {}
  BY <1>1 DEF Woken
<1>3. NewRun("pending") \in RunType /\ NewRun("pending").state = "pending"
  BY DEF NewRun, RunType, Live
<1>4. ASSUME NEW n \in 1 .. Len(row.runs)
      PROVE  /\ rs[n] \in RunType
             /\ n \in ns => /\ n = Len(row.runs) /\ row.runs[n].state = "sleeping"
                            /\ rs[n].state = "pending"
             /\ n \notin ns => rs[n] = row.runs[n]
  BY <1>1, <1>2, <1>3, Runs
<1>5. rs \in Seq(RunType) /\ Len(rs) = Len(row.runs)
  BY <1>4, Runs, MapRuns
<1>6. ASSUME NEW k \in Steps
      PROVE  /\ ck[k] \in 0 .. MaxRuns /\ ck[k] <= Len(row.runs)
             /\ \/ ck[k] = row.ckpt[k]
                \/ /\ \E x \in row.waits : x.step = k
                   /\ row.runs[Len(row.runs)].state = "sleeping"
  <2>1. CASE k \notin ks
    BY <2>1, Runs DEF RowFine
  <2>2. CASE k \in ks
    <3>1. PICK x \in Woken(row) : x.step = k
      BY <2>2
    <3> DEFINE y == CHOOSE y \in Woken(row) : y.step = k
    <3>2. y \in Woken(row) /\ y.step = k
      BY <3>1
    <3>3. ck[k] = y.run
      BY <2>2
    <3> HIDE DEF y
    <3> QED BY <1>1, <1>2, <3>2, <3>3, Runs
  <2> QED BY <2>1, <2>2
<1>7. ck \in Values
  BY <1>6 DEF Values
<1>8. new = [row EXCEPT !.state = IF ns = {} THEN @ ELSE "pending", !.runs = rs,
                        !.ckpt = ck, !.waits = {}]
  BY <1>2 DEF AfterEmit
<1> HIDE DEF rs, ck
<1>9. /\ new \in RowType /\ new.runs = rs /\ new.ckpt = ck /\ new.waits = {}
      /\ new.max = row.max /\ new.state = IF ns = {} THEN row.state ELSE "pending"
  BY <1>5, <1>7, <1>8 DEF RowFine, RowType, Live
<1>10. ns # {} => Len(row.runs) \in ns /\ Len(row.runs) \in 1 .. Len(row.runs)
  BY <1>1, <1>2
<1> HIDE DEF ns
<1>11. LastIsLive(new)
  BY <1>2, <1>4, <1>5, <1>9, <1>10 DEF RowFine, LastIsLive
<1>12. RowFine(new)
  BY <1>5, <1>6, <1>9, <1>10, <1>11, Runs DEF RowFine, None
<1> QED BY <1>4, <1>5, <1>6, <1>9, <1>12

(* Statements that change the lease, the wake-up time or a checkpoint only. *)
Touch(row, n, run, ck) == [row EXCEPT !.runs = [@ EXCEPT ![n] = run], !.ckpt = ck]

LEMMA TouchRow ==
    ASSUME NEW row, RowFine(row), NEW n \in 1 .. Len(row.runs), NEW run \in RunType,
           run.state = row.runs[n].state,
           run.avail = row.runs[n].avail \/ row.runs[n].avail = "later",
           NEW ck \in Values, \A k \in Steps : ck[k] <= Len(row.runs),
           NEW new, new = Touch(row, n, run, ck)
    PROVE  /\ RowFine(new) /\ Len(new.runs) = Len(row.runs) /\ new.ckpt = ck
           /\ new.waits = row.waits /\ new.runs[n] = run /\ new.state = row.state
           /\ \A m \in 1 .. Len(row.runs) : /\ new.runs[m].state = row.runs[m].state
                                            /\ m # n => new.runs[m] = row.runs[m]
<1> DEFINE rs == [row.runs EXCEPT ![n] = run]
<1>1. /\ rs \in Seq(RunType) /\ Len(rs) = Len(row.runs) /\ rs[n] = run
      /\ \A m \in 1 .. Len(row.runs) : m # n => rs[m] = row.runs[m]
  BY Runs, ExceptSeq
<1>2. /\ new \in RowType /\ new.runs = rs /\ new.state = row.state /\ new.waits = row.waits
      /\ new.ckpt = ck /\ new.max = row.max
  BY <1>1 DEF RowFine, RowType, Touch
<1> HIDE DEF rs
<1>3. LastIsLive(new)
  BY <1>1, <1>2, Runs DEF RowFine, LastIsLive
<1>4. \A x \in new.waits : Waiting(new, x)
  BY <1>1, <1>2 DEF RowFine, Waiting
<1>5. RowFine(new)
  BY <1>1, <1>2, <1>3, <1>4 DEF RowFine
<1> QED BY <1>1, <1>2, <1>5

-----------------------------------------------------------------------------
(* Workers.                                                                *)

CtxType == [pc: Pcs, t: Tasks \cup {None}, n: 0 .. MaxRuns, k: 0 .. Len(Program) + 1,
            seen: Values]
InOp == {"put", "checked", "compared", "resolved", "unresolved", "turn"}
Locks == {"resolved", "unresolved"}

(* A context by itself; fs are the faults that have happened. *)
CtxFine(c, fs) ==
    /\ c \in CtxType
    /\ c.pc # "idle" => c.t \in Tasks
    /\ c.pc \in InOp => c.k \in Steps
    /\ c.pc = "op" => c.k > 0
    /\ c.pc \in {"checked", "compared"} => "stall" \in fs

(* What a handler has seen is what the checkpoints say as long as its run is not over,
   and what it is about to store has no checkpoint yet. *)
Agreed(c, row) ==
    /\ c.pc \in {"put", "resolved", "unresolved"} /\ row.runs[c.n].state = "running"
         => row.ckpt[c.k] = 0
    /\ row.runs[c.n].state \in Live =>
         \A k \in Steps : c.seen[k] # 0 => c.seen[k] = row.ckpt[k]

(* A busy worker and the row of its task: unless its handler has failed its run is not
   to be claimed by another, and while it holds the locks the run is running. *)
Attached(c, row, em, fs) ==
    /\ c.n \in 1 .. Len(row.runs)
    /\ c.pc # "error" => row.runs[c.n].state \notin {"pending", "sleeping"}
    /\ c.pc \in Locks => row.runs[c.n].state = "running"
    /\ c.pc = "unresolved" => ~em
    /\ "stall" \notin fs => Agreed(c, row)

(* Of the workers of one run at most one has not failed. *)
Alone(cx, w, c) ==
    \A v \in Workers \ {w} :
        cx[v].pc # "idle" /\ cx[v].t = c.t /\ cx[v].n = c.n => cx[v].pc = "error"

(* Every wait of the row has timed out; no event that is waited for has a checkpoint. *)
Heard(row) == \A x \in row.waits : Expired(row, x)
Open(row) == \A x \in row.waits : row.ckpt[x.step] = 0

Fine(d, cx, em, fs) ==
    /\ d \in [Tasks -> RowType] /\ cx \in [Workers -> CtxType]
    /\ \A t \in Tasks : /\ RowFine(d[t])
                        /\ em => Heard(d[t])
                        /\ "stall" \notin fs => Open(d[t])
    /\ \A w \in Workers :
        /\ CtxFine(cx[w], fs)
        /\ cx[w].pc # "idle" => Attached(cx[w], d[cx[w].t], em, fs)
        /\ cx[w].pc \notin {"idle", "error"} => Alone(cx, w, cx[w])

(* What another worker makes of a row, as seen by one that refers to it. *)
Follows(c, row, new, fs) ==
    /\ c.n \in 1 .. Len(new.runs)
    /\ c.pc # "error" => \/ new.runs[c.n].state = row.runs[c.n].state
                         \/ new.runs[c.n].state \in Ended /\ c.pc \notin Locks
    /\ new.runs[c.n].state \in Live => row.runs[c.n].state \in Live
    /\ "stall" \notin fs /\ new.runs[c.n].state \in Live =>
         \A k \in Steps : \/ new.ckpt[k] = row.ckpt[k]
                          \/ row.ckpt[k] = 0 /\ c.pc = "error"

LEMMA StaysAttached ==
    ASSUME NEW c, NEW row, NEW new, NEW em, NEW fs, CtxFine(c, fs),
           Attached(c, row, em, fs), Follows(c, row, new, fs)
    PROVE  Attached(c, new, em, fs)
<1>1. ASSUME "stall" \notin fs PROVE Agreed(c, new)
  <2>1. ASSUME c.pc \in {"put", "resolved", "unresolved"}, new.runs[c.n].state = "running"
        PROVE  new.ckpt[c.k] = 0
    <3>1. c.k \in Steps
      BY <2>1 DEF CtxFine, InOp
    <3>2. row.runs[c.n].state = "running"
      BY <2>1 DEF Follows, Ended
    <3>3. row.ckpt[c.k] = 0
      BY <1>1, <2>1, <3>2 DEF Attached, Agreed
    <3>4. new.ckpt[c.k] = row.ckpt[c.k]
      BY <1>1, <2>1, <3>1 DEF Follows, Live
    <3> QED BY <3>3, <3>4
  <2>2. ASSUME new.runs[c.n].state \in Live, NEW k \in Steps, c.seen[k] # 0
        PROVE  c.seen[k] = new.ckpt[k]
    BY <1>1, <2>2 DEF Follows, Attached, Agreed
  <2> QED BY <2>1, <2>2 DEF Agreed
<1> QED BY <1>1 DEF Attached, Follows, Ended, Locks

(* More faults. *)
LEMMA FaultStep ==
    ASSUME NEW d, NEW cx, NEW em, NEW fs, Fine(d, cx, em, fs), NEW gs, fs \subseteq gs
    PROVE  Fine(d, cx, em, gs)
<1>1. \A w \in Workers : CtxFine(cx[w], gs)
  BY DEF Fine, CtxFine
<1>2. \A w \in Workers : cx[w].pc # "idle" => Attached(cx[w], d[cx[w].t], em, gs)
  BY DEF Fine, Attached
<1> QED BY <1>1, <1>2 DEF Fine

(* A statement on the row of t. *)
LEMMA RowStep ==
    ASSUME NEW d, NEW cx, NEW em, NEW fs, Fine(d, cx, em, fs), NEW t \in Tasks,
           NEW new, RowFine(new), em => Heard(new), "stall" \notin fs => Open(new),
           \A v \in Workers : cx[v].pc # "idle" /\ cx[v].t = t => Follows(cx[v], d[t], new, fs)
    PROVE  Fine([d EXCEPT ![t] = new], cx, em, fs)
<1> DEFINE e == [d EXCEPT ![t] = new]
<1>1. /\ e \in [Tasks -> RowType] /\ e[t] = new /\ \A u \in Tasks \ {t} : e[u] = d[u]
  BY DEF Fine, RowFine
<1> HIDE DEF e
<1>2. ASSUME NEW v \in Workers, cx[v].pc # "idle" PROVE Attached(cx[v], e[cx[v].t], em, fs)
  <2>1. cx[v].t \in Tasks /\ CtxFine(cx[v], fs) /\ Attached(cx[v], d[cx[v].t], em, fs)
    BY <1>2 DEF Fine, CtxFine
  <2>2. CASE cx[v].t = t
    BY <1>1, <1>2, <2>1, <2>2, StaysAttached
  <2>3. CASE cx[v].t # t
    BY <1>1, <2>1, <2>3
  <2> QED BY <2>2, <2>3
<1>3. \A u \in Tasks : /\ RowFine(e[u]) /\ (em => Heard(e[u]))
                       /\ "stall" \notin fs => Open(e[u])
  BY <1>1 DEF Fine
<1>4. Fine(e, cx, em, fs)
  BY <1>1, <1>2, <1>3 DEF Fine
<1> QED BY <1>4 DEF e

(* A step of the handler in w. *)
LEMMA CtxStep ==
    ASSUME NEW d, NEW cx, NEW em, NEW fs, Fine(d, cx, em, fs), NEW w \in Workers,
           NEW c, CtxFine(c, fs), c.pc # "idle" => Attached(c, d[c.t], em, fs),
           c.pc \notin {"idle", "error"} => Alone(cx, w, c)
    PROVE  Fine(d, [cx EXCEPT ![w] = c], em, fs)
<1> DEFINE e == [cx EXCEPT ![w] = c]
<1>1. /\ e \in [Workers -> CtxType] /\ e[w] = c /\ \A v \in Workers \ {w} : e[v] = cx[v]
  BY DEF Fine, CtxFine
<1> HIDE DEF e
<1>2. ASSUME NEW v \in Workers, e[v].pc \notin {"idle", "error"} PROVE Alone(e, v, e[v])
  <2>1. CASE v = w
    BY <1>1, <1>2, <2>1 DEF Alone
  <2>2. CASE v # w
    <3>1. Alone(cx, v, cx[v])
      BY <1>1, <1>2, <2>2 DEF Fine
    <3>2. c.pc # "idle" /\ c.t = cx[v].t /\ c.n = cx[v].n => c.pc = "error"
      BY <1>1, <1>2, <2>2 DEF Alone
    <3> QED BY <1>1, <2>2, <3>1, <3>2 DEF Alone
  <2> QED BY <2>1, <2>2
<1>3. \A v \in Workers : /\ CtxFine(e[v], fs)
                         /\ e[v].pc # "idle" => Attached(e[v], d[e[v].t], em, fs)
  BY <1>1 DEF Fine
<1>4. Fine(d, e, em, fs)
  BY <1>1, <1>2, <1>3 DEF Fine
<1> QED BY <1>4 DEF e

LEMMA IdleFine == \A fs : CtxFine(Idle, fs) /\ Idle.pc = "idle"
BY QueueAssumption DEF Idle, CtxFine, CtxType, Pcs, InOp, NoValues, Values, Steps

(* Both at once. *)
LEMMA ActStep ==
    ASSUME NEW d, NEW cx, NEW em, NEW fs, Fine(d, cx, em, fs), NEW w \in Workers,
           NEW t \in Tasks, NEW new, RowFine(new), em => Heard(new),
           "stall" \notin fs => Open(new),
           \A v \in Workers \ {w} :
               cx[v].pc # "idle" /\ cx[v].t = t => Follows(cx[v], d[t], new, fs),
           NEW c, CtxFine(c, fs), c.pc # "idle" => c.t = t /\ Attached(c, new, em, fs),
           c.pc \notin {"idle", "error"} => Alone(cx, w, c)
    PROVE  Fine([d EXCEPT ![t] = new], [cx EXCEPT ![w] = c], em, fs)
<1> DEFINE cy == [cx EXCEPT ![w] = Idle]
           e == [d EXCEPT ![t] = new]
<1>1. Fine(d, cy, em, fs)
  BY CtxStep, IdleFine
<1>2. /\ cy[w] = Idle /\ \A v \in Workers \ {w} : cy[v] = cx[v]
      /\ [cy EXCEPT ![w] = c] = [cx EXCEPT ![w] = c]
      /\ e[t] = new
  BY DEF Fine
<1> HIDE DEF cy, e
<1>3. Fine(e, cy, em, fs)
  BY <1>1, <1>2, IdleFine, RowStep DEF e
<1>4. c.pc \notin {"idle", "error"} => Alone(cy, w, c)
  BY <1>2 DEF Alone
<1>5. Fine(e, [cy EXCEPT ![w] = c], em, fs)
  BY <1>2, <1>3, <1>4, CtxStep
<1> QED BY <1>2, <1>5 DEF e

-----------------------------------------------------------------------------
(* Callers and time.                                                       *)

Now == Fine(db, ctx, emitted, faults)

(* Ending runs, or adding one, is followed by every worker that holds no lock. *)
LEMMA FreeFollows ==
    ASSUME NEW d, NEW cx, NEW em, NEW fs, Fine(d, cx, em, fs), NEW t \in Tasks, NEW new,
           Len(new.runs) \in Nat, Len(new.runs) >= Len(d[t].runs), new.ckpt = d[t].ckpt,
           \A m \in 1 .. Len(d[t].runs) : \/ new.runs[m].state = d[t].runs[m].state
                                          \/ new.runs[m].state \in Ended,
           NEW v \in Workers, cx[v].pc # "idle", cx[v].t = t,
           \/ cx[v].pc \notin Locks
           \/ new.runs[cx[v].n].state = d[t].runs[cx[v].n].state
    PROVE  Follows(cx[v], d[t], new, fs)
<1>1. cx[v].n \in 1 .. Len(d[t].runs) /\ Len(d[t].runs) \in Nat
  BY Runs DEF Fine, Attached
<1>2. \/ new.runs[cx[v].n].state = d[t].runs[cx[v].n].state
      \/ new.runs[cx[v].n].state \in Ended /\ cx[v].pc \notin Locks
  BY <1>1
<1> QED BY <1>1, <1>2 DEF Follows, Live, Ended

LEMMA SpawnFine == ASSUME Now, NEW t \in Tasks, Spawn(t) PROVE Now'
<1> DEFINE run == NewRun("pending")
           rs == <<run>>
           new == [db[t] EXCEPT !.state = "pending", !.runs = rs]
<1>1. /\ Fine(db, ctx, emitted, faults) /\ RowFine(db[t]) /\ Len(db[t].runs) = 0
      /\ db[t] \in RowType /\ db[t].waits = {}
  BY DEF Now, Fine, Spawn, RowFine, Waiting
<1>2. run \in RunType /\ run.state = "pending"
  BY DEF NewRun, RunType, Live
<1>3. db' = [db EXCEPT ![t] = new] /\ UNCHANGED <<ctx, emitted, faults>>
  BY DEF Spawn
<1> HIDE DEF run
<1>r. rs \in Seq(RunType) /\ Len(rs) = 1 /\ rs[1] = run
  BY <1>2
<1> HIDE DEF rs
<1>4. /\ new \in RowType /\ new.state = "pending" /\ new.runs = rs /\ new.waits = {}
      /\ new.max = db[t].max /\ new.ckpt = db[t].ckpt
  BY <1>1, <1>r DEF RowType, Live
<1> HIDE DEF new
<1>5. Len(new.runs) = 1 /\ new.runs[1] = run /\ 1 <= new.max
  BY <1>1, <1>4, <1>r, Runs
<1>6. RowFine(new)
  <2>1. LastIsLive(new)
    BY <1>2, <1>4, <1>5 DEF LastIsLive
  <2>2. \A k \in Steps : new.ckpt[k] <= Len(new.runs)
    BY <1>1, <1>4, <1>5, Runs DEF RowFine
  <2> QED BY <1>4, <1>5, <2>1, <2>2 DEF RowFine, None
<1>7. \A v \in Workers : ~(ctx[v].pc # "idle" /\ ctx[v].t = t)
  BY <1>1 DEF Fine, Attached
<1>8. Fine([db EXCEPT ![t] = new], ctx, emitted, faults)
  BY <1>1, <1>4, <1>6, <1>7, RowStep DEF Heard, Open
<1> QED BY <1>3, <1>8 DEF Now

LEMMA CancelFine == ASSUME Now, NEW t \in Tasks, CancelTask(t) PROVE Now'
<1> DEFINE new == AfterCancel(db[t])
<1>0. Fine(db, ctx, emitted, faults') /\ RowFine(db[t]) /\ RowFree(t)
  BY FaultStep DEF Now, Fine, CancelTask, Fault
<1>1. db' = [db EXCEPT ![t] = new] /\ UNCHANGED <<ctx, emitted>>
  BY DEF CancelTask
<1>2. /\ RowFine(new) /\ new.ckpt = db[t].ckpt /\ new.waits = {}
      /\ Len(new.runs) = Len(db[t].runs) /\ Len(new.runs) \in Nat
      /\ \A m \in 1 .. Len(db[t].runs) : \/ new.runs[m] = db[t].runs[m]
                                         \/ new.runs[m].state = "cancelled"
  BY <1>0, CancelRow, Runs DEF CancelTask
<1> HIDE DEF new
<1>3. ASSUME NEW v \in Workers, ctx[v].pc # "idle", ctx[v].t = t
      PROVE  Follows(ctx[v], db[t], new, faults')
  <2>1. ctx[v].pc \notin Locks
    BY <1>0, <1>3 DEF RowFree, Locking, Locks
  <2> QED BY <1>0, <1>2, <1>3, <2>1, FreeFollows DEF Ended
<1>4. Fine([db EXCEPT ![t] = new], ctx, emitted, faults')
  BY <1>0, <1>2, <1>3, RowStep DEF Heard, Open
<1> QED BY <1>1, <1>4 DEF Now

LEMMA RetryFine == ASSUME Now, NEW t \in Tasks, RetryTask(t) PROVE Now'
<1> DEFINE new == AfterRetry(db[t])
<1>0. Fine(db, ctx, emitted, faults) /\ RowFine(db[t])
  BY DEF Now, Fine
<1>1. db' = [db EXCEPT ![t] = new] /\ UNCHANGED <<ctx, emitted, faults>>
  BY DEF RetryTask
<1>g. db[t].state = "failed" /\ Len(db[t].runs) < MaxRuns /\ Len(db[t].runs) \in Nat
  BY <1>0, Runs DEF RetryTask
<1>2. /\ RowFine(new) /\ new.ckpt = db[t].ckpt /\ new.waits = {}
      /\ Len(new.runs) = Len(db[t].runs) + 1
      /\ \A m \in 1 .. Len(db[t].runs) : new.runs[m] = db[t].runs[m]
  BY <1>0, <1>g, RetryRow
<1> HIDE DEF new
<1>n. Len(new.runs) \in Nat /\ Len(new.runs) >= Len(db[t].runs)
  BY <1>2, <1>g
<1>3. ASSUME NEW v \in Workers, ctx[v].pc # "idle", ctx[v].t = t
      PROVE  Follows(ctx[v], db[t], new, faults)
  <2>1. ctx[v].n \in 1 .. Len(db[t].runs)
    BY <1>0, <1>3 DEF Fine, Attached
  <2>2. new.runs[ctx[v].n].state = db[t].runs[ctx[v].n].state
    BY <1>2, <2>1
  <2> QED BY <1>0, <1>2, <1>3, <1>n, <2>2, FreeFollows
<1>4. Fine([db EXCEPT ![t] = new], ctx, emitted, faults)
  BY <1>0, <1>2, <1>3, RowStep DEF Heard, Open
<1> QED BY <1>1, <1>4 DEF Now

(* A statement that changes no state and no checkpoint. *)
LEMMA TouchFine ==
    ASSUME NEW d, NEW cx, NEW em, NEW fs, Fine(d, cx, em, fs), NEW t \in Tasks,
           NEW n \in 1 .. Len(d[t].runs), NEW run \in RunType,
           run.state = d[t].runs[n].state,
           run.avail = d[t].runs[n].avail \/ d[t].runs[n].avail = "later"
    PROVE  Fine([d EXCEPT ![t].runs[n] = run], cx, em, fs)
<1> DEFINE new == Touch(d[t], n, run, d[t].ckpt)
<1>1. RowFine(d[t]) /\ d[t] \in RowType /\ d \in [Tasks -> RowType]
  BY DEF Fine
<1>2. [d EXCEPT ![t].runs[n] = run] = [d EXCEPT ![t] = new]
  BY <1>1 DEF RowType, Touch
<1>3. d[t].ckpt \in Values /\ \A k \in Steps : d[t].ckpt[k] <= Len(d[t].runs)
  BY <1>1 DEF RowFine, RowType
<1>e. new = Touch(d[t], n, run, d[t].ckpt)
  OBVIOUS
<1> HIDE DEF new
<1>4. /\ RowFine(new) /\ Len(new.runs) = Len(d[t].runs) /\ new.ckpt = d[t].ckpt
      /\ new.waits = d[t].waits /\ new.runs[n] = run
      /\ \A m \in 1 .. Len(d[t].runs) : /\ new.runs[m].state = d[t].runs[m].state
                                        /\ m # n => new.runs[m] = d[t].runs[m]
  BY <1>1, <1>3, <1>e, TouchRow
<1>n. Len(new.runs) \in Nat /\ Len(new.runs) >= Len(d[t].runs)
  BY <1>1, <1>4, Runs
<1>5. Heard(d[t]) => Heard(new)
  <2> SUFFICES ASSUME Heard(d[t]), NEW x \in d[t].waits PROVE Expired(new, x)
    BY <1>4 DEF Heard
  <2>1. x.timed /\ d[t].runs[x.run].avail = "now" /\ x.run \in 1 .. Len(d[t].runs)
    BY <1>1 DEF Heard, Expired, RowFine, Waiting
  <2> QED BY <1>4, <2>1 DEF Expired
<1>6. Open(d[t]) => Open(new)
  BY <1>4 DEF Open
<1>7. ASSUME NEW v \in Workers, cx[v].pc # "idle", cx[v].t = t
      PROVE  Follows(cx[v], d[t], new, fs)
  <2>1. cx[v].n \in 1 .. Len(d[t].runs)
    BY <1>7 DEF Fine, Attached
  <2>2. new.runs[cx[v].n].state = d[t].runs[cx[v].n].state
    BY <1>4, <2>1
  <2> QED BY <1>4, <1>7, <1>n, <2>2, FreeFollows
<1>8. Fine([d EXCEPT ![t] = new], cx, em, fs)
  <2>1. (em => Heard(new)) /\ ("stall" \notin fs => Open(new))
    BY <1>5, <1>6 DEF Fine
  <2> QED BY <1>4, <1>7, <2>1, RowStep
<1> QED BY <1>2, <1>8

LEMMA TimeFine == ASSUME Now, NEW t \in Tasks, TimePasses(t) \/ LeaseLapses(t) PROVE Now'
<1>0. Fine(db, ctx, emitted, faults) /\ RowFine(db[t]) /\ DOMAIN db[t].runs = 1 .. Len(db[t].runs)
      /\ \A n \in 1 .. Len(db[t].runs) : db[t].runs[n] \in RunType
      /\ db \in [Tasks -> RowType]
  BY Runs DEF Now, Fine
<1>1. Fine(db, ctx, emitted, faults') /\ UNCHANGED <<ctx, emitted>>
  BY <1>0, FaultStep DEF TimePasses, LeaseLapses, Fault
<1>2. CASE TimePasses(t)
  <2>1. CASE UNCHANGED db
    BY <1>1, <2>1 DEF Now
  <2>2. ASSUME NEW n \in DOMAIN db[t].runs, db[t].runs[n].avail = "later",
               db' = [db EXCEPT ![t].runs[n].avail = "now"]
        PROVE  Now'
    <3> DEFINE run == [db[t].runs[n] EXCEPT !.avail = "now"]
    <3>1. n \in 1 .. Len(db[t].runs) /\ run \in RunType /\ run.state = db[t].runs[n].state
      BY <1>0, <2>2 DEF RunType
    <3>2. db' = [db EXCEPT ![t].runs[n] = run]
      BY <2>2
    <3> HIDE DEF run
    <3>3. Fine([db EXCEPT ![t].runs[n] = run], ctx, emitted, faults')
      BY <1>1, <2>2, <3>1, TouchFine
    <3> QED BY <1>1, <3>2, <3>3 DEF Now
  <2> QED BY <1>2, <2>1, <2>2 DEF TimePasses
<1>3. CASE LeaseLapses(t)
  <2>1. PICK n \in DOMAIN db[t].runs : db' = [db EXCEPT ![t].runs[n].lease = "lapsed"]
    BY <1>3 DEF LeaseLapses
  <2> DEFINE run == [db[t].runs[n] EXCEPT !.lease = "lapsed"]
  <2>2. n \in 1 .. Len(db[t].runs) /\ run \in RunType /\ run.state = db[t].runs[n].state
        /\ run.avail = db[t].runs[n].avail
    BY <1>0 DEF RunType
  <2>3. db' = [db EXCEPT ![t].runs[n] = run]
    BY <2>1
  <2> HIDE DEF run
  <2>4. Fine([db EXCEPT ![t].runs[n] = run], ctx, emitted, faults')
    BY <1>1, <2>2, TouchFine
  <2> QED BY <1>1, <2>3, <2>4 DEF Now
<1> QED BY <1>2, <1>3

(* emit_event: who has not failed runs, and keeps its run and its checkpoints; who has
   may find the payload in a checkpoint that was open. *)
LEMMA EmitFine == ASSUME Now, EmitEvent PROVE Now'
<1>0. Fine(db, ctx, emitted, faults) /\ \A w \in Workers : ctx[w].pc \notin Locks
  BY DEF Now, EmitEvent, Locking, Locks
<1>1. emitted' = TRUE /\ db' = [t \in Tasks |-> AfterEmit(db[t])] /\ UNCHANGED <<ctx, faults>>
  BY DEF EmitEvent
<1>2. PICK d : d = [t \in Tasks |-> AfterEmit(db[t])]
  OBVIOUS
<1>3. ASSUME NEW t \in Tasks
      PROVE  /\ RowFine(d[t]) /\ d[t].waits = {} /\ Len(d[t].runs) = Len(db[t].runs)
             /\ \A m \in 1 .. Len(db[t].runs) :
                  \/ d[t].runs[m] = db[t].runs[m]
                  \/ db[t].runs[m].state = "sleeping" /\ d[t].runs[m].state = "pending"
             /\ \A k \in Steps : \/ d[t].ckpt[k] = db[t].ckpt[k]
                                 \/ /\ \E x \in db[t].waits : x.step = k
                                    /\ db[t].runs[Len(db[t].runs)].state = "sleeping"
  <2>1. RowFine(db[t]) /\ d[t] = AfterEmit(db[t])
    BY <1>0, <1>2 DEF Fine
  <2> QED BY <2>1, EmitRow
<1>4. d \in [Tasks -> RowType] /\ \A t \in Tasks : RowFine(d[t]) /\ Heard(d[t]) /\ Open(d[t])
  <2>1. \A t \in Tasks : d[t] \in RowType /\ RowFine(d[t]) /\ Heard(d[t]) /\ Open(d[t])
    BY <1>3 DEF RowFine, Heard, Open
  <2> QED BY <1>2, <2>1
<1>5. ASSUME NEW v \in Workers, ctx[v].pc # "idle"
      PROVE  Attached(ctx[v], d[ctx[v].t], TRUE, faults)
  <2>0. PICK c : c = ctx[v]
    OBVIOUS
  <2>1. c.t \in Tasks /\ Attached(c, db[c.t], emitted, faults) /\ RowFine(db[c.t])
        /\ c.pc \notin Locks
    BY <1>0, <1>5, <2>0 DEF Fine, CtxFine
  <2>2. /\ c.n \in 1 .. Len(db[c.t].runs) /\ Len(d[c.t].runs) = Len(db[c.t].runs)
        /\ \/ d[c.t].runs[c.n] = db[c.t].runs[c.n]
           \/ /\ db[c.t].runs[c.n].state = "sleeping" /\ d[c.t].runs[c.n].state = "pending"
              /\ c.pc = "error"
    BY <1>3, <2>1 DEF Attached
  <2>3. ASSUME "stall" \notin faults PROVE Agreed(c, d[c.t])
    <3>0. Agreed(c, db[c.t]) /\ Open(db[c.t])
      BY <1>0, <2>1, <2>3 DEF Fine, Attached
    <3>1. ASSUME c.pc = "put", d[c.t].runs[c.n].state = "running"
          PROVE  d[c.t].ckpt[c.k] = 0
      <4>1. db[c.t].runs[c.n].state = "running" /\ c.n = Len(db[c.t].runs) /\ c.k \in Steps
        BY <1>0, <2>0, <2>1, <2>2, <3>1, LiveIsLast DEF Fine, CtxFine, InOp
      <4>2. d[c.t].ckpt[c.k] = db[c.t].ckpt[c.k]
        BY <1>3, <2>1, <4>1
      <4> QED BY <3>0, <3>1, <4>1, <4>2 DEF Agreed
    <3>2. ASSUME d[c.t].runs[c.n].state \in Live, NEW k \in Steps, c.seen[k] # 0
          PROVE  c.seen[k] = d[c.t].ckpt[k]
      <4>1. c.seen[k] = db[c.t].ckpt[k]
        BY <2>2, <3>0, <3>2 DEF Agreed, Live
      <4>2. d[c.t].ckpt[k] = db[c.t].ckpt[k]
        BY <1>3, <2>1, <3>0, <3>2, <4>1 DEF Open
      <4> QED BY <4>1, <4>2
    <3> QED BY <2>1, <3>1, <3>2 DEF Agreed, Locks
  <2>4. Attached(c, d[c.t], TRUE, faults)
    BY <2>1, <2>2, <2>3 DEF Attached, Locks
  <2> QED BY <2>0, <2>4
<1>6. Fine(d, ctx, TRUE, faults)
  BY <1>0, <1>4, <1>5 DEF Fine
<1> QED BY <1>1, <1>2, <1>6 DEF Now

-----------------------------------------------------------------------------
(* Claiming.                                                               *)

(* fail_run under the row's lock, by the sweep or by the handler's worker. *)
LEMMA FailStep ==
    ASSUME NEW d, NEW cx, NEW em, NEW fs, Fine(d, cx, em, fs), NEW t \in Tasks,
           NEW n \in 1 .. Len(d[t].runs), d[t].runs[n].state \in {"running", "sleeping"},
           \A v \in Workers : cx[v].pc # "idle" /\ cx[v].t = t => cx[v].pc \notin Locks
    PROVE  Fine([d EXCEPT ![t] = AfterFail(d[t], n)], cx, em, fs)
<1>1. PICK new : new = AfterFail(d[t], n)
  OBVIOUS
<1>2. RowFine(d[t])
  BY DEF Fine
<1>3. /\ n = Len(d[t].runs) /\ RowFine(new) /\ new.ckpt = d[t].ckpt /\ new.waits = {}
      /\ Len(new.runs) \in {n, n + 1} /\ new.runs[n].state = "failed"
      /\ \A m \in 1 .. Len(d[t].runs) : m # n => new.runs[m] = d[t].runs[m]
  BY <1>1, <1>2, FailRow
<1>4. Len(new.runs) \in Nat /\ Len(new.runs) >= Len(d[t].runs)
  BY <1>2, <1>3, Runs
<1>5. \A m \in 1 .. Len(d[t].runs) : \/ new.runs[m].state = d[t].runs[m].state
                                     \/ new.runs[m].state \in Ended
  BY <1>3 DEF Ended
<1>6. \A v \in Workers : cx[v].pc # "idle" /\ cx[v].t = t => Follows(cx[v], d[t], new, fs)
  BY <1>3, <1>4, <1>5, FreeFollows
<1>7. Fine([d EXCEPT ![t] = new], cx, em, fs)
  BY <1>3, <1>6, RowStep DEF Heard, Open
<1> QED BY <1>1, <1>7

LEMMA Unlocked ==
    ASSUME NEW t, RowFree(t)
    PROVE  \A v \in Workers : ctx[v].pc # "idle" /\ ctx[v].t = t => ctx[v].pc \notin Locks
BY DEF RowFree, Locking, Locks

LEMMA SweepFine ==
    ASSUME Now, NEW d \in Swept PROVE Fine(d, ctx, emitted, faults)
<1>0. Fine(db, ctx, emitted, faults)
  BY DEF Now
<1>1. CASE d = db
  BY <1>0, <1>1
<1>2. CASE d # db
  <2>1. PICK x \in Lapsed : d = [db EXCEPT ![x[1]] = AfterFail(db[x[1]], x[2])]
    BY <1>2 DEF Swept
  <2>2. PICK t, n : t = x[1] /\ n = x[2]
    OBVIOUS
  <2>3. t \in Tasks /\ n \in DOMAIN db[t].runs /\ db[t].runs[n].state = "running" /\ RowFree(t)
    BY <2>1, <2>2 DEF Lapsed
  <2>4. n \in 1 .. Len(db[t].runs)
    BY <1>0, <2>3, Runs DEF Fine
  <2>5. Fine([db EXCEPT ![t] = AfterFail(db[t], n)], ctx, emitted, faults)
    BY <1>0, <2>3, <2>4, Unlocked, FailStep
  <2> QED BY <2>1, <2>2, <2>5
<1> QED BY <1>1, <1>2

LEMMA ClaimFine ==
    ASSUME Now, NEW w \in Workers, ClaimTask(w) \/ ClaimNothing(w) PROVE Now'
<1>1. CASE ClaimNothing(w)
  BY <1>1, SweepFine DEF ClaimNothing, Now
<1>2. CASE ClaimTask(w)
  <2>1. PICK d \in Swept, t \in Tasks, n \in 1 .. MaxRuns :
          /\ Claimable(d, t, n)
          /\ db' = [d EXCEPT ![t] = AfterClaim(d[t], n)]
          /\ ctx' = [ctx EXCEPT ![w] = [Idle EXCEPT !.pc = "load", !.t = t, !.n = n]]
          /\ UNCHANGED <<emitted, faults>>
    BY <1>2 DEF ClaimTask
  <2>2. Fine(d, ctx, emitted, faults) /\ RowFine(d[t])
    BY SweepFine DEF Fine
  <2>3. PICK new, c, run : /\ new = AfterClaim(d[t], n) /\ run = ClaimedRun(d[t].runs[n])
                           /\ c = [Idle EXCEPT !.pc = "load", !.t = t, !.n = n]
    OBVIOUS
  <2>4. n \in 1 .. Len(d[t].runs) /\ d[t].runs[n].state \in {"pending", "sleeping"}
        /\ d[t].runs[n].avail = "now"
    BY <2>1, <2>2, Runs DEF Claimable
  <2>5. /\ n = Len(d[t].runs) /\ new = SetLast(d[t], n, "running", run, {})
        /\ run \in RunType /\ run.state = "running"
    BY <2>2, <2>3, <2>4, ClaimRow
  <2>6. /\ RowFine(new) /\ Len(new.runs) = Len(d[t].runs) /\ new.ckpt = d[t].ckpt
        /\ new.runs[n] = run /\ new.waits = {}
        /\ \A m \in 1 .. Len(d[t].runs) : m # n => new.runs[m] = d[t].runs[m]
    <3>1. "running" \in Live \cup Ended /\ {} \in SUBSET WaitType
      BY DEF Live
    <3> QED BY <2>2, <2>4, <2>5, <3>1, SetLastFine
  <2>7. /\ c \in CtxType /\ c.pc = "load" /\ c.t = t /\ c.n = n
        /\ \A k \in Steps : c.seen[k] = 0
    <3>1. NoValues \in Values /\ (\A k \in Steps : NoValues[k] = 0)
          /\ 0 \in 0 .. Len(Program) + 1
      BY QueueAssumption DEF NoValues, Values
    <3>2. c = [pc |-> "load", t |-> t, n |-> n, k |-> 0, seen |-> NoValues]
      BY <2>3 DEF Idle
    <3> QED BY <3>1, <3>2, QueueAssumption DEF CtxType, Pcs
  <2>8. CtxFine(c, faults)
    BY <2>7 DEF CtxFine, InOp
  <2>9. Attached(c, new, emitted, faults)
    BY <2>4, <2>5, <2>6, <2>7 DEF Attached, Agreed, Locks
  <2>10. ASSUME NEW v \in Workers, ctx[v].pc # "idle", ctx[v].t = t
         PROVE  /\ ctx[v].n \in 1 .. Len(d[t].runs)
                /\ ctx[v].n = n => ctx[v].pc = "error"
    BY <2>2, <2>4, <2>10 DEF Fine, Attached
  <2>11. ASSUME NEW v \in Workers \ {w}, ctx[v].pc # "idle", ctx[v].t = t
         PROVE  Follows(ctx[v], d[t], new, faults)
    BY <2>4, <2>5, <2>6, <2>10, <2>11 DEF Follows, Live
  <2>12. Alone(ctx, w, c)
    BY <2>7, <2>10 DEF Alone
  <2>13. (emitted => Heard(new)) /\ ("stall" \notin faults => Open(new))
    BY <2>6 DEF Heard, Open
  <2>14. Fine([d EXCEPT ![t] = new], [ctx EXCEPT ![w] = c], emitted, faults)
    BY <2>2, <2>6, <2>7, <2>8, <2>9, <2>11, <2>12, <2>13, ActStep
  <2> QED BY <2>1, <2>3, <2>14 DEF Now
<1> QED BY <1>1, <1>2

-----------------------------------------------------------------------------
(* Handlers: steps that leave the rows alone.                              *)

LEMMA Mine ==
    ASSUME NEW d, NEW cx, NEW em, NEW fs, Fine(d, cx, em, fs), NEW w \in Workers,
           cx[w].pc # "idle"
    PROVE  /\ cx[w] \in CtxType /\ CtxFine(cx[w], fs) /\ cx[w].t \in Tasks
           /\ RowFine(d[cx[w].t]) /\ Attached(cx[w], d[cx[w].t], em, fs)
           /\ cx[w].n \in 1 .. Len(d[cx[w].t].runs) /\ cx[w].n \in 1 .. MaxRuns
           /\ cx[w].pc # "error" => Alone(cx, w, cx[w])
<1>1. /\ cx[w] \in CtxType /\ CtxFine(cx[w], fs) /\ cx[w].t \in Tasks
      /\ RowFine(d[cx[w].t]) /\ Attached(cx[w], d[cx[w].t], em, fs)
      /\ cx[w].pc # "error" => Alone(cx, w, cx[w])
  BY DEF Fine, CtxFine
<1>2. cx[w].n \in 1 .. Len(d[cx[w].t].runs)
  BY <1>1 DEF Attached
<1> QED BY <1>1, <1>2, Runs

LEMMA LeaveStep ==
    ASSUME NEW d, NEW cx, NEW em, NEW fs, Fine(d, cx, em, fs), NEW w \in Workers
    PROVE  Fine(d, [cx EXCEPT ![w] = Idle], em, fs)
BY CtxStep, IdleFine

LEMMA GoStep ==
    ASSUME NEW d, NEW cx, NEW em, NEW fs, Fine(d, cx, em, fs), NEW w \in Workers,
           cx[w].pc # "idle", NEW c, CtxFine(c, fs), c.pc # "idle",
           c.pc = "error" \/ cx[w].pc # "error", c.t = cx[w].t, c.n = cx[w].n,
           c.pc \in Locks => d[c.t].runs[c.n].state = "running",
           c.pc = "unresolved" => ~em, "stall" \notin fs => Agreed(c, d[c.t])
    PROVE  Fine(d, [cx EXCEPT ![w] = c], em, fs)
<1>1. Attached(c, d[c.t], em, fs)
  BY Mine DEF Attached
<1>2. c.pc \notin {"idle", "error"} => Alone(cx, w, c)
  BY Mine DEF Alone
<1> QED BY <1>1, <1>2, CtxStep

LEMMA ErrorStep ==
    ASSUME NEW d, NEW cx, NEW em, NEW fs, Fine(d, cx, em, fs), NEW w \in Workers,
           cx[w].pc # "idle"
    PROVE  Fine(d, [cx EXCEPT ![w].pc = "error"], em, fs)
<1>1. PICK c : c = [cx[w] EXCEPT !.pc = "error"]
  OBVIOUS
<1>2. c \in CtxType /\ c.pc = "error" /\ c.t = cx[w].t /\ c.n = cx[w].n /\ c.seen = cx[w].seen
  BY <1>1, Mine DEF CtxType, Pcs
<1>3. CtxFine(c, fs)
  BY <1>2, Mine DEF CtxFine, InOp
<1>4. "stall" \notin fs => Agreed(c, d[c.t])
  BY <1>2, Mine DEF Attached, Agreed
<1>5. Fine(d, [cx EXCEPT ![w] = c], em, fs)
  BY <1>2, <1>3, <1>4, GoStep DEF Locks
<1>6. [cx EXCEPT ![w].pc = "error"] = [cx EXCEPT ![w] = c]
  BY <1>1
<1> QED BY <1>5, <1>6

(* On to the next operation: seen holds what the checkpoints say. *)
LEMMA OpStep ==
    ASSUME NEW d, NEW cx, NEW em, NEW fs, Fine(d, cx, em, fs), NEW w \in Workers,
           cx[w].pc \notin {"idle", "error"}, NEW c \in CtxType,
           c.pc = "op", c.k > 0, c.t = cx[w].t, c.n = cx[w].n,
           "stall" \notin fs /\ d[c.t].runs[c.n].state \in Live =>
               \A k \in Steps : c.seen[k] # 0 => c.seen[k] = d[c.t].ckpt[k]
    PROVE  Fine(d, [cx EXCEPT ![w] = c], em, fs)
<1>1. CtxFine(c, fs)
  BY Mine DEF CtxFine, InOp
<1>2. "stall" \notin fs => Agreed(c, d[c.t])
  BY DEF Agreed
<1> QED BY <1>1, <1>2, GoStep DEF Locks

LEMMA LoadFine == ASSUME Now, NEW w \in Workers, LoadCheckpoints(w) PROVE Now'
<1>0. Fine(db, ctx, emitted, faults) /\ ctx[w].pc = "load"
      /\ UNCHANGED <<db, emitted, faults>>
  BY DEF Now, LoadCheckpoints, At, Keep
<1>1. PICK f, c : /\ f = [k \in Steps |-> IF db[ctx[w].t].ckpt[k] <= ctx[w].n
                                            THEN db[ctx[w].t].ckpt[k] ELSE 0]
                  /\ c = [ctx[w] EXCEPT !.pc = "op", !.k = 1, !.seen = f]
  OBVIOUS
<1>2. ctx[w] \in CtxType /\ RowFine(db[ctx[w].t])
  BY <1>0, Mine
<1>3. f \in Values /\ \A k \in Steps : f[k] # 0 => f[k] = db[ctx[w].t].ckpt[k]
  BY <1>1, <1>2, Runs DEF Values
<1>4. 1 \in 0 .. Len(Program) + 1
  BY QueueAssumption
<1>5. /\ c \in CtxType /\ c.pc = "op" /\ c.k = 1 /\ c.t = ctx[w].t /\ c.n = ctx[w].n
      /\ c.seen = f
  BY <1>1, <1>2, <1>3, <1>4 DEF CtxType, Pcs
<1>6. ctx' = [ctx EXCEPT ![w] = c]
  BY <1>1 DEF LoadCheckpoints
<1>7. Fine(db, [ctx EXCEPT ![w] = c], emitted, faults)
  BY <1>0, <1>3, <1>5, OpStep
<1> QED BY <1>0, <1>6, <1>7 DEF Now

(* lookup_checkpoint: what the handler knows or else what is stored. *)
LEMMA KnownFine ==
    ASSUME Now, NEW w \in Workers, AtOp(w), NEW c, c = ctx[w]
    PROVE  /\ c \in CtxType /\ c.pc = "op" /\ c.k \in Steps
           /\ Known(w) \in 0 .. MaxRuns
           /\ Known(w) = 0 => db[c.t].ckpt[c.k] = 0
           /\ "stall" \notin faults /\ db[c.t].runs[c.n].state \in Live =>
                Known(w) = db[c.t].ckpt[c.k]
<1>0. Fine(db, ctx, emitted, faults) /\ c.pc = "op" /\ c.k \in Steps
  BY DEF Now, AtOp, At
<1>1. c \in CtxType /\ RowFine(db[c.t]) /\ Attached(c, db[c.t], emitted, faults)
  BY <1>0, Mine
<1>2. c.seen[c.k] \in 0 .. MaxRuns
  BY <1>0, <1>1 DEF CtxType, Values
<1>3. db[c.t].ckpt[c.k] \in 0 .. MaxRuns
  BY <1>0, <1>1, Runs
<1>4. Known(w) = IF c.seen[c.k] # 0 THEN c.seen[c.k] ELSE db[c.t].ckpt[c.k]
  BY DEF Known
<1>5. "stall" \notin faults /\ db[c.t].runs[c.n].state \in Live =>
        (c.seen[c.k] # 0 => c.seen[c.k] = db[c.t].ckpt[c.k])
  BY <1>0, <1>1 DEF Attached, Agreed
<1> QED BY <1>0, <1>1, <1>2, <1>3, <1>4, <1>5

LEMMA NextOp == \A k \in Steps : k + 1 \in 0 .. Len(Program) + 1 /\ k + 1 > 0
BY QueueAssumption DEF Steps

LEMMA ReplayFine == ASSUME Now, NEW w \in Workers, Replay(w) PROVE Now'
<1>0. Fine(db, ctx, emitted, faults) /\ AtOp(w) /\ UNCHANGED <<db, emitted, faults>>
  BY DEF Now, Replay, Keep
<1>1. PICK b, v : b = ctx[w] /\ v = Known(w)
  OBVIOUS
<1>2. PICK f, c : f = [b.seen EXCEPT ![b.k] = v] /\ c = [b EXCEPT !.seen = f, !.k = b.k + 1]
  OBVIOUS
<1>3. /\ b \in CtxType /\ b.pc = "op" /\ b.k \in Steps /\ v \in 0 .. MaxRuns
      /\ "stall" \notin faults /\ db[b.t].runs[b.n].state \in Live => v = db[b.t].ckpt[b.k]
  BY <1>0, <1>1, KnownFine
<1>4. f \in Values /\ \A k \in Steps : f[k] = IF k = b.k THEN v ELSE b.seen[k]
  BY <1>2, <1>3 DEF CtxType, Values
<1>5. /\ c \in CtxType /\ c.pc = "op" /\ c.k > 0 /\ c.t = b.t /\ c.n = b.n /\ c.seen = f
  BY <1>2, <1>3, <1>4, NextOp DEF CtxType
<1>6. ctx' = [ctx EXCEPT ![w] = c]
  BY <1>1, <1>2, <1>3 DEF Replay, CtxType
<1>7. "stall" \notin faults /\ db[b.t].runs[b.n].state \in Live =>
        \A k \in Steps : b.seen[k] # 0 => b.seen[k] = db[b.t].ckpt[k]
  BY <1>0, <1>1, <1>3, Mine DEF Attached, Agreed
<1>8. "stall" \notin faults /\ db[c.t].runs[c.n].state \in Live =>
        \A k \in Steps : c.seen[k] # 0 => c.seen[k] = db[c.t].ckpt[k]
  BY <1>3, <1>4, <1>5, <1>7
<1>9. Fine(db, [ctx EXCEPT ![w] = c], emitted, faults)
  BY <1>0, <1>1, <1>3, <1>5, <1>8, OpStep
<1> QED BY <1>0, <1>6, <1>9 DEF Now

(* A program counter alone. *)
LEMMA GotoStep ==
    ASSUME NEW d, NEW cx, NEW em, NEW fs, Fine(d, cx, em, fs), NEW w \in Workers,
           cx[w].pc \notin {"idle", "error"}, cx[w].k \in Steps,
           NEW pc \in InOp, pc \in {"checked", "compared"} => "stall" \in fs,
           pc \in Locks => d[cx[w].t].runs[cx[w].n].state = "running",
           pc = "unresolved" => ~em,
           "stall" \notin fs => d[cx[w].t].ckpt[cx[w].k] = 0 \/ pc = "turn"
    PROVE  Fine(d, [cx EXCEPT ![w].pc = pc], em, fs)
<1>1. PICK c : c = [cx[w] EXCEPT !.pc = pc]
  OBVIOUS
<1>2. /\ c \in CtxType /\ c.pc = pc /\ c.t = cx[w].t /\ c.n = cx[w].n /\ c.seen = cx[w].seen
      /\ c.k = cx[w].k /\ c.t \in Tasks /\ c.pc # "idle"
  BY <1>1, Mine DEF CtxType, Pcs, InOp
<1>3. CtxFine(c, fs)
  BY <1>2 DEF CtxFine, InOp
<1>a. "stall" \notin fs => Agreed(cx[w], d[cx[w].t])
  BY Mine DEF Attached
<1>4. "stall" \notin fs => Agreed(c, d[c.t])
  BY <1>2, <1>a DEF Agreed
<1>5. Fine(d, [cx EXCEPT ![w] = c], em, fs)
  BY <1>2, <1>3, <1>4, GoStep
<1>6. [cx EXCEPT ![w].pc = pc] = [cx EXCEPT ![w] = c]
  BY <1>1
<1> QED BY <1>5, <1>6

LEMMA BeginFine == ASSUME Now, NEW w \in Workers, Begin(w) PROVE Now'
<1>0. /\ Fine(db, ctx, emitted, faults) /\ AtOp(w) /\ UNCHANGED <<db, emitted>>
      /\ Fine(db, ctx, emitted, faults') /\ Known(w) = 0
  BY FaultStep DEF Now, Begin, Fault
<1>1. ctx[w].pc = "op" /\ ctx[w].k \in Steps /\ db[ctx[w].t].ckpt[ctx[w].k] = 0
  BY <1>0, KnownFine
<1>2. ASSUME NEW pc \in {"put", "turn"}, Goto(w, pc) PROVE Now'
  <2>1. pc \in InOp /\ pc \notin Locks
    BY <1>2 DEF InOp, Locks
  <2>2. Fine(db, [ctx EXCEPT ![w].pc = pc], emitted, faults')
    BY <1>0, <1>1, <1>2, <2>1, GotoStep
  <2> QED BY <1>0, <1>2, <2>2 DEF Now, Goto
<1>3. ASSUME Goto(w, "error") PROVE Now'
  BY <1>0, <1>1, <1>3, ErrorStep DEF Now, Goto
<1> QED BY <1>2, <1>3 DEF Begin

LEMMA StallFine == ASSUME Now, NEW w \in Workers, StallPut(w) PROVE Now'
<1>0. /\ Fine(db, ctx, emitted, faults) /\ ctx[w].pc = "put" /\ UNCHANGED <<db, emitted>>
      /\ Fine(db, ctx, emitted, faults') /\ "stall" \in faults'
      /\ ctx' = [ctx EXCEPT ![w].pc = "checked"]
  BY FaultStep DEF Now, StallPut, Fault, At, Goto
<1>1. ctx[w].k \in Steps
  BY <1>0, Mine DEF CtxFine, InOp
<1>2. Fine(db, [ctx EXCEPT ![w].pc = "checked"], emitted, faults')
  BY <1>0, <1>1, GotoStep DEF InOp, Locks
<1> QED BY <1>0, <1>2 DEF Now

LEMMA AwaitFine == ASSUME Now, NEW w \in Workers, AwaitEvent(w) PROVE Now'
<1>0. /\ Fine(db, ctx, emitted, faults) /\ AtOp(w) /\ Known(w) = 0
      /\ UNCHANGED <<db, emitted, faults>>
  BY DEF Now, AwaitEvent, Keep
<1>1. ctx[w].pc = "op" /\ ctx[w].k \in Steps /\ db[ctx[w].t].ckpt[ctx[w].k] = 0
  BY <1>0, KnownFine
<1>2. CASE Goto(w, "error")
  BY <1>0, <1>1, <1>2, ErrorStep DEF Now, Goto
<1>3. ASSUME NEW pc \in Locks, Goto(w, pc), RunOf(w).state = "running", pc = "unresolved" => ~emitted
      PROVE  Now'
  <2>1. pc \in InOp /\ pc \notin {"checked", "compared"}
    BY <1>3 DEF InOp, Locks
  <2>2. Fine(db, [ctx EXCEPT ![w].pc = pc], emitted, faults)
    BY <1>0, <1>1, <1>3, <2>1, GotoStep DEF RunOf
  <2> QED BY <1>0, <1>3, <2>2 DEF Now, Goto
<1>4. PICK p : /\ Goto(w, p)
               /\ p = IF db[ctx[w].t].state = "cancelled" \/ RunOf(w).state # "running"
                        THEN "error"
                        ELSE IF emitted THEN "resolved" ELSE "unresolved"
  BY DEF AwaitEvent
<1>5. \/ p = "error"
      \/ p \in Locks /\ RunOf(w).state = "running" /\ (p = "unresolved" => ~emitted)
  BY <1>4 DEF Locks
<1> QED BY <1>2, <1>3, <1>4, <1>5

LEMMA LeaveFine ==
    ASSUME Now, NEW w \in Workers, SeeCancellation(w) \/ Crash(w) PROVE Now'
<1>0. Fine(db, ctx, emitted, faults') /\ UNCHANGED <<db, emitted>> /\ Leave(w)
  BY FaultStep DEF Now, SeeCancellation, Crash, Fault, Keep
<1> QED BY <1>0, LeaveStep DEF Now, Leave

(* Past an operation that leaves no checkpoint. *)
LEMMA SkipStep ==
    ASSUME NEW d, NEW cx, NEW em, NEW fs, Fine(d, cx, em, fs), NEW w \in Workers,
           cx[w].pc \in InOp
    PROVE  Fine(d, [cx EXCEPT ![w].pc = "op", ![w].k = @ + 1], em, fs)
<1>1. PICK b : b = cx[w]
  OBVIOUS
<1>2. PICK c : c = [b EXCEPT !.pc = "op", !.k = b.k + 1]
  OBVIOUS
<1>3. b \in CtxType /\ b.pc \notin {"idle", "error"} /\ b.k \in Steps
      /\ Attached(b, d[b.t], em, fs)
  BY <1>1, Mine DEF CtxFine, InOp
<1>4. /\ c \in CtxType /\ c.pc = "op" /\ c.k > 0 /\ c.t = b.t /\ c.n = b.n /\ c.seen = b.seen
  BY <1>2, <1>3, NextOp DEF CtxType, Pcs
<1>5. [cx EXCEPT ![w].pc = "op", ![w].k = @ + 1] = [cx EXCEPT ![w] = c]
  BY <1>1, <1>2, <1>3 DEF CtxType
<1>6. Fine(d, [cx EXCEPT ![w] = c], em, fs)
  BY <1>1, <1>3, <1>4, OpStep DEF Attached, Agreed
<1> QED BY <1>5, <1>6

LEMMA TurnFine == ASSUME Now, NEW w \in Workers, TurnResult(w) PROVE Now'
<1>0. Fine(db, ctx, emitted, faults) /\ ctx[w].pc = "turn" /\ UNCHANGED <<db, emitted, faults>>
  BY DEF Now, TurnResult, At
<1>1. ctx[w].pc \in InOp
  BY <1>0 DEF InOp
<1>2. CASE ctx' = [ctx EXCEPT ![w].pc = "op", ![w].k = @ + 1]
  <2>1. Fine(db, [ctx EXCEPT ![w].pc = "op", ![w].k = @ + 1], emitted, faults)
    BY <1>0, <1>1, SkipStep
  <2> QED BY <1>0, <1>2, <2>1 DEF Now
<1>3. CASE Goto(w, "error")
  BY <1>0, <1>3, ErrorStep DEF Now, Goto
<1> QED BY <1>2, <1>3 DEF TurnResult

-----------------------------------------------------------------------------
(* Handlers: statements on the row of their task.                          *)

(* The one handler that has not failed ends or suspends its run. *)
Failed(c) == [c EXCEPT !.pc = "error"]
Ends(row, n, new, em, fs) ==
    /\ row.runs[n].state = "running" /\ RowFine(new)
    /\ (em => Heard(new)) /\ ("stall" \notin fs => Open(new))
    /\ new.ckpt = row.ckpt /\ Len(new.runs) = Len(row.runs)
    /\ \A m \in 1 .. Len(row.runs) : m # n => new.runs[m] = row.runs[m]

LEMMA EndStep ==
    ASSUME NEW d, NEW cx, NEW em, NEW fs, Fine(d, cx, em, fs), NEW w \in Workers,
           cx[w].pc \notin {"idle", "error"}, NEW t, NEW n, t = cx[w].t, n = cx[w].n,
           NEW new, Ends(d[t], n, new, em, fs), NEW c, c = Idle \/ c = Failed(cx[w])
    PROVE  Fine([d EXCEPT ![t] = new], [cx EXCEPT ![w] = c], em, fs)
<1>1. /\ t \in Tasks /\ cx[w] \in CtxType /\ CtxFine(cx[w], fs) /\ n \in 1 .. Len(d[t].runs)
      /\ Attached(cx[w], d[t], em, fs) /\ Alone(cx, w, cx[w])
  BY Mine
<1>e. /\ d[t].runs[n].state = "running" /\ RowFine(new)
      /\ (em => Heard(new)) /\ ("stall" \notin fs => Open(new))
      /\ new.ckpt = d[t].ckpt /\ Len(new.runs) = Len(d[t].runs)
      /\ \A m \in 1 .. Len(d[t].runs) : m # n => new.runs[m] = d[t].runs[m]
  BY DEF Ends
<1>2. ASSUME NEW v \in Workers \ {w}, cx[v].pc # "idle", cx[v].t = t
      PROVE  Follows(cx[v], d[t], new, fs)
  <2>1. cx[v].n \in 1 .. Len(d[t].runs) /\ (cx[v].n = n => cx[v].pc = "error")
    BY <1>1, <1>2 DEF Fine, Attached, Alone
  <2>2. CASE cx[v].n = n
    BY <1>e, <2>1, <2>2 DEF Follows, Live
  <2>3. CASE cx[v].n # n
    BY <1>e, <2>1, <2>3 DEF Follows, Live
  <2> QED BY <2>2, <2>3
<1>3. CASE c = Idle
  BY <1>1, <1>2, <1>3, <1>e, IdleFine, ActStep
<1>4. CASE c = Failed(cx[w])
  <2>1. /\ c \in CtxType /\ c.pc = "error" /\ c.t = t /\ c.n = n /\ c.seen = cx[w].seen
    BY <1>1, <1>4 DEF Failed, CtxType, Pcs
  <2>2. CtxFine(c, fs)
    BY <1>1, <2>1 DEF CtxFine, InOp
  <2>3. Attached(c, new, em, fs)
    BY <1>1, <1>e, <2>1 DEF Attached, Agreed, Locks, Live
  <2> QED BY <1>1, <1>2, <1>e, <2>1, <2>2, <2>3, ActStep
<1> QED BY <1>3, <1>4

LEMMA SleepFine ==
    ASSUME Now, NEW w \in Workers, SleepOn(w) \/ RefuseRun(w) PROVE Now'
<1>0. /\ Fine(db, ctx, emitted, faults') /\ UNCHANGED emitted
      /\ ctx[w].pc \notin {"idle", "error"}
  BY FaultStep DEF Now, SleepOn, RefuseRun, Fault, Keep, AtOp, At
<1>1. CASE UNCHANGED db /\ Leave(w)
  BY <1>0, <1>1, LeaveStep DEF Now, Leave
<1>2. CASE UNCHANGED db /\ Goto(w, "error")
  BY <1>0, <1>2, ErrorStep DEF Now, Goto
<1>3. CASE /\ RunOf(w).state = "running" /\ Leave(w)
           /\ db' = [db EXCEPT ![ctx[w].t] = AfterSchedule(@, ctx[w].n)]
  <2>1. PICK t, n : t = ctx[w].t /\ n = ctx[w].n
    OBVIOUS
  <2>2. t \in Tasks /\ RowFine(db[t]) /\ n \in 1 .. Len(db[t].runs)
        /\ db[t].runs[n].state = "running"
    BY <1>0, <1>3, <2>1, Mine DEF RunOf
  <2>3. PICK new, run : new = AfterSchedule(db[t], n) /\ run = ScheduledRun(db[t].runs[n])
    OBVIOUS
  <2>4. /\ n = Len(db[t].runs) /\ new = SetLast(db[t], n, "sleeping", run, {})
        /\ run \in RunType /\ run.state = "sleeping"
    BY <2>2, <2>3, EndRow
  <2>5. "sleeping" \in Live \cup Ended /\ {} \in SUBSET WaitType
    BY DEF Live
  <2>6. /\ RowFine(new) /\ Len(new.runs) = Len(db[t].runs) /\ new.ckpt = db[t].ckpt
        /\ new.waits = {} /\ \A m \in 1 .. Len(db[t].runs) : m # n => new.runs[m] = db[t].runs[m]
    BY <2>2, <2>4, <2>5, SetLastFine
  <2>7. Ends(db[t], n, new, emitted, faults')
    BY <2>2, <2>6 DEF Ends, Heard, Open
  <2>8. Fine([db EXCEPT ![t] = new], [ctx EXCEPT ![w] = Idle], emitted, faults')
    BY <1>0, <2>1, <2>7, EndStep
  <2> QED BY <1>0, <1>3, <2>1, <2>3, <2>8 DEF Now, Leave
<1> QED BY <1>1, <1>2, <1>3 DEF SleepOn, RefuseRun

LEMMA CompleteFine == ASSUME Now, NEW w \in Workers, Complete(w) PROVE Now'
<1>0. /\ Fine(db, ctx, emitted, faults) /\ UNCHANGED <<emitted, faults>> /\ Leave(w)
      /\ ctx[w].pc \notin {"idle", "error"}
  BY DEF Now, Complete, Keep, At
<1>1. CASE UNCHANGED db
  BY <1>0, <1>1, LeaveStep DEF Now, Leave
<1>3. CASE /\ RunOf(w).state = "running"
           /\ db' = [db EXCEPT ![ctx[w].t] = AfterComplete(@, ctx[w].n)]
  <2>1. PICK t, n : t = ctx[w].t /\ n = ctx[w].n
    OBVIOUS
  <2>2. t \in Tasks /\ RowFine(db[t]) /\ n \in 1 .. Len(db[t].runs)
        /\ db[t].runs[n].state = "running"
    BY <1>0, <1>3, <2>1, Mine DEF RunOf
  <2>3. PICK new, run : new = AfterComplete(db[t], n) /\ run = CompletedRun(db[t].runs[n])
    OBVIOUS
  <2>4. /\ n = Len(db[t].runs) /\ new = SetLast(db[t], n, "completed", run, {})
        /\ run \in RunType /\ run.state = "completed"
    BY <2>2, <2>3, EndRow
  <2>5. "completed" \in Live \cup Ended /\ {} \in SUBSET WaitType
    BY DEF Ended
  <2>6. /\ RowFine(new) /\ Len(new.runs) = Len(db[t].runs) /\ new.ckpt = db[t].ckpt
        /\ new.waits = {} /\ \A m \in 1 .. Len(db[t].runs) : m # n => new.runs[m] = db[t].runs[m]
    BY <2>2, <2>4, <2>5, SetLastFine
  <2>7. Ends(db[t], n, new, emitted, faults)
    BY <2>2, <2>6 DEF Ends, Heard, Open
  <2>8. Fine([db EXCEPT ![t] = new], [ctx EXCEPT ![w] = Idle], emitted, faults)
    BY <1>0, <2>1, <2>7, EndStep
  <2> QED BY <1>0, <1>3, <2>1, <2>3, <2>8 DEF Now, Leave
<1> QED BY <1>1, <1>3 DEF Complete

(* The wait is registered before the payload is there, for an event without a
   checkpoint; a handler whose reply is lost has failed. *)
LEMMA RegisterFine == ASSUME Now, NEW w \in Workers, RegisterWait(w) PROVE Now'
<1>0. /\ Fine(db, ctx, emitted, faults) /\ Fine(db, ctx, emitted, faults')
      /\ UNCHANGED emitted /\ ctx[w].pc = "unresolved"
      /\ db' = [db EXCEPT ![ctx[w].t] = AfterWait(@, ctx[w].n, ctx[w].k)]
  BY FaultStep DEF Now, RegisterWait, Fault, At
<1>1. PICK t, n, k : t = ctx[w].t /\ n = ctx[w].n /\ k = ctx[w].k
  OBVIOUS
<1>2. /\ t \in Tasks /\ RowFine(db[t]) /\ n \in 1 .. Len(db[t].runs) /\ k \in Steps
      /\ Attached(ctx[w], db[t], emitted, faults')
  BY <1>0, <1>1, Mine DEF CtxFine, InOp
<1>3. /\ db[t].runs[n].state = "running" /\ ~emitted
      /\ "stall" \notin faults' => db[t].ckpt[k] = 0
  BY <1>0, <1>1, <1>2 DEF Attached, Agreed, Locks
<1>4. PICK new : new = AfterWait(db[t], n, k)
  OBVIOUS
<1>5. /\ RowFine(new) /\ new.ckpt = db[t].ckpt /\ Len(new.runs) = Len(db[t].runs)
      /\ \A m \in 1 .. Len(db[t].runs) : m # n => new.runs[m] = db[t].runs[m]
      /\ \A x \in new.waits : x.step = k
  BY <1>2, <1>3, <1>4, WaitRow
<1>6. Ends(db[t], n, new, emitted, faults')
  BY <1>3, <1>5 DEF Ends, Open
<1>7. ASSUME NEW c, c = Idle \/ c = Failed(ctx[w])
      PROVE  Fine([db EXCEPT ![t] = new], [ctx EXCEPT ![w] = c], emitted, faults')
  BY <1>0, <1>1, <1>6, <1>7, EndStep
<1>8. CASE Leave(w)
  BY <1>0, <1>1, <1>4, <1>7, <1>8 DEF Now, Leave
<1>9. CASE Goto(w, "error")
  <2>1. ctx' = [ctx EXCEPT ![w] = Failed(ctx[w])]
    BY <1>9 DEF Goto, Failed
  <2> QED BY <1>0, <1>1, <1>4, <1>7, <2>1 DEF Now
<1> QED BY <1>8, <1>9 DEF RegisterWait

LEMMA FailFine == ASSUME Now, NEW w \in Workers, FailRun(w) PROVE Now'
<1>0. /\ Fine(db, ctx, emitted, faults) /\ UNCHANGED <<emitted, faults>> /\ Leave(w)
      /\ ctx[w].pc = "error" /\ RowFree(ctx[w].t)
  BY DEF Now, FailRun, Keep, At
<1>1. CASE UNCHANGED db
  BY <1>0, <1>1, LeaveStep DEF Now, Leave
<1>2. CASE /\ RunOf(w).state \in {"running", "sleeping"}
           /\ db' = [db EXCEPT ![ctx[w].t] = AfterFail(@, ctx[w].n)]
  <2>1. PICK t, n : t = ctx[w].t /\ n = ctx[w].n
    OBVIOUS
  <2>2. t \in Tasks /\ n \in 1 .. Len(db[t].runs)
        /\ db[t].runs[n].state \in {"running", "sleeping"} /\ RowFree(t)
    BY <1>0, <1>2, <2>1, Mine DEF RunOf
  <2>3. Fine([db EXCEPT ![t] = AfterFail(db[t], n)], ctx, emitted, faults)
    BY <1>0, <2>2, Unlocked, FailStep
  <2>4. Fine(db', ctx, emitted, faults)
    BY <1>2, <2>1, <2>3
  <2>5. Fine(db', [ctx EXCEPT ![w] = Idle], emitted, faults)
    BY <2>4, LeaveStep
  <2> QED BY <1>0, <2>5 DEF Now, Leave
<1> QED BY <1>1, <1>2 DEF FailRun

LEMMA TimeOutFine == ASSUME Now, NEW w \in Workers, TimeOut(w) \/ Heartbeat(w) PROVE Now'
<1>0. /\ Fine(db, ctx, emitted, faults) /\ UNCHANGED <<emitted, faults>> /\ ctx[w].pc # "idle"
  BY DEF Now, TimeOut, Heartbeat, Keep, At, Busy
<1>1. PICK t, n : t = ctx[w].t /\ n = ctx[w].n
  OBVIOUS
<1>2. /\ t \in Tasks /\ RowFine(db[t]) /\ n \in 1 .. Len(db[t].runs)
      /\ db[t].runs[n] \in RunType
  BY <1>0, <1>1, Mine, Runs
<1>3. PICK run : /\ run = [db[t].runs[n] EXCEPT !.wake = FALSE]
                   \/ run = [db[t].runs[n] EXCEPT !.lease = "live"]
                 /\ db' = [db EXCEPT ![t].runs[n] = run]
  BY <1>1 DEF TimeOut, Heartbeat
<1>4. run \in RunType /\ run.state = db[t].runs[n].state /\ run.avail = db[t].runs[n].avail
  BY <1>2, <1>3 DEF RunType
<1>5. Fine(db', ctx, emitted, faults)
  BY <1>0, <1>2, <1>3, <1>4, TouchFine
<1>6. CASE UNCHANGED ctx
  BY <1>0, <1>5, <1>6 DEF Now
<1>7. CASE Goto(w, "error")
  <2>1. Fine(db', [ctx EXCEPT ![w].pc = "error"], emitted, faults)
    BY <1>0, <1>5, ErrorStep
  <2> QED BY <1>0, <1>7, <2>1 DEF Now, Goto
<1>8. CASE ctx[w].pc = "unresolved" /\ ctx' = [ctx EXCEPT ![w].pc = "op", ![w].k = @ + 1]
  <2>1. Fine(db', [ctx EXCEPT ![w].pc = "op", ![w].k = @ + 1], emitted, faults)
    BY <1>5, <1>8, SkipStep DEF InOp
  <2> QED BY <1>0, <1>8, <2>1 DEF Now
<1> QED BY <1>6, <1>7, <1>8 DEF TimeOut, Heartbeat, At

(* A checkpoint is written, unless a later attempt owns it. *)
Stored(ck, k, n) == [ck EXCEPT ![k] = n]
Moved(c) == [c EXCEPT !.pc = "op", !.seen = Stored(@, c.k, c.n),
                      !.k = IF Program[c.k] = "sleep" THEN @ ELSE @ + 1]

LEMMA MovedFine ==
    ASSUME NEW b \in CtxType, b.k \in Steps, NEW c, c = Moved(b)
    PROVE  /\ c \in CtxType /\ c.pc = "op" /\ c.k > 0 /\ c.t = b.t /\ c.n = b.n
           /\ \A k \in Steps : c.seen[k] = IF k = b.k THEN b.n ELSE b.seen[k]
<1>1. PICK f, j : /\ f = [b.seen EXCEPT ![b.k] = b.n]
                  /\ j = IF Program[b.k] = "sleep" THEN b.k ELSE b.k + 1
  OBVIOUS
<1>2. f \in Values /\ \A k \in Steps : f[k] = IF k = b.k THEN b.n ELSE b.seen[k]
  BY <1>1 DEF CtxType, Values
<1>3. j \in 0 .. Len(Program) + 1 /\ j > 0
  BY <1>1, QueueAssumption DEF Steps
<1>4. c = [b EXCEPT !.pc = "op", !.seen = f, !.k = j]
  BY <1>1 DEF Moved, Stored, CtxType
<1> QED BY <1>2, <1>3, <1>4 DEF CtxType, Pcs

Stores(row, n, k, new) ==
    /\ RowFine(new) /\ Len(new.runs) = Len(row.runs) /\ new.waits = row.waits
    /\ \A m \in 1 .. Len(row.runs) : /\ new.runs[m].state = row.runs[m].state
                                    /\ new.runs[m].avail = row.runs[m].avail
    /\ \A j \in Steps : j # k => new.ckpt[j] = row.ckpt[j]
    /\ row.ckpt[k] = 0 => new.ckpt[k] = n

LEMMA StoreRow ==
    ASSUME NEW row, RowFine(row), NEW n \in 1 .. Len(row.runs), NEW k \in Steps,
           NEW run, run = row.runs[n] \/ run = Extended(row.runs[n]),
           NEW ck, \/ ck = Stored(row.ckpt, k, n)
                   \/ ~(n >= row.ckpt[k]) /\ ck = row.ckpt,
           NEW new, new = Touch(row, n, run, ck)
    PROVE  Stores(row, n, k, new)
<1>2. /\ run \in RunType /\ run.state = row.runs[n].state /\ run.avail = row.runs[n].avail
  <2>1. row.runs[n] \in RunType
    BY Runs
  <2> QED BY <2>1 DEF Extended, RunType
<1>3. PICK old : old = row.ckpt
  OBVIOUS
<1>4. /\ old \in Values /\ n \in 1 .. MaxRuns
      /\ \A j \in Steps : old[j] <= Len(row.runs) /\ old[j] \in 0 .. MaxRuns
  BY <1>3, Runs DEF RowFine
<1>5. /\ ck \in Values /\ \A j \in Steps : ck[j] <= Len(row.runs)
      /\ \A j \in Steps : j # k => ck[j] = old[j]
      /\ old[k] = 0 => ck[k] = n
  <2>1. CASE ck = [old EXCEPT ![k] = n]
    BY <1>4, <2>1 DEF Values
  <2>2. CASE ~(n >= old[k]) /\ ck = old
    BY <1>4, <2>2
  <2> QED BY <1>3, <2>1, <2>2 DEF Stored
<1>6. /\ RowFine(new) /\ Len(new.runs) = Len(row.runs) /\ new.ckpt = ck
      /\ new.waits = row.waits /\ new.runs[n] = run
      /\ \A m \in 1 .. Len(row.runs) : /\ new.runs[m].state = row.runs[m].state
                                       /\ m # n => new.runs[m] = row.runs[m]
  BY <1>2, <1>5, TouchRow
<1> QED BY <1>2, <1>3, <1>5, <1>6 DEF Stores

LEMMA WriteStep ==
    ASSUME NEW d, NEW cx, NEW em, NEW fs, Fine(d, cx, em, fs), NEW w \in Workers,
           cx[w].pc \in InOp, NEW t, NEW n, NEW k, t = cx[w].t, n = cx[w].n, k = cx[w].k,
           "stall" \notin fs => /\ cx[w].pc \in {"put", "resolved"}
                                /\ d[t].runs[n].state # "failed",
           NEW new, Stores(d[t], n, k, new), NEW c, c = Moved(cx[w])
    PROVE  Fine([d EXCEPT ![t] = new], [cx EXCEPT ![w] = c], em, fs)
<1>1. /\ t \in Tasks /\ cx[w] \in CtxType /\ cx[w].pc \notin {"idle", "error"} /\ k \in Steps
      /\ n \in 1 .. Len(d[t].runs) /\ n \in 1 .. MaxRuns /\ RowFine(d[t])
      /\ Attached(cx[w], d[t], em, fs) /\ Alone(cx, w, cx[w])
  BY Mine DEF InOp, CtxFine
<1>4. /\ RowFine(new) /\ Len(new.runs) = Len(d[t].runs) /\ new.waits = d[t].waits
      /\ \A m \in 1 .. Len(d[t].runs) : /\ new.runs[m].state = d[t].runs[m].state
                                        /\ new.runs[m].avail = d[t].runs[m].avail
      /\ \A j \in Steps : j # k => new.ckpt[j] = d[t].ckpt[j]
      /\ d[t].ckpt[k] = 0 => new.ckpt[k] = n
  BY DEF Stores
<1>5. /\ c \in CtxType /\ c.pc = "op" /\ c.k > 0 /\ c.t = t /\ c.n = n
      /\ \A j \in Steps : c.seen[j] = IF j = k THEN n ELSE cx[w].seen[j]
  BY <1>1, MovedFine
<1>6. ASSUME "stall" \notin fs
      PROVE  /\ n = Len(d[t].runs) /\ d[t].waits = {} /\ Agreed(cx[w], d[t])
             /\ d[t].runs[n].state \in Live => d[t].ckpt[k] = 0 /\ new.ckpt[k] = n
  <2>1. n = Len(d[t].runs) /\ Agreed(cx[w], d[t])
        /\ d[t].runs[n].state \notin {"pending", "sleeping", "failed"}
    BY <1>1, <1>6, LiveIsLast DEF Attached
  <2>2. d[t].waits = {}
    BY <1>1, <2>1, NoWaits
  <2>3. d[t].runs[n].state \in Live => d[t].ckpt[k] = 0
    BY <1>6, <2>1 DEF Agreed, Live
  <2> QED BY <1>1, <1>4, <2>1, <2>2, <2>3
<1>7. em => Heard(new)
  <2> SUFFICES ASSUME em, NEW x \in d[t].waits PROVE Expired(new, x)
    BY <1>4 DEF Heard
  <2>1. x.timed /\ d[t].runs[x.run].avail = "now" /\ x.run \in 1 .. Len(d[t].runs)
    BY <1>1 DEF Fine, Heard, Expired, RowFine, Waiting
  <2> QED BY <1>4, <2>1 DEF Expired
<1>8. "stall" \notin fs => Open(new)
  BY <1>4, <1>6 DEF Open
<1>9. CtxFine(c, fs)
  BY <1>1, <1>5 DEF CtxFine, InOp
<1>10. Attached(c, new, em, fs)
  <2>1. ASSUME "stall" \notin fs PROVE Agreed(c, new)
    <3>1. ASSUME new.runs[n].state \in Live, NEW j \in Steps, c.seen[j] # 0
          PROVE  c.seen[j] = new.ckpt[j]
      <4>0. d[t].runs[n].state \in Live
        BY <1>1, <1>4, <3>1
      <4>1. CASE j = k
        BY <1>4, <1>5, <1>6, <2>1, <4>0, <4>1
      <4>2. CASE j # k
        <5>1. cx[w].seen[j] # 0 => cx[w].seen[j] = d[t].ckpt[j]
          BY <1>6, <2>1, <4>0 DEF Agreed
        <5> QED BY <1>4, <1>5, <3>1, <4>2, <5>1
      <4> QED BY <4>1, <4>2
    <3> QED BY <1>5, <3>1 DEF Agreed
  <2>2. new.runs[n].state \notin {"pending", "sleeping"} /\ n \in 1 .. Len(new.runs)
    BY <1>1, <1>4 DEF Attached
  <2> QED BY <1>5, <2>1, <2>2 DEF Attached, Locks
<1>11. Alone(cx, w, c)
  BY <1>1, <1>5 DEF Alone
<1>12. ASSUME NEW v \in Workers \ {w}, cx[v].pc # "idle", cx[v].t = t
       PROVE  Follows(cx[v], d[t], new, fs)
  <2>1. cx[v].n \in 1 .. Len(d[t].runs) /\ (cx[v].n = n => cx[v].pc = "error")
    BY <1>1, <1>12 DEF Fine, Attached, Alone
  <2>2. new.runs[cx[v].n].state = d[t].runs[cx[v].n].state
    BY <1>4, <2>1
  <2>3. ASSUME "stall" \notin fs, new.runs[cx[v].n].state \in Live, NEW j \in Steps
        PROVE  \/ new.ckpt[j] = d[t].ckpt[j]
               \/ d[t].ckpt[j] = 0 /\ cx[v].pc = "error"
    <3>1. cx[v].n = Len(d[t].runs)
      BY <1>1, <2>1, <2>2, <2>3, LiveIsLast DEF Live
    <3>2. cx[v].n = n /\ d[t].runs[n].state \in Live
      BY <1>6, <2>2, <2>3, <3>1
    <3> QED BY <1>4, <1>6, <2>1, <2>3, <3>2
  <2> QED BY <1>4, <2>1, <2>2, <2>3 DEF Follows
<1> QED BY <1>1, <1>4, <1>5, <1>7, <1>8, <1>9, <1>10, <1>11, <1>12, ActStep

(* The four statements that write a checkpoint. *)
Written(d, c, run, v) == [d EXCEPT ![c.t].runs[c.n] = run, ![c.t].ckpt[c.k] = v]

LEMMA PutFine ==
    ASSUME Now, NEW w \in Workers, Keep, ctx[w].pc \in InOp, Passed(w),
           "stall" \notin faults => ctx[w].pc \in {"put", "resolved"} /\ RunOf(w).state # "failed",
           NEW run, run = RunOf(w) \/ run = Extended(RunOf(w)),
           NEW v, v = ctx[w].n \/ (~Owns(w) /\ v = db[ctx[w].t].ckpt[ctx[w].k]),
           db' = Written(db, ctx[w], run, v)
    PROVE  Now'
<1>0. Fine(db, ctx, emitted, faults) /\ UNCHANGED <<emitted, faults>>
  BY DEF Now, Keep
<1>1. PICK t, n, k : t = ctx[w].t /\ n = ctx[w].n /\ k = ctx[w].k
  OBVIOUS
<1>2. /\ t \in Tasks /\ RowFine(db[t]) /\ n \in 1 .. Len(db[t].runs) /\ k \in Steps
      /\ ctx[w] \in CtxType /\ db \in [Tasks -> RowType] /\ db[t].ckpt \in Values
  BY <1>0, <1>1, Mine, Runs DEF CtxFine, InOp, Fine
<1>3. PICK ck, new : ck = [db[t].ckpt EXCEPT ![k] = v] /\ new = Touch(db[t], n, run, ck)
  OBVIOUS
<1>4. db' = [db EXCEPT ![t] = new]
  BY <1>1, <1>2, <1>3 DEF Written, Touch, RowType
<1>5. \/ ck = Stored(db[t].ckpt, k, n)
      \/ ~(n >= db[t].ckpt[k]) /\ ck = db[t].ckpt
  BY <1>1, <1>2, <1>3 DEF Stored, Owns, Values
<1>6. run = db[t].runs[n] \/ run = Extended(db[t].runs[n])
  BY <1>1 DEF RunOf
<1>7. Stores(db[t], n, k, new)
  BY <1>2, <1>3, <1>5, <1>6, StoreRow
<1>8. ctx' = [ctx EXCEPT ![w] = Moved(ctx[w])]
  BY <1>2 DEF Passed, Moved, Stored, CtxType, Op
<1>9. Fine([db EXCEPT ![t] = new], [ctx EXCEPT ![w] = Moved(ctx[w])], emitted, faults)
  BY <1>0, <1>1, <1>7, WriteStep DEF RunOf
<1> QED BY <1>0, <1>4, <1>8, <1>9 DEF Now

LEMMA CheckpointFine ==
    ASSUME Now, NEW w \in Workers, PutCheckpoint(w) \/ ComparePut(w) PROVE Now'
<1>0. Fine(db, ctx, emitted, faults) /\ UNCHANGED <<emitted, faults>> /\ Keep
      /\ ctx[w].pc \in {"put", "checked"} /\ (ctx[w].pc = "checked" => "stall" \in faults)
  <2>1. Fine(db, ctx, emitted, faults) /\ Keep /\ ctx[w].pc \in {"put", "checked"}
    BY DEF Now, PutCheckpoint, ComparePut, At
  <2> QED BY <2>1, Mine DEF CtxFine, Keep
<1>1. ctx[w].pc \in InOp /\ ctx[w].pc # "idle"
  BY <1>0 DEF InOp
<1>2. CASE UNCHANGED db /\ Goto(w, "error")
  BY <1>0, <1>1, <1>2, ErrorStep DEF Now, Goto
<1>3. CASE UNCHANGED db /\ ctx[w].pc = "checked" /\ Goto(w, "compared")
  <2>1. ctx[w].k \in Steps
    BY <1>0, <1>1, Mine DEF CtxFine
  <2>2. Fine(db, [ctx EXCEPT ![w].pc = "compared"], emitted, faults)
    BY <1>0, <1>3, <2>1, GotoStep DEF InOp, Locks
  <2> QED BY <1>0, <1>3, <2>2 DEF Now, Goto
<1>4. CASE UNCHANGED db /\ ctx[w].pc = "checked" /\ Passed(w)
  <2>1. ctx[w] \in CtxType /\ ctx[w].k \in Steps
    BY <1>0, <1>1, Mine DEF CtxFine
  <2>2. ctx' = [ctx EXCEPT ![w] = Moved(ctx[w])]
    BY <1>4, <2>1 DEF Passed, Moved, Stored, CtxType, Op
  <2>3. PICK c : c = Moved(ctx[w])
    OBVIOUS
  <2>4. c \in CtxType /\ c.pc = "op" /\ c.k > 0 /\ c.t = ctx[w].t /\ c.n = ctx[w].n
    BY <2>1, <2>3, MovedFine
  <2>5. Fine(db, [ctx EXCEPT ![w] = c], emitted, faults)
    BY <1>0, <1>4, <2>4, OpStep
  <2> QED BY <1>0, <1>4, <2>2, <2>3, <2>5 DEF Now
<1>5. CASE /\ Passed(w) /\ (ctx[w].pc = "put" => ~Refused(w))
           /\ db' = [db EXCEPT
                       ![ctx[w].t].runs[ctx[w].n] = Extended(@),
                       ![ctx[w].t].ckpt[ctx[w].k] = IF Owns(w) THEN ctx[w].n ELSE @]
  <2>1. PICK run, v : /\ run = Extended(RunOf(w))
                      /\ v = IF Owns(w) THEN ctx[w].n ELSE db[ctx[w].t].ckpt[ctx[w].k]
    OBVIOUS
  <2>2. ctx[w].t \in Tasks /\ db \in [Tasks -> RowType]
    BY <1>0, <1>1, Mine DEF Fine
  <2>3. db' = Written(db, ctx[w], run, v)
    BY <1>5, <2>1, <2>2 DEF RunOf, RowType, Written
  <2>4. v = ctx[w].n \/ (~Owns(w) /\ v = db[ctx[w].t].ckpt[ctx[w].k])
    BY <2>1 DEF Owns
  <2>5. "stall" \notin faults => ctx[w].pc \in {"put", "resolved"} /\ RunOf(w).state # "failed"
    BY <1>0, <1>5 DEF Refused
  <2> QED BY <1>0, <1>1, <1>5, <2>1, <2>3, <2>4, <2>5, PutFine
<1>6. CASE PutCheckpoint(w)
  BY <1>2, <1>5, <1>6 DEF PutCheckpoint
<1>7. CASE ComparePut(w)
  BY <1>3, <1>4, <1>5, <1>7 DEF ComparePut, At
<1> QED BY <1>6, <1>7

LEMMA WrittenFine ==
    ASSUME Now, NEW w \in Workers, LatePut(w) \/ ResolveEvent(w) PROVE Now'
<1>0. Fine(db, ctx, emitted, faults) /\ Keep /\ ctx[w].pc \in {"compared", "resolved"}
      /\ Passed(w) /\ db' = [db EXCEPT ![ctx[w].t].ckpt[ctx[w].k] = ctx[w].n]
  BY DEF Now, LatePut, ResolveEvent, At
<1>1. ctx[w].pc \in InOp /\ ctx[w].pc # "idle"
  BY <1>0 DEF InOp
<1>2. "stall" \notin faults => ctx[w].pc \in {"put", "resolved"} /\ RunOf(w).state # "failed"
  BY <1>0, <1>1, Mine DEF CtxFine, Attached, Locks, RunOf
<1>3. /\ ctx[w].t \in Tasks /\ db \in [Tasks -> RowType] /\ RowFine(db[ctx[w].t])
      /\ ctx[w].n \in 1 .. Len(db[ctx[w].t].runs)
  BY <1>0, <1>1, Mine DEF Fine
<1>4. PICK run : run = RunOf(w)
  OBVIOUS
<1>5. db' = Written(db, ctx[w], run, ctx[w].n)
  <2>1. [db[ctx[w].t].runs EXCEPT ![ctx[w].n] = run] = db[ctx[w].t].runs
    BY <1>3, <1>4, Runs DEF RunOf
  <2>2. PICK row, ck : row = db[ctx[w].t] /\ ck = [row.ckpt EXCEPT ![ctx[w].k] = ctx[w].n]
    OBVIOUS
  <2>3. [row EXCEPT !.runs = [row.runs EXCEPT ![ctx[w].n] = run], !.ckpt = ck]
          = [row EXCEPT !.ckpt = ck]
    BY <1>3, <2>1, <2>2 DEF RowType
  <2>4. Written(db, ctx[w], run, ctx[w].n)
          = [db EXCEPT ![ctx[w].t] = [row EXCEPT !.runs = [row.runs EXCEPT ![ctx[w].n] = run],
                                                 !.ckpt = ck]]
    BY <1>3, <2>2 DEF RowType, Written
  <2>5. db' = [db EXCEPT ![ctx[w].t] = [row EXCEPT !.ckpt = ck]]
    BY <1>0, <1>3, <2>2 DEF RowType
  <2> QED BY <2>3, <2>4, <2>5
<1> QED BY <1>0, <1>1, <1>2, <1>4, <1>5, PutFine

-----------------------------------------------------------------------------
(* Every step.                                                             *)

Others == emitted \in BOOLEAN /\ due \in [Tasks -> BOOLEAN] /\ faults \subseteq Faults

LEMMA StartFine == ASSUME WInit PROVE Now /\ Others
<1>1. NoRow \in RowType /\ NoRow.state = None /\ NoRow.runs = <<>> /\ NoRow.waits = {}
      /\ NoRow.ckpt = NoValues
  <2>1. NoValues \in Values /\ <<>> \in Seq(RunType) /\ MaxAttempts \in MaxAttempts .. MaxRuns
    BY QueueAssumption DEF NoValues, Values
  <2> QED BY <2>1 DEF NoRow, RowType
<1>2. RowFine(NoRow)
  <2>1. Len(NoRow.runs) = 0 /\ NoRow.max \in Nat
    BY <1>1, QueueAssumption DEF RowType
  <2>2. \A k \in Steps : NoRow.ckpt[k] = 0
    BY <1>1 DEF NoValues
  <2>3. LastIsLive(NoRow)
    BY <2>1 DEF LastIsLive
  <2> QED BY <1>1, <2>1, <2>2, <2>3 DEF RowFine, None
<1>3. db = [t \in Tasks |-> NoRow] /\ ctx = [w \in Workers |-> Idle] /\ emitted = FALSE
      /\ faults = {} /\ due = [t \in Tasks |-> FALSE]
  BY DEF WInit, Init
<1>4. Idle \in CtxType
  BY IdleFine DEF CtxFine
<1>5. Open(NoRow)
  BY <1>1 DEF Open
<1>6. Now
  BY <1>1, <1>2, <1>3, <1>4, <1>5, IdleFine DEF Now, Fine
<1> QED BY <1>3, <1>6 DEF Others

LEMMA StepFine == ASSUME Now, [WNext]_vars PROVE Now'
<1>1. CASE UNCHANGED qvars
  BY <1>1 DEF qvars, Now
<1>2. CASE UNCHANGED vars
  BY <1>1, <1>2 DEF vars, qvars
<1>3. CASE Callers
  BY <1>3, EmitFine, SpawnFine, CancelFine, RetryFine DEF Callers
<1>4. ASSUME NEW t \in Tasks, Time(t) \/ TurnEnds(t) PROVE Now'
  <2>1. CASE Time(t)
    BY <2>1, TimeFine DEF Time
  <2>2. CASE TurnEnds(t)
    BY <1>1, <2>2 DEF TurnEnds
  <2> QED BY <1>4, <2>1, <2>2
<1>5. ASSUME NEW w \in Workers, Claim(w) PROVE Now'
  BY <1>5, ClaimFine DEF Claim
<1>6. ASSUME NEW w \in Workers, Work(w) PROVE Now'
  <2>1. CASE OpenSession(w) \/ ExecuteTurn(w) \/ CleanUp(w)
    BY <1>1, <2>1 DEF OpenSession, ExecuteTurn, CleanUp
  <2>2. CASE TurnResult(w)
    BY <2>2, TurnFine
  <2>3. CASE EndRun(w)
    BY <2>3, CompleteFine, FailFine DEF EndRun
  <2>4. CASE Handle(w)
    BY <2>4, LoadFine, ReplayFine, BeginFine, SleepFine, CheckpointFine, WrittenFine,
       AwaitFine, TimeOutFine, RegisterFine DEF Handle
  <2> QED BY <1>6, <2>1, <2>2, <2>3, <2>4 DEF Work
<1>7. ASSUME NEW w \in Workers, DropHandler(w) \/ CrashRun(w) PROVE Now'
  BY <1>7, LeaveFine DEF DropHandler, CrashRun
<1>8. ASSUME NEW w \in Workers, RefuseRun(w) \/ StallPut(w) \/ Heartbeat(w) PROVE Now'
  BY <1>8, SleepFine, StallFine, TimeOutFine
<1>9. ASSUME NEW x \in dropped, DroppedCleanUp(x) PROVE Now'
  BY <1>1, <1>9 DEF DroppedCleanUp
<1> QED BY <1>2, <1>3, <1>4, <1>5, <1>6, <1>7, <1>8, <1>9 DEF WNext

LEMMA StepOthers == ASSUME Others, [WNext]_vars PROVE Others'
<1>0. \A kind : Fault(kind) => faults' \subseteq Faults
  BY DEF Others, Fault
<1>1. CASE UNCHANGED qvars
  BY <1>1 DEF qvars, Others
<1>2. CASE UNCHANGED vars
  BY <1>1, <1>2 DEF vars, qvars
<1>3. CASE Callers
  BY <1>0, <1>3 DEF Callers, EmitEvent, Spawn, CancelTask, RetryTask, Others
<1>4. ASSUME NEW t \in Tasks, Time(t) \/ TurnEnds(t) PROVE Others'
  <2>1. CASE TimePasses(t)
    <3>1. SleepStored(t) \in BOOLEAN
      BY DEF SleepStored
    <3> QED BY <2>1, <3>1 DEF TimePasses, Others
  <2>2. CASE LeaseLapses(t)
    BY <1>0, <2>2 DEF LeaseLapses, Others
  <2>3. CASE TurnEnds(t)
    BY <1>1, <2>3 DEF TurnEnds
  <2> QED BY <1>4, <2>1, <2>2, <2>3 DEF Time
<1>5. ASSUME NEW w \in Workers, Claim(w) PROVE Others'
  BY <1>5 DEF Claim, ClaimTask, ClaimNothing, Others
<1>6. ASSUME NEW w \in Workers, Work(w) PROVE Others'
  <2>1. CASE OpenSession(w) \/ ExecuteTurn(w) \/ CleanUp(w)
    BY <1>1, <2>1 DEF OpenSession, ExecuteTurn, CleanUp
  <2>2. CASE TurnResult(w)
    BY <2>2 DEF TurnResult, Others
  <2>3. CASE EndRun(w)
    BY <2>3 DEF EndRun, Complete, FailRun, Keep, Others
  <2>4. CASE Handle(w)
    <3>1. CASE Begin(w) \/ RegisterWait(w)
      BY <1>0, <3>1 DEF Begin, RegisterWait, Others
    <3>2. CASE Keep
      BY <3>2 DEF Keep, Others
    <3> QED BY <2>4, <3>1, <3>2 DEF Handle, LoadCheckpoints, Replay, SleepOn, PutCheckpoint,
            ComparePut, LatePut, AwaitEvent, ResolveEvent, TimeOut
  <2> QED BY <1>6, <2>1, <2>2, <2>3, <2>4 DEF Work
<1>7. ASSUME NEW w \in Workers, DropHandler(w) \/ CrashRun(w) PROVE Others'
  BY <1>0, <1>7 DEF DropHandler, CrashRun, SeeCancellation, Crash, Keep, Others
<1>8. ASSUME NEW w \in Workers, RefuseRun(w) \/ StallPut(w) \/ Heartbeat(w) PROVE Others'
  BY <1>0, <1>8 DEF RefuseRun, StallPut, Heartbeat, Keep, Others
<1>9. ASSUME NEW x \in dropped, DroppedCleanUp(x) PROVE Others'
  BY <1>1, <1>9 DEF DroppedCleanUp
<1> QED BY <1>2, <1>3, <1>4, <1>5, <1>6, <1>7, <1>8, <1>9 DEF WNext

-----------------------------------------------------------------------------
(* Theorems.                                                               *)

LEMMA RowsHold == ASSUME Now, Others PROVE TypeOK /\ OneLiveRun
<1>1. ASSUME NEW t \in Tasks
      PROVE  /\ RowFine(db[t]) /\ db[t].runs \in Seq(RunType)
             /\ DOMAIN db[t].runs = 1 .. Len(db[t].runs)
  BY Runs DEF Now, Fine
<1>2. OneLiveRun
  BY <1>1 DEF OneLiveRun, RowFine, LastIsLive
<1>3. ASSUME NEW t \in Tasks
      PROVE  /\ db[t].state \in Live \cup Ended \cup {None}
             /\ db[t].max \in MaxAttempts .. MaxRuns
             /\ db[t].runs \in Seq(RunType) /\ Len(db[t].runs) <= db[t].max
             /\ db[t].waits \subseteq WaitType
             /\ db[t].ckpt \in Values
  BY <1>1, Runs DEF RowFine
<1>4. ASSUME NEW w \in Workers
      PROVE  /\ ctx[w].pc \in Pcs /\ ctx[w].seen \in Values
             /\ Busy(w) => /\ ctx[w].t \in Tasks
                           /\ ctx[w].n \in DOMAIN db[ctx[w].t].runs
                           /\ ctx[w].k \in 0 .. (Len(Program) + 1)
  <2>1. ctx[w] \in CtxType
    BY DEF Now, Fine
  <2>2. Busy(w) => ctx[w].t \in Tasks /\ ctx[w].n \in 1 .. Len(db[ctx[w].t].runs)
    BY Mine DEF Now, Busy
  <2> QED BY <1>1, <2>1, <2>2 DEF CtxType
<1>5. TypeOK
  BY <1>3, <1>4 DEF TypeOK, Others
<1> QED BY <1>2, <1>5

LEMMA WakeupHolds == ASSUME Now PROVE NoLostWakeup
BY DEF Now, Fine, Heard, NoLostWakeup, Woken

LEMMA ReplayHolds == ASSUME Now PROVE ReplayAgrees
<1> SUFFICES ASSUME "stall" \notin faults, NEW w \in Workers, Busy(w),
                    RunOf(w).state = "running", NEW k \in Steps, ctx[w].seen[k] # 0
             PROVE  ctx[w].seen[k] = db[ctx[w].t].ckpt[k]
  BY DEF ReplayAgrees
<1>1. Attached(ctx[w], db[ctx[w].t], emitted, faults)
  BY Mine DEF Now, Busy
<1> QED BY <1>1 DEF Attached, Agreed, RunOf, Live

LEMMA Kept == WSpec => [](Now /\ Others)
<1>1. WInit => Now /\ Others
  BY StartFine
<1>2. (Now /\ Others) /\ [WNext]_vars => (Now /\ Others)'
  BY StepFine, StepOthers
<1> QED BY <1>1, <1>2, PTL DEF WSpec

(* The queue's rows, the contexts of its workers and the rest stay in their domains, and a
   busy worker refers to a run that exists, whatever the callers, the workers and the
   faults do. *)
THEOREM QueueTypes == WSpec => []TypeOK
<1>1. Now /\ Others => TypeOK
  BY RowsHold
<1> QED BY <1>1, Kept, PTL

(* A task has at most one live run, its last, and none once it has ended: fail_run, the
   sweep of lapsed leases, cancel_task, retry_task and late statements of superseded
   workers never leave two attempts alive. *)
THEOREM OneRunIsLive == WSpec => []OneLiveRun
<1>1. Now /\ Others => OneLiveRun
  BY RowsHold
<1> QED BY <1>1, Kept, PTL

(* No run sleeps on an event that has its payload: await_event's lock keeps emit_event out
   between reading the payload and registering the wait, whatever else happens to the run. *)
THEOREM WakeupsArrive == WSpec => []NoLostWakeup
<1>1. Now => NoLostWakeup
  BY WakeupHolds
<1> QED BY <1>1, Kept, PTL

(* Unless a checkpoint call has stalled between its statements, what the handler of a
   running run was told is what the checkpoints say: crashed, superseded and replayed
   attempts included. *)
THEOREM ReplaysAgree == WSpec => []ReplayAgrees
<1>1. Now => ReplayAgrees
  BY ReplayHolds
<1> QED BY <1>1, Kept, PTL
=============================================================================
