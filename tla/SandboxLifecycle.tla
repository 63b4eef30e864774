-------------------------- MODULE SandboxLifecycle --------------------------
(***************************************************************************)
(* Which session holds which sandbox, and who may stop or pause it: the    *)
(* dispatch of a turn that reuses, resumes, claims or creates a sandbox,   *)
(* against the background workers that share the session store and the     *)
(* sandbox backend with it: the warm-pool replenisher, the max-lifetime    *)
(* reaper, the orphan cleanup, the idle pause, release, drain and the      *)
(* switch to another harness.                                              *)
(*                                                                         *)
(* Sources: crates/centaur-sandbox-manager/src/{warm_pool,reaper}.rs,      *)
(* crates/centaur-session-runtime/src/{lib,cleanup}.rs and the statements  *)
(* on session_warm_sandboxes and sessions.sandbox_id in                    *)
(* crates/centaur-session-sqlx/src/lib.rs.                                 *)
(*                                                                         *)
(* Every SQL statement and every backend call is a step, except where no   *)
(* other step can come between two of them to a different effect: a row or *)
(* a sandbox that only the caller refers to (BindClaimed, FillInserts).    *)
(* A worker that loops over a list it read keeps one task per element, so  *)
(* that later elements are acted on with the reading of earlier ones.      *)
(***************************************************************************)
EXTENDS Naturals, FiniteSets

CONSTANTS
    Replicas,    \* control-plane processes, each with its workers
    Sessions,
    Sandboxes,   \* sandbox ids, each created at most once
    Target,      \* target size of the warm pool
    Jobs,        \* what runs beside the turns
    Faults,      \* what may go wrong
    MaxFaults,   \* bound on how often it does
    MaxTurns     \* bound on the turns of a session

None == "none"
JobKinds == {"fill", "prune", "stale", "unconfigured", "reap", "orphan",
             "pause", "release", "drain", "switch"}
FaultKinds == {"crash", "error", "sandbox", "flap", "capabilities"}

ASSUME LifecycleAssumption ==
    /\ None \notin Sandboxes \cup Sessions \cup Replicas
    /\ Replicas # {}
    /\ Target \in Nat
    /\ Jobs \subseteq JobKinds
    /\ Faults \subseteq FaultKinds
    /\ MaxFaults \in Nat
    /\ MaxTurns \in Nat

VARIABLES
    backend,    \* status the backend reports; "absent" before creation
    old,        \* the sandbox has existed for the max lifetime
    warm,       \* session_warm_sandboxes.status; None without a row
    claim,      \* claimed_at: "never", or "young"/"old" against the max lifetime
    assigned,   \* sessions.sandbox_id
    turn,       \* an execution is queued or running; "stuck" past the max lifetime
    turnNo,     \* how many executions the session has had
    dispatch,   \* the driver of the session's turn: pc, sandbox in hand, replica
    tasks,      \* what the workers are doing
    need,       \* sandboxes a replica's replenisher has yet to create
    pending,    \* pending_orphans of a replica's cleanup worker
    referenced, \* what its sweep read as referenced, in a sweep under way
    faults      \* faults left in the budget

rows == <<warm, claim, assigned>>
ages == <<old, claim>>
turns == <<turn, turnNo, dispatch>>
workers == <<tasks, need, pending, referenced>>
vars == <<backend, old, warm, claim, assigned, turn, turnNo, dispatch, tasks,
          need, pending, referenced, faults>>

-----------------------------------------------------------------------------
Task(k, r, x, s, pc, n) ==
    [kind |-> k, by |-> r, box |-> x, session |-> s, pc |-> pc, exec |-> n]
End(t) == tasks' = tasks \ {t}
Goto(t, pc) == tasks' = (tasks \ {t}) \cup {[t EXCEPT !.pc = pc]}
At(t, k, pc) == t \in tasks /\ t.kind = k /\ t.pc = pc
Busy(r, ks) == \E t \in tasks : t.by = r /\ t.kind \in ks
Start(ts) == tasks' = tasks \cup ts

(* replenish_once runs its stages one after the other. *)
Replenisher == {"fill", "prune", "stale", "unconfigured"}
MayReplenish(r, k) == k \in Jobs /\ ~Busy(r, Replenisher) /\ need[r] = 0

NotSweeping == [read |-> FALSE, ids |-> {}]

Driver(pc, x, r) == [pc |-> pc, box |-> x, by |-> r]
NoDriver == Driver("none", None, None)
Move(s, pc, x) == dispatch' = [dispatch EXCEPT ![s].pc = pc, ![s].box = x]

(* The driver of s has settled on sandbox x for its turn. *)
Using == {"claimed", "holding", "ready", "running"}
InUse(x) == \E s \in Sessions : dispatch[s].pc \in Using /\ dispatch[s].box = x

Observed(x) == backend[x] \notin {"absent", "gone"}
Assigned(x) == \E s \in Sessions : assigned[s] = x
Ready == {x \in Sandboxes : warm[x] = "ready"}
Fault(k) == k \in Faults /\ faults > 0 /\ faults' = faults - 1

Init ==
    /\ backend = [x \in Sandboxes |-> "absent"]
    /\ old = [x \in Sandboxes |-> FALSE]
    /\ warm = [x \in Sandboxes |-> None]
    /\ claim = [x \in Sandboxes |-> "never"]
    /\ assigned = [s \in Sessions |-> None]
    /\ turn = [s \in Sessions |-> "none"]
    /\ turnNo = [s \in Sessions |-> 0]
    /\ dispatch = [s \in Sessions |-> NoDriver]
    /\ tasks = {}
    /\ need = [r \in Replicas |-> 0]
    /\ pending = [r \in Replicas |-> {}]
    /\ referenced = [r \in Replicas |-> NotSweeping]
    /\ faults = MaxFaults

-----------------------------------------------------------------------------
(* A turn: execute_session_impl and ensure_session_sandbox *)

(* Admission (held back while this replica drains), then the first read of
   the session. *)
Arrive(r, s) ==
    /\ dispatch[s].pc = "none" /\ turn[s] = "none"
    /\ turnNo[s] < MaxTurns
    /\ ~Busy(r, {"drain"})
    /\ dispatch' = [dispatch EXCEPT ![s] = Driver("arrived", assigned[s], r)]
    /\ UNCHANGED <<backend, old, rows, turn, turnNo, workers, faults>>

(* The execution's row is inserted and marked running. *)
Admit(s) ==
    /\ dispatch[s].pc = "arrived"
    /\ turn' = [turn EXCEPT ![s] = "active"]
    /\ turnNo' = [turnNo EXCEPT ![s] = @ + 1]
    /\ Move(s, "admitted", dispatch[s].box)
    /\ UNCHANGED <<backend, old, rows, workers, faults>>

(* Mutant: the driver keeps the sandbox it read before its row was committed. *)
KeepFirstRead(s) ==
    /\ dispatch[s].pc = "admitted"
    /\ Move(s, "ensure", dispatch[s].box)
    /\ UNCHANGED <<backend, old, rows, turn, turnNo, workers, faults>>

(* The session is read again "now that this execution's row is committed". *)
Reread(s) ==
    /\ dispatch[s].pc = "admitted"
    /\ Move(s, "ensure", assigned[s])
    /\ UNCHANGED <<backend, old, rows, turn, turnNo, workers, faults>>

(* existing_sandbox_action: a Running sandbox is reused, a Created or Suspended
   one resumed, any other (or a failed resume) replaced. *)
EnsureExisting(s) ==
    LET x == dispatch[s].box
        status == IF x = None THEN "gone" ELSE backend[x]
    IN
    /\ dispatch[s].pc = "ensure"
    /\ \/ /\ status = "running"
          /\ Move(s, "ready", x)
          /\ UNCHANGED <<backend, faults>>
       \/ /\ status \in {"created", "suspended"}
          /\ \/ /\ backend' = [backend EXCEPT ![x] = "running"]
                /\ Move(s, "ready", x)
                /\ UNCHANGED faults
             \/ /\ Fault("sandbox")
                /\ Move(s, "acquire", None)
                /\ UNCHANGED backend
       \/ /\ status \in {"stopped", "gone"}
          /\ Move(s, "acquire", None)
          /\ UNCHANGED <<backend, faults>>
    /\ UNCHANGED <<old, rows, turn, turnNo, workers>>

(* The session's capabilities changed: its sandbox is stopped, then the
   assignment is cleared. *)
StopMismatched(s) ==
    /\ dispatch[s].pc = "ensure" /\ dispatch[s].box # None
    /\ Fault("capabilities")
    /\ backend' = [backend EXCEPT ![dispatch[s].box] = "gone"]
    /\ Move(s, "detach", None)
    /\ UNCHANGED <<old, rows, turn, turnNo, workers>>

ClearMismatched(s) ==
    /\ dispatch[s].pc = "detach"
    /\ assigned' = [assigned EXCEPT ![s] = None]
    /\ Move(s, "acquire", None)
    /\ UNCHANGED <<backend, old, warm, claim, turn, turnNo, workers, faults>>

(* Mutant: the claim does not look at what others have claimed. *)
ClaimAnyWarm(s) ==
    /\ dispatch[s].pc = "acquire"
    /\ \E x \in Sandboxes :
        /\ warm[x] \in {"ready", "claimed"}
        /\ warm' = [warm EXCEPT ![x] = "claimed"]
        /\ claim' = [claim EXCEPT ![x] = "young"]
        /\ Move(s, "claimed", x)
    /\ UNCHANGED <<backend, old, assigned, turn, turnNo, workers, faults>>

(* claim_ready_warm_sandbox, one statement. *)
ClaimReadyWarm(s) ==
    /\ dispatch[s].pc = "acquire"
    /\ \E x \in Ready :
        /\ warm' = [warm EXCEPT ![x] = "claimed"]
        /\ claim' = [claim EXCEPT ![x] = "young"]
        /\ Move(s, "claimed", x)
    /\ UNCHANGED <<backend, old, assigned, turn, turnNo, workers, faults>>

(* The claimed sandbox must be Running and take the session's principal; else
   its row is marked failed and the claim loop goes on.  An error of any of
   these calls leads to a cold start, with the row marked or not. *)
BindClaimed(s) ==
    LET x == dispatch[s].box IN
    /\ dispatch[s].pc = "claimed"
    /\ \/ /\ backend[x] = "running"
          /\ Move(s, "holding", x)
          /\ UNCHANGED <<warm, faults>>
       \/ /\ backend[x] # "running"
          /\ warm' = [warm EXCEPT ![x] = "failed"]
          /\ Move(s, "acquire", None)
          /\ UNCHANGED faults
       \/ /\ Fault("error")
          /\ warm' \in {warm, [warm EXCEPT ![x] = "failed"]}
          /\ Move(s, "cold", None)
    /\ UNCHANGED <<backend, old, claim, assigned, turn, turnNo, workers>>

(* Cold start: no ready sandbox, a session its pools do not serve, or a failed
   claim.  The sandbox runs before anything refers to it. *)
CreateCold(s) ==
    /\ dispatch[s].pc \in {"acquire", "cold"}
    /\ \E x \in Sandboxes :
        /\ backend[x] = "absent"
        /\ backend' = [backend EXCEPT ![x] = "running"]
        /\ Move(s, "holding", x)
    /\ UNCHANGED <<old, rows, turn, turnNo, workers, faults>>

(* update_sandbox_assignment *)
AssignSandbox(s) ==
    /\ dispatch[s].pc = "holding"
    /\ assigned' = [assigned EXCEPT ![s] = dispatch[s].box]
    /\ Move(s, "ready", dispatch[s].box)
    /\ UNCHANGED <<backend, old, warm, claim, turn, turnNo, workers, faults>>

(* Input is written to a sandbox that accepts I/O, or the turn fails. *)
StartTurn(s) ==
    /\ dispatch[s].pc = "ready"
    /\ IF backend[dispatch[s].box] = "running"
       THEN Move(s, "running", dispatch[s].box) /\ UNCHANGED turn
       ELSE /\ turn' = [turn EXCEPT ![s] = "none"]
            /\ dispatch' = [dispatch EXCEPT ![s] = NoDriver]
    /\ UNCHANGED <<backend, old, rows, turnNo, workers, faults>>

(* The turn becomes terminal: by its harness, its pump, or, after its replica
   died, the orphan scan of another one. *)
EndTurn(s) ==
    /\ dispatch[s].pc \in {"running", "lost"}
    /\ turn' = [turn EXCEPT ![s] = "none"]
    /\ dispatch' = [dispatch EXCEPT ![s] = NoDriver]
    /\ UNCHANGED <<backend, old, rows, turnNo, workers, faults>>

(* A store or backend error, or the running limit, fails the turn wherever its
   driver stands; what it created or claimed stays as it is. *)
DispatchFails(s) ==
    /\ dispatch[s].pc \in {"ensure", "detach", "acquire", "cold", "holding", "ready"}
    /\ Fault("error")
    /\ turn' = [turn EXCEPT ![s] = "none"]
    /\ dispatch' = [dispatch EXCEPT ![s] = NoDriver]
    /\ UNCHANGED <<backend, old, rows, turnNo, workers>>

-----------------------------------------------------------------------------
(* Stopping.  manager.stop deletes the sandbox or reports an error; a sandbox
   that is gone already counts as stopped. *)
Stop(t) ==
    \/ /\ backend' = [backend EXCEPT ![t.box] = "gone"]
       /\ UNCHANGED faults
    \/ /\ Fault("error")
       /\ UNCHANGED backend

(* Mutant: eviction reads the row where it should update it. *)
EvictByReading(t) ==
    /\ t \in tasks /\ t.pc = "evict"
    /\ IF warm[t.box] = "claimed" THEN End(t) ELSE Goto(t, "evicted")
    /\ UNCHANGED <<backend, old, rows, turns, need, pending, referenced, faults>>

(* evict_unclaimed_warm_sandbox: one update that takes a ready row out of the
   pool; a claimed row means hands off. *)
EvictUnclaimed(t) ==
    /\ t \in tasks /\ t.pc = "evict"
    /\ IF warm[t.box] = "claimed" THEN End(t) ELSE Goto(t, "evicted")
    /\ warm' = [warm EXCEPT ![t.box] = IF @ = "ready" THEN "evicting" ELSE @]
    /\ UNCHANGED <<backend, old, claim, assigned, turns, need, pending,
                   referenced, faults>>

StopEvicted(t) ==
    /\ t \in tasks /\ t.pc \in {"evicted", "expired"}
    /\ Stop(t)
    /\ End(t)
    /\ UNCHANGED <<old, rows, turns, need, pending, referenced>>

(* mark_warm_sandbox_failed, whatever the row says by now. *)
MarkFailed(t) ==
    /\ t \in tasks /\ t.pc = "mark"
    /\ warm' = [warm EXCEPT ![t.box] = IF @ = None THEN None ELSE "failed"]
    /\ End(t)
    /\ UNCHANGED <<backend, old, claim, assigned, turns, need, pending,
                   referenced, faults>>

-----------------------------------------------------------------------------
(* The replenisher *)

(* prune_stale_ready_sandboxes *)
PruneLists(r) ==
    /\ MayReplenish(r, "prune")
    /\ Ready # {}
    /\ Start({Task("prune", r, x, None, "check", 0) : x \in Ready})
    /\ UNCHANGED <<backend, old, rows, turns, need, pending, referenced, faults>>

PruneChecks(t) ==
    /\ At(t, "prune", "check")
    /\ IF backend[t.box] = "running" THEN End(t) ELSE Goto(t, "mark")
    /\ UNCHANGED <<backend, old, rows, turns, need, pending, referenced, faults>>

(* prune_stale_evicting_sandboxes *)
StaleLists(r) ==
    /\ MayReplenish(r, "stale")
    /\ \E x \in Sandboxes : warm[x] = "evicting"
    /\ Start({Task("stale", r, x, None, "check", 0)
                : x \in {y \in Sandboxes : warm[y] = "evicting"}})
    /\ UNCHANGED <<backend, old, rows, turns, need, pending, referenced, faults>>

StaleStops(t) ==
    /\ At(t, "stale", "check")
    /\ IF backend[t.box] = "running"
       THEN /\ Stop(t)
            /\ IF backend'[t.box] = "gone" THEN Goto(t, "mark") ELSE End(t)
       ELSE Goto(t, "mark") /\ UNCHANGED <<backend, faults>>
    /\ UNCHANGED <<old, rows, turns, need, pending, referenced>>

(* evict_unconfigured_sandboxes: ready rows of pools this replica does not
   have; a replica of the previous rollout may still claim them. *)
UnconfiguredLists(r) ==
    /\ MayReplenish(r, "unconfigured")
    /\ \E xs \in SUBSET Ready :
        /\ xs # {}
        /\ Start({Task("unconfigured", r, x, None, "evict", 0) : x \in xs})
    /\ UNCHANGED <<backend, old, rows, turns, need, pending, referenced, faults>>

(* The count, then one create and one insert after the other. *)
FillCounts(r) ==
    /\ MayReplenish(r, "fill")
    /\ Cardinality(Ready) < Target
    /\ need' = [need EXCEPT ![r] = Target - Cardinality(Ready)]
    /\ UNCHANGED <<backend, old, rows, turns, tasks, pending, referenced, faults>>

FillCreates(r) ==
    /\ need[r] > 0 /\ ~Busy(r, Replenisher)
    /\ \E x \in Sandboxes :
        /\ backend[x] = "absent"
        /\ backend' = [backend EXCEPT ![x] = "running"]
        /\ Start({Task("fill", r, x, None, "insert", 0)})
    /\ need' = [need EXCEPT ![r] = @ - 1]
    /\ UNCHANGED <<old, rows, turns, pending, referenced, faults>>

(* insert_ready_warm_sandbox; when it fails the sandbox is stopped, whatever
   that call returns, and the pool is left for the next round. *)
FillInserts(t) ==
    /\ At(t, "fill", "insert")
    /\ \/ /\ warm' = [warm EXCEPT ![t.box] = "ready"]
          /\ UNCHANGED <<backend, need, faults>>
       \/ /\ Fault("error")
          /\ backend' \in {backend, [backend EXCEPT ![t.box] = "gone"]}
          /\ need' = [need EXCEPT ![t.by] = 0]
          /\ UNCHANGED warm
    /\ End(t)
    /\ UNCHANGED <<old, claim, assigned, turns, pending, referenced>>

-----------------------------------------------------------------------------
(* The max-lifetime reaper *)

ReaperLists(r) ==
    LET expired == {x \in Sandboxes : Observed(x) /\ old[x]} IN
    /\ "reap" \in Jobs /\ ~Busy(r, {"reap"})
    /\ expired # {}
    /\ Start({Task("reap", r, x, None, "judge", 0) : x \in expired})
    /\ UNCHANGED <<backend, old, rows, turns, need, pending, referenced, faults>>

(* sandbox_reap_state and reap_reason: the lifetime starts at the claim, and an
   active execution defers the reap until it is itself too old. *)
Deferred(x) == \E s \in Sessions : assigned[s] = x /\ turn[s] = "active"

(* Mutant: a claimed sandbox is never taken for expired. *)
ReaperSkipsClaimed(t) ==
    /\ At(t, "reap", "judge")
    /\ IF warm[t.box] = "claimed" \/ Deferred(t.box) THEN End(t) ELSE Goto(t, "evict")
    /\ UNCHANGED <<backend, old, rows, turns, need, pending, referenced, faults>>

ReaperJudges(t) ==
    LET x == t.box IN
    /\ At(t, "reap", "judge")
    /\ IF Deferred(x) \/ (warm[x] = "claimed" /\ claim[x] = "young")
       THEN End(t)
       ELSE Goto(t, IF warm[x] = "claimed" THEN "expired" ELSE "evict")
    /\ UNCHANGED <<backend, old, rows, turns, need, pending, referenced, faults>>

-----------------------------------------------------------------------------
(* The cleanup worker's orphan sweep *)

(* The interval between two sweeps outlasts the statements between a sandbox's
   creation or claim and the row that refers to it. *)
IntervalElapsed(r) ==
    /\ \A s \in Sessions : dispatch[s].pc \in {"claimed", "holding"}
                                => dispatch[s].box \notin pending[r]
    /\ \A t \in tasks : t.kind = "fill" => t.box \notin pending[r]

(* list_referenced_sandbox_ids *)
CleanupReads(r) ==
    /\ "orphan" \in Jobs /\ ~Busy(r, {"orphan"})
    /\ ~referenced[r].read
    /\ IntervalElapsed(r)
    /\ referenced' = [referenced EXCEPT ![r] = [read |-> TRUE, ids |->
            {x \in Sandboxes : \/ Assigned(x)
                               \/ warm[x] \in {"ready", "claimed", "evicting"}}]]
    /\ UNCHANGED <<backend, old, rows, turns, tasks, need, pending, faults>>

Orphans(r) ==
    {x \in Sandboxes : /\ backend[x] \in {"running", "suspended", "stopped"}
                       /\ x \notin referenced[r].ids}

(* Mutant: every unreferenced sandbox is stopped at first sight. *)
CleanupListsOnce(r) ==
    /\ referenced[r].read
    /\ Start({Task("orphan", r, x, None, "stop", 0) : x \in Orphans(r)})
    /\ pending' = [pending EXCEPT ![r] = Orphans(r)]
    /\ referenced' = [referenced EXCEPT ![r] = NotSweeping]
    /\ UNCHANGED <<backend, old, rows, turns, need, faults>>

(* list_observed and select_orphan_reap_candidates: stopped are those that were
   orphans in the previous sweep as well. *)
CleanupLists(r) ==
    /\ referenced[r].read
    /\ Start({Task("orphan", r, x, None, "stop", 0) : x \in Orphans(r) \cap pending[r]})
    /\ pending' = [pending EXCEPT ![r] = Orphans(r)]
    /\ referenced' = [referenced EXCEPT ![r] = NotSweeping]
    /\ UNCHANGED <<backend, old, rows, turns, need, faults>>

CleanupStops(t) ==
    /\ At(t, "orphan", "stop")
    /\ Stop(t)
    /\ pending' = [pending EXCEPT ![t.by] =
                       IF backend'[t.box] = "gone" THEN @ \ {t.box} ELSE @]
    /\ End(t)
    /\ UNCHANGED <<old, rows, turns, need, referenced>>

-----------------------------------------------------------------------------
(* Idle pause: the timer of a terminal turn, the idle backstop of the cleanup
   worker and an operator's request all end in record_idle_pause. *)

IdleFound(r, s) ==
    /\ "pause" \in Jobs /\ ~Busy(r, {"pause"})
    /\ turn[s] = "none" /\ turnNo[s] > 0
    /\ assigned[s] # None
    /\ Start({Task("pause", r, assigned[s], s, "check", turnNo[s])})
    /\ UNCHANGED <<backend, old, rows, turns, need, pending, referenced, faults>>

PauseChecks(t) ==
    /\ At(t, "pause", "check")
    /\ IF /\ assigned[t.session] = t.box
          /\ turnNo[t.session] = t.exec /\ turn[t.session] = "none"
          /\ backend[t.box] \in {"running", "created"}
       THEN Goto(t, "pause")
       ELSE End(t)
    /\ UNCHANGED <<backend, old, rows, turns, need, pending, referenced, faults>>

Pause(t) ==
    /\ At(t, "pause", "pause")
    /\ backend' = [backend EXCEPT ![t.box] =
                       IF @ \in {"running", "created"} THEN "suspended" ELSE @]
    /\ End(t)
    /\ UNCHANGED <<old, rows, turns, need, pending, referenced, faults>>

-----------------------------------------------------------------------------
(* Release, harness switch and drain *)

(* Mutant: a session without a sandbox is not left alone. *)
ReleaseNothing(r, s) ==
    /\ "release" \in Jobs
    /\ turn[s] = "none"
    /\ assigned' = [assigned EXCEPT ![s] = None]
    /\ Start({Task("release", r, assigned[s], s, "stop", 0)})
    /\ UNCHANGED <<backend, old, warm, claim, turns, need, pending, referenced, faults>>

(* detach_idle_session_sandbox locks the session row: it sees every committed
   turn, and refuses while there is one. *)
Release(r, s) ==
    LET x == assigned[s] IN
    /\ "release" \in Jobs
    /\ turn[s] = "none" /\ x # None
    /\ assigned' = [assigned EXCEPT ![s] = None]
    /\ warm' = [warm EXCEPT ![x] = IF @ = None THEN None ELSE "failed"]
    /\ Start({Task("release", r, x, s, "stop", 0)})
    /\ UNCHANGED <<backend, old, claim, turns, need, pending, referenced, faults>>

ReleaseStops(t) ==
    /\ At(t, "release", "stop")
    /\ Stop(t)
    /\ End(t)
    /\ UNCHANGED <<old, rows, turns, need, pending, referenced>>

(* restart_session_on_harness: the session's sandbox, if it has one, is stopped,
   then the row is flipped and the sandbox cleared, whichever it is by now. *)
SwitchReads(r, s) ==
    /\ "switch" \in Jobs /\ ~Busy(r, {"switch"})
    /\ Start({Task("switch", r, assigned[s], s,
                   IF assigned[s] = None THEN "clear" ELSE "stop", 0)})
    /\ UNCHANGED <<backend, old, rows, turns, need, pending, referenced, faults>>

SwitchStops(t) ==
    /\ At(t, "switch", "stop")
    /\ Stop(t)
    /\ IF backend'[t.box] = "gone" THEN Goto(t, "clear") ELSE End(t)
    /\ UNCHANGED <<old, rows, turns, need, pending, referenced>>

SwitchClears(t) ==
    /\ At(t, "switch", "clear")
    /\ assigned' = [assigned EXCEPT ![t.session] = None]
    /\ End(t)
    /\ UNCHANGED <<backend, old, warm, claim, turns, need, pending, referenced, faults>>

(* An unforced drain.  It waits for the admissions under way, which end when
   the driver has claimed its stdout, and keeps new ones out. *)
DrainLists(r) ==
    LET live == {x \in Sandboxes : Observed(x) /\ backend[x] # "stopped"} IN
    /\ "drain" \in Jobs /\ ~Busy(r, {"drain"})
    /\ \A s \in Sessions : dispatch[s].by = r
                              => dispatch[s].pc \notin {"arrived", "admitted"}
    /\ live # {}
    /\ Start({Task("drain", r, x, None, "check", 0) : x \in live})
    /\ UNCHANGED <<backend, old, rows, turns, need, pending, referenced, faults>>

(* sandbox_is_idle_for_drain *)
IdleForDrain(x) ==
    \/ \E s \in Sessions : assigned[s] = x /\ turn[s] = "none"
    \/ warm[x] = "ready"

DrainChecks(t) ==
    /\ At(t, "drain", "check")
    /\ IF IdleForDrain(t.box) THEN Goto(t, "stop") ELSE End(t)
    /\ UNCHANGED <<backend, old, rows, turns, need, pending, referenced, faults>>

DrainStops(t) ==
    /\ At(t, "drain", "stop")
    /\ Stop(t)
    /\ IF backend'[t.box] = "gone" THEN Goto(t, "mark") ELSE End(t)
    /\ UNCHANGED <<old, rows, turns, need, pending, referenced>>

-----------------------------------------------------------------------------
(* Time and the environment *)

(* The max lifetime outlasts the few statements in which a sandbox is in hand
   and not yet assigned, or created and not yet in the pool. *)
Settled(x) ==
    /\ \A s \in Sessions : dispatch[s].box = x
                              => dispatch[s].pc \notin {"claimed", "holding"}
    /\ \A t \in tasks : t.kind = "fill" => t.box # x

BoxAges(x) ==
    /\ Observed(x) /\ ~old[x] /\ Settled(x)
    /\ old' = [old EXCEPT ![x] = TRUE]
    /\ UNCHANGED <<backend, rows, turns, workers, faults>>

ClaimAges(x) ==
    /\ claim[x] = "young" /\ old[x] /\ Settled(x)
    /\ claim' = [claim EXCEPT ![x] = "old"]
    /\ UNCHANGED <<backend, old, warm, assigned, turns, workers, faults>>

TurnAges(s) ==
    /\ turn[s] = "active" /\ dispatch[s].pc \in {"running", "lost"}
    /\ turn' = [turn EXCEPT ![s] = "stuck"]
    /\ UNCHANGED <<backend, old, rows, turnNo, dispatch, workers, faults>>

SandboxDies(x) ==
    /\ backend[x] \in {"running", "created"}
    /\ Fault("sandbox")
    /\ backend' = [backend EXCEPT ![x] = "stopped"]
    /\ UNCHANGED <<old, rows, turns, workers>>

(* "the runtime regressed after the replenisher saw it running" *)
SandboxRegresses(x) ==
    /\ backend[x] = "running"
    /\ Fault("flap")
    /\ backend' = [backend EXCEPT ![x] = "created"]
    /\ UNCHANGED <<old, rows, turns, workers>>

SandboxRecovers(x) ==
    /\ backend[x] = "created"
    /\ backend' = [backend EXCEPT ![x] = "running"]
    /\ UNCHANGED <<old, rows, turns, workers, faults>>

(* A replica dies: its workers forget, its drivers stop where they are. *)
Crash(r) ==
    /\ Fault("crash")
    /\ tasks' = {t \in tasks : t.by # r}
    /\ need' = [need EXCEPT ![r] = 0]
    /\ pending' = [pending EXCEPT ![r] = {}]
    /\ referenced' = [referenced EXCEPT ![r] = NotSweeping]
    /\ dispatch' = [s \in Sessions |->
            IF dispatch[s].by # r THEN dispatch[s]
            ELSE IF turn[s] = "none" THEN NoDriver ELSE Driver("lost", None, None)]
    /\ UNCHANGED <<backend, old, rows, turn, turnNo>>

-----------------------------------------------------------------------------
DriverStep(s) ==
    \/ Admit(s) \/ Reread(s) \/ EnsureExisting(s) \/ StopMismatched(s)
    \/ ClearMismatched(s) \/ ClaimReadyWarm(s) \/ BindClaimed(s)
    \/ CreateCold(s) \/ AssignSandbox(s) \/ StartTurn(s) \/ EndTurn(s)
    \/ DispatchFails(s) \/ TurnAges(s)

WorkerStep(t) ==
    \/ EvictUnclaimed(t) \/ StopEvicted(t) \/ MarkFailed(t)
    \/ PruneChecks(t) \/ StaleStops(t) \/ FillInserts(t) \/ ReaperJudges(t)
    \/ CleanupStops(t) \/ PauseChecks(t) \/ Pause(t) \/ ReleaseStops(t)
    \/ SwitchStops(t) \/ SwitchClears(t) \/ DrainChecks(t) \/ DrainStops(t)

ReplicaStep(r) ==
    \/ PruneLists(r) \/ StaleLists(r) \/ UnconfiguredLists(r)
    \/ FillCounts(r) \/ FillCreates(r) \/ ReaperLists(r)
    \/ CleanupReads(r) \/ CleanupLists(r) \/ DrainLists(r) \/ Crash(r)
    \/ \E s \in Sessions :
        Arrive(r, s) \/ IdleFound(r, s) \/ Release(r, s) \/ SwitchReads(r, s)

Next ==
    \/ \E s \in Sessions : DriverStep(s)
    \/ \E t \in tasks : WorkerStep(t)
    \/ \E r \in Replicas : ReplicaStep(r)
    \/ \E x \in Sandboxes :
        \/ BoxAges(x) \/ ClaimAges(x) \/ SandboxDies(x)
        \/ SandboxRegresses(x) \/ SandboxRecovers(x)

Spec == Init /\ [][Next]_vars

(* The reaper sweeps for the lifetime of its replica, every task it starts is
   run, and time passes.  Nothing is assumed of the turns, of the other
   workers or of the faults. *)
FairSpec ==
    /\ Spec
    /\ \A r \in Replicas : WF_vars(ReaperLists(r))
    /\ \A r \in Replicas, x \in Sandboxes :
        WF_vars(\E t \in tasks : t.by = r /\ t.box = x /\ WorkerStep(t))
    /\ \A x \in Sandboxes : WF_vars(BoxAges(x)) /\ WF_vars(ClaimAges(x))

-----------------------------------------------------------------------------
(* Properties *)

Statuses == {"absent", "created", "running", "suspended", "stopped", "gone"}
DriverPcs == {"none", "arrived", "admitted", "ensure", "detach", "acquire",
              "cold", "lost"} \cup Using
TaskPcs == {"check", "mark", "insert", "judge", "evict", "evicted", "expired",
            "stop", "pause", "clear"}

(* Every variable stays in its domain. *)
TypeOK ==
    /\ backend \in [Sandboxes -> Statuses]
    /\ old \in [Sandboxes -> BOOLEAN]
    /\ warm \in [Sandboxes -> {None, "ready", "claimed", "evicting", "failed"}]
    /\ claim \in [Sandboxes -> {"never", "young", "old"}]
    /\ assigned \in [Sessions -> Sandboxes \cup {None}]
    /\ turn \in [Sessions -> {"none", "active", "stuck"}]
    /\ turnNo \in [Sessions -> 0 .. MaxTurns]
    /\ dispatch \in [Sessions -> [pc: DriverPcs, box: Sandboxes \cup {None},
                                  by: Replicas \cup {None}]]
    /\ tasks \subseteq [kind: JobKinds, by: Replicas, box: Sandboxes \cup {None},
                        session: Sessions \cup {None}, pc: TaskPcs,
                        exec: 0 .. MaxTurns]
    /\ \A t \in tasks : t.box = None => At(t, "switch", "clear")
    /\ need \in [Replicas -> 0 .. Target]
    /\ pending \in [Replicas -> SUBSET Sandboxes]
    /\ referenced \in [Replicas -> [read: BOOLEAN, ids: SUBSET Sandboxes]]
    /\ faults \in 0 .. MaxFaults

Holds(s) == {assigned[s]} \cup (IF dispatch[s].pc \in Using THEN {dispatch[s].box} ELSE {})

(* No sandbox is ever shared: what a session is assigned or its driver has in
   hand, no other session has, and the pool does not offer it either. *)
NoSharedSandbox ==
    /\ \A s, u \in Sessions : s # u => Holds(s) \cap Holds(u) \subseteq {None}
    /\ \A s \in Sessions : Holds(s) \cap Ready = {}

(* The reaper does not stop a running sandbox that a session took from the pool less
   than the max lifetime ago ("A warm-pool sandbox's lifetime starts when a
   session claims it, not when the pool created it"), however its listing, its
   reading and its eviction interleave with the claim. *)
YoungClaimIsNotReaped ==
    \A t \in tasks : t.kind = "reap" /\ t.pc \in {"evicted", "expired"}
        => ~(backend[t.box] = "running" /\ claim[t.box] = "young" /\ InUse(t.box))

(* A released sandbox is in nobody's hands: the turn that was admitted while
   the release ran "must not reuse it". *)
ReleasedIsNotReused ==
    \A t \in tasks : t.kind = "release" => ~InUse(t.box)

(* The orphan sweep stops only sandboxes that no session is assigned and no
   driver has in hand, although it acts on two stale readings. *)
OrphanIsUnused ==
    \A t \in tasks : t.kind = "orphan" => ~InUse(t.box) /\ ~Assigned(t.box)

(* A sandbox that nobody holds and the pool does not offer is stopped in the
   end, whatever its warm row still says of it. *)
UnusedSandboxIsReleased ==
    \A x \in Sandboxes :
        (/\ Observed(x) /\ ~Assigned(x) /\ ~InUse(x) /\ x \notin Ready)
            ~> (~Observed(x) \/ Assigned(x) \/ InUse(x) \/ x \in Ready)

-----------------------------------------------------------------------------
(* Statements of comments and documents that the model refutes; the README
   gives the instance and the counterexample of each. *)

(* An unforced drain stops no sandbox a turn is provisioning or using
   ("Active, provisioning, and otherwise unknown sandboxes are left running"). *)
DrainSparesTurn == \A t \in tasks : At(t, "drain", "stop") => ~InUse(t.box)

(* An execution defers the reap of its sandbox ("a sandbox whose session has a
   queued or running execution is left for a later sweep"). *)
ActiveTurnDefersReap ==
    \A t \in tasks : t.kind = "reap" /\ t.pc \in {"evicted", "expired"}
        => ~Deferred(t.box)

(* An idle pause leaves "a newer or unfinished execution" alone. *)
PauseSparesTurn ==
    \A t \in tasks : At(t, "pause", "pause")
        => turn[t.session] = "none" \/ assigned[t.session] # t.box

(* A turn under way is in the sandbox its session is assigned: a switch to
   another harness leaves none behind ("stop its sandbox (killing any in-flight
   execution)"). *)
RunningTurnIsAssigned ==
    \A s \in Sessions :
        dispatch[s].pc = "running" /\ backend[dispatch[s].box] = "running"
            => assigned[s] = dispatch[s].box

(* "Ready warm sandboxes are bounded by the warm-pool target". *)
ReadyWithinTarget == Cardinality(Ready) <= Target
=============================================================================
