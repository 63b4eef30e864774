---------------------------- MODULE WorkflowRuns ----------------------------
(***************************************************************************)
(* Workflow runs (crates/centaur-workflows) on the durable queue: the      *)
(* handler run_centaur_workflow with one agent turn, the session it owns   *)
(* and the cleanup of that session's sandbox.  The session is keyed by the *)
(* task, its metadata name the run that created it, and the cleanup of a   *)
(* run stops the sandboxes of the sessions that name it.                   *)
(***************************************************************************)
EXTENDS AbsurdQueue

VARIABLES
  owner,    \* workflow_run_id in the metadata of the task's session, 0: no session
  box,      \* the session has a running sandbox
  turn,     \* the execution under the idempotency key of the task's turn
  cleaned,  \* slots whose handler has ended and cleaned up
  dropped   \* cleanups spawned by dropped guards: <<task, run>>

wvars == <<owner, box, turn, cleaned, dropped>>
vars == <<db, emitted, due, ctx, faults, owner, box, turn, cleaned, dropped>>

WInit ==
  /\ Init
  /\ owner = [t \in Tasks |-> 0]
  /\ box = [t \in Tasks |-> FALSE]
  /\ turn = [t \in Tasks |-> None]
  /\ cleaned = {}
  /\ dropped = {}

\* create_or_get_session: an existing session keeps its metadata.
OpenSession(w) ==
  /\ At(w, "turn")
  /\ owner[ctx[w].t] = 0
  /\ owner' = [owner EXCEPT ![ctx[w].t] = ctx[w].n]
  /\ UNCHANGED <<qvars, box, turn, cleaned, dropped>>

\* execute_session under the task's key: the first call starts the turn in a
\* sandbox of the session, later ones find it, whatever became of it.
ExecuteTurn(w) ==
  /\ At(w, "turn")
  /\ owner[ctx[w].t] # 0
  /\ turn[ctx[w].t] = None
  /\ turn' = [turn EXCEPT ![ctx[w].t] = "running"]
  /\ box' = [box EXCEPT ![ctx[w].t] = TRUE]
  /\ UNCHANGED <<qvars, owner, cleaned, dropped>>

\* The turn ends; with its sandbox gone it fails.
TurnEnds(t) ==
  /\ turn[t] = "running"
  /\ turn' = [turn EXCEPT ![t] = IF box[t] THEN "completed" ELSE "failed"]
  /\ UNCHANGED <<qvars, owner, box, cleaned, dropped>>

\* The event stream brings the end of the turn.  A failed turn is an error of
\* the handler, which it may catch.
TurnResult(w) ==
  /\ At(w, "turn")
  /\ turn[ctx[w].t] \in {"completed", "failed"}
  /\ \/ ctx' = [ctx EXCEPT ![w].pc = "op", ![w].k = @ + 1]
     \/ turn[ctx[w].t] = "failed" /\ Goto(w, "error")
  /\ UNCHANGED <<db, emitted, due, faults, wvars>>

\* stop_workflow_owned_sandboxes.
StopOwned(t, n) == box' = [box EXCEPT ![t] = @ /\ owner[t] # n]

\* The handler has ended without suspending: the guard cleans up before
\* run_centaur_workflow returns.
HandlerEnded(w) == At(w, "error") \/ (At(w, "op") /\ ctx[w].k > Len(Program))

CleanUp(w) ==
  /\ HandlerEnded(w)
  /\ w \notin cleaned
  /\ cleaned' = cleaned \cup {w}
  /\ StopOwned(ctx[w].t, ctx[w].n)
  /\ UNCHANGED <<qvars, owner, turn, dropped>>

\* complete_run or fail_run follow the cleanup.
EndRun(w) ==
  /\ w \in cleaned
  /\ Complete(w) \/ FailRun(w)
  /\ cleaned' = cleaned \ {w}
  /\ UNCHANGED <<owner, box, turn, dropped>>

\* A handler that the cancellation poll drops, at any point, leaves its
\* cleanup to a task of its own.
DropHandler(w) ==
  /\ SeeCancellation(w)
  /\ dropped' = dropped \cup (IF w \in cleaned THEN {} ELSE {<<ctx[w].t, ctx[w].n>>})
  /\ cleaned' = cleaned \ {w}
  /\ UNCHANGED <<owner, box, turn>>
DroppedCleanUp(x) ==
  /\ x \in dropped
  /\ dropped' = dropped \ {x}
  /\ StopOwned(x[1], x[2])
  /\ UNCHANGED <<qvars, owner, turn, cleaned>>

\* A crash takes the handler and its guard with it.
CrashRun(w) ==
  /\ Crash(w)
  /\ cleaned' = cleaned \ {w}
  /\ UNCHANGED <<owner, box, turn, dropped>>

\* The steps of a handler between its start and its end.
Handle(w) ==
  \/ LoadCheckpoints(w) \/ Replay(w) \/ Begin(w) \/ SleepOn(w)
  \/ PutCheckpoint(w) \/ ComparePut(w) \/ LatePut(w)
  \/ AwaitEvent(w) \/ ResolveEvent(w) \/ TimeOut(w) \/ RegisterWait(w)

Work(w) ==
  \/ Handle(w) /\ UNCHANGED wvars
  \/ OpenSession(w) \/ ExecuteTurn(w) \/ TurnResult(w)
  \/ CleanUp(w) \/ EndRun(w)

Claim(w) == (ClaimTask(w) \/ ClaimNothing(w)) /\ UNCHANGED wvars

Callers == EmitEvent \/ \E t \in Tasks : Spawn(t) \/ CancelTask(t) \/ RetryTask(t)
Time(t) == (TimePasses(t) \/ LeaseLapses(t)) /\ UNCHANGED wvars

WNext ==
  \/ Callers /\ UNCHANGED wvars
  \/ \E t \in Tasks : Time(t) \/ TurnEnds(t)
  \/ \E w \in Workers :
       \/ Claim(w) \/ Work(w) \/ DropHandler(w) \/ CrashRun(w)
       \/ (RefuseRun(w) \/ StallPut(w) \/ Heartbeat(w)) /\ UNCHANGED wvars
  \/ \E x \in dropped : DroppedCleanUp(x)

WSpec == WInit /\ [][WNext]_vars

\* As for the queue; agent turns end (SessionExecution shows that they do),
\* and a spawned cleanup runs.
WFairness ==
  /\ \A w \in Workers : WF_vars(Claim(w)) /\ WF_vars(Work(w))
  /\ \A t \in Tasks :
       /\ WF_vars(TimePasses(t) /\ UNCHANGED wvars)
       /\ WF_vars(LeaseLapses(t) /\ UNCHANGED wvars)
       /\ WF_vars(TurnEnds(t))
  /\ WF_vars(\E x \in dropped : DroppedCleanUp(x))
WFairSpec == WSpec /\ WFairness

-----------------------------------------------------------------------------
(* Properties.                                                             *)

\* The queue's variables and the workflow's stay in their domains.
WTypeOK ==
  /\ TypeOK
  /\ owner \in [Tasks -> 0..MaxRuns]
  /\ box \in [Tasks -> BOOLEAN]
  /\ turn \in [Tasks -> {None, "running", "completed", "failed"}]
  /\ cleaned \subseteq {w \in Workers : HandlerEnded(w)}
  /\ dropped \subseteq Tasks \X (1..MaxRuns)

\* A completed workflow leaves no sandbox of its own behind.
CompletedLeavesNoSandbox ==
  \A t \in Tasks : db[t].state = "completed" => ~box[t]

\* A cleanup spares the sandbox of a turn that a live run waits for.
CleanupSparesTurn ==
  [][\A t \in Tasks, w \in Workers :
       At(w, "turn") /\ ctx[w].t = t /\ RunOf(w).state = "running" /\ turn[t] = "running"
         => (box[t] => box'[t])]_vars
=============================================================================
