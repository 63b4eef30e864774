----------------------------- MODULE CodexTurns -----------------------------
(***************************************************************************)
(* A turn of the blocks server on the codex app-server.  Steering lines    *)
(* and interrupts that reach the turn's channel are passed on as requests  *)
(* of their own, notifications of other turns are filtered out, and a turn *)
(* that fails to register before it has streamed anything is submitted     *)
(* again under a new turn id.                                              *)
(*                                                                         *)
(* Source: crates/harness-server/src/codex.rs.  The app-server is          *)
(* external: it is modelled from the messages the code exchanges with it.  *)
(***************************************************************************)
EXTENDS BlocksInput

Codex == kind = "codex"
Fixed == UNCHANGED <<kind, runtimeVars, stdin, reader, turnActive, commands, pumpVars>>
Reply(what, t) == [what |-> what, turn |-> t]

-----------------------------------------------------------------------------
(* The app-server.                                                         *)

AppServer == Fixed /\ UNCHANGED <<requests, main, view, turns, out, erred, joined>>
Serving == Codex /\ child.state = "up" /\ child.phase = "busy"

AppTakes ==
  /\ Codex /\ child.state = "up" /\ child.phase = "idle"
  /\ child.todo # <<>>
  /\ child' = [child EXCEPT !.phase = "busy", !.turn = Head(child.todo),
                            !.todo = Tail(@), !.said = FALSE]
  /\ pipe' = Append(pipe, Reply("started", Head(child.todo)))
  /\ UNCHANGED faults /\ AppServer

AppStreams ==
  /\ Serving /\ ~child.said
  /\ child' = [child EXCEPT !.said = TRUE]
  /\ pipe' = Append(pipe, Reply("item", child.turn))
  /\ UNCHANGED faults /\ AppServer

\* The turn completes, fails (an error, then its completion), or cannot be
\* registered with the engine, once or again.
Resubmitted(t) == t > 1 /\ turns[t] = turns[t - 1]
AppEnds ==
  /\ Serving
  /\ child' = [child EXCEPT !.phase = "idle"]
  /\ \/ pipe' = Append(pipe, Reply("completed", child.turn)) /\ UNCHANGED faults
     \/ /\ Fault("fail")
        /\ pipe' = pipe \o <<Reply("error", child.turn), Reply("completed", child.turn)>>
     \/ /\ Fault("engine") \/ (Resubmitted(child.turn) /\ UNCHANGED faults)
        /\ pipe' = Append(pipe, Reply("engine", child.turn))
  /\ AppServer

AppExits ==
  /\ Codex /\ child.state = "up"
  /\ Fault("exit")
  /\ child' = [child EXCEPT !.state = "dirty"]
  /\ UNCHANGED pipe /\ AppServer

-----------------------------------------------------------------------------
(* run_codex_user_turn and read_until_turn_terminal.                       *)

\* A child is spawned if there is none, and turn/start is sent.
StartCodex ==
  /\ Codex /\ main.pc = "start"
  /\ \/ LET c == IF child.state = "up" THEN child ELSE NewChild
        IN /\ child' = [c EXCEPT !.todo = Append(@, main.turn)]
           /\ main' = [main EXCEPT !.pc = "loop"]
           /\ UNCHANGED faults
     \/ /\ Fault("spawn")
        /\ child.state # "up"
        /\ child' = NoChild
        /\ main' = [main EXCEPT !.pc = "clear", !.failed = TRUE]
  /\ pipe' = IF child.state = "up" THEN pipe ELSE <<>>
  /\ Fixed /\ UNCHANGED <<requests, view, turns, out, erred, joined>>

InTurn == Codex /\ main.pc = "loop"
Running == child.state = "up" /\ child.phase = "busy" /\ child.turn = main.turn

\* forward_pending_active_turn_requests: a second interrupt is ignored; the
\* app-server refuses a request for a turn that is not running, and may refuse
\* to be steered.
ForwardInterrupt ==
  /\ InTurn
  /\ requests # <<>> /\ Head(requests).what = "interrupt"
  /\ requests' = Tail(requests)
  /\ view' = [view EXCEPT !.asked = TRUE]
  /\ IF view.asked THEN UNCHANGED <<child, pipe>>
     ELSE IF Running
       THEN /\ child' = [child EXCEPT !.phase = "idle"]
            /\ pipe' = Append(pipe, Reply("completed", main.turn))
       ELSE pipe' = Append(pipe, Reply("refused", main.turn)) /\ UNCHANGED child
  /\ Fixed /\ UNCHANGED <<main, turns, out, erred, joined, faults>>

ForwardSteer ==
  /\ InTurn
  /\ requests # <<>> /\ Head(requests).what = "steer"
  /\ requests' = Tail(requests)
  /\ \/ /\ Running
        /\ joined' = joined \cup {Head(requests).id}
        /\ UNCHANGED <<pipe, faults>>
     \/ /\ IF Running THEN Fault("refuse") ELSE UNCHANGED faults
        /\ pipe' = Append(pipe, Reply("refused", main.turn))
        /\ UNCHANGED joined
  /\ Fixed /\ UNCHANGED <<main, view, turns, child, out, erred>>

\* notification_matches_scope.  Mutant: every notification is taken.
AnyScope(l) == TRUE
InScope(l) == l.turn = main.turn

EndCodexTurn(what) ==
  /\ out' = Append(out, Notice(what, main.turn))
  /\ erred' = IF what = "error" THEN erred \cup {main.turn} ELSE erred
  /\ main' = [main EXCEPT !.pc = "clear"]
  /\ UNCHANGED <<view, turns>>

\* Mutant: the retries are not counted.
RetryForever ==
  /\ turns' = Append(turns, turns[main.turn])
  /\ main' = [main EXCEPT !.pc = "start", !.turn = Len(turns) + 1]
  /\ view' = FreshView
  /\ UNCHANGED <<out, erred>>

\* TurnGuard: an engine error before any output is retried under a new turn.
Retry ==
  /\ turns' = Append(turns, turns[main.turn])
  /\ main' = [main EXCEPT !.pc = "start", !.turn = Len(turns) + 1]
  /\ view' = [FreshView EXCEPT !.retries = view.retries + 1]
  /\ UNCHANGED <<out, erred>>

\* A refusal of this turn's own request fails the turn; the app-server and
\* what it is doing are kept.
ReadCodex ==
  /\ InTurn
  /\ pipe # <<>>
  /\ pipe' = Tail(pipe)
  /\ LET l == Head(pipe)
     IN IF ~InScope(l) THEN UNCHANGED <<main, view, turns, out, erred>>
        ELSE
          CASE l.what = "started" -> /\ out' = Append(out, Notice("started", l.turn))
                                     /\ UNCHANGED <<main, view, turns, erred>>
            [] l.what = "item" -> /\ view' = [view EXCEPT !.streamed = TRUE]
                                  /\ UNCHANGED <<main, turns, out, erred>>
            [] l.what = "refused" -> /\ main' = [main EXCEPT !.pc = "clear", !.failed = TRUE]
                                     /\ UNCHANGED <<view, turns, out, erred>>
            [] l.what = "engine" -> IF ~view.streamed /\ view.retries < MaxRetries
                                      THEN Retry ELSE EndCodexTurn("error")
            [] OTHER -> EndCodexTurn(l.what)
  /\ Fixed /\ UNCHANGED <<requests, child, joined, faults>>

\* The child is gone: the turn fails and is not replayed.
AppGone ==
  /\ InTurn
  /\ pipe = <<>> /\ child.state = "dirty"
  /\ child' = NoChild
  /\ main' = [main EXCEPT !.pc = "clear", !.failed = TRUE]
  /\ Fixed /\ UNCHANGED <<requests, view, turns, pipe, out, erred, joined, faults>>

AppStep == AppTakes \/ AppStreams \/ AppEnds
CodexServer == StartCodex \/ ForwardInterrupt \/ ForwardSteer \/ ReadCodex \/ AppGone
CodexNext == AppStep \/ CodexServer \/ AppExits
=============================================================================
