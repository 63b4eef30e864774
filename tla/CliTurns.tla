------------------------------ MODULE CliTurns ------------------------------
(***************************************************************************)
(* A turn of the blocks server on a command-line harness: Claude Code,     *)
(* Amp, or Pi and Omp, which differ in how the end of a turn is told.      *)
(* run_harness_turn reads the process's stdout until a native result, a    *)
(* terminal assistant stop followed by silence, an error, the end of the   *)
(* process, or an interrupt.  Claude Code's background agents hold a turn  *)
(* open past its result, until their follow-up is answered.                *)
(*                                                                         *)
(* Sources: crates/harness-server/src/server.rs, turn.rs, claude.rs.  The  *)
(* process itself is external: it is modelled from what the server reads.  *)
(***************************************************************************)
EXTENDS BlocksInput

Cli == kind \in CliKinds
Unmoved == UNCHANGED <<kind, runtimeVars, stdin, reader, turnActive, commands, pumpVars>>

-----------------------------------------------------------------------------
(* The harness process.                                                    *)

Emit(what) == pipe' = Append(pipe, [what |-> what, turn |-> child.turn])
ChildOnly == Unmoved /\ UNCHANGED <<requests, main, view, turns, out, erred, joined>>
ChildIs(phase) == Cli /\ child.state = "up" /\ child.phase = phase

\* The next input of the process's stdin is taken up.
TakeInput ==
  /\ ChildIs("idle")
  /\ child.todo # <<>>
  /\ child' = [child EXCEPT !.phase = "busy", !.turn = Head(child.todo),
                            !.todo = Tail(@)]
  /\ UNCHANGED <<pipe, faults>> /\ ChildOnly

\* A background agent is launched; later it drops out of the list of tasks,
\* or its notification lands, or both.
Launch ==
  /\ ChildIs("busy")
  /\ kind = "claude" /\ child.agent = "none"
  /\ Fault("agent")
  /\ child' = [child EXCEPT !.agent = "live"]
  /\ Emit("task") /\ ChildOnly
AgentDrops ==
  /\ Cli /\ child.state = "up" /\ child.agent = "live"
  /\ child' = [child EXCEPT !.agent = "gone"]
  /\ Emit("gone") /\ UNCHANGED faults /\ ChildOnly
AgentNotifies ==
  /\ Cli /\ child.state = "up" /\ child.agent \in {"live", "gone"}
  /\ child' = [child EXCEPT !.agent = "noted"]
  /\ Emit("note") /\ UNCHANGED faults /\ ChildOnly

\* A new message of the model: in the same turn, or as the follow-up that a
\* notification causes.
Answer ==
  /\ ChildIs("busy") \/ ChildIs("held")
  /\ child.agent = "noted"
  /\ child' = [child EXCEPT !.phase = "busy", !.agent = "none"]
  /\ Emit("begin") /\ UNCHANGED faults /\ ChildOnly

\* The last message of the turn, its result (which Amp does not send and
\* Claude Code may fail to), an error of either kind, or a line that does not
\* parse, for which the launch of an agent is fault enough.
Stop ==
  /\ ChildIs("busy")
  /\ child' = [child EXCEPT !.phase = IF kind = "amp" THEN "idle" ELSE "stopped"]
  /\ Emit("stop") /\ UNCHANGED faults /\ ChildOnly
Result ==
  /\ ChildIs("stopped")
  /\ child' = [child EXCEPT !.phase = IF child.agent = "none" THEN "idle" ELSE "held"]
  /\ \/ Emit("result") /\ UNCHANGED faults
     \/ kind = "claude" /\ child.agent = "none" /\ Fault("result") /\ UNCHANGED pipe
  /\ ChildOnly
Fail ==
  /\ ChildIs("busy")
  /\ Fault("fail") \/ (child.agent # "none" /\ UNCHANGED faults)
  /\ child' = [child EXCEPT !.phase = "idle"]
  /\ Emit("failure") \/ Emit("error") \/ Emit("garbled")
  /\ ChildOnly

Exit ==
  /\ Cli /\ child.state = "up"
  /\ Fault("exit")
  /\ \E status \in {"clean", "dirty"} : child' = [child EXCEPT !.state = status]
  /\ UNCHANGED pipe /\ ChildOnly

-----------------------------------------------------------------------------
(* run_normalized_turn and run_harness_turn.                               *)

Put(lines) == out' = out \o lines
Started == Notice("started", main.turn)
Error == Notice("error", main.turn)
Completed == Notice("completed", main.turn)

\* The turn's start is announced, the process ensured (or the turn fails),
\* what it still had in its stdout is dropped, and the input is written.  Pi
\* and Omp start a new process when the turn asks for another model, which
\* may be unknown.
StartCli ==
  /\ Cli /\ main.pc = "start"
  /\ \/ LET c == IF child.state = "up" THEN child ELSE NewChild
        IN /\ child' = [c EXCEPT !.todo = Append(@, main.turn)]
           /\ Put(<<Started>>)
           /\ main' = [main EXCEPT !.pc = "loop"]
           /\ UNCHANGED <<erred, faults>>
     \/ /\ Fault("model")
        /\ kind = "omp"
        /\ child' = [NewChild EXCEPT !.todo = Append(@, main.turn)]
        /\ Put(<<Started>>)
        /\ main' = [main EXCEPT !.pc = "loop"]
        /\ UNCHANGED erred
     \/ /\ Fault("spawn")
        /\ child.state # "up" \/ kind = "omp"
        /\ child' = NoChild
        /\ Put(<<Started, Error, Completed>>)
        /\ erred' = erred \cup {main.turn}
        /\ main' = [main EXCEPT !.pc = "clear"]
  /\ pipe' = <<>>
  /\ Unmoved /\ UNCHANGED <<requests, view, turns, joined>>

InLoop == Cli /\ main.pc = "loop"
Killed == child' = NoChild /\ pipe' = <<>>
Kept == child' = child /\ pipe' = Tail(pipe)

\* TurnInterrupted: the process is killed, whatever turn it is busy with.
InterruptCli ==
  /\ InLoop
  /\ requests # <<>>
  /\ requests' = Tail(requests)
  /\ Killed
  /\ Put(<<Completed>>)
  /\ main' = [main EXCEPT !.pc = "clear"]
  /\ Unmoved /\ UNCHANGED <<view, turns, erred, joined, faults>>

\* finish_turn_with_error: an error line and then the completion.
FailTurn ==
  /\ Killed
  /\ Put(<<Error, Completed>>)
  /\ erred' = erred \cup {main.turn}
  /\ main' = [main EXCEPT !.pc = "clear"]
  /\ Unmoved /\ UNCHANGED <<requests, view, turns, joined, faults>>

\* ClaudeEventNormalizer: the turn is held while an agent owes a notification
\* or a notification its answer.
Holding(v) == v.awaiting \/ v.agent # "none"

Observed(v, what) ==
  CASE what = "task" -> [v EXCEPT !.agent = "live"]
    [] what = "gone" -> [v EXCEPT !.agent = IF @ = "live" THEN "gone" ELSE @]
    [] what = "note" -> IF v.agent = "none" THEN v
                        ELSE [v EXCEPT !.agent = "none", !.awaiting = TRUE]
    [] what = "begin" -> [v EXCEPT !.awaiting = FALSE, !.held = FALSE]
    [] what = "stop" -> IF Holding(v) THEN v
                        ELSE [v EXCEPT !.settle = (kind = "claude")]
    [] what = "result" -> [v EXCEPT !.held = Holding(v)]
    [] OTHER -> v

EndsTurn(v, what) ==
  \/ what \in {"failure", "error", "garbled"}
  \/ what = "result" /\ ~Holding(v)
  \/ what = "stop" /\ kind = "amp"

\* Mutant: background work is left running.
LeaveChild(v, rest) == child' = child /\ pipe' = rest
\* Background work that outlives the turn is stopped with the process.
ReleaseChild(v, rest) ==
  IF Holding(v) THEN Killed ELSE child' = child /\ pipe' = rest

\* A line of the process; one that does not parse fails the turn as
\* finish_turn_with_error does.
ReadChild ==
  /\ InLoop
  /\ pipe # <<>>
  /\ LET what == Head(pipe).what
         v == Observed(view, what)
     IN /\ view' = v
        /\ IF EndsTurn(view, what)
             THEN /\ IF what = "garbled" THEN Killed ELSE ReleaseChild(v, Tail(pipe))
                  /\ Put((IF what \in {"error", "garbled"} THEN <<Error>> ELSE <<>>)
                           \o <<Completed>>)
                  /\ erred' = IF what \in {"error", "garbled"} THEN erred \cup {main.turn}
                              ELSE erred
                  /\ main' = [main EXCEPT !.pc = "clear"]
             ELSE Kept /\ UNCHANGED <<out, erred, main>>
  /\ Unmoved /\ UNCHANGED <<requests, turns, joined, faults>>

\* Silence: a held turn whose follow-up does not come fails; a turn that has
\* seen its terminal stop is complete.
\* Mutant: silence never completes a turn.
NeverSettle == FALSE /\ UNCHANGED vars
Quiet == InLoop /\ pipe = <<>> /\ child.state = "up"
Stall ==
  /\ Quiet
  /\ Holding(view) /\ view.held /\ view.agent # "live"
  /\ FailTurn
Settle ==
  /\ Quiet
  /\ view.settle
  /\ IF Holding(view) THEN Killed ELSE child' = [child EXCEPT !.settled = TRUE] /\ UNCHANGED pipe
  /\ Put(<<Completed>>)
  /\ main' = [main EXCEPT !.pc = "clear"]
  /\ Unmoved /\ UNCHANGED <<requests, view, turns, erred, joined, faults>>

\* The process has closed its stdout: after a clean exit behind a terminal
\* stop the turn is complete, otherwise it failed.
Disconnected ==
  /\ InLoop
  /\ pipe = <<>>
  /\ child.state \in {"clean", "dirty"}
  /\ IF view.settle /\ child.state = "clean"
       THEN /\ Killed
            /\ Put(<<Completed>>)
            /\ main' = [main EXCEPT !.pc = "clear"]
            /\ Unmoved /\ UNCHANGED <<requests, view, turns, erred, joined, faults>>
       ELSE FailTurn

ChildStep == \/ TakeInput \/ AgentDrops \/ AgentNotifies \/ Answer \/ Stop \/ Result
CliServer == \/ StartCli \/ InterruptCli \/ ReadChild \/ Stall \/ Settle \/ Disconnected
CliNext == ChildStep \/ CliServer \/ Launch \/ Fail \/ Exit
=============================================================================
