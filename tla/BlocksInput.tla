---------------------------- MODULE BlocksInput ----------------------------
(***************************************************************************)
(* Both ends of the pipe between the session runtime and the harness       *)
(* server of one sandbox.  The runtime writes the input of executions,     *)
(* steering messages and interrupts to the server's stdin; a reader thread *)
(* of the server routes each line by an atomic flag, turn_active, to the   *)
(* command channel or to the channel of the running turn; what the turns   *)
(* write to stdout, the runtime's pump attributes to executions by the     *)
(* turn ids it has seen.                                                   *)
(*                                                                         *)
(* Sources: crates/centaur-session-runtime/src/lib.rs (forwarding,         *)
(* interrupts, StdoutPumpState) and crates/harness-server/src (server.rs,  *)
(* codex.rs).  The turns themselves are in CliTurns and CodexTurns.        *)
(***************************************************************************)
EXTENDS Naturals, Sequences

CONSTANTS
  Kinds,          \* the harnesses of this instance
  MaxExecutions,  \* executions of the thread, one after the other
  MaxPosts,       \* bound on the messages and interrupts sent in between
  MaxRetries,     \* CODEX_ENGINE_RETRY_MAX
  Faults,         \* what may go wrong in this instance
  MaxFaults       \* how often in one behaviour

CliKinds == {"claude", "amp", "omp"}

ASSUME InputAssumption ==
  /\ Kinds \subseteq CliKinds \cup {"codex"}
  /\ Kinds # {}
  /\ MaxExecutions \in Nat /\ MaxPosts \in Nat
  /\ MaxRetries \in Nat /\ MaxFaults \in Nat

VARIABLES
  kind,        \* the harness the server was started for
  exec,        \* executions: "absent", "queued", "claimed" (its stdout lease is
               \* taken), "running" (its input is written), "ended", "expired"
  endedBy,     \* the turn whose terminal line ended an execution, or 0
  post,        \* posts read their execution and have not been written yet
  posted,      \* number of posts so far
  stdin,       \* lines in the server's stdin
  reader,      \* the line the reader thread is about to send to the turn
  turnActive,  \* the flag turn_active
  commands,    \* the command channel
  requests,    \* the active-turn channel
  main,        \* the main thread: its pc, its turn and how the turn went
  view,        \* what the running turn knows of its child process
  turns,       \* the line that each turn id was started for
  child,       \* the harness process
  pipe,        \* its stdout, not yet read
  out,         \* the server's stdout, not yet read by the pump
  turnOf,      \* the pump's turn_execution_by_id, by the turns it knows
  claimed,     \* the execution the first line of a turn was attributed to
  erred,       \* turns that wrote an error line
  joined,      \* steering posts that a running turn took in
  faults       \* the number of faults so far

runtimeVars == <<exec, endedBy, post, posted>>
pumpVars == <<turnOf, claimed>>
serverVars == <<main, view, turns, child, pipe, erred, joined>>
vars == <<kind, runtimeVars, stdin, reader, turnActive, commands, requests,
          serverVars, out, pumpVars, faults>>

Execs == 1..MaxExecutions
PostIds == 1..MaxPosts
NoTurn == 0   \* write_blocks_error has a constant in place of a turn id

Line(what, e, id) == [what |-> what, for |-> e, id |-> id]
Pending == {e \in Execs : exec[e] \in {"queued", "claimed", "running"}}
Active == IF Pending = {} THEN 0 ELSE CHOOSE e \in Pending : TRUE

\* Maps from turn ids to executions: HashMap::get, and insert.
NoMap == [t \in {} |-> 0]
Get(map, t) == IF t \in DOMAIN map THEN map[t] ELSE 0
Insert(map, t, e) == [u \in DOMAIN map \cup {t} |-> IF u = t THEN e ELSE map[u]]

NoLine == Line("none", 0, 0)
FreshView == [settle |-> FALSE, agent |-> "none", awaiting |-> FALSE,
              held |-> FALSE, streamed |-> FALSE, asked |-> FALSE, retries |-> 0]
NoChild == [state |-> "none", phase |-> "idle", agent |-> "none", turn |-> 0,
            todo |-> <<>>, settled |-> FALSE, said |-> FALSE]
NewChild == [NoChild EXCEPT !.state = "up"]

Init ==
  /\ kind \in Kinds
  /\ exec = [e \in Execs |-> "absent"]
  /\ endedBy = [e \in Execs |-> 0]
  /\ post = {} /\ posted = 0
  /\ stdin = <<>> /\ commands = <<>> /\ requests = <<>>
  /\ reader = NoLine
  /\ turnActive = FALSE
  /\ main = [pc |-> "idle", turn |-> 0, failed |-> FALSE]
  /\ view = FreshView
  /\ turns = <<>>
  /\ child = NoChild
  /\ pipe = <<>> /\ out = <<>>
  /\ turnOf = NoMap /\ claimed = NoMap
  /\ erred = {} /\ joined = {}
  /\ faults = 0

Fault(f) ==
  /\ f \in Faults
  /\ faults < MaxFaults
  /\ faults' = faults + 1

-----------------------------------------------------------------------------
(* The runtime's writes.                                                   *)

\* A request becomes the active execution of the thread.
Accept(e) ==
  /\ exec[e] = "absent"
  /\ \A d \in 1..(e - 1) : exec[d] # "absent"
  /\ Active = 0
  /\ exec' = [exec EXCEPT ![e] = "queued"]
  /\ UNCHANGED <<kind, endedBy, post, posted, stdin, reader, turnActive, commands,
                 requests, serverVars, out, pumpVars, faults>>

\* Its dispatch marks it running and claims its output.
Claim(e) ==
  /\ exec[e] = "queued"
  /\ exec' = [exec EXCEPT ![e] = "claimed"]
  /\ UNCHANGED <<kind, endedBy, post, posted, stdin, reader, turnActive, commands,
                 requests, serverVars, out, pumpVars, faults>>

\* write_input_lines for its input; an attachment that the server cannot
\* assemble makes one more line, which is refused there.
Deliver(e) ==
  /\ exec[e] = "claimed"
  /\ exec' = [exec EXCEPT ![e] = "running"]
  /\ \/ stdin' = Append(stdin, Line("user", e, 0)) /\ UNCHANGED faults
     \/ /\ Fault("attachment")
        /\ stdin' = stdin \o <<Line("bad", e, 0), Line("user", e, 0)>>
  /\ UNCHANGED <<kind, endedBy, post, posted, reader, turnActive, commands,
                 requests, serverVars, out, pumpVars>>

\* The execution's max-duration timer ends it; the harness is not told.
Expire(e) ==
  /\ exec[e] = "running"
  /\ Fault("expire")
  /\ exec' = [exec EXCEPT ![e] = "expired"]
  /\ UNCHANGED <<kind, endedBy, post, posted, stdin, reader, turnActive, commands,
                 requests, serverVars, out, pumpVars>>

\* forward_messages_to_active_execution and interrupt_active_execution read
\* the active execution ...
ReadActive(what) ==
  /\ Active # 0
  /\ posted < MaxPosts
  /\ posted' = posted + 1
  /\ post' = post \cup {Line(what, Active, posted + 1)}
  /\ UNCHANGED <<kind, exec, endedBy, stdin, reader, turnActive, commands,
                 requests, serverVars, out, pumpVars, faults>>

\* ... and write to the sandbox, whatever has become of it by then ...
WritePost ==
  \E l \in post :
    /\ post' = post \ {l}
    /\ stdin' = Append(stdin, l)
    /\ UNCHANGED <<kind, exec, endedBy, posted, reader, turnActive, commands,
                   requests, serverVars, out, pumpVars, faults>>

\* ... or give up: the sandbox cannot be reached.
PostFails ==
  \E l \in post :
    /\ post' = post \ {l}
    /\ UNCHANGED <<kind, exec, endedBy, posted, stdin, reader, turnActive, commands,
                   requests, serverVars, out, pumpVars, faults>>

-----------------------------------------------------------------------------
(* The server's reader thread.                                             *)

\* Mutant: steering always goes to the running turn.
ToActiveTurnAny(l) ==
  /\ turnActive
  /\ l.what \in {"interrupt", "steer"}

\* Only the codex server tells a steering line from a new turn.
ToActiveTurn(l) ==
  /\ turnActive
  /\ l.what = "interrupt" \/ (l.what = "steer" /\ kind = "codex")

\* A line is read and routed.  For a command the flag is set and the line sent
\* in one step: the main thread looks at neither in between.
ReadLine ==
  /\ reader = NoLine
  /\ stdin # <<>>
  /\ stdin' = Tail(stdin)
  /\ LET l == Head(stdin)
     IN IF ToActiveTurn(l)
          THEN reader' = l /\ UNCHANGED <<turnActive, commands>>
          ELSE /\ turnActive' = (turnActive \/ l.what \in {"user", "steer"})
               /\ commands' = Append(commands, l)
               /\ UNCHANGED reader
  /\ UNCHANGED <<kind, runtimeVars, requests, serverVars, out, pumpVars, faults>>

\* request_tx.send, after the flag was read.
SendLine ==
  /\ reader # NoLine
  /\ reader' = NoLine
  /\ requests' = Append(requests, reader)
  /\ UNCHANGED <<kind, runtimeVars, stdin, turnActive, commands, serverVars, out,
                 pumpVars, faults>>

-----------------------------------------------------------------------------
(* The server's main thread, outside of a turn.                            *)

Notice(what, t) == [what |-> what, turn |-> t]

\* command_rx.recv: a user line opens a turn; an interrupt is ignored; a line
\* that could not be parsed is answered by an error.
Receive ==
  /\ main.pc = "idle"
  /\ commands # <<>>
  /\ commands' = Tail(commands)
  /\ LET l == Head(commands)
     IN IF l.what \in {"user", "steer"}
          THEN /\ main' = [pc |-> "start", turn |-> Len(turns) + 1, failed |-> FALSE]
               /\ turns' = Append(turns, l)
               /\ turnActive' = TRUE
               /\ UNCHANGED out
          ELSE /\ out' = IF l.what = "bad" THEN Append(out, Notice("error", NoTurn)) ELSE out
               /\ UNCHANGED <<main, turns, turnActive>>
  /\ UNCHANGED <<kind, runtimeVars, stdin, reader, requests, view, child, pipe, erred,
                 joined, pumpVars, faults>>

\* The end of a turn: the flag is cleared, then the requests that are left
\* are drained.  The codex server reports a failed turn after that.
ClearFlag ==
  /\ main.pc = "clear"
  /\ turnActive' = FALSE
  /\ main' = [main EXCEPT !.pc = "drain"]
  /\ UNCHANGED <<kind, runtimeVars, stdin, reader, commands, requests, view, turns,
                 child, pipe, erred, joined, out, pumpVars, faults>>

Drain ==
  /\ main.pc = "drain"
  /\ requests' = <<>>
  /\ main' = [main EXCEPT !.pc = "idle", !.turn = 0, !.failed = FALSE]
  /\ view' = FreshView
  /\ out' = IF main.failed THEN Append(out, Notice("error", NoTurn)) ELSE out
  /\ UNCHANGED <<kind, runtimeVars, stdin, reader, turnActive, commands, turns,
                 child, pipe, erred, joined, pumpVars, faults>>

-----------------------------------------------------------------------------
(* The runtime's stdout pump.                                              *)

IsTerminal(l) == l.what \in {"error", "completed"}
Forget(e) == [t \in {u \in DOMAIN turnOf : turnOf[u] # e} |-> turnOf[t]]

\* Mutant: the active execution, whatever turn the line is from.
AttributedToActive(l) == Active

\* execution_for_line: a known turn's execution if it is the active one, the
\* active execution for an unknown turn, nobody otherwise.
Attributed(l) == IF Get(turnOf, l.turn) \in {0, Active} THEN Active ELSE 0

\* run_stdout_pump for one line: attribution, and the end of the execution
\* if the line is terminal.  The append is fenced: the output of an execution
\* that nobody has claimed yet is skipped.
Pump ==
  /\ out # <<>>
  /\ out' = Tail(out)
  /\ LET l == Head(out)
         e == Attributed(l)
         stored == e # 0 /\ exec[e] # "queued"
         known == Get(turnOf, l.turn)
     IN /\ turnOf' = CASE e = 0 /\ IsTerminal(l) /\ known # 0 -> Forget(known)
                       [] e # 0 /\ (IsTerminal(l) \/ ~stored) -> Forget(e)
                       [] stored /\ ~IsTerminal(l) -> Insert(turnOf, l.turn, e)
                       [] OTHER -> turnOf
        /\ claimed' = IF stored /\ l.turn # NoTurn /\ Get(claimed, l.turn) = 0
                        THEN Insert(claimed, l.turn, e) ELSE claimed
        /\ IF stored /\ IsTerminal(l)
             THEN /\ exec' = [exec EXCEPT ![e] = "ended"]
                  /\ endedBy' = [endedBy EXCEPT ![e] = l.turn]
             ELSE UNCHANGED <<exec, endedBy>>
  /\ UNCHANGED <<kind, post, posted, stdin, reader, turnActive, commands, requests,
                 serverVars, faults>>

Requests ==
  \/ \E e \in Execs : Accept(e) \/ Claim(e) \/ Deliver(e) \/ Expire(e)
  \/ ReadActive("steer") \/ ReadActive("interrupt")
  \/ WritePost \/ PostFails
=============================================================================
