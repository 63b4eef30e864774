--------------------------- MODULE HarnessServer ---------------------------
(***************************************************************************)
(* The harness server of a sandbox, started for one kind of harness, with  *)
(* the session runtime at the other end of its pipes.                      *)
(***************************************************************************)
EXTENDS CliTurns, CodexTurns

Next ==
  \/ Requests \/ ReadLine \/ SendLine
  \/ Receive \/ ClearFlag \/ Drain
  \/ CliNext \/ CodexNext
  \/ Pump

Spec == Init /\ [][Next]_vars

\* The runtime writes what it has begun to write and reads what there is; the
\* server's threads run; the harness goes on with its work.  Nobody owes a
\* request, a post or a fault.
Fairness ==
  /\ WF_vars(\E e \in Execs : Claim(e) \/ Deliver(e))
  /\ WF_vars(WritePost \/ PostFails)
  /\ WF_vars(ReadLine \/ SendLine)
  /\ WF_vars(Receive \/ ClearFlag \/ Drain \/ CliServer \/ CodexServer)
  /\ WF_vars(ChildStep \/ AppStep)
  /\ WF_vars(Pump)

FairSpec == Spec /\ Fairness

-----------------------------------------------------------------------------
(* Properties.                                                             *)

Lines == [what : {"none", "user", "steer", "interrupt", "bad"}, for : 0..MaxExecutions,
          id : 0..MaxPosts]

\* Every variable stays in its domain; a turn under way is the latest one.
TypeOK ==
  /\ kind \in Kinds
  /\ exec \in [Execs -> {"absent", "queued", "claimed", "running", "ended", "expired"}]
  /\ endedBy \in [Execs -> 0..Len(turns)]
  /\ post \subseteq Lines /\ posted \in 0..MaxPosts
  /\ stdin \in Seq(Lines) /\ commands \in Seq(Lines) /\ requests \in Seq(Lines)
  /\ reader \in Lines
  /\ turnActive \in BOOLEAN
  /\ turns \in Seq(Lines)
  /\ main.pc \in {"idle", "start", "loop", "clear", "drain"}
  /\ main.turn = IF main.pc = "idle" THEN 0 ELSE Len(turns)
  /\ main.failed \in BOOLEAN
  /\ child.state \in {"none", "up", "clean", "dirty"}
  /\ child.turn \in 0..Len(turns)
  /\ turnOf \in [DOMAIN turnOf -> Execs] /\ DOMAIN turnOf \subseteq 0..Len(turns)
  /\ claimed \in [DOMAIN claimed -> Execs] /\ DOMAIN claimed \subseteq 1..Len(turns)
  /\ erred \subseteq 1..Len(turns) /\ joined \subseteq PostIds
  /\ faults \in 0..MaxFaults

\* Between two turns a harness process that lives on has no background agent:
\* its notification and follow-up would be read as part of the next turn.
\* Held results, failures, stalls and interrupts all have to see to it.  (Once
\* a turn was completed by silence, its late result may cut the next short.)
QuietBetweenTurns ==
  main.pc = "idle" /\ child.state = "up" /\ ~child.settled => child.agent = "none"

\* A line of the harness that ends a turn is of that turn: lines left over from
\* an earlier turn, a held result or a late completion do not.  (Except that a
\* process whose earlier turn was completed by silence may still send the
\* result of that turn.)
OwnEnd ==
  [][main.pc = "loop" /\ main'.pc = "clear" /\ UNCHANGED requests /\ pipe # <<>> =>
       child.settled \/ Head(pipe).turn = main.turn]_vars

\* A turn whose output was attributed to one execution does not end another:
\* the pump knows the turn although its execution ended by a timer meanwhile.
\* (A turn that wrote an error line is forgotten with its execution; the
\* completion that follows the error may end the next one.)
KnownTurnEndsItsOwn ==
  \A e \in Execs : endedBy[e] # 0 =>
    \/ Get(claimed, endedBy[e]) = e
    \/ endedBy[e] \in erred

\* A steering message written to a command-line harness is not lost: it runs
\* as a turn of its own, whatever became of the turn it was meant for.
Elements(s) == {s[i] : i \in DOMAIN s}
Underway == post \cup Elements(stdin) \cup {reader} \cup Elements(commands)
              \cup Elements(requests) \cup Elements(turns)
Steers == {l.id : l \in {x \in Underway : x.what = "steer"}} \cup joined
SteerIsKept == [][Cli => Steers \subseteq Steers' \/ PostFails]_vars

\* Everything that was accepted ends, again and again: executions, their turns
\* and the turns that steering lines became, whatever the harness, the posts
\* and the faults did to them.
EverythingEnds ==
  []<>(Pending = {} /\ stdin = <<>> /\ commands = <<>> /\ main.pc = "idle")

-----------------------------------------------------------------------------
(* Statements the code makes or suggests, and which do not hold.           *)

\* Late output of a turn whose execution is over is dropped.
LateOutputIsDropped ==
  \A e \in Execs : endedBy[e] # 0 => Get(claimed, endedBy[e]) = e

\* An execution is ended by the turn of its own input.
EndsByOwnTurn ==
  \A e \in Execs : endedBy[e] # 0 => turns[endedBy[e]].for = e

\* The settle window keeps a late result from ending the next turn.
OwnEndAlways ==
  [][main.pc = "loop" /\ main'.pc = "clear" /\ UNCHANGED requests /\ pipe # <<>> =>
       Head(pipe).turn = main.turn]_vars

\* A steering message that lands after the turn ends starts a new turn.
SteerIsKeptByAll == [][Steers \subseteq Steers' \/ PostFails]_vars

\* An interrupt ends a turn of the execution it was sent for.
InterruptHitsItsTurn == [][InterruptCli => Head(requests).for = turns[main.turn].for]_vars
=============================================================================
