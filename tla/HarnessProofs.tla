--------------------------- MODULE HarnessProofs ----------------------------
(* What is proved of the harness server, for any number of executions, posts,
   retries and faults: that a steering message written to a command-line harness
   is not lost, that the output of a turn known to the runtime's pump ends no
   other execution, that a harness process is quiet between two turns, and that
   what ends a turn is of that turn. *)
EXTENDS HarnessServer, SequenceTheorems, TLAPS

-----------------------------------------------------------------------------
(* Sequences.                                                              *)

(* A channel that takes a line in holds it and what it held before. *)
LEMMA ElementsAppend ==
    ASSUME NEW S, NEW s \in Seq(S), NEW x \in S
    PROVE  /\ Append(s, x) \in Seq(S)
           /\ Elements(Append(s, x)) = Elements(s) \cup {x}
<1>1. /\ Append(s, x) \in Seq(S) /\ DOMAIN Append(s, x) = 1..(Len(s) + 1)
      /\ DOMAIN s = 1..Len(s) /\ Len(s) \in Nat
      /\ Append(s, x)[Len(s) + 1] = x
      /\ \A i \in 1..Len(s) : Append(s, x)[i] = s[i]
  OBVIOUS
<1>2. \A i \in DOMAIN Append(s, x) : i = Len(s) + 1 \/ i \in DOMAIN s
  BY <1>1
<1>3. \A i \in DOMAIN s : i \in DOMAIN Append(s, x)
  BY <1>1
<1>4. Len(s) + 1 \in DOMAIN Append(s, x)
  BY <1>1
<1> QED BY <1>1, <1>2, <1>3, <1>4 DEF Elements

(* A channel that gives a line out has lost no other. *)
LEMMA ElementsTail ==
    ASSUME NEW S, NEW s \in Seq(S), s # <<>>
    PROVE  /\ Tail(s) \in Seq(S) /\ Head(s) \in S
           /\ Elements(s) = Elements(Tail(s)) \cup {Head(s)}
<1>1. /\ Tail(s) \in Seq(S) /\ Head(s) \in S /\ Head(s) = s[1]
      /\ Len(s) \in Nat \ {0}
      /\ DOMAIN s = 1..Len(s) /\ DOMAIN Tail(s) = 1..(Len(s) - 1)
      /\ \A i \in 1..(Len(s) - 1) : Tail(s)[i] = s[i + 1]
  BY HeadTailProperties, EmptySeq, LenProperties
<1>2. \A i \in DOMAIN s : i = 1 \/ (i - 1 \in DOMAIN Tail(s) /\ Tail(s)[i - 1] = s[i])
  BY <1>1
<1>3. \A i \in DOMAIN Tail(s) : i + 1 \in DOMAIN s /\ Tail(s)[i] = s[i + 1]
  BY <1>1
<1>4. 1 \in DOMAIN s
  BY <1>1
<1>5. \A i \in DOMAIN s : s[i] \in Elements(Tail(s)) \cup {Head(s)}
  BY <1>1, <1>2 DEF Elements
<1>6. \A i \in DOMAIN Tail(s) : Tail(s)[i] \in Elements(s)
  BY <1>3 DEF Elements
<1>7. Head(s) \in Elements(s)
  BY <1>1, <1>4 DEF Elements
<1> QED BY <1>1, <1>5, <1>6, <1>7 DEF Elements

(* Lines written after others do not displace them. *)
LEMMA ElementsConcat ==
    ASSUME NEW S, NEW s \in Seq(S), NEW t \in Seq(S)
    PROVE  s \o t \in Seq(S) /\ Elements(s) \subseteq Elements(s \o t)
<1>1. /\ s \o t \in Seq(S) /\ Len(s \o t) = Len(s) + Len(t)
      /\ Len(s) \in Nat /\ Len(t) \in Nat
      /\ \A i \in 1..(Len(s) + Len(t)) :
           (s \o t)[i] = IF i <= Len(s) THEN s[i] ELSE t[i - Len(s)]
  BY ConcatProperties, LenProperties
<1>2. DOMAIN s = 1..Len(s) /\ DOMAIN (s \o t) = 1..(Len(s) + Len(t))
  BY <1>1, LenProperties
<1>3. \A i \in DOMAIN s : i \in DOMAIN (s \o t) /\ (s \o t)[i] = s[i]
  BY <1>1, <1>2
<1> QED BY <1>1, <1>3 DEF Elements

(* The sequence without lines. *)
LEMMA ElementsEmpty ==
    ASSUME NEW S
    PROVE  <<>> \in Seq(S) /\ Elements(<<>>) = {}
BY DEF Elements

-----------------------------------------------------------------------------
(* Turns.                                                                  *)

Mains == [pc : {"idle", "start", "loop", "clear", "drain"}, turn : Nat, failed : BOOLEAN]

(* The turn under way, if any, is the one started last. *)
MainInv ==
  /\ main \in Mains /\ turns \in Seq(Lines)
  /\ main.turn = IF main.pc = "idle" THEN 0 ELSE Len(turns)
  /\ main.pc # "idle" => Len(turns) # 0

(* A step inside a turn that does not start another. *)
SameTurn ==
  /\ turns' = turns
  /\ \/ main' = main
     \/ /\ main.pc # "idle"
        /\ \E p \in {"loop", "clear", "drain"} :
             \/ main' = [main EXCEPT !.pc = p]
             \/ main' = [main EXCEPT !.pc = p, !.failed = TRUE]

(* Within a turn, the turn under way stays the latest one. *)
LEMMA SameTurnMain ==
    ASSUME MainInv, SameTurn
    PROVE  MainInv' /\ (main' # main => main'.turn = main.turn /\ main'.pc # "idle")
<1>1. CASE main' = main
  BY <1>1 DEF MainInv, SameTurn
<1>2. CASE main' # main
  <2>1. main' \in Mains /\ main'.turn = main.turn /\ main'.pc # "idle" /\ main.pc # "idle"
    BY <1>2 DEF MainInv, SameTurn, Mains
  <2> QED BY <2>1 DEF MainInv, SameTurn
<1> QED BY <1>1, <1>2

(* A turn that is opened gets the next number. *)
NewTurn ==
  /\ \E l \in Lines : turns' = Append(turns, l)
  /\ \E b \in BOOLEAN : main' = [pc |-> "start", turn |-> Len(turns) + 1, failed |-> b]

(* A turn that is started is the latest one. *)
LEMMA NewTurnMain ==
    ASSUME MainInv, NewTurn
    PROVE  MainInv' /\ Len(turns') = Len(turns) + 1 /\ main'.pc = "start"
<1>1. turns' \in Seq(Lines) /\ Len(turns') = Len(turns) + 1 /\ Len(turns) \in Nat
  BY DEF NewTurn, MainInv
<1>2. main' \in Mains /\ main'.pc = "start" /\ main'.turn = Len(turns) + 1
  BY <1>1 DEF NewTurn, Mains
<1> QED BY <1>1, <1>2 DEF MainInv

(* The line a turn was started for. *)
LEMMA TurnLine ==
    ASSUME MainInv, main.pc # "idle"
    PROVE  turns[main.turn] \in Lines /\ main.turn \in 1..Len(turns)
BY DEF MainInv

(* A turn of a command-line harness is never replaced by another. *)
LEMMA CliMain ==
    ASSUME CliNext
    PROVE  SameTurn
<1>1. CASE ChildStep \/ Launch \/ Fail \/ Exit
  BY <1>1 DEF ChildStep, TakeInput, AgentDrops, AgentNotifies, Answer, Stop, Result, Launch,
              Fail, Exit, ChildOnly, SameTurn
<1>2. CASE StartCli
  BY <1>2 DEF StartCli, SameTurn
<1>3. CASE ReadChild \/ InterruptCli
  BY <1>3 DEF ReadChild, InterruptCli, InLoop, SameTurn
<1>4. CASE Stall \/ Settle \/ Disconnected
  BY <1>4 DEF Stall, Settle, Disconnected, FailTurn, InLoop, Quiet, SameTurn
<1> QED BY <1>1, <1>2, <1>3, <1>4 DEF CliNext, CliServer

(* A submission again, for the same line. *)
LEMMA RetryMain ==
    ASSUME MainInv, main.pc = "loop", Retry
    PROVE  NewTurn
<1>1. turns[main.turn] \in Lines
  BY TurnLine
<1>2. main' = [pc |-> "start", turn |-> Len(turns) + 1, failed |-> main.failed]
      /\ main.failed \in BOOLEAN
  BY DEF Retry, MainInv, Mains
<1> QED BY <1>1, <1>2 DEF Retry, NewTurn

(* A turn of codex goes on, or is retried under a new id. *)
LEMMA CodexMain ==
    ASSUME MainInv, CodexNext
    PROVE  SameTurn \/ NewTurn
<1>1. CASE AppStep \/ AppExits
  BY <1>1 DEF AppStep, AppTakes, AppStreams, AppEnds, AppExits, AppServer, SameTurn
<1>2. CASE StartCodex \/ ForwardInterrupt \/ ForwardSteer \/ AppGone
  BY <1>2 DEF StartCodex, ForwardInterrupt, ForwardSteer, AppGone, InTurn, SameTurn
<1>3. CASE ReadCodex
  <2>1. main.pc = "loop"
    BY <1>3 DEF ReadCodex, InTurn
  <2>2. CASE Retry
    BY <2>1, <2>2, RetryMain
  <2>3. CASE ~Retry
    BY <1>3, <2>1, <2>3 DEF ReadCodex, EndCodexTurn, SameTurn
  <2> QED BY <2>2, <2>3
<1> QED BY <1>1, <1>2, <1>3 DEF CodexNext, CodexServer

(* A command starts a turn or is passed over. *)
LEMMA ReceiveMain ==
    ASSUME MainInv, Receive, commands \in Seq(Lines)
    PROVE  (SameTurn /\ main' = main) \/ NewTurn
<1>1. Head(commands) \in Lines
  BY ElementsTail DEF Receive
<1> QED BY <1>1 DEF Receive, SameTurn, NewTurn

(* The end of a turn leaves none under way. *)
LEMMA DrainMain ==
    ASSUME MainInv, Drain
    PROVE  MainInv'
BY DEF MainInv, Mains, Drain

(* The turn that the main thread is in, whatever the step. *)
LEMMA MainStep ==
    ASSUME MainInv, commands \in Seq(Lines), [Next]_vars
    PROVE  MainInv' /\ (SameTurn \/ NewTurn \/ Drain)
<1>1. CASE Requests \/ ReadLine \/ SendLine \/ Pump
  BY <1>1, SameTurnMain
     DEF Requests, Accept, Claim, Deliver, Expire, ReadActive, WritePost, PostFails,
         ReadLine, SendLine, Pump, serverVars, SameTurn
<1>2. CASE ClearFlag
  BY <1>2, SameTurnMain DEF ClearFlag, SameTurn
<1>3. CASE UNCHANGED vars
  BY <1>3, SameTurnMain DEF vars, serverVars, SameTurn
<1> QED
  BY <1>1, <1>2, <1>3, ReceiveMain, DrainMain, CliMain, CodexMain, SameTurnMain, NewTurnMain
     DEF Next

-----------------------------------------------------------------------------
(* Steering messages.                                                      *)

(* What is under way to a command-line harness besides commands is interrupts. *)
OnlyInterrupts ==
  Cli => /\ reader = NoLine \/ reader.what = "interrupt"
         /\ \A l \in Elements(requests) : l.what = "interrupt"

InputInv ==
  /\ post \subseteq Lines /\ posted \in 0..MaxPosts
  /\ stdin \in Seq(Lines) /\ commands \in Seq(Lines) /\ requests \in Seq(Lines)
  /\ reader \in Lines /\ turns \in Seq(Lines)
  /\ OnlyInterrupts

(* A step that moves no line. *)
InputFrame ==
  UNCHANGED <<kind, post, posted, stdin, reader, commands, requests, turns, joined>>

(* No line with a steering message is lost. *)
Keeps == Steers \subseteq Steers'

(* The execution a post is for. *)
LEMMA ActiveIs == Active = 0 \/ (Active \in Execs /\ Active \in Pending)
BY DEF Active, Pending

(* Lines that the runtime writes. *)
LEMMA LineIs ==
    ASSUME NEW w \in {"none", "user", "steer", "interrupt", "bad"},
           NEW e \in 0..MaxExecutions, NEW n \in 0..MaxPosts
    PROVE  Line(w, e, n) \in Lines /\ Line(w, e, n).what = w
BY DEF Line, Lines

(* It is enough that what was under way with a steering message still is. *)
LEMMA KeepsIf ==
    ASSUME \A l \in Underway : l.what = "steer" => l \in Underway',
           joined \subseteq joined'
    PROVE  Keeps
BY DEF Keeps, Steers

(* What moves no line loses none. *)
LEMMA FrameKeeps ==
    ASSUME InputInv, InputFrame
    PROVE  InputInv' /\ Keeps
<1>1. InputInv'
  BY DEF InputInv, InputFrame, OnlyInterrupts, Cli
<1>2. Underway' = Underway /\ joined' = joined
  BY DEF InputFrame, Underway
<1> QED BY <1>1, <1>2, KeepsIf

(* The steps of the child, and those of the server that take nothing from its
   channels. *)
LEMMA CliFrame ==
    ASSUME CliNext, ~InterruptCli
    PROVE  InputFrame
<1>1. CASE ChildStep \/ Launch \/ Fail \/ Exit
  BY <1>1 DEF ChildStep, TakeInput, AgentDrops, AgentNotifies, Answer, Stop, Result, Launch,
              Fail, Exit, ChildOnly, Unmoved, runtimeVars, InputFrame
<1>2. CASE StartCli \/ ReadChild
  BY <1>2 DEF StartCli, ReadChild, Unmoved, runtimeVars, InputFrame
<1>3. CASE Stall \/ Settle \/ Disconnected
  BY <1>3 DEF Stall, Settle, Disconnected, FailTurn, Unmoved, runtimeVars, InputFrame
<1> QED BY <1>1, <1>2, <1>3 DEF CliNext, CliServer

(* The steps of the runtime and the server that move no line. *)
LEMMA OtherFrame ==
    ASSUME ClearFlag \/ Pump \/ \E e \in Execs : Accept(e) \/ Claim(e) \/ Expire(e)
    PROVE  InputFrame
BY DEF ClearFlag, Pump, Accept, Claim, Expire, runtimeVars, serverVars, InputFrame

(* The input of an execution is added to the server's stdin. *)
LEMMA DeliverKeeps ==
    ASSUME InputInv, NEW e \in Execs, Deliver(e)
    PROVE  InputInv' /\ Keeps
<1>1. Line("user", e, 0) \in Lines /\ Line("bad", e, 0) \in Lines
  BY InputAssumption, LineIs DEF Execs
<1>2. PICK t \in Seq(Lines) : stdin' = stdin \o t
  <2>1. <<Line("user", e, 0)>> \in Seq(Lines)
        /\ <<Line("bad", e, 0), Line("user", e, 0)>> \in Seq(Lines)
    BY <1>1
  <2>2. Append(stdin, Line("user", e, 0)) = stdin \o <<Line("user", e, 0)>>
    BY <1>1 DEF InputInv
  <2> QED BY <2>1, <2>2 DEF Deliver
<1>3. /\ UNCHANGED <<kind, post, posted, reader, commands, requests, turns, joined>>
  BY DEF Deliver, serverVars
<1>4. stdin' \in Seq(Lines) /\ Elements(stdin) \subseteq Elements(stdin')
  BY <1>2, ElementsConcat DEF InputInv
<1>5. InputInv'
  BY <1>3, <1>4 DEF InputInv, OnlyInterrupts, Cli
<1>6. Underway \subseteq Underway'
  BY <1>3, <1>4 DEF Underway
<1> QED BY <1>3, <1>5, <1>6, KeepsIf

(* A post is read against the active execution, to be written later. *)
LEMMA ReadActiveKeeps ==
    ASSUME InputInv, NEW w \in {"steer", "interrupt"}, ReadActive(w)
    PROVE  InputInv' /\ Keeps
<1>1. Line(w, Active, posted + 1) \in Lines /\ posted + 1 \in 0..MaxPosts
  <2>1. Active \in 0..MaxExecutions
    BY ActiveIs, InputAssumption DEF ReadActive, Execs
  <2>2. posted + 1 \in 0..MaxPosts
    BY InputAssumption DEF ReadActive, InputInv
  <2> QED BY <2>1, <2>2, LineIs
<1>2. /\ post' = post \cup {Line(w, Active, posted + 1)} /\ posted' = posted + 1
      /\ UNCHANGED <<kind, stdin, reader, commands, requests, turns, joined>>
  BY DEF ReadActive, serverVars
<1>3. InputInv'
  BY <1>1, <1>2 DEF InputInv, OnlyInterrupts, Cli
<1>4. Underway \subseteq Underway'
  BY <1>2 DEF Underway
<1> QED BY <1>2, <1>3, <1>4, KeepsIf

(* A post is written to the server's stdin. *)
LEMMA WritePostKeeps ==
    ASSUME InputInv, WritePost
    PROVE  InputInv' /\ Keeps
<1>1. PICK l \in post : post' = post \ {l} /\ stdin' = Append(stdin, l)
  BY DEF WritePost
<1>2. UNCHANGED <<kind, posted, reader, commands, requests, turns, joined>>
  BY DEF WritePost, serverVars
<1>3. stdin' \in Seq(Lines) /\ Elements(stdin') = Elements(stdin) \cup {l}
  BY <1>1, ElementsAppend DEF InputInv
<1>4. InputInv'
  BY <1>1, <1>2, <1>3 DEF InputInv, OnlyInterrupts, Cli
<1>5. Underway \subseteq Underway'
  BY <1>1, <1>2, <1>3 DEF Underway
<1> QED BY <1>2, <1>4, <1>5, KeepsIf

(* A post that cannot be written is given up. *)
LEMMA PostFailsKeeps ==
    ASSUME InputInv, PostFails
    PROVE  InputInv'
<1>1. post' \subseteq post
  BY DEF PostFails
<1>2. UNCHANGED <<kind, posted, stdin, reader, commands, requests, turns, joined>>
  BY DEF PostFails, serverVars
<1> QED BY <1>1, <1>2 DEF InputInv, OnlyInterrupts, Cli

(* The reader keeps the line it routes, as the one to send or as a command. *)
LEMMA ReadLineKeeps ==
    ASSUME InputInv, ReadLine
    PROVE  InputInv' /\ Keeps
<1> DEFINE l == Head(stdin)
<1>1. /\ stdin \in Seq(Lines) /\ stdin # <<>> /\ stdin' = Tail(stdin) /\ reader = NoLine
      /\ UNCHANGED <<kind, post, posted, requests, turns, joined>>
  BY DEF InputInv, ReadLine, runtimeVars, serverVars
<1>2. /\ stdin' \in Seq(Lines) /\ l \in Lines
      /\ Elements(stdin) = Elements(stdin') \cup {l}
  BY <1>1, ElementsTail
<1>3. CASE ToActiveTurn(l)
  <2>1. reader' = l /\ commands' = commands
    BY <1>3 DEF ReadLine
  <2>2. Cli => l.what = "interrupt"
    BY <1>3 DEF ToActiveTurn, Cli, CliKinds
  <2>3. InputInv'
    BY <1>1, <1>2, <2>1, <2>2 DEF InputInv, OnlyInterrupts, Cli
  <2>4. NoLine.what # "steer"
    BY DEF NoLine, Line
  <2>5. \A x \in Underway : x.what = "steer" => x \in Underway'
    BY <1>1, <1>2, <2>1, <2>4 DEF Underway
  <2> QED BY <1>1, <2>3, <2>5, KeepsIf
<1>4. CASE ~ToActiveTurn(l)
  <2>1. reader' = reader /\ commands' = Append(commands, l)
    BY <1>4 DEF ReadLine
  <2>2. commands' \in Seq(Lines) /\ Elements(commands') = Elements(commands) \cup {l}
    BY <1>2, <2>1, ElementsAppend DEF InputInv
  <2>3. InputInv'
    BY <1>1, <1>2, <2>1, <2>2 DEF InputInv, OnlyInterrupts, Cli
  <2>4. Underway \subseteq Underway'
    BY <1>1, <1>2, <2>1, <2>2 DEF Underway
  <2> QED BY <1>1, <2>3, <2>4, KeepsIf
<1> QED BY <1>3, <1>4

(* The reader thread sends the line it has read to the channel it has chosen. *)
LEMMA SendLineKeeps ==
    ASSUME InputInv, SendLine
    PROVE  InputInv' /\ Keeps
<1>1. /\ reader \in Lines /\ reader # NoLine /\ reader' = NoLine
      /\ requests' = Append(requests, reader) /\ requests \in Seq(Lines)
      /\ UNCHANGED <<kind, post, posted, stdin, commands, turns, joined>>
  BY DEF InputInv, SendLine, runtimeVars, serverVars
<1>2. requests' \in Seq(Lines) /\ Elements(requests') = Elements(requests) \cup {reader}
  BY <1>1, ElementsAppend
<1>3. NoLine \in Lines /\ NoLine.what = "none"
  BY InputAssumption, LineIs DEF NoLine
<1>4. OnlyInterrupts'
  <2>1. ASSUME Cli PROVE reader.what = "interrupt" /\ Cli'
    BY <1>1, <2>1 DEF InputInv, OnlyInterrupts, Cli
  <2> QED BY <2>1, <1>1, <1>2 DEF InputInv, OnlyInterrupts, Cli
<1>5. InputInv'
  BY <1>1, <1>2, <1>3, <1>4 DEF InputInv
<1>6. \A x \in Underway : x \in Underway'
  BY <1>1, <1>2 DEF Underway
<1> QED BY <1>1, <1>5, <1>6, KeepsIf

(* A steering message opens a turn when its command is received. *)
LEMMA ReceiveKeeps ==
    ASSUME InputInv, Receive
    PROVE  InputInv' /\ Keeps
<1> DEFINE l == Head(commands)
<1>1. /\ commands \in Seq(Lines) /\ commands # <<>> /\ commands' = Tail(commands)
      /\ UNCHANGED <<kind, post, posted, stdin, reader, requests, joined>>
  BY DEF InputInv, Receive, runtimeVars
<1>2. /\ commands' \in Seq(Lines) /\ l \in Lines
      /\ Elements(commands) = Elements(commands') \cup {l}
  BY <1>1, ElementsTail
<1>3. CASE l.what \in {"user", "steer"}
  <2>1. turns' = Append(turns, l)
    BY <1>3 DEF Receive
  <2>2. turns' \in Seq(Lines) /\ Elements(turns') = Elements(turns) \cup {l}
    BY <1>2, <2>1, ElementsAppend DEF InputInv
  <2>3. InputInv'
    BY <1>1, <1>2, <2>2 DEF InputInv, OnlyInterrupts, Cli
  <2>4. \A x \in Underway : x \in Underway'
    BY <1>1, <1>2, <2>2 DEF Underway
  <2> QED BY <1>1, <2>3, <2>4, KeepsIf
<1>4. CASE l.what \notin {"user", "steer"}
  <2>1. turns' = turns
    BY <1>4 DEF Receive
  <2>2. InputInv'
    BY <1>1, <1>2, <2>1 DEF InputInv, OnlyInterrupts, Cli
  <2>3. \A x \in Underway : x.what = "steer" => x \in Underway'
    BY <1>1, <1>2, <1>4, <2>1 DEF Underway
  <2> QED BY <1>1, <2>2, <2>3, KeepsIf
<1> QED BY <1>3, <1>4

(* Requests that are dropped are interrupts, unless the harness is codex. *)
LEMMA DropKeeps ==
    ASSUME InputInv, requests' \in Seq(Lines), Elements(requests') \subseteq Elements(requests),
           UNCHANGED <<kind, post, posted, stdin, reader, commands, turns, joined>>
    PROVE  InputInv' /\ (Cli => Keeps)
<1>1. InputInv'
  BY DEF InputInv, OnlyInterrupts, Cli
<1>2. ASSUME Cli PROVE Keeps
  <2>1. \A l \in Elements(requests) : l.what # "steer"
    BY <1>2 DEF InputInv, OnlyInterrupts
  <2>2. \A x \in Underway : x.what = "steer" => x \in Underway'
    BY <2>1 DEF Underway
  <2> QED BY <2>2, KeepsIf
<1> QED BY <1>1, <1>2

(* A turn of a command-line harness takes an interrupt from its channel. *)
LEMMA InterruptCliKeeps ==
    ASSUME InputInv, InterruptCli
    PROVE  InputInv' /\ (Cli => Keeps)
<1>1. requests \in Seq(Lines) /\ requests # <<>> /\ requests' = Tail(requests)
  BY DEF InputInv, InterruptCli
<1>2. requests' \in Seq(Lines) /\ Elements(requests') \subseteq Elements(requests)
  BY <1>1, ElementsTail
<1>3. UNCHANGED <<kind, post, posted, stdin, reader, commands, turns, joined>>
  BY DEF InterruptCli, Unmoved, runtimeVars
<1> QED BY <1>2, <1>3, DropKeeps

(* What is left in the channel of a turn that is over is dropped; for a
   command-line harness it is interrupts only. *)
LEMMA DrainKeeps ==
    ASSUME InputInv, Drain
    PROVE  InputInv' /\ (Cli => Keeps)
<1>1. requests' = <<>>
  BY DEF Drain
<1>2. requests' \in Seq(Lines) /\ Elements(requests') \subseteq Elements(requests)
  BY <1>1, ElementsEmpty
<1>3. UNCHANGED <<kind, post, posted, stdin, reader, commands, turns, joined>>
  BY DEF Drain, runtimeVars
<1> QED BY <1>2, <1>3, DropKeeps

(* The codex server takes no part in a command-line harness; its requests are
   forwarded, and a turn may be submitted again. *)
LEMMA CodexInput ==
    ASSUME InputInv, MainInv, CodexNext
    PROVE  InputInv' /\ ~Cli
<1>1. ~Cli /\ kind' = kind
  BY DEF CodexNext, AppStep, CodexServer, AppTakes, AppStreams, AppEnds, StartCodex,
         ForwardInterrupt, ForwardSteer, ReadCodex, AppGone, AppExits, Serving, InTurn, Codex,
         Cli, CliKinds, AppServer, Fixed
<1>2. UNCHANGED <<post, posted, stdin, reader, commands>>
  BY DEF CodexNext, AppStep, CodexServer, AppTakes, AppStreams, AppEnds, StartCodex,
         ForwardInterrupt, ForwardSteer, ReadCodex, AppGone, AppExits,
         AppServer, Fixed, runtimeVars
<1>3. requests' \in Seq(Lines)
  <2>1. CASE ForwardInterrupt \/ ForwardSteer
    <3>1. requests # <<>> /\ requests' = Tail(requests)
      BY <2>1 DEF ForwardInterrupt, ForwardSteer
    <3> QED BY <3>1, ElementsTail DEF InputInv
  <2>2. CASE AppStep \/ StartCodex \/ ReadCodex \/ AppGone \/ AppExits
    <3>1. requests' = requests
      BY <2>2 DEF AppStep, AppTakes, AppStreams, AppEnds, StartCodex, ReadCodex, AppGone,
                  AppExits, AppServer
    <3> QED BY <3>1 DEF InputInv
  <2> QED BY <2>1, <2>2 DEF CodexNext, CodexServer
<1>4. turns' \in Seq(Lines)
  BY CodexMain, SameTurnMain, NewTurnMain DEF MainInv
<1> QED BY <1>1, <1>2, <1>3, <1>4 DEF InputInv, OnlyInterrupts, Cli

(* At the start there is no turn and no line. *)
LEMMA InputInit == Init => MainInv /\ InputInv
<1> SUFFICES ASSUME Init PROVE MainInv /\ InputInv
  OBVIOUS
<1>1. MainInv
  BY DEF Init, MainInv, Mains
<1>2. reader \in Lines
  BY InputAssumption, LineIs DEF Init, NoLine
<1>3. OnlyInterrupts
  BY ElementsEmpty DEF Init, OnlyInterrupts
<1> QED BY <1>1, <1>2, <1>3, InputAssumption DEF Init, InputInv

(* Every step preserves the invariant, and no step but the failure of a post
   loses a steering message on its way to a command-line harness. *)
LEMMA InputStep ==
    ASSUME InputInv, MainInv, [Next]_vars
    PROVE  /\ InputInv' /\ MainInv'
           /\ Cli => Keeps \/ PostFails
<1>0. MainInv'
  BY MainStep DEF InputInv
<1> SUFFICES InputInv' /\ (Cli => Keeps \/ PostFails)
  BY <1>0
<1>1. CASE Requests
  BY <1>1, OtherFrame, FrameKeeps, DeliverKeeps, ReadActiveKeeps, WritePostKeeps, PostFailsKeeps
     DEF Requests
<1>2. CASE ReadLine \/ SendLine \/ Receive \/ Drain
  BY <1>2, ReadLineKeeps, SendLineKeeps, ReceiveKeeps, DrainKeeps
<1>3. CASE ClearFlag \/ Pump
  BY <1>3, OtherFrame, FrameKeeps
<1>4. CASE CliNext
  BY <1>4, CliFrame, FrameKeeps, InterruptCliKeeps
<1>5. CASE CodexNext
  BY <1>5, CodexInput
<1>6. CASE UNCHANGED vars
  <2>1. InputFrame
    BY <1>6 DEF vars, runtimeVars, serverVars, InputFrame
  <2> QED BY <2>1, FrameKeeps
<1> QED BY <1>1, <1>2, <1>3, <1>4, <1>5, <1>6 DEF Next

(* The two invariants of the input side hold throughout. *)
LEMMA InputInductive == Spec => [](InputInv /\ MainInv)
<1>1. Init => InputInv /\ MainInv
  BY InputInit
<1>2. (InputInv /\ MainInv) /\ [Next]_vars => (InputInv /\ MainInv)'
  BY InputStep
<1> QED BY <1>1, <1>2, PTL DEF Spec

(* A steering message written to a command-line harness is not lost, however the
   reader thread, the flag turn_active and the turns interleave: it is a line on
   its way or the line a turn was opened for (run_blocks_server). *)
THEOREM SteerKept == Spec => SteerIsKept
<1>1. (InputInv /\ MainInv) /\ [Next]_vars
        => [Cli => Steers \subseteq Steers' \/ PostFails]_vars
  BY InputStep DEF Keeps
<1> QED BY <1>1, InputInductive, PTL DEF Spec, SteerIsKept

-----------------------------------------------------------------------------
(* The process and the pipes: types.                                       *)

Agents == {"none", "live", "gone", "noted"}
Views == [settle : BOOLEAN, agent : Agents, awaiting : BOOLEAN, held : BOOLEAN,
          streamed : BOOLEAN, asked : BOOLEAN, retries : Nat]
Children == [state : {"none", "up", "clean", "dirty"},
             phase : {"idle", "busy", "stopped", "held"},
             agent : Agents, turn : Nat, todo : Seq(Nat), settled : BOOLEAN, said : BOOLEAN]
Words == {"started", "error", "completed", "task", "gone", "note", "begin", "stop",
          "result", "failure", "garbled", "item", "engine", "refused"}
Notices == [what : Words, turn : Nat]

ServerTypes ==
  /\ view \in Views /\ child \in Children
  /\ pipe \in Seq(Notices) /\ out \in Seq(Notices)

(* Lines written one after the other. *)
LEMMA PairIs ==
    ASSUME NEW S, NEW a \in S, NEW b \in S
    PROVE  <<>> \o <<a>> = <<a>> /\ <<a>> \o <<b>> = <<a, b>>
<1>1. <<>> \in Seq(S) /\ <<a>> \in Seq(S) /\ <<b>> \in Seq(S) /\ <<a, b>> \in Seq(S)
  OBVIOUS
<1>2. <<>> \o <<a>> = <<a>>
  BY <1>1, ConcatEmptySeq
<1>3. /\ <<a>> \o <<b>> \in Seq(S) /\ Len(<<a>> \o <<b>>) = 2
      /\ \A i \in 1..2 : (<<a>> \o <<b>>)[i] = IF i <= 1 THEN <<a>>[i] ELSE <<b>>[i - 1]
  BY <1>1, ConcatProperties
<1>4. /\ Len(<<a, b>>) = 2 /\ \A i \in 1..2 : (<<a>> \o <<b>>)[i] = <<a, b>>[i]
  BY <1>3
<1>5. <<a>> \o <<b>> = <<a, b>>
  BY <1>1, <1>3, <1>4, SeqEqual
<1> QED BY <1>2, <1>5

(* What is written to a pipe of lines of a kind leaves it one. *)
LEMMA WrittenIs ==
    ASSUME NEW S, NEW s \in Seq(S), NEW a \in S, NEW b \in S, NEW c \in S
    PROVE  /\ <<>> \in Seq(S) /\ Append(s, a) \in Seq(S)
           /\ s \o <<a>> \in Seq(S) /\ s \o <<a, b>> \in Seq(S)
           /\ s \o <<a, b, c>> \in Seq(S)
<1>1. <<>> \in Seq(S) /\ <<a>> \in Seq(S) /\ <<a, b>> \in Seq(S) /\ <<a, b, c>> \in Seq(S)
      /\ Append(s, a) \in Seq(S)
  OBVIOUS
<1>2. \A t \in Seq(S) : s \o t \in Seq(S)
  BY ElementsConcat
<1> QED BY <1>1, <1>2

(* Words that the server and the app-server use. *)
LEMMA AllWords ==
    /\ "started" \in Words /\ "error" \in Words /\ "completed" \in Words /\ "item" \in Words
    /\ "engine" \in Words /\ "refused" \in Words
BY DEF Words

(* A notification of the server, and a line of the app-server. *)
LEMMA NoticeIs ==
    ASSUME NEW w \in Words, NEW t \in Nat
    PROVE  /\ [what |-> w, turn |-> t] \in Notices
           /\ Notice(w, t) = [what |-> w, turn |-> t] /\ Reply(w, t) = [what |-> w, turn |-> t]
BY DEF Notices, Notice, Reply

(* What a turn and a process start from. *)
LEMMA FreshTypes == FreshView \in Views /\ NoChild \in Children /\ NewChild \in Children
<1>1. FreshView \in Views
  BY DEF FreshView, Views, Agents
<1>2. NoChild \in Children
  BY DEF NoChild, Children, Agents
<1>3. NewChild \in Children
  BY <1>2 DEF NewChild, Children
<1> QED BY <1>1, <1>2, <1>3

(* The notices of the turn under way. *)
LEMMA TurnNotices ==
    ASSUME MainInv
    PROVE  /\ Started \in Notices /\ Error \in Notices /\ Completed \in Notices
           /\ Started.turn = main.turn /\ Error.turn = main.turn /\ Completed.turn = main.turn
           /\ ~IsTerminal(Started)
BY DEF MainInv, Mains, Started, Error, Completed, Notice, Notices, Words, IsTerminal

(* What the process does to itself and to its stdout. *)
LEMMA ChildTypes ==
    ASSUME ServerTypes, ChildStep \/ Launch \/ Fail \/ Exit
    PROVE  ServerTypes'
<1>1. /\ view' = view /\ out' = out
  BY DEF ChildStep, TakeInput, AgentDrops, AgentNotifies, Answer, Stop, Result, Launch,
         Fail, Exit, ChildOnly
<1>2. child' \in Children
  <2>1. CASE TakeInput
    BY <2>1, ElementsTail DEF ServerTypes, Children, TakeInput, ChildIs
  <2>2. CASE AgentDrops \/ AgentNotifies \/ Answer \/ Launch
    BY <2>2 DEF ServerTypes, Children, Agents, AgentDrops, AgentNotifies, Answer, Launch
  <2>3. CASE Stop \/ Result \/ Fail \/ Exit
    BY <2>3 DEF ServerTypes, Children, Agents, Stop, Result, Fail, Exit
  <2> QED BY <2>1, <2>2, <2>3 DEF ChildStep
<1>3. pipe' \in Seq(Notices)
  <2>1. child.turn \in Nat /\ pipe \in Seq(Notices)
    BY DEF ServerTypes, Children
  <2>2. \A w \in Words : Emit(w) => pipe' \in Seq(Notices)
    BY <2>1, NoticeIs DEF Emit
  <2>3. (\E w \in Words : Emit(w)) \/ pipe' = pipe
    BY DEF Words, ChildStep, TakeInput, AgentDrops, AgentNotifies, Answer, Stop, Result, Launch,
           Fail, Exit
  <2> QED BY <2>1, <2>2, <2>3
<1> QED BY <1>1, <1>2, <1>3 DEF ServerTypes

(* What a turn makes of a line is a view. *)
LEMMA ObservedTypes ==
    ASSUME NEW v \in Views, NEW w \in Words
    PROVE  Observed(v, w) \in Views
<1>1. v.agent \in Agents /\ Holding(v) \in BOOLEAN /\ (kind = "claude") \in BOOLEAN
      /\ "live" \in Agents /\ "gone" \in Agents /\ "none" \in Agents
  BY DEF Views, Agents, Holding
<1>2. ASSUME NEW a \in Agents PROVE [v EXCEPT !.agent = a] \in Views
  BY DEF Views
<1>3. ASSUME NEW b \in BOOLEAN
      PROVE  [v EXCEPT !.settle = b] \in Views /\ [v EXCEPT !.held = b] \in Views
  BY DEF Views
<1>4. [v EXCEPT !.agent = "none", !.awaiting = TRUE] \in Views
      /\ [v EXCEPT !.awaiting = FALSE, !.held = FALSE] \in Views
  BY <1>1 DEF Views
<1>5. [v EXCEPT !.settle = (kind = "claude")] \in Views /\ [v EXCEPT !.held = Holding(v)] \in Views
  BY <1>1, <1>3
<1> QED BY <1>1, <1>2, <1>4, <1>5 DEF Observed

(* Input is queued behind what the process has yet to take up. *)
LEMMA QueuedTypes ==
    ASSUME NEW c \in Children, NEW t \in Nat
    PROVE  [c EXCEPT !.todo = Append(@, t)] \in Children
<1>1. c.todo \in Seq(Nat)
  BY DEF Children
<1>2. Append(c.todo, t) \in Seq(Nat)
  BY <1>1
<1>3. ASSUME NEW q \in Seq(Nat)
      PROVE  [c EXCEPT !.todo = q] \in Children
  BY DEF Children
<1> QED BY <1>2, <1>3

(* What a turn of a command-line harness does to them. *)
LEMMA CliTypes ==
    ASSUME ServerTypes, MainInv, CliServer
    PROVE  ServerTypes'
<1>1. /\ Started \in Notices /\ Error \in Notices /\ Completed \in Notices
      /\ main.turn \in Nat /\ out \in Seq(Notices) /\ pipe \in Seq(Notices)
      /\ child \in Children /\ view \in Views
  BY TurnNotices DEF MainInv, Mains, ServerTypes
<1>2. NoChild \in Children /\ NewChild \in Children
  BY FreshTypes
<1>3. /\ <<>> \in Seq(Notices) /\ out \o <<Started>> \in Seq(Notices)
      /\ out \o <<Started, Error, Completed>> \in Seq(Notices)
      /\ out \o <<Error, Completed>> \in Seq(Notices)
      /\ out \o <<Completed>> \in Seq(Notices)
      /\ <<>> \o <<Completed>> = <<Completed>>
      /\ <<Error>> \o <<Completed>> = <<Error, Completed>>
  BY <1>1, WrittenIs, PairIs
<1>4. CASE StartCli
  <2>1. [NewChild EXCEPT !.todo = Append(@, main.turn)] \in Children
        /\ [child EXCEPT !.todo = Append(@, main.turn)] \in Children
    BY <1>1, <1>2, QueuedTypes
  <2>2. child' \in Children
    BY <1>1, <1>2, <1>4, <2>1 DEF StartCli
  <2>3. out' \in Seq(Notices) /\ pipe' = <<>> /\ view' = view
    BY <1>3, <1>4 DEF StartCli, Put
  <2> QED BY <1>1, <1>3, <2>2, <2>3 DEF ServerTypes
<1>5. CASE InterruptCli \/ Stall \/ Disconnected
  BY <1>1, <1>2, <1>3, <1>5
     DEF InterruptCli, Stall, Disconnected, FailTurn, Killed, Put, ServerTypes
<1>6. CASE Settle
  <2>1. [child EXCEPT !.settled = TRUE] \in Children
    BY <1>1 DEF Children
  <2> QED BY <1>1, <1>2, <1>3, <1>6, <2>1 DEF Settle, Killed, Put, ServerTypes
<1>7. CASE ReadChild
  <2>1. Head(pipe) \in Notices /\ Tail(pipe) \in Seq(Notices)
    BY <1>1, <1>7, ElementsTail DEF ReadChild
  <2>2. view' \in Views
    BY <1>1, <1>7, <2>1, ObservedTypes DEF ReadChild, Notices
  <2>3. child' \in Children /\ pipe' \in Seq(Notices)
    BY <1>1, <1>2, <1>3, <1>7, <2>1 DEF ReadChild, ReleaseChild, Killed, Kept
  <2>4. out' \in Seq(Notices)
    BY <1>1, <1>3, <1>7 DEF ReadChild, Put
  <2> QED BY <2>2, <2>3, <2>4 DEF ServerTypes
<1> QED BY <1>4, <1>5, <1>6, <1>7 DEF CliServer

(* What the app-server and a turn of codex do to them. *)
LEMMA AppTypes ==
    ASSUME ServerTypes, AppStep \/ AppExits
    PROVE  ServerTypes'
<1>1. /\ view' = view /\ out' = out /\ pipe \in Seq(Notices) /\ child \in Children
      /\ child.turn \in Nat /\ view \in Views /\ out \in Seq(Notices)
  BY DEF AppStep, AppTakes, AppStreams, AppEnds, AppExits, AppServer, ServerTypes, Children
<1>2. CASE AppTakes
  <2>1. Head(child.todo) \in Nat /\ Tail(child.todo) \in Seq(Nat)
    BY <1>1, <1>2, ElementsTail DEF AppTakes, Children
  <2>2. child' \in Children
    BY <1>1, <1>2, <2>1 DEF AppTakes, Children
  <2>3. Reply("started", Head(child.todo)) \in Notices
    BY <2>1, NoticeIs, AllWords
  <2>4. pipe' \in Seq(Notices)
    BY <1>1, <1>2, <2>3, ElementsAppend DEF AppTakes
  <2> QED BY <1>1, <2>2, <2>4 DEF ServerTypes
<1>3. CASE AppStreams \/ AppEnds \/ AppExits
  <2>1. child' \in Children
    BY <1>1, <1>3 DEF AppStreams, AppEnds, AppExits, Children
  <2>2. /\ Reply("item", child.turn) \in Notices /\ Reply("completed", child.turn) \in Notices
        /\ Reply("error", child.turn) \in Notices /\ Reply("engine", child.turn) \in Notices
    BY <1>1, NoticeIs, AllWords
  <2>3. /\ Append(pipe, Reply("item", child.turn)) \in Seq(Notices)
        /\ Append(pipe, Reply("completed", child.turn)) \in Seq(Notices)
        /\ Append(pipe, Reply("engine", child.turn)) \in Seq(Notices)
        /\ pipe \o <<Reply("error", child.turn), Reply("completed", child.turn)>> \in Seq(Notices)
    BY <1>1, <2>2, WrittenIs
  <2>4. pipe' \in Seq(Notices)
    BY <1>1, <1>3, <2>3 DEF AppStreams, AppEnds, AppExits
  <2> QED BY <1>1, <2>1, <2>4 DEF ServerTypes
<1> QED BY <1>2, <1>3 DEF AppStep

(* The steps of a turn of codex. *)
LEMMA CodexTypes ==
    ASSUME ServerTypes, MainInv, CodexServer
    PROVE  ServerTypes'
<1>1. /\ main.turn \in Nat /\ out \in Seq(Notices) /\ pipe \in Seq(Notices)
      /\ child \in Children /\ view \in Views
  BY DEF MainInv, Mains, ServerTypes
<1>2. /\ NoChild \in Children /\ NewChild \in Children /\ FreshView \in Views
      /\ <<>> \in Seq(Notices)
  BY FreshTypes
<1>3. /\ Append(pipe, Reply("completed", main.turn)) \in Seq(Notices)
      /\ Append(pipe, Reply("refused", main.turn)) \in Seq(Notices)
      /\ \A w \in Words : Append(out, Notice(w, main.turn)) \in Seq(Notices)
  <2>1. /\ \A w \in Words : Notice(w, main.turn) \in Notices /\ Reply(w, main.turn) \in Notices
        /\ "completed" \in Words /\ "refused" \in Words
    BY <1>1, NoticeIs, AllWords
  <2>2. \A x \in Notices : Append(pipe, x) \in Seq(Notices) /\ Append(out, x) \in Seq(Notices)
    BY <1>1
  <2> QED BY <2>1, <2>2
<1>4. CASE StartCodex
  <2>1. [NewChild EXCEPT !.todo = Append(@, main.turn)] \in Children
        /\ [child EXCEPT !.todo = Append(@, main.turn)] \in Children
    BY <1>1, <1>2, QueuedTypes
  <2>2. child' \in Children
    BY <1>1, <1>2, <1>4, <2>1 DEF StartCodex
  <2> QED BY <1>1, <1>2, <1>4, <2>2 DEF StartCodex, ServerTypes
<1>5. CASE ForwardInterrupt
  <2>1. [child EXCEPT !.phase = "idle"] \in Children /\ [view EXCEPT !.asked = TRUE] \in Views
    BY <1>1 DEF Children, Views
  <2> QED BY <1>1, <1>3, <1>5, <2>1 DEF ForwardInterrupt, ServerTypes
<1>6. CASE ForwardSteer \/ AppGone
  BY <1>1, <1>2, <1>3, <1>6 DEF ForwardSteer, AppGone, ServerTypes
<1>7. CASE ReadCodex
  <2>0. pipe # <<>>
    BY <1>7 DEF ReadCodex
  <2>1. Tail(pipe) \in Seq(Notices) /\ Head(pipe).what \in Words
    <3>1. Tail(pipe) \in Seq(Notices) /\ Head(pipe) \in Notices
      BY <1>1, <2>0, ElementsTail
    <3> QED BY <3>1 DEF Notices
  <2>2. /\ [view EXCEPT !.streamed = TRUE] \in Views
        /\ [FreshView EXCEPT !.retries = view.retries + 1] \in Views
    <3>1. view.retries + 1 \in Nat
      BY <1>1 DEF Views
    <3>2. \A n \in Nat : [FreshView EXCEPT !.retries = n] \in Views
      BY <1>2 DEF Views
    <3>3. [view EXCEPT !.streamed = TRUE] \in Views
      BY <1>1 DEF Views
    <3> QED BY <3>1, <3>2, <3>3
  <2>3. view' \in Views
    BY <1>1, <1>7, <2>2 DEF ReadCodex, EndCodexTurn, Retry
  <2>4. out' \in Seq(Notices)
    BY <1>1, <1>3, <1>7, <2>1, AllWords DEF ReadCodex, EndCodexTurn, Retry, InScope
  <2>5. pipe' \in Seq(Notices) /\ child' = child
    BY <1>7, <2>1 DEF ReadCodex
  <2> QED BY <1>1, <2>3, <2>4, <2>5 DEF ServerTypes
<1> QED BY <1>4, <1>5, <1>6, <1>7 DEF CodexServer

(* The rest of the server and the runtime. *)
LEMMA OtherTypes ==
    ASSUME ServerTypes, Requests \/ ReadLine \/ SendLine \/ Receive \/ ClearFlag \/ Drain \/ Pump
    PROVE  ServerTypes'
<1>1. child' = child /\ pipe' = pipe /\ (view' = view \/ view' = FreshView)
  BY DEF Requests, Accept, Claim, Deliver, Expire, ReadActive, WritePost, PostFails, ReadLine,
         SendLine, Receive, ClearFlag, Drain, Pump, serverVars
<1>2. out' \in Seq(Notices)
  <2>1. out \in Seq(Notices) /\ Notice("error", NoTurn) \in Notices
    BY NoticeIs, AllWords DEF ServerTypes, NoTurn
  <2>2. CASE Pump
    BY <2>1, <2>2, ElementsTail DEF Pump
  <2>3. CASE Receive \/ Drain
    BY <2>1, <2>3, ElementsAppend DEF Receive, Drain
  <2>4. CASE Requests \/ ReadLine \/ SendLine \/ ClearFlag
    <3>1. out' = out
      BY <2>4 DEF Requests, Accept, Claim, Deliver, Expire, ReadActive, WritePost, PostFails,
                  ReadLine, SendLine, ClearFlag
    <3> QED BY <3>1, <2>1
  <2> QED BY <2>2, <2>3, <2>4
<1> QED BY <1>1, <1>2, FreshTypes DEF ServerTypes

(* Types are preserved by every step. *)
LEMMA TypesStep ==
    ASSUME ServerTypes, MainInv, [Next]_vars
    PROVE  ServerTypes'
<1>1. CASE UNCHANGED vars
  BY <1>1 DEF vars, serverVars, ServerTypes
<1> QED BY <1>1, ChildTypes, CliTypes, AppTypes, CodexTypes, OtherTypes
           DEF Next, CliNext, CodexNext

-----------------------------------------------------------------------------
(* The pump.                                                               *)

UnderWay == main.pc \in {"start", "loop"}
Seen(t) == t \in DOMAIN claimed
Before(i, t) == \A k \in 1..i : out[k].turn # t
Done(t) ==
  /\ \A i \in DOMAIN out : out[i].turn # t
  /\ ~(UnderWay /\ main.turn = t)

PumpTypes ==
  /\ exec \in [Execs -> {"absent", "queued", "claimed", "running", "ended", "expired"}]
  /\ endedBy \in [Execs -> Nat]
  /\ turnOf \in [DOMAIN turnOf -> Execs]
  /\ claimed \in [DOMAIN claimed -> Execs] /\ DOMAIN claimed \subseteq 1..Len(turns)
  /\ \A i \in DOMAIN out : out[i].turn <= Len(turns)

(* What follows a terminal line is of a turn nothing has been read of, and that has
   written nothing before it.  A turn that wrote an error line is the exception. *)
TerminalCuts ==
  \A i, j \in DOMAIN out :
    i < j /\ IsTerminal(out[i]) /\ out[j].turn # NoTurn /\ out[j].turn \notin erred =>
      ~Seen(out[j].turn) /\ Before(i, out[j].turn)

(* And so is the turn under way, which has yet to write. *)
UnderWayIsNew ==
  UnderWay => \A i \in DOMAIN out :
    IsTerminal(out[i]) => ~Seen(main.turn) /\ Before(i, main.turn)

(* The pump knows the execution of a turn it has read from, until there is nothing
   more to come of it. *)
SeenIsKnown ==
  \A t \in DOMAIN claimed : Get(turnOf, t) = claimed[t] \/ t \in erred \/ Done(t)

(* Turns are attributed to executions whose output has been claimed. *)
KnownWasClaimed ==
  \A t \in DOMAIN turnOf : exec[turnOf[t]] \notin {"absent", "queued"}

PumpInv ==
  /\ PumpTypes /\ TerminalCuts /\ UnderWayIsNew /\ SeenIsKnown /\ KnownWasClaimed
  /\ KnownTurnEndsItsOwn

(* A step of anybody but the pump. *)
PumpKept ==
  /\ UNCHANGED <<turnOf, claimed, endedBy>>
  /\ erred \subseteq erred'
  /\ exec' \in [Execs -> {"absent", "queued", "claimed", "running", "ended", "expired"}]
  /\ \A e \in Execs : exec[e] \notin {"absent", "queued"} => exec'[e] \notin {"absent", "queued"}

(* What is said of executions and of the pump's map alone. *)
LEMMA KeptParts ==
    ASSUME PumpInv, PumpKept
    PROVE  KnownTurnEndsItsOwn' /\ KnownWasClaimed'
<1>1. KnownTurnEndsItsOwn'
  BY DEF PumpInv, PumpKept, KnownTurnEndsItsOwn, Get
<1>2. KnownWasClaimed'
  BY DEF PumpInv, PumpKept, PumpTypes, KnownWasClaimed
<1> QED BY <1>1, <1>2

(* A step that writes nothing and opens no turn. *)
Leaves ==
  /\ PumpKept /\ out' = out /\ turns' = turns
  /\ UnderWay' => UnderWay /\ main'.turn = main.turn

(* A step that writes nothing for the pump to read. *)
LEMMA LeavesPump ==
    ASSUME PumpInv, Leaves
    PROVE  PumpInv'
<1>1. PumpTypes'
  BY DEF PumpInv, PumpTypes, Leaves, PumpKept
<1>2. TerminalCuts' /\ UnderWayIsNew'
  BY DEF PumpInv, TerminalCuts, UnderWayIsNew, Leaves, PumpKept, Seen, Before
<1>3. ASSUME NEW t, Done(t) PROVE Done(t)'
  BY <1>3 DEF Done, Leaves
<1>4. SeenIsKnown'
  BY <1>3 DEF PumpInv, SeenIsKnown, Leaves, PumpKept, Get
<1> QED BY <1>1, <1>2, <1>4, KeptParts DEF PumpInv, Leaves

(* The lines that the pump has to read. *)
LEMMA OutLines ==
    ASSUME ServerTypes
    PROVE  /\ Len(out) \in Nat /\ DOMAIN out = 1..Len(out)
           /\ \A i \in DOMAIN out : out[i] \in Notices /\ out[i].turn \in Nat
<1>1. out \in Seq(Notices) /\ \A l \in Notices : l.turn \in Nat
  BY DEF ServerTypes, Notices
<1> QED BY <1>1, LenProperties, ElementOfSeq

(* A step that opens a turn. *)
LEMMA OpensPump ==
    ASSUME PumpInv, MainInv, NewTurn, PumpKept, out' = out, ServerTypes
    PROVE  PumpInv'
<1>1. /\ Len(turns) \in Nat /\ Len(turns') = Len(turns) + 1
      /\ main'.turn = Len(turns) + 1
  <2>1. MainInv' /\ Len(turns') = Len(turns) + 1 /\ main'.pc = "start"
    BY NewTurnMain
  <2> QED BY <2>1 DEF MainInv
<1>2. DOMAIN claimed \subseteq 1..Len(turns) /\ \A i \in DOMAIN out : out[i].turn \in 0..Len(turns)
  BY <1>1, OutLines DEF PumpInv, PumpTypes
<1>3. PumpTypes'
  BY <1>1, <1>2 DEF PumpInv, PumpTypes, PumpKept
<1>4. TerminalCuts'
  BY DEF PumpInv, TerminalCuts, PumpKept, Seen, Before
<1>5. UnderWayIsNew'
  <2>1. Len(turns) + 1 \notin DOMAIN claimed'
    BY <1>1, <1>2 DEF PumpKept
  <2>2. DOMAIN out = 1..Len(out) /\ Len(out) \in Nat
    BY OutLines
  <2>3. ASSUME NEW i \in DOMAIN out, NEW k \in 1..i PROVE out[k].turn # Len(turns) + 1
    BY <1>1, <1>2, <2>2
  <2> QED BY <1>1, <2>1, <2>3 DEF UnderWayIsNew, Before, Seen
<1>6. SeenIsKnown'
  <2>1. ASSUME NEW t \in DOMAIN claimed, Done(t) PROVE Done(t)'
    BY <2>1, <1>1, <1>2 DEF Done
  <2> QED BY <2>1 DEF PumpInv, SeenIsKnown, PumpKept, Get
<1> QED BY <1>3, <1>4, <1>5, <1>6, KeptParts DEF PumpInv

(* What lines written after others do to the positions of the server's stdout. *)
LEMMA OutConcat ==
    ASSUME ServerTypes, NEW s \in Seq(Notices), out' = out \o s
    PROVE  /\ Len(out) \in Nat /\ Len(s) \in Nat
           /\ DOMAIN out = 1..Len(out) /\ DOMAIN out' = 1..(Len(out) + Len(s))
           /\ \A i \in 1..Len(out) : out'[i] = out[i]
           /\ \A i \in DOMAIN out' : i \notin 1..Len(out) =>
                i > Len(out) /\ out'[i] \in Elements(s)
<1>1. out \in Seq(Notices)
  BY DEF ServerTypes
<1>2. /\ out' \in Seq(Notices) /\ Len(out') = Len(out) + Len(s)
      /\ Len(out) \in Nat /\ Len(s) \in Nat
      /\ DOMAIN out = 1..Len(out) /\ DOMAIN s = 1..Len(s)
      /\ \A i \in 1..(Len(out) + Len(s)) :
           out'[i] = IF i <= Len(out) THEN out[i] ELSE s[i - Len(out)]
  BY <1>1, ConcatProperties, LenProperties
<1>3. DOMAIN out' = 1..(Len(out) + Len(s))
  BY <1>2, LenProperties
<1>4. \A i \in 1..Len(out) : out'[i] = out[i]
  BY <1>2
<1>5. ASSUME NEW i \in DOMAIN out', i \notin 1..Len(out)
      PROVE  i > Len(out) /\ out'[i] \in Elements(s)
  <2>1. i > Len(out) /\ i - Len(out) \in 1..Len(s) /\ out'[i] = s[i - Len(out)]
    BY <1>2, <1>3, <1>5
  <2> QED BY <2>1, <1>2 DEF Elements
<1> QED BY <1>2, <1>3, <1>4, <1>5

(* A step of a turn under way that writes: it announces the turn and goes on, or
   ends it with one line, or with an error and what follows it. *)
Writes(s) ==
  /\ PumpKept /\ turns' = turns /\ out' = out \o s
  /\ UnderWay /\ \A l \in Elements(s) : l.turn = main.turn
  /\ \/ /\ \A l \in Elements(s) : ~IsTerminal(l)
        /\ main'.turn = main.turn
     \/ /\ Len(s) = 1 \/ main.turn \in erred'
        /\ ~UnderWay'

(* A turn under way writes lines of its own. *)
LEMMA WritesPump ==
    ASSUME PumpInv, MainInv, ServerTypes, NEW s \in Seq(Notices), Writes(s)
    PROVE  PumpInv'
<1>1. /\ Len(out) \in Nat /\ Len(s) \in Nat
      /\ DOMAIN out = 1..Len(out) /\ DOMAIN out' = 1..(Len(out) + Len(s))
      /\ \A i \in 1..Len(out) : out'[i] = out[i]
      /\ \A i \in DOMAIN out' : i \notin 1..Len(out) =>
           i > Len(out) /\ out'[i] \in Elements(s)
  BY OutConcat DEF Writes
<1>2. \A i \in DOMAIN out' : i \notin 1..Len(out) => out'[i].turn = main.turn
  BY <1>1 DEF Writes
<1>3. main.turn \in 1..Len(turns) /\ Len(turns) \in Nat
  BY TurnLine DEF MainInv, Writes, UnderWay
<1>4. PumpTypes'
  <2>1. \A i \in DOMAIN out' : out'[i].turn <= Len(turns)
    BY <1>1, <1>2, <1>3 DEF PumpInv, PumpTypes
  <2> QED BY <2>1 DEF PumpInv, PumpTypes, Writes, PumpKept
<1>5. ASSUME NEW i \in DOMAIN out, IsTerminal(out[i])
      PROVE  ~Seen(main.turn) /\ Before(i, main.turn)
  BY <1>5 DEF PumpInv, UnderWayIsNew, Writes
<1>6. \A i \in DOMAIN out, t \in Nat : Before(i, t) => Before(i, t)'
  BY <1>1 DEF Before
<1>7. \A t : Seen(t)' <=> Seen(t)
  BY DEF Seen, Writes, PumpKept
<1>8. TerminalCuts'
  <2> SUFFICES ASSUME NEW i \in DOMAIN out', NEW j \in DOMAIN out', i < j, IsTerminal(out'[i]),
                      out'[j].turn # NoTurn, out'[j].turn \notin erred'
               PROVE  ~Seen(out[j].turn)' /\ Before(i, out[j].turn)'
    BY DEF TerminalCuts, IsTerminal
  <2>1. CASE j \in DOMAIN out
    <3>1. i \in DOMAIN out /\ out'[i] = out[i] /\ out'[j] = out[j] /\ out[j].turn \notin erred
      BY <1>1, <2>1 DEF Writes, PumpKept
    <3>2. out[j].turn \in Nat
      BY <2>1, OutLines
    <3>3. ~Seen(out[j].turn) /\ Before(i, out[j].turn)
      BY <2>1, <3>1 DEF PumpInv, TerminalCuts
    <3> QED BY <3>1, <3>2, <3>3, <1>6, <1>7 DEF Seen, Before
  <2>2. CASE j \notin DOMAIN out
    <3>1. out'[j].turn = main.turn /\ j > Len(out)
      BY <1>1, <1>2, <2>2
    <3>2. i \in DOMAIN out
      BY <1>1, <3>1 DEF Writes
    <3>3. ~Seen(main.turn) /\ Before(i, main.turn)
      BY <1>1, <1>5, <3>2
    <3>4. out'[j].turn \notin DOMAIN claimed'
      BY <3>1, <3>3, <1>7 DEF Seen
    <3>5. ASSUME NEW k \in 1..i PROVE out'[k].turn # out'[j].turn
      <4>1. out'[k] = out[k]
        BY <1>1, <3>2
      <4> QED BY <3>1, <3>3, <4>1 DEF Before
    <3> QED BY <3>4, <3>5 DEF Seen, Before
  <2> QED BY <2>1, <2>2
<1>9. UnderWayIsNew'
  <2> SUFFICES ASSUME UnderWay', NEW i \in DOMAIN out', IsTerminal(out'[i])
               PROVE  ~Seen(main.turn)' /\ Before(i, main.turn)'
    BY DEF UnderWayIsNew, IsTerminal
  <2>1. main'.turn = main.turn /\ \A l \in Elements(s) : ~IsTerminal(l)
    BY DEF Writes
  <2>2. i \in DOMAIN out /\ out'[i] = out[i]
    BY <1>1, <2>1
  <2> QED BY <2>1, <2>2, <1>3, <1>5, <1>6, <1>7 DEF Seen, Before
<1>10. SeenIsKnown'
  <2>1. ASSUME NEW t \in DOMAIN claimed, Done(t) PROVE Done(t)'
    BY <2>1, <1>1, <1>2 DEF Done, Writes
  <2> QED BY <2>1 DEF PumpInv, SeenIsKnown, Writes, PumpKept, Get
<1> QED BY <1>4, <1>8, <1>9, <1>10, KeptParts DEF PumpInv, Writes

(* An error that names no turn, written between two turns. *)
LEMMA ReportsPump ==
    ASSUME PumpInv, MainInv, ServerTypes, PumpKept, turns' = turns, ~UnderWay',
           out' = Append(out, Notice("error", NoTurn))
    PROVE  PumpInv'
<1> DEFINE x == Notice("error", NoTurn)
<1>1. /\ out \in Seq(Notices) /\ x \in Notices /\ x.turn = 0 /\ NoTurn = 0
  BY NoticeIs, AllWords DEF ServerTypes, NoTurn, Notice
<1> HIDE DEF x
<1>2. /\ Len(out) \in Nat /\ DOMAIN out = 1..Len(out) /\ DOMAIN out' = 1..(Len(out) + 1)
      /\ \A i \in 1..Len(out) : out'[i] = out[i]
      /\ out'[Len(out) + 1] = x
  BY <1>1 DEF x
<1>3. \A i \in DOMAIN out' : i \in DOMAIN out \/ out'[i].turn = 0
  BY <1>1, <1>2
<1>4. PumpTypes'
  <2>1. \A i \in DOMAIN out' : out'[i].turn <= Len(turns)
    BY <1>2, <1>3 DEF PumpInv, PumpTypes, MainInv
  <2> QED BY <2>1 DEF PumpInv, PumpTypes, PumpKept
<1>5. TerminalCuts'
  <2> SUFFICES ASSUME NEW i \in DOMAIN out', NEW j \in DOMAIN out', i < j, IsTerminal(out'[i]),
                      out'[j].turn # NoTurn, out'[j].turn \notin erred'
               PROVE  ~Seen(out[j].turn)' /\ Before(i, out[j].turn)'
    BY DEF TerminalCuts, IsTerminal
  <2>1. /\ i \in DOMAIN out /\ j \in DOMAIN out /\ out'[i] = out[i] /\ out'[j] = out[j]
        /\ out[j].turn \notin erred
    BY <1>1, <1>2, <1>3 DEF PumpKept
  <2>2. ~Seen(out[j].turn) /\ Before(i, out[j].turn)
    BY <2>1 DEF PumpInv, TerminalCuts
  <2>3. \A k \in 1..i : out'[k] = out[k]
    BY <2>1, <1>2
  <2> QED BY <2>1, <2>2, <2>3 DEF Seen, Before, PumpKept
<1>6. UnderWayIsNew'
  BY DEF UnderWayIsNew
<1>7. SeenIsKnown'
  <2>1. ASSUME NEW t \in DOMAIN claimed, Done(t) PROVE Done(t)'
    <3>1. t # 0
      BY DEF PumpInv, PumpTypes
    <3> QED BY <2>1, <3>1, <1>2, <1>3 DEF Done
  <2> QED BY <2>1 DEF PumpInv, SeenIsKnown, PumpKept, Get
<1> QED BY <1>4, <1>5, <1>6, <1>7, KeptParts DEF PumpInv

(* What forgetting an execution does to the pump's map. *)
LEMMA ForgetIs ==
    ASSUME NEW e, turnOf \in [DOMAIN turnOf -> Execs]
    PROVE  /\ DOMAIN Forget(e) \subseteq DOMAIN turnOf
           /\ Forget(e) \in [DOMAIN Forget(e) -> Execs]
           /\ \A t \in DOMAIN Forget(e) : Forget(e)[t] = turnOf[t]
           /\ \A t \in DOMAIN turnOf : turnOf[t] # e => t \in DOMAIN Forget(e)
BY DEF Forget

(* A map has an execution for exactly the turns it knows. *)
LEMMA GetIs ==
    ASSUME NEW map, map \in [DOMAIN map -> Execs], NEW t
    PROVE  /\ Get(map, t) = 0 <=> t \notin DOMAIN map
           /\ t \in DOMAIN map => Get(map, t) = map[t] /\ map[t] \in Execs
BY DEF Get, Execs

(* To whom the pump attributes the line it reads. *)
Stored == Attributed(Head(out)) # 0 /\ exec[Attributed(Head(out))] # "queued"

(* A line is attributed to the active execution, and only if the pump knows no
   other for its turn. *)
LEMMA AttributedIs ==
    ASSUME NEW l, Attributed(l) # 0
    PROVE  /\ Attributed(l) = Active /\ Active \in Execs /\ Active \in Pending
           /\ Get(turnOf, l.turn) \in {0, Attributed(l)}
BY ActiveIs DEF Attributed

(* The rest of the server's stdout. *)
LEMMA PumpReads ==
    ASSUME ServerTypes, Pump
    PROVE  /\ Len(out) \in Nat \ {0} /\ DOMAIN out = 1..Len(out)
           /\ DOMAIN out' = 1..(Len(out) - 1) /\ Head(out) = out[1]
           /\ \A i \in DOMAIN out' : i + 1 \in DOMAIN out /\ out'[i] = out[i + 1]
<1>1. out \in Seq(Notices) /\ out # <<>> /\ out' = Tail(out)
  BY DEF ServerTypes, Pump
<1>2. /\ out' \in Seq(Notices) /\ Len(out') = Len(out) - 1
      /\ \A i \in 1..Len(out') : out'[i] = out[i + 1]
      /\ Len(out) \in Nat \ {0} /\ DOMAIN out = 1..Len(out) /\ Head(out) = out[1]
      /\ DOMAIN out' = 1..Len(out')
  BY <1>1, HeadTailProperties, EmptySeq, LenProperties
<1> QED BY <1>2

(* A turn that the pump has read from has no more to come after a terminal line,
   unless it wrote an error line. *)
LEMMA TerminalEnds ==
    ASSUME PumpInv, ServerTypes, Pump, IsTerminal(Head(out)),
           NEW t, t # NoTurn, t \notin erred, Seen(t) \/ Head(out).turn = t
    PROVE  Done(t)'
<1>1. /\ Len(out) \in Nat \ {0} /\ DOMAIN out = 1..Len(out)
      /\ DOMAIN out' = 1..(Len(out) - 1) /\ Head(out) = out[1]
      /\ \A i \in DOMAIN out' : i + 1 \in DOMAIN out /\ out'[i] = out[i + 1]
  BY PumpReads
<1>2. 1 \in DOMAIN out /\ IsTerminal(out[1]) /\ ~(~Seen(t) /\ Before(1, t))
  BY <1>1 DEF Before
<1>3. ASSUME NEW i \in DOMAIN out' PROVE out'[i].turn # t
  <2>1. i + 1 \in DOMAIN out /\ 1 < i + 1 /\ out'[i] = out[i + 1]
    BY <1>1
  <2> QED BY <1>2, <2>1 DEF PumpInv, TerminalCuts
<1>4. ~(UnderWay /\ main.turn = t) /\ main' = main
  BY <1>2 DEF PumpInv, UnderWayIsNew, Pump, serverVars
<1> QED BY <1>3, <1>4 DEF Done, UnderWay

(* What the pump remembers after a line. *)
LEMMA PumpClaims ==
    ASSUME PumpInv, ServerTypes, Pump
    PROVE  LET t == Head(out).turn
               e == Attributed(Head(out))
           IN /\ claimed' \in [DOMAIN claimed' -> Execs]
              /\ DOMAIN claimed \subseteq DOMAIN claimed'
              /\ \A u \in DOMAIN claimed : claimed'[u] = claimed[u]
              /\ \A u \in DOMAIN claimed' \ DOMAIN claimed :
                   u = t /\ t # NoTurn /\ Stored /\ claimed'[u] = e
              /\ Stored /\ t # NoTurn => t \in DOMAIN claimed'
<1> DEFINE t == Head(out).turn
           e == Attributed(Head(out))
<1>1. claimed \in [DOMAIN claimed -> Execs]
  BY DEF PumpInv, PumpTypes
<1>2. claimed' = IF Stored /\ t # NoTurn /\ Get(claimed, t) = 0
                   THEN Insert(claimed, t, e) ELSE claimed
  BY DEF Pump, Stored
<1>3. Get(claimed, t) = 0 <=> t \notin DOMAIN claimed
  BY <1>1, GetIs
<1>4. Stored => e \in Execs
  BY AttributedIs DEF Stored
<1> HIDE DEF t, e
<1>5. CASE Stored /\ t # NoTurn /\ t \notin DOMAIN claimed
  <2>1. claimed' = Insert(claimed, t, e) /\ e \in Execs
    BY <1>2, <1>3, <1>4, <1>5
  <2>2. /\ DOMAIN claimed' = DOMAIN claimed \cup {t} /\ claimed' \in [DOMAIN claimed' -> Execs]
        /\ claimed'[t] = e /\ \A u \in DOMAIN claimed \ {t} : claimed'[u] = claimed[u]
    BY <1>1, <2>1 DEF Insert
  <2> QED BY <1>5, <2>2 DEF t, e
<1>6. CASE ~(Stored /\ t # NoTurn /\ t \notin DOMAIN claimed)
  <2>1. claimed' = claimed
    BY <1>2, <1>3, <1>6
  <2> QED BY <1>1, <1>6, <2>1 DEF t, e
<1> QED BY <1>5, <1>6

(* A turn keeps its execution unless the execution is forgotten, for a terminal line. *)
LEMMA PumpKnows ==
    ASSUME PumpInv, ServerTypes, Pump
    PROVE  LET l == Head(out)
               e == Attributed(l)
           IN /\ turnOf' \in [DOMAIN turnOf' -> Execs]
              /\ \A u \in DOMAIN turnOf' :
                   \/ u \in DOMAIN turnOf /\ turnOf'[u] = turnOf[u]
                   \/ Stored /\ turnOf'[u] = e
              /\ \A u \in DOMAIN turnOf :
                   \/ u \in DOMAIN turnOf' /\ turnOf'[u] = turnOf[u]
                   \/ IsTerminal(l)
                   \/ Stored /\ u = l.turn
              /\ Stored /\ ~IsTerminal(l) => l.turn \in DOMAIN turnOf' /\ turnOf'[l.turn] = e
<1> DEFINE l == Head(out)
           e == Attributed(l)
           known == Get(turnOf, l.turn)
<1>1. turnOf \in [DOMAIN turnOf -> Execs]
  BY DEF PumpInv, PumpTypes
<1>2. turnOf' = CASE e = 0 /\ IsTerminal(l) /\ known # 0 -> Forget(known)
                  [] e # 0 /\ (IsTerminal(l) \/ ~Stored) -> Forget(e)
                  [] Stored /\ ~IsTerminal(l) -> Insert(turnOf, l.turn, e)
                  [] OTHER -> turnOf
  BY DEF Pump, Stored
<1>3. (Stored => e \in Execs /\ e # 0) /\ (e # 0 /\ ~Stored => exec[e] = "queued")
  BY AttributedIs DEF Stored
<1> HIDE DEF l, e, known
<1>4. CASE Stored /\ ~IsTerminal(l)
  <2>1. turnOf' = Insert(turnOf, l.turn, e) /\ e \in Execs
    BY <1>2, <1>3, <1>4
  <2>2. /\ DOMAIN turnOf' = DOMAIN turnOf \cup {l.turn} /\ turnOf' \in [DOMAIN turnOf' -> Execs]
        /\ turnOf'[l.turn] = e /\ \A u \in DOMAIN turnOf \ {l.turn} : turnOf'[u] = turnOf[u]
    BY <1>1, <2>1 DEF Insert
  <2> QED BY <1>4, <2>2 DEF l, e
<1>5. CASE IsTerminal(l)
  <2>1. PICK d : turnOf' = Forget(d) \/ turnOf' = turnOf
    BY <1>2, <1>3, <1>5
  <2>2. /\ turnOf' \in [DOMAIN turnOf' -> Execs] /\ DOMAIN turnOf' \subseteq DOMAIN turnOf
        /\ \A u \in DOMAIN turnOf' : turnOf'[u] = turnOf[u]
    BY <1>1, <2>1, ForgetIs
  <2> QED BY <1>5, <2>2 DEF l, e
<1>6. CASE ~Stored /\ ~IsTerminal(l)
  <2>1. turnOf' = turnOf \/ (turnOf' = Forget(e) /\ exec[e] = "queued")
    BY <1>2, <1>3, <1>6
  <2>2. exec[e] = "queued" => \A u \in DOMAIN turnOf : turnOf[u] # e
    BY DEF PumpInv, KnownWasClaimed
  <2>3. /\ turnOf' \in [DOMAIN turnOf' -> Execs] /\ DOMAIN turnOf' = DOMAIN turnOf
        /\ \A u \in DOMAIN turnOf' : turnOf'[u] = turnOf[u]
    BY <1>1, <2>1, <2>2, ForgetIs
  <2> QED BY <1>6, <2>3 DEF l, e
<1> QED BY <1>4, <1>5, <1>6

(* If the turn of the line was known before, then to whom the line is attributed. *)
LEMMA PumpAgrees ==
    ASSUME PumpInv, ServerTypes, Pump, Stored, Seen(Head(out).turn)
    PROVE  claimed[Head(out).turn] = Attributed(Head(out)) \/ Head(out).turn \in erred
<1> DEFINE t == Head(out).turn
<1>1. /\ turnOf \in [DOMAIN turnOf -> Execs] /\ claimed \in [DOMAIN claimed -> Execs]
      /\ t \in DOMAIN claimed
  BY DEF PumpInv, PumpTypes, Seen
<1>2. ~Done(t)
  BY PumpReads DEF Done
<1>3. Get(turnOf, t) = claimed[t] \/ t \in erred
  BY <1>1, <1>2 DEF PumpInv, SeenIsKnown
<1>4. Get(turnOf, t) \in {0, Attributed(Head(out))}
  BY AttributedIs DEF Stored
<1>5. claimed[t] # 0
  BY <1>1 DEF Execs
<1> QED BY <1>3, <1>4, <1>5

(* The pump reads a line: the invariant of attribution is preserved. *)
LEMMA PumpHolds ==
    ASSUME PumpInv, MainInv, ServerTypes, Pump
    PROVE  PumpInv'
<1> DEFINE l == Head(out)
           t == l.turn
           e == Attributed(l)
<1>1. /\ Len(out) \in Nat \ {0} /\ DOMAIN out = 1..Len(out)
      /\ DOMAIN out' = 1..(Len(out) - 1) /\ l = out[1] /\ l \in Notices
      /\ \A i \in DOMAIN out' : i + 1 \in DOMAIN out /\ out'[i] = out[i + 1]
  <2>1. 1 \in DOMAIN out /\ Head(out) = out[1]
    BY PumpReads
  <2> QED BY <2>1, PumpReads, OutLines
<1>2. /\ claimed' \in [DOMAIN claimed' -> Execs] /\ DOMAIN claimed \subseteq DOMAIN claimed'
      /\ \A u \in DOMAIN claimed : claimed'[u] = claimed[u]
      /\ \A u \in DOMAIN claimed' \ DOMAIN claimed :
           u = t /\ t # NoTurn /\ Stored /\ claimed'[u] = e
      /\ Stored /\ t # NoTurn => t \in DOMAIN claimed'
  BY PumpClaims
<1>3. /\ turnOf' \in [DOMAIN turnOf' -> Execs]
      /\ \A u \in DOMAIN turnOf' :
           \/ u \in DOMAIN turnOf /\ turnOf'[u] = turnOf[u]
           \/ Stored /\ turnOf'[u] = e
      /\ \A u \in DOMAIN turnOf :
           \/ u \in DOMAIN turnOf' /\ turnOf'[u] = turnOf[u]
           \/ IsTerminal(l)
           \/ Stored /\ u = t
      /\ Stored /\ ~IsTerminal(l) => t \in DOMAIN turnOf' /\ turnOf'[t] = e
  BY PumpKnows
<1>4. Stored => e \in Execs /\ exec[e] \in {"claimed", "running"}
  BY AttributedIs DEF Stored, Pending
<1>5. /\ IF Stored /\ IsTerminal(l)
           THEN /\ exec' = [exec EXCEPT ![e] = "ended"]
                /\ endedBy' = [endedBy EXCEPT ![e] = t]
           ELSE UNCHANGED <<exec, endedBy>>
      /\ UNCHANGED <<main, turns, erred>>
  BY DEF Pump, Stored, serverVars
<1>6. /\ exec \in [Execs -> {"absent", "queued", "claimed", "running", "ended", "expired"}]
      /\ endedBy \in [Execs -> Nat] /\ t \in Nat /\ t <= Len(turns) /\ Len(turns) \in Nat
      /\ DOMAIN claimed \subseteq 1..Len(turns)
      /\ \A i \in DOMAIN out : out[i].turn <= Len(turns)
  <2>1. t \in Nat
    BY <1>1 DEF Notices
  <2>2. 1 \in DOMAIN out
    BY <1>1
  <2> QED BY <1>1, <2>1, <2>2 DEF PumpInv, PumpTypes, MainInv
<1>7. ASSUME NEW u, u # NoTurn, u \notin erred, Seen(u) \/ t = u, IsTerminal(l)
      PROVE  Done(u)'
  BY <1>7, TerminalEnds
<1>8. \A u : Done(u) => Done(u)'
  BY <1>1, <1>5 DEF Done, UnderWay
<1>9. Stored /\ Seen(t) => claimed[t] = e \/ t \in erred
  BY PumpAgrees
<1> HIDE DEF l, t, e
<1>10. PumpTypes'
  <2>1. exec' \in [Execs -> {"absent", "queued", "claimed", "running", "ended", "expired"}]
    BY <1>4, <1>5, <1>6
  <2>2. endedBy' \in [Execs -> Nat]
    BY <1>4, <1>5, <1>6
  <2>3. DOMAIN claimed' \subseteq 1..Len(turns)
    BY <1>2, <1>6 DEF NoTurn
  <2>4. \A i \in DOMAIN out' : out'[i].turn <= Len(turns)
    BY <1>1, <1>6
  <2> QED BY <2>1, <2>2, <2>3, <2>4, <1>2, <1>3, <1>5 DEF PumpTypes
<1>11. TerminalCuts'
  <2> SUFFICES ASSUME NEW i \in DOMAIN out', NEW j \in DOMAIN out', i < j, IsTerminal(out'[i]),
                      out'[j].turn # NoTurn, out'[j].turn \notin erred'
               PROVE  ~Seen(out[j].turn)' /\ Before(i, out[j].turn)'
    BY DEF TerminalCuts, IsTerminal
  <2>1. /\ i + 1 \in DOMAIN out /\ j + 1 \in DOMAIN out /\ i + 1 < j + 1
        /\ out'[i] = out[i + 1] /\ out'[j] = out[j + 1]
    BY <1>1
  <2>2. ~Seen(out[j + 1].turn) /\ Before(i + 1, out[j + 1].turn)
    BY <2>1, <1>5 DEF PumpInv, TerminalCuts
  <2>3. t # out[j + 1].turn
    BY <2>1, <2>2, <1>1 DEF Before, t
  <2>4. ASSUME NEW k \in 1..i PROVE out'[k].turn # out[j + 1].turn
    BY <2>1, <2>2, <1>1 DEF Before
  <2> QED BY <2>1, <2>2, <2>3, <2>4, <1>2 DEF Seen, Before
<1>12. UnderWayIsNew'
  <2> SUFFICES ASSUME UnderWay, NEW i \in DOMAIN out', IsTerminal(out'[i])
               PROVE  ~Seen(main.turn)' /\ Before(i, main.turn)'
    BY <1>5 DEF UnderWayIsNew, IsTerminal, UnderWay
  <2>1. i + 1 \in DOMAIN out /\ out'[i] = out[i + 1]
    BY <1>1
  <2>2. ~Seen(main.turn) /\ Before(i + 1, main.turn)
    BY <2>1 DEF PumpInv, UnderWayIsNew
  <2>3. t # main.turn
    BY <2>1, <2>2, <1>1 DEF Before, t
  <2>4. ASSUME NEW k \in 1..i PROVE out'[k].turn # main.turn
    BY <2>1, <2>2, <1>1 DEF Before
  <2> QED BY <2>2, <2>3, <2>4, <1>2, <1>5 DEF Seen, Before
<1>13. SeenIsKnown'
  <2> SUFFICES ASSUME NEW u \in DOMAIN claimed'
               PROVE  Get(turnOf', u) = claimed'[u] \/ u \in erred \/ Done(u)'
    BY <1>5 DEF SeenIsKnown, Get
  <2>1. u # NoTurn
    BY <1>2, <1>6 DEF NoTurn
  <2>2. CASE u \notin DOMAIN claimed
    <3>1. u = t /\ Stored /\ claimed'[u] = e
      BY <1>2, <2>2
    <3> QED BY <3>1, <2>1, <1>3, <1>7 DEF Get
  <2>3. CASE u \in DOMAIN claimed
    <3>1. claimed'[u] = claimed[u] /\ claimed[u] \in Execs /\ Seen(u)
      BY <1>2, <2>3 DEF Seen
    <3>2. Get(turnOf, u) = claimed[u] \/ u \in erred \/ Done(u)
      BY <2>3 DEF PumpInv, SeenIsKnown
    <3>3. CASE IsTerminal(l)
      BY <3>1, <2>1, <3>3, <1>7
    <3>4. CASE ~IsTerminal(l) /\ Get(turnOf, u) = claimed[u]
      <4>1. u \in DOMAIN turnOf /\ turnOf[u] = claimed[u]
        BY <3>1, <3>4 DEF Get, Execs
      <4>2. CASE u = t /\ Stored
        BY <4>2, <3>1, <3>4, <1>3, <1>9 DEF Get
      <4>3. CASE u \in DOMAIN turnOf' /\ turnOf'[u] = turnOf[u]
        BY <4>1, <4>3, <3>1 DEF Get
      <4> QED BY <4>1, <4>2, <4>3, <3>4, <1>3
    <3> QED BY <3>2, <3>3, <3>4, <1>8
  <2> QED BY <2>2, <2>3
<1>14. KnownWasClaimed'
  BY <1>3, <1>4, <1>5, <1>6 DEF PumpInv, PumpTypes, KnownWasClaimed
<1>15. KnownTurnEndsItsOwn'
  <2> SUFFICES ASSUME NEW d \in Execs, endedBy'[d] # 0
               PROVE  Get(claimed', endedBy'[d]) = d \/ endedBy'[d] \in erred
    BY <1>5 DEF KnownTurnEndsItsOwn, Get
  <2>1. CASE endedBy'[d] = endedBy[d]
    BY <2>1, <1>2 DEF PumpInv, KnownTurnEndsItsOwn, Get, Execs
  <2>2. CASE endedBy'[d] # endedBy[d]
    <3>1. d = e /\ Stored /\ endedBy'[d] = t /\ t # NoTurn
      BY <2>2, <1>5, <1>6 DEF NoTurn
    <3> QED BY <3>1, <1>2, <1>9 DEF Get, Seen
  <2> QED BY <2>1, <2>2
<1> QED BY <1>10, <1>11, <1>12, <1>13, <1>14, <1>15 DEF PumpInv

(* A step that touches neither executions nor what the pump knows. *)
LEMMA SameKept ==
    ASSUME PumpInv, UNCHANGED <<exec, endedBy, turnOf, claimed>>, erred \subseteq erred'
    PROVE  PumpKept
BY DEF PumpInv, PumpTypes, PumpKept

(* The life of an execution is independent of what it writes, but for its end. *)
LEMMA RequestsPump ==
    ASSUME PumpInv, Requests
    PROVE  PumpInv'
<1>1. UNCHANGED <<turnOf, claimed, endedBy, erred, out, turns, main>>
  BY DEF Requests, Accept, Claim, Deliver, Expire, ReadActive, WritePost, PostFails,
         serverVars, pumpVars
<1>2. exec \in [Execs -> {"absent", "queued", "claimed", "running", "ended", "expired"}]
  BY DEF PumpInv, PumpTypes
<1>3. \/ exec' = exec
      \/ \E e \in Execs : \/ exec[e] = "absent" /\ exec' = [exec EXCEPT ![e] = "queued"]
                          \/ exec' = [exec EXCEPT ![e] = "claimed"]
                          \/ exec' = [exec EXCEPT ![e] = "running"]
                          \/ exec' = [exec EXCEPT ![e] = "expired"]
  BY DEF Requests, Accept, Claim, Deliver, Expire, ReadActive, WritePost, PostFails
<1>4. PumpKept
  BY <1>1, <1>2, <1>3 DEF PumpKept
<1> QED BY <1>1, <1>4, LeavesPump DEF Leaves, UnderWay

(* Between two turns. *)
LEMMA BetweenPump ==
    ASSUME PumpInv, MainInv, ServerTypes, commands \in Seq(Lines),
           ReadLine \/ SendLine \/ Receive \/ ClearFlag \/ Drain
    PROVE  PumpInv'
<1>1. PumpKept
  BY SameKept DEF ReadLine, SendLine, Receive, ClearFlag, Drain, runtimeVars, serverVars, pumpVars
<1>2. CASE ReadLine \/ SendLine \/ ClearFlag
  <2>1. Leaves
    BY <1>1, <1>2 DEF ReadLine, SendLine, ClearFlag, serverVars, Leaves, UnderWay, MainInv, Mains
  <2> QED BY <2>1, LeavesPump
<1>3. CASE Receive
  <2>1. CASE NewTurn
    <3>1. out' = out
      <4>1. main' # main
        BY <1>3, <2>1 DEF Receive, NewTurn
      <4> QED BY <4>1, <1>3 DEF Receive
    <3> QED BY <1>1, <2>1, <3>1, OpensPump
  <2>2. CASE SameTurn /\ main' = main
    <3>1. ~UnderWay /\ ~UnderWay' /\ turns' = turns
      BY <1>3, <2>2 DEF Receive, UnderWay, SameTurn
    <3>2. out' = out \/ out' = Append(out, Notice("error", NoTurn))
      BY <1>3 DEF Receive
    <3> QED BY <1>1, <3>1, <3>2, LeavesPump, ReportsPump DEF Leaves
  <2> QED BY <1>3, <2>1, <2>2, ReceiveMain
<1>4. CASE Drain
  <2>1. ~UnderWay' /\ turns' = turns
    BY <1>4 DEF Drain, UnderWay, MainInv, Mains
  <2>2. out' = out \/ out' = Append(out, Notice("error", NoTurn))
    BY <1>4 DEF Drain
  <2> QED BY <1>1, <2>1, <2>2, LeavesPump, ReportsPump DEF Leaves
<1> QED BY <1>2, <1>3, <1>4

(* The lines a turn may write in one step, and the turn they are of. *)
LEMMA LinesOfTurn ==
    ASSUME MainInv
    PROVE  /\ <<Started>> \in Seq(Notices) /\ <<Completed>> \in Seq(Notices)
           /\ <<Error, Completed>> \in Seq(Notices)
           /\ <<Started, Error, Completed>> \in Seq(Notices)
           /\ <<>> \o <<Completed>> = <<Completed>>
           /\ <<Error>> \o <<Completed>> = <<Error, Completed>>
           /\ \A l \in Elements(<<Started>>) : l.turn = main.turn /\ ~IsTerminal(l)
           /\ \A l \in Elements(<<Completed>>) : l.turn = main.turn
           /\ \A l \in Elements(<<Error, Completed>>) : l.turn = main.turn
           /\ \A l \in Elements(<<Started, Error, Completed>>) : l.turn = main.turn
           /\ Len(<<Completed>>) = 1
<1>1. /\ Started \in Notices /\ Error \in Notices /\ Completed \in Notices
      /\ Started.turn = main.turn /\ Error.turn = main.turn /\ Completed.turn = main.turn
      /\ ~IsTerminal(Started)
  BY TurnNotices
<1>2. <<>> \o <<Completed>> = <<Completed>> /\ <<Error>> \o <<Completed>> = <<Error, Completed>>
  BY <1>1, PairIs
<1>3. /\ Elements(<<Started>>) = {Started} /\ Elements(<<Completed>>) = {Completed}
      /\ Elements(<<Error, Completed>>) \subseteq {Error, Completed}
      /\ Elements(<<Started, Error, Completed>>) \subseteq {Started, Error, Completed}
  BY DEF Elements
<1> QED BY <1>1, <1>2, <1>3

(* A turn of a command-line harness. *)
LEMMA CliPump ==
    ASSUME PumpInv, MainInv, ServerTypes, CliNext
    PROVE  PumpInv'
<1>1. UNCHANGED <<exec, endedBy, turnOf, claimed>> /\ erred \subseteq erred' /\ turns' = turns
  <2>1. UNCHANGED <<exec, endedBy, turnOf, claimed>>
    BY DEF CliNext, CliServer, ChildStep, TakeInput, AgentDrops, AgentNotifies, Answer, Stop,
           Result, Launch, Fail, Exit, StartCli, InterruptCli, ReadChild, Stall, Settle,
           Disconnected, FailTurn, ChildOnly, Unmoved, runtimeVars, pumpVars
  <2>2. erred \subseteq erred'
    BY DEF CliNext, CliServer, ChildStep, TakeInput, AgentDrops, AgentNotifies, Answer, Stop,
           Result, Launch, Fail, Exit, StartCli, InterruptCli, ReadChild, Stall, Settle,
           Disconnected, FailTurn, ChildOnly
  <2> QED BY <2>1, <2>2, CliMain DEF SameTurn
<1>2. PumpKept
  BY <1>1, SameKept
<1>3. CASE ChildStep \/ Launch \/ Fail \/ Exit
  <2>1. out' = out /\ main' = main
    BY <1>3 DEF ChildStep, TakeInput, AgentDrops, AgentNotifies, Answer, Stop, Result, Launch,
                Fail, Exit, ChildOnly
  <2> QED BY <1>1, <1>2, <2>1, LeavesPump DEF Leaves, UnderWay
<1>4. CASE CliServer
  <2>1. UnderWay
    BY <1>4 DEF CliServer, StartCli, InterruptCli, ReadChild, Stall, Settle, Disconnected,
                Quiet, InLoop, UnderWay
  <2>2. main.turn \in Nat /\ main \in Mains
    BY DEF MainInv, Mains
  <2>3. \A q \in {"loop", "clear"} : main' = [main EXCEPT !.pc = q]
                                      => main'.pc = q /\ main'.turn = main.turn
    BY <2>2 DEF Mains
  <2>4. \/ out' = out /\ main' = main
        \/ out' = out \o <<Started>> /\ main' = [main EXCEPT !.pc = "loop"]
        \/ /\ main' = [main EXCEPT !.pc = "clear"]
           /\ \/ out' = out \o <<Completed>>
              \/ out' = out \o <<Error, Completed>> /\ main.turn \in erred'
              \/ out' = out \o <<Started, Error, Completed>> /\ main.turn \in erred'
    BY <1>4, LinesOfTurn
       DEF CliServer, StartCli, InterruptCli, ReadChild, Stall, Settle, Disconnected, FailTurn, Put
  <2>5. CASE out' = out /\ main' = main
    BY <1>1, <1>2, <2>5, LeavesPump DEF Leaves, UnderWay
  <2>6. CASE out' = out \o <<Started>> /\ main' = [main EXCEPT !.pc = "loop"]
    <3>1. Writes(<<Started>>)
      BY <1>1, <1>2, <2>1, <2>3, <2>6, LinesOfTurn DEF Writes
    <3> QED BY <3>1, LinesOfTurn, WritesPump
  <2>7. CASE main' = [main EXCEPT !.pc = "clear"] /\ out' = out \o <<Completed>>
    <3>1. Writes(<<Completed>>)
      BY <1>1, <1>2, <2>1, <2>3, <2>7, LinesOfTurn DEF Writes, UnderWay
    <3> QED BY <3>1, LinesOfTurn, WritesPump
  <2>8. CASE /\ main' = [main EXCEPT !.pc = "clear"] /\ main.turn \in erred'
             /\ out' = out \o <<Error, Completed>>
    <3>1. Writes(<<Error, Completed>>)
      BY <1>1, <1>2, <2>1, <2>3, <2>8, LinesOfTurn DEF Writes, UnderWay
    <3> QED BY <3>1, LinesOfTurn, WritesPump
  <2>9. CASE /\ main' = [main EXCEPT !.pc = "clear"] /\ main.turn \in erred'
             /\ out' = out \o <<Started, Error, Completed>>
    <3>1. Writes(<<Started, Error, Completed>>)
      BY <1>1, <1>2, <2>1, <2>3, <2>9, LinesOfTurn DEF Writes, UnderWay
    <3> QED BY <3>1, LinesOfTurn, WritesPump
  <2> QED BY <2>4, <2>5, <2>6, <2>7, <2>8, <2>9
<1> QED BY <1>3, <1>4 DEF CliNext

(* A turn of codex. *)
LEMMA CodexPump ==
    ASSUME PumpInv, MainInv, ServerTypes, CodexNext
    PROVE  PumpInv'
<1>1. UNCHANGED <<exec, endedBy, turnOf, claimed>> /\ erred \subseteq erred'
  <2>1. UNCHANGED <<exec, endedBy, turnOf, claimed>>
    BY DEF CodexNext, AppStep, CodexServer, AppTakes, AppStreams, AppEnds, StartCodex,
           ForwardInterrupt, ForwardSteer, ReadCodex, AppGone, AppExits,
           AppServer, Fixed, runtimeVars, pumpVars
  <2>2. erred \subseteq erred'
    BY DEF CodexNext, AppStep, CodexServer, AppTakes, AppStreams, AppEnds, StartCodex,
           ForwardInterrupt, ForwardSteer, ReadCodex, AppGone, AppExits, AppServer,
           EndCodexTurn, Retry
  <2> QED BY <2>1, <2>2
<1>2. PumpKept
  BY <1>1, SameKept
<1>3. CASE CodexNext /\ ~ReadCodex
  <2>1. out' = out /\ turns' = turns
    BY <1>3 DEF CodexNext, AppStep, CodexServer, AppTakes, AppStreams, AppEnds, StartCodex,
                ForwardInterrupt, ForwardSteer, AppGone, AppExits, AppServer
  <2>2. UnderWay' => UnderWay /\ main'.turn = main.turn
    BY <1>3 DEF CodexNext, AppStep, CodexServer, AppTakes, AppStreams, AppEnds, StartCodex,
                ForwardInterrupt, ForwardSteer, AppGone, AppExits, AppServer, InTurn,
                UnderWay, MainInv, Mains
  <2> QED BY <1>2, <2>1, <2>2, LeavesPump DEF Leaves
<1>4. CASE ReadCodex
  <2>1. UnderWay /\ main.pc = "loop" /\ main \in Mains
    BY <1>4 DEF ReadCodex, InTurn, UnderWay, MainInv
  <2>2. CASE Retry
    BY <2>1, <2>2, <1>2, RetryMain, OpensPump DEF Retry
  <2>3. CASE ~Retry
    <3>1. turns' = turns
      BY <1>4, <2>3 DEF ReadCodex, EndCodexTurn
    <3>2. \/ out' = out /\ main' = main
          \/ out' = out /\ main' = [main EXCEPT !.pc = "clear", !.failed = TRUE]
          \/ out' = Append(out, Started) /\ main' = main
          \/ \E w : /\ out' = Append(out, Notice(w, main.turn))
                    /\ main' = [main EXCEPT !.pc = "clear"] /\ w \in Words
      <4>1. Head(pipe).what \in Words
        <5>1. pipe \in Seq(Notices) /\ pipe # <<>>
          BY <1>4 DEF ServerTypes, ReadCodex
        <5>2. Head(pipe) \in Notices
          BY <5>1, ElementsTail
        <5> QED BY <5>2 DEF Notices
      <4> QED BY <1>4, <2>3, <4>1, AllWords DEF ReadCodex, EndCodexTurn, InScope, Started
    <3>3. CASE out' = out
      <4>1. UnderWay' => main'.turn = main.turn
        BY <2>1, <3>2, <3>3 DEF UnderWay, Mains
      <4> QED BY <1>2, <2>1, <3>1, <3>3, <4>1, LeavesPump DEF Leaves
    <3>4. CASE out' = Append(out, Started) /\ main' = main
      <4>1. out' = out \o <<Started>> /\ <<Started>> \in Seq(Notices)
        BY <3>4, LinesOfTurn, TurnNotices DEF ServerTypes
      <4>2. Writes(<<Started>>)
        BY <1>2, <2>1, <3>1, <3>4, <4>1, LinesOfTurn DEF Writes
      <4> QED BY <4>1, <4>2, WritesPump
    <3>5. ASSUME NEW w \in Words, out' = Append(out, Notice(w, main.turn)),
                 main' = [main EXCEPT !.pc = "clear"]
          PROVE  PumpInv'
      <4> DEFINE x == Notice(w, main.turn)
      <4>1. x \in Notices /\ x.turn = main.turn
        BY NoticeIs DEF MainInv, Mains, Notice
      <4> HIDE DEF x
      <4>2. out' = out \o <<x>> /\ <<x>> \in Seq(Notices) /\ Len(<<x>>) = 1
        BY <3>5, <4>1 DEF x, ServerTypes
      <4>3. \A l \in Elements(<<x>>) : l.turn = main.turn
        BY <4>1 DEF Elements
      <4>4. ~UnderWay'
        BY <2>1, <3>5 DEF UnderWay, Mains
      <4>5. Writes(<<x>>)
        BY <1>2, <2>1, <3>1, <4>2, <4>3, <4>4 DEF Writes
      <4> QED BY <4>2, <4>5, WritesPump
    <3> QED BY <3>2, <3>3, <3>4, <3>5
  <2> QED BY <2>2, <2>3
<1> QED BY <1>3, <1>4

(* At the start nothing was written and nothing attributed. *)
LEMMA PumpInit == Init => PumpInv /\ ServerTypes
<1> SUFFICES ASSUME Init PROVE PumpInv /\ ServerTypes
  OBVIOUS
<1>1. /\ turnOf = NoMap /\ claimed = NoMap /\ out = <<>> /\ main.pc = "idle"
      /\ endedBy = [e \in Execs |-> 0] /\ exec = [e \in Execs |-> "absent"]
  BY DEF Init
<1>2. DOMAIN NoMap = {} /\ NoMap \in [DOMAIN NoMap -> Execs] /\ DOMAIN out = {}
  BY <1>1 DEF NoMap
<1>3. PumpTypes
  BY <1>1, <1>2 DEF PumpTypes
<1>4. TerminalCuts /\ UnderWayIsNew /\ SeenIsKnown /\ KnownWasClaimed /\ KnownTurnEndsItsOwn
  BY <1>1, <1>2 DEF TerminalCuts, UnderWayIsNew, SeenIsKnown, KnownWasClaimed,
                    KnownTurnEndsItsOwn
<1>5. ServerTypes
  BY FreshTypes DEF Init, ServerTypes
<1> QED BY <1>3, <1>4, <1>5 DEF PumpInv

(* The invariant of attribution is preserved by every step. *)
LEMMA PumpStep ==
    ASSUME PumpInv, MainInv, ServerTypes, commands \in Seq(Lines), [Next]_vars
    PROVE  PumpInv'
<1>1. CASE UNCHANGED vars
  <2>1. PumpKept
    BY <1>1, SameKept DEF vars, runtimeVars, serverVars, pumpVars
  <2> QED BY <1>1, <2>1, LeavesPump DEF vars, serverVars, Leaves, UnderWay
<1> QED BY <1>1, RequestsPump, BetweenPump, CliPump, CodexPump, PumpHolds DEF Next

(* The state of the server is of its types, and what the pump knows fits it. *)
LEMMA PumpInductive == Spec => [](PumpInv /\ ServerTypes)
<1>1. (PumpInv /\ ServerTypes) /\ (InputInv /\ MainInv) /\ [Next]_vars
        => (PumpInv /\ ServerTypes)'
  BY PumpStep, TypesStep DEF InputInv
<1> QED BY <1>1, PumpInit, InputInductive, PTL DEF Spec

(* The output of a turn that was attributed to one execution does not end another,
   whatever timers, retries, interrupts and late lines do in between, unless the turn
   wrote an error line (StdoutPumpState::execution_for_line and forget). *)
THEOREM KnownTurnKeeps == Spec => []KnownTurnEndsItsOwn
<1>1. PumpInv => KnownTurnEndsItsOwn
  BY DEF PumpInv
<1> QED BY <1>1, PumpInductive, PTL

-----------------------------------------------------------------------------
(* The process of a command-line harness.                                  *)

(* What a turn that has seen so many lines takes the background agent to be. *)
Shows(v, a) ==
  IF a = "noted" THEN v.awaiting /\ v.agent = "none" ELSE ~v.awaiting /\ v.agent = a

(* What a line says of the background agent. *)
Moves(a, what, b) ==
  CASE what = "task" -> a = "none" /\ b = "live"
    [] what = "gone" -> a = "live" /\ b = "gone"
    [] what = "note" -> a \in {"live", "gone"} /\ b = "noted"
    [] what = "begin" -> a = "noted" /\ b = "none"
    [] OTHER -> a = b

(* Lines that end a turn unless an agent holds it. *)
Final(k, what) == what \in {"failure", "error", "garbled", "result"} \/ (what = "stop" /\ k = "amp")

(* The lines in the pipe lead from what the turn knows of the agent to what the
   agent is, and nothing follows a line that ends the turn. *)
Tracks(k, f, p, v, c) ==
  /\ Shows(v, f[0]) /\ f[Len(p)] = c.agent
  /\ \A i \in 1..Len(p) :
       /\ Moves(f[i - 1], p[i].what, f[i])
       /\ Final(k, p[i].what) /\ f[i] = "none" => i = Len(p) /\ c.phase = "idle"

(* A process c at work on turn t, with p in its pipe and the turn's view v. *)
AtWork(k, t, p, v, c) ==
  /\ \A i \in 1..Len(p) : p[i].turn = t
  /\ \/ c.todo = <<t>> /\ c.phase = "idle" /\ c.agent = "none" /\ p = <<>>
     \/ c.todo = <<>> /\ c.turn = t
  /\ \E f \in [0..Len(p) -> Agents] : Tracks(k, f, p, v, c)

(* A process between two turns. *)
AtRest(c) == c.state = "up" => c.agent = "none" /\ c.phase = "idle" /\ c.todo = <<>>

ChildInv ==
  Cli =>
    /\ main.pc \in {"idle", "start"} => view = FreshView
    /\ ~child.settled => IF main.pc = "loop" THEN AtWork(kind, main.turn, pipe, view, child)
                         ELSE AtRest(child)

(* The pipe as the process writes to it and the turn reads from it. *)
LEMMA PipeAppend ==
    ASSUME NEW p \in Seq(Notices), NEW x \in Notices
    PROVE  /\ Len(p) \in Nat /\ Append(p, x) \in Seq(Notices)
           /\ Len(Append(p, x)) = Len(p) + 1 /\ Append(p, x)[Len(p) + 1] = x
           /\ \A i \in 1..Len(p) : Append(p, x)[i] = p[i]
OBVIOUS

(* The pipe as the turn reads from it. *)
LEMMA PipeTail ==
    ASSUME NEW p \in Seq(Notices), p # <<>>
    PROVE  /\ Len(p) \in Nat \ {0} /\ Tail(p) \in Seq(Notices) /\ Len(Tail(p)) = Len(p) - 1
           /\ Head(p) = p[1] /\ Head(p) \in Notices
           /\ \A i \in 1..Len(Tail(p)) : Tail(p)[i] = p[i + 1]
BY HeadTailProperties, EmptySeq

(* The process writes a line. *)
LEMMA WorkEmits ==
    ASSUME NEW k, NEW t \in Nat, NEW p \in Seq(Notices), NEW v, NEW c, NEW d,
           NEW w \in Words, AtWork(k, t, p, v, c),
           c.phase # "idle" \/ c.agent # "none",
           d.todo = c.todo, d.turn = c.turn, d.agent \in Agents, Moves(c.agent, w, d.agent),
           Final(k, w) /\ d.agent = "none" => d.phase = "idle"
    PROVE  AtWork(k, t, Append(p, [what |-> w, turn |-> c.turn]), v, d)
<1> DEFINE x == [what |-> w, turn |-> c.turn]
           q == Append(p, x)
<1>1. c.todo = <<>> /\ c.turn = t
  BY DEF AtWork
<1>2. x \in Notices /\ x.turn = t /\ x.what = w
  BY <1>1, NoticeIs
<1> HIDE DEF x
<1>3. /\ Len(p) \in Nat /\ Len(q) = Len(p) + 1 /\ q[Len(p) + 1] = x
      /\ \A i \in 1..Len(p) : q[i] = p[i]
  BY <1>2, PipeAppend
<1> HIDE DEF q
<1>4. PICK f \in [0..Len(p) -> Agents] : Tracks(k, f, p, v, c)
  BY DEF AtWork
<1> DEFINE g == [i \in 0..(Len(p) + 1) |-> IF i <= Len(p) THEN f[i] ELSE d.agent]
<1>5. /\ g \in [0..Len(q) -> Agents] /\ g[0] = f[0] /\ g[Len(p) + 1] = d.agent
      /\ \A i \in 0..Len(p) : g[i] = f[i]
  BY <1>3
<1> HIDE DEF g
<1>6. Shows(v, g[0]) /\ g[Len(q)] = d.agent /\ f[Len(p)] = c.agent
  BY <1>3, <1>4, <1>5 DEF Tracks
<1>7. ASSUME NEW i \in 1..Len(q)
      PROVE  /\ Moves(g[i - 1], q[i].what, g[i])
             /\ Final(k, q[i].what) /\ g[i] = "none" => i = Len(q) /\ d.phase = "idle"
  <2>1. CASE i \in 1..Len(p)
    <3>1. q[i] = p[i] /\ g[i] = f[i] /\ g[i - 1] = f[i - 1]
      BY <1>3, <1>5, <2>1
    <3>2. /\ Moves(f[i - 1], p[i].what, f[i])
          /\ Final(k, p[i].what) /\ f[i] = "none" => i = Len(p) /\ c.phase = "idle"
      BY <1>4, <2>1 DEF Tracks
    <3>3. ~(Final(k, p[i].what) /\ f[i] = "none")
      BY <1>6, <3>2
    <3> QED BY <3>1, <3>2, <3>3
  <2>2. CASE i = Len(p) + 1
    <3>1. q[i] = x /\ g[i] = d.agent /\ g[i - 1] = c.agent
      BY <1>3, <1>5, <1>6, <2>2
    <3> QED BY <3>1, <1>2, <1>3, <2>2
  <2> QED BY <1>3, <2>1, <2>2
<1>8. Tracks(k, g, q, v, d)
  BY <1>6, <1>7 DEF Tracks
<1>9. \A i \in 1..Len(q) : q[i].turn = t
  BY <1>2, <1>3 DEF AtWork
<1>10. AtWork(k, t, q, v, d)
  BY <1>1, <1>5, <1>8, <1>9 DEF AtWork
<1> QED BY <1>10 DEF q, x

(* The process moves without a line, and does not begin anything. *)
LEMMA WorkStays ==
    ASSUME NEW k, NEW t, NEW p, NEW v, NEW c, NEW d, AtWork(k, t, p, v, c),
           d.todo = c.todo, d.turn = c.turn, d.agent = c.agent, d.phase \in {c.phase, "idle"}
    PROVE  AtWork(k, t, p, v, d)
<1>1. PICK f \in [0..Len(p) -> Agents] : Tracks(k, f, p, v, c)
  BY DEF AtWork
<1>2. Tracks(k, f, p, v, d)
  BY <1>1 DEF Tracks
<1> QED BY <1>2 DEF AtWork

(* The process takes the input of the turn up. *)
LEMMA WorkTakes ==
    ASSUME NEW k, NEW t \in Nat, NEW p, NEW v, NEW c, NEW d, AtWork(k, t, p, v, c),
           c.todo # <<>>, d.todo = Tail(c.todo), d.turn = Head(c.todo), d.agent = c.agent
    PROVE  AtWork(k, t, p, v, d)
<1>1. c.todo = <<t>> /\ p = <<>> /\ Len(p) = 0
  BY DEF AtWork
<1>2. d.todo = <<>> /\ d.turn = t
  BY <1>1
<1>3. PICK f \in [0..Len(p) -> Agents] : Tracks(k, f, p, v, c)
  BY DEF AtWork
<1>4. Tracks(k, f, p, v, d)
  BY <1>1, <1>3 DEF Tracks
<1> QED BY <1>1, <1>2, <1>4 DEF AtWork

(* The turn begins: it knows of no agent, and there is none. *)
LEMMA WorkBegins ==
    ASSUME NEW k, NEW t \in Nat, NEW c, c.todo = <<t>>, c.phase = "idle", c.agent = "none"
    PROVE  AtWork(k, t, <<>>, FreshView, c)
<1> DEFINE f == [i \in 0..0 |-> "none"]
<1>1. Len(<<>>) = 0 /\ f \in [0..Len(<<>>) -> Agents] /\ f[0] = "none"
  BY DEF Agents
<1> HIDE DEF f
<1>2. Shows(FreshView, "none")
  BY DEF Shows, FreshView
<1>3. Tracks(k, f, <<>>, FreshView, c)
  BY <1>1, <1>2 DEF Tracks
<1> QED BY <1>1, <1>3 DEF AtWork

(* What the turn knows follows the lines it reads. *)
LEMMA ObservedShows ==
    ASSUME NEW v \in Views, NEW w \in Words, NEW a \in Agents, NEW b \in Agents,
           Shows(v, a), Moves(a, w, b)
    PROVE  Shows(Observed(v, w), b)
<1>1. CASE w \in {"task", "gone", "note", "begin"}
  BY <1>1 DEF Views, Agents, Shows, Moves, Observed
<1>2. CASE w \in {"stop", "result"}
  BY <1>2 DEF Views, Agents, Shows, Moves, Observed, Holding
<1>3. CASE w \notin {"task", "gone", "note", "begin", "stop", "result"}
  <2>1. Observed(v, w) = v /\ a = b
    BY <1>3 DEF Moves, Observed
  <2> QED BY <2>1
<1> QED BY <1>1, <1>2, <1>3

(* The turn reads a line.  If it is one that ends the turn and no agent holds it, it
   was the last, and the process is at rest. *)
LEMMA WorkReads ==
    ASSUME NEW k, NEW t, NEW p \in Seq(Notices), p # <<>>, NEW v \in Views, NEW c,
           AtWork(k, t, p, v, c)
    PROVE  LET w == Head(p).what
               u == Observed(v, w)
           IN /\ Head(p).turn = t
              /\ AtWork(k, t, Tail(p), u, c)
              /\ Final(k, w) /\ ~Holding(u) => AtRest(c)
<1> DEFINE w == Head(p).what
           u == Observed(v, w)
           q == Tail(p)
<1>1. /\ Len(p) \in Nat \ {0} /\ Len(q) = Len(p) - 1
      /\ Head(p) = p[1] /\ Head(p) \in Notices
      /\ \A i \in 1..Len(q) : q[i] = p[i + 1]
  BY PipeTail
<1>2. w \in Words
  BY <1>1 DEF Notices
<1> HIDE DEF w, u, q
<1>3. PICK f \in [0..Len(p) -> Agents] : Tracks(k, f, p, v, c)
  BY DEF AtWork
<1>4. /\ f[0] \in Agents /\ f[1] \in Agents /\ Shows(v, f[0]) /\ Moves(f[0], w, f[1])
      /\ Final(k, w) /\ f[1] = "none" => 1 = Len(p) /\ c.phase = "idle"
  BY <1>1, <1>3 DEF Tracks, w
<1>5. Shows(u, f[1])
  BY <1>2, <1>4, ObservedShows DEF u
<1> DEFINE g == [i \in 0..Len(q) |-> f[i + 1]]
<1>6. /\ g \in [0..Len(q) -> Agents] /\ g[0] = f[1] /\ g[Len(q)] = f[Len(p)]
      /\ \A i \in 1..Len(q) : g[i] = f[i + 1] /\ g[i - 1] = f[i]
  BY <1>1
<1> HIDE DEF g
<1>7. ASSUME NEW i \in 1..Len(q)
      PROVE  /\ Moves(g[i - 1], q[i].what, g[i])
             /\ Final(k, q[i].what) /\ g[i] = "none" => i = Len(q) /\ c.phase = "idle"
  <2>1. i + 1 \in 1..Len(p) /\ q[i] = p[i + 1] /\ (i + 1) - 1 = i
    BY <1>1
  <2>2. /\ Moves(f[i], p[i + 1].what, f[i + 1])
        /\ Final(k, p[i + 1].what) /\ f[i + 1] = "none" => i + 1 = Len(p) /\ c.phase = "idle"
    BY <1>3, <2>1 DEF Tracks
  <2> QED BY <1>1, <1>6, <2>1, <2>2
<1>8. Tracks(k, g, q, u, c)
  BY <1>3, <1>5, <1>6, <1>7 DEF Tracks
<1>9. c.todo = <<>> /\ c.turn = t /\ \A i \in 1..Len(p) : p[i].turn = t
  BY DEF AtWork
<1>10. AtWork(k, t, q, u, c) /\ Head(p).turn = t
  <2>1. \A i \in 1..Len(q) : i + 1 \in 1..Len(p)
    BY <1>1
  <2>2. (\A i \in 1..Len(q) : q[i].turn = t) /\ Head(p).turn = t
    BY <1>1, <1>9, <2>1
  <2>3. \E h \in [0..Len(q) -> Agents] : Tracks(k, h, q, u, c)
    BY <1>6, <1>8
  <2> QED BY <1>9, <2>2, <2>3 DEF AtWork
<1>11. ASSUME Final(k, w), ~Holding(u) PROVE AtRest(c)
  <2>1. f[1] = "none"
    BY <1>4, <1>5, <1>11 DEF Shows, Holding, Agents
  <2>2. Len(p) = 1 /\ c.phase = "idle" /\ c.agent = "none"
    BY <1>3, <1>4, <1>11, <2>1 DEF Tracks
  <2> QED BY <2>2, <1>9 DEF AtRest
<1> QED BY <1>10, <1>11 DEF w, u, q

(* A step that leaves the process, its pipe and what is known of it alone. *)
LEMMA ChildKept ==
    ASSUME ChildInv, UNCHANGED <<kind, child, pipe, view>>,
           main'.pc = "loop" <=> main.pc = "loop", main'.pc = "loop" => main'.turn = main.turn,
           main'.pc \in {"idle", "start"} => main.pc \in {"idle", "start"}
    PROVE  ChildInv'
BY DEF ChildInv, Cli

(* Steps of the process: what they do when it is at work, and that it takes none,
   but for its exit, when it is at rest. *)
LEMMA EmitsAtWork ==
    ASSUME ServerTypes, MainInv, AtWork(kind, main.turn, pipe, view, child),
           NEW w \in Words, Emit(w), UNCHANGED view,
           child.phase # "idle" \/ child.agent # "none",
           child'.todo = child.todo, child'.turn = child.turn, child'.agent \in Agents,
           Moves(child.agent, w, child'.agent),
           Final(kind, w) /\ child'.agent = "none" => child'.phase = "idle"
    PROVE  AtWork(kind, main.turn, pipe', view', child')
<1>1. main.turn \in Nat /\ pipe \in Seq(Notices)
  BY DEF MainInv, Mains, ServerTypes
<1> QED BY <1>1, WorkEmits DEF Emit

(* Whatever a process does within a turn, its lines tell the turn of it. *)
LEMMA ChildMoves ==
    ASSUME ServerTypes, MainInv, ChildStep \/ Launch \/ Fail \/ Exit,
           AtWork(kind, main.turn, pipe, view, child)
    PROVE  AtWork(kind, main.turn, pipe', view', child')
<1>1. child \in Children /\ child.agent \in Agents /\ main.turn \in Nat /\ view' = view
  <2>1. child \in Children /\ main.turn \in Nat
    BY DEF ServerTypes, MainInv, Mains
  <2>2. view' = view
    BY DEF ChildStep, TakeInput, AgentDrops, AgentNotifies, Answer, Stop, Result, Launch,
           Fail, Exit, ChildOnly
  <2> QED BY <2>1, <2>2 DEF Children
<1>2. CASE TakeInput
  <2>1. /\ pipe' = pipe /\ child.todo # <<>>
        /\ child'.todo = Tail(child.todo) /\ child'.turn = Head(child.todo)
        /\ child'.agent = child.agent
    BY <1>1, <1>2 DEF TakeInput, Children
  <2> QED BY <1>1, <2>1, WorkTakes
<1>3. CASE Launch
  <2>1. /\ child.phase = "busy" /\ child.agent = "none" /\ child'.agent = "live" /\ Emit("task")
        /\ child'.todo = child.todo /\ child'.turn = child.turn
    BY <1>1, <1>3 DEF Launch, ChildIs, Children
  <2>2. Moves("none", "task", "live") /\ ~Final(kind, "task") /\ "task" \in Words
        /\ "live" \in Agents
    BY DEF Moves, Final, Words, Agents
  <2> QED BY <1>1, <2>1, <2>2, EmitsAtWork
<1>4. CASE AgentDrops
  <2>1. /\ child.agent = "live" /\ child'.agent = "gone" /\ Emit("gone")
        /\ child'.todo = child.todo /\ child'.turn = child.turn
    BY <1>1, <1>4 DEF AgentDrops, Children
  <2>2. Moves("live", "gone", "gone") /\ ~Final(kind, "gone") /\ "gone" \in Words
        /\ "gone" \in Agents
    BY DEF Moves, Final, Words, Agents
  <2> QED BY <1>1, <2>1, <2>2, EmitsAtWork
<1>5. CASE AgentNotifies
  <2>1. /\ child.agent \in {"live", "gone"} /\ child'.agent = "noted" /\ Emit("note")
        /\ child'.todo = child.todo /\ child'.turn = child.turn
    BY <1>1, <1>5 DEF AgentNotifies, Children
  <2>2. /\ \A a \in {"live", "gone"} : Moves(a, "note", "noted")
        /\ ~Final(kind, "note") /\ "note" \in Words /\ "noted" \in Agents
    BY DEF Moves, Final, Words, Agents
  <2> QED BY <1>1, <2>1, <2>2, EmitsAtWork
<1>6. CASE Answer
  <2>1. /\ child.agent = "noted" /\ child'.agent = "none" /\ Emit("begin")
        /\ child'.todo = child.todo /\ child'.turn = child.turn
    BY <1>1, <1>6 DEF Answer, Children
  <2>2. Moves("noted", "begin", "none") /\ ~Final(kind, "begin") /\ "begin" \in Words
        /\ "none" \in Agents
    BY DEF Moves, Final, Words, Agents
  <2> QED BY <1>1, <2>1, <2>2, EmitsAtWork
<1>7. \A a : \A w \in {"stop", "result", "failure", "error", "garbled"} :
        Moves(a, w, a) /\ w \in Words
  BY DEF Moves, Words
<1>8. CASE Stop
  <2>1. /\ child.phase = "busy" /\ child'.agent = child.agent /\ Emit("stop")
        /\ kind = "amp" => child'.phase = "idle"
        /\ child'.todo = child.todo /\ child'.turn = child.turn
    BY <1>1, <1>8 DEF Stop, ChildIs, Children
  <2>2. Final(kind, "stop") => kind = "amp"
    BY DEF Final
  <2> QED BY <1>1, <1>7, <2>1, <2>2, EmitsAtWork
<1>9. CASE Result
  <2>1. /\ child.phase = "stopped" /\ child'.agent = child.agent
        /\ child.agent = "none" => child'.phase = "idle"
        /\ child'.todo = child.todo /\ child'.turn = child.turn
    BY <1>1, <1>9 DEF Result, ChildIs, Children
  <2>2. Emit("result") \/ (pipe' = pipe /\ child.agent = "none")
    BY <1>9 DEF Result
  <2>3. CASE Emit("result")
    BY <1>1, <1>7, <2>1, <2>3, EmitsAtWork
  <2>4. CASE pipe' = pipe /\ child.agent = "none"
    BY <1>1, <2>1, <2>4, WorkStays
  <2> QED BY <2>2, <2>3, <2>4
<1>10. CASE Fail
  <2>1. /\ child.phase = "busy" /\ child'.agent = child.agent /\ child'.phase = "idle"
        /\ child'.todo = child.todo /\ child'.turn = child.turn
    BY <1>1, <1>10 DEF Fail, ChildIs, Children
  <2>2. Emit("failure") \/ Emit("error") \/ Emit("garbled")
    BY <1>10 DEF Fail
  <2> QED BY <1>1, <1>7, <2>1, <2>2, EmitsAtWork
<1>11. CASE Exit
  <2>1. /\ pipe' = pipe /\ child'.agent = child.agent /\ child'.phase = child.phase
        /\ child'.todo = child.todo /\ child'.turn = child.turn
    BY <1>1, <1>11 DEF Exit, Children
  <2> QED BY <1>1, <2>1, WorkStays
<1> QED BY <1>2, <1>3, <1>4, <1>5, <1>6, <1>8, <1>9, <1>10, <1>11 DEF ChildStep

(* A process at rest stays so. *)
LEMMA ChildRests ==
    ASSUME ServerTypes, AtRest(child), ChildStep \/ Launch \/ Fail \/ Exit
    PROVE  AtRest(child')
<1>1. child.state = "up"
  BY DEF ChildStep, TakeInput, AgentDrops, AgentNotifies, Answer, Stop, Result, Launch,
         Fail, Exit, ChildIs
<1>2. child.agent = "none" /\ child.phase = "idle" /\ child.todo = <<>>
  BY <1>1 DEF AtRest
<1>3. Exit
  BY <1>2 DEF ChildStep, TakeInput, AgentDrops, AgentNotifies, Answer, Stop, Result, Launch,
              Fail, ChildIs
<1>4. child'.state \in {"clean", "dirty"}
  BY <1>3 DEF Exit, ServerTypes, Children
<1> QED BY <1>4 DEF AtRest

(* The steps of the process. *)
LEMMA ChildHolds ==
    ASSUME ChildInv, ServerTypes, MainInv, ChildStep \/ Launch \/ Fail \/ Exit
    PROVE  ChildInv'
<1>1. UNCHANGED <<kind, main, view>>
  BY DEF ChildStep, TakeInput, AgentDrops, AgentNotifies, Answer, Stop, Result, Launch,
         Fail, Exit, ChildOnly, Unmoved
<1>2. child'.settled = child.settled
  BY DEF ChildStep, TakeInput, AgentDrops, AgentNotifies, Answer, Stop, Result, Launch,
         Fail, Exit, ServerTypes, Children
<1>3. AtRest(child) => AtRest(child')
  BY ChildRests
<1>4. AtWork(kind, main.turn, pipe, view, child) => AtWork(kind, main.turn, pipe', view', child')
  BY ChildMoves
<1> QED BY <1>1, <1>2, <1>3, <1>4 DEF ChildInv, Cli

(* A process that was killed, or stands still without being asked, is at rest. *)
LEMMA NoChildRests == AtRest(NoChild)
BY DEF AtRest, NoChild

(* The server ends a turn. *)
LEMMA TurnEnds ==
    ASSUME MainInv, ChildInv, main.pc \in {"start", "loop"}, main' = [main EXCEPT !.pc = "clear"],
           kind' = kind, Cli => child'.settled \/ AtRest(child')
    PROVE  ChildInv'
<1>1. main'.pc = "clear"
  BY DEF MainInv, Mains
<1> QED BY <1>1 DEF ChildInv, Cli

(* A turn starts with a process at rest, or a new one, and an empty pipe. *)
LEMMA StartCliHolds ==
    ASSUME ChildInv, ServerTypes, MainInv, StartCli
    PROVE  ChildInv'
<1>1. /\ main.pc = "start" /\ main.turn \in Nat /\ child \in Children /\ pipe' = <<>>
      /\ kind' = kind /\ view' = view /\ Cli /\ view = FreshView
      /\ ~child.settled => AtRest(child)
  BY DEF StartCli, Unmoved, MainInv, Mains, ServerTypes, ChildInv
<1>2. CASE main' = [main EXCEPT !.pc = "clear"] /\ child' = NoChild
  BY <1>1, <1>2, TurnEnds, NoChildRests
<1>3. CASE /\ main' = [main EXCEPT !.pc = "loop"]
           /\ child' = [(IF child.state = "up" THEN child ELSE NewChild)
                         EXCEPT !.todo = Append(@, main.turn)]
  <2>1. main'.pc = "loop" /\ main'.turn = main.turn
    BY <1>3 DEF MainInv, Mains
  <2>2. ASSUME ~child'.settled
        PROVE  child'.todo = <<main.turn>> /\ child'.phase = "idle" /\ child'.agent = "none"
    <3>1. CASE child.state = "up"
      <4>1. child' = [child EXCEPT !.todo = Append(@, main.turn)]
        BY <1>3, <3>1
      <4>2. /\ child'.settled = child.settled /\ child'.phase = child.phase
            /\ child'.agent = child.agent /\ child'.todo = Append(child.todo, main.turn)
        BY <4>1, <1>1 DEF Children
      <4>3. child.agent = "none" /\ child.phase = "idle" /\ child.todo = <<>>
        BY <4>2, <2>2, <1>1, <3>1 DEF AtRest
      <4> QED BY <4>2, <4>3
    <3>2. CASE child.state # "up"
      <4>1. child' = [NewChild EXCEPT !.todo = Append(@, main.turn)]
        BY <1>3, <3>2
      <4> QED BY <4>1 DEF NewChild, NoChild
    <3> QED BY <3>1, <3>2
  <2>3. ~child'.settled => AtWork(kind, main.turn, pipe', view', child')
    BY <1>1, <2>2, WorkBegins
  <2> QED BY <1>1, <2>1, <2>3 DEF ChildInv, Cli
<1>4. CASE /\ main' = [main EXCEPT !.pc = "loop"]
           /\ child' = [NewChild EXCEPT !.todo = Append(@, main.turn)]
  <2>1. main'.pc = "loop" /\ main'.turn = main.turn
    BY <1>4 DEF MainInv, Mains
  <2>2. child'.todo = <<main.turn>> /\ child'.phase = "idle" /\ child'.agent = "none"
    BY <1>4 DEF NewChild, NoChild
  <2>3. AtWork(kind, main.turn, pipe', view', child')
    BY <1>1, <2>2, WorkBegins
  <2> QED BY <1>1, <2>1, <2>3 DEF ChildInv, Cli
<1> QED BY <1>2, <1>3, <1>4 DEF StartCli

(* A turn reads a line, which is its own; if the line ends the turn, the process is
   at rest. *)
LEMMA ReadChildHolds ==
    ASSUME ChildInv, ServerTypes, MainInv, ReadChild
    PROVE  ChildInv' /\ (child.settled \/ Head(pipe).turn = main.turn)
<1> DEFINE w == Head(pipe).what
           u == Observed(view, w)
<1>1. /\ Cli /\ main.pc = "loop" /\ pipe # <<>> /\ pipe \in Seq(Notices) /\ view \in Views
      /\ kind' = kind /\ view' = u
      /\ IF EndsTurn(view, w) THEN /\ Killed \/ ReleaseChild(u, Tail(pipe))
                                   /\ main' = [main EXCEPT !.pc = "clear"]
         ELSE child' = child /\ pipe' = Tail(pipe) /\ main' = main
  BY DEF ReadChild, InLoop, Unmoved, ServerTypes, Kept
<1>2. ~child.settled => /\ Head(pipe).turn = main.turn
                        /\ AtWork(kind, main.turn, Tail(pipe), u, child)
                        /\ Final(kind, w) /\ ~Holding(u) => AtRest(child)
  BY <1>1, WorkReads DEF ChildInv
<1>3. EndsTurn(view, w) => Final(kind, w)
  BY DEF EndsTurn, Final
<1> HIDE DEF w, u
<1>4. CASE EndsTurn(view, w)
  <2>1. child' = NoChild \/ (child' = child /\ ~Holding(u))
    BY <1>1, <1>4 DEF ReleaseChild, Killed
  <2>2. child'.settled \/ AtRest(child')
    BY <1>2, <1>3, <1>4, <2>1, NoChildRests
  <2> QED BY <1>1, <1>2, <1>4, <2>2, TurnEnds
<1>5. CASE ~EndsTurn(view, w)
  BY <1>1, <1>2, <1>5 DEF ChildInv, Cli
<1> QED BY <1>4, <1>5

(* A turn that ends otherwise drops its process, or marks it as settled. *)
LEMMA OtherCliHolds ==
    ASSUME ChildInv, ServerTypes, MainInv, InterruptCli \/ Stall \/ Settle \/ Disconnected
    PROVE  ChildInv'
<1>1. /\ main.pc = "loop" /\ main' = [main EXCEPT !.pc = "clear"] /\ kind' = kind
      /\ child' = NoChild \/ child' = [child EXCEPT !.settled = TRUE]
  BY DEF InterruptCli, Stall, Settle, Disconnected, FailTurn, Quiet, InLoop, Unmoved, Killed
<1>2. child'.settled \/ AtRest(child')
  BY <1>1, NoChildRests DEF ServerTypes, Children
<1> QED BY <1>1, <1>2, TurnEnds

(* The invariant of the process is preserved by every step. *)
LEMMA ChildInvStep ==
    ASSUME ChildInv, ServerTypes, MainInv, [Next]_vars
    PROVE  ChildInv'
<1>1. CASE Requests \/ ReadLine \/ SendLine \/ Pump \/ UNCHANGED vars
  <2>1. UNCHANGED <<kind, child, pipe, view, main>>
    BY <1>1 DEF Requests, Accept, Claim, Deliver, Expire, ReadActive, WritePost, PostFails,
                ReadLine, SendLine, Pump, vars, serverVars
  <2> QED BY <2>1, ChildKept
<1>2. CASE Receive \/ ClearFlag
  <2>1. UNCHANGED <<kind, child, pipe, view>>
    BY <1>2 DEF Receive, ClearFlag
  <2>2. /\ main.pc # "loop" /\ main'.pc # "loop"
        /\ main'.pc \in {"idle", "start"} => main.pc \in {"idle", "start"}
    BY <1>2 DEF Receive, ClearFlag, MainInv, Mains
  <2> QED BY <2>1, <2>2, ChildKept
<1>3. CASE Drain
  <2>1. UNCHANGED <<kind, child, pipe>> /\ view' = FreshView /\ main.pc = "drain"
        /\ main'.pc = "idle"
    BY <1>3 DEF Drain, MainInv, Mains
  <2> QED BY <2>1 DEF ChildInv, Cli
<1>4. CASE CliNext
  BY <1>4, ChildHolds, StartCliHolds, ReadChildHolds, OtherCliHolds DEF CliNext, CliServer
<1>5. CASE CodexNext
  <2>1. ~Cli'
    BY <1>5 DEF CodexNext, AppStep, CodexServer, AppTakes, AppStreams, AppEnds, StartCodex,
                ForwardInterrupt, ForwardSteer, ReadCodex, AppGone, AppExits, Serving, InTurn,
                Codex, Cli, CliKinds, AppServer, Fixed
  <2> QED BY <2>1 DEF ChildInv
<1> QED BY <1>1, <1>2, <1>3, <1>4, <1>5 DEF Next

(* The invariant of the process holds throughout. *)
LEMMA ChildInductive == Spec => []ChildInv
<1>1. Init => ChildInv
  <2>1. Init => main.pc = "idle" /\ view = FreshView /\ child = NoChild
    BY DEF Init
  <2> QED BY <2>1, NoChildRests DEF ChildInv
<1>2. ChildInv /\ (PumpInv /\ ServerTypes) /\ (InputInv /\ MainInv) /\ [Next]_vars => ChildInv'
  BY ChildInvStep
<1> QED BY <1>1, <1>2, PumpInductive, InputInductive, PTL DEF Spec

(* The app-server of codex has no background agents that the server knows of. *)
NoAgents == ~Cli => child.agent = "none"

(* No step of codex or of its turns brings an agent about. *)
LEMMA NoAgentsStep ==
    ASSUME NoAgents, ServerTypes, [Next]_vars
    PROVE  NoAgents'
<1>1. CASE CliNext
  <2>1. Cli'
    BY <1>1 DEF CliNext, CliServer, ChildStep, TakeInput, AgentDrops, AgentNotifies, Answer, Stop,
                Result, Launch, Fail, Exit, StartCli, InterruptCli, ReadChild, Stall, Settle,
                Disconnected, FailTurn, ChildOnly, ChildIs, Unmoved, InLoop, Quiet, Cli
  <2> QED BY <2>1 DEF NoAgents
<1>2. CASE CodexNext
  <2>1. child \in Children /\ NoChild.agent = "none" /\ NewChild.agent = "none"
    BY DEF ServerTypes, NoChild, NewChild
  <2>2. kind' = kind
    BY <1>2 DEF CodexNext, AppStep, CodexServer, AppTakes, AppStreams, AppEnds, StartCodex,
                ForwardInterrupt, ForwardSteer, ReadCodex, AppGone, AppExits, AppServer, Fixed
  <2>3. \A t : [NewChild EXCEPT !.todo = Append(@, t)].agent = "none"
    BY DEF NewChild, NoChild
  <2>4. child'.agent \in {child.agent, "none"}
    <3>1. CASE AppStep \/ AppExits
      BY <2>1, <3>1 DEF AppStep, AppTakes, AppStreams, AppEnds, AppExits, Children
    <3>2. CASE StartCodex
      <4>1. CASE child' = NoChild
        BY <2>1, <4>1
      <4>2. CASE child.state = "up" /\ child' = [child EXCEPT !.todo = Append(@, main.turn)]
        BY <2>1, <4>2 DEF Children
      <4>3. CASE child' = [NewChild EXCEPT !.todo = Append(@, main.turn)]
        BY <2>3, <4>3
      <4> QED BY <3>2, <4>1, <4>2, <4>3 DEF StartCodex
    <3>3. CASE ForwardInterrupt
      <4>1. child' = child \/ child' = [child EXCEPT !.phase = "idle"]
        BY <3>3 DEF ForwardInterrupt
      <4> QED BY <2>1, <4>1 DEF Children
    <3>4. CASE ForwardSteer \/ ReadCodex \/ AppGone
      BY <2>1, <3>4 DEF ForwardSteer, ReadCodex, AppGone
    <3> QED BY <1>2, <3>1, <3>2, <3>3, <3>4 DEF CodexNext, CodexServer
  <2> QED BY <2>2, <2>4 DEF NoAgents, Cli
<1>3. CASE \/ Requests \/ ReadLine \/ SendLine \/ Receive \/ ClearFlag \/ Drain \/ Pump
           \/ UNCHANGED vars
  <2>1. UNCHANGED <<kind, child>>
    BY <1>3 DEF Requests, Accept, Claim, Deliver, Expire, ReadActive, WritePost, PostFails,
                ReadLine, SendLine, Receive, ClearFlag, Drain, Pump, vars, serverVars
  <2> QED BY <2>1 DEF NoAgents, Cli
<1> QED BY <1>1, <1>2, <1>3 DEF Next

(* A harness process that lives on between two turns has no background agent, however
   results were held, agents dropped out or failed, and turns were interrupted
   (run_harness_turn, ClaudeEventNormalizer).  A process whose turn was completed by
   silence is the exception that the property makes. *)
THEOREM QuietBetween == Spec => []QuietBetweenTurns
<1>1. Init => NoAgents
  BY DEF Init, NoAgents, NoChild
<1>2. NoAgents /\ (PumpInv /\ ServerTypes) /\ [Next]_vars => NoAgents'
  BY NoAgentsStep
<1>3. ChildInv /\ NoAgents => QuietBetweenTurns
  BY DEF ChildInv, NoAgents, QuietBetweenTurns, AtRest
<1> QED BY <1>1, <1>2, <1>3, ChildInductive, PumpInductive, PTL DEF Spec

(* A line that ends a turn is of that turn: what an earlier turn left behind, a held
   result or the completion of another turn of the app-server does not
   (run_harness_turn, notification_matches_scope). *)
THEOREM EndIsOwn == Spec => OwnEnd
<1>1. ASSUME ChildInv, PumpInv /\ ServerTypes, InputInv /\ MainInv, [Next]_vars,
             main.pc = "loop", main'.pc = "clear", UNCHANGED requests, pipe # <<>>
      PROVE  child.settled \/ Head(pipe).turn = main.turn
  <2>1. main' # main
    BY <1>1
  <2>2. CASE CliNext
    <3>1. ReadChild \/ InterruptCli
      BY <1>1, <2>1, <2>2
         DEF CliNext, CliServer, ChildStep, TakeInput, AgentDrops, AgentNotifies, Answer, Stop,
             Result, Launch, Fail, Exit, StartCli, Stall, Settle, Disconnected, ChildOnly, Quiet
    <3>2. ~InterruptCli
      <4>1. requests # <<>> /\ requests \in Seq(Lines) => Len(Tail(requests)) # Len(requests)
        BY HeadTailProperties, EmptySeq
      <4> QED BY <1>1, <4>1 DEF InterruptCli, InputInv
    <3> QED BY <1>1, <3>1, <3>2, ReadChildHolds
  <2>3. CASE CodexNext
    <3>1. ReadCodex
      BY <1>1, <2>1, <2>3
         DEF CodexNext, AppStep, CodexServer, AppTakes, AppStreams, AppEnds, StartCodex,
             ForwardInterrupt, ForwardSteer, AppGone, AppExits, AppServer
    <3> QED BY <2>1, <3>1 DEF ReadCodex, InScope
  <2>4. ~(\/ Requests \/ ReadLine \/ SendLine \/ Receive \/ ClearFlag \/ Drain \/ Pump
          \/ UNCHANGED vars)
    BY <1>1, <2>1
       DEF Requests, Accept, Claim, Deliver, Expire, ReadActive, WritePost, PostFails,
           ReadLine, SendLine, Receive, ClearFlag, Drain, Pump, vars, serverVars
  <2> QED BY <1>1, <2>2, <2>3, <2>4 DEF Next
<1>2. ChildInv /\ (PumpInv /\ ServerTypes) /\ (InputInv /\ MainInv) /\ [Next]_vars
        => [main.pc = "loop" /\ main'.pc = "clear" /\ UNCHANGED requests /\ pipe # <<>> =>
              child.settled \/ Head(pipe).turn = main.turn]_vars
  BY <1>1
<1> QED BY <1>2, ChildInductive, PumpInductive, InputInductive, PTL DEF Spec, OwnEnd
=============================================================================
