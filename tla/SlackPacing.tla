---------------------------- MODULE SlackPacing -----------------------------
(***************************************************************************)
(* How the workers of the company context service share one method of      *)
(* Slack's Web API in one workspace: slots reserved from a schedule in     *)
(* Postgres (crates/centaur-company-context/src/slack_rate_limit.rs) by    *)
(* calls that wait for them in place (paced_call, slack_tasks.rs).  Time   *)
(* is the clock of the database.                                           *)
(***************************************************************************)
EXTENDS Naturals, FiniteSets

CONSTANTS
  Workers,      \* calls that run at the same time, on all replicas
  Interval,     \* time between slots, from the tier and the configured share
  RetryAfters,  \* what Slack may ask a call to wait
  Attempts,     \* RATE_LIMITED_ATTEMPTS
  MaxTime,      \* bound on the clock
  MaxSlots      \* bound on the slots ever granted

PacingAssumption ==
  /\ Interval \in Nat \ {0}
  /\ RetryAfters \subseteq Nat
  /\ Attempts \in Nat \ {0}
  /\ MaxTime \in Nat

VARIABLES
  now,             \* clock_timestamp()
  next, blocked,   \* slack_rate_limits: next_slot_at, blocked_until
  call,            \* the calls
  granted          \* every slot there has been

vars == <<now, next, blocked, call, granted>>

Idle == [pc |-> "idle"]
\* A call about to reserve; quiet is when Slack told it to send again.
Reserving(tries, quiet) == [pc |-> "reserve", tries |-> tries, quiet |-> quiet]

Init ==
  /\ now = 0 /\ next = 0 /\ blocked = 0
  /\ call = [w \in Workers |-> Idle]
  /\ granted = {}

Later(a, b) == IF a > b THEN a ELSE b
Goes(w, c) == call' = [call EXCEPT ![w] = c]

Tick ==
  /\ now < MaxTime
  /\ now' = now + 1
  /\ UNCHANGED <<next, blocked, call, granted>>

Begin(w) ==
  /\ call[w] = Idle
  /\ Goes(w, Reserving(0, 0))
  /\ UNCHANGED <<now, next, blocked, granted>>

\* Mutant: an idle bucket is forgotten, and the slots handed out with it.
GrantNow == now

\* Bucket::grant: the earliest time that is not past, taken or blocked.
Grant == Later(now, Later(next, blocked))

\* RateLimiter::reserve, one transaction with the bucket locked.
Reserve(w) ==
  /\ call[w].pc = "reserve"
  /\ Cardinality(granted) < MaxSlots
  /\ next' = Grant + Interval
  /\ granted' = granted \cup {Grant}
  /\ Goes(w, [pc |-> "wait", tries |-> call[w].tries + 1, slot |-> Grant,
              quiet |-> call[w].quiet])
  /\ UNCHANGED <<now, blocked>>

\* The slot has come.  Slack answers,
Send(w) ==
  /\ call[w].pc = "wait" /\ now >= call[w].slot
  /\ Goes(w, [pc |-> "answered"])
  /\ UNCHANGED <<now, next, blocked, granted>>

\* or asks to wait: other services use the same budget.
SendLimited(w, after) ==
  /\ call[w].pc = "wait" /\ now >= call[w].slot
  /\ Goes(w, [pc |-> "limited", tries |-> call[w].tries, after |-> after,
              quiet |-> now + after])
  /\ UNCHANGED <<now, next, blocked, granted>>

Answered(w) ==
  /\ call[w].pc = "answered"
  /\ Goes(w, Idle)
  /\ UNCHANGED <<now, next, blocked, granted>>

\* Mutant: the last Retry-After counts.
LastBlock(after) == now + after

\* Bucket::rate_limited: a block is never shortened.
Block(after) == Later(blocked, now + after)

\* Mutant: the call tries for ever.
RateLimitedForever(w) ==
  /\ call[w].pc = "limited"
  /\ blocked' = Block(call[w].after)
  /\ Goes(w, Reserving(call[w].tries, call[w].quiet))
  /\ UNCHANGED <<now, next, granted>>

\* RateLimiter::rate_limited; the call tries again, or fails with its task.
RateLimited(w) ==
  /\ call[w].pc = "limited"
  /\ blocked' = Block(call[w].after)
  /\ Goes(w, IF call[w].tries < Attempts THEN Reserving(call[w].tries, call[w].quiet)
             ELSE Idle)
  /\ UNCHANGED <<now, next, granted>>

\* The worker stops; its slot is not given back.
Crash(w) ==
  /\ call[w] # Idle
  /\ Goes(w, Idle)
  /\ UNCHANGED <<now, next, blocked, granted>>

Next ==
  \/ Tick
  \/ \E w \in Workers : Begin(w) \/ Reserve(w) \/ Send(w) \/ Answered(w)
                        \/ RateLimited(w) \/ Crash(w)
  \/ \E w \in Workers, after \in RetryAfters : SendLimited(w, after)

Spec == Init /\ [][Next]_vars

-----------------------------------------------------------------------------
(* Properties.                                                             *)

Calls ==
  {Idle, [pc |-> "answered"]}
    \cup [pc : {"reserve"}, tries : 0..(Attempts - 1), quiet : Nat]
    \cup [pc : {"wait"}, tries : 1..Attempts, slot : Nat, quiet : Nat]
    \cup [pc : {"limited"}, tries : 1..Attempts, after : RetryAfters, quiet : Nat]

\* The types; no call is sent more than RATE_LIMITED_ATTEMPTS times (paced_call).
TypeOK ==
  /\ now \in Nat /\ next \in Nat /\ blocked \in Nat
  /\ call \in [Workers -> Calls]
  /\ granted \subseteq Nat

\* Slots are an interval apart, whichever workers reserve them in whatever order,
\* and however blocks and idle times move the schedule; no two calls wait for the
\* same one (Bucket::grant).
SlotsAreSpaced ==
  /\ \A s, t \in granted : s < t => s + Interval <= t
  /\ \A v, w \in Workers :
       v # w /\ call[v].pc = "wait" /\ call[w].pc = "wait" => call[v].slot # call[w].slot

\* A call that Slack asked to wait is not sent again before, although others
\* are asked to wait less meanwhile, and its own request comes late to the bucket
\* (Bucket::rate_limited).
RetryAfterIsKept ==
  \A w \in Workers : call[w].pc = "wait" => call[w].slot >= call[w].quiet

\* The documentation of slack_rate_limit.rs: "A rate limit blocks the method for
\* every worker until Retry-After passes."
BlockHoldsForAll ==
  [][\A w \in Workers :
       call[w].pc = "wait" /\ call'[w].pc \in {"answered", "limited"} => now >= blocked]_vars
=============================================================================
