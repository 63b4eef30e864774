-------------------------- MODULE ExecutionContract --------------------------
(***************************************************************************)
(* What the session control plane promises of the executions of a thread,  *)
(* with no mention of processes, leases or sandboxes: at most one execution *)
(* is active, its input is sent at most once, it ends once and for all, and *)
(* its end is announced at most once, after which no output is stored.      *)
(* SessionExecution is shown to implement it.                               *)
(***************************************************************************)
EXTENDS Naturals, Sequences

CONSTANT Executions

VARIABLES
    phase,     \* the execution's status as a client of the API reads it
    sent,      \* how often its input was given to a sandbox
    history    \* its durable events, in order

contractVars == <<phase, sent, history>>

ActivePhases == {"queued", "running"}
EndPhases == {"completed", "failed", "cancelled"}

ContractInit ==
    /\ phase = [e \in Executions |-> "absent"]
    /\ sent = [e \in Executions |-> 0]
    /\ history = [e \in Executions |-> <<>>]

Moves(e, to) == phase' = [phase EXCEPT ![e] = to] /\ UNCHANGED <<sent, history>>

Accept(e) ==
    /\ phase[e] = "absent"
    /\ \A f \in Executions : phase[f] \notin ActivePhases
    /\ Moves(e, "queued")

Begin(e) == phase[e] = "queued" /\ Moves(e, "running")

(* Only an execution whose input nobody has sent may go back to the queue. *)
PutBack(e) == phase[e] = "running" /\ sent[e] = 0 /\ Moves(e, "queued")

Send(e) ==
    /\ phase[e] \notin {"absent", "queued"}
    /\ sent[e] = 0
    /\ sent' = [sent EXCEPT ![e] = 1]
    /\ UNCHANGED <<phase, history>>

Finish(e) ==
    /\ phase[e] \in ActivePhases
    /\ \E to \in EndPhases : Moves(e, to)

Store(e, event) ==
    /\ history' = [history EXCEPT ![e] = Append(@, event)]
    /\ UNCHANGED <<phase, sent>>

StoreStarted(e) == phase[e] \notin {"absent", "queued"} /\ Store(e, "started")

StoreOutput(e) == phase[e] \in ActivePhases /\ Store(e, "output")

Announce(e) ==
    /\ phase[e] \in EndPhases
    /\ \A i \in DOMAIN history[e] : history[e][i] # "terminal"
    /\ Store(e, "terminal")

ContractNext ==
    \E e \in Executions :
        \/ Accept(e) \/ Begin(e) \/ PutBack(e) \/ Send(e) \/ Finish(e)
        \/ StoreStarted(e) \/ StoreOutput(e) \/ Announce(e)

ContractSpec == ContractInit /\ [][ContractNext]_contractVars
=============================================================================
