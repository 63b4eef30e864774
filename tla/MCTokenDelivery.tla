-------------------------- MODULE MCTokenDelivery --------------------------
(* Every credential is granted to every principal; the proxies, if any, act
   for one of them. *)
EXTENDS TokenDelivery, TLC

MCGrantees == [c \in Credentials |-> Principals]
MCPrincipalOf == [x \in Proxies |-> CHOOSE p \in Principals : TRUE]

Symmetry == Permutations(Brokers)
=============================================================================
