------------------------- MODULE MCSessionExecution -------------------------
(* SessionExecution on small instances.  Processes are interchangeable, and
   so are executions; symmetry is used by the safety runs only. *)
EXTENDS SessionExecution, TLC

Symmetry == Permutations(Procs) \cup Permutations(Executions)
=============================================================================
