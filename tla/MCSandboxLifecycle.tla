------------------------- MODULE MCSandboxLifecycle -------------------------
(* SandboxLifecycle on small instances; what has no name of its own in the code
   (replicas, sessions, sandbox ids) is interchangeable. *)
EXTENDS SandboxLifecycle, TLC

Symmetry == Permutations(Replicas) \cup Permutations(Sessions)
                \cup Permutations(Sandboxes)
=============================================================================
