---------------------------- MODULE MCEventStream ----------------------------
(* EventStream on small instances; connections are interchangeable. *)
EXTENDS EventStream, TLC

WriterSymmetry == Permutations(Writers)
=============================================================================
