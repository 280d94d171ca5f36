--------------------------- MODULE MCCallRuntime ---------------------------
(* Instances of CallRuntime for TLC. *)
EXTENDS CallRuntime, TLC

Symmetry == Permutations(CallIds) \cup Permutations(Refs)
============================================================================
