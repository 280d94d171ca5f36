---------------------------- MODULE MCCallStore ----------------------------
(* Instances of CallStore and ConsoleMigration for TLC. *)
EXTENDS ConsoleMigration, TLC

Symmetry == Permutations(CallIds) \cup Permutations(Commands)
              \cup Permutations(Digests)
=============================================================================
