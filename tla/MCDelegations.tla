--------------------------- MODULE MCDelegations ---------------------------
(* Delegations for TLC. *)
EXTENDS Delegations
=============================================================================
