--------------------------- MODULE MCBridgeService ---------------------------
(* BridgeService for TLC.  No symmetry: the runs check liveness. *)
EXTENDS BridgeService
==============================================================================
