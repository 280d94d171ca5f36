----------------------------- MODULE CallStates -----------------------------
(***************************************************************************)
(* The life of one call, as packages/core/src/index.ts defines it: the     *)
(* seven stored states and the table of the state changes a call may make. *)
(* Every module that keeps calls builds on this one.                       *)
(***************************************************************************)

\* A call that was never created; the code has no row for it.
Absent == "absent"

CallState == {"requested", "dialing", "ringing", "connected",
              "ending", "ended", "uncertain"}

\* transitions: where a call in state s may move to; from "ended" nowhere.
Allowed(s, t) ==
  \/ s = "requested" /\ t \in CallState \ {"requested"}
  \/ s = "dialing"   /\ t \in CallState \ {"requested", "dialing"}
  \/ s = "ringing"   /\ t \in {"connected", "ending", "ended", "uncertain"}
  \/ s = "connected" /\ t \in {"ending", "ended", "uncertain"}
  \/ s = "ending"    /\ t \in {"ended", "uncertain"}
  \/ s = "uncertain" /\ t \in {"ending", "ended"}

\* States in which the store clears both readiness flags.
Quiescent == {"ending", "ended", "uncertain"}

\* States that exist only between an external dial and its termination.
Established == {"dialing", "ringing", "connected"}
=============================================================================
