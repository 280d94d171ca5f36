------------------------------- MODULE VoiceRefs -------------------------------
(***************************************************************************)
(* What the two voice drivers have in common.                              *)
(***************************************************************************)
EXTENDS FiniteSets

CONSTANTS
  Refs, NoRef,   \* call ids of the platform
  Inbound,       \* those that are offers of the driver's target; offers of others
                 \* are refused without a trace and left out
  OfferLimit     \* 16 in the code

ASSUME RefsAssumption == NoRef \notin Refs

\* The last report of a call to the runtime, as far as it settles the call; one
\* without a reference is not kept.
Tell(s, r, what) ==
  IF r = NoRef THEN s
  ELSE [s EXCEPT !.told[r] = IF what \in {"ended", "uncertain"} THEN what ELSE "progress"]
=============================================================================
