---------------------------- MODULE VoiceContract ----------------------------
(***************************************************************************)
(* What the runtime relies on when it drives a channel through the         *)
(* VoiceDriver and VoiceEvents interfaces (packages/runtime/src/types.ts): *)
(* one leg at a time, no dial accepted while a leg may be up, and a report *)
(* of `ended` that is evidence.  TelegramDriver and WhatsAppDriver are     *)
(* shown to implement it.                                                  *)
(***************************************************************************)
EXTENDS FiniteSets

CONSTANT Refs

VARIABLES
  alive,   \* legs this driver placed or accepted that may be up
  over,    \* legs it reported as ended
  free     \* it would take a dial

vars == <<alive, over, free>>

Init == alive = {} /\ over = {} /\ free = TRUE

\* dial or accept reserves the driver before anything reaches the platform.
Reserve == free /\ free' = FALSE /\ UNCHANGED <<alive, over>>

Place(r) ==
  /\ ~free /\ alive = {} /\ r \notin over
  /\ alive' = {r} /\ UNCHANGED <<over, free>>

\* The leg goes down, whoever hung up.
Drop(r) == r \in alive /\ alive' = {} /\ UNCHANGED <<over, free>>

\* `ended`; the reservation may be released with it.
ReportEnded(r) ==
  /\ r \notin alive
  /\ over' = over \cup {r}
  /\ free' \in {free, free \/ alive = {}}
  /\ UNCHANGED alive

\* A fault or a close ends the driver's service.
Retire == free /\ free' = FALSE /\ UNCHANGED <<alive, over>>

Next ==
  \/ Reserve \/ Retire
  \/ \E r \in Refs : Place(r) \/ Drop(r) \/ ReportEnded(r)

Spec == Init /\ [][Next]_vars

(***************************************************************************)
(* The driver takes no dial while a leg may be up, has one leg at most,    *)
(* and reports as ended only legs that are down.                           *)
(***************************************************************************)
LegsAreHeld ==
  /\ alive # {} => ~free
  /\ \A r, s \in alive : r = s
  /\ alive \cap over = {}
=============================================================================
