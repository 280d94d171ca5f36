---------------------------- MODULE MCVoiceDrivers ----------------------------
(***************************************************************************)
(* The two voice drivers.  They share no state: a behaviour exercises one  *)
(* of them, chosen at the start, and the other rests.                      *)
(***************************************************************************)
EXTENDS TelegramDriver, WhatsAppDriver

VARIABLE channel

driverVars == <<channel, tgVars, waVars>>

VoiceInit == channel \in {"telegram", "whatsapp"} /\ TgInit /\ WaInit

VoiceNext ==
  /\ channel' = channel
  /\ \/ channel = "telegram" /\ TgNext /\ UNCHANGED waVars
     \/ channel = "whatsapp" /\ WaNext /\ UNCHANGED tgVars

\* What either driver, its worker and its platform finish by themselves.
VoiceProgress ==
  /\ channel' = channel
  /\ \/ channel = "telegram" /\ TgProgress /\ UNCHANGED waVars
     \/ channel = "whatsapp" /\ WaProgress /\ UNCHANGED tgVars

VoiceSpec == VoiceInit /\ [][VoiceNext]_driverVars /\ WF_driverVars(VoiceProgress)

\* Both drivers keep the contract of VoiceContract: no dial is taken while a leg may
\* be up, one leg at most, `ended` only of a leg that is down, and never taken back.
DriversKeepContract == TelegramKeepsContract /\ WhatsAppKeepsContract

\* A leg of theirs that goes down is reported as ended or kept in doubt, in whatever
\* order answers, updates, media closes and hang-ups come.
EndsAreTold ==
  \A r \in Refs : leg[r] = "down" \/ wleg[r] = "down" ~> TelegramToldEnd(r) /\ WhatsAppToldEnd(r)
=============================================================================
