---------------------------- MODULE MCServiceParts ----------------------------
(***************************************************************************)
(* Parts of the service that share no state with each other: the outbox,   *)
(* the Live session, the audio route, the usage ledger, the records, who   *)
(* may use the console, its dialogs, and the agents.  A behaviour exercises *)
(* one of them, chosen at the start; the others rest.                      *)
(***************************************************************************)
EXTENDS EventDelivery, LiveSession, CallAudio, UsageLedger, CallRecords,
        ConsoleAccess, SetupDialog, AgentAccess

VARIABLE part

partVars == <<part, vars, liveVars, audioVars, usageVars, recordVars, accessVars, setupVars, agentVars>>

PartsInit ==
  /\ part \in {"events", "live", "audio", "usage", "records", "access", "setup", "agents"}
  /\ Init /\ LiveInit /\ RecordsInit
  /\ AudioInit /\ (part # "audio" => route.direction = "in" /\ ~route.resampled)
  /\ UsageInit /\ (part # "usage" => clock.zone = CHOOSE z \in Zones : TRUE)
  /\ AccessInit /\ (part # "access" => account.bootstrap = NoLogin)
  /\ AgentsInit
  /\ SetupInit /\ (part # "setup" => ~dialog.isolated)

PartsNext ==
  /\ part' = part
  /\ \/ part = "events" /\ Next /\ UNCHANGED <<liveVars, audioVars, usageVars, recordVars, accessVars, setupVars, agentVars>>
     \/ part = "live" /\ LiveNext /\ UNCHANGED <<vars, audioVars, usageVars, recordVars, accessVars, setupVars, agentVars>>
     \/ part = "audio" /\ AudioNext /\ UNCHANGED <<vars, liveVars, usageVars, recordVars, accessVars, setupVars, agentVars>>
     \/ part = "usage" /\ UsageNext /\ UNCHANGED <<vars, liveVars, audioVars, recordVars, accessVars, setupVars, agentVars>>
     \/ part = "records" /\ RecordsNext /\ UNCHANGED <<vars, liveVars, audioVars, usageVars, accessVars, setupVars, agentVars>>
     \/ part = "access" /\ AccessNext /\ UNCHANGED <<vars, liveVars, audioVars, usageVars, recordVars, setupVars, agentVars>>
     \/ part = "setup" /\ SetupNext /\ UNCHANGED <<vars, liveVars, audioVars, usageVars, recordVars, accessVars, agentVars>>
     \/ part = "agents" /\ AgentsNext /\ UNCHANGED <<vars, liveVars, audioVars, usageVars, recordVars, accessVars, setupVars>>

\* EventDelivery's Fairness, for the behaviours that exercise it.
Chosen == part = "events"
EventsFairness ==
  /\ WF_vars(Chosen /\ GrowOld) /\ WF_vars(Chosen /\ StartUp)
  /\ \A i \in 1..MaxEvents : WF_vars(Chosen /\ Rested(i))
  /\ SF_vars(Chosen /\ RunOnce) /\ SF_vars(Chosen /\ Send) /\ SF_vars(Chosen /\ (Acknowledge \/ Retry))

PartsSpec == PartsInit /\ [][PartsNext]_partVars /\ EventsFairness
=============================================================================
