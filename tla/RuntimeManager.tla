---- MODULE RuntimeManager ----
(***************************************************************************)
(* The manager of apps/bridge/src/runtime-manager.ts and the document it   *)
(* commits (configuration-store.ts).  It owns the coordinator that uses    *)
(* the accounts and replaces it, one operation at a time: an operation     *)
(* claims the manager, stops the coordinator, and then either installs new *)
(* settings or hands the accounts to a temporary owner (a lease) and       *)
(* restores the old settings afterwards.  Admission of calls is held from  *)
(* claim() to finish(), exactly while busy is TRUE.  That no call is       *)
(* unfinished at claim() is the subject of BridgeService.                  *)
(***************************************************************************)
EXTENDS Naturals, FiniteSets

CONSTANTS Peers,        \* receiving identities an operator may bind
          NoPeer,       \* no receiver is bound
          None,         \* no settings, no update, no flow
          MaxRevision   \* bound on the revisions committed

Channels == {"telegram", "whatsapp"}
Binding == [on : BOOLEAN, peer : Peers \cup {NoPeer}]
Settings == [revision : 0 .. MaxRevision, bound : [Channels -> Binding]]

\* What may be asked for: the bound refuses one revision too many.
Updates == [revision : 1 .. MaxRevision + 1, bound : [Channels -> Binding]]

ASSUME SettingsAssumption == MaxRevision \in Nat /\ None \notin Settings \cup Updates \cup Channels

Leaseholders == {"login", "disconnect", "target", "telegramTarget"}
Owners == Leaseholders \cup {"console", "unlink"}
Stages == {"stopping", "creating", "discarding", "restoring", "rollback",
           "retiring", "unlinking", "leased"}

VARIABLES settings,   \* the committed document
          paused,     \* the durable pause
          busy,       \* claimed, or kept for a cleanup of unknown outcome
          runtime,    \* this.runtime: the settings it was made from
          live,       \* a coordinator may be using the accounts
          op,         \* the operation under way and what it awaits
          closing, closed

managerVars == <<settings, paused, busy, runtime, live, op, closing, closed>>

Idle == [at |-> "idle", for |-> "none", update |-> None]

ManagerTypeOK ==
  /\ settings \in Settings
  /\ runtime \in Settings \cup {None}
  /\ op \in [at : Stages, for : Owners, update : Updates \cup {None}] \cup {Idle}
  /\ {paused, busy, live, closing, closed} \subseteq BOOLEAN

\* The same settings with one channel bound otherwise, as the next revision.
Rebound(base, channel, binding) ==
  [revision |-> base.revision + 1, bound |-> [base.bound EXCEPT ![channel] = binding]]

\* prepare() takes an update only on top of the revision it was derived from.
Prepared(update) == update.revision = settings.revision + 1 /\ update.revision <= MaxRevision

\* claim(): refused while another operation or the shutdown is under way.
Claim(owner, update) ==
  /\ ~busy /\ ~closing
  /\ busy' = TRUE
  /\ op' = [at |-> "stopping", for |-> owner, update |-> update]
  /\ UNCHANGED <<settings, paused, runtime, live, closing, closed>>

Apply(owner, update) == Prepared(update) /\ Claim(owner, update)
Acquire(owner) == Claim(owner, None)

Goto(stage) == op' = [op EXCEPT !.at = stage] /\ UNCHANGED <<busy, paused>>

\* Faulty: finish() gives the manager back whatever the outcome.
FinishAlways(unknown) ==
  /\ op' = Idle
  /\ IF closed THEN UNCHANGED <<busy, paused>> ELSE busy' = FALSE /\ UNCHANGED paused
\* Faulty: finish() keeps the manager, but does not make it last.
FinishUnpaused(unknown) ==
  /\ op' = Idle
  /\ IF closed THEN UNCHANGED <<busy, paused>> ELSE busy' = unknown /\ UNCHANGED paused

\* finish(): nothing is written once the store is detached.
Finish(unknown) ==
  /\ op' = Idle
  /\ IF closed THEN UNCHANGED <<busy, paused>>
     ELSE busy' = unknown /\ paused' = (paused \/ unknown)

\* install() up to its first await, the call of the factory.
Install(update) ==
  IF closing THEN Finish(FALSE) /\ live' = FALSE
  ELSE /\ op' = [op EXCEPT !.at = "creating", !.update = update]
       /\ live' = TRUE
       /\ UNCHANGED <<busy, paused>>

\* The claimed coordinator has closed, or could not prove that it has.
StopRuntime(ok) ==
  /\ op.at = "stopping"
  /\ runtime = None => ok
  /\ UNCHANGED <<settings, closing, closed>>
  /\ IF ~ok THEN Finish(TRUE) /\ UNCHANGED <<runtime, live>>
     ELSE /\ runtime' = None
          /\ IF op.update # None THEN Install(op.update)
             ELSE /\ live' = FALSE
                  /\ op' = IF closing THEN Idle ELSE [op EXCEPT !.at = "leased"]
                  /\ UNCHANGED <<busy, paused>>

\* The first half of start(): the factory is called for the committed settings.
Start(stage) ==
  IF closing THEN Finish(FALSE) /\ UNCHANGED live
  ELSE Goto(stage) /\ live' = TRUE

\* install(): the candidate is there and its settings are saved, or one of the two failed.
CreateCandidate(made, saved) ==
  /\ op.at = "creating"
  /\ UNCHANGED <<closing, closed>>
  /\ IF ~made
     THEN /\ UNCHANGED <<settings, runtime>>
          /\ IF closing THEN Finish(FALSE) /\ live' = FALSE ELSE Start("rollback")
     ELSE IF closing \/ ~saved THEN Goto("discarding") /\ UNCHANGED <<settings, runtime, live>>
     ELSE /\ settings' = op.update
          /\ runtime' = op.update
          /\ UNCHANGED live
          /\ IF op.for = "unlink" THEN Goto("unlinking") ELSE Finish(FALSE)

\* install(), catch: the candidate is closed before the old settings start again.
DiscardCandidate(ok) ==
  /\ op.at = "discarding"
  /\ UNCHANGED <<settings, closing, closed>>
  /\ IF ~ok THEN runtime' = op.update /\ Finish(TRUE) /\ UNCHANGED live
     ELSE /\ UNCHANGED runtime
          /\ IF closing THEN Finish(FALSE) /\ live' = FALSE ELSE Start("rollback")

\* start() after restore() or a failed install(): a shutdown that began meanwhile stops it again.
Restart(ok) ==
  /\ op.at \in {"restoring", "rollback"}
  /\ UNCHANGED <<settings, closing, closed>>
  /\ IF ~ok THEN Finish(FALSE) /\ live' = FALSE /\ UNCHANGED runtime
     ELSE /\ runtime' = settings
          /\ UNCHANGED live
          /\ IF closing THEN Goto("retiring") ELSE Finish(FALSE)

Retire(ok) ==
  /\ op.at = "retiring"
  /\ UNCHANGED <<settings, closing, closed>>
  /\ Finish(~ok)
  /\ IF ok THEN runtime' = None /\ live' = FALSE ELSE UNCHANGED <<runtime, live>>

\* releaseLease(): the holder says whether its cleanup is proved, and what to commit.
\* valid is FALSE when prepare() refuses the update.
Release(safe, update, valid) ==
  /\ op.at = "leased"
  /\ UNCHANGED <<settings, runtime, closing, closed>>
  /\ IF closed \/ closing \/ ~safe THEN Finish(~safe) /\ UNCHANGED live
     ELSE IF update # None /\ valid /\ Prepared(update) THEN Install(update)
     ELSE /\ live' = TRUE
          /\ op' = [op EXCEPT !.at = IF update = None THEN "restoring" ELSE "rollback", !.update = update]
          /\ UNCHANGED <<busy, paused>>

====
