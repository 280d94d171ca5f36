---- MODULE Accounts ----
(***************************************************************************)
(* The account management of one bridge: the manager, the flows that       *)
(* borrow the accounts from it, the settings an operator edits, the        *)
(* sign-out of WhatsApp, and the shutdown of apps/bridge/src/              *)
(* cli-service.ts that closes them in order.                               *)
(***************************************************************************)
EXTENDS TargetPairing

CONSTANT ClientsStay   \* no operator closes a connection before it is answered

VARIABLES form,    \* the settings an operator's page was filled with
          stored,  \* the revision in the file of the settings
          shut,    \* what close() waits for
          failed   \* a step of the shutdown failed or timed out

vars == <<managerVars, flowVars, pairingVars, form, stored, shut, failed>>
rest == <<form, stored, shut, failed>>

Steps == <<"serving", "app", "telegramTarget", "target", "connections", "runtime", "exited">>

TypeOK ==
  /\ ManagerTypeOK /\ FlowTypeOK /\ PairingTypeOK
  /\ form \in Settings
  /\ stored \in 0 .. MaxRevision
  /\ shut \in {Steps[i] : i \in DOMAIN Steps}
  /\ failed \in BOOLEAN

\* startService() has started the coordinator for the committed settings.
Init ==
  /\ LET b == [on |-> TRUE, peer |-> CHOOSE p \in Peers : p # Own]
     IN settings = [revision |-> 0, bound |-> [c \in Channels |-> b]]
  /\ paused = FALSE /\ busy = FALSE /\ closing = FALSE /\ closed = FALSE
  /\ runtime = settings /\ live = TRUE /\ op = Idle
  /\ login = None /\ leaving = None
  /\ session \in BOOLEAN
  /\ sidecar = [on |-> FALSE, late |-> {}]
  /\ pairing = [c \in Channels |-> NoPairing]
  /\ eye = Closed
  /\ form = settings /\ stored = settings.revision
  /\ shut = "serving" /\ failed = FALSE

Others == UNCHANGED flowVars /\ UNCHANGED pairingVars
Serving == shut = "serving"

----------------------------------------------------------------------------
(* Settings. *)

\* GET /settings/configuration
ReadForm ==
  /\ Serving /\ form # settings
  /\ form' = settings
  /\ UNCHANGED <<stored, shut, failed>> /\ UNCHANGED managerVars /\ Others

\* PUT /settings/configuration: the page sends all settings back with one binding changed.
SaveForm(channel, on) ==
  /\ Serving
  /\ Apply("console", Rebound(form, channel, [form.bound[channel] EXCEPT !.on = on]))
  /\ UNCHANGED rest /\ Others

\* saveTelegramTarget(): the update is derived from the settings of the same turn.
SaveTelegramTarget(peer, on) ==
  /\ Serving
  /\ Apply("console", Rebound(settings, "telegram", [on |-> on, peer |-> peer]))
  /\ UNCHANGED rest /\ Others

\* unlinkWhatsAppAccount(): the receiver is switched off before anything is signed out.
Unlink ==
  /\ Serving /\ ~Open(login)
  /\ Apply("unlink", Rebound(settings, "whatsapp", [settings.bound["whatsapp"] EXCEPT !.on = FALSE]))
  /\ UNCHANGED rest /\ Others

----------------------------------------------------------------------------
(* Steps of the manager, and what its caller learns when the operation is over. *)

Told(ok) ==
  LET over == op'.at = "idle"
      done(p) == IF over /\ p.at = "committing"
                 THEN Finished(p, IF ok THEN "completed" ELSE "over") ELSE p
  IN /\ pairing' = [c \in Channels |-> IF op.for = Pairs(c) THEN done(pairing[c]) ELSE pairing[c]]
     /\ login' = IF over /\ ~ok /\ op.for = "login" THEN [login EXCEPT !.state = "failed"] ELSE login
     /\ UNCHANGED <<session, leaving, eye>>

StopForUpdate(ok) == op.update # None /\ StopRuntime(ok) /\ UNCHANGED rest /\ Others

\* commit() may fail with the new file already in place (private-files.ts): memory keeps
\* the old settings all the same.
Candidate(made, saved) ==
  /\ CreateCandidate(made, saved) /\ Told(made /\ saved /\ ~closing)
  /\ sidecar' = IF op'.at = "unlinking" THEN Send("unlink") ELSE sidecar
  /\ stored' \in IF closing \/ ~made THEN {stored}
                ELSE IF saved THEN {op.update.revision} ELSE {stored, op.update.revision}
  /\ UNCHANGED <<form, shut, failed>>

Replace(ok) ==
  /\ \/ DiscardCandidate(ok) /\ Told(FALSE)
     \/ Restart(ok) /\ Told(ok /\ op.at = "restoring")
     \/ Retire(ok) /\ Told(ok /\ op.update = None)
  /\ UNCHANGED sidecar /\ UNCHANGED rest

\* afterCommit: the sign-out is confirmed, or its outcome is unknown.
Unlinked(ok) ==
  /\ op.at = "unlinking"
  /\ Finish(~ok)
  /\ sidecar' = IF ok THEN Done("unlink") ELSE sidecar
  /\ UNCHANGED <<settings, runtime, live, closing, closed, login, session, leaving>>
  /\ UNCHANGED pairingVars /\ UNCHANGED rest

----------------------------------------------------------------------------
(* The flows. *)

StartFlow ==
  /\ Serving
  /\ \/ BeginLogin /\ UNCHANGED pairingVars
     \/ BeginDisconnect /\ UNCHANGED pairingVars
     \/ \E c \in Channels : BeginPairing(c)
  /\ UNCHANGED rest

FlowLeased(ok, channel) ==
  /\ \/ LoginLeased(ok, channel) /\ UNCHANGED pairingVars
     \/ DisconnectLeased(ok, channel) /\ UNCHANGED pairingVars
     \/ PairingLeased(channel, ok)
  /\ UNCHANGED rest

TelegramLogin ==
  /\ \/ \E ok \in BOOLEAN : OpenTelegram(ok) \/ SignIn(ok) \/ CloseLogin(ok) \/ PublishSession(ok)
     \/ \E state \in {"prompt", "qr", "starting"} : Challenge(state)
  /\ UNCHANGED pairingVars /\ UNCHANGED rest

WhatsAppLogin ==
  /\ \/ RefreshQr /\ Serving
     \/ \E status \in Statuses : ConnectAnswered(status)
     \/ ConnectFails
     \/ \E ok \in BOOLEAN : GaveUp(ok)
     \/ Poll /\ Serving
     \/ \E g \in 1 .. MaxAttempts, status \in Statuses \cup {"none"} : PollAnswered(g, status)
  /\ UNCHANGED pairingVars /\ UNCHANGED rest

CancelFlow ==
  /\ \/ CancelLogin
     \/ CancelDrained
     \/ CancelTimesOut
     \/ \E ok \in BOOLEAN : CancelDisconnected(ok)
  /\ UNCHANGED pairingVars /\ UNCHANGED rest

Disconnect(ok) == DisconnectEnds(ok) /\ UNCHANGED pairingVars /\ UNCHANGED rest

\* Whom the answer to a mutation still reaches.
Awaited(m) ==
  CASE m = "connect" -> login # None /\ login.work = "request"
    [] m = "disconnect" -> leaving # None \/ (login # None /\ (login.work = "giving up" \/ login.cancel = "disconnecting"))
    [] m = "unlink" -> op.at = "unlinking"
    [] m = "arm" -> W.at = "arming"
    [] m = "disarm" -> W.at = "cancelling" \/ (W.at = "committing" /\ op.at = "leased")

\* A mutation whose sender has given it up is performed after all.
LateEffect ==
  /\ \E m \in sidecar.late : ~Awaited(m) /\ sidecar' = Done(m)
  /\ UNCHANGED <<login, session, leaving>> /\ UNCHANGED managerVars
  /\ UNCHANGED pairingVars /\ UNCHANGED rest

TargetFlow ==
  /\ \/ \E ok \in BOOLEAN : AccountChecked(ok) \/ AccountVerified(ok) \/ PairingDisarmed(ok)
     \/ \E c \in Candidates \cup {None} : ArmAnswered(c) \/ PairingObserved(c)
     \/ ArmFails
     \/ PollPairing /\ Serving
     \/ ConfirmTarget(W.cand) /\ Serving
     \/ \E ok, valid \in BOOLEAN : ConfirmDisarmed(ok, valid)
     \/ CancelPairing
  /\ UNCHANGED rest

TelegramFlow ==
  /\ \/ EyeConnects \/ EyeAborted \/ EyeBreaks
     \/ \E ok \in BOOLEAN : EyeFails(ok) \/ TelegramClosed(ok)
     \/ \E p \in Peers : EyeSelects(p)
     \/ \E id \in Ids : PollTelegram(id) /\ Serving
     \/ \E id \in Ids, ok \in BOOLEAN : ConfirmTelegram(T.cand, id, ok) /\ Serving
     \/ \E ok, valid \in BOOLEAN : TelegramCommits(ok, valid)
     \/ AbortTelegram /\ Serving
     \/ CancelTelegram
  /\ UNCHANGED rest

Deadline(channel) == PairingDue(channel) /\ UNCHANGED rest

----------------------------------------------------------------------------
(* close() of the service. *)

BeginClose ==
  /\ shut = "serving"
  /\ shut' = "app" /\ form' = settings
  /\ UNCHANGED <<stored, failed>> /\ UNCHANGED managerVars /\ Others

\* A request that is certainly still to be answered.  What a deadline or the work of a
\* login may have begun as well is nobody's request: the cancellation of an overdue flow,
\* the release of a lease, the sidecar's answer to an attempt.
Requests ==
  \/ op.at = "stopping" \/ op.for \in {"console", "unlink", "disconnect"}
  \/ login # None /\ (login.work = "opening" \/ login.polls # {})
  \/ \E c \in Channels : pairing[c].at # "none" /\ (pairing[c].at = "cancelling" => ~pairing[c].due)

\* app.close() is over, or was not in five seconds, whoever kept a connection open;
\* then beginShutdown() and the first close().
AppClosed(late) ==
  /\ shut = "app"
  /\ ~late /\ Requests => ~ClientsStay
  /\ shut' = "telegramTarget" /\ failed' = (failed \/ late)
  /\ closing' = TRUE
  /\ pairing' = [pairing EXCEPT !["telegram"].closing = TRUE]
  /\ eye' = [eye EXCEPT !.aborted = ~PairingOver(T)]
  /\ UNCHANGED <<form, stored, settings, paused, busy, runtime, live, op, closed>>
  /\ UNCHANGED flowVars

Quiet(owner) == op.for # owner \/ op.at = "leased"
PairingClosed(c) == PairingOver(pairing[c]) /\ pairing[c].at = "none" /\ Quiet(Pairs(c))

TelegramTargetClosed(late) ==
  /\ shut = "telegramTarget" /\ late = ~PairingClosed("telegram")
  /\ shut' = "target" /\ failed' = (failed \/ late)
  /\ pairing' = [pairing EXCEPT !["whatsapp"].closing = TRUE]
  /\ UNCHANGED <<form, stored, eye>> /\ UNCHANGED managerVars /\ UNCHANGED flowVars

TargetClosed(late) ==
  /\ shut = "target" /\ late = ~PairingClosed("whatsapp")
  /\ shut' = "connections" /\ failed' = (failed \/ late)
  /\ UNCHANGED <<form, stored>> /\ UNCHANGED managerVars /\ Others

ConnectionsClosed(late) ==
  /\ shut = "connections"
  /\ late = (Open(login) \/ (~Quiet("login") /\ op.at # "stopping"))
  /\ shut' = "runtime" /\ failed' = (failed \/ late)
  /\ UNCHANGED <<form, stored>> /\ UNCHANGED managerVars /\ Others

\* close() of the manager waits for its operation, stops the coordinator, and the
\* service makes any failure a pause before it lets the store go.
Exit(ok) ==
  /\ shut = "runtime"
  /\ ok => op.at \in {"idle", "leased"}
  /\ op.at \in {"idle", "leased"} /\ runtime = None => ok
  /\ shut' = "exited" /\ closed' = TRUE
  /\ failed' = (failed \/ ~ok) /\ paused' = (paused \/ failed \/ ~ok)
  /\ IF ok THEN runtime' = None /\ live' = FALSE ELSE UNCHANGED <<runtime, live>>
  /\ UNCHANGED <<form, stored, settings, busy, op, closing>> /\ Others

Shutdown ==
  \/ BeginClose
  \/ \E b \in BOOLEAN : \/ AppClosed(b) \/ TelegramTargetClosed(b) \/ TargetClosed(b)
                        \/ ConnectionsClosed(b) \/ Exit(b)

Manager ==
  \/ \E ok \in BOOLEAN : StopForUpdate(ok) \/ Replace(ok) \/ Unlinked(ok)
  \/ \E ok \in BOOLEAN, c \in Channels : FlowLeased(ok, c)
  \/ \E made, saved \in BOOLEAN : Candidate(made, saved)

Operator ==
  \/ ReadForm
  \/ \E c \in Channels, on \in BOOLEAN : SaveForm(c, on)
  \/ \E p \in Peers, on \in BOOLEAN : SaveTelegramTarget(p, on)
  \/ Unlink
  \/ StartFlow

Next ==
  /\ shut # "exited"
  /\ \/ Manager \/ Operator \/ Shutdown
     \/ TelegramLogin \/ WhatsAppLogin \/ CancelFlow \/ TargetFlow \/ TelegramFlow
     \/ LateEffect
     \/ \E ok \in BOOLEAN : Disconnect(ok)
     \/ \E c \in Channels : Deadline(c)

Spec == Init /\ [][Next]_vars

\* Steps nobody outside can withhold: awaits the code bounds by a deadline return, a
\* coordinator can be made and closed, and a shutdown that has begun goes on.  Nothing is
\* assumed of the operator, of the SDK's sign-in or of what the observers see.
Progress ==
  \/ Manager
  \/ \E ok \in BOOLEAN : Disconnect(ok)
  \/ CancelFlow
  \/ TelegramLogin /\ login.work # "sdk"
  \/ WhatsAppLogin /\ login.work \in {"request", "giving up"}
  \/ TargetFlow /\ (W.at # "none" \/ W.due)
  \/ TelegramFlow /\ (T.at # "none" \/ T.due)
  \/ shut # "serving" /\ Shutdown

\* The deadlines of the three flows fire.
Fairness == /\ WF_vars(Progress)
            /\ WF_vars(CancelLogin /\ UNCHANGED pairingVars /\ UNCHANGED rest)
            /\ \A c \in Channels : WF_vars(Deadline(c))
FairSpec == Spec /\ Fairness

----------------------------------------------------------------------------
(* Properties. *)

\* What may be using the account of a channel: a coordinator made from settings that
\* switch the channel on, the client of a login, the observer of a pairing, the sidecar's
\* attempt.  A cleanup of unknown outcome counts as a user.
CoordinatorUses(c) ==
  LET made == IF runtime # None THEN runtime
              ELSE IF op.at \in {"creating", "discarding"} THEN op.update ELSE settings
  IN live /\ made.bound[c].on
Users(c) == {u \in {"coordinator", "login", "observer", "sidecar"} :
  CASE u = "coordinator" -> CoordinatorUses(c)
    [] u = "login" -> c = "telegram" /\ login # None /\ login.client
    [] u = "observer" -> c = "telegram" /\ (eye.client \/ eye.late)
    [] u = "sidecar" -> c = "whatsapp" /\ SidecarBusy}

\* An account never has two users, whatever was cancelled, timed out or shut down.
OneOwner == \A c \in Channels : Cardinality(Users(c)) <= 1

\* Somebody is in charge of the user: an operation or a flow that is not over.
InCharge(u) ==
  CASE u = "coordinator" -> runtime # None \/ op.at \notin {"idle", "leased"}
    [] u = "login" -> Open(login)
    [] u = "observer" -> ~PairingOver(T)
    [] u = "sidecar" -> Open(login) \/ ~PairingOver(W) \/ leaving # None \/ op.at = "unlinking"

\* A user nobody is in charge of keeps the manager and the durable pause, and so does
\* every user the process leaves behind.
UnknownIsHeld ==
  /\ \A c \in Channels : \A u \in Users(c) : ~InCharge(u) => busy /\ paused
  /\ shut = "exited" /\ (\E c \in Channels : Users(c) # {}) => paused

\* Outside an operation the coordinator runs the settings that are committed.
RunsCommitted == runtime \notin {None, settings} => busy /\ paused

\* The next start commits what the file has.  It takes back no change that was answered as
\* saved, whatever was tried after it, and brings at most the one change of the present
\* settings that failed half-way (configuration-store.ts:116).
SavedIsKept == stored \in {settings.revision, settings.revision + 1}

RunningIsCommitted == RunsCommitted /\ SavedIsKept

\* A commit is one revision on the last, changes one binding, and a binding found by
\* pairing is the candidate the operator confirmed, never the account itself.
Commit ==
  /\ \E c \in Channels : settings' = Rebound(settings, c, settings'.bound[c])
  /\ \A c \in Channels : op.for = Pairs(c) =>
        /\ settings'.bound[c].peer = pairing[c].ask.peer
        /\ settings'.bound[c].peer # Own
CommitsAreMeant == [][settings' # settings => Commit]_vars

\* A Telegram login that ended as cancelled or expired has left no session behind.
CancelledLeavesNoSession ==
  login # None /\ login.signed /\ login.state = "cancelled" => ~session

\* A code on display belongs to the latest attempt the operator asked for.
ShownQrIsCurrent == login # None /\ login.qr # 0 => login.qr = login.gen

\* What the operator sees of a login is what there is of it.
LoginIsHonest == CancelledLeavesNoSession /\ ShownQrIsCurrent

\* Whoever has borrowed the accounts gives them back, or the process has shut down.
LeaseEnds == op.at # "idle" ~> (op.at = "idle" \/ shut = "exited")

====
