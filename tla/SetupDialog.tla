------------------------------ MODULE SetupDialog ------------------------------
(***************************************************************************)
(* A console dialog in front of a login or pairing of the service: what    *)
(* ConnectionLogin, TelegramTargetPairingForm and WhatsAppSetup's pairing  *)
(* show while their polls, the operator's actions and the service's own    *)
(* steps overtake each other (apps/console/src/connection-login.tsx,       *)
(* telegram-target-pairing.tsx, whatsapp-setup.tsx, telegram-setup.tsx).   *)
(*                                                                         *)
(* The first two isolate their polls from actions; the third does not.     *)
(* The service's side is ConnectionFlow and TargetPairing; here a flow is  *)
(* its id and the number of steps it has made.                             *)
(***************************************************************************)
EXTENDS Naturals

CONSTANTS
  MaxFlows,   \* bound: flows the service ever starts
  MaxSteps    \* bound: steps of one flow

VARIABLES
  flow,     \* the service's flow
  dialog,   \* isolated or not, opened, what it shows, the last answer to an action
  cached,   \* the data of the query on display: poll.data
  poll,     \* the request of that query, or none
  action,   \* the operator's action under way
  lapse     \* an answer was lost, or the page left: the service may know of a flow
            \* the dialog does not

setupVars == <<flow, dialog, cached, poll, action, lapse>>

NoFlow == [id |-> 0, step |-> 0, active |-> FALSE, failed |-> FALSE]
NoPoll == [at |-> "none", id |-> 0, view |-> NoFlow]
NoAction == [at |-> "none", kind |-> "none", id |-> 0, view |-> NoFlow]

SetupInit ==
  /\ flow = NoFlow /\ cached = NoFlow /\ poll = NoPoll /\ action = NoAction /\ lapse = FALSE
  /\ \E isolated \in BOOLEAN :
       dialog = [isolated |-> isolated, opened |-> FALSE, shown |-> NoFlow, answered |-> NoFlow]

\* connectionTerminal, activePairing
ActiveShown == dialog.shown.active
Busy == action.at # "none"

-----------------------------------------------------------------------------
(* The service.                                                             *)

\* A code is scanned, a candidate found, the flow expires or fails.
FlowMoves(active) ==
  /\ flow.active /\ flow.step < MaxSteps
  /\ \E failed \in BOOLEAN : /\ failed => ~active
                             /\ flow' = [flow EXCEPT !.step = @ + 1, !.active = active, !.failed = failed]
  /\ UNCHANGED <<dialog, cached, poll, action, lapse>>

\* It carries out an action, or refuses: another flow is active, this one is over or
\* has moved on, unlinking meets a flow.
ServeAction ==
  LET Answers(next) == flow' = next /\ action' = [action EXCEPT !.at = "answered", !.view = next]
      mine == flow.id = action.id /\ flow.active
  IN
  /\ action.at = "sent"
  /\ \/ /\ action.kind = "start" /\ ~flow.active /\ flow.id < MaxFlows
        /\ Answers([NoFlow EXCEPT !.id = flow.id + 1, !.active = TRUE])
     \/ /\ action.kind = "advance" /\ mine /\ flow.step < MaxSteps
        /\ \E active \in BOOLEAN : Answers([flow EXCEPT !.step = @ + 1, !.active = active])
     \/ /\ action.kind \in {"cancel", "close"} /\ mine
        /\ \E failed \in BOOLEAN : Answers([flow EXCEPT !.step = @ + 1, !.active = FALSE, !.failed = failed])
     \/ action.kind \in {"cancel", "close"} /\ flow.id = action.id /\ ~flow.active /\ Answers(flow)
     \/ action.kind = "unlink" /\ ~flow.active /\ flow' = flow /\ action' = [action EXCEPT !.at = "answered"]
     \/ flow' = flow /\ action' = [action EXCEPT !.at = "refused"]
  /\ UNCHANGED <<dialog, cached, poll, lapse>>

-----------------------------------------------------------------------------
(* Polling.  The query library keeps one request per key; a key is the id   *)
(* shown.  A cancelled request is dropped, so that the generation the key   *)
(* has besides, where polls are isolated, tells nothing more apart.         *)

\* Faulty: polls go on during an action.
PollsThroughActions == dialog.opened /\ ActiveShown

\* enabled
PollEnabled == dialog.opened /\ ActiveShown /\ (dialog.isolated => ~Busy \/ action.kind = "close")

\* Every two seconds.
PollSent ==
  /\ PollEnabled /\ poll = NoPoll
  /\ poll' = [NoPoll EXCEPT !.at = "sent", !.id = dialog.shown.id]
  /\ UNCHANGED <<flow, dialog, cached, action, lapse>>

\* The service answers with the flow, or does not know it any more.
ServePoll ==
  /\ poll.at = "sent"
  /\ poll' = IF poll.id = flow.id THEN [poll EXCEPT !.at = "answered", !.view = flow] ELSE NoPoll
  /\ UNCHANGED <<flow, dialog, cached, action, lapse>>

Watched == poll.id = dialog.shown.id

\* The answer becomes the data of its query; an effect shows it when it is new data of
\* the query on display and, where polls are isolated, no action is under way.
PollArrives ==
  /\ poll.at = "answered" /\ poll' = NoPoll
  /\ cached' = IF Watched THEN poll.view ELSE cached
  /\ dialog' = IF Watched /\ poll.view # cached /\ (dialog.isolated => ~Busy \/ action.kind = "close")
               THEN [dialog EXCEPT !.shown = poll.view] ELSE dialog
  /\ UNCHANGED <<flow, action, lapse>>
PollFails ==
  /\ poll # NoPoll /\ poll' = NoPoll /\ UNCHANGED <<flow, dialog, cached, action, lapse>>

-----------------------------------------------------------------------------
(* The operator.                                                            *)

Open == /\ ~dialog.opened /\ dialog' = [dialog EXCEPT !.opened = TRUE]
        /\ UNCHANGED <<flow, cached, poll, action, lapse>>

SendAction(kind) == action' = [NoAction EXCEPT !.at = "sent", !.kind = kind, !.id = dialog.shown.id]

\* act() of a login or a Telegram pairing: the query's request is cancelled and its data
\* removed.
ActIsolated(kind) ==
  /\ dialog.isolated /\ dialog.opened /\ ~Busy
  /\ SendAction(kind) /\ poll' = NoPoll /\ cached' = NoFlow /\ UNCHANGED <<flow, dialog, lapse>>

\* act() of a WhatsApp pairing: the request is cancelled, another may follow it at once.
ActPairing(kind) ==
  /\ ~dialog.isolated /\ dialog.opened /\ ~Busy
  /\ SendAction(kind) /\ poll' = NoPoll /\ UNCHANGED <<flow, dialog, cached, lapse>>

Act(kind) == ActIsolated(kind) \/ ActPairing(kind)

\* The buttons and forms: without an active flow one can be started; an active one
\* takes a code, a password, a fresh QR code or a confirmation, or is cancelled.
StartFlow == ~ActiveShown /\ Act("start")
AdvanceFlow == ActiveShown /\ Act("advance")
CancelFlow == ActiveShown /\ Act("cancel")

\* The answer is the query's data and what is shown.
ActionAnswered ==
  /\ action.at = "answered" /\ action.kind \in {"start", "advance", "cancel"} /\ action' = NoAction
  /\ cached' = action.view /\ dialog' = [dialog EXCEPT !.shown = action.view, !.answered = action.view]
  /\ UNCHANGED <<flow, poll, lapse>>

\* unlink(), and the end of it: every flow is dropped, with its requests.
Unlink ==
  /\ dialog.opened /\ ~Busy /\ ~ActiveShown
  /\ SendAction("unlink") /\ UNCHANGED <<flow, dialog, cached, poll, lapse>>
UnlinkAnswered ==
  /\ action.at = "answered" /\ action.kind = "unlink" /\ action' = NoAction
  /\ cached' = NoFlow /\ poll' = NoPoll
  /\ dialog' = [dialog EXCEPT !.shown = NoFlow, !.answered = NoFlow]
  /\ UNCHANGED <<flow, lapse>>

\* An error is shown, and what was shown before stays.
ActionFails ==
  /\ \/ action.at = "refused" /\ lapse' = lapse
     \/ action.at \in {"sent", "answered"} /\ lapse' = TRUE
  /\ action' = NoAction /\ UNCHANGED <<flow, dialog, cached, poll>>

\* close(): an active flow is cancelled first.
Close ==
  /\ dialog.opened /\ ~Busy /\ poll' = NoPoll
  /\ IF ActiveShown
     THEN /\ SendAction("close")
          /\ UNCHANGED <<dialog, cached>>
     ELSE /\ dialog' = [dialog EXCEPT !.opened = FALSE, !.shown = NoFlow, !.answered = NoFlow]
          /\ cached' = NoFlow /\ action' = action
  /\ UNCHANGED <<flow, lapse>>

\* A cancellation that failed keeps the dialog open with its error; a login inside it
\* shows the failure by its next poll, merged with this step.
CloseAnswered ==
  /\ action.at = "answered" /\ action.kind = "close" /\ action' = NoAction
  /\ IF action.view.failed
     THEN /\ dialog' = [dialog EXCEPT !.shown = action.view]
          /\ cached' = IF dialog.isolated THEN cached ELSE action.view
          /\ poll' = poll
     ELSE /\ dialog' = [dialog EXCEPT !.opened = FALSE, !.shown = NoFlow, !.answered = NoFlow]
          /\ cached' = NoFlow /\ poll' = NoPoll
  /\ UNCHANGED <<flow, lapse>>

\* The page is left or loaded again: the flow stays with the service.
LeavePage ==
  /\ dialog' = [dialog EXCEPT !.opened = FALSE, !.shown = NoFlow, !.answered = NoFlow]
  /\ cached' = NoFlow /\ poll' = NoPoll /\ action' = NoAction
  /\ lapse' = (lapse \/ flow.active \/ action.at = "sent") /\ flow' = flow

SetupNext ==
  \/ ServeAction \/ PollSent \/ ServePoll \/ PollArrives \/ PollFails
  \/ Open \/ StartFlow \/ AdvanceFlow \/ CancelFlow \/ ActionAnswered \/ ActionFails
  \/ Unlink \/ UnlinkAnswered \/ Close \/ CloseAnswered \/ LeavePage
  \/ \E active \in BOOLEAN : FlowMoves(active)

-----------------------------------------------------------------------------

\* Where polls are isolated, what is on display is never older than the answer to what
\* the operator did last (connection-login.tsx:113, telegram-target-pairing.tsx:97).
ShownIsFresh ==
  dialog.isolated /\ dialog.shown.id = dialog.answered.id => dialog.shown.step >= dialog.answered.step

\* "Closing this window cancels pairing. If you leave this page, pairing remains open"
\* (whatsapp-setup.tsx:379): a closed dialog leaves no flow behind that it knew of.
ClosingCancels == ~dialog.opened /\ flow.active => lapse

\* The dialog tells the operator how things stand, and leaves nothing open.
DialogIsHonest == ShownIsFresh /\ ClosingCancels
=============================================================================
