---- MODULE TargetPairing ----
(***************************************************************************)
(* Finding the receiving number (apps/bridge/src/target-pairing-service.ts *)
(* for WhatsApp, telegram-pairing-service.ts and packages/telegram/src/    *)
(* pairing.ts for Telegram) under a lease of the manager.  Each service    *)
(* runs one request at a time; an observer shows a candidate, and only     *)
(* what the operator confirms is bound.                                    *)
(***************************************************************************)
EXTENDS ConnectionFlow

CONSTANTS Ids,   \* identities of candidates
          Own    \* the number of the observing account itself, one of Peers

\* There is somebody else to call.
ASSUME OwnAssumption == Own \in Peers /\ \E p \in Peers : p # Own

VARIABLES pairing,  \* the current Flow of each channel
          eye       \* the Telegram observer: its client and what it selected

pairingVars == <<pairing, eye>>

Candidates == [id : Ids, peer : Peers]
NoPairing == [state |-> "over", at |-> "none", cand |-> None, ask |-> None,
              base |-> None, due |-> FALSE, closing |-> FALSE]

PairingTypeOK ==
  /\ pairing \in [Channels ->
       [state : {"new", "waiting", "candidate", "completed", "over"},
        at : {"none", "account", "connecting", "arming", "polling", "checking", "verifying",
              "cancelling", "committing"},
        cand : Candidates \cup {None}, ask : Candidates \cup {None},
        base : Settings \cup {None}, due : BOOLEAN, closing : BOOLEAN]]
  /\ eye \in [client : BOOLEAN, late : BOOLEAN, chosen : Peers \cup {None},
             aborted : BOOLEAN, failed : BOOLEAN]

\* "over" stands for the states cancelled, expired and failed of the code.
PairingOver(p) == p.state \in {"completed", "over"}
Finished(p, state) == [NoPairing EXCEPT !.state = state, !.closing = p.closing]
Closed == [client |-> FALSE, late |-> FALSE, chosen |-> None, aborted |-> FALSE, failed |-> FALSE]
Pairs(channel) == IF channel = "whatsapp" THEN "target" ELSE "telegramTarget"
Pair(channel, p) == pairing' = [pairing EXCEPT ![channel] = p]

\* The request that runs awaits something; the serial queue keeps the others out.
Free(channel) == pairing[channel].at = "none" /\ (op.for = Pairs(channel) => op.at = "leased")

Held == UNCHANGED managerVars /\ UNCHANGED <<login, session, leaving>>
Stay(channel, p) == Pair(channel, p) /\ Held

\* release() of the flow, with the update to commit, if any.
EndPairing(channel, p, safe, update, valid) ==
  /\ Pair(channel, p)
  /\ Release(safe, update, valid)
  /\ UNCHANGED <<login, session, leaving>>

\* start(): the lease; then the account and the observer.
BeginPairing(channel) ==
  /\ Free(channel) /\ PairingOver(pairing[channel]) /\ ~pairing[channel].closing
  /\ Acquire(Pairs(channel))
  /\ UNCHANGED pairingVars /\ UNCHANGED flowVars

PairingLeased(channel, ok) ==
  /\ op.for = Pairs(channel)
  /\ StopRuntime(ok)
  /\ UNCHANGED flowVars
  /\ IF op'.at # "leased" THEN UNCHANGED pairingVars
     ELSE /\ Pair(channel, [pairing[channel] EXCEPT
                 !.state = "new", !.base = settings, !.cand = None, !.ask = None, !.due = FALSE,
                 !.at = IF channel = "whatsapp" THEN "account" ELSE "connecting"])
          /\ eye' = IF channel = "whatsapp" THEN eye
                    ELSE [Closed EXCEPT !.late = TRUE]

\* The timer of the flow; for Telegram it also aborts the observer at once.
PairingDue(channel) ==
  /\ ~PairingOver(pairing[channel]) /\ ~pairing[channel].due
  /\ Stay(channel, [pairing[channel] EXCEPT !.due = TRUE])
  /\ eye' = IF channel = "telegram" THEN [eye EXCEPT !.aborted = TRUE] ELSE eye
  /\ UNCHANGED sidecar

\* Faulty: an observed identity replaces the one shown before.
AgreesWithAny(p, c) == c.peer # Own
\* observe() and refresh(): a candidate is never the account itself and never changes.
AgreesWith(p, c) == c.peer # Own /\ (p.cand # None => p.cand = c)

Observed(p, c) == [p EXCEPT !.state = "candidate", !.cand = c]

----------------------------------------------------------------------------
(* WhatsApp: the observer is the sidecar's. *)

W == pairing["whatsapp"]
EndW(safe) == EndPairing("whatsapp", Finished(W, "over"), safe, None, TRUE)

\* start(): the account must be open before the observer is armed.
AccountChecked(open) ==
  /\ W.at = "account"
  /\ UNCHANGED eye
  /\ IF ~open THEN EndW(TRUE) /\ UNCHANGED sidecar
     ELSE Stay("whatsapp", [W EXCEPT !.state = "waiting", !.at = "arming"]) /\ sidecar' = Send("arm")

\* cancelFlow() for WhatsApp: the sidecar is told to drop the observer.
Disarm(p, at) == Stay("whatsapp", [p EXCEPT !.at = at]) /\ sidecar' = Send("disarm")

\* start(): the observer answers, with a candidate already or not, or it does not.
ArmAnswered(c) ==
  /\ W.at = "arming" /\ "arm" \in sidecar.late
  /\ UNCHANGED eye
  /\ IF W.closing \/ W.due
     THEN /\ Stay("whatsapp", [W EXCEPT !.at = "cancelling"])
          /\ sidecar' = [Done("arm") EXCEPT !.late = @ \cup {"disarm"}]
     ELSE /\ sidecar' = Done("arm")
          /\ IF c = None THEN Stay("whatsapp", [W EXCEPT !.at = "none"])
             ELSE IF AgreesWith(W, c) THEN Stay("whatsapp", [Observed(W, c) EXCEPT !.at = "none"])
             ELSE EndW(FALSE)
ArmFails ==
  /\ W.at = "arming"
  /\ EndW(FALSE)
  /\ UNCHANGED <<eye, sidecar>>

\* status(): past the deadline the flow is cancelled, else the observer is asked.
PollPairing ==
  /\ Free("whatsapp") /\ ~PairingOver(W)
  /\ UNCHANGED eye
  /\ IF W.due THEN Disarm(W, "cancelling")
     ELSE Stay("whatsapp", [W EXCEPT !.at = "polling"]) /\ UNCHANGED sidecar

\* confirm(): the candidate is asked for again, then the account, then the observer is disarmed.
ConfirmTarget(c) ==
  /\ Free("whatsapp") /\ ~PairingOver(W) /\ ~W.closing /\ c # None
  /\ UNCHANGED eye
  /\ IF W.due THEN Disarm(W, "cancelling")
     ELSE Stay("whatsapp", [W EXCEPT !.at = "checking", !.ask = c]) /\ UNCHANGED sidecar

\* refresh() for status() and confirm(); None is no answer, or none that agrees.
PairingObserved(c) ==
  /\ W.at \in {"polling", "checking"}
  /\ UNCHANGED <<eye, sidecar>>
  /\ LET p == IF c # None /\ AgreesWith(W, c) THEN Observed(W, c) ELSE W
         go == W.at = "checking" /\ c # None /\ AgreesWith(W, c) /\ p.cand.id = W.ask.id
     IN Stay("whatsapp", [p EXCEPT !.at = IF go THEN "verifying" ELSE "none"])

AccountVerified(same) ==
  /\ W.at = "verifying"
  /\ UNCHANGED eye
  /\ IF ~same THEN Stay("whatsapp", [W EXCEPT !.at = "none"]) /\ UNCHANGED sidecar
     ELSE Disarm(W, IF W.due THEN "cancelling" ELSE "committing")

\* confirm(): the observer is gone for certain and the number is committed, or nothing is.
ConfirmDisarmed(ok, valid) ==
  /\ W.at = "committing" /\ op.at = "leased"
  /\ ok => "disarm" \in sidecar.late
  /\ sidecar' = IF ok THEN Done("disarm") ELSE sidecar
  /\ UNCHANGED eye
  /\ IF ~ok THEN EndW(FALSE)
     ELSE IF W.closing \/ W.due \/ closing THEN EndW(TRUE)
     ELSE EndPairing("whatsapp", W, TRUE,
            Rebound(W.base, "whatsapp", [on |-> TRUE, peer |-> W.cand.peer]), valid)

\* cancelFlow(), queued by the operator or close(), or by the timer.
CancelPairing ==
  /\ Free("whatsapp") /\ ~PairingOver(W)
  /\ Disarm(W, "cancelling") /\ UNCHANGED eye
PairingDisarmed(ok) ==
  /\ W.at = "cancelling"
  /\ ok => "disarm" \in sidecar.late
  /\ sidecar' = IF ok THEN Done("disarm") ELSE sidecar
  /\ EndW(ok)
  /\ UNCHANGED eye

----------------------------------------------------------------------------
(* Telegram: the observer is a client of this process. *)

T == pairing["telegram"]
EndT(safe) == EndPairing("telegram", Finished(T, "over"), safe, None, TRUE)
StayT(p) == Stay("telegram", p) /\ UNCHANGED sidecar

\* observeTelegramPairing(): connected in time; a connection that comes after an
\* abort is closed when it comes, but nobody waits for that.
EyeConnects ==
  /\ T.at = "connecting" /\ ~eye.aborted
  /\ eye' = [eye EXCEPT !.client = TRUE, !.late = FALSE]
  /\ StayT([T EXCEPT !.at = "none", !.state = "waiting"])
EyeFails(clean) ==
  /\ T.at = "connecting" /\ ~eye.aborted
  /\ eye' = [Closed EXCEPT !.late = ~clean]
  /\ EndT(clean) /\ UNCHANGED sidecar
EyeAborted ==
  /\ T.at = "connecting" /\ eye.aborted
  /\ eye' = [Closed EXCEPT !.late = TRUE]
  /\ EndT(FALSE) /\ UNCHANGED sidecar

\* A message or a call arrives: the first good one is selected and stays selected.
EyeSelects(peer) ==
  /\ eye.client /\ ~eye.aborted /\ eye.chosen = None /\ peer # Own
  /\ T.at # "cancelling"
  /\ eye' = [eye EXCEPT !.chosen = peer]
  /\ UNCHANGED <<pairing, sidecar>> /\ Held

\* The rejection of a verification call is not confirmed.
EyeBreaks ==
  /\ eye.client /\ ~eye.aborted /\ eye.chosen = None /\ ~eye.failed
  /\ eye' = [eye EXCEPT !.failed = TRUE]
  /\ UNCHANGED <<pairing, sidecar>> /\ Held

\* refresh(): what was seen is shown under a new identity; it may not be gone later.
Seen(id) ==
  IF eye.aborted \/ eye.chosen = None \/ T.cand # None THEN T
  ELSE Observed(T, [id |-> id, peer |-> eye.chosen])
Unclear == eye.failed \/ (T.cand # None /\ eye.aborted)

CloseEye == eye' = [eye EXCEPT !.aborted = TRUE] /\ StayT([T EXCEPT !.at = "cancelling"])
Watching == Free("telegram") /\ ~PairingOver(T)

PollTelegram(id) ==
  /\ Watching
  /\ IF T.due \/ Unclear THEN CloseEye
     ELSE StayT(Seen(id)) /\ UNCHANGED eye

\* confirm(): the selected peer is stored with the session, then the observer is closed.
ConfirmTelegram(c, id, stored) ==
  /\ Watching /\ ~T.closing /\ c # None
  /\ IF T.due \/ eye.aborted \/ Unclear THEN CloseEye
     ELSE IF T.cand = None \/ T.cand.id # c.id THEN StayT(Seen(id)) /\ UNCHANGED eye
     ELSE IF ~stored THEN CloseEye
     ELSE StayT([T EXCEPT !.at = "committing", !.ask = c]) /\ UNCHANGED eye

\* confirm(): the observer is gone for certain and the identity is committed, or nothing is.
TelegramCommits(ok, valid) ==
  /\ T.at = "committing" /\ op.at = "leased"
  /\ UNCHANGED sidecar
  /\ eye' = [Closed EXCEPT !.client = ~ok]
  /\ IF ~ok THEN EndT(FALSE)
     ELSE IF T.closing \/ eye.aborted \/ closing THEN EndT(TRUE)
     ELSE EndPairing("telegram", T, TRUE,
            Rebound(settings, "telegram", [on |-> TRUE, peer |-> T.cand.peer]), valid)

\* cancel() aborts the observer before its own turn comes.
AbortTelegram ==
  /\ ~PairingOver(T) /\ T.state # "new" /\ ~eye.aborted
  /\ eye' = [eye EXCEPT !.aborted = TRUE]
  /\ UNCHANGED <<pairing, sidecar>> /\ Held
CancelTelegram == Watching /\ CloseEye
TelegramClosed(ok) ==
  /\ T.at = "cancelling"
  /\ ok => ~eye.failed
  /\ eye' = [Closed EXCEPT !.client = ~ok]
  /\ EndT(ok)
  /\ UNCHANGED sidecar

====
