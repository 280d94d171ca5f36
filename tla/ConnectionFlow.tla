---- MODULE ConnectionFlow ----
(***************************************************************************)
(* Signing an account in and out (apps/bridge/src/connection-service.ts,   *)
(* connection-whatsapp.ts, packages/telegram/src/account.ts) under a lease *)
(* of the manager.  Telegram signs in through a client of its own;         *)
(* WhatsApp through the sidecar, whose requests may take effect after the  *)
(* deadline of their sender has passed.                                    *)
(***************************************************************************)
EXTENDS RuntimeManager

CONSTANT MaxAttempts   \* bound on the generations of one flow

VARIABLES login,     \* the current Flow
          session,   \* the Telegram session file exists
          sidecar,   \* what the sidecar does with the account
          leaving    \* the channel a disconnect() signs off

flowVars == <<login, session, sidecar, leaving>>

\* "cancelled" stands for the states cancelled and expired of the code.
Terminal == {"connected", "cancelled", "failed"}
Mutations == {"connect", "disconnect", "unlink", "arm", "disarm"}

\* A flow: what it shows, what it waits for, how far its cancellation is, the client it
\* opened, the generation of its latest attempt and of the code on display.
Flow == [channel : Channels,
         state : Terminal \cup {"starting", "prompt", "qr"},
         work : {"none", "opening", "sdk", "closing", "publishing", "request", "giving up"},
         cancel : {"no", "draining", "disconnecting"},
         aborted : BOOLEAN, unknown : BOOLEAN, client : BOOLEAN, signed : BOOLEAN,
         gen : 0 .. MaxAttempts, qr : 0 .. MaxAttempts, polls : SUBSET (0 .. MaxAttempts)]

ASSUME FlowAssumption == MaxAttempts \in Nat \ {0} /\ None \notin Flow

FlowTypeOK ==
  /\ login \in Flow \cup {None}
  /\ session \in BOOLEAN
  /\ sidecar \in [on : BOOLEAN, late : SUBSET Mutations]
  /\ leaving \in Channels \cup {None}

\* The sidecar may be using the account for an attempt or an observer.
SidecarBusy == sidecar.on \/ sidecar.late # {}

Open(flow) == flow # None /\ flow.state \notin Terminal

\* A mutation is sent; its effect may come at any later time.
Send(m) == [sidecar EXCEPT !.late = @ \cup {m}]
\* The sidecar has performed m.
Done(m) == [sidecar EXCEPT !.late = @ \ {m}, !.on = m \in {"connect", "arm"}]

\* begin() and the start of the login: the lease is there, the flow is new.
BeginLogin == ~Open(login) /\ Acquire("login") /\ UNCHANGED flowVars
LoginLeased(ok, channel) ==
  /\ op.for = "login"
  /\ StopRuntime(ok)
  /\ UNCHANGED <<session, leaving>>
  /\ IF op'.at # "leased" THEN UNCHANGED <<login, sidecar>>
     ELSE /\ login' = [channel |-> channel, state |-> "starting", cancel |-> "no",
                       work |-> IF channel = "telegram" THEN "opening" ELSE "request",
                       aborted |-> FALSE, unknown |-> FALSE, client |-> FALSE, signed |-> FALSE,
                       gen |-> IF channel = "telegram" THEN 0 ELSE 1, qr |-> 0, polls |-> {}]
          /\ sidecar' = IF channel = "telegram" THEN sidecar
                        ELSE Send("connect")

\* A flow that is over: polls still in flight will find it so.
Over(flow, state) ==
  [flow EXCEPT !.state = state, !.cancel = "no", !.unknown = FALSE, !.gen = 0, !.qr = 0, !.polls = {}]

\* finish(): the flow is over and gives its lease back, once.
FinishLogin(flow, state, safe) ==
  IF flow.state \in Terminal THEN login' = Over(flow, flow.state) /\ UNCHANGED managerVars
  ELSE /\ login' = Over(flow, state)
       /\ Release(safe, None, TRUE)

Continue(flow) == login' = flow /\ UNCHANGED managerVars

\* The end of flow.work: nothing is finished here once the flow was aborted.
WorkEnds(flow, state, safe) ==
  LET f == [flow EXCEPT !.work = "none", !.unknown = ~safe]
  IN IF flow.state \in Terminal THEN Continue(Over(f, flow.state))
     ELSE IF flow.aborted THEN Continue(f) ELSE FinishLogin(f, state, safe)

\* startTelegram(): an existing session or missing credentials end the flow before its work.
OpenTelegram(ready) ==
  /\ login # None /\ login.work = "opening"
  /\ UNCHANGED <<session, sidecar, leaving>>
  /\ LET f == [login EXCEPT !.work = "none"]
     IN IF session \/ ~ready THEN FinishLogin(f, "failed", TRUE)
        ELSE IF login.aborted THEN Continue(f)
        ELSE Continue([login EXCEPT !.work = "sdk", !.client = TRUE])

\* The SDK asks for a code or a password, or shows a QR challenge; submit() answers.
Challenge(state) ==
  /\ login # None /\ login.work = "sdk" /\ ~login.aborted
  /\ state \in {"prompt", "qr", "starting"} \ {login.state}
  /\ login' = [login EXCEPT !.state = state]
  /\ UNCHANGED <<session, sidecar, leaving>> /\ UNCHANGED managerVars

\* The sign-in has come to an end, its client is disconnected next.
SignIn(ok) ==
  /\ login # None /\ login.work = "sdk"
  /\ Continue([login EXCEPT !.work = "closing", !.signed = ok /\ ~login.aborted])
  /\ UNCHANGED <<session, sidecar, leaving>>

\* disconnect(client): proved within its deadline or unknown for ever.
CloseLogin(ok) ==
  /\ login # None /\ login.work = "closing"
  /\ LET f == [login EXCEPT !.client = ~ok]
     IN IF ok /\ login.signed THEN Continue([f EXCEPT !.work = "publishing"])
        ELSE WorkEnds(f, "failed", ok)
  /\ UNCHANGED <<session, sidecar, leaving>>

\* Faulty: persistSession() looks at the signal only before it writes.
PublishAnyway(clean) ==
  /\ login # None /\ login.work = "publishing"
  /\ UNCHANGED <<sidecar, leaving>>
  /\ session' = TRUE /\ WorkEnds(login, IF clean THEN "connected" ELSE "failed", clean)

\* persistSession(): the abort check and the link of the session file are one step.
PublishSession(clean) ==
  /\ login # None /\ login.work = "publishing"
  /\ UNCHANGED <<sidecar, leaving>>
  /\ IF login.aborted \/ session
     THEN UNCHANGED session /\ WorkEnds(login, "failed", clean)
     ELSE session' = TRUE /\ WorkEnds(login, IF clean THEN "connected" ELSE "failed", clean)

\* requestWhatsApp() for refreshWhatsApp(): a new attempt under a new generation.
RefreshQr ==
  /\ Open(login) /\ login.channel = "whatsapp" /\ ~login.aborted /\ login.work = "none"
  /\ login.gen < MaxAttempts
  /\ Continue([login EXCEPT !.work = "request", !.gen = @ + 1, !.state = "starting", !.qr = 0])
  /\ sidecar' = Send("connect")
  /\ UNCHANGED <<session, leaving>>

\* applyWhatsAppStatus() of flow f for a status that shows the code of the given attempt.
ApplyStatus(flow, status, attempt) ==
  LET f == [flow EXCEPT !.work = "none", !.qr = 0]
  IN CASE flow.aborted -> Continue([flow EXCEPT !.work = "none"])
       [] ~flow.aborted /\ status = "open" -> FinishLogin(f, "connected", TRUE)
       [] ~flow.aborted /\ status = "recovery" ->
            FinishLogin([f EXCEPT !.unknown = TRUE], "failed", FALSE)
       [] ~flow.aborted /\ status = "failure" -> Continue([f EXCEPT !.work = "giving up"])
       [] ~flow.aborted /\ status = "qr" -> Continue([f EXCEPT !.state = "qr", !.qr = attempt])
       [] OTHER -> Continue([f EXCEPT !.state = "starting"])

\* What a status leaves at the sidecar: an account that is open has ended its attempt.
StatusLeaves(s, status) ==
  CASE status = "open" -> [s EXCEPT !.on = FALSE]
    [] status = "failure" /\ ~login.aborted -> [s EXCEPT !.late = @ \cup {"disconnect"}]
    [] OTHER -> s

Statuses == {"open", "recovery", "failure", "qr", "pending"}

\* The sidecar answers connect or refresh.
ConnectAnswered(status) ==
  /\ login # None /\ login.work = "request" /\ "connect" \in sidecar.late
  /\ ApplyStatus(login, status, login.gen)
  /\ sidecar' = StatusLeaves(Done("connect"), status)
  /\ UNCHANGED <<session, leaving>>

\* The request failed or its deadline passed: it may still be performed.
ConnectFails ==
  /\ login # None /\ login.work = "request"
  /\ WorkEnds(login, "failed", FALSE)
  /\ UNCHANGED <<session, sidecar, leaving>>

\* applyWhatsAppStatus(): the disconnect after a failed pairing is over.
GaveUp(ok) ==
  /\ login # None /\ login.work = "giving up"
  /\ ok => "disconnect" \in sidecar.late
  /\ sidecar' = IF ok THEN Done("disconnect") ELSE sidecar
  /\ LET f == [login EXCEPT !.work = "none"]
     IN IF login.aborted THEN Continue(f)
        ELSE FinishLogin([f EXCEPT !.unknown = ~ok], "failed", ok)
  /\ UNCHANGED <<session, leaving>>

\* flow(): a poll is sent while no request of the flow is under way.
Poll ==
  /\ Open(login) /\ login.channel = "whatsapp" /\ login.work = "none"
  /\ Continue([login EXCEPT !.polls = @ \cup {login.gen}])
  /\ UNCHANGED <<session, sidecar, leaving>>

\* An answer counts only for the generation it was asked under.
PollIsCurrent(g) == Open(login) /\ ~login.aborted /\ login.work = "none" /\ g = login.gen

\* The sidecar answers the poll with what it saw when it was asked under g, or the poll fails.
PollAnswered(g, status) ==
  /\ login # None /\ g \in login.polls
  /\ UNCHANGED <<session, leaving>>
  /\ LET flow == [login EXCEPT !.polls = @ \ {g}]
     IN IF ~PollIsCurrent(g) THEN Continue(flow) /\ UNCHANGED sidecar
        ELSE IF status = "none"
        THEN Continue([flow EXCEPT !.state = "starting", !.qr = 0]) /\ UNCHANGED sidecar
        ELSE ApplyStatus(flow, status, g) /\ sidecar' = StatusLeaves(sidecar, status)

\* cancel(), by the operator, the deadline of the flow or close().  The new
\* generation it gives the flow is left out: whatever compares it looks at aborted first.
CancelLogin ==
  /\ Open(login) /\ login.cancel = "no"
  /\ Continue([login EXCEPT !.cancel = "draining", !.aborted = TRUE, !.qr = 0])
  /\ UNCHANGED <<session, sidecar, leaving>>

Cancelled(safe) == FinishLogin(login, "cancelled", safe)

\* Faulty: cancel() does not wait for the work of the flow.
DrainedAnyway == TRUE

Drained == login.work \in {"none", "opening"}

\* cancel(), after the work of the flow has ended.
CancelDrained ==
  /\ Open(login) /\ login.cancel = "draining" /\ Drained
  /\ IF login.channel = "telegram" \/ login.unknown
     THEN Cancelled(~login.unknown) /\ UNCHANGED sidecar
     ELSE Continue([login EXCEPT !.cancel = "disconnecting"]) /\ sidecar' = Send("disconnect")
  /\ UNCHANGED <<session, leaving>>

\* Faulty: the cancellation waits for the Telegram client without a deadline.
CancelNeverTimesOut == FALSE

\* Ten seconds later the Telegram client has still not given up.
CancelTimesOut ==
  /\ Open(login) /\ login.cancel = "draining" /\ login.channel = "telegram"
  /\ login.work \notin {"none", "opening"}
  /\ Cancelled(FALSE)
  /\ UNCHANGED <<session, sidecar, leaving>>

CancelDisconnected(ok) ==
  /\ Open(login) /\ login.cancel = "disconnecting"
  /\ ok => "disconnect" \in sidecar.late
  /\ sidecar' = IF ok THEN Done("disconnect") ELSE sidecar
  /\ Cancelled(ok /\ ~login.unknown)
  /\ UNCHANGED <<session, leaving>>

\* disconnect(): the lease, the mutation or the removal of the session file, the release.
BeginDisconnect == ~Open(login) /\ Acquire("disconnect") /\ UNCHANGED flowVars
DisconnectLeased(ok, channel) ==
  /\ op.for = "disconnect"
  /\ StopRuntime(ok)
  /\ UNCHANGED <<login, session>>
  /\ IF op'.at # "leased" THEN UNCHANGED <<sidecar, leaving>>
     ELSE /\ leaving' = channel
          /\ sidecar' = IF channel = "whatsapp" THEN Send("disconnect") ELSE sidecar
DisconnectEnds(ok) ==
  /\ leaving # None
  /\ leaving' = None
  /\ sidecar' = IF ok /\ leaving = "whatsapp" THEN Done("disconnect") ELSE sidecar
  /\ session' = IF ok /\ leaving = "telegram" THEN FALSE ELSE session
  /\ IF op.at = "leased" THEN Release(ok, None, TRUE) ELSE UNCHANGED managerVars
  /\ UNCHANGED <<login>>

====
