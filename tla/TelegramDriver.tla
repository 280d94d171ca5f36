--------------------------- MODULE TelegramDriver ---------------------------
(***************************************************************************)
(* TelegramDriver (packages/telegram/src/driver.ts) with its media and     *)
(* signaling (native.ts, signaling.ts), in the worker process that         *)
(* telegram-process.ts forks, supervises and kills.                        *)
(*                                                                         *)
(* A handler that awaits is a row of "work": where it waits, what it       *)
(* captured and what it still has to handle.  The update stream is one     *)
(* promise chain; a dial, an accept and a hang-up handle the calls in      *)
(* their own responses beside it.  The pipe to the worker is FIFO both     *)
(* ways, so a message in flight is one not sent yet, or a worker already   *)
(* lost.                                                                   *)
(***************************************************************************)
EXTENDS VoiceRefs, Naturals, Sequences

CONSTANTS
  MaxOps,        \* bound: dials and accepts the host requests
  QueueLimit     \* 32 in the code

ASSUME MaxOpsAssumption == MaxOps \in Nat

VARIABLES
  drv,    \* the TelegramDriver object, its pending handlers, its last reports
  leg,    \* Telegram's side of each call
  op,     \* dial and accept requests of the host
  host    \* the worker, as its parent knows it: up or gone

tgVars == <<drv, leg, op, host>>

Ops == 1..MaxOps
Chain == <<"chain", 0>>
Owners == {Chain} \cup ({"op", "hangup"} \X Ops)

\* ActiveCall; "of" is the operation that reserved it, 0 for none.
Reservation(d, r, in) ==
  [of |-> d, peer |-> r, incoming |-> in, confirmed |-> FALSE, connected |-> FALSE,
   ending |-> FALSE, uncertain |-> FALSE, media |-> "open", path |-> FALSE,
   queue |-> <<>>]
NoCall == Reservation(0, NoRef, FALSE)

Row(at) == [at |-> at, of |-> 0, ref |-> NoRef, todo |-> <<>>]
NoWork == [o \in Owners |-> Row(IF o[1] = "hangup" THEN "none" ELSE "idle")]
NoOp(at) == [at |-> at, ref |-> NoRef, aborted |-> FALSE]

TgOurs == {"asked", "ringing", "answered", "accepted", "up"}

TgInit ==
  /\ drv = [call |-> NoCall, offers |-> {}, work |-> NoWork,
            told |-> [r \in Refs |-> "nothing"]]
  /\ leg = [r \in Refs |-> "none"]
  /\ op = [d \in Ops |-> NoOp("none")]
  /\ host = "up"

-----------------------------------------------------------------------------
(* The driver's synchronous helpers, on the object's state.                *)

StopMedia(s) ==
  [s EXCEPT !.call.media = IF @ = "open" THEN "stopping" ELSE @]

\* discard(): one promise per reservation, however often it is asked for.
Discard(s) ==
  LET h == <<"hangup", s.call.of>>
  IN IF s.call.peer = NoRef \/ s.work[h].at # "none" THEN s
     ELSE [StopMedia(s) EXCEPT !.work[h] = [Row("sending") EXCEPT !.ref = s.call.peer]]

Fail(s) ==
  IF s.call.of = 0 \/ s.call.uncertain THEN s
  ELSE Discard(Tell([StopMedia(s) EXCEPT !.call.uncertain = TRUE],
                    s.call.peer, "uncertain"))

\* end() up to its await; a discard that is over leaves only the doubt.
End(s) ==
  IF s.call.ending THEN s
  ELSE LET t == Discard(Tell([s EXCEPT !.call.ending = TRUE], s.call.peer, "ending"))
       IN IF t.work[<<"hangup", t.call.of>>].at = "done" THEN Fail(t) ELSE t

Idle(s, o) == [s EXCEPT !.work[o] = [Row("idle") EXCEPT !.todo = s.work[o].todo]]

\* A rejected await: every catch around a handler calls fail() on the
\* reservation of that moment, and only the chain goes on to its next update.
Throw(s, o) ==
  Fail(IF o = Chain THEN Idle(s, o) ELSE [s EXCEPT !.work[o] = Row("idle")])

Becomes(s) == drv' = s /\ UNCHANGED <<op, host>>

Up == host = "up"

\* The event loop finishes what is ready before it takes another event.
Returning(d) ==
  \/ op[d].at = "handling" /\ drv.work[<<"op", d>>] = Row("idle")
  \/ op[d].at = "ending" /\ drv.work[<<"hangup", d>>].at = "done"
Turn ==
  /\ Up
  /\ \A o \in Owners : drv.work[o].at = "idle" => drv.work[o].todo = <<>> /\ o[1] # "hangup"
  /\ \A d \in Ops : ~Returning(d)

-----------------------------------------------------------------------------
(* handleCall: one action per kind of update and branch.                   *)

\* Owner o starts on its next update.
Next1(o) == Head(drv.work[o].todo)
Ready(o) == Up /\ drv.work[o].at = "idle" /\ drv.work[o].todo # <<>>
Taken(o) == [drv EXCEPT !.work[o].todo = Tail(@)]
Waits(s, o, at) ==
  [s EXCEPT !.work[o] = [@ EXCEPT !.at = at, !.of = s.call.of, !.ref = s.call.peer]]
Mine(r) == drv.call.of # 0 /\ drv.call.peer = r
Live(r) == Mine(r) /\ ~drv.call.ending /\ ~drv.call.uncertain

HandleRequested(o, r) ==
  LET known == drv.call.peer = r \/ r \in drv.offers
               \/ Cardinality(drv.offers) >= OfferLimit
  IN Becomes(IF known THEN Taken(o)
                ELSE Tell([Taken(o) EXCEPT !.offers = @ \cup {r}], r, "incoming"))

\* An offer that is withdrawn is reported, whatever call is active.
Withdrawn(s, u) ==
  IF u.kind = "discarded" /\ u.ref \in s.offers
  THEN Tell([s EXCEPT !.offers = @ \ {u.ref}], u.ref, "ended") ELSE s

\* Faulty: such an update is dropped.
HandleEarlyDropping(o, u) ==
  /\ drv.call.of # 0 /\ drv.call.peer = NoRef
  /\ Becomes(Withdrawn(Taken(o), u))

\* Before the reservation has a peer, updates wait for it.
HandleEarly(o, u) ==
  LET s == Withdrawn(Taken(o), u) IN
  /\ drv.call.of # 0 /\ drv.call.peer = NoRef
  /\ Becomes(IF Len(s.call.queue) >= QueueLimit THEN Fail(s)
                ELSE [s EXCEPT !.call.queue = Append(@, u)])

HandleStale(o, u) ==
  /\ drv.call.of = 0 \/ drv.call.peer \notin {NoRef, u.ref}
  /\ Becomes(Withdrawn(Taken(o), u))

\* The media is stopped before the end is believed.
HandleDiscarded(o, u) ==
  LET s == StopMedia(Withdrawn(Taken(o), u)) IN
  /\ Mine(u.ref)
  /\ CASE s.call.media = "stopped" ->
            Becomes(Tell([s EXCEPT !.call = NoCall], u.ref, "ended"))
       [] s.call.media = "stuck" -> Becomes(Fail(s))
       [] OTHER -> Becomes(Waits(s, o, "closing"))

HandleWaiting(o, r) ==
  Mine(r) /\ Becomes(IF Live(r) THEN Tell(Taken(o), r, "ringing") ELSE Taken(o))

HandleAccepted(o, r) ==
  /\ Mine(r)
  /\ Becomes(IF Live(r) /\ ~drv.call.confirmed
                THEN Waits([Taken(o) EXCEPT !.call.confirmed = TRUE], o, "confirming")
                ELSE Taken(o))

\* An incoming call exchanges keys before it is reported as connected.
HandleConnected(o, r) ==
  LET s == [Taken(o) EXCEPT !.call.connected = TRUE]
      new == Live(r) /\ ~drv.call.connected
  IN
  /\ Mine(r)
  /\ Becomes(IF ~new THEN Taken(o)
             ELSE IF drv.call.incoming THEN Waits(s, o, "keys")
             ELSE Waits(Tell(s, r, "connected"), o, "connecting"))

HandleCall(o) ==
  /\ Ready(o)
  /\ LET u == Next1(o)
     IN \/ u.kind = "requested" /\ HandleRequested(o, u.ref)
        \/ u.kind # "requested" /\ (HandleEarly(o, u) \/ HandleStale(o, u))
        \/ u.kind = "discarded" /\ HandleDiscarded(o, u)
        \/ u.kind = "waiting" /\ HandleWaiting(o, u.ref)
        \/ u.kind = "accepted" /\ HandleAccepted(o, u.ref)
        \/ u.kind = "call" /\ HandleConnected(o, u.ref)
  /\ UNCHANGED leg

-----------------------------------------------------------------------------
(* The awaits settle, one per turn of the event loop.                      *)

\* native.stop settles: whoever awaited the close resumes in the same turn.
StopSettles ==
  LET waiting == {o \in Owners : drv.work[o].at = "closing"}
      Resumed(s) == [s EXCEPT !.work = [o \in Owners |->
                       IF o \in waiting THEN Idle(s, o).work[o] ELSE s.work[o]]]
  IN
  /\ drv.call.media = "stopping"
  /\ \/ /\ waiting = {}
        /\ \E m \in {"stopped", "stuck"} : Becomes([drv EXCEPT !.call.media = m])
     \/ /\ waiting # {}
        /\ \/ Becomes(Tell([Resumed(drv) EXCEPT !.call = NoCall], drv.call.peer, "ended"))
           \/ Becomes(Fail([Resumed(drv) EXCEPT !.call.media = "stuck"]))
  /\ UNCHANGED leg

\* exchangeKeys and ConfirmCall; the answer is the established call.
ConfirmSettles(o) ==
  LET r == drv.work[o].ref
      call == [kind |-> "call", ref |-> r]
  IN
  /\ drv.work[o].at = "confirming"
  /\ \/ /\ leg[r] = "answered"
        /\ leg' = [leg EXCEPT ![r] = "up"]
        /\ \/ Becomes([Idle(drv, o) EXCEPT !.work[o].todo = <<call>> \o @])
           \/ Becomes(Throw(drv, o))
     \/ leg' = leg /\ Becomes(Throw(drv, o))

\* The native library answers only for a call it has not stopped.
KeysSettle(o) ==
  /\ drv.work[o].at = "keys"
  /\ \/ /\ drv.call.of = drv.work[o].of
        /\ Becomes(Tell([drv EXCEPT !.work[o].at = "connecting"], drv.work[o].ref, "connected"))
     \/ Becomes(Throw(drv, o))
  /\ UNCHANGED leg

ConnectSettles(o) ==
  /\ drv.work[o].at = "connecting"
  /\ \/ /\ drv.call.of = drv.work[o].of
        /\ Becomes([Idle(drv, o) EXCEPT !.call.path = TRUE])
     \/ Becomes(Throw(drv, o))
  /\ UNCHANGED leg

\* TelegramMedia.markReady, once path and native connection are both there, and
\* the driver's onReady.
MediaConnects ==
  /\ drv.call.path /\ drv.call.media = "open"
  /\ ~drv.call.ending /\ ~drv.call.uncertain
  /\ Becomes(Tell([drv EXCEPT !.call.path = FALSE], drv.call.peer, "audio"))
  /\ UNCHANGED leg

\* A lost media path, a frame of the wrong size, an overlapping write, or a
\* signal that cannot be queued, sent or received.
MediaFails ==
  drv.call.of # 0 /\ drv.call.media = "open" /\ Becomes(Fail(drv)) /\ UNCHANGED leg

Hangup(g) == <<"hangup", g>>

\* DiscardCall waits for the media to stop, however that goes.  Only updates in
\* its answer are evidence; they may come on the chain as well, and the answer
\* may be lost.
HangupReaches(g) ==
  LET h == Hangup(g)
      r == drv.work[h].ref
      evidence == {<<>>, <<[kind |-> "discarded", ref |-> r]>>}
  IN
  /\ drv.work[h].at = "sending" /\ (drv.call.of = g => drv.call.media # "stopping")
  /\ leg' = [leg EXCEPT ![r] = CASE @ \in TgOurs -> "down" [] @ = "offered" -> "gone" [] OTHER -> @]
  /\ \E pushed \in evidence :
       LET s == [drv EXCEPT !.work[Chain].todo = @ \o pushed]
       IN \/ \E answer \in evidence :
               Becomes([s EXCEPT !.work[h].at = "idle", !.work[h].todo = answer])
          \/ Becomes(Throw(s, h))

HangupFails(g) ==
  /\ drv.work[Hangup(g)].at = "sending" /\ (drv.call.of = g => drv.call.media # "stopping")
  /\ Becomes(Throw(drv, Hangup(g)))
  /\ UNCHANGED leg

\* end() resumes: without terminal evidence the reservation is kept in doubt.
HangupDone(g) ==
  LET s == [drv EXCEPT !.work[Hangup(g)] = Row("done")] IN
  /\ Up /\ drv.work[Hangup(g)].at = "idle" /\ drv.work[Hangup(g)].todo = <<>>
  /\ Becomes(IF s.call.of = g /\ s.call.ending THEN Fail(s) ELSE s)
  /\ UNCHANGED leg

-----------------------------------------------------------------------------
(* dial, accept and the other requests of the host.                        *)

\* A request refused because the driver is reserved, or the caller is not the
\* target, changes nothing and is left out.
Goes(d, at, s) ==
  /\ drv' = s
  /\ op' = [op EXCEPT ![d] = IF at = "over" THEN NoOp(at) ELSE [@ EXCEPT !.at = at]]
  /\ UNCHANGED host
Fresh(d) ==
  /\ drv.call.of = 0
  /\ op[d].at = "none" /\ (d > 1 => op[d - 1].at # "none")

DialAsked(d) ==
  Fresh(d) /\ Goes(d, "identity", drv) /\ UNCHANGED leg

\* Faulty: only the check before getMe.
DialReservesUnchecked(d) ==
  /\ op[d].at = "identity"
  /\ \/ Goes(d, "setup", [drv EXCEPT !.call = Reservation(d, NoRef, FALSE)])
     \/ Goes(d, "over", drv)
  /\ UNCHANGED leg

\* getMe answers; a second dial may have reserved meanwhile.
DialReserves(d) ==
  /\ op[d].at = "identity"
  /\ \/ drv.call.of = 0 /\ Goes(d, "setup", [drv EXCEPT !.call = Reservation(d, NoRef, FALSE)])
     \/ Goes(d, "over", drv)
  /\ UNCHANGED leg

\* The request goes out once nothing interrupted the setup.
RequestReaches(d, r) ==
  /\ op[d].at = "setup" /\ leg[r] = "none" /\ ~op[d].aborted /\ ~drv.call.uncertain
  /\ leg' = [leg EXCEPT ![r] = "asked"]
  /\ op' = [op EXCEPT ![d].at = "asked", ![d].ref = r]
  /\ UNCHANGED <<drv, host>>

\* The reference binds the reservation; what came early is handled now.
RequestAnswered(d) ==
  LET s == [drv EXCEPT !.call.peer = op[d].ref]
      o == <<"op", d>>
  IN
  /\ op[d].at = "asked"
  /\ IF s.call.uncertain \/ op[d].aborted THEN Goes(d, "ending", End(s))
     ELSE Goes(d, "handling", [s EXCEPT !.call.queue = <<>>, !.work[o].todo = s.call.queue])
  /\ UNCHANGED leg

AcceptAsked(d, r) ==
  /\ Fresh(d) /\ r \in drv.offers
  /\ drv' = [drv EXCEPT !.call = Reservation(d, r, TRUE), !.offers = @ \ {r}]
  /\ op' = [op EXCEPT ![d].at = "accepting", ![d].ref = r]
  /\ UNCHANGED <<leg, host>>

AcceptReaches(d) ==
  /\ op[d].at = "accepting" /\ ~op[d].aborted /\ leg[op[d].ref] = "offered"
  /\ leg' = [leg EXCEPT ![op[d].ref] = "accepted"]
  /\ Goes(d, "accepted", drv)

\* The answer may already be the established call.
AcceptAnswered(d) ==
  LET r == op[d].ref IN
  /\ op[d].at = "accepted"
  /\ \/ Goes(d, "handling", drv) /\ UNCHANGED leg
     \/ /\ leg[r] = "accepted" /\ leg' = [leg EXCEPT ![r] = "up"]
        /\ Goes(d, "handling", [drv EXCEPT !.work[<<"op", d>>].todo = <<[kind |-> "call", ref |-> r]>>])

\* Any await of either fails, or its answer is lost.
SetupFails(d) ==
  /\ op[d].at \in {"setup", "asked", "accepting", "accepted"}
  /\ Goes(d, "over", Fail(drv)) /\ UNCHANGED leg

\* Its handlers have nothing left, or the hang-up of an interrupted dial is over.
Returns(d) ==
  /\ Up /\ Returning(d)
  /\ Goes(d, "over", IF op[d].at = "ending" THEN Fail(drv) ELSE drv)
  /\ UNCHANGED leg

EndAsked ==
  drv.call.peer # NoRef /\ ~drv.call.ending /\ Becomes(End(drv)) /\ UNCHANGED leg

RejectAsked(r) ==
  /\ r \in drv.offers
  /\ leg' = [leg EXCEPT ![r] = "gone"]
  /\ Becomes([drv EXCEPT !.offers = @ \ {r}])

\* The abort message reaches the controller of the latest operation.
AbortAsked(d) ==
  LET listening == drv.call.of = d /\ ~drv.call.uncertain
                   /\ \A o \in Owners : drv.work[o].at # "closing"
  IN
  /\ op[d].at \notin {"none", "over"} /\ ~op[d].aborted
  /\ d < MaxOps => op[d + 1].at = "none"
  /\ op' = [op EXCEPT ![d].aborted = TRUE]
  /\ drv' = (IF ~listening THEN drv ELSE IF drv.call.peer = NoRef THEN Fail(drv) ELSE End(drv))
  /\ UNCHANGED <<leg, host>>

\* close() hangs up what it can; the parent kills the worker afterwards.
CloseAsked ==
  /\ drv.call.of # 0
  /\ Becomes(IF drv.call.peer = NoRef THEN Fail(drv) ELSE End(drv))
  /\ UNCHANGED leg

\* SIGKILL: close() is answered or its 3 s pass; or a fault, which is an exit, a
\* full pipe, or a request without an answer for 15 s.
WorkerGone ==
  /\ host' = "gone"
  /\ drv' = [drv EXCEPT !.call = NoCall, !.offers = {}, !.work = NoWork]
  /\ op' = [d \in Ops |-> NoOp("over")]
  /\ UNCHANGED leg

-----------------------------------------------------------------------------
(* Telegram and the person called.                                         *)

Platform(r, from, to, kind) ==
  /\ leg[r] \in from
  /\ leg' = [leg EXCEPT ![r] = to]
  /\ Becomes([drv EXCEPT !.work[Chain].todo = Append(@, [kind |-> kind, ref |-> r])])

PeerActs(r) ==
  \/ Platform(r, {"asked"}, "ringing", "waiting")
  \/ Platform(r, {"asked", "ringing"}, "answered", "accepted")
  \/ r \in Inbound /\ Platform(r, {"none"}, "offered", "requested")
  \/ Platform(r, {"accepted"}, "up", "call")
  \/ Platform(r, TgOurs, "down", "discarded")
  \/ Platform(r, {"offered"}, "gone", "discarded")

-----------------------------------------------------------------------------
\* What the event loop has ready.
TgMicrotasks ==
  \/ \E o \in Owners : HandleCall(o)
  \/ \E g \in Ops : HangupDone(g) \/ Returns(g)

\* What the network and the native library finish by themselves.
TgSettles ==
  \/ StopSettles
  \/ \E o \in Owners : ConfirmSettles(o) \/ KeysSettle(o) \/ ConnectSettles(o)
  \/ \E d \in Ops : \/ HangupReaches(d) \/ HangupFails(d) \/ DialReserves(d) \/ RequestAnswered(d)
                    \/ AcceptReaches(d) \/ AcceptAnswered(d) \/ SetupFails(d)
  \/ \E d \in Ops, r \in Refs : RequestReaches(d, r)

\* What others do to it.
TgEvents ==
  \/ MediaConnects \/ MediaFails \/ EndAsked \/ CloseAsked \/ WorkerGone
  \/ \E d \in Ops : DialAsked(d) \/ AbortAsked(d)
  \/ \E d \in Ops, r \in Refs : AcceptAsked(d, r)
  \/ \E r \in Refs : RejectAsked(r) \/ PeerActs(r)

TgProgress == TgMicrotasks \/ (Turn /\ TgSettles)
TgNext == TgProgress \/ (Turn /\ TgEvents)

TgSpec == TgInit /\ [][TgNext]_tgVars /\ WF_tgVars(TgProgress)

-----------------------------------------------------------------------------
TgContract == INSTANCE VoiceContract WITH
  alive <- {r \in Refs : leg[r] \in TgOurs},
  over  <- {r \in Refs : drv.told[r] = "ended"},
  free  <- drv.call.of = 0 /\ Up

\* Driver and worker keep what the runtime relies on: no dial while a leg may
\* be up, one leg at most, `ended` only of a leg that is down, and nothing
\* reported of a leg after its `ended`.
TelegramKeepsContract == TgContract!Spec

\* A leg of ours that is down has been reported as ended or kept in doubt, unless
\* the worker is gone.
TelegramToldEnd(r) == leg[r] = "down" => drv.told[r] = "ended" \/ drv.call.uncertain \/ ~Up
=============================================================================
