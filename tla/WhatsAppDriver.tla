--------------------------- MODULE WhatsAppDriver ---------------------------
(***************************************************************************)
(* The WhatsApp driver (packages/runtime/src/whatsapp.ts) on the WaCalls   *)
(* service: one event stream, calls placed and ended by HTTP, and a media  *)
(* socket per call (packages/whatsapp/src).  Three channels, no order      *)
(* between them: an answer, an event and the loss of the media of one call *)
(* overtake each other.                                                    *)
(***************************************************************************)
EXTENDS VoiceRefs, Naturals, Sequences

CONSTANT EarlyLimit   \* 32 in the code

\* What http.dial holds while no call is known by its id.
ASSUME DialAssumption == Refs \cap {"idle", "sent"} = {}

VARIABLES
  wa,      \* the driver: service, active call, flags per call, last reports
  http,    \* requests in flight: dialling, deletes, the accept
  stream,  \* events WaCalls has sent and the driver has not read
  wleg     \* WaCalls' side of each call

waVars == <<wa, http, stream, wleg>>

WaOurs == {"asked", "up"}

WaInit ==
  /\ wa = [service |-> "up", active |-> NoRef, reserving |-> FALSE, early |-> <<>>, offers |-> {},
           told |-> [r \in Refs |-> "nothing"], media |-> [r \in Refs |-> "none"],
           ending |-> {}, terminal |-> {}, mediaFailed |-> {}]
  /\ http = [dial |-> "idle", deletes |-> {}, accept |-> NoRef]
  /\ stream = <<>>
  /\ wleg = [r \in Refs |-> "none"]

MediaOff(s, r) ==
  IF r = NoRef \/ s.media[r] = "none" THEN s ELSE [s EXCEPT !.media[r] = "off"]
Serving(s) == s.service = "up"

\* The stream, the account or an action with an unknown outcome is lost.
Fault(s) ==
  IF ~Serving(s) THEN s
  ELSE Tell(MediaOff([s EXCEPT !.service = "failed"], s.active), s.active, "uncertain")

\* Media and signaling close in either order; only signaling is evidence.
FailMedia(s, r) ==
  IF ~Serving(s) \/ s.active # r \/ r \in s.ending \cup s.terminal \cup s.mediaFailed THEN s
  ELSE Tell(MediaOff([s EXCEPT !.mediaFailed = @ \cup {r}], r), r, "uncertain")

\* A call-ended event settles the call when WaCalls says how it knows, or when
\* an ordinary reason meets no trouble of ours.
Ended(s, e) ==
  LET r == e.ref
      t == MediaOff([s EXCEPT !.terminal = @ \cup {r}], r)
      doubt == e.kind = "unsure" \/ (e.kind = "claimed" /\ (r \in s.mediaFailed \cup s.ending \/ s.service = "failed"))
  IN IF doubt THEN Tell(t, r, "uncertain") ELSE Tell([t EXCEPT !.active = NoRef], r, "ended")

Offered(s, r) ==
  IF r \in s.offers \/ s.active = r THEN s
  ELSE IF Cardinality(s.offers) >= OfferLimit THEN Fault(s)
  ELSE Tell([s EXCEPT !.offers = @ \cup {r}], r, "incoming")

Status(s, e) ==
  IF e.ref \in s.ending \cup s.terminal THEN s
  ELSE IF e.kind = "connected" /\ s.media[e.ref] = "none" /\ s.service # "failed"
       THEN Tell([s EXCEPT !.media[e.ref] = "token"], e.ref, "connected")
  ELSE Tell(s, e.ref, e.kind)

\* The active call's events, or those that were queued for it.
Matching(s, e) ==
  IF s.active # e.ref THEN s
  ELSE IF e.kind \in {"dialing", "connected"} THEN Status(s, e) ELSE Ended(s, e)

\* While the dial's answer is out, its events wait for the identity.
Early(s, e) ==
  IF Len(s.early) >= EarlyLimit THEN Fault(s) ELSE [s EXCEPT !.early = Append(@, e)]

Event(s, e) ==
  IF e.kind = "incoming" THEN Offered(s, e.ref)
  ELSE IF s.reserving THEN Early(s, e) ELSE Matching(s, e)

\* Queued events are replayed in their order.
Replay(s, q) ==
  LET after[n \in 0..Len(q)] == IF n = 0 THEN s ELSE Event(after[n - 1], q[n])
  IN after[Len(q)]

Reads ==
  /\ Serving(wa) /\ stream # <<>>
  /\ wa' = Event(wa, Head(stream))
  /\ stream' = Tail(stream)
  /\ UNCHANGED <<http, wleg>>

\* HangUp of stream, 45 s without a heartbeat, an invalid event, another account.
StreamLost == Serving(wa) /\ wa' = Fault(wa) /\ UNCHANGED <<http, stream, wleg>>

-----------------------------------------------------------------------------
(* The driver's operations and what settles them.                          *)

Free(s) == Serving(s) /\ s.active = NoRef /\ ~s.reserving

Dial ==
  /\ Free(wa) /\ http.dial = "idle"
  /\ wa' = [wa EXCEPT !.reserving = TRUE]
  /\ http' = [http EXCEPT !.dial = "sent"]
  /\ UNCHANGED <<stream, wleg>>

\* The answer names the call, lost connection or not; early events are
\* replayed for it.
DialAnswered(r) ==
  LET bound == Tell([wa EXCEPT !.active = r, !.reserving = FALSE, !.early = <<>>], r, "dialing")
  IN
  /\ wa.reserving /\ http.dial = r
  /\ wa' = Replay(bound, wa.early)
  /\ http' = [http EXCEPT !.dial = "idle"]
  /\ UNCHANGED <<stream, wleg>>

\* A lost or late answer, 10 s: the request may still arrive.
DialFails ==
  /\ wa.reserving
  /\ wa' = Fault([wa EXCEPT !.reserving = FALSE])
  /\ UNCHANGED <<http, stream, wleg>>

Accept(r) ==
  /\ Free(wa) /\ r \in wa.offers
  /\ wa' = [wa EXCEPT !.active = r, !.offers = @ \ {r}]
  /\ http' = [http EXCEPT !.accept = r]
  /\ UNCHANGED <<stream, wleg>>

AcceptSettles(r) ==
  /\ http.accept = r
  /\ http' = [http EXCEPT !.accept = NoRef]
  /\ \/ wleg[r] = "offered" /\ wleg' = [wleg EXCEPT ![r] = "up"] /\ wa' \in {wa, Fault(wa)}
     \/ UNCHANGED wleg /\ wa' = Fault(wa)
  /\ UNCHANGED stream

\* A reject that fails leaves the offer in the map.
Reject(r) ==
  /\ Serving(wa) /\ r \in wa.offers /\ wleg[r] = "offered"
  /\ wleg' = [wleg EXCEPT ![r] = "gone"]
  /\ wa' = [wa EXCEPT !.offers = @ \ {r}]
  /\ UNCHANGED <<http, stream>>

HangUp(r) ==
  /\ wa.active = r /\ r \notin wa.ending
  /\ wa' = Tell(MediaOff([wa EXCEPT !.ending = @ \cup {r}], r), r, "ending")
  /\ http' = [http EXCEPT !.deletes = @ \cup {r}]
  /\ UNCHANGED <<stream, wleg>>

\* Only `ended` with an acknowledged or remote termination is an answer; any
\* other keeps the call in doubt unless an event has settled it meanwhile.
DeleteAnswered(r) ==
  LET s == [wa EXCEPT !.terminal = @ \cup {r}, !.active = IF @ = r THEN NoRef ELSE @]
      doubt == r \notin wa.terminal \/ wa.active = r
  IN
  /\ r \in http.deletes
  /\ http' = [http EXCEPT !.deletes = @ \ {r}]
  /\ \/ wleg[r] = "down" /\ wa' = Tell(s, r, "ended")
     \/ wa' = (IF doubt THEN Tell(wa, r, "uncertain") ELSE wa)
  /\ UNCHANGED <<stream, wleg>>

\* connectWaCallsMedia: token, socket upgrade and readiness within 10 s.
MediaStep(r) ==
  /\ wa.media[r] \in {"token", "upgrade"}
  /\ \/ wa' = FailMedia(MediaOff(wa, r), r)
     \/ wa.media[r] = "token" /\ wa' = [wa EXCEPT !.media[r] = "upgrade"]
     \/ /\ wa.media[r] = "upgrade"
        /\ wa' = (IF Serving(wa) THEN Tell([wa EXCEPT !.media[r] = "open"], r, "audio") ELSE MediaOff(wa, r))
  /\ UNCHANGED <<http, stream, wleg>>

\* The socket closes, fails, or cannot take a frame.
MediaLost(r) ==
  wa.media[r] = "open" /\ wa' = FailMedia(MediaOff(wa, r), r) /\ UNCHANGED <<http, stream, wleg>>

\* close() asks for the hang-up of an active call and waits for no evidence; a
\* dial in flight goes on.
CloseWhatsApp ==
  /\ wa.service # "closed"
  /\ wa' = [MediaOff(wa, wa.active) EXCEPT !.service = "closed", !.ending = @ \cup ({wa.active} \ {NoRef})]
  /\ UNCHANGED <<http, stream, wleg>>

-----------------------------------------------------------------------------
(* WaCalls and the person called.                                          *)

Moves(r, to, kinds) ==
  /\ wleg' = [wleg EXCEPT ![r] = to]
  /\ \E k \in kinds : stream' = Append(stream, [kind |-> k, ref |-> r])
  /\ UNCHANGED wa

DialReaches(r) ==
  /\ http.dial = "sent" /\ wleg[r] = "none"
  /\ http' = [http EXCEPT !.dial = r]
  /\ Moves(r, "asked", {"dialing"})

\* The delete hangs up, with or without the word of the other side.
DeleteReaches(r) ==
  /\ r \in http.deletes /\ wleg[r] \in WaOurs
  /\ Moves(r, "down", {"sure", "claimed", "unsure"})
  /\ UNCHANGED http

WaPeer(r) ==
  /\ \/ r \in Inbound /\ wleg[r] = "none" /\ Moves(r, "offered", {"incoming"})
     \/ wleg[r] = "offered" /\ Moves(r, "gone", {"sure"})
     \/ wleg[r] = "asked" /\ Moves(r, "up", {"connected"})
     \/ wleg[r] \in WaOurs /\ Moves(r, "down", {"sure", "claimed", "unsure"})
  /\ UNCHANGED http

\* It gives the call up without knowing whether the other side has: it says so,
\* or, after a delete of ours, says what an unpatched service says.  Bound: one
\* such event at a time.
WaGivesUp(r) ==
  /\ wleg[r] \in WaOurs /\ stream = <<>>
  /\ Moves(r, wleg[r], {"unsure"} \cup (IF r \in wa.ending THEN {"claimed"} ELSE {}))
  /\ UNCHANGED http

-----------------------------------------------------------------------------
WaProgress ==
  \/ Reads \/ DialFails
  \/ \E r \in Refs : \/ DialAnswered(r) \/ AcceptSettles(r) \/ DeleteAnswered(r) \/ MediaStep(r)
                     \/ DialReaches(r)

WaNext ==
  \/ WaProgress \/ StreamLost \/ Dial \/ CloseWhatsApp
  \/ \E r \in Refs : \/ Accept(r) \/ Reject(r) \/ HangUp(r) \/ MediaLost(r)
                     \/ DeleteReaches(r) \/ WaPeer(r) \/ WaGivesUp(r)

WaSpec == WaInit /\ [][WaNext]_waVars /\ WF_waVars(WaProgress)

WaContract == INSTANCE VoiceContract WITH
  alive <- {r \in Refs : wleg[r] \in WaOurs},
  over  <- {r \in Refs : wa.told[r] = "ended"},
  free  <- Free(wa)

\* The driver keeps what the runtime relies on, in whatever order answer, event
\* and media close come.
WhatsAppKeepsContract == WaContract!Spec

\* A call that is down has been reported as ended or in doubt, unless the
\* connection itself is reported lost or closed.
WhatsAppToldEnd(r) == wleg[r] = "down" => wa.told[r] \in {"ended", "uncertain"} \/ ~Serving(wa)
=============================================================================
