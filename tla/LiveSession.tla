----------------------------- MODULE LiveSession -----------------------------
(***************************************************************************)
(* LiveClient on its transport, with ManagedResponses                      *)
(* (packages/live/src/client.ts, transport.ts, managed-responses.ts).      *)
(*                                                                         *)
(* One session that ends once, whatever comes first: its own close, a      *)
(* deadline, the socket, a message it cannot accept, or a full send        *)
(* buffer.  A consumer may call close() from inside any event it is given. *)
(***************************************************************************)
EXTENDS Naturals, FiniteSets

CONSTANTS
  Works, Responses, Items,  \* delegation ids, response ids, output item ids
  Nobody,                   \* absence
  MaxSequence,              \* bound: sequence numbers of managed events
  WorkLimit                 \* 1024 in the code

\* Absence is no delegation.
ASSUME LiveAssumption == Nobody \notin Works /\ MaxSequence \in Nat

VARIABLES
  session,    \* state, subscription, timer, events given out
  works,      \* delegations: the client's or the model's own
  managed,    \* ManagedResponses: active, owners, itemOwners, completed
  reported    \* managed results given out

liveVars == <<session, works, managed, reported>>

NoWorks == [w \in Works |-> "unknown"]
NoManaged ==
  [active |-> [w \in Works |-> Nobody], sequence |-> [w \in Works |-> 0],
   owner |-> [x \in Responses |-> Nobody], itemOwner |-> [i \in Items |-> Nobody],
   completed |-> {}]

LiveInit ==
  /\ session = [state |-> "new", timer |-> "none", subscribed |-> FALSE, closings |-> 0, late |-> FALSE]
  /\ works = NoWorks /\ managed = NoManaged /\ reported = {}

\* finish(): the last event of the session.
Finish(s) ==
  IF s.state = "closed" THEN s
  ELSE [s EXCEPT !.state = "closed", !.timer = "none", !.subscribed = FALSE, !.closings = @ + 1]

\* close(), whose message may not be sent.
Closing(s) ==
  CASE s.state \in {"closed", "closing"} -> {s}
    [] s.state = "ready" ->
         LET t == [s EXCEPT !.state = "closing", !.timer = "close"] IN {t, Finish(t)}
    [] OTHER -> {Finish(s)}

\* An event for the consumer, who may close in its callback.
Tells(s) == LET t == [s EXCEPT !.late = @ \/ s.closings > 0] IN {t} \cup Closing(t)

\* finish() forgets delegations and responses.
Steps(s, w, m) ==
  /\ session' = s
  /\ works' = (IF s.state = "closed" THEN NoWorks ELSE w)
  /\ managed' = (IF s.state = "closed" THEN NoManaged ELSE m)
Keeps(s) == Steps(s, works, managed) /\ UNCHANGED reported
Ends == Keeps(Finish(session))

\* Faulty: what subscribe returned is kept though the session is over.
StartLeaking ==
  LET s == [session EXCEPT !.state = "starting", !.timer = "start"] IN
  /\ session.state = "new"
  /\ Keeps([s EXCEPT !.subscribed = TRUE]) \/ Keeps([Finish(s) EXCEPT !.subscribed = TRUE])

-----------------------------------------------------------------------------
\* subscribe may fail, or end the session before it returns.
Start ==
  LET s == [session EXCEPT !.state = "starting", !.timer = "start"] IN
  /\ session.state = "new"
  /\ Keeps([s EXCEPT !.subscribed = TRUE]) \/ Keeps(Finish(s))

CloseLive == \E s \in Closing(session) : s # session /\ Keeps(s)

\* Socket close or error, the answer to session.start that cannot be sent, a
\* send that fails or overflows, an oversized or malformed message.
Breaks == session.state \in {"starting", "ready", "closing"} /\ Ends

Expires == session.timer # "none" /\ Ends

Hears == session.subscribed /\ session.state # "closed"

Started ==
  /\ Hears
  /\ IF session.state # "starting" THEN Ends
     ELSE \E s \in Tells([session EXCEPT !.state = "ready", !.timer = "none"]) : Keeps(s)

\* A server error is told; it ends only a session that is starting.
Rejected ==
  /\ Hears
  /\ \E s \in Tells(session) : Keeps(IF s.state = "starting" THEN Finish(s) ELSE s)

\* Usage, transcripts, audio while ready, accepted appends.
Content ==
  /\ Hears
  /\ IF session.state = "starting" THEN Ends ELSE \E s \in Tells(session) : Keeps(s)

Final == Hears /\ Ends

DelegationCreated(w, target) ==
  /\ Hears /\ session.state = "ready" /\ works[w] = "unknown"
  /\ IF Cardinality({v \in Works : works[v] # "unknown"}) >= WorkLimit THEN Ends
     ELSE \E s \in Tells(session) : Steps(s, [works EXCEPT ![w] = target], managed) /\ UNCHANGED reported

-----------------------------------------------------------------------------
(* response.event of a delegation of the model: ManagedResponses.receive.  *)

Managed(w) == Hears /\ session.state # "starting" /\ works[w] = "responses"
Learns(m) == Steps(session, works, m) /\ UNCHANGED reported

\* A sequence number, when there is one (0: none), is above the last.
Newer(n, w) == n = 0 \/ n > managed.sequence[w]

\* Faulty: a completed response may be created again.
ResponseCreatedAgain(w, x, n) ==
  LET m == managed IN
  /\ Managed(w)
  /\ IF m.active[w] \notin {Nobody, x} THEN Ends
     ELSE /\ m.active[w] = Nobody
          /\ Learns([m EXCEPT !.owner[x] = w, !.active[w] = x, !.sequence[w] = n])

\* The first to name a response owns it; a second response at once is an error.
ResponseCreated(w, x, n) ==
  LET m == managed IN
  /\ Managed(w) /\ x \notin m.completed /\ m.owner[x] \in {Nobody, w}
  /\ IF m.active[w] \notin {Nobody, x} THEN Ends
     ELSE /\ m.active[w] = Nobody
          /\ Learns([m EXCEPT !.owner[x] = w, !.active[w] = x, !.sequence[w] = n])

\* Text, annotation or item of the active response, never older than the last
\* and never an item of another response.
Output(w, i, n) ==
  LET m == managed
      x == m.active[w]
  IN
  /\ Managed(w) /\ x # Nobody /\ m.itemOwner[i] \in {Nobody, x} /\ Newer(n, w)
  /\ Learns([m EXCEPT !.itemOwner[i] = x, !.sequence[w] = IF n = 0 THEN @ ELSE n])

\* completed, failed or incomplete, naming the active response.
ResponseCompleted(w, n) ==
  LET m == managed
      x == m.active[w]
      result == [work |-> w, response |-> x, items |-> {i \in Items : m.itemOwner[i] = x},
                 again |-> \E r \in reported : r.response = x]
  IN
  /\ Managed(w) /\ x # Nobody /\ Newer(n, w)
  /\ reported' = reported \cup {result}
  /\ \E s \in Tells(session) :
       Steps(s, works, [m EXCEPT !.active[w] = Nobody, !.sequence[w] = 0, !.completed = @ \cup {x}])

-----------------------------------------------------------------------------
LiveNext ==
  \/ Start \/ CloseLive \/ Breaks \/ Expires \/ Started \/ Rejected \/ Content \/ Final
  \/ \E w \in Works, t \in {"client", "responses"} : DelegationCreated(w, t)
  \/ \E w \in Works, n \in 0..MaxSequence :
       \/ \E x \in Responses : ResponseCreated(w, x, n)
       \/ \E i \in Items : Output(w, i, n)
       \/ ResponseCompleted(w, n)

\* One closed event per session, the last of its events, and with it the
\* subscription and the timer are gone.
ClosedIsFinal ==
  /\ session.closings <= 1 /\ ~session.late
  /\ session.state = "closed" => ~session.subscribed /\ session.timer = "none"

\* A response is reported once, for the delegation that named it, and no output
\* item is told as part of two responses.
ResponsesKeptApart ==
  \A r, s \in reported : /\ ~r.again
                         /\ r # s => r.response # s.response /\ r.items \cap s.items = {}
=============================================================================
