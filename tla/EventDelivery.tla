--------------------------- MODULE EventDelivery ---------------------------
(***************************************************************************)
(* The way of the call events out of the store: the outbox of the bridge   *)
(* (packages/core/src/index.ts events, pendingEvents, acknowledgeEvent,    *)
(* retryEvent; packages/backend/src/outbox.ts), a backend that keeps a     *)
(* mirror of the calls (examples/backend/src/store.ts event), a client     *)
(* that pages through GET /v1/events, and the pruning of old events by the *)
(* offline command cleanup.                                                *)
(*                                                                         *)
(* Requests and answers are lost, delayed and repeated; the bridge dies    *)
(* between any two steps.  CallStore shows that the log grows as it does   *)
(* here: a call's revisions in order, one call after the other.            *)
(***************************************************************************)
EXTENDS Naturals, Sequences, FiniteSetsExt

CONSTANTS
  CallIds,
  BatchSize,      \* limit of runOnce and of a page
  MaxEvents       \* bound: events the calls of a behaviour emit

ASSUME BatchSizeAssumption == BatchSize \in Nat \ {0}
ASSUME MaxEventsAssumption == MaxEvents \in Nat

VARIABLES
  events,     \* table events: position i holds the event with cursor i
  floor,      \* metadata event_floor: events up to it are deleted
  resting,    \* cursors whose next_at has not come
  overdue,    \* events up to this cursor are older than the retry deadline
  serving,    \* does the bridge run?  Offline commands need it not to
  batch,      \* cursors the running runOnce still has to deliver
  awaited,    \* the cursor of the event it has sent, or 0
  answered,   \* has the backend answered that request?
  sent,       \* cursors of the requests that may still arrive
  seen,       \* backend, table events: the events it has accepted
  mirror,     \* backend, table calls: what it believes about each call
  client      \* a reader of GET /v1/events: its cursor, what it was given,
              \* and whether it was told cursor_expired

outbox == <<batch, awaited, answered>>
backend == <<seen, mirror>>
vars == <<events, floor, resting, overdue, serving, batch, awaited, answered,
          sent, seen, mirror, client>>

Cursors == 1..Len(events)
Kept == (floor + 1)..Len(events)

Event == [call : CallIds, seq : Nat \ {0}, ended : BOOLEAN,
          delivery : {"pending", "acked", "failed"}]
Mirror == [seq : Nat, ended : BOOLEAN]
Unknown == [seq |-> 0, ended |-> FALSE]

OfCall(c) == {i \in Cursors : events[i].call = c}
Finished(c) == \E i \in OfCall(c) : events[i].ended

Init ==
  /\ events = <<>> /\ floor = 0
  /\ resting = {} /\ overdue = 0
  /\ serving = FALSE
  /\ batch = {} /\ awaited = 0 /\ answered = FALSE
  /\ sent = {} /\ seen = {} /\ mirror = [c \in CallIds |-> Unknown]
  /\ client = [cursor |-> 0, given |-> {}, expired |-> FALSE]

-----------------------------------------------------------------------------
(* The log *)

\* emit, for a new revision of call c.  Offline commands emit as well.
Emit(c, ended) ==
  /\ Len(events) < MaxEvents
  /\ ~Finished(c)
  /\ \A d \in CallIds \ {c} : OfCall(d) = {} \/ Finished(d)
  /\ events' = Append(events, [call |-> c, seq |-> Cardinality(OfCall(c)) + 1,
                               ended |-> ended, delivery |-> "pending"])
  /\ UNCHANGED <<floor, resting, overdue, serving, outbox, sent, backend, client>>

\* A row's delivery column; the rest of a row never changes.
Marked(i, d) == [events EXCEPT ![i].delivery = d]

\* Time passes: the events reach the retry deadline, oldest first.
GrowOld ==
  /\ overdue < Len(events)
  /\ overdue' = overdue + 1
  /\ UNCHANGED <<events, floor, resting, serving, outbox, sent, backend, client>>

\* next_at of event i is reached.
Rested(i) ==
  /\ i \in resting
  /\ resting' = resting \ {i}
  /\ UNCHANGED <<events, floor, overdue, serving, outbox, sent, backend, client>>

-----------------------------------------------------------------------------
(* The outbox worker *)

Due == {i \in Kept : events[i].delivery = "pending" /\ i \notin resting}

\* pendingEvents: the oldest ones that are due, up to the limit.
Oldest(S) == {i \in S : Cardinality({j \in S : j < i}) < BatchSize}

\* runOnce, unless one is running (the module's flag delivering).
RunOnce ==
  /\ serving /\ batch = {} /\ Due # {}
  /\ batch' = Oldest(Due)
  /\ UNCHANGED <<events, floor, resting, overdue, serving, awaited, answered, sent,
                 backend, client>>

Send ==
  /\ batch # {} /\ awaited = 0
  /\ awaited' = Min(batch)
  /\ answered' = FALSE
  /\ sent' = sent \cup {awaited'}
  /\ UNCHANGED <<events, floor, resting, overdue, serving, batch, backend, client>>

Done(i) ==
  /\ batch' = batch \ {i}
  /\ awaited' = 0
  /\ answered' = FALSE

Acknowledge ==
  /\ awaited # 0 /\ answered
  /\ events' = Marked(awaited, "acked")
  /\ Done(awaited)
  /\ UNCHANGED <<floor, resting, overdue, serving, sent, backend, client>>

\* Faulty: no deadline.
RetriedForever(i) == "pending"

\* retryEvent: the delivery column after one more failure.
Retried(i) == IF i <= overdue THEN "failed" ELSE "pending"

\* The request failed or timed out, or its answer was not the expected one:
\* wait, longer every time, or give up.
Retry ==
  /\ awaited # 0
  /\ events' = Marked(awaited, Retried(awaited))
  /\ resting' = resting \cup {awaited}
  /\ Done(awaited)
  /\ UNCHANGED <<floor, overdue, serving, sent, backend, client>>

\* The runtime is closed or replaced: the flight is aborted, and leaves its
\* event as it is even if the answer came.
Abort ==
  /\ batch # {}
  /\ batch' = {} /\ awaited' = 0 /\ answered' = FALSE
  /\ UNCHANGED <<events, floor, resting, overdue, serving, sent, backend, client>>

-----------------------------------------------------------------------------
(* The network and the backend *)

\* Faulty: the event that comes last counts.
MirroredLast(i) ==
  [mirror EXCEPT ![events[i].call] =
    [seq |-> events[i].seq, ended |-> events[i].ended]]

\* ON CONFLICT DO UPDATE ... WHERE excluded.revision > calls.revision
Mirrored(i) ==
  [mirror EXCEPT ![events[i].call] =
    IF events[i].seq > @.seq
      THEN [seq |-> events[i].seq, ended |-> events[i].ended] ELSE @]

\* The backend accepts a request; one it accepted before changes nothing.  A
\* request may arrive late, more than once, or never.
Receive(i) ==
  /\ i \in sent
  /\ seen' = seen \cup {i}
  /\ mirror' = IF i \in seen THEN mirror ELSE Mirrored(i)
  /\ answered' = (answered \/ i = awaited)
  /\ UNCHANGED <<events, floor, resting, overdue, serving, batch, awaited, sent, client>>

-----------------------------------------------------------------------------
(* Readers, pruning, restarts *)

\* events(): the cursor of a reader who would miss deleted events.
Expired(after) == after < floor

Page(after) == Oldest({i \in Kept : i > after})

Poll ==
  /\ serving /\ ~client.expired
  /\ IF Expired(client.cursor)
       THEN client' = [client EXCEPT !.expired = TRUE]
       ELSE /\ Page(client.cursor) # {}
            /\ client' = [client EXCEPT !.cursor = Max(Page(client.cursor)),
                                        !.given = @ \cup Page(client.cursor)]
  /\ UNCHANGED <<events, floor, resting, overdue, serving, outbox, sent, backend>>

\* Faulty: events that wait for a retry are deleted as well.
PrunableIfFinished(i) == Finished(events[i].call)

Prunable(i) ==
  /\ events[i].delivery # "pending"
  /\ Finished(events[i].call)

\* prune, by the offline command: the longest prefix of prunable events older
\* than some retention cutoff, which the operator's settings put anywhere.
Prune ==
  /\ ~serving
  /\ \E i \in Kept :
       /\ \A j \in (floor + 1)..i : Prunable(j)
       /\ floor' = i
  /\ UNCHANGED <<events, resting, overdue, serving, outbox, sent, backend, client>>

StartUp ==
  /\ ~serving
  /\ serving' = TRUE
  /\ UNCHANGED <<events, floor, resting, overdue, outbox, sent, backend, client>>

\* Shutdown or crash; the store survives, a flight does not.
GoDown ==
  /\ serving
  /\ serving' = FALSE
  /\ batch' = {} /\ awaited' = 0 /\ answered' = FALSE
  /\ UNCHANGED <<events, floor, resting, overdue, sent, backend, client>>

-----------------------------------------------------------------------------
Next ==
  \/ \E c \in CallIds, ended \in BOOLEAN : Emit(c, ended)
  \/ \E i \in Cursors : Rested(i) \/ Receive(i)
  \/ GrowOld
  \/ RunOnce \/ Send \/ Acknowledge \/ Retry \/ Abort
  \/ Poll \/ Prune \/ StartUp \/ GoDown

Spec == Init /\ [][Next]_vars

\* Time passes, and the bridge is up again and again for long enough to send
\* a request and to wait for its answer or its timeout.
Fairness ==
  /\ WF_vars(GrowOld) /\ WF_vars(StartUp)
  /\ \A i \in 1..MaxEvents : WF_vars(Rested(i))
  /\ SF_vars(RunOnce) /\ SF_vars(Send) /\ SF_vars(Acknowledge \/ Retry)

FairSpec == Spec /\ Fairness
-----------------------------------------------------------------------------
TypeOK ==
  /\ events \in Seq(Event)
  /\ floor \in 0..Len(events)
  /\ resting \subseteq Cursors
  /\ overdue \in 0..Len(events)
  /\ serving \in BOOLEAN
  /\ batch \subseteq Cursors
  /\ awaited \in batch \cup {0}
  /\ answered \in BOOLEAN
  /\ sent \subseteq Cursors
  /\ seen \subseteq Cursors
  /\ mirror \in [CallIds -> Mirror]
  /\ client \in [cursor : 0..Len(events), given : SUBSET Cursors, expired : BOOLEAN]

\* Whatever answers, aborts and crashes came between, an event marked as
\* acknowledged is one the backend holds.
AckedIsHeld == \A i \in Cursors : events[i].delivery = "acked" => i \in seen

\* Deliveries are late, repeated and overtaken, and some fail for good: once
\* the backend holds the last event of a call, its mirror shows the call as
\* it is, and nothing that arrives later takes it back.
LastWordStands ==
  \A i \in seen :
    events[i].seq = Cardinality(OfCall(events[i].call)) =>
      mirror[events[i].call] = [seq |-> events[i].seq, ended |-> events[i].ended]

\* What is deleted reached the backend or outlived the retry deadline, and its
\* call had ended: pruning never silences an event that was still owed.
NothingOwedIsPruned ==
  \A i \in 1..floor : /\ i \in seen \/ i <= overdue
                      /\ Finished(events[i].call)

\* A client that pages from the beginning is given every event up to its
\* cursor, or is told that it missed some.
ReaderMissesNothing == client.expired \/ client.given = 1..client.cursor

\* Pruning the outbox takes nothing a backend or a reader still needs unnoticed.
PruningIsHonest == NothingOwedIsPruned /\ ReaderMissesNothing

\* Every event is delivered or given up; none stays pending for ever.
EventsAreSettled ==
  \A i \in 1..MaxEvents :
    (i \in Cursors /\ events[i].delivery = "pending")
      ~> (i \in Cursors /\ events[i].delivery # "pending")
=============================================================================
