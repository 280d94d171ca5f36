------------------------- MODULE ServicePartsProofs -------------------------
(***************************************************************************)
(* Proofs about parts of the service that share no state with each other,  *)
(* each for any size of its constants: the way of the events out of the    *)
(* store, who may use the console, the agents' tokens and calls, the Live  *)
(* session, the audio routes, the console's dialogs, the call records, and *)
(* the budget.                                                             *)
(***************************************************************************)
EXTENDS EventDelivery, ConsoleAccess, AgentAccess, LiveSession, CallAudio,
        SetupDialog, CallRecords, UsageLedger,
        FiniteSetTheorems, WellFoundedInduction, TLAPS

-----------------------------------------------------------------------------
(* Numbers *)

\* Induction by the least counterexample: the initial segments 0..n, n in S,
\* are ordered by inclusion.
LEMMA LeastNumber ==
  ASSUME NEW S \in SUBSET Nat, S # {}
  PROVE  \E m \in S : \A n \in S : m <= n
<1>. DEFINE T == {0..n : n \in S}
<1>1. T \subseteq FiniteSubsetsOf(Nat) /\ T # {}
  <2>1. \A n \in S : 0..n \subseteq Nat /\ IsFiniteSet(0..n)
    BY FS_Interval
  <2>. QED  BY <2>1 DEF FiniteSubsetsOf
<1>2. \E x \in T : \A y \in T : <<y, x>> \notin StrictSubsetOrdering(Nat)
  BY <1>1, FS_StrictSubsetOrderingWellFounded, WFMin
<1>3. PICK m \in S : \A n \in S : <<0..n, 0..m>> \notin StrictSubsetOrdering(Nat)
  BY <1>2
<1>4. ASSUME NEW n \in S, n < m PROVE FALSE
  <2>1. 0..n \subseteq 0..m /\ m \in 0..m /\ m \notin 0..n /\ 0..m \subseteq Nat
    BY <1>4
  <2>2. <<0..n, 0..m>> \in StrictSubsetOrdering(Nat)
    BY <2>1 DEF StrictSubsetOrdering
  <2>. QED  BY <1>3, <2>2
<1>. QED  BY <1>4

LEMMA Minimum ==
  ASSUME NEW S \in SUBSET Nat, S # {}
  PROVE  Min(S) \in S /\ \A n \in S : Min(S) <= n
<1>1. \E m \in S : \A n \in S : m <= n
  BY LeastNumber
<1>. QED  BY <1>1 DEF Min

LEMMA Maximum ==
  ASSUME NEW S \in SUBSET Nat, S # {}, NEW n \in Nat, \A i \in S : i <= n
  PROVE  Max(S) \in S /\ \A i \in S : i <= Max(S)
<1>. DEFINE Bounds == {m \in Nat : \A i \in S : i <= m}
<1>1. PICK m \in Bounds : \A b \in Bounds : m <= b
  <2>1. Bounds \in SUBSET Nat /\ n \in Bounds
    OBVIOUS
  <2>. QED  BY <2>1, LeastNumber
<1>2. m \in S
  <2>. SUFFICES ASSUME m \notin S PROVE FALSE
    OBVIOUS
  <2>1. \A i \in S : i \in Nat /\ i <= m - 1
    BY <1>1
  <2>2. m - 1 \in Nat
    <3>1. PICK i \in S : i \in Nat /\ i <= m - 1
      BY <2>1
    <3>2. m \in Nat
      BY <1>1
    <3>. QED  BY <3>1, <3>2
  <2>3. m - 1 \in Bounds
    BY <2>1, <2>2
  <2>. QED  BY <1>1, <2>2, <2>3
<1>3. \E x \in S : \A y \in S : x >= y
  BY <1>1, <1>2
<1>4. Max(S) \in S /\ \A y \in S : Max(S) >= y
  BY <1>3 DEF Max
<1>. QED  BY <1>4

-----------------------------------------------------------------------------
(* The events *)

\* A call's events are numbered, each number once.
LogInv ==
  \A c \in CallIds : \A i \in OfCall(c) :
    /\ events[i].seq <= Cardinality(OfCall(c))
    /\ \A j \in OfCall(c) : events[i].seq = events[j].seq => i = j

\* An answer counts for the event that is awaited; what is settled was
\* answered, or has outlived the deadline.
HeldInv ==
  /\ answered => awaited \in seen
  /\ \A i \in Cursors :
       /\ events[i].delivery = "acked" => i \in seen
       /\ events[i].delivery = "failed" => i <= overdue

\* The mirror shows an event the backend has, and none it has is newer.
MirrorInv ==
  /\ \A i \in seen : events[i].seq <= mirror[events[i].call].seq
  /\ \A c \in CallIds :
       \/ mirror[c] = Unknown
       \/ \E i \in seen : /\ events[i].call = c
                          /\ mirror[c] = [seq |-> events[i].seq, ended |-> events[i].ended]

EventsInv == TypeOK /\ LogInv /\ HeldInv /\ MirrorInv /\ NothingOwedIsPruned /\ ReaderMissesNothing

LEMMA CallIsFinite ==
  ASSUME TypeOK, NEW c
  PROVE  IsFiniteSet(OfCall(c)) /\ Cardinality(OfCall(c)) \in Nat
<1>1. IsFiniteSet(Cursors)
  BY FS_Interval DEF TypeOK, Cursors
<1>. QED  BY <1>1, FS_Subset, FS_CardinalityType DEF OfCall

LEMMA EventTypes ==
  ASSUME TypeOK, NEW i \in Cursors
  PROVE  /\ events[i] \in Event /\ events[i].call \in CallIds
         /\ events[i].seq \in Nat \ {0} /\ events[i].ended \in BOOLEAN
<1>1. events[i] \in Event
  BY DEF TypeOK, Cursors
<1>. QED  BY <1>1 DEF Event

\* A step that leaves the log as it is, but for the column delivery.
LEMMA LogKept ==
  ASSUME EventsInv, Cursors' = Cursors,
         \A i \in Cursors : /\ events'[i].call = events[i].call
                            /\ events'[i].seq = events[i].seq
                            /\ events'[i].ended = events[i].ended
  PROVE  /\ LogInv'
         /\ \A c : OfCall(c)' = OfCall(c)
         /\ \A c : Finished(c) => Finished(c)'
<1>1. \A c : OfCall(c)' = OfCall(c)
  BY DEF OfCall
<1>2. \A c : Finished(c) => Finished(c)'
  BY <1>1 DEF Finished, OfCall
<1>3. LogInv'
  <2>1. \A c : \A i \in OfCall(c) : events'[i].seq = events[i].seq
    BY DEF OfCall
  <2>. QED  BY <1>1, <2>1 DEF EventsInv, LogInv
<1>. QED  BY <1>1, <1>2, <1>3

LEMMA MarkedKeeps ==
  ASSUME TypeOK, NEW i \in Cursors, NEW d \in {"pending", "acked", "failed"},
         events' = Marked(i, d)
  PROVE  /\ events' \in Seq(Event) /\ Len(events') = Len(events) /\ Cursors' = Cursors
         /\ \A j \in Cursors : /\ events'[j].call = events[j].call
                               /\ events'[j].seq = events[j].seq
                               /\ events'[j].ended = events[j].ended
                               /\ j # i => events'[j].delivery = events[j].delivery
         /\ events'[i].delivery = d
<1>. DEFINE e == [events[i] EXCEPT !.delivery = d]
<1>1. events \in Seq(Event) /\ i \in 1..Len(events) /\ events[i] \in Event
  BY DEF TypeOK, Cursors
<1>2. events' = [events EXCEPT ![i] = e]
  BY DEF Marked
<1>3. /\ e \in Event /\ e.delivery = d
      /\ e.call = events[i].call /\ e.seq = events[i].seq /\ e.ended = events[i].ended
  BY <1>1 DEF Event
<1>. HIDE DEF e
<1>4. events' \in Seq(Event) /\ Len(events') = Len(events)
  BY <1>1, <1>2, <1>3
<1>5. events'[i] = e /\ \A j \in 1..Len(events) : j # i => events'[j] = events[j]
  BY <1>1, <1>2
<1>. QED  BY <1>3, <1>4, <1>5 DEF Cursors

\* What a step that only moves the worker along keeps.
LEMMA WorkerKeeps ==
  ASSUME EventsInv, UNCHANGED <<events, floor, overdue, seen, mirror, client>>,
         TypeOK', answered' => awaited' \in seen
  PROVE  EventsInv'
<1>1. Cursors' = Cursors
  BY DEF Cursors
<1>2. LogInv' /\ \A c : Finished(c) => Finished(c)'
  BY <1>1, LogKept
<1>3. HeldInv' /\ MirrorInv' /\ ReaderMissesNothing'
  BY <1>1 DEF EventsInv, HeldInv, MirrorInv, ReaderMissesNothing
<1>4. NothingOwedIsPruned'
  BY <1>2 DEF EventsInv, NothingOwedIsPruned
<1>. QED  BY <1>2, <1>3, <1>4 DEF EventsInv

LEMMA EmitKeeps ==
  ASSUME EventsInv, NEW c \in CallIds, NEW ended \in BOOLEAN, Emit(c, ended)
  PROVE  EventsInv'
<1>. DEFINE n == Cardinality(OfCall(c)) + 1
            e == [call |-> c, seq |-> n, ended |-> ended, delivery |-> "pending"]
            k == Len(events) + 1
<1>1. /\ events' = Append(events, e)
      /\ UNCHANGED <<floor, resting, overdue, serving, batch, awaited, answered, sent,
                     seen, mirror, client>>
  BY DEF Emit, outbox, backend
<1>2. /\ events \in Seq(Event) /\ Len(events) \in Nat /\ n \in Nat \ {0}
      /\ Cardinality(OfCall(c)) \in Nat /\ IsFiniteSet(OfCall(c))
  BY CallIsFinite DEF EventsInv, TypeOK
<1>3. e \in Event /\ e.call = c /\ e.seq = n /\ e.ended = ended /\ e.delivery = "pending"
  BY <1>2 DEF Event
<1>. HIDE DEF e
<1>4. /\ events' \in Seq(Event) /\ Len(events') = k
      /\ events'[k] = e /\ \A i \in Cursors : events'[i] = events[i]
      /\ Cursors' = Cursors \cup {k} /\ k \notin Cursors
  BY <1>1, <1>2, <1>3 DEF Cursors
<1>5. /\ OfCall(c)' = OfCall(c) \cup {k}
      /\ \A d : d # c => OfCall(d)' = OfCall(d)
      /\ \A d : OfCall(d) \subseteq OfCall(d)'
  BY <1>3, <1>4 DEF OfCall
<1>6. Cardinality(OfCall(c)') = n
  <2>1. k \notin OfCall(c)
    BY <1>4 DEF OfCall
  <2>. QED  BY <1>2, <1>5, <2>1, FS_AddElement
<1>7. \A d : Finished(d) => Finished(d)'
  BY <1>4, <1>5 DEF Finished, OfCall
<1>8. TypeOK'
  <2>1. Cursors \subseteq Cursors' /\ 0..Len(events) \subseteq 0..Len(events')
    BY <1>2, <1>4
  <2>2. client \in [cursor : 0..Len(events'), given : SUBSET Cursors', expired : BOOLEAN]
    BY <2>1 DEF EventsInv, TypeOK
  <2>. QED  BY <1>1, <1>4, <2>1, <2>2 DEF EventsInv, TypeOK
<1>9. LogInv'
  <2>1. \A i \in OfCall(c) : events'[i].seq <= Cardinality(OfCall(c)) /\ events'[i].seq \in Nat
    BY <1>4, EventTypes DEF EventsInv, LogInv, OfCall
  <2>2. events'[k].seq = n
    BY <1>3, <1>4
  <2>3. ASSUME NEW i \in OfCall(c)'
        PROVE  /\ events'[i].seq <= Cardinality(OfCall(c)')
               /\ \A j \in OfCall(c)' : events'[i].seq = events'[j].seq => i = j
    <3>1. events'[i].seq <= n
      BY <1>2, <1>5, <2>1, <2>2
    <3>2. ASSUME NEW j \in OfCall(c)', events'[i].seq = events'[j].seq PROVE i = j
      <4>1. CASE i \in OfCall(c) /\ j \in OfCall(c)
        BY <1>4, <3>2, <4>1 DEF EventsInv, LogInv, OfCall
      <4>2. CASE i = k \/ j = k
        BY <1>2, <1>5, <2>1, <2>2, <3>2, <4>2
      <4>. QED  BY <1>5, <4>1, <4>2
    <3>. QED  BY <1>6, <3>1, <3>2
  <2>4. ASSUME NEW d \in CallIds, d # c, NEW i \in OfCall(d)'
        PROVE  /\ events'[i].seq <= Cardinality(OfCall(d)')
               /\ \A j \in OfCall(d)' : events'[i].seq = events'[j].seq => i = j
    <3>1. OfCall(d)' = OfCall(d) /\ \A j \in OfCall(d) : events'[j] = events[j]
      BY <1>4, <1>5, <2>4 DEF OfCall
    <3>. QED  BY <2>4, <3>1 DEF EventsInv, LogInv
  <2>. QED  BY <2>3, <2>4 DEF LogInv
<1>10. HeldInv'
  BY <1>1, <1>3, <1>4 DEF EventsInv, HeldInv
<1>11. MirrorInv'
  <2>1. \A i \in seen : events'[i] = events[i]
    BY <1>4 DEF EventsInv, TypeOK
  <2>2. \A i \in seen : events'[i].seq <= mirror[events'[i].call].seq
    BY <2>1 DEF EventsInv, MirrorInv
  <2>3. ASSUME NEW d \in CallIds, mirror[d] # Unknown
        PROVE  \E i \in seen : /\ events'[i].call = d
                               /\ mirror[d] = [seq |-> events'[i].seq, ended |-> events'[i].ended]
    <3>1. PICK i \in seen : /\ events[i].call = d
                            /\ mirror[d] = [seq |-> events[i].seq, ended |-> events[i].ended]
      BY <2>3 DEF EventsInv, MirrorInv
    <3>. QED  BY <2>1, <3>1
  <2>. QED  BY <1>1, <2>2, <2>3 DEF MirrorInv, Unknown
<1>12. NothingOwedIsPruned' /\ ReaderMissesNothing'
  <2>1. \A i \in 1..floor : i \in Cursors
    BY DEF EventsInv, TypeOK, Cursors
  <2>. QED  BY <1>1, <1>4, <1>7, <2>1 DEF EventsInv, NothingOwedIsPruned, ReaderMissesNothing
<1>. QED  BY <1>8, <1>9, <1>10, <1>11, <1>12 DEF EventsInv

LEMMA TimeKeeps ==
  ASSUME EventsInv, GrowOld \/ (\E i \in Cursors : Rested(i)) \/ StartUp
  PROVE  EventsInv'
<1>1. /\ UNCHANGED <<events, floor, batch, awaited, answered, sent, seen, mirror, client>>
      /\ resting' \subseteq resting /\ serving' \in BOOLEAN
      /\ overdue' = overdue \/ (overdue < Len(events) /\ overdue' = overdue + 1)
  BY DEF EventsInv, TypeOK, GrowOld, Rested, StartUp, outbox, backend
<1>2. TypeOK' /\ overdue <= overdue' /\ Cursors' = Cursors
  BY <1>1 DEF EventsInv, TypeOK, Cursors
<1>3. LogInv' /\ \A c : Finished(c) => Finished(c)'
  BY <1>1, <1>2, LogKept
<1>4. MirrorInv' /\ ReaderMissesNothing'
  BY <1>1, <1>2 DEF EventsInv, MirrorInv, ReaderMissesNothing
<1>5. \A i \in Cursors : i <= overdue => i <= overdue'
  BY <1>1, <1>2 DEF EventsInv, TypeOK, Cursors
<1>6. HeldInv'
  BY <1>1, <1>2, <1>5 DEF EventsInv, HeldInv
<1>7. NothingOwedIsPruned'
  <2>1. \A i \in 1..floor : i \in Cursors
    BY DEF EventsInv, TypeOK, Cursors
  <2>. QED  BY <1>1, <1>3, <1>5, <2>1 DEF EventsInv, NothingOwedIsPruned
<1>. QED  BY <1>2, <1>3, <1>4, <1>6, <1>7 DEF EventsInv

LEMMA RunOnceKeeps == ASSUME EventsInv, RunOnce PROVE EventsInv'
<1>1. /\ UNCHANGED <<events, floor, resting, overdue, serving, awaited, answered, sent,
                     seen, mirror, client>>
      /\ batch = {} /\ batch' \subseteq Cursors /\ Cursors' = Cursors
  <2>1. Oldest(Due) \subseteq Cursors
    BY DEF Oldest, Due, Kept, Cursors, EventsInv, TypeOK
  <2>. QED  BY <2>1 DEF RunOnce, backend, Cursors
<1>2. TypeOK'
  BY <1>1 DEF EventsInv, TypeOK
<1>. QED  BY <1>1, <1>2, WorkerKeeps DEF EventsInv, HeldInv

LEMMA SendKeeps == ASSUME EventsInv, Send PROVE EventsInv'
<1>1. /\ UNCHANGED <<events, floor, resting, overdue, serving, batch, seen, mirror, client>>
      /\ batch # {} /\ awaited' = Min(batch) /\ answered' = FALSE
      /\ sent' = sent \cup {awaited'} /\ Cursors' = Cursors
  BY DEF Send, backend, Cursors
<1>2. Min(batch) \in batch
  <2>1. batch \in SUBSET Nat
    BY DEF EventsInv, TypeOK, Cursors
  <2>. QED  BY <1>1, <2>1, Minimum
<1>3. TypeOK'
  BY <1>1, <1>2 DEF EventsInv, TypeOK
<1>. QED  BY <1>1, <1>3, WorkerKeeps

LEMMA AbortKeeps == ASSUME EventsInv, Abort \/ GoDown PROVE EventsInv'
<1>1. /\ UNCHANGED <<events, floor, resting, overdue, sent, seen, mirror, client>>
      /\ serving' \in BOOLEAN
      /\ batch' = {} /\ awaited' = 0 /\ answered' = FALSE /\ Cursors' = Cursors
  BY DEF Abort, GoDown, backend, Cursors, EventsInv, TypeOK
<1>2. TypeOK'
  BY <1>1 DEF EventsInv, TypeOK
<1>. QED  BY <1>1, <1>2, WorkerKeeps

\* The awaited event is settled, or waits for another attempt.
LEMMA SettleKeeps ==
  ASSUME EventsInv, NEW d \in {"pending", "acked", "failed"}, awaited # 0,
         events' = Marked(awaited, d), Done(awaited),
         resting' \subseteq resting \cup {awaited},
         UNCHANGED <<floor, overdue, serving, sent, seen, mirror, client>>,
         d = "acked" => answered, d = "failed" => awaited <= overdue
  PROVE  EventsInv'
<1>1. awaited \in Cursors
  BY DEF EventsInv, TypeOK
<1>2. /\ events' \in Seq(Event) /\ Len(events') = Len(events) /\ Cursors' = Cursors
      /\ \A j \in Cursors : /\ events'[j].call = events[j].call
                            /\ events'[j].seq = events[j].seq
                            /\ events'[j].ended = events[j].ended
                            /\ j # awaited => events'[j].delivery = events[j].delivery
      /\ events'[awaited].delivery = d
  BY <1>1, MarkedKeeps DEF EventsInv
<1>3. batch' \subseteq batch /\ awaited' = 0 /\ answered' = FALSE
  BY DEF Done
<1>4. LogInv' /\ \A c : Finished(c) => Finished(c)'
  BY <1>2, LogKept
<1>5. TypeOK'
  BY <1>1, <1>2, <1>3 DEF EventsInv, TypeOK
<1>6. HeldInv'
  <2>1. \A i \in Cursors : /\ events'[i].delivery = "acked" => i \in seen
                           /\ events'[i].delivery = "failed" => i <= overdue
    BY <1>2 DEF EventsInv, HeldInv
  <2>. QED  BY <1>2, <1>3, <2>1 DEF HeldInv
<1>7. MirrorInv'
  <2>1. seen \subseteq Cursors
    BY DEF EventsInv, TypeOK
  <2>2. \A i \in seen : /\ events'[i].call = events[i].call
                        /\ events'[i].seq = events[i].seq
                        /\ events'[i].ended = events[i].ended
    BY <1>2, <2>1
  <2>. HIDE DEF Marked
  <2>3. \A i \in seen : events'[i].seq <= mirror[events'[i].call].seq
    BY <2>2 DEF EventsInv, MirrorInv
  <2>4. ASSUME NEW c \in CallIds, mirror[c] # Unknown
        PROVE  \E i \in seen : /\ events'[i].call = c
                               /\ mirror[c] = [seq |-> events'[i].seq, ended |-> events'[i].ended]
    <3>1. PICK i \in seen : /\ events[i].call = c
                            /\ mirror[c] = [seq |-> events[i].seq, ended |-> events[i].ended]
      BY <2>4 DEF EventsInv, MirrorInv
    <3>. QED  BY <2>2, <3>1
  <2>. QED  BY <2>3, <2>4 DEF MirrorInv, Unknown
<1>8. NothingOwedIsPruned' /\ ReaderMissesNothing'
  <2>1. \A i \in 1..floor : i \in Cursors
    BY DEF EventsInv, TypeOK, Cursors
  <2>. QED  BY <1>2, <1>4, <2>1 DEF EventsInv, NothingOwedIsPruned, ReaderMissesNothing
<1>. QED  BY <1>4, <1>5, <1>6, <1>7, <1>8 DEF EventsInv

LEMMA AcknowledgeKeeps == ASSUME EventsInv, Acknowledge PROVE EventsInv'
BY SettleKeeps DEF Acknowledge, backend

LEMMA RetryKeeps == ASSUME EventsInv, Retry PROVE EventsInv'
BY SettleKeeps DEF Retry, Retried, backend

LEMMA ReceiveKeeps ==
  ASSUME EventsInv, NEW i \in Cursors, Receive(i)
  PROVE  EventsInv'
<1>. DEFINE c == events[i].call
            m == [seq |-> events[i].seq, ended |-> events[i].ended]
<1>1. /\ UNCHANGED <<events, floor, resting, overdue, serving, batch, awaited, sent, client>>
      /\ seen' = seen \cup {i} /\ mirror' = IF i \in seen THEN mirror ELSE Mirrored(i)
      /\ answered' = (answered \/ i = awaited) /\ Cursors' = Cursors
  BY DEF Receive, Cursors
<1>2. /\ events[i] \in Event /\ c \in CallIds /\ events[i].seq \in Nat \ {0}
      /\ mirror \in [CallIds -> Mirror] /\ m \in Mirror /\ m.seq = events[i].seq
      /\ mirror[c].seq \in Nat
  <2>1. /\ events[i] \in Event /\ c \in CallIds /\ events[i].seq \in Nat \ {0}
        /\ events[i].ended \in BOOLEAN /\ mirror \in [CallIds -> Mirror]
    BY EventTypes DEF EventsInv, TypeOK
  <2>. QED  BY <2>1 DEF Mirror
<1>3. \A j \in seen : events[j].call \in CallIds /\ events[j].seq \in Nat
  BY EventTypes DEF EventsInv, TypeOK
<1>4. /\ mirror' \in [CallIds -> Mirror]
      /\ \A d \in CallIds \ {c} : mirror'[d] = mirror[d]
      /\ \/ mirror'[c] = mirror[c] /\ events[i].seq <= mirror[c].seq
         \/ mirror'[c] = m /\ mirror[c].seq < events[i].seq
  <2>1. CASE i \in seen
    BY <1>1, <2>1 DEF EventsInv, TypeOK, MirrorInv
  <2>2. CASE i \notin seen
    <3>1. mirror' = [mirror EXCEPT ![c] = IF events[i].seq > mirror[c].seq THEN m ELSE mirror[c]]
      BY <1>1, <1>2, <2>2 DEF Mirrored
    <3>2. CASE events[i].seq > mirror[c].seq
      <4>1. mirror' = [mirror EXCEPT ![c] = m]
        BY <3>1, <3>2
      <4>. HIDE DEF m
      <4>. QED  BY <1>2, <3>2, <4>1
    <3>3. CASE ~(events[i].seq > mirror[c].seq)
      <4>1. mirror' = mirror
        BY <1>2, <3>1, <3>3
      <4>. QED  BY <1>2, <3>3, <4>1
    <3>. QED  BY <3>2, <3>3
  <2>. QED  BY <2>1, <2>2
<1>. HIDE DEF m
<1>5. TypeOK'
  <2>1. answered' \in BOOLEAN
    BY <1>1
  <2>. QED  BY <1>1, <1>4, <2>1 DEF EventsInv, TypeOK
<1>6. LogInv' /\ \A d : Finished(d) => Finished(d)'
  BY <1>1, LogKept
<1>7. HeldInv'
  BY <1>1 DEF EventsInv, HeldInv
<1>8. MirrorInv'
  <2>1. ASSUME NEW j \in seen' PROVE events[j].seq <= mirror'[events[j].call].seq
    <3>1. CASE j = i
      BY <1>2, <1>4, <3>1
    <3>2. CASE j \in seen
      <4>1. events[j].seq <= mirror[events[j].call].seq
        BY <3>2 DEF EventsInv, MirrorInv
      <4>2. CASE events[j].call = c
        BY <1>2, <1>3, <1>4, <3>2, <4>1, <4>2
      <4>3. CASE events[j].call # c
        BY <1>3, <1>4, <3>2, <4>1, <4>3
      <4>. QED  BY <4>2, <4>3
    <3>. QED  BY <1>1, <3>1, <3>2
  <2>2. ASSUME NEW d \in CallIds, mirror'[d] # Unknown
        PROVE  \E j \in seen' : /\ events[j].call = d
                                /\ mirror'[d] = [seq |-> events[j].seq, ended |-> events[j].ended]
    <3>1. CASE mirror'[d] = mirror[d]
      BY <1>1, <2>2, <3>1 DEF EventsInv, MirrorInv
    <3>2. CASE d = c /\ mirror'[c] = m
      BY <1>1, <3>2 DEF m
    <3>. QED  BY <1>4, <3>1, <3>2
  <2>. QED  BY <1>1, <2>1, <2>2 DEF MirrorInv, Unknown
<1>9. NothingOwedIsPruned' /\ ReaderMissesNothing'
  BY <1>1, <1>6 DEF EventsInv, NothingOwedIsPruned, ReaderMissesNothing
<1>. QED  BY <1>5, <1>6, <1>7, <1>8, <1>9 DEF EventsInv

\* A page is a stretch of the log that begins after the reader's cursor.
LEMMA PageIsNext ==
  ASSUME TypeOK, NEW after \in 0..Len(events), floor <= after, Page(after) # {}
  PROVE  /\ Max(Page(after)) \in (after + 1)..Len(events)
         /\ Page(after) = (after + 1)..Max(Page(after))
<1>. DEFINE S == {i \in Kept : i > after}
            P == Page(after)
            m == Max(P)
<1>1. Len(events) \in Nat /\ floor \in Nat /\ S = (after + 1)..Len(events)
  BY DEF TypeOK, Kept
<1>2. P = {i \in S : Cardinality({j \in S : j < i}) < BatchSize}
  BY DEF Page, Oldest
<1>3. ASSUME NEW i \in P, NEW j \in S, j < i PROVE j \in P
  <2>1. IsFiniteSet(S)
    <3>1. after + 1 \in Int /\ Len(events) \in Int
      BY <1>1
    <3>2. IsFiniteSet((after + 1)..Len(events))
      BY <3>1, FS_Interval, Zenon
    <3>. QED  BY <1>1, <3>2, Zenon
  <2>2. {k \in S : k < j} \subseteq {k \in S : k < i} /\ i \in S
    BY <1>1, <1>2, <1>3
  <2>3. /\ IsFiniteSet({k \in S : k < i}) /\ IsFiniteSet({k \in S : k < j})
        /\ Cardinality({k \in S : k < j}) <= Cardinality({k \in S : k < i})
    BY <2>1, <2>2, FS_Subset
  <2>4. Cardinality({k \in S : k < i}) \in Nat /\ Cardinality({k \in S : k < j}) \in Nat
    BY <2>3, FS_CardinalityType
  <2>. QED  BY <1>2, <2>3, <2>4, BatchSizeAssumption
<1>4. m \in P /\ \A i \in P : i <= m
  <2>1. P \in SUBSET Nat /\ P # {} /\ \A i \in P : i <= Len(events)
    <3>1. P \subseteq S
      BY <1>2
    <3>. HIDE DEF P
    <3>2. \A i \in S : i \in Nat /\ i <= Len(events)
      BY <1>1
    <3>. QED  BY <3>1, <3>2 DEF P
  <2>. QED  BY <1>1, <2>1, Maximum
<1>5. m \in S /\ P \subseteq S
  BY <1>2, <1>4
<1>. HIDE DEF P, m, S
<1>6. P = (after + 1)..m
  <2>1. \A i \in P : i \in (after + 1)..m
    BY <1>1, <1>4, <1>5
  <2>2. ASSUME NEW i \in (after + 1)..m PROVE i \in P
    <3>1. i \in S
      BY <1>1, <1>5
    <3>2. CASE i = m
      BY <1>4, <3>2
    <3>3. CASE i < m
      BY <1>3, <1>4, <3>1, <3>3
    <3>. QED  BY <1>1, <1>5, <3>2, <3>3
  <2>. QED  BY <2>1, <2>2
<1>. QED  BY <1>1, <1>5, <1>6 DEF P, m, S

LEMMA PollKeeps == ASSUME EventsInv, Poll PROVE EventsInv'
<1>1. /\ UNCHANGED <<events, floor, resting, overdue, serving, batch, awaited, answered,
                     sent, seen, mirror>>
      /\ ~client.expired /\ Cursors' = Cursors
  BY DEF Poll, outbox, backend, Cursors
<1>2. /\ client \in [cursor : 0..Len(events), given : SUBSET Cursors, expired : BOOLEAN]
      /\ client.given = 1..client.cursor
      /\ Len(events) \in Nat /\ floor \in Nat
  BY <1>1 DEF EventsInv, TypeOK, ReaderMissesNothing
<1>3. /\ client' \in [cursor : 0..Len(events), given : SUBSET Cursors, expired : BOOLEAN]
      /\ client'.expired \/ client'.given = 1..client'.cursor
  <2>1. CASE Expired(client.cursor)
    <3>1. client' = [client EXCEPT !.expired = TRUE]
      BY <2>1 DEF Poll
    <3>. QED  BY <1>2, <3>1
  <2>2. CASE ~Expired(client.cursor)
    <3>. DEFINE P == Page(client.cursor)
                m == Max(P)
    <3>1. P # {} /\ client' = [client EXCEPT !.cursor = m, !.given = client.given \cup P]
      BY <1>2, <2>2 DEF Poll
    <3>2. floor <= client.cursor /\ client.cursor \in 0..Len(events)
      BY <1>2, <2>2 DEF Expired
    <3>3. m \in (client.cursor + 1)..Len(events) /\ P = (client.cursor + 1)..m
      BY <3>1, <3>2, PageIsNext DEF EventsInv
    <3>. HIDE DEF P, m
    <3>4. m \in 0..Len(events) /\ client.given \cup P = 1..m
      BY <1>2, <3>2, <3>3
    <3>5. client.given \cup P \in SUBSET Cursors
      BY <1>2, <3>3, <3>4 DEF Cursors
    <3>. QED  BY <1>2, <3>1, <3>4, <3>5
  <2>. QED  BY <2>1, <2>2
<1>4. TypeOK'
  BY <1>1, <1>3 DEF EventsInv, TypeOK
<1>5. LogInv' /\ \A c : Finished(c) => Finished(c)'
  BY <1>1, LogKept
<1>6. HeldInv' /\ MirrorInv'
  BY <1>1 DEF EventsInv, HeldInv, MirrorInv
<1>7. NothingOwedIsPruned'
  BY <1>1, <1>5 DEF EventsInv, NothingOwedIsPruned
<1>8. ReaderMissesNothing'
  BY <1>3 DEF ReaderMissesNothing
<1>. QED  BY <1>4, <1>5, <1>6, <1>7, <1>8 DEF EventsInv

LEMMA PruneKeeps == ASSUME EventsInv, Prune PROVE EventsInv'
<1>1. /\ UNCHANGED <<events, resting, overdue, serving, batch, awaited, answered, sent,
                     seen, mirror, client>>
      /\ Cursors' = Cursors
  BY DEF Prune, outbox, backend, Cursors
<1>2. PICK i \in Kept : floor' = i /\ \A j \in (floor + 1)..i : Prunable(j)
  BY DEF Prune
<1>3. /\ Len(events) \in Nat /\ floor \in Nat /\ i \in (floor + 1)..Len(events)
      /\ floor' \in 0..Len(events)
  BY <1>2 DEF EventsInv, TypeOK, Kept
<1>4. TypeOK'
  BY <1>1, <1>3 DEF EventsInv, TypeOK
<1>5. LogInv' /\ \A c : Finished(c) => Finished(c)'
  BY <1>1, LogKept
<1>6. HeldInv' /\ MirrorInv' /\ ReaderMissesNothing'
  BY <1>1 DEF EventsInv, HeldInv, MirrorInv, ReaderMissesNothing
<1>7. NothingOwedIsPruned'
  <2>. SUFFICES ASSUME NEW j \in 1..i
       PROVE  (j \in seen \/ j <= overdue) /\ Finished(events[j].call)
    BY <1>1, <1>2 DEF NothingOwedIsPruned, Finished, OfCall, Cursors
  <2>1. CASE j \in 1..floor
    BY <2>1 DEF EventsInv, NothingOwedIsPruned
  <2>2. CASE j \in (floor + 1)..i
    <3>1. j \in Cursors
      BY <1>3 DEF Cursors
    <3>2. events[j].delivery \in {"acked", "failed"}
      <4>1. events[j] \in Event
        BY <3>1, EventTypes DEF EventsInv
      <4>. QED  BY <1>2, <2>2, <4>1 DEF Prunable, Event
    <3>3. Finished(events[j].call)
      BY <1>2, <2>2 DEF Prunable
    <3>. QED  BY <3>1, <3>2, <3>3 DEF EventsInv, HeldInv
  <2>. QED  BY <1>3, <2>1, <2>2
<1>. QED  BY <1>4, <1>5, <1>6, <1>7 DEF EventsInv

LEMMA EventsInitial == Init => EventsInv
<1>. SUFFICES ASSUME Init PROVE EventsInv
  OBVIOUS
<1>. USE DEF Init
<1>1. Len(events) = 0 /\ Cursors = {} /\ 1..0 = {}
  BY DEF Cursors
<1>2. TypeOK
  <2>1. Unknown \in Mirror
    BY DEF Unknown, Mirror
  <2>2. /\ events \in Seq(Event) /\ floor \in 0..Len(events) /\ overdue \in 0..Len(events)
        /\ client \in [cursor : 0..Len(events), given : SUBSET Cursors, expired : BOOLEAN]
    BY <1>1
  <2>3. mirror \in [CallIds -> Mirror]
    BY <2>1
  <2>. QED  BY <2>2, <2>3 DEF TypeOK
<1>3. LogInv /\ HeldInv /\ MirrorInv
  BY <1>1 DEF LogInv, OfCall, HeldInv, MirrorInv
<1>4. NothingOwedIsPruned /\ ReaderMissesNothing
  BY <1>1 DEF NothingOwedIsPruned, ReaderMissesNothing
<1>. QED  BY <1>2, <1>3, <1>4 DEF EventsInv

LEMMA EventsStep == EventsInv /\ [Next]_vars => EventsInv'
<1>. SUFFICES ASSUME EventsInv, [Next]_vars PROVE EventsInv'
  OBVIOUS
<1>1. ASSUME NEW c \in CallIds, NEW ended \in BOOLEAN, Emit(c, ended) PROVE EventsInv'
  BY <1>1, EmitKeeps
<1>2. ASSUME NEW i \in Cursors, Rested(i) \/ Receive(i) PROVE EventsInv'
  BY <1>2, TimeKeeps, ReceiveKeeps
<1>3. CASE GrowOld \/ StartUp
  BY <1>3, TimeKeeps
<1>4. CASE RunOnce \/ Send \/ Abort \/ GoDown
  BY <1>4, RunOnceKeeps, SendKeeps, AbortKeeps
<1>5. CASE Acknowledge \/ Retry
  BY <1>5, AcknowledgeKeeps, RetryKeeps
<1>6. CASE Poll \/ Prune
  BY <1>6, PollKeeps, PruneKeeps
<1>7. CASE UNCHANGED vars
  <2>1. TypeOK'
    BY <1>7 DEF vars, EventsInv, TypeOK, Cursors
  <2>. QED  BY <1>7, <2>1, WorkerKeeps DEF vars, EventsInv, HeldInv
<1>. QED  BY <1>1, <1>2, <1>3, <1>4, <1>5, <1>6, <1>7 DEF Next

LEMMA EventsInvariance == Spec => []EventsInv
BY EventsInitial, EventsStep, PTL DEF Spec

\* The variables of the outbox keep their types.
THEOREM EventTypesKept == Spec => []TypeOK
<1>1. EventsInv => TypeOK  BY DEF EventsInv
<1>. QED  BY <1>1, EventsInvariance, PTL

\* Once the backend has the last event of a call its mirror shows the call as
\* it is, however deliveries were delayed, repeated and overtaken (store.ts event).
THEOREM MirrorIsRight == Spec => []LastWordStands
<1>1. EventsInv => LastWordStands
  <2>. SUFFICES ASSUME EventsInv, NEW i \in seen,
                       events[i].seq = Cardinality(OfCall(events[i].call))
       PROVE  mirror[events[i].call] = [seq |-> events[i].seq, ended |-> events[i].ended]
    BY DEF LastWordStands
  <2>. DEFINE c == events[i].call
  <2>1. i \in Cursors /\ seen \subseteq Cursors
    BY DEF EventsInv, TypeOK
  <2>2. c \in CallIds /\ events[i].seq \in Nat \ {0}
    BY <2>1, EventTypes DEF EventsInv
  <2>3. events[i].seq <= mirror[c].seq
    BY DEF EventsInv, MirrorInv
  <2>4. mirror[c] # Unknown
    BY <2>2, <2>3 DEF Unknown
  <2>5. PICK j \in seen : /\ events[j].call = c
                          /\ mirror[c] = [seq |-> events[j].seq, ended |-> events[j].ended]
    BY <2>2, <2>4 DEF EventsInv, MirrorInv
  <2>6. events[j].seq \in Nat /\ events[i].seq <= events[j].seq
    BY <2>1, <2>3, <2>5, EventTypes DEF EventsInv
  <2>7. i \in OfCall(c) /\ j \in OfCall(c)
    BY <2>1, <2>5 DEF OfCall
  <2>8. events[j].seq <= events[i].seq
    BY <2>2, <2>7 DEF EventsInv, LogInv
  <2>9. events[i].seq = events[j].seq
    BY <2>2, <2>6, <2>8
  <2>10. i = j
    BY <2>2, <2>7, <2>9 DEF EventsInv, LogInv
  <2>. QED  BY <2>5, <2>10
<1>. QED  BY <1>1, EventsInvariance, PTL

\* What the offline command deletes was delivered or had outlived the retry
\* deadline, and a reader is given every event or told that it missed some.
THEOREM PruningTakesNothingOwed == Spec => []PruningIsHonest
<1>1. EventsInv => PruningIsHonest  BY DEF EventsInv, PruningIsHonest
<1>. QED  BY <1>1, EventsInvariance, PTL

-----------------------------------------------------------------------------
(* Who may use the console *)

Names == Logins \cup {NoLogin}
Account == [login : Names, revision : Nat, credential_revision : Nat]
SignIns == 1..MaxSignIns
Session == [state : {"none", "live", "expired", "gone"}, credential_revision : Nat,
            proven : Names]

AccessTypes ==
  /\ process \in [is : {"none", "opening", "ready"}, by : {"service", "recovery"}]
  /\ account \in [file : Account, memory : Account, bootstrap : Names \cup {Unlinked}]
  /\ change \in [at : {"none", "verifying", "unlinking", "writing"}, tab : SUBSET Tabs,
                 current : Names, next : Account]
  /\ verifying \in [tab : SUBSET Tabs, login : Names, snapshot : Account,
                    previous : SignIns \cup {0}]
  /\ sessions \in [SignIns -> Session]
  /\ browser \in [cookie : SignIns \cup {0}, tabs : [Tabs -> SignIns \cup {0}]]
  /\ refusals \subseteq Tabs

\* Nothing is under way, and nobody signed in, but in a process that is ready,
\* and it has an account, of which the file is at most a failed change ahead.
ProcessInv ==
  /\ process.is # "ready" =>
       /\ change = NoChange /\ verifying = NotVerifying
       /\ \A i \in SignIns : sessions[i].state # "live"
  /\ process.is = "ready" => account.file # Unsaved /\ account.memory.revision > 0
  /\ RestartKeepsAnswered
  /\ process.is = "opening" =>
       /\ account.file = Unsaved /\ account.memory.revision = 1
       /\ account.bootstrap \in {Unlinked, account.memory.login}

FileInv ==
  /\ account.file # Unsaved => account.file.revision > 0
  /\ BootstrapIsCurrent

\* A change is based on the present account, and rotates the credentials when
\* they are others; the bootstrap file is gone before it is written.
ChangeInv ==
  change.at # "none" =>
    /\ change.next.revision = account.memory.revision + 1
    /\ change.next.credential_revision \in
         {account.memory.credential_revision, account.memory.credential_revision + 1}
    /\ ~Rotates(change.next) => change.next.login = account.memory.login
    /\ Rotates(change.next) /\ change.at = "writing" => account.bootstrap = Unlinked

\* A credential revision names one set of credentials.
SessionsInv ==
  \A i \in SignIns :
    /\ sessions[i].state = "live"
    /\ sessions[i].credential_revision = account.memory.credential_revision
    => sessions[i].proven = account.memory.login

VerifyInv ==
  verifying # NotVerifying =>
    /\ verifying.snapshot.credential_revision <= account.memory.credential_revision
    /\ verifying.snapshot.credential_revision = account.memory.credential_revision =>
         verifying.snapshot.login = account.memory.login

AccessInv ==
  AccessTypes /\ ProcessInv /\ FileInv /\ ChangeInv /\ SessionsInv /\ VerifyInv

AccessSpec == AccessInit /\ [][AccessNext]_accessVars

LEMMA SessionStates ==
  ASSUME AccessTypes, NEW i \in SignIns, NEW s \in {"none", "live", "expired", "gone"}
  PROVE  LET new == [sessions EXCEPT ![i].state = s] IN
         /\ new \in [SignIns -> Session]
         /\ new[i].state = s
         /\ new[i].credential_revision = sessions[i].credential_revision
         /\ new[i].proven = sessions[i].proven
         /\ \A j \in SignIns \ {i} : new[j] = sessions[j]
<1>. DEFINE e == [sessions[i] EXCEPT !.state = s]
<1>1. sessions \in [SignIns -> Session] /\ sessions[i] \in Session
  BY DEF AccessTypes
<1>2. /\ e \in Session /\ e.state = s
      /\ e.credential_revision = sessions[i].credential_revision
      /\ e.proven = sessions[i].proven
  BY <1>1 DEF Session
<1>3. [sessions EXCEPT ![i].state = s] = [sessions EXCEPT ![i] = e]
  BY <1>1
<1>. HIDE DEF e
<1>. QED  BY <1>1, <1>2, <1>3

\* Steps that let nobody in.
LEMMA SessionsWeaken ==
  ASSUME AccessInv, AccessTypes', UNCHANGED <<process, account, change, verifying>>,
         \A i \in SignIns : sessions'[i].state = "live" =>
           /\ sessions[i].state = "live"
           /\ sessions'[i].credential_revision = sessions[i].credential_revision
           /\ sessions'[i].proven = sessions[i].proven
  PROVE  AccessInv'
<1>1. ProcessInv'
  BY DEF AccessInv, ProcessInv, RestartKeepsAnswered
<1>2. FileInv' /\ ChangeInv' /\ VerifyInv'
  BY DEF AccessInv, FileInv, BootstrapIsCurrent, ChangeInv, Rotates, VerifyInv
<1>3. SessionsInv'
  BY DEF AccessInv, SessionsInv
<1>. QED  BY <1>1, <1>2, <1>3 DEF AccessInv

LEMMA ExpireKeeps ==
  ASSUME AccessInv, NEW i \in SignIns, Expire(i)
  PROVE  AccessInv'
<1>1. /\ sessions' = [sessions EXCEPT ![i].state = "expired"]
      /\ UNCHANGED <<process, account, change, verifying, browser, refusals>>
  BY DEF Expire
<1>2. /\ sessions' \in [SignIns -> Session] /\ sessions'[i].state = "expired"
      /\ \A j \in SignIns \ {i} : sessions'[j] = sessions[j]
  BY <1>1, SessionStates DEF AccessInv
<1>3. AccessTypes'
  BY <1>1, <1>2 DEF AccessInv, AccessTypes
<1>. QED  BY <1>1, <1>2, <1>3, SessionsWeaken

\* What becomes of a tab, and of the cookie.
LEMMA BrowserTypes ==
  ASSUME AccessTypes, NEW t \in Tabs, NEW s \in SignIns \cup {0}
  PROVE  /\ [browser EXCEPT !.tabs[t] = s] \in
              [cookie : SignIns \cup {0}, tabs : [Tabs -> SignIns \cup {0}]]
         /\ [browser EXCEPT !.cookie = 0, !.tabs[t] = s] \in
              [cookie : SignIns \cup {0}, tabs : [Tabs -> SignIns \cup {0}]]
BY DEF AccessTypes

LEMMA TabKeeps ==
  ASSUME AccessInv, NEW t \in Tabs, TabExpires(t) \/ Unauthorized(t) \/ Reload(t)
  PROVE  AccessInv'
<1>1. /\ UNCHANGED <<process, account, change, verifying, sessions>>
      /\ refusals' \subseteq refusals
      /\ browser' \in [cookie : SignIns \cup {0}, tabs : [Tabs -> SignIns \cup {0}]]
  <2>1. browser.cookie \in SignIns \cup {0}
    BY DEF AccessInv, AccessTypes
  <2>2. PICK s \in SignIns \cup {0} : browser' = [browser EXCEPT !.tabs[t] = s]
    BY <2>1 DEF TabExpires, Unauthorized, Reload
  <2>3. browser' \in [cookie : SignIns \cup {0}, tabs : [Tabs -> SignIns \cup {0}]]
    BY <2>2, BrowserTypes DEF AccessInv
  <2>. QED  BY <2>3 DEF TabExpires, Unauthorized, Reload
<1>2. AccessTypes'
  BY <1>1 DEF AccessInv, AccessTypes
<1>. QED  BY <1>1, <1>2, SessionsWeaken

LEMMA RequestKeeps ==
  ASSUME AccessInv, NEW t \in Tabs, Request(t) \/ LogOut(t)
  PROVE  AccessInv'
<1>. DEFINE c == browser.cookie
<1>1. /\ UNCHANGED <<process, account, change, verifying>>
      /\ refusals' \subseteq Tabs
      /\ browser' \in [cookie : SignIns \cup {0}, tabs : [Tabs -> SignIns \cup {0}]]
  <2>1. browser \in [cookie : SignIns \cup {0}, tabs : [Tabs -> SignIns \cup {0}]] /\ refusals \subseteq Tabs
    BY DEF AccessInv, AccessTypes
  <2>2. browser' = browser \/ browser' = [browser EXCEPT !.cookie = 0, !.tabs[t] = 0]
    BY DEF Request, LogOut
  <2>3. browser' \in [cookie : SignIns \cup {0}, tabs : [Tabs -> SignIns \cup {0}]]
    <3>1. 0 \in SignIns \cup {0} /\ AccessTypes
      BY DEF AccessInv
    <3>2. [browser EXCEPT !.cookie = 0, !.tabs[t] = 0] \in
            [cookie : SignIns \cup {0}, tabs : [Tabs -> SignIns \cup {0}]]
      BY <3>1, BrowserTypes
    <3>. QED  BY <2>1, <2>2, <3>2
  <2>. QED  BY <2>1, <2>3 DEF Request, LogOut
<1>2. c \in SignIns \cup {0}
  BY DEF AccessInv, AccessTypes
<1>3. sessions' = sessions \/ (c \in SignIns /\ sessions' = [sessions EXCEPT ![c].state = "gone"])
  BY <1>2 DEF Request, LogOut, Honoured
<1>4. CASE sessions' = sessions
  <2>1. AccessTypes'
    BY <1>1, <1>4 DEF AccessInv, AccessTypes
  <2>. QED  BY <1>1, <1>4, <2>1, SessionsWeaken
<1>5. CASE c \in SignIns /\ sessions' = [sessions EXCEPT ![c].state = "gone"]
  <2>1. /\ sessions' \in [SignIns -> Session] /\ sessions'[c].state = "gone"
        /\ \A j \in SignIns \ {c} : sessions'[j] = sessions[j]
    <3>1. AccessTypes /\ "gone" \in {"none", "live", "expired", "gone"}
      BY DEF AccessInv
    <3>2. LET new == [sessions EXCEPT ![c].state = "gone"] IN
          /\ new \in [SignIns -> Session] /\ new[c].state = "gone"
          /\ \A j \in SignIns \ {c} : new[j] = sessions[j]
      BY <1>5, <3>1, SessionStates
    <3>. QED  BY <1>5, <3>2
  <2>2. AccessTypes'
    BY <1>1, <2>1 DEF AccessInv, AccessTypes
  <2>. QED  BY <1>1, <2>1, <2>2, SessionsWeaken
<1>. QED  BY <1>3, <1>4, <1>5

\* The process: opening the account, writing it the first time, stopping.
LEMMA NotReady ==
  ASSUME AccessTypes', FileInv', process'.is # "ready", change' = NoChange,
         verifying' = NotVerifying, \A i \in SignIns : sessions'[i].state # "live",
         process'.is = "opening" =>
           /\ account'.file = Unsaved /\ account'.memory.revision = 1
           /\ account'.bootstrap \in {Unlinked, account'.memory.login}
  PROVE  AccessInv'
<1>1. ProcessInv'  BY DEF ProcessInv, RestartKeepsAnswered
<1>2. ChangeInv' /\ VerifyInv'  BY DEF ChangeInv, VerifyInv, NoChange
<1>3. SessionsInv'  BY DEF SessionsInv
<1>. QED  BY <1>1, <1>2, <1>3 DEF AccessInv

LEMMA OpenKeeps ==
  ASSUME AccessInv, NEW by \in {"service", "recovery"}, NEW l \in Logins, OpenAccount(by, l)
  PROVE  AccessInv'
<1>1. /\ UNCHANGED <<change, verifying, sessions, browser, refusals>>
      /\ process.is = "none"
  BY DEF OpenAccount
<1>2. /\ change = NoChange /\ verifying = NotVerifying
      /\ \A i \in SignIns : sessions[i].state # "live"
  BY <1>1 DEF AccessInv, ProcessInv
<1>3. account \in [file : Account, memory : Account, bootstrap : Names \cup {Unlinked}]
  BY DEF AccessInv, AccessTypes
<1>4. CASE account.file # Unsaved
  <2>1. /\ account' = [account EXCEPT !.memory = account.file]
        /\ process' = [is |-> "ready", by |-> by]
    BY <1>4 DEF OpenAccount
  <2>2. /\ account' \in [file : Account, memory : Account, bootstrap : Names \cup {Unlinked}]
        /\ account'.file = account.file /\ account'.memory = account.file
        /\ account'.bootstrap = account.bootstrap
    BY <1>3, <2>1
  <2>3. AccessTypes'  BY <1>1, <2>1, <2>2 DEF AccessInv, AccessTypes
  <2>4. account'.memory.revision > 0
    BY <1>4, <2>2 DEF AccessInv, FileInv
  <2>5. ProcessInv'  BY <1>4, <2>1, <2>2, <2>4 DEF ProcessInv, RestartKeepsAnswered
  <2>6. FileInv'  BY <2>2 DEF AccessInv, FileInv, BootstrapIsCurrent
  <2>7. ChangeInv' /\ SessionsInv' /\ VerifyInv'
    BY <1>1, <1>2 DEF ChangeInv, SessionsInv, VerifyInv, NoChange
  <2>. QED  BY <2>3, <2>5, <2>6, <2>7 DEF AccessInv
<1>5. CASE account.file = Unsaved
  <2>1. /\ account' = [account EXCEPT !.memory = First(l),
                                      !.bootstrap = IF account.bootstrap = Unlinked THEN Unlinked ELSE l]
        /\ process' = [is |-> "opening", by |-> by]
    BY <1>3, <1>5 DEF OpenAccount
  <2>2. First(l) \in Account /\ First(l).login = l /\ First(l).revision = 1
    BY DEF First, Account, Names
  <2>3. /\ account' \in [file : Account, memory : Account, bootstrap : Names \cup {Unlinked}]
        /\ account'.file = Unsaved /\ account'.memory = First(l)
        /\ account'.bootstrap = (IF account.bootstrap = Unlinked THEN Unlinked ELSE l)
       
    BY <1>3, <1>5, <2>1, <2>2 DEF Names
  <2>5. AccessTypes'  BY <1>1, <2>1, <2>3 DEF AccessInv, AccessTypes
  <2>6. FileInv'  BY <2>2, <2>3 DEF FileInv, BootstrapIsCurrent
  <2>. QED  BY <1>1, <1>2, <2>1, <2>2, <2>3, <2>5, <2>6, NotReady
<1>. QED  BY <1>4, <1>5

LEMMA WriteKeeps == ASSUME AccessInv, WriteAccount PROVE AccessInv'
<1>1. /\ UNCHANGED <<change, verifying, sessions, browser, refusals>>
      /\ process.is = "opening"
      /\ account' = [account EXCEPT !.file = account.memory]
      /\ process' = [process EXCEPT !.is = "ready"]
  BY DEF WriteAccount
<1>2. /\ change = NoChange /\ verifying = NotVerifying
      /\ \A i \in SignIns : sessions[i].state # "live"
      /\ account.memory.revision = 1
      /\ account.bootstrap \in {Unlinked, account.memory.login}
  BY <1>1 DEF AccessInv, ProcessInv
<1>3. /\ account' \in [file : Account, memory : Account, bootstrap : Names \cup {Unlinked}]
      /\ account'.file = account.memory /\ account'.memory = account.memory
      /\ account'.bootstrap = account.bootstrap
      /\ process'.is = "ready"
      /\ process' \in [is : {"none", "opening", "ready"}, by : {"service", "recovery"}]
  BY <1>1 DEF AccessInv, AccessTypes
<1>4. account'.file # Unsaved
  BY <1>2, <1>3 DEF Unsaved
<1>5. AccessTypes'  BY <1>1, <1>3 DEF AccessInv, AccessTypes
<1>6. ProcessInv'  BY <1>2, <1>3, <1>4 DEF ProcessInv, RestartKeepsAnswered
<1>7. FileInv'  BY <1>2, <1>3, <1>4 DEF FileInv, BootstrapIsCurrent
<1>8. ChangeInv' /\ SessionsInv' /\ VerifyInv'
  BY <1>1, <1>2 DEF ChangeInv, SessionsInv, VerifyInv, NoChange
<1>. QED  BY <1>5, <1>6, <1>7, <1>8 DEF AccessInv

\* Every session there was has gone.
LEMMA AllGone ==
  ASSUME AccessTypes,
         sessions' = [i \in 1..MaxSignIns |-> IF sessions[i].state = "none" THEN NoSession
                                              ELSE [sessions[i] EXCEPT !.state = "gone"]]
  PROVE  sessions' \in [SignIns -> Session] /\ \A i \in SignIns : sessions'[i].state # "live"
<1>1. ASSUME NEW i \in SignIns
      PROVE  /\ NoSession \in Session /\ NoSession.state = "none"
             /\ [sessions[i] EXCEPT !.state = "gone"] \in Session
             /\ [sessions[i] EXCEPT !.state = "gone"].state = "gone"
  <2>1. sessions[i] \in Session
    BY DEF AccessTypes
  <2>. QED  BY <2>1 DEF Session, NoSession, Names
<1>. QED  BY <1>1 DEF SignIns

LEMMA NothingIsTyped ==
  /\ Unsaved \in Account
  /\ NoChange \in [at : {"none", "verifying", "unlinking", "writing"}, tab : SUBSET Tabs,
                   current : Names, next : Account]
  /\ NotVerifying \in [tab : SUBSET Tabs, login : Names, snapshot : Account,
                       previous : SignIns \cup {0}]
<1>1. Unsaved \in Account
  BY DEF Unsaved, Account, Names
<1>. QED  BY <1>1 DEF NoChange, NotVerifying, Names

LEMMA StopKeeps == ASSUME AccessInv, StopProcess PROVE AccessInv'
<1>1. /\ UNCHANGED <<browser, refusals>>
      /\ process' = [process EXCEPT !.is = "none"]
      /\ account' = [account EXCEPT !.memory = Unsaved]
      /\ change' = NoChange /\ verifying' = NotVerifying
  BY DEF StopProcess
<1>2. sessions' \in [SignIns -> Session] /\ \A i \in SignIns : sessions'[i].state # "live"
  BY AllGone DEF AccessInv, StopProcess
<1>3. /\ account' \in [file : Account, memory : Account, bootstrap : Names \cup {Unlinked}]
      /\ account'.file = account.file /\ account'.memory = Unsaved
      /\ account'.bootstrap = account.bootstrap
      /\ process' \in [is : {"none", "opening", "ready"}, by : {"service", "recovery"}]
      /\ process'.is = "none"
  BY <1>1, NothingIsTyped DEF AccessInv, AccessTypes
<1>4. AccessTypes'  BY <1>1, <1>2, <1>3, NothingIsTyped DEF AccessInv, AccessTypes
<1>5. FileInv'  BY <1>3 DEF AccessInv, FileInv, BootstrapIsCurrent
<1>. QED  BY <1>1, <1>2, <1>3, <1>4, <1>5, NotReady

\* A step in the course of a change, which writes nothing but the change.
LEMMA ChangeKeeps ==
  ASSUME AccessInv, UNCHANGED <<process, account, verifying, sessions, browser, refusals>>,
         change' \in [at : {"none", "verifying", "unlinking", "writing"}, tab : SUBSET Tabs,
                      current : Names, next : Account],
         process.is = "ready", ChangeInv'
  PROVE  AccessInv'
<1>1. AccessTypes'  BY DEF AccessInv, AccessTypes
<1>2. ProcessInv'  BY DEF AccessInv, ProcessInv, RestartKeepsAnswered
<1>3. FileInv' /\ SessionsInv' /\ VerifyInv'
  BY DEF AccessInv, FileInv, BootstrapIsCurrent, SessionsInv, VerifyInv
<1>. QED  BY <1>1, <1>2, <1>3 DEF AccessInv

LEMMA ChangeIsOn ==
  ASSUME AccessInv, change.at # "none"
  PROVE  /\ process.is = "ready" /\ account.file # Unsaved /\ account.memory.revision > 0
         /\ change.next \in Account /\ account.memory \in Account
BY DEF AccessInv, AccessTypes, ProcessInv, NoChange

LEMMA BeginChangeKeeps ==
  ASSUME AccessInv, NEW by \in {{}} \cup {{t} : t \in Tabs}, NEW l \in Logins,
         NEW rotation \in BOOLEAN, BeginChange(by, l, rotation)
  PROVE  AccessInv'
<1>. DEFINE next == Changed(l, rotation)
<1>1. /\ UNCHANGED <<process, account, verifying, sessions, browser, refusals>>
      /\ rotation \/ l = account.memory.login
      /\ process.is = "ready"
      /\ account.memory \in Account
  BY DEF BeginChange, Serving, AccessInv, AccessTypes
<1>2. /\ next \in Account /\ next.login = l /\ next.revision = account.memory.revision + 1
      /\ rotation => next.credential_revision = account.memory.credential_revision + 1
      /\ ~rotation => next.credential_revision = account.memory.credential_revision
  <2>1. CASE rotation
    BY <1>1, <2>1 DEF Changed, Account, Names
  <2>2. CASE ~rotation
    BY <1>1, <2>2 DEF Changed, Account, Names
  <2>. QED  BY <2>1, <2>2
<1>. HIDE DEF next
<1>3. /\ change' \in [at : {"none", "verifying", "unlinking", "writing"}, tab : SUBSET Tabs,
                      current : Names, next : Account]
      /\ change'.next = next
      /\ change'.at = "writing" => ~Rotates(next)
  <2>1. \/ \E t \in Tabs, current \in Logins :
             change' = [at |-> "verifying", tab |-> {t}, current |-> current, next |-> next]
        \/ change' = [at |-> AfterVerified(next), tab |-> {}, current |-> NoLogin, next |-> next]
    BY DEF BeginChange, next
  <2>2. CASE \E t \in Tabs, current \in Logins :
             change' = [at |-> "verifying", tab |-> {t}, current |-> current, next |-> next]
    BY <1>2, <2>2 DEF Names
  <2>3. CASE change' = [at |-> AfterVerified(next), tab |-> {}, current |-> NoLogin, next |-> next]
    BY <1>2, <2>3 DEF Names, AfterVerified
  <2>. QED  BY <2>1, <2>2, <2>3
<1>4. Rotates(next) <=> rotation
  BY <1>1, <1>2 DEF Rotates, Account
<1>5. ChangeInv'
  BY <1>1, <1>2, <1>3, <1>4 DEF ChangeInv, Rotates
<1>. QED  BY <1>1, <1>3, <1>5, ChangeKeeps

LEMMA CheckedKeeps == ASSUME AccessInv, PasswordChecked PROVE AccessInv'
<1>1. /\ UNCHANGED <<process, account, verifying, sessions, browser, refusals>>
      /\ change.at = "verifying"
      /\ \/ change' = [change EXCEPT !.at = AfterVerified(change.next)]
         \/ change' = NoChange
  BY DEF PasswordChecked
<1>2. process.is = "ready"
  BY <1>1, ChangeIsOn
<1>3. CASE change' = NoChange
  BY <1>1, <1>2, <1>3, ChangeKeeps, NothingIsTyped DEF ChangeInv, NoChange
<1>4. CASE change' = [change EXCEPT !.at = AfterVerified(change.next)]
  <2>1. /\ change' \in [at : {"none", "verifying", "unlinking", "writing"}, tab : SUBSET Tabs,
                        current : Names, next : Account]
        /\ change'.next = change.next /\ change'.at = AfterVerified(change.next)
    BY <1>4 DEF AccessInv, AccessTypes, AfterVerified
  <2>2. ChangeInv'
    BY <1>1, <2>1 DEF AccessInv, ChangeInv, Rotates, AfterVerified
  <2>. QED  BY <1>1, <1>2, <2>1, <2>2, ChangeKeeps
<1>. QED  BY <1>1, <1>3, <1>4

LEMMA UnlinkKeeps == ASSUME AccessInv, UnlinkBootstrap PROVE AccessInv'
<1>1. /\ UNCHANGED <<process, verifying, sessions, browser, refusals>>
      /\ change.at = "unlinking"
      /\ account' = [account EXCEPT !.bootstrap = Unlinked]
      /\ change' = [change EXCEPT !.at = "writing"]
  BY DEF UnlinkBootstrap
<1>2. process.is = "ready" /\ account.file # Unsaved /\ account.memory.revision > 0
  BY <1>1, ChangeIsOn
<1>3. /\ account' \in [file : Account, memory : Account, bootstrap : Names \cup {Unlinked}]
      /\ account'.file = account.file /\ account'.memory = account.memory
      /\ account'.bootstrap = Unlinked
      /\ change' \in [at : {"none", "verifying", "unlinking", "writing"}, tab : SUBSET Tabs,
                      current : Names, next : Account]
      /\ change'.next = change.next
  BY <1>1 DEF AccessInv, AccessTypes
<1>4. AccessTypes'  BY <1>1, <1>3 DEF AccessInv, AccessTypes
<1>5. ProcessInv'
  BY <1>1, <1>2, <1>3 DEF AccessInv, ProcessInv, RestartKeepsAnswered
<1>6. FileInv'  BY <1>2, <1>3 DEF AccessInv, FileInv, BootstrapIsCurrent
<1>7. ChangeInv'  BY <1>1, <1>3 DEF AccessInv, ChangeInv, Rotates
<1>8. SessionsInv' /\ VerifyInv'  BY <1>1, <1>3 DEF AccessInv, SessionsInv, VerifyInv
<1>. QED  BY <1>4, <1>5, <1>6, <1>7, <1>8 DEF AccessInv

LEMMA CommitKeeps == ASSUME AccessInv, CommitChange PROVE AccessInv'
<1>. DEFINE next == change.next
<1>1. /\ UNCHANGED <<process, verifying, refusals>>
      /\ change.at = "writing" /\ change' = NoChange
      /\ account' = [account EXCEPT !.file = next, !.memory = next]
  BY DEF CommitChange
<1>2. /\ process.is = "ready" /\ account.file # Unsaved /\ account.memory.revision > 0
      /\ next \in Account /\ account.memory \in Account
  BY <1>1, ChangeIsOn
<1>3. /\ next.revision = account.memory.revision + 1
      /\ next.credential_revision \in
           {account.memory.credential_revision, account.memory.credential_revision + 1}
      /\ ~Rotates(next) => next.login = account.memory.login
      /\ Rotates(next) => account.bootstrap = Unlinked
  BY <1>1 DEF AccessInv, ChangeInv
<1>4. /\ account' \in [file : Account, memory : Account, bootstrap : Names \cup {Unlinked}]
      /\ account'.file = next /\ account'.memory = next
      /\ account'.bootstrap = account.bootstrap
  BY <1>1, <1>2 DEF AccessInv, AccessTypes
<1>5. next # Unsaved /\ next.revision > 0 /\ account.memory # Unsaved
  BY <1>2, <1>3 DEF Unsaved, Account
<1>6. /\ sessions' \in [SignIns -> Session]
      /\ Rotates(next) => \A i \in SignIns : sessions'[i].state # "live"
      /\ ~Rotates(next) => sessions' = sessions
  <2>1. CASE Rotates(next)
    <3>1. sessions' = [i \in 1..MaxSignIns |-> IF sessions[i].state = "none" THEN NoSession
                                               ELSE [sessions[i] EXCEPT !.state = "gone"]]
      BY <2>1 DEF CommitChange
    <3>. QED  BY <2>1, <3>1, AllGone DEF AccessInv
  <2>2. CASE ~Rotates(next)
    <3>1. sessions' = sessions
      BY <2>2 DEF CommitChange
    <3>. QED  BY <2>2, <3>1 DEF AccessInv, AccessTypes
  <2>. QED  BY <2>1, <2>2
<1>7. browser' \in [cookie : SignIns \cup {0}, tabs : [Tabs -> SignIns \cup {0}]]
  <2>1. browser \in [cookie : SignIns \cup {0}, tabs : [Tabs -> SignIns \cup {0}]]
    BY DEF AccessInv, AccessTypes
  <2>. QED  BY <2>1 DEF CommitChange
<1>. HIDE DEF next
<1>8. AccessTypes'
  BY <1>1, <1>4, <1>6, <1>7, NothingIsTyped DEF AccessInv, AccessTypes
<1>9. ProcessInv'  BY <1>1, <1>2, <1>4, <1>5 DEF ProcessInv, RestartKeepsAnswered
<1>10. FileInv'
  BY <1>2, <1>3, <1>4, <1>5 DEF AccessInv, FileInv, BootstrapIsCurrent
<1>11. ChangeInv'  BY <1>1 DEF ChangeInv, NoChange
<1>12. SessionsInv'
  BY <1>3, <1>4, <1>6 DEF AccessInv, SessionsInv, Rotates
<1>13. VerifyInv'
  <2>. SUFFICES ASSUME verifying # NotVerifying
       PROVE  /\ verifying.snapshot.credential_revision <= next.credential_revision
              /\ verifying.snapshot.credential_revision = next.credential_revision =>
                   verifying.snapshot.login = next.login
    BY <1>1, <1>4 DEF VerifyInv
  <2>1. /\ verifying.snapshot.credential_revision \in Nat
        /\ account.memory.credential_revision \in Nat
        /\ verifying.snapshot.credential_revision <= account.memory.credential_revision
        /\ verifying.snapshot.credential_revision = account.memory.credential_revision =>
             verifying.snapshot.login = account.memory.login
    BY <1>2 DEF AccessInv, AccessTypes, Account, VerifyInv
  <2>. QED  BY <1>3, <2>1 DEF Rotates
<1>. QED  BY <1>8, <1>9, <1>10, <1>11, <1>12, <1>13 DEF AccessInv

\* A failed change leaves the account, or at most the file ahead of it.
LEMMA FailedChangeKeeps == ASSUME AccessInv, ChangeFails PROVE AccessInv'
<1>. DEFINE next == change.next
<1>1. /\ UNCHANGED <<process, verifying, sessions, browser, refusals>>
      /\ change.at # "none" /\ change' = NoChange
      /\ \/ UNCHANGED account
         \/ change.at = "writing" /\ account' = [account EXCEPT !.file = next]
  BY DEF ChangeFails
<1>2. /\ process.is = "ready" /\ account.file # Unsaved /\ account.memory.revision > 0
      /\ next \in Account /\ account.memory \in Account
  BY <1>1, ChangeIsOn
<1>3. CASE UNCHANGED account
  BY <1>1, <1>2, <1>3, ChangeKeeps, NothingIsTyped DEF ChangeInv, NoChange
<1>4. CASE change.at = "writing" /\ account' = [account EXCEPT !.file = next]
  <2>1. /\ next.revision = account.memory.revision + 1
        /\ next.credential_revision \in
             {account.memory.credential_revision, account.memory.credential_revision + 1}
        /\ ~Rotates(next) => next.login = account.memory.login
        /\ Rotates(next) => account.bootstrap = Unlinked
    BY <1>4 DEF AccessInv, ChangeInv
  <2>2. /\ account' \in [file : Account, memory : Account, bootstrap : Names \cup {Unlinked}]
        /\ account'.file = next /\ account'.memory = account.memory
        /\ account'.bootstrap = account.bootstrap
    BY <1>2, <1>4 DEF AccessInv, AccessTypes
  <2>. HIDE DEF next
  <2>3. next # Unsaved /\ next.revision > 0 /\ account.memory # Unsaved
    BY <1>2, <2>1 DEF Unsaved, Account
  <2>4. AccessTypes'
    BY <1>1, <2>2, NothingIsTyped DEF AccessInv, AccessTypes
  <2>5. RestartKeepsAnswered'
    BY <2>1, <2>2 DEF RestartKeepsAnswered, Rotates
  <2>6. ProcessInv'
    BY <1>1, <1>2, <2>2, <2>3, <2>5 DEF ProcessInv
  <2>7. FileInv'
    BY <2>1, <2>2, <2>3 DEF AccessInv, FileInv, BootstrapIsCurrent
  <2>8. ChangeInv' /\ SessionsInv' /\ VerifyInv'
    BY <1>1, <2>2 DEF AccessInv, ChangeInv, NoChange, SessionsInv, VerifyInv
  <2>. QED  BY <2>4, <2>6, <2>7, <2>8 DEF AccessInv
<1>. QED  BY <1>1, <1>3, <1>4

LEMMA SignInKeeps ==
  ASSUME AccessInv, NEW t \in Tabs, NEW l \in Logins, SignIn(t, l)
  PROVE  AccessInv'
<1>1. /\ UNCHANGED <<process, account, change, sessions, browser, refusals>>
      /\ process.is = "ready"
      /\ verifying' = [tab |-> {t}, login |-> l, snapshot |-> account.memory, previous |-> browser.cookie]
  BY DEF SignIn, Serving
<1>2. /\ verifying' \in [tab : SUBSET Tabs, login : Names, snapshot : Account,
                         previous : SignIns \cup {0}]
      /\ verifying'.snapshot = account.memory
      /\ account.memory.credential_revision \in Nat
  BY <1>1 DEF AccessInv, AccessTypes, Names, Account
<1>3. AccessTypes'  BY <1>1, <1>2 DEF AccessInv, AccessTypes
<1>4. ProcessInv'  BY <1>1 DEF AccessInv, ProcessInv, RestartKeepsAnswered
<1>5. FileInv' /\ ChangeInv' /\ SessionsInv'
  BY <1>1 DEF AccessInv, FileInv, BootstrapIsCurrent, ChangeInv, Rotates, SessionsInv
<1>6. VerifyInv'  BY <1>1, <1>2 DEF VerifyInv
<1>. QED  BY <1>3, <1>4, <1>5, <1>6 DEF AccessInv

LEMMA SignedInKeeps ==
  ASSUME AccessInv, NEW arrives \in BOOLEAN, SignedIn(arrives)
  PROVE  AccessInv'
<1>. DEFINE pruned == [j \in 1..MaxSignIns |->
              IF sessions[j].state = "expired" THEN [sessions[j] EXCEPT !.state = "gone"]
              ELSE sessions[j]]
            new == [state |-> "live", credential_revision |-> account.memory.credential_revision,
                    proven |-> verifying.login]
            opened(i) == [j \in 1..MaxSignIns |->
              IF j = i THEN new
              ELSE IF j = verifying.previous THEN [pruned[j] EXCEPT !.state = "gone"] ELSE pruned[j]]
<1>1. /\ UNCHANGED <<process, account, change, refusals>>
      /\ verifying # NotVerifying /\ verifying' = NotVerifying
      /\ \/ UNCHANGED <<sessions, browser>>
         \/ sessions' = pruned /\ UNCHANGED browser
         \/ /\ Authenticates
            /\ \E i \in 1..MaxSignIns :
                 /\ sessions' = opened(i)
                 /\ browser' = IF arrives
                      THEN [cookie |-> i, tabs |-> [t \in Tabs |-> IF t \in verifying.tab THEN i ELSE browser.tabs[t]]]
                      ELSE browser
  BY DEF SignedIn
<1>2. process.is = "ready"
  BY <1>1 DEF AccessInv, ProcessInv
<1>3. ASSUME NEW j \in SignIns
      PROVE  /\ pruned[j] \in Session
             /\ pruned[j].state = "live" => pruned[j] = sessions[j]
  <2>1. sessions[j] \in Session
    BY DEF AccessInv, AccessTypes
  <2>2. pruned[j] = IF sessions[j].state = "expired" THEN [sessions[j] EXCEPT !.state = "gone"]
                    ELSE sessions[j]
    BY DEF SignIns
  <2>3. [sessions[j] EXCEPT !.state = "gone"] \in Session /\ [sessions[j] EXCEPT !.state = "gone"].state = "gone"
    BY <2>1 DEF Session
  <2>. QED  BY <2>1, <2>2, <2>3
<1>4. new \in Session /\ new.credential_revision = account.memory.credential_revision
      /\ new.proven = verifying.login
  BY DEF AccessInv, AccessTypes, Session, Account
<1>5. /\ sessions' \in [SignIns -> Session]
      /\ browser' \in [cookie : SignIns \cup {0}, tabs : [Tabs -> SignIns \cup {0}]]
      /\ \A j \in SignIns : sessions'[j].state = "live" =>
           \/ sessions'[j] = sessions[j]
           \/ /\ Authenticates
              /\ sessions'[j].credential_revision = account.memory.credential_revision
              /\ sessions'[j].proven = verifying.login
  <2>1. /\ sessions \in [SignIns -> Session]
        /\ browser \in [cookie : SignIns \cup {0}, tabs : [Tabs -> SignIns \cup {0}]]
    BY DEF AccessInv, AccessTypes
  <2>2. CASE UNCHANGED <<sessions, browser>>
    BY <2>1, <2>2
  <2>3. CASE sessions' = pruned /\ UNCHANGED browser
    <3>1. pruned \in [SignIns -> Session]
      BY <1>3 DEF SignIns
    <3>. HIDE DEF pruned
    <3>. QED  BY <1>3, <2>1, <2>3, <3>1
  <2>4. ASSUME NEW i \in SignIns, sessions' = opened(i), Authenticates,
               browser' = IF arrives
                 THEN [cookie |-> i, tabs |-> [t \in Tabs |-> IF t \in verifying.tab THEN i ELSE browser.tabs[t]]]
                 ELSE browser
        PROVE  /\ sessions' \in [SignIns -> Session]
               /\ browser' \in [cookie : SignIns \cup {0}, tabs : [Tabs -> SignIns \cup {0}]]
               /\ \A j \in SignIns : sessions'[j].state = "live" =>
                    \/ sessions'[j] = sessions[j]
                    \/ /\ Authenticates
                       /\ sessions'[j].credential_revision = account.memory.credential_revision
                       /\ sessions'[j].proven = verifying.login
    <3>1. ASSUME NEW j \in SignIns
          PROVE  /\ opened(i)[j] \in Session
                 /\ opened(i)[j].state = "live" => opened(i)[j] \in {sessions[j], new}
      <4>. HIDE DEF pruned, new
      <4>1. /\ [pruned[j] EXCEPT !.state = "gone"] \in Session
            /\ [pruned[j] EXCEPT !.state = "gone"].state = "gone"
        BY <1>3 DEF Session
      <4>2. opened(i)[j] \in {new, [pruned[j] EXCEPT !.state = "gone"], pruned[j]}
        BY DEF SignIns
      <4>. QED  BY <1>3, <1>4, <4>1, <4>2
    <3>2. sessions' \in [SignIns -> Session]
      BY <2>4, <3>1 DEF SignIns
    <3>3. browser' \in [cookie : SignIns \cup {0}, tabs : [Tabs -> SignIns \cup {0}]]
      BY <2>1, <2>4
    <3>. HIDE DEF opened, new
    <3>. QED  BY <1>4, <2>4, <3>1, <3>2, <3>3
  <2>5. CASE /\ Authenticates
             /\ \E i \in 1..MaxSignIns :
                  /\ sessions' = opened(i)
                  /\ browser' = IF arrives
                       THEN [cookie |-> i, tabs |-> [t \in Tabs |-> IF t \in verifying.tab THEN i ELSE browser.tabs[t]]]
                       ELSE browser
    <3>1. PICK i \in 1..MaxSignIns :
            /\ sessions' = opened(i)
            /\ browser' = IF arrives
                 THEN [cookie |-> i, tabs |-> [t \in Tabs |-> IF t \in verifying.tab THEN i ELSE browser.tabs[t]]]
                 ELSE browser
      BY <2>5
    <3>2. i \in SignIns /\ Authenticates
      BY <2>5 DEF SignIns
    <3>. HIDE DEF opened, pruned, new
    <3>. QED  BY <2>4, <3>1, <3>2
  <2>. HIDE DEF opened, pruned, new
  <2>. QED  BY <1>1, <2>2, <2>3, <2>5
<1>. HIDE DEF opened, pruned, new
<1>6. AccessTypes'
  BY <1>1, <1>5, NothingIsTyped DEF AccessInv, AccessTypes
<1>7. ProcessInv'  BY <1>1, <1>2 DEF AccessInv, ProcessInv, RestartKeepsAnswered
<1>8. FileInv' /\ ChangeInv' /\ VerifyInv'
  BY <1>1 DEF AccessInv, FileInv, BootstrapIsCurrent, ChangeInv, Rotates, VerifyInv
<1>9. SessionsInv'
  <2>1. Authenticates => verifying.login = account.memory.login
    BY <1>1 DEF AccessInv, VerifyInv, Authenticates
  <2>. QED  BY <1>1, <1>5, <2>1 DEF AccessInv, SessionsInv
<1>. QED  BY <1>6, <1>7, <1>8, <1>9 DEF AccessInv

LEMMA AccessInitial == AccessInit => AccessInv
<1>. SUFFICES ASSUME AccessInit PROVE AccessInv
  OBVIOUS
<1>1. /\ process = [is |-> "none", by |-> "service"]
      /\ account.file = Unsaved /\ account.memory = Unsaved
      /\ account \in [file : Account, memory : Account, bootstrap : Names \cup {Unlinked}]
      /\ change = NoChange /\ verifying = NotVerifying
      /\ sessions = [i \in 1..MaxSignIns |-> NoSession]
      /\ browser = [cookie |-> 0, tabs |-> [t \in Tabs |-> 0]] /\ refusals = {}
  BY NothingIsTyped DEF AccessInit, Names
<1>2. /\ sessions \in [SignIns -> Session]
      /\ \A i \in SignIns : sessions[i].state = "none"
  BY <1>1 DEF SignIns, NoSession, Session, Names
<1>3. AccessTypes
  BY <1>1, <1>2, NothingIsTyped DEF AccessTypes
<1>4. ProcessInv  BY <1>1, <1>2 DEF ProcessInv, RestartKeepsAnswered
<1>5. FileInv  BY <1>1 DEF FileInv, BootstrapIsCurrent
<1>6. ChangeInv /\ SessionsInv /\ VerifyInv
  BY <1>1, <1>2 DEF ChangeInv, NoChange, SessionsInv, VerifyInv
<1>. QED  BY <1>3, <1>4, <1>5, <1>6 DEF AccessInv

LEMMA AccessStep == AccessInv /\ [AccessNext]_accessVars => AccessInv'
<1>. SUFFICES ASSUME AccessInv, [AccessNext]_accessVars PROVE AccessInv'
  OBVIOUS
<1>1. CASE WriteAccount \/ StopProcess
  BY <1>1, WriteKeeps, StopKeeps
<1>2. CASE PasswordChecked \/ UnlinkBootstrap \/ CommitChange \/ ChangeFails
  BY <1>2, CheckedKeeps, UnlinkKeeps, CommitKeeps, FailedChangeKeeps
<1>3. ASSUME NEW by \in {"service", "recovery"}, NEW l \in Logins, OpenAccount(by, l)
      PROVE  AccessInv'
  BY <1>3, OpenKeeps
<1>4. ASSUME NEW by \in {{}} \cup {{t} : t \in Tabs}, NEW l \in Logins,
             NEW rotation \in BOOLEAN, BeginChange(by, l, rotation)
      PROVE  AccessInv'
  BY <1>4, BeginChangeKeeps
<1>5. ASSUME NEW arrives \in BOOLEAN, SignedIn(arrives) PROVE AccessInv'
  BY <1>5, SignedInKeeps
<1>6. ASSUME NEW i \in 1..MaxSignIns, Expire(i) PROVE AccessInv'
  BY <1>6, ExpireKeeps DEF SignIns
<1>7. ASSUME NEW t \in Tabs,
             TabExpires(t) \/ Request(t) \/ Unauthorized(t) \/ LogOut(t) \/ Reload(t)
      PROVE  AccessInv'
  BY <1>7, TabKeeps, RequestKeeps
<1>8. ASSUME NEW t \in Tabs, NEW l \in Logins, SignIn(t, l) PROVE AccessInv'
  BY <1>8, SignInKeeps
<1>9. CASE UNCHANGED accessVars
  <2>1. AccessTypes'  BY <1>9 DEF accessVars, AccessInv, AccessTypes
  <2>. QED  BY <1>9, <2>1, SessionsWeaken DEF accessVars
<1>. QED
  BY <1>1, <1>2, <1>3, <1>4, <1>5, <1>6, <1>7, <1>8, <1>9 DEF AccessNext

LEMMA AccessInvariance == AccessSpec => []AccessInv
BY AccessInitial, AccessStep, PTL DEF AccessSpec

\* The console lets in whoever knows the present credentials and nobody else,
\* wherever a restart, a recovery or a change of the account comes, and a restart
\* takes back no change that was answered, even when another failed half-way
\* (console-account.ts, console-auth.ts).
THEOREM AccessStaysCurrent == AccessSpec => []AccessIsCurrent
<1>1. AccessInv => AccessIsCurrent
  <2>. SUFFICES ASSUME AccessInv PROVE AccessIsCurrent
    OBVIOUS
  <2>1. HonouredIsProven
    BY DEF AccessInv, SessionsInv, SignIns, HonouredIsProven, Honoured
  <2>2. RestartKeepsAnswered
    BY DEF AccessInv, ProcessInv
  <2>. QED  BY <2>1, <2>2 DEF AccessInv, FileInv, AccessIsCurrent
<1>. QED  BY <1>1, AccessInvariance, PTL

-----------------------------------------------------------------------------
(* AgentAccess *)

AgentsSpec == AgentsInit /\ [][AgentsNext]_agentVars

Runs == 1..MaxRuns
Requests == 1..MaxAttempts
Few(S) == {{}} \cup {{x} : x \in S}
Run == [at : {"none", "asking", "revoking", "ended"}, agent : Few(Agents),
        answer : {"none", "issued", "internal_error", "refused", "lost"},
        told : {"nothing", "issued", "refused", "uncertain", "revoked", "revoke_required"}]
Attempt == [at : {"none", "sent", "heard"}, agent : Few(Agents),
            token : Runs \cup {0}, key : Few(Keys),
            answer : {"none", "call", "refused", "internal_error", "lost"},
            told : {"nothing", "call", "refused", "outcome_unknown"}]
HeldToken == [Agents -> [token : Runs \cup {0}, revoked : BOOLEAN]]

AgentTypes ==
  /\ credentials \in [memory : HeldToken, file : HeldToken]
  /\ runs \in [Runs -> Run]
  /\ attempts \in [Requests -> Attempt]

\* A token is held for the agent its run named, and its run was answered.
TokenOf(held, a) ==
  held.token \in Runs =>
    /\ runs[held.token].agent = {a}
    /\ runs[held.token].answer \in {"issued", "internal_error"}
    /\ runs[held.token].told \in {"refused", "revoked"} => held.revoked
TokenInv == \A a \in Agents : TokenOf(credentials.memory[a], a) /\ TokenOf(credentials.file[a], a)

RunOf(run) ==
  /\ run.at = "none" => run = NoRun
  /\ run.at = "revoking" => run.answer = "issued" /\ run.told = "nothing"
  /\ run.at = "asking" => run.told = "nothing"
  /\ run.told = "refused" => run.answer = "refused"
  /\ run.told \in {"issued", "revoked"} => run.answer = "issued"
  /\ run.answer = "issued" => \E a \in Agents : run.agent = {a}
RunInv == \A r \in Runs : RunOf(runs[r])

\* An attempt carries a token that was issued to its agent; its answer is what it is told.
AttemptOf(attempt) ==
  /\ attempt.at = "none" => attempt = NoAttempt
  /\ attempt.at # "none" => /\ attempt.token \in Runs
                            /\ runs[attempt.token].answer = "issued"
                            /\ runs[attempt.token].agent = attempt.agent
  /\ attempt.told = "refused" => attempt.answer = "refused"
  /\ attempt.told = "call" => attempt.answer = "call"
  /\ attempt.answer = "call" =>
       \E c \in commands : c.key = attempt.key /\ c.agent = attempt.agent
AttemptInv == \A i \in Requests : AttemptOf(attempts[i])

\* A command is kept under the agent of the attempt that made it.
CommandInv ==
  \A c \in commands :
    /\ c.client = c.agent /\ c.by \in Requests
    /\ attempts[c.by].at # "none" /\ attempts[c.by].answer \in {"call", "internal_error"}

AgentsInv == AgentTypes /\ TokenInv /\ RunInv /\ AttemptInv /\ CommandInv /\ OneCallForAKey

\* What a save leaves in either place was there before or is what was to be saved.
LEMMA SavedHolds ==
  ASSUME AgentTypes, NEW next \in HeldToken, NEW how
  PROVE  /\ Saved(next, how) \in [memory : HeldToken, file : HeldToken]
         /\ Saved(next, how).memory \in {credentials.memory, next}
         /\ Saved(next, how).file \in {credentials.file, next}
         /\ how = "saved" => Saved(next, how).memory = next /\ Saved(next, how).file = next
BY DEF AgentTypes, Saved

\* What was asked and made rests on the runs that issued a token only.
LEMMA RunsKeep ==
  ASSUME AgentsInv, UNCHANGED <<commands, attempts>>,
         NEW r \in Runs, runs[r].answer # "issued" \/ /\ runs'[r].agent = runs[r].agent
                                                      /\ runs'[r].answer = runs[r].answer,
         runs' = [runs EXCEPT ![r] = runs'[r]]
  PROVE  AttemptInv' /\ CommandInv' /\ OneCallForAKey'
<1>1. AttemptInv'
  BY DEF AgentsInv, AgentTypes, AttemptInv, AttemptOf
<1>. QED  BY <1>1 DEF AgentsInv, CommandInv, OneCallForAKey

LEMMA IssueKeeps ==
  ASSUME AgentsInv, NEW r \in Runs, NEW a \in Agents, NEW how, Issue(r, a, how)
  PROVE  AgentsInv'
<1>. DEFINE next == [credentials.memory EXCEPT ![a] = [token |-> r, revoked |-> FALSE]]
            run == [runs[r] EXCEPT !.agent = {a}, !.answer = IF how = "saved" THEN "issued" ELSE "internal_error"]
<1>1. /\ runs[r].at # "none" /\ runs[r].answer = "none"
      /\ credentials' = Saved(next, how)
      /\ UNCHANGED <<commands, attempts>>
  BY DEF Issue
<1>2. /\ runs \in [Runs -> Run]
      /\ credentials.memory \in HeldToken /\ credentials.file \in HeldToken
  BY DEF AgentsInv, AgentTypes
<1>3. /\ runs' = [runs EXCEPT ![r] = run]
      /\ run.at = runs[r].at /\ run.told = runs[r].told /\ run.agent = {a}
      /\ run.answer = (IF how = "saved" THEN "issued" ELSE "internal_error")
      /\ run \in Run
  BY <1>2 DEF Issue, Few, Run
<1>4. next \in HeldToken /\ next[a] = [token |-> r, revoked |-> FALSE]
      /\ \A b \in Agents \ {a} : next[b] = credentials.memory[b]
  BY <1>2 DEF HeldToken
<1>5. /\ runs'[r] = run
      /\ \A q \in Runs \ {r} : runs'[q] = runs[q]
      /\ RunOf(runs[r])
  BY <1>2, <1>3 DEF AgentsInv, RunInv
<1>. HIDE DEF next, run
<1>6. AgentTypes'
  BY <1>1, <1>2, <1>3, <1>4, SavedHolds DEF AgentsInv, AgentTypes
<1>7. ASSUME NEW b \in Agents, NEW held \in {credentials.memory[b], credentials.file[b], next[b]}
      PROVE  TokenOf(held, b)'
  <2>1. CASE held \in {credentials.memory[b], credentials.file[b]}
    <3>1. TokenOf(held, b)
      BY <2>1 DEF AgentsInv, TokenInv
    <3>2. held.token \in Runs => held.token # r
      BY <1>1, <3>1 DEF TokenOf
    <3>. QED  BY <1>5, <3>1, <3>2 DEF TokenOf
  <2>2. CASE held = next[b] /\ b # a
    <3>1. TokenOf(held, b)
      BY <1>4, <2>2 DEF AgentsInv, TokenInv
    <3>2. held.token \in Runs => held.token # r
      BY <1>1, <3>1 DEF TokenOf
    <3>. QED  BY <1>5, <3>1, <3>2 DEF TokenOf
  <2>3. CASE held = next[b] /\ b = a
    <3>1. run.agent = {a} /\ run.answer \in {"issued", "internal_error"} /\ run.told \notin {"refused", "revoked"}
      BY <1>1, <1>3, <1>5 DEF RunOf
    <3>. QED  BY <1>4, <1>5, <2>3, <3>1 DEF TokenOf
  <2>. QED  BY <2>1, <2>2, <2>3
<1>8. TokenInv'
  BY <1>1, <1>4, <1>7, SavedHolds DEF AgentsInv, TokenInv
<1>9. RunInv'
  BY <1>1, <1>3, <1>5 DEF AgentsInv, RunInv, RunOf
<1>10. AttemptInv' /\ CommandInv' /\ OneCallForAKey'
  BY <1>1, <1>3, <1>5, RunsKeep
<1>. QED  BY <1>6, <1>8, <1>9, <1>10 DEF AgentsInv

\* A step of the command line that does not touch the credentials or what the bridge answered.
LEMMA CommandLineKeeps ==
  ASSUME AgentsInv, UNCHANGED <<credentials, commands, attempts>>,
         NEW r \in Runs, NEW run \in Run, runs' = [runs EXCEPT ![r] = run], RunOf(run),
         \/ runs[r] = NoRun
         \/ runs[r].answer \in {"none", "refused"} /\ run.agent = runs[r].agent
         \/ /\ run.agent = runs[r].agent /\ run.answer = runs[r].answer
            /\ run.told \notin {"refused", "revoked"}
  PROVE  AgentsInv'
<1>1. runs \in [Runs -> Run]
  BY DEF AgentsInv, AgentTypes
<1>2. /\ runs'[r] = run
      /\ \A q \in Runs \ {r} : runs'[q] = runs[q]
  BY <1>1
<1>3. AgentTypes'
  BY <1>1 DEF AgentsInv, AgentTypes
<1>4. TokenInv'
  <2>1. runs[r] = NoRun => runs[r].answer = "none"
    BY DEF NoRun
  <2>. QED  BY <1>2, <2>1 DEF AgentsInv, TokenInv, TokenOf
<1>5. RunInv'
  BY <1>2 DEF AgentsInv, RunInv, RunOf
<1>6. AttemptInv' /\ CommandInv' /\ OneCallForAKey'
  <2>1. runs[r].answer # "issued" \/ /\ runs'[r].agent = runs[r].agent
                                     /\ runs'[r].answer = runs[r].answer
    BY <1>2 DEF NoRun
  <2>2. runs' = [runs EXCEPT ![r] = runs'[r]]
    BY <1>2
  <2>. QED  BY <2>1, <2>2, RunsKeep
<1>. QED  BY <1>3, <1>4, <1>5, <1>6 DEF AgentsInv

LEMMA RefuseKeeps == ASSUME AgentsInv, NEW r \in Runs, RefuseToIssue(r) PROVE AgentsInv'
<1>. DEFINE run == [runs[r] EXCEPT !.answer = "refused"]
<1>1. runs[r] \in Run /\ RunOf(runs[r]) /\ runs[r].answer = "none" /\ runs[r].at # "none"
  BY DEF AgentsInv, AgentTypes, RunInv, RefuseToIssue
<1>2. /\ run \in Run /\ run.at = runs[r].at /\ run.agent = runs[r].agent
      /\ run.answer = "refused" /\ run.told = runs[r].told
  BY <1>1 DEF Run
<1>3. runs' = [runs EXCEPT ![r] = run] /\ UNCHANGED <<credentials, commands, attempts>>
  BY DEF RefuseToIssue
<1>4. RunOf(run)
  BY <1>1, <1>2 DEF RunOf
<1>. HIDE DEF run
<1>. QED  BY <1>1, <1>2, <1>3, <1>4, CommandLineKeeps

LEMMA AskKeeps ==
  ASSUME AgentsInv, NEW r \in Runs, NEW agent \in Few(Agents), AskForToken(r, agent)
  PROVE  AgentsInv'
<1>. DEFINE run == [runs[r] EXCEPT !.at = "asking", !.agent = agent]
<1>1. runs[r] \in Run /\ runs[r] = NoRun
  BY DEF AgentsInv, AgentTypes, AskForToken
<1>2. /\ run \in Run /\ run.at = "asking" /\ run.agent = agent
      /\ run.answer = "none" /\ run.told = "nothing"
  <2>1. runs[r].answer = "none" /\ runs[r].told = "nothing"
    BY <1>1 DEF NoRun
  <2>2. runs[r] \in Run
    BY <1>1
  <2>. QED  BY <2>1, <2>2 DEF Run
<1>3. runs' = [runs EXCEPT ![r] = run] /\ UNCHANGED <<credentials, commands, attempts>>
  BY DEF AskForToken
<1>4. RunOf(run)
  BY <1>2 DEF RunOf
<1>. HIDE DEF run
<1>. QED  BY <1>1, <1>2, <1>3, <1>4, CommandLineKeeps

LEMMA HearOfIssueKeeps ==
  ASSUME AgentsInv, NEW r \in Runs, NEW writes \in BOOLEAN, HearOfIssue(r, writes)
  PROVE  AgentsInv'
<1>1. /\ runs[r] \in Run /\ RunOf(runs[r])
      /\ runs[r].at = "asking" /\ runs[r].answer \notin {"none", "lost"}
      /\ UNCHANGED <<credentials, commands, attempts>>
  BY DEF AgentsInv, AgentTypes, RunInv, HearOfIssue
<1>2. CASE runs[r].answer # "issued"
  <2>. DEFINE run == [runs[r] EXCEPT !.at = "ended", !.told = ReportOf(runs[r].answer)]
  <2>1. /\ run \in Run /\ run.at = "ended" /\ run.agent = runs[r].agent /\ run.answer = runs[r].answer
        /\ run.told = IF runs[r].answer = "refused" THEN "refused" ELSE "uncertain"
    BY <1>1 DEF Run, ReportOf
  <2>2. runs' = [runs EXCEPT ![r] = run]
    BY <1>2 DEF HearOfIssue
  <2>. HIDE DEF run
  <2>3. RunOf(run)
    BY <1>2, <2>1 DEF RunOf
  <2>. QED  BY <1>1, <1>2, <2>1, <2>2, <2>3, CommandLineKeeps
<1>3. CASE runs[r].answer = "issued" /\ writes
  <2>. DEFINE run == [runs[r] EXCEPT !.at = "ended", !.told = "issued"]
  <2>1. /\ run \in Run /\ run.at = "ended" /\ run.agent = runs[r].agent /\ run.answer = runs[r].answer
        /\ run.told = "issued"
    BY <1>1 DEF Run
  <2>2. runs' = [runs EXCEPT ![r] = run]
    BY <1>3 DEF HearOfIssue
  <2>. HIDE DEF run
  <2>3. RunOf(run)
    BY <1>1, <1>3, <2>1 DEF RunOf
  <2>. QED  BY <1>1, <2>1, <2>2, <2>3, CommandLineKeeps
<1>4. CASE runs[r].answer = "issued" /\ ~writes
  <2>. DEFINE run == [runs[r] EXCEPT !.at = "revoking"]
  <2>1. /\ run \in Run /\ run.at = "revoking" /\ run.agent = runs[r].agent /\ run.answer = runs[r].answer
        /\ run.told = runs[r].told
    BY <1>1 DEF Run
  <2>2. runs' = [runs EXCEPT ![r] = run]
    BY <1>4 DEF HearOfIssue
  <2>. HIDE DEF run
  <2>3. RunOf(run) /\ run.told = "nothing"
    BY <1>1, <1>4, <2>1 DEF RunOf
  <2>. QED  BY <1>1, <2>1, <2>2, <2>3, CommandLineKeeps
<1>. QED  BY <1>2, <1>3, <1>4

LEMMA StopAskingKeeps == ASSUME AgentsInv, NEW r \in Runs, StopAsking(r) PROVE AgentsInv'
<1>. DEFINE run == [runs[r] EXCEPT !.at = "ended", !.told = "uncertain"]
<1>1. runs[r] \in Run /\ RunOf(runs[r]) /\ runs[r].at = "asking"
  BY DEF AgentsInv, AgentTypes, RunInv, StopAsking
<1>2. /\ run \in Run /\ run.at = "ended" /\ run.agent = runs[r].agent /\ run.answer = runs[r].answer
      /\ run.told = "uncertain"
  BY <1>1 DEF Run
<1>3. runs' = [runs EXCEPT ![r] = run] /\ UNCHANGED <<credentials, commands, attempts>>
  BY DEF StopAsking, ReportOf
<1>. HIDE DEF run
<1>4. RunOf(run)
  BY <1>1, <1>2 DEF RunOf
<1>. QED  BY <1>1, <1>2, <1>3, <1>4, CommandLineKeeps

\* Whatever becomes of the save, no place gains a token that works.
LEMMA RevokedHolds ==
  ASSUME AgentsInv, NEW a \in Agents, NEW how, credentials' = Saved(Revoked(a), how)
  PROVE  /\ credentials' \in [memory : HeldToken, file : HeldToken]
         /\ \A b \in Agents : \A held \in {credentials'.memory[b], credentials'.file[b]} :
              \E old \in {credentials.memory[b], credentials.file[b]} :
                /\ held.token = old.token
                /\ old.revoked => held.revoked
                /\ how = "saved" /\ b = a => held.revoked
<1>1. /\ credentials.memory \in HeldToken /\ credentials.file \in HeldToken
  BY DEF AgentsInv, AgentTypes
<1>2. /\ Revoked(a) \in HeldToken
      /\ \A b \in Agents : /\ Revoked(a)[b].token = credentials.memory[b].token
                           /\ credentials.memory[b].revoked => Revoked(a)[b].revoked
      /\ Revoked(a)[a].revoked
  BY <1>1 DEF Revoked, HeldToken
<1>3. /\ credentials' \in [memory : HeldToken, file : HeldToken]
      /\ credentials'.memory \in {credentials.memory, Revoked(a)}
      /\ credentials'.file \in {credentials.file, Revoked(a)}
      /\ how = "saved" => credentials'.memory = Revoked(a) /\ credentials'.file = Revoked(a)
  BY <1>2, SavedHolds DEF AgentsInv
<1>4. ASSUME NEW b \in Agents, NEW held \in {credentials'.memory[b], credentials'.file[b]}
      PROVE  \E old \in {credentials.memory[b], credentials.file[b]} :
                /\ held.token = old.token
                /\ old.revoked => held.revoked
                /\ how = "saved" /\ b = a => held.revoked
  <2>1. CASE held = Revoked(a)[b]
    BY <1>2, <2>1
  <2>2. CASE held = credentials.memory[b] /\ how # "saved"
    BY <2>2
  <2>3. CASE held = credentials.file[b] /\ how # "saved"
    BY <2>3
  <2>. QED  BY <1>3, <2>1, <2>2, <2>3
<1>. QED  BY <1>3, <1>4

LEMMA RevokeKeeps ==
  ASSUME AgentsInv, NEW a \in Agents, NEW how, Revoke(a, how)
  PROVE  AgentsInv'
<1>1. credentials' = Saved(Revoked(a), how) /\ UNCHANGED <<runs, commands, attempts>>
  BY DEF Revoke
<1>2. AgentTypes' /\ TokenInv'
  BY <1>1, RevokedHolds DEF AgentsInv, AgentTypes, TokenInv, TokenOf
<1>. QED
  BY <1>1, <1>2 DEF AgentsInv, RunInv, AttemptInv, AttemptOf, CommandInv, OneCallForAKey

LEMMA RevokeUnwrittenKeeps ==
  ASSUME AgentsInv, NEW r \in Runs, NEW how, NEW heard \in BOOLEAN, RevokeUnwritten(r, how, heard)
  PROVE  AgentsInv'
<1>. DEFINE run == [runs[r] EXCEPT !.at = "ended",
                      !.told = IF how = "saved" /\ heard THEN "revoked" ELSE "revoke_required"]
<1>1. /\ runs \in [Runs -> Run] /\ RunOf(runs[r])
      /\ runs[r].at = "revoking" /\ runs' = [runs EXCEPT ![r] = run]
      /\ UNCHANGED <<commands, attempts>>
  BY DEF AgentsInv, AgentTypes, RunInv, RevokeUnwritten
<1>2. PICK a \in Agents : runs[r].agent = {a} /\ credentials' = Saved(Revoked(a), how)
  BY <1>1 DEF RevokeUnwritten, RunOf
<1>3. /\ run \in Run /\ run.at = "ended" /\ run.agent = {a} /\ run.answer = "issued"
      /\ run.told = IF how = "saved" /\ heard THEN "revoked" ELSE "revoke_required"
  BY <1>1, <1>2 DEF Run, RunOf
<1>. HIDE DEF run
<1>4. /\ runs'[r] = run
      /\ \A q \in Runs \ {r} : runs'[q] = runs[q]
  BY <1>1
<1>5. AgentTypes'
  BY <1>1, <1>2, <1>3, RevokedHolds DEF AgentsInv, AgentTypes
<1>6. TokenInv'
  <2>1. ASSUME NEW b \in Agents, NEW held \in {credentials'.memory[b], credentials'.file[b]}
        PROVE  TokenOf(held, b)'
    <3>1. PICK old \in {credentials.memory[b], credentials.file[b]} :
             /\ held.token = old.token
             /\ old.revoked => held.revoked
             /\ how = "saved" /\ b = a => held.revoked
      BY <1>2, RevokedHolds
    <3>2. TokenOf(old, b)
      BY DEF AgentsInv, TokenInv
    <3>. QED  BY <1>1, <1>2, <1>3, <1>4, <3>1, <3>2 DEF TokenOf, RunOf
  <2>. QED  BY <2>1 DEF TokenInv
<1>7. RunInv'
  BY <1>3, <1>4 DEF AgentsInv, RunInv, RunOf
<1>8. AttemptInv' /\ CommandInv' /\ OneCallForAKey'
  <2>1. runs'[r].agent = runs[r].agent /\ runs'[r].answer = runs[r].answer
    BY <1>1, <1>2, <1>3, <1>4 DEF RunOf
  <2>2. runs' = [runs EXCEPT ![r] = runs'[r]]
    BY <1>1, <1>4
  <2>. QED  BY <1>1, <2>1, <2>2, RunsKeep
<1>. QED  BY <1>5, <1>6, <1>7, <1>8 DEF AgentsInv

LEMMA RestartKeeps == ASSUME AgentsInv, RestartBridge PROVE AgentsInv'
<1>. DEFINE run(r) == IF runs[r].at # "none" /\ runs[r].answer = "none"
                      THEN [runs[r] EXCEPT !.answer = "lost"] ELSE runs[r]
            attempt(i) == IF attempts[i].at # "none" /\ attempts[i].answer = "none"
                          THEN [attempts[i] EXCEPT !.answer = "lost"] ELSE attempts[i]
<1>1. /\ runs \in [Runs -> Run] /\ attempts \in [Requests -> Attempt]
      /\ credentials \in [memory : HeldToken, file : HeldToken]
      /\ credentials' = [credentials EXCEPT !.memory = credentials.file] /\ UNCHANGED commands
  BY DEF AgentsInv, AgentTypes, RestartBridge
<1>2. /\ credentials' \in [memory : HeldToken, file : HeldToken]
      /\ credentials'.memory = credentials.file /\ credentials'.file = credentials.file
  BY <1>1
<1>3. ASSUME NEW r \in Runs
      PROVE  /\ run(r) \in Run /\ run(r).at = runs[r].at /\ run(r).agent = runs[r].agent
             /\ run(r).told = runs[r].told
             /\ \/ run(r) = runs[r]
                \/ runs[r].at # "none" /\ runs[r].answer = "none" /\ run(r).answer = "lost"
  <2>1. runs[r] \in Run
    BY <1>1
  <2>. QED  BY <2>1 DEF Run
<1>4. ASSUME NEW i \in Requests
      PROVE  /\ attempt(i) \in Attempt /\ attempt(i).at = attempts[i].at
             /\ attempt(i).agent = attempts[i].agent /\ attempt(i).token = attempts[i].token
             /\ attempt(i).key = attempts[i].key /\ attempt(i).told = attempts[i].told
             /\ \/ attempt(i) = attempts[i]
                \/ attempts[i].at # "none" /\ attempts[i].answer = "none" /\ attempt(i).answer = "lost"
  <2>1. attempts[i] \in Attempt
    BY <1>1
  <2>. QED  BY <2>1 DEF Attempt
<1>5. /\ runs' = [r \in Runs |-> run(r)]
      /\ attempts' = [i \in Requests |-> attempt(i)]
  BY DEF RestartBridge, Runs, Requests
<1>. HIDE DEF run, attempt
<1>6. /\ \A r \in Runs : runs'[r] = run(r)
      /\ \A i \in Requests : attempts'[i] = attempt(i)
  BY <1>5
<1>7. AgentTypes'
  BY <1>2, <1>3, <1>4, <1>5 DEF AgentTypes
<1>8. TokenInv'
  BY <1>2, <1>3, <1>6 DEF AgentsInv, TokenInv, TokenOf
<1>9. RunInv'
  BY <1>3, <1>6 DEF AgentsInv, RunInv, RunOf
<1>10. AttemptInv'
  BY <1>1, <1>3, <1>4, <1>6 DEF AgentsInv, AttemptInv, AttemptOf
<1>11. CommandInv' /\ OneCallForAKey'
  BY <1>1, <1>4, <1>6 DEF AgentsInv, CommandInv, OneCallForAKey
<1>. QED  BY <1>7, <1>8, <1>9, <1>10, <1>11 DEF AgentsInv

\* A step of one attempt: what it is told it was answered, and an answer stays.
LEMMA AttemptKeeps ==
  ASSUME AgentsInv, UNCHANGED <<credentials, runs>>,
         NEW i \in Requests, NEW attempt \in Attempt, attempts' = [attempts EXCEPT ![i] = attempt],
         attempt.at # "none", commands \subseteq commands', AttemptOf(attempt)',
         attempts[i].answer \in {"call", "internal_error"} => attempt.answer = attempts[i].answer,
         \A c \in commands' \ commands :
           /\ c.client = c.agent /\ c.by = i /\ attempt.answer \in {"call", "internal_error"}
           /\ \A d \in commands' : c.agent = d.agent /\ c.key = d.key => c = d
  PROVE  AgentsInv'
<1>1. attempts \in [Requests -> Attempt]
  BY DEF AgentsInv, AgentTypes
<1>2. /\ attempts'[i] = attempt
      /\ \A j \in Requests \ {i} : attempts'[j] = attempts[j]
  BY <1>1
<1>3. AgentTypes'
  BY <1>1 DEF AgentsInv, AgentTypes
<1>4. TokenInv' /\ RunInv'
  BY DEF AgentsInv, TokenInv, TokenOf, RunInv
<1>5. AttemptInv'
  BY <1>2 DEF AgentsInv, AttemptInv, AttemptOf
<1>6. CommandInv'
  BY <1>2 DEF AgentsInv, CommandInv
<1>7. OneCallForAKey'
  BY DEF AgentsInv, OneCallForAKey
<1>. QED  BY <1>3, <1>4, <1>5, <1>6, <1>7 DEF AgentsInv

LEMMA SendAttemptKeeps ==
  ASSUME AgentsInv, NEW i \in Requests, NEW r \in Runs, NEW k \in Keys, SendAttempt(i, r, k)
  PROVE  AgentsInv'
<1>1. PICK attempt : attempt = [at |-> "sent", agent |-> runs[r].agent, token |-> r, key |-> {k},
                                answer |-> "none", told |-> "nothing"]
  OBVIOUS
<1>2. /\ attempts' = [attempts EXCEPT ![i] = attempt] /\ UNCHANGED <<credentials, runs, commands>>
      /\ attempts[i] = NoAttempt /\ runs[r].told = "issued"
      /\ runs[r] \in Run /\ RunOf(runs[r])
  BY <1>1 DEF SendAttempt, AgentsInv, AgentTypes, RunInv
<1>3. attempt \in Attempt
  BY <1>1, <1>2 DEF Attempt, Run, Few
<1>4. AttemptOf(attempt)'
  BY <1>1, <1>2 DEF AttemptOf, RunOf
<1>5. attempts[i].answer = "none" /\ attempt.at # "none"
  BY <1>1, <1>2 DEF NoAttempt
<1>. QED  BY <1>2, <1>3, <1>4, <1>5, AttemptKeeps

LEMMA HearKeeps ==
  ASSUME AgentsInv, NEW i \in Requests, HearOfCall(i) \/ HearNothing(i)
  PROVE  AgentsInv'
<1>1. PICK told \in {attempts[i].answer, "outcome_unknown"} :
        /\ attempts' = [attempts EXCEPT ![i].at = "heard", ![i].told = told]
        /\ told \in {"call", "refused", "outcome_unknown"}
        /\ attempts[i].at = "sent" /\ UNCHANGED <<credentials, runs, commands>>
  <2>1. attempts[i] \in Attempt
    BY DEF AgentsInv, AgentTypes
  <2>2. attempts[i].answer \in {"none", "call", "refused", "internal_error", "lost"}
    BY <2>1 DEF Attempt
  <2>3. CASE HearOfCall(i)
    <3>. DEFINE told == IF attempts[i].answer = "internal_error" THEN "outcome_unknown" ELSE attempts[i].answer
    <3>1. told \in {attempts[i].answer, "outcome_unknown"} /\ told \in {"call", "refused", "outcome_unknown"}
      BY <2>2, <2>3 DEF HearOfCall
    <3>2. /\ attempts' = [attempts EXCEPT ![i].at = "heard", ![i].told = told]
          /\ attempts[i].at = "sent" /\ UNCHANGED <<credentials, runs, commands>>
      BY <2>3 DEF HearOfCall
    <3>. HIDE DEF told
    <3>. QED  BY <3>1, <3>2
  <2>4. CASE HearNothing(i)
    BY <2>4 DEF HearNothing
  <2>. QED  BY <2>3, <2>4
<1>2. PICK attempt : attempt = [attempts[i] EXCEPT !.at = "heard", !.told = told]
  OBVIOUS
<1>3. attempts[i] \in Attempt /\ AttemptOf(attempts[i])
  BY DEF AgentsInv, AgentTypes, AttemptInv
<1>4. /\ attempt \in Attempt /\ attempt.at = "heard" /\ attempt.told = told
      /\ attempt.agent = attempts[i].agent /\ attempt.token = attempts[i].token
      /\ attempt.key = attempts[i].key /\ attempt.answer = attempts[i].answer
  BY <1>2, <1>1, <1>3 DEF Attempt
<1>5. attempts' = [attempts EXCEPT ![i] = attempt]
  BY <1>2, <1>1
<1>6. AttemptOf(attempt)'
  BY <1>1, <1>3, <1>4 DEF AttemptOf
<1>. QED  BY <1>1, <1>4, <1>5, <1>6, AttemptKeeps

LEMMA HandleKeeps ==
  ASSUME AgentsInv, NEW i \in Requests, NEW outcome \in {"call", "refused", "internal_error"},
         HandleAttempt(i, outcome)
  PROVE  AgentsInv'
<1>1. PICK agent : agent = Bearers(attempts[i].token)
  OBVIOUS
<1>2. PICK made : made = [client |-> agent, agent |-> agent, key |-> attempts[i].key, by |-> i]
  OBVIOUS
<1>3. PICK answer \in {"call", "refused", "internal_error"} :
        /\ attempts[i].at # "none" /\ attempts[i].answer = "none"
        /\ attempts' = [attempts EXCEPT ![i].answer = answer]
        /\ UNCHANGED <<credentials, runs>>
        /\ answer # "refused" => agent # {}
        /\ \/ /\ UNCHANGED commands
              /\ answer = "call" => \E c \in commands : c.client = agent /\ c.key = attempts[i].key
           \/ /\ answer # "refused" /\ commands' = commands \cup {made}
              /\ ~\E c \in commands : c.client = agent /\ c.key = attempts[i].key
  <2>1. CASE agent = {}
    BY <1>1, <2>1 DEF HandleAttempt
  <2>2. CASE agent # {}
    BY <1>1, <1>2, <2>2 DEF HandleAttempt, ClientOf
  <2>. QED  BY <2>1, <2>2
<1>4. PICK attempt : attempt = [attempts[i] EXCEPT !.answer = answer]
  OBVIOUS
<1>5. attempts[i] \in Attempt /\ AttemptOf(attempts[i])
  BY DEF AgentsInv, AgentTypes, AttemptInv
<1>6. /\ attempt \in Attempt /\ attempt.at = attempts[i].at /\ attempt.agent = attempts[i].agent
      /\ attempt.token = attempts[i].token /\ attempt.key = attempts[i].key
      /\ attempt.answer = answer /\ attempt.told = attempts[i].told
      /\ attempts' = [attempts EXCEPT ![i] = attempt]
  BY <1>3, <1>4, <1>5 DEF Attempt
<1>7. agent # {} => agent = attempts[i].agent
  <2>1. ASSUME NEW a \in agent PROVE attempts[i].agent = {a}
    <3>1. a \in Agents /\ credentials.memory[a].token = attempts[i].token
      BY <1>1 DEF Bearers
    <3>2. TokenOf(credentials.memory[a], a)
      BY <3>1 DEF AgentsInv, TokenInv
    <3>. QED  BY <1>3, <1>5, <3>1, <3>2 DEF TokenOf, AttemptOf
  <2>. QED  BY <2>1
<1>8. made.client = agent /\ made.agent = agent /\ made.key = attempts[i].key /\ made.by = i
  BY <1>2
<1>9. \A c \in commands : c.client = c.agent
  BY DEF AgentsInv, CommandInv
<1>10. /\ commands \subseteq commands'
       /\ answer = "call" => \E c \in commands' : c.key = attempts[i].key /\ c.agent = attempts[i].agent
  BY <1>3, <1>7, <1>8, <1>9
<1>11. AttemptOf(attempt)'
  BY <1>3, <1>5, <1>6, <1>10 DEF AttemptOf
<1>12. \A c \in commands' \ commands :
         /\ c.client = c.agent /\ c.by = i /\ attempt.answer \in {"call", "internal_error"}
         /\ \A d \in commands' : c.agent = d.agent /\ c.key = d.key => c = d
  BY <1>3, <1>6, <1>8, <1>9
<1>. QED  BY <1>3, <1>6, <1>10, <1>11, <1>12, AttemptKeeps

LEMMA AgentsInitial == AgentsInit => AgentsInv
<1>. SUFFICES ASSUME AgentsInit PROVE AgentsInv
  OBVIOUS
<1>1. /\ NoCredential \in [token : Runs \cup {0}, revoked : BOOLEAN] /\ NoCredential.token = 0
      /\ NoRun \in Run /\ NoAttempt \in Attempt /\ 0 \notin Runs
  BY DEF NoCredential, NoRun, Run, NoAttempt, Attempt, Few, Runs
<1>2. AgentTypes
  BY <1>1 DEF AgentsInit, AgentTypes, HeldToken, Runs, Requests
<1>3. TokenInv
  <2>1. \A a \in Agents : credentials.memory[a] = NoCredential /\ credentials.file[a] = NoCredential
    BY DEF AgentsInit
  <2>. QED  BY <1>1, <2>1 DEF TokenInv, TokenOf
<1>4. RunInv
  <2>1. \A r \in Runs : runs[r] = NoRun
    BY DEF AgentsInit, Runs
  <2>. QED  BY <2>1 DEF RunInv, RunOf, NoRun
<1>5. AttemptInv
  <2>1. \A i \in Requests : attempts[i] = NoAttempt
    BY DEF AgentsInit, Requests
  <2>. QED  BY <2>1 DEF AttemptInv, AttemptOf, NoAttempt
<1>6. CommandInv /\ OneCallForAKey
  BY DEF AgentsInit, CommandInv, OneCallForAKey
<1>. QED  BY <1>2, <1>3, <1>4, <1>5, <1>6 DEF AgentsInv

LEMMA AgentsStep == AgentsInv /\ [AgentsNext]_agentVars => AgentsInv'
<1>. SUFFICES ASSUME AgentsInv, [AgentsNext]_agentVars PROVE AgentsInv'
  OBVIOUS
<1>1. CASE RestartBridge
  BY <1>1, RestartKeeps
<1>2. ASSUME NEW a \in Agents, NEW how \in {"saved", "not written", "not synced"}, Revoke(a, how)
      PROVE  AgentsInv'
  BY <1>2, RevokeKeeps
<1>3. ASSUME NEW a \in Agents, NEW how \in {"saved", "not written", "not synced"}, NEW r \in Runs, Issue(r, a, how)
      PROVE  AgentsInv'
  BY <1>3, IssueKeeps
<1>4. ASSUME NEW r \in Runs, RefuseToIssue(r) \/ StopAsking(r) PROVE AgentsInv'
  BY <1>4, RefuseKeeps, StopAskingKeeps
<1>5. ASSUME NEW r \in Runs, NEW agent \in Few(Agents), AskForToken(r, agent) PROVE AgentsInv'
  BY <1>5, AskKeeps
<1>6. ASSUME NEW r \in Runs, NEW writes \in BOOLEAN, HearOfIssue(r, writes) PROVE AgentsInv'
  BY <1>6, HearOfIssueKeeps
<1>7. ASSUME NEW r \in Runs, NEW how \in {"saved", "not written", "not synced"}, NEW heard \in BOOLEAN,
             RevokeUnwritten(r, how, heard)
      PROVE  AgentsInv'
  BY <1>7, RevokeUnwrittenKeeps
<1>8. ASSUME NEW i \in Requests, NEW r \in Runs, NEW k \in Keys, SendAttempt(i, r, k) PROVE AgentsInv'
  BY <1>8, SendAttemptKeeps
<1>9. ASSUME NEW i \in Requests, HearOfCall(i) \/ HearNothing(i) PROVE AgentsInv'
  BY <1>9, HearKeeps
<1>10. ASSUME NEW i \in Requests, NEW outcome \in {"call", "refused", "internal_error"}, HandleAttempt(i, outcome)
       PROVE  AgentsInv'
  BY <1>10, HandleKeeps
<1>11. CASE UNCHANGED agentVars
  BY <1>11 DEF agentVars, AgentsInv, AgentTypes, TokenInv, TokenOf, RunInv, AttemptInv, AttemptOf,
               CommandInv, OneCallForAKey
<1>. QED
  BY <1>1, <1>2, <1>3, <1>4, <1>5, <1>6, <1>7, <1>8, <1>9, <1>10, <1>11
     DEF AgentsNext, Runs, Requests, Few

LEMMA AgentsInvariance == AgentsSpec => []AgentsInv
BY AgentsInitial, AgentsStep, PTL DEF AgentsSpec

\* What an operator is told of a token and an agent of a call is so, whatever is
\* lost on the way, fails half-way or is forgotten by a restart (agent-credentials.ts,
\* cli-agents.ts, control-client/src/index.ts).
THEOREM ToldTruly == AgentsSpec => []ToldIsSo
<1>1. AgentsInv => ToldIsSo
  <2>. SUFFICES ASSUME AgentsInv PROVE ToldIsSo
    OBVIOUS
  <2>1. IssuerIsTold
    <3>1. ASSUME NEW r \in Runs, runs[r].told \in {"refused", "revoked"},
                 NEW a \in Agents, NEW held \in {credentials.memory[a], credentials.file[a]}
          PROVE  held # [token |-> r, revoked |-> FALSE]
      <4>1. TokenOf(held, a)
        BY DEF AgentsInv, TokenInv
      <4>. QED  BY <3>1, <4>1 DEF TokenOf
    <3>2. credentials["memory"] = credentials.memory /\ credentials["file"] = credentials.file
      OBVIOUS
    <3>. QED  BY <3>1, <3>2 DEF IssuerIsTold, Runs
  <2>2. AgentIsTold
    BY DEF AgentsInv, AttemptInv, AttemptOf, CommandInv, AgentIsTold, Requests
  <2>. QED  BY <2>1, <2>2 DEF AgentsInv, ToldIsSo
<1>. QED  BY <1>1, AgentsInvariance, PTL

-----------------------------------------------------------------------------
(* The Live session *)

LiveSpec == LiveInit /\ [][LiveNext]_liveVars

LiveState == [state : {"new", "starting", "ready", "closing", "closed"}, timer : {"none", "start", "close"},
            subscribed : BOOLEAN, closings : {0, 1}, late : BOOLEAN]

\* A session is closed once, says nothing afterwards and holds nothing then.
SessionOf(s) ==
  /\ s \in LiveState
  /\ s.closings = 1 <=> s.state = "closed"
  /\ ~s.late
  /\ s.state \in {"new", "closed"} => ~s.subscribed /\ s.timer = "none"

ManagedType == [active : [Works -> Responses \cup {Nobody}], sequence : [Works -> 0 .. MaxSequence],
                owner : [Responses -> Works \cup {Nobody}], itemOwner : [Items -> Responses \cup {Nobody}],
                completed : SUBSET Responses]

\* A response is that of the delegation it is active for, until it is completed.
ManagedOf(m) ==
  /\ m \in ManagedType
  /\ \A w \in Works : m.active[w] # Nobody => m.owner[m.active[w]] = w /\ m.active[w] \notin m.completed

\* What was reported is over, and its items are still its own, while the session lives.
ReportsOf(m) ==
  \A r \in reported : /\ r.response \in m.completed /\ r.response # Nobody
                      /\ r.items = {i \in Items : m.itemOwner[i] = r.response}

LiveInv ==
  /\ SessionOf(session)
  /\ ManagedOf(managed)
  /\ session.state # "closed" => ReportsOf(managed)
  /\ ResponsesKeptApart

\* finish() and close() of a session that has not said its last.
LEMMA FinishSession ==
  ASSUME NEW s, SessionOf(s)
  PROVE  SessionOf(Finish(s)) /\ Finish(s).state = "closed"
<1>1. CASE s.state = "closed"
  BY <1>1 DEF Finish
<1>2. CASE s.state # "closed"
  <2>1. s.closings = 0
    BY <1>2 DEF SessionOf, LiveState
  <2>2. PICK f : f = [s EXCEPT !.state = "closed", !.timer = "none", !.subscribed = FALSE, !.closings = 1]
    OBVIOUS
  <2>3. Finish(s) = f
    BY <1>2, <2>1, <2>2 DEF Finish
  <2>4. f.state = "closed" /\ f.timer = "none" /\ f.subscribed = FALSE /\ f.closings = 1 /\ f.late = s.late /\ f \in LiveState
    BY <2>2 DEF SessionOf, LiveState
  <2>. QED  BY <2>3, <2>4 DEF SessionOf
<1>. QED  BY <1>1, <1>2

LEMMA ClosingSession ==
  ASSUME NEW s, SessionOf(s), NEW t \in Closing(s)
  PROVE  SessionOf(t) /\ (s.state = "closed" => t.state = "closed")
<1>1. CASE s.state \in {"closed", "closing"}
  BY <1>1 DEF Closing
<1>2. CASE s.state = "ready"
  <2>1. PICK u : u = [s EXCEPT !.state = "closing", !.timer = "close"]
    OBVIOUS
  <2>2. SessionOf(u)
    BY <1>2, <2>1 DEF SessionOf, LiveState
  <2>3. t \in {u, Finish(u)}
    BY <1>2, <2>1 DEF Closing
  <2>. QED  BY <1>2, <2>2, <2>3, FinishSession
<1>3. CASE s.state \notin {"closed", "closing", "ready"}
  <2>1. t = Finish(s)
    BY <1>3 DEF Closing
  <2>. QED  BY <2>1, FinishSession
<1>. QED  BY <1>1, <1>2, <1>3

LEMMA TellingSession ==
  ASSUME NEW s, SessionOf(s), s.state # "closed", NEW t \in Tells(s)
  PROVE  SessionOf(t)
<1>1. PICK u : u = [s EXCEPT !.late = @ \/ s.closings > 0]
  OBVIOUS
<1>2. s.closings = 0
  BY DEF SessionOf, LiveState
<1>3. u = s
  <2>1. (s.late \/ s.closings > 0) = s.late
    BY <1>2 DEF SessionOf, LiveState
  <2>. QED  BY <1>1, <2>1 DEF SessionOf, LiveState
<1>4. t \in {s} \cup Closing(s)
  BY <1>1, <1>3 DEF Tells
<1>. QED  BY <1>4, ClosingSession

LEMMA NoManagedIs == ManagedOf(NoManaged)
BY LiveAssumption DEF ManagedOf, NoManaged, ManagedType

\* A step of the session, with responses that are learnt.
LEMMA StepsKeep ==
  ASSUME LiveInv, NEW s, SessionOf(s), NEW w, NEW m, ManagedOf(m), Steps(s, w, m),
         s.state # "closed" => ReportsOf(m)',
         ResponsesKeptApart'
  PROVE  LiveInv'
<1>1. session' = s /\ managed' = IF s.state = "closed" THEN NoManaged ELSE m
  BY DEF Steps
<1>2. ManagedOf(managed')
  BY <1>1, NoManagedIs
<1>. QED  BY <1>1, <1>2 DEF LiveInv

LEMMA KeepsKeep ==
  ASSUME LiveInv, NEW s, SessionOf(s), session.state = "closed" => s.state = "closed", Keeps(s)
  PROVE  LiveInv'
<1>1. /\ session' = s /\ managed' = (IF s.state = "closed" THEN NoManaged ELSE managed) /\ reported' = reported
  BY DEF Keeps, Steps
<1>2. ManagedOf(managed')
  BY <1>1, NoManagedIs DEF LiveInv
<1>3. s.state # "closed" => managed' = managed /\ ReportsOf(managed)
  BY <1>1 DEF LiveInv
<1>. QED  BY <1>1, <1>2, <1>3 DEF LiveInv, ReportsOf, ResponsesKeptApart

LEMMA EndsKeep ==
  ASSUME LiveInv, Ends
  PROVE  LiveInv'
BY FinishSession, KeepsKeep DEF Ends, LiveInv

LEMMA SessionKeeps ==
  ASSUME LiveInv, Start \/ CloseLive \/ Breaks \/ Expires \/ Started \/ Rejected \/ Content \/ Final
  PROVE  LiveInv'
<1>1. SessionOf(session)
  BY DEF LiveInv
<1>2. CASE Start
  <2>1. PICK s : s = [session EXCEPT !.state = "starting", !.timer = "start"]
    OBVIOUS
  <2>2. session.state = "new" /\ (Keeps([s EXCEPT !.subscribed = TRUE]) \/ Keeps(Finish(s)))
    BY <1>2, <2>1 DEF Start
  <2>3. SessionOf(s)
    BY <1>1, <2>1, <2>2 DEF SessionOf, LiveState
  <2>4. PICK t : t = [s EXCEPT !.subscribed = TRUE]
    OBVIOUS
  <2>5. SessionOf(t)
    BY <1>1, <2>1, <2>2, <2>3, <2>4 DEF SessionOf, LiveState
  <2>. QED  BY <2>2, <2>3, <2>4, <2>5, FinishSession, KeepsKeep
<1>3. CASE CloseLive
  BY <1>1, <1>3, ClosingSession, KeepsKeep DEF CloseLive
<1>4. CASE Breaks \/ Expires \/ Final
  BY <1>4, EndsKeep DEF Breaks, Expires, Final
<1>5. CASE Started
  <2>1. CASE session.state # "starting"
    BY <1>5, <2>1, EndsKeep DEF Started
  <2>2. CASE session.state = "starting"
    <3>1. PICK u : u = [session EXCEPT !.state = "ready", !.timer = "none"]
      OBVIOUS
    <3>2. SessionOf(u) /\ u.state # "closed"
      BY <1>1, <2>2, <3>1 DEF SessionOf, LiveState
    <3>3. PICK s \in Tells(u) : Keeps(s)
      BY <1>5, <2>2, <3>1 DEF Started
    <3>. QED  BY <2>2, <3>2, <3>3, TellingSession, KeepsKeep
  <2>. QED  BY <2>1, <2>2
<1>6. CASE Rejected
  <2>1. PICK s \in Tells(session) : session.state # "closed" /\ Keeps(IF s.state = "starting" THEN Finish(s) ELSE s)
    BY <1>6 DEF Rejected, Hears
  <2>2. SessionOf(s)
    BY <1>1, <2>1, TellingSession
  <2>. QED  BY <2>1, <2>2, FinishSession, KeepsKeep
<1>7. CASE Content
  <2>1. session.state # "closed"
    BY <1>7 DEF Content, Hears
  <2>. QED  BY <1>1, <1>7, <2>1, EndsKeep, TellingSession, KeepsKeep DEF Content
<1>. QED  BY <1>2, <1>3, <1>4, <1>5, <1>6, <1>7

LEMMA DelegationKeeps ==
  ASSUME LiveInv, NEW w \in Works, NEW target, DelegationCreated(w, target)
  PROVE  LiveInv'
<1>1. session.state # "closed" /\ SessionOf(session) /\ ManagedOf(managed) /\ ReportsOf(managed)
  BY DEF DelegationCreated, Hears, LiveInv
<1>2. CASE Ends
  BY <1>2, EndsKeep
<1>3. CASE ~Ends
  <2>1. PICK s \in Tells(session) : Steps(s, [works EXCEPT ![w] = target], managed) /\ UNCHANGED reported
    BY <1>3 DEF DelegationCreated
  <2>2. SessionOf(s)
    BY <1>1, <2>1, TellingSession
  <2>3. ReportsOf(managed) => \A r \in reported' : /\ r.response \in managed.completed /\ r.response # Nobody
                                                   /\ r.items = {i \in Items : managed.itemOwner[i] = r.response}
    BY <2>1 DEF ReportsOf
  <2>4. s.state # "closed" => managed' = managed
    BY <2>1 DEF Steps
  <2>5. ManagedOf(managed') /\ session' = s
    BY <1>1, <2>1, NoManagedIs DEF Steps
  <2>. QED  BY <1>1, <2>1, <2>2, <2>3, <2>4, <2>5 DEF LiveInv, ReportsOf, ResponsesKeptApart
<1>. QED  BY <1>2, <1>3

LEMMA CreatedKeeps ==
  ASSUME LiveInv, NEW w \in Works, NEW x \in Responses, NEW n \in 0 .. MaxSequence, ResponseCreated(w, x, n)
  PROVE  LiveInv'
<1>1. /\ session.state # "closed" /\ SessionOf(session) /\ ManagedOf(managed) /\ ReportsOf(managed)
      /\ x \notin managed.completed /\ managed.owner[x] \in {Nobody, w}
  BY DEF ResponseCreated, Managed, Hears, LiveInv
<1>2. CASE Ends
  BY <1>2, EndsKeep
<1>3. CASE ~Ends
  <2>1. PICK m : m = [managed EXCEPT !.owner[x] = w, !.active[w] = x, !.sequence[w] = n]
    OBVIOUS
  <2>2. managed.active[w] = Nobody /\ Steps(session, works, m) /\ UNCHANGED reported
    BY <1>3, <2>1 DEF ResponseCreated, Learns
  <2>3. /\ m \in ManagedType /\ m.completed = managed.completed /\ m.itemOwner = managed.itemOwner
        /\ m.owner[x] = w /\ m.active[w] = x
        /\ \A y \in Responses : y # x => m.owner[y] = managed.owner[y]
        /\ \A v \in Works : v # w => m.active[v] = managed.active[v]
    BY <1>1, <2>1 DEF ManagedOf, ManagedType
  <2>4. ASSUME NEW v \in Works, m.active[v] # Nobody
        PROVE  m.owner[m.active[v]] = v /\ m.active[v] \notin m.completed
    <3>1. CASE v = w
      BY <1>1, <2>3, <3>1
    <3>2. CASE v # w
      <4>1. managed.active[v] # Nobody /\ managed.owner[managed.active[v]] = v
            /\ managed.active[v] \notin managed.completed /\ managed.active[v] \in Responses
        BY <1>1, <2>3, <2>4, <3>2 DEF ManagedOf, ManagedType
      <4>2. managed.active[v] # x
        BY <1>1, <3>2, <4>1, LiveAssumption
      <4>. QED  BY <2>3, <3>2, <4>1, <4>2
    <3>. QED  BY <3>1, <3>2
  <2>5. ManagedOf(m)
    BY <2>3, <2>4 DEF ManagedOf
  <2>6. session' = session /\ managed' = m
    BY <1>1, <2>2 DEF Steps
  <2>. QED  BY <1>1, <2>2, <2>3, <2>5, <2>6 DEF LiveInv, ReportsOf, ResponsesKeptApart
<1>. QED  BY <1>2, <1>3

LEMMA OutputKeeps ==
  ASSUME LiveInv, NEW w \in Works, NEW i \in Items, NEW n \in 0 .. MaxSequence, Output(w, i, n)
  PROVE  LiveInv'
<1>1. /\ session.state # "closed" /\ SessionOf(session) /\ ManagedOf(managed) /\ ReportsOf(managed)
  BY DEF Output, Managed, Hears, LiveInv
<1>2. PICK x : x = managed.active[w]
  OBVIOUS
<1>3. /\ x # Nobody /\ managed.itemOwner[i] \in {Nobody, x} /\ x \in Responses /\ x \notin managed.completed
  BY <1>1, <1>2 DEF Output, ManagedOf, ManagedType
<1>4. PICK k \in 0 .. MaxSequence : k = IF n = 0 THEN managed.sequence[w] ELSE n
  BY <1>1 DEF ManagedOf, ManagedType
<1>5. PICK m : m = [managed EXCEPT !.itemOwner[i] = x, !.sequence[w] = k]
  OBVIOUS
<1>6. Steps(session, works, m) /\ UNCHANGED reported
  BY <1>2, <1>4, <1>5 DEF Output, Learns
<1>7. /\ m \in ManagedType /\ m.completed = managed.completed /\ m.owner = managed.owner /\ m.active = managed.active
      /\ m.itemOwner[i] = x /\ \A j \in Items : j # i => m.itemOwner[j] = managed.itemOwner[j]
  BY <1>1, <1>3, <1>4, <1>5 DEF ManagedOf, ManagedType
<1>8. ManagedOf(m)
  BY <1>1, <1>7 DEF ManagedOf
<1>9. session' = session /\ managed' = m
  BY <1>1, <1>6 DEF Steps
<1>10. ASSUME NEW r \in reported
       PROVE  r.items = {j \in Items : m.itemOwner[j] = r.response}
  <2>1. r.response \in managed.completed /\ r.response # Nobody
        /\ r.items = {j \in Items : managed.itemOwner[j] = r.response}
    BY <1>1 DEF ReportsOf
  <2>2. managed.itemOwner[i] # r.response /\ m.itemOwner[i] # r.response
    BY <1>3, <1>7, <2>1
  <2>. QED  BY <1>7, <2>1, <2>2
<1>11. ReportsOf(m)'
  BY <1>1, <1>6, <1>7, <1>10 DEF ReportsOf
<1>. QED  BY <1>1, <1>6, <1>8, <1>9, <1>11 DEF LiveInv, ReportsOf, ResponsesKeptApart

LEMMA CompletedKeeps ==
  ASSUME LiveInv, NEW w \in Works, NEW n \in 0 .. MaxSequence, ResponseCompleted(w, n)
  PROVE  LiveInv'
<1>1. /\ session.state # "closed" /\ SessionOf(session) /\ ManagedOf(managed) /\ ReportsOf(managed)
  BY DEF ResponseCompleted, Managed, Hears, LiveInv
<1>2. PICK x : x = managed.active[w]
  OBVIOUS
<1>3. /\ x # Nobody /\ x \in Responses /\ x \notin managed.completed /\ managed.owner[x] = w
  BY <1>1, <1>2 DEF ResponseCompleted, ManagedOf, ManagedType
<1>4. PICK result : result = [work |-> w, response |-> x, items |-> {i \in Items : managed.itemOwner[i] = x},
                              again |-> \E r \in reported : r.response = x]
  OBVIOUS
<1>5. PICK m : m = [managed EXCEPT !.active[w] = Nobody, !.sequence[w] = 0, !.completed = @ \cup {x}]
  OBVIOUS
<1>6. PICK s \in Tells(session) : Steps(s, works, m)
  BY <1>2, <1>5 DEF ResponseCompleted
<1>7. reported' = reported \cup {result}
  BY <1>2, <1>4 DEF ResponseCompleted
<1>8. /\ m \in ManagedType
      /\ m.completed = managed.completed \cup {x} /\ m.owner = managed.owner
      /\ m.itemOwner = managed.itemOwner /\ m.active[w] = Nobody
      /\ \A v \in Works : v # w => m.active[v] = managed.active[v]
  <2>1. managed \in ManagedType /\ 0 \in 0 .. MaxSequence
    BY <1>1, LiveAssumption DEF ManagedOf
  <2>2. PICK a : a = [managed.active EXCEPT ![w] = Nobody]
    OBVIOUS
  <2>3. PICK b : b = [managed.sequence EXCEPT ![w] = 0]
    OBVIOUS
  <2>4. a \in [Works -> Responses \cup {Nobody}] /\ a[w] = Nobody
        /\ \A v \in Works : v # w => a[v] = managed.active[v]
    BY <2>1, <2>2 DEF ManagedType
  <2>5. b \in [Works -> 0 .. MaxSequence]
    BY <2>1, <2>3 DEF ManagedType
  <2>6. m = [managed EXCEPT !.active = a, !.sequence = b, !.completed = managed.completed \cup {x}]
    BY <1>5, <2>1, <2>2, <2>3 DEF ManagedType
  <2>7. managed.completed \cup {x} \in SUBSET Responses
    BY <1>3, <2>1 DEF ManagedType
  <2>. QED  BY <2>1, <2>4, <2>5, <2>6, <2>7 DEF ManagedType
<1>9. ManagedOf(m)
  BY <1>1, <1>3, <1>8 DEF ManagedOf
<1>10. /\ result.response = x /\ result.items = {i \in Items : managed.itemOwner[i] = x}
       /\ result.again <=> \E r \in reported : r.response = x
  BY <1>4
<1>11. \A r \in reported : r.response # x
  BY <1>1, <1>3 DEF ReportsOf
<1>12. ASSUME NEW r \in reported
       PROVE  r.items \cap result.items = {}
  <2>1. r.items = {i \in Items : managed.itemOwner[i] = r.response}
    BY <1>1 DEF ReportsOf
  <2>. QED  BY <1>10, <1>11, <2>1
<1>13. ResponsesKeptApart'
  <2>1. ResponsesKeptApart
    BY DEF LiveInv
  <2>2. \A r \in reported : r.response # result.response /\ r.items \cap result.items = {}
    BY <1>10, <1>11, <1>12
  <2>3. ~result.again
    BY <1>10, <1>11
  <2>. QED  BY <1>7, <2>1, <2>2, <2>3 DEF ResponsesKeptApart
<1>14. SessionOf(s)
  BY <1>1, <1>6, TellingSession
<1>15. \A r \in reported' : /\ r.response \in m.completed /\ r.response # Nobody
                            /\ r.items = {i \in Items : m.itemOwner[i] = r.response}
  BY <1>1, <1>3, <1>7, <1>8, <1>10 DEF ReportsOf
<1>16. session' = s /\ managed' = (IF s.state = "closed" THEN NoManaged ELSE m)
  BY <1>6 DEF Steps
<1>17. ManagedOf(managed')
  BY <1>9, <1>16, NoManagedIs
<1>. QED  BY <1>13, <1>14, <1>15, <1>16, <1>17 DEF LiveInv, ReportsOf

LEMMA LiveInitial == LiveInit => LiveInv
<1>. SUFFICES ASSUME LiveInit
              PROVE  LiveInv
  OBVIOUS
<1>1. SessionOf(session)
  BY DEF LiveInit, SessionOf, LiveState
<1>. QED  BY <1>1, NoManagedIs DEF LiveInit, LiveInv, ReportsOf, ResponsesKeptApart

LEMMA LiveStep == LiveInv /\ [LiveNext]_liveVars => LiveInv'
<1>. SUFFICES ASSUME LiveInv, [LiveNext]_liveVars
              PROVE  LiveInv'
  OBVIOUS
<1>1. CASE Start \/ CloseLive \/ Breaks \/ Expires \/ Started \/ Rejected \/ Content \/ Final
  BY <1>1, SessionKeeps
<1>2. CASE \E w \in Works, t \in {"client", "responses"} : DelegationCreated(w, t)
  BY <1>2, DelegationKeeps
<1>3. CASE \E w \in Works, n \in 0 .. MaxSequence :
             \/ \E x \in Responses : ResponseCreated(w, x, n)
             \/ \E i \in Items : Output(w, i, n)
             \/ ResponseCompleted(w, n)
  BY <1>3, CreatedKeeps, OutputKeeps, CompletedKeeps
<1>4. CASE UNCHANGED liveVars
  BY <1>4 DEF liveVars, LiveInv, ReportsOf, ResponsesKeptApart
<1>. QED  BY <1>1, <1>2, <1>3, <1>4 DEF LiveNext

LEMMA LiveInvariance == LiveSpec => []LiveInv
BY LiveInitial, LiveStep, PTL DEF LiveSpec

\* A Live session closes once, as the last of what it tells, and holds neither socket nor
\* timer then, whichever of its ends comes first (client.ts finish, transport.ts).
THEOREM LiveEndsOnce == LiveSpec => []ClosedIsFinal
<1>1. LiveInv => ClosedIsFinal
  BY DEF LiveInv, SessionOf, LiveState, ClosedIsFinal
<1>. QED  BY <1>1, LiveInvariance, PTL

\* Managed responses are told once each, and no output item as part of two
\* (managed-responses.ts receive).
THEOREM ResponsesApart == LiveSpec => []ResponsesKeptApart
<1>1. LiveInv => ResponsesKeptApart
  BY DEF LiveInv
<1>. QED  BY <1>1, LiveInvariance, PTL

-----------------------------------------------------------------------------
(* The audio routes *)

AudioSpec == AudioInit /\ [][AudioNext]_audioVars

AudioType ==
  /\ route \in [direction : {"in", "out"}, resampled : BOOLEAN, state : {"running", "failed", "closed"}]
  /\ queue \in [bytes : Int, split : BOOLEAN]
  /\ pipe \in [waiting : Int, trailing : Int, output : Int, split : BOOLEAN]
  /\ pace \in [due : Int, started : BOOLEAN, last : 0 .. Long, before : 0 .. Long,
               burst : BOOLEAN, writing : BOOLEAN]

\* The last frame went out when it was due or later; of the one before it, the present
\* frame's duration has passed or will have when the next is due.
FramesApart ==
  /\ pace.last >= Period \/ pace.last + pace.due >= 0
  /\ pace.before >= Period \/ pace.before + pace.due >= Period
  /\ ~pace.started => pace.last = Long /\ pace.before = Long

AudioInv == AudioType /\ FramesApart /\ AudioIsKept

LEMMA PeriodIs == AudioType => Period \in 1 .. Long
BY AudioAssumption DEF AudioType, Period

LEMMA OlderIs ==
  ASSUME NEW age \in 0 .. Long, NEW gap \in 1 .. MaxGap
  PROVE  /\ Older(age, gap) \in 0 .. Long
         /\ Older(age, gap) = Long \/ Older(age, gap) = age + gap
BY AudioAssumption DEF Older, Long

LEMMA TwiceIsEven ==
  ASSUME NEW k \in Int
  PROVE  (2 * k) % 2 = 0
OBVIOUS

LEMMA HalvesAre ==
  ASSUME NEW k \in Int
  PROVE  k \div 2 \in Int /\ k % 2 \in Int
OBVIOUS

LEMMA AudioInitial == AudioInit => AudioInv
<1>. SUFFICES ASSUME AudioInit
              PROVE  AudioInv
  OBVIOUS
<1>1. AudioType
  BY DEF AudioInit, AudioType, NoQueue, NoPipe, Long
<1>2. FramesApart
  BY <1>1, PeriodIs DEF AudioInit, FramesApart, Long
<1>3. AudioIsKept
  BY DEF AudioInit, AudioIsKept, NoBursts, SamplesAreWhole, NoQueue, NoPipe
<1>. QED  BY <1>1, <1>2, <1>3 DEF AudioInv

\* The pace stands, and no half sample is taken.
LEMMA PaceStands ==
  ASSUME AudioInv, pace' = pace, route'.direction = route.direction, AudioType',
         ~queue'.split, ~pipe'.split
  PROVE  AudioInv'
<1>1. Period' = Period
  BY DEF Period
<1>2. FramesApart'
  BY <1>1 DEF AudioInv, FramesApart
<1>. QED  BY <1>2 DEF AudioInv, AudioIsKept, NoBursts, SamplesAreWhole

LEMMA WholeStill ==
  ASSUME AudioInv
  PROVE  AudioType /\ ~queue.split /\ ~pipe.split
BY DEF AudioInv, AudioIsKept, SamplesAreWhole

LEMMA StopsKeep ==
  ASSUME AudioInv, NEW state \in {"failed", "closed"}, Stops(state), pace' = pace
  PROVE  AudioInv'
<1>. DEFINE r == [route EXCEPT !.state = state]
            q == [queue EXCEPT !.bytes = 0]
            p == [NoPipe EXCEPT !.split = pipe.split]
<1>1. /\ r \in [direction : {"in", "out"}, resampled : BOOLEAN, state : {"running", "failed", "closed"}]
      /\ r.direction = route.direction
  BY WholeStill DEF AudioType
<1>2. q \in [bytes : Int, split : BOOLEAN] /\ ~q.split
  BY WholeStill DEF AudioType
<1>3. p \in [waiting : Int, trailing : Int, output : Int, split : BOOLEAN] /\ ~p.split
  BY WholeStill DEF AudioType, NoPipe
<1>4. route' = r /\ queue' = q /\ pipe' = p
  BY DEF Stops
<1>. HIDE DEF r, q, p
<1>5. AudioType'
  BY <1>1, <1>2, <1>3, <1>4, WholeStill DEF AudioType
<1>. QED  BY <1>1, <1>2, <1>3, <1>4, <1>5, PaceStands

LEMMA EnqueueKeeps ==
  ASSUME AudioInv, NEW n \in Int, NEW p \in [waiting : Int, trailing : Int, output : Int, split : BOOLEAN],
         ~p.split, Enqueue(n, p)
  PROVE  AudioInv'
<1>1. CASE Fails
  BY <1>1, StopsKeep DEF Fails
<1>2. CASE queue' = [queue EXCEPT !.bytes = @ + n] /\ pipe' = p /\ UNCHANGED <<route, pace>>
  <2>1. queue' \in [bytes : Int, split : BOOLEAN] /\ ~queue'.split
    BY <1>2, WholeStill DEF AudioType
  <2>2. AudioType'
    BY <1>2, <2>1, WholeStill DEF AudioType
  <2>. QED  BY <1>2, <2>1, <2>2, PaceStands
<1>. QED  BY <1>1, <1>2 DEF Enqueue

LEMMA FeedKeeps ==
  ASSUME AudioInv, Feed
  PROVE  AudioInv'
<1>1. PICK length \in Int : length = pipe.trailing + pipe.waiting
  BY WholeStill DEF AudioType
<1>2. PICK whole \in Int : whole = 2 * (length \div 2) /\ whole % 2 = 0
  BY <1>1, TwiceIsEven, HalvesAre
<1>3. PICK left \in Int : left = length % 2
  BY <1>1, HalvesAre
<1>4. (pipe.split # (whole % 2 = 1)) = FALSE
  BY <1>2, WholeStill DEF AudioType
<1>5. pipe' = [pipe EXCEPT !.waiting = 0, !.trailing = left, !.output = @ + whole,
                           !.split = @ # (whole % 2 = 1)]
  BY <1>1, <1>2, <1>3 DEF Feed, Fed
<1>6. pipe' = [pipe EXCEPT !.waiting = 0, !.trailing = left, !.output = @ + whole, !.split = FALSE]
  BY <1>4, <1>5, WholeStill DEF AudioType
<1>7. pipe' \in [waiting : Int, trailing : Int, output : Int, split : BOOLEAN] /\ ~pipe'.split
  <2>1. pipe \in [waiting : Int, trailing : Int, output : Int, split : BOOLEAN]
    BY WholeStill DEF AudioType
  <2>2. PICK out : out = pipe.output + whole
    OBVIOUS
  <2>3. PICK p : p = [pipe EXCEPT !.waiting = 0, !.trailing = left, !.output = out, !.split = FALSE]
    OBVIOUS
  <2>4. 0 \in Int /\ left \in Int /\ out \in Int
    BY <1>3, <2>1, <2>2
  <2>5. p \in [waiting : Int, trailing : Int, output : Int, split : BOOLEAN] /\ ~p.split
    BY <2>1, <2>3, <2>4
  <2>6. pipe' = p
    BY <1>6, <2>1, <2>2, <2>3
  <2>. QED  BY <2>5, <2>6
<1>8. UNCHANGED <<route, queue, pace>>
  BY DEF Feed
<1>9. AudioType'
  BY <1>7, <1>8, WholeStill DEF AudioType
<1>. QED  BY <1>7, <1>8, <1>9, PaceStands, WholeStill

LEMMA TakeWhole ==
  ASSUME AudioInv
  PROVE  Take(queue) \in [bytes : Int, split : BOOLEAN] /\ ~Take(queue).split
<1>1. PICK n \in Int : /\ n = IF queue.bytes < FrameBytes THEN 2 * (queue.bytes \div 2) ELSE FrameBytes
                       /\ n % 2 = 0
  <2>1. queue.bytes \in Int /\ queue.bytes \div 2 \in Int
    BY WholeStill, HalvesAre DEF AudioType
  <2>. QED  BY <2>1, TwiceIsEven, AudioAssumption
<1>2. (queue.split # (n % 2 = 1)) = FALSE
  BY <1>1, WholeStill DEF AudioType
<1>3. Take(queue) = [bytes |-> queue.bytes - n, split |-> queue.split # (n % 2 = 1)]
  BY <1>1 DEF Take
<1>4. Take(queue) = [bytes |-> queue.bytes - n, split |-> FALSE]
  BY <1>2, <1>3
<1>. QED  BY <1>1, <1>4, WholeStill DEF AudioType

LEMMA TickKeeps ==
  ASSUME AudioInv, NEW gap \in 1 .. MaxGap, Tick(gap)
  PROVE  AudioInv'
<1>. DEFINE P == Period
<1>1. P \in 1 .. Long /\ gap \in Int /\ gap >= 1 /\ Long = 9
  BY PeriodIs, WholeStill, AudioAssumption DEF Long
<1>2. PICK due \in Int : due = IF pace.started THEN pace.due - gap ELSE 0
  BY <1>1, WholeStill DEF AudioType
<1>3. PICK last \in 0 .. Long : last = Older(pace.last, gap) /\ (last = Long \/ last = pace.last + gap)
  BY OlderIs, WholeStill DEF AudioType
<1>4. PICK before \in 0 .. Long : before = Older(pace.before, gap) /\ (before = Long \/ before = pace.before + gap)
  BY OlderIs, WholeStill DEF AudioType
<1>5. PICK older : older = [pace EXCEPT !.due = due, !.last = last, !.before = before]
  OBVIOUS
<1>6. /\ older.due = due /\ older.last = last /\ older.before = before /\ older.started = pace.started
      /\ older.burst = pace.burst /\ older \in [due : Int, started : BOOLEAN, last : 0 .. Long,
                                                before : 0 .. Long, burst : BOOLEAN, writing : BOOLEAN]
  BY <1>2, <1>3, <1>4, <1>5, WholeStill DEF AudioType
<1>7. /\ pace.due \in Int /\ pace.last \in Int /\ pace.before \in Int /\ pace.started \in BOOLEAN
      /\ pace.last >= P \/ pace.last + pace.due >= 0
      /\ pace.before >= P \/ pace.before + pace.due >= P
      /\ ~pace.started => pace.last = Long /\ pace.before = Long
      /\ ~pace.burst
  BY WholeStill DEF AudioInv, AudioType, FramesApart, AudioIsKept, NoBursts
<1>8. last >= P \/ last + due >= 0
  BY <1>1, <1>2, <1>3, <1>7
<1>9. before >= P \/ before + due >= P
  BY <1>1, <1>2, <1>4, <1>7
<1>10. ~pace.started => last = Long /\ before = Long
  BY <1>1, <1>3, <1>4, <1>7
<1>11. CASE pace.started /\ due > 0 /\ pace' = older /\ UNCHANGED <<route, queue, pipe>>
  <2>1. AudioType'
    BY <1>6, <1>11, WholeStill DEF AudioType
  <2>2. Period' = P
    BY <1>11 DEF Period
  <2>3. FramesApart'
    BY <1>6, <1>8, <1>9, <1>10, <1>11, <2>2 DEF FramesApart
  <2>. QED  BY <1>6, <1>7, <1>11, <2>1, <2>3, WholeStill DEF AudioInv, AudioIsKept, NoBursts, SamplesAreWhole
<1>12. CASE /\ ~pace.started \/ due <= 0
            /\ queue' = Take(queue)
            /\ pace' = [due |-> NextDue(due), started |-> TRUE, last |-> 0, before |-> older.last,
                        burst |-> older.before < P, writing |-> route.direction = "out"]
            /\ UNCHANGED <<route, pipe>>
  <2>1. PICK next \in Int : next = NextDue(due) /\ next = (IF due + P > 0 THEN due + P ELSE P)
    BY <1>1, <1>2 DEF NextDue
  <2>2. before >= P
    BY <1>1, <1>2, <1>4, <1>9, <1>10, <1>12
  <2>3. last + next >= P /\ next >= 1
    BY <1>1, <1>2, <1>3, <1>8, <1>10, <2>1
  <2>4. PICK out \in BOOLEAN : out = (route.direction = "out")
    OBVIOUS
  <2>5. (older.before < P) = FALSE
    BY <1>1, <1>6, <2>2
  <2>6. pace' = [due |-> next, started |-> TRUE, last |-> 0, before |-> last, burst |-> FALSE, writing |-> out]
    BY <1>6, <1>12, <2>1, <2>4, <2>5
  <2>7. /\ pace' \in [due : Int, started : BOOLEAN, last : 0 .. Long, before : 0 .. Long,
                      burst : BOOLEAN, writing : BOOLEAN]
        /\ pace'.due = next /\ pace'.last = 0 /\ pace'.before = last /\ pace'.started /\ ~pace'.burst
    BY <1>1, <2>6
  <2>8. AudioType'
    BY <1>12, <2>7, TakeWhole, WholeStill DEF AudioType
  <2>9. Period' = P
    BY <1>12 DEF Period
  <2>10. FramesApart'
    BY <1>1, <1>3, <2>1, <2>3, <2>7, <2>9 DEF FramesApart
  <2>. QED  BY <1>12, <2>7, <2>8, <2>10, TakeWhole, WholeStill DEF AudioInv, AudioIsKept, NoBursts, SamplesAreWhole
<1>13. CASE Fails
  BY <1>13, StopsKeep DEF Fails
<1>. QED  BY <1>2, <1>3, <1>4, <1>5, <1>11, <1>12, <1>13 DEF Tick

LEMMA AudioStep == AudioInv /\ [AudioNext]_audioVars => AudioInv'
<1>. SUFFICES ASSUME AudioInv, [AudioNext]_audioVars
              PROVE  AudioInv'
  OBVIOUS
<1>1. CASE Feed
  BY <1>1, FeedKeeps
<1>2. CASE ResamplerFails \/ CloseAudio
  BY <1>2, StopsKeep DEF ResamplerFails, CloseAudio, Fails
<1>3. CASE WriteSettles
  <2>1. pace' = [pace EXCEPT !.writing = FALSE]
    BY <1>3 DEF WriteSettles
  <2>2. /\ pace' \in [due : Int, started : BOOLEAN, last : 0 .. Long, before : 0 .. Long,
                      burst : BOOLEAN, writing : BOOLEAN]
        /\ pace'.due = pace.due /\ pace'.last = pace.last /\ pace'.before = pace.before
        /\ pace'.started = pace.started /\ pace'.burst = pace.burst
    BY <2>1, WholeStill DEF AudioType
  <2>3. PICK r : r = [route EXCEPT !.state = "failed"]
    OBVIOUS
  <2>4. r \in [direction : {"in", "out"}, resampled : BOOLEAN, state : {"running", "failed", "closed"}]
        /\ r.direction = route.direction
    BY <2>3, WholeStill DEF AudioType
  <2>5. PICK q : q = [queue EXCEPT !.bytes = 0]
    OBVIOUS
  <2>6. q \in [bytes : Int, split : BOOLEAN] /\ ~q.split
    BY <2>5, WholeStill DEF AudioType
  <2>7. PICK p : p = [NoPipe EXCEPT !.split = pipe.split]
    OBVIOUS
  <2>8. p \in [waiting : Int, trailing : Int, output : Int, split : BOOLEAN] /\ ~p.split
    BY <2>7, WholeStill DEF AudioType, NoPipe
  <2>9. route' \in {route, r} /\ queue' \in {queue, q} /\ pipe' \in {pipe, p}
    BY <1>3, <2>3, <2>5, <2>7 DEF WriteSettles, Stops
  <2>10. AudioType' /\ Period' = Period
    BY <2>2, <2>4, <2>6, <2>8, <2>9, WholeStill DEF AudioType, Period
  <2>11. FramesApart'
    BY <2>2, <2>10 DEF AudioInv, FramesApart
  <2>. QED  BY <2>2, <2>6, <2>8, <2>9, <2>10, <2>11 DEF AudioInv, AudioIsKept, NoBursts, SamplesAreWhole
<1>4. CASE \E n \in 1 .. FrameBytes : Direct(n) \/ Write(n)
  <2>1. PICK n \in 1 .. FrameBytes : Direct(n) \/ Write(n)
    BY <1>4
  <2>2. n \in Int /\ pipe \in [waiting : Int, trailing : Int, output : Int, split : BOOLEAN] /\ ~pipe.split
    BY <2>1, AudioAssumption, WholeStill DEF AudioType
  <2>3. CASE Direct(n)
    BY <2>2, <2>3, EnqueueKeeps DEF Direct
  <2>4. CASE Write(n) /\ Fails
    BY <2>4, StopsKeep DEF Fails
  <2>5. CASE pipe' = [pipe EXCEPT !.waiting = @ + n] /\ UNCHANGED <<route, queue, pace>>
    <3>1. pipe' \in [waiting : Int, trailing : Int, output : Int, split : BOOLEAN] /\ ~pipe'.split
      BY <2>2, <2>5
    <3>2. AudioType'
      BY <2>5, <3>1, WholeStill DEF AudioType
    <3>. QED  BY <2>5, <3>1, <3>2, PaceStands, WholeStill
  <2>. QED  BY <2>1, <2>3, <2>4, <2>5 DEF Write
<1>5. CASE \E n \in 1 .. (PipeLimit + 1) : Resampled(n)
  <2>1. PICK n \in 1 .. (PipeLimit + 1) : Resampled(n)
    BY <1>5
  <2>2. n \in Int
    BY <2>1, AudioAssumption
  <2>3. PICK p : p = [pipe EXCEPT !.output = @ - n]
    OBVIOUS
  <2>4. p \in [waiting : Int, trailing : Int, output : Int, split : BOOLEAN] /\ ~p.split
    BY <2>2, <2>3, WholeStill DEF AudioType
  <2>5. Fails \/ Enqueue(n, p)
    BY <2>1, <2>3 DEF Resampled
  <2>. QED  BY <2>2, <2>4, <2>5, EnqueueKeeps, StopsKeep DEF Fails
<1>6. CASE \E gap \in 1 .. MaxGap : Tick(gap)
  BY <1>6, TickKeeps
<1>7. CASE UNCHANGED audioVars
  <2>1. UNCHANGED <<route, queue, pipe, pace>>
    BY <1>7 DEF audioVars
  <2>2. AudioType'
    BY <2>1, WholeStill DEF AudioType
  <2>. QED  BY <2>1, <2>2, PaceStands, WholeStill
<1>. QED  BY <1>1, <1>2, <1>3, <1>4, <1>5, <1>6, <1>7 DEF AudioNext

LEMMA AudioInvariance == AudioSpec => []AudioInv
BY AudioInitial, AudioStep, PTL DEF AudioSpec

\* Whatever the lengths of the chunks and however late the timer, no three frames go out
\* within the duration of one and no sample is split (PcmPacer, PcmFrameQueue, FfmpegResampler).
THEOREM AudioKept == AudioSpec => []AudioIsKept
<1>1. AudioInv => AudioIsKept
  BY DEF AudioInv
<1>. QED  BY <1>1, AudioInvariance, PTL

-----------------------------------------------------------------------------
(* The console's dialogs *)

SetupSpec == SetupInit /\ [][SetupNext]_setupVars

View == [id : Nat, step : Nat, active : BOOLEAN, failed : BOOLEAN]
Stage == {"none", "sent", "answered"}
Dialog == [isolated : BOOLEAN, opened : BOOLEAN, shown : View, answered : View]
PollState == [at : Stage, id : Nat, view : View]
ActionState == [at : Stage \cup {"refused"},
           kind : {"none", "start", "advance", "cancel", "close", "unlink"}, id : Nat, view : View]

SetupTypes ==
  /\ flow \in View /\ cached \in View /\ lapse \in BOOLEAN
  /\ dialog \in Dialog /\ poll \in PollState /\ action \in ActionState

\* v is what a flow that is f now has been: an earlier flow, or f at an earlier step,
\* active still.
Past(v, f) ==
  \/ v.id < f.id
  \/ v = f
  \/ v.id = f.id /\ v.active /\ v.step < f.step

\* v is no older than the answer to the operator's last action.
Fresh(v, d) == d.isolated /\ v.id = d.answered.id => v.step >= d.answered.step

DialogOf(d, c, f) ==
  /\ Past(d.shown, f) /\ Past(d.answered, f) /\ Past(c, f) /\ Past(NoFlow, f)
  /\ Fresh(d.shown, d)
PollOf(p, d, f) == p.at = "answered" => Past(p.view, f) /\ p.view.id = p.id /\ Fresh(p.view, d)
ActionOf(a, d, f) ==
  /\ a.at = "answered" /\ a.kind # "unlink" => Past(a.view, f) /\ a.view.id = f.id
  /\ a.at = "answered" /\ a.kind = "close" => Fresh(a.view, d) /\ ~f.active

\* A flow of the service is the one on display, or about to be.
KnownTo(d, a, f) ==
  /\ d.opened
  /\ a.at # "none" => a.kind # "unlink"
  /\ \/ d.shown.id = f.id
     \/ a.at = "answered" /\ a.kind \in {"start", "advance", "cancel"}

SetupInv ==
  /\ SetupTypes
  /\ DialogOf(dialog, cached, flow) /\ PollOf(poll, dialog, flow) /\ ActionOf(action, dialog, flow)
  \* Isolated polls meet no action but one that closes the dialog or unlinks the account.
  /\ dialog.isolated /\ poll.at # "none" => ~Busy \/ action.kind \in {"close", "unlink"}
  /\ Busy => dialog.opened
  /\ flow.active /\ ~lapse => KnownTo(dialog, action, flow)

LEMMA NoFlowIs == NoFlow \in View /\ NoFlow.id = 0 /\ NoFlow.step = 0 /\ ~NoFlow.active
BY DEF NoFlow, View

LEMMA NoPollIs == NoPoll \in PollState /\ NoPoll.at = "none"
BY NoFlowIs DEF NoPoll, Stage, PollState

LEMMA NoActionIs == NoAction \in ActionState /\ NoAction.at = "none"
BY NoFlowIs DEF NoAction, Stage, ActionState

\* A flow moves by a step of its own while it is active, or is replaced by the next.
Moves(f, g) == \/ g = f
               \/ f.active /\ g.id = f.id /\ g.step = f.step + 1
               \/ g.id = f.id + 1

LEMMA PastStays ==
  ASSUME NEW f \in View, NEW g \in View, NEW v \in View, Past(v, f), Moves(f, g)
  PROVE  Past(v, g)
<1>1. /\ f.id \in Nat /\ f.step \in Nat /\ v.id \in Nat /\ v.step \in Nat /\ g.id \in Nat /\ g.step \in Nat
  BY DEF View
<1>2. CASE g = f
  BY <1>2
<1>3. CASE f.active /\ g.id = f.id /\ g.step = f.step + 1
  BY <1>1, <1>3 DEF Past
<1>4. CASE g.id = f.id + 1
  <2>1. v.id <= f.id
    BY <1>1 DEF Past
  <2>. QED  BY <1>1, <1>4, <2>1 DEF Past
<1>. QED  BY <1>2, <1>3, <1>4 DEF Moves

\* The parts of what is held are views.
LEMMA ViewsAre ==
  ASSUME SetupInv
  PROVE  /\ flow \in View /\ cached \in View /\ dialog.shown \in View /\ dialog.answered \in View
         /\ poll.view \in View /\ action.view \in View /\ dialog.shown.id \in Nat
BY DEF SetupInv, SetupTypes, Dialog, PollState, ActionState, View

LEMMA FlowStep ==
  ASSUME SetupInv, NEW g \in View, Moves(flow, g)
  PROVE  DialogOf(dialog, cached, g) /\ PollOf(poll, dialog, g)
<1>1. \A v \in View : Past(v, flow) => Past(v, g)
  BY ViewsAre, PastStays
<1>2. DialogOf(dialog, cached, g)
  BY <1>1, ViewsAre, NoFlowIs DEF SetupInv, DialogOf
<1>3. PollOf(poll, dialog, g)
  BY <1>1, ViewsAre DEF SetupInv, PollOf
<1>. QED  BY <1>2, <1>3

\* A view that was answered is no older than the service's flow by then.
LEMMA ServedIsFresh ==
  ASSUME NEW f \in View, NEW d \in Dialog, Past(d.answered, f)
  PROVE  Fresh(f, d)
BY DEF Past, Fresh, View, Dialog

LEMMA FlowMovesKeeps ==
  ASSUME SetupInv, NEW active \in BOOLEAN, FlowMoves(active)
  PROVE  SetupInv'
<1>2. PICK failed \in BOOLEAN : flow' = [flow EXCEPT !.step = @ + 1, !.active = active, !.failed = failed]
  BY DEF FlowMoves
<1>3. flow \in View /\ flow.active
  BY DEF FlowMoves, SetupInv, SetupTypes
<1>4. flow.step + 1 \in Nat /\ flow.step \in Nat
  BY <1>3 DEF View
<1>5. flow' \in View /\ flow'.id = flow.id /\ flow'.step = flow.step + 1
  BY <1>2, <1>3, <1>4 DEF View
<1>6. dialog' = dialog /\ cached' = cached /\ poll' = poll /\ lapse' = lapse /\ action' = action
  BY DEF FlowMoves
<1>7. Moves(flow, flow')
  BY <1>3, <1>5 DEF Moves
<1>8. ActionOf(action, dialog, flow')
  <2>1. action.at = "answered" /\ action.kind # "unlink" => Past(action.view, flow')
    BY <1>3, <1>5, <1>7, PastStays, ViewsAre DEF SetupInv, ActionOf
  <2>. QED  BY <1>3, <1>5, <2>1 DEF SetupInv, ActionOf
<1>9. SetupTypes'
  BY <1>5, <1>6 DEF SetupInv, SetupTypes
<1>10. flow'.active /\ ~lapse => KnownTo(dialog, action, flow')
  BY <1>3, <1>5 DEF SetupInv, KnownTo
<1>. QED  BY <1>5, <1>6, <1>7, <1>8, <1>9, <1>10, FlowStep DEF SetupInv, Busy

LEMMA ServeActionKeeps ==
  ASSUME SetupInv, ServeAction
  PROVE  SetupInv'
<1>1. /\ dialog' = dialog /\ cached' = cached /\ poll' = poll /\ lapse' = lapse
      /\ action.at = "sent" /\ dialog.opened
  BY DEF ServeAction, SetupInv, Busy
<1>2. /\ flow \in View /\ flow.id \in Nat /\ flow.step \in Nat /\ dialog \in Dialog /\ action \in ActionState
      /\ Past(dialog.answered, flow)
  BY DEF SetupInv, SetupTypes, View, DialogOf
\* Whatever it answers with.
<1>3. ASSUME NEW at \in {"answered", "refused"}, NEW v \in View,
             action' = [action EXCEPT !.at = at, !.view = v], flow' \in View, Moves(flow, flow'),
             at = "answered" /\ action.kind # "unlink" => v = flow',
             at = "answered" /\ action.kind = "close" => ~flow'.active,
             action.kind = "unlink" => flow' = flow /\ (at = "refused" \/ ~flow.active),
             flow'.active => (flow.active /\ flow'.id = flow.id)
                             \/ (at = "answered" /\ action.kind \in {"start", "advance", "cancel"})
      PROVE  SetupInv'
  <2>1. action' \in ActionState /\ action'.at = at /\ action'.kind = action.kind /\ action'.view = v
    BY <1>2, <1>3 DEF ActionState, Stage
  <2>2. DialogOf(dialog, cached, flow') /\ PollOf(poll, dialog, flow')
    BY <1>3, FlowStep
  <2>3. Fresh(flow', dialog)
    BY <1>2, <1>3, <2>2, ServedIsFresh DEF DialogOf
  <2>4. ActionOf(action', dialog, flow')
    BY <1>3, <2>1, <2>3 DEF ActionOf, Past
  <2>5. SetupTypes'
    BY <1>1, <1>3, <2>1 DEF SetupInv, SetupTypes
  <2>6. flow'.active /\ ~lapse => KnownTo(dialog, action', flow')
    BY <1>1, <1>3, <2>1 DEF SetupInv, KnownTo
  <2>7. /\ dialog.isolated /\ poll.at # "none" => action'.kind \in {"close", "unlink"}
        /\ action'.at # "none"
    BY <1>1, <1>3, <2>1 DEF SetupInv, Busy
  <2>. QED  BY <1>1, <2>2, <2>4, <2>5, <2>6, <2>7 DEF SetupInv, Busy
\* A view that stands.
<1>4. action = [action EXCEPT !.view = action.view] /\ action.view \in View
  BY <1>2 DEF ActionState
<1>5. CASE action.kind = "start" /\ \E g \in {[NoFlow EXCEPT !.id = flow.id + 1, !.active = TRUE]} :
             flow' = g /\ action' = [action EXCEPT !.at = "answered", !.view = g]
  <2>1. flow' = [NoFlow EXCEPT !.id = flow.id + 1, !.active = TRUE] /\ flow.id + 1 \in Nat
    BY <1>2, <1>5
  <2>2. flow' \in View /\ flow'.id = flow.id + 1
    BY <2>1, NoFlowIs DEF View
  <2>3. PICK v \in View : v = flow' /\ action' = [action EXCEPT !.at = "answered", !.view = v]
    BY <1>5, <2>2
  <2>. QED  BY <1>3, <1>5, <2>2, <2>3 DEF Moves
<1>6. CASE \E g : /\ action.kind \in {"advance", "cancel", "close"} /\ flow.active
                  /\ flow' = g /\ action' = [action EXCEPT !.at = "answered", !.view = g]
                  /\ \E active, failed \in BOOLEAN :
                       /\ g = [flow EXCEPT !.step = @ + 1, !.active = active, !.failed = failed]
                       /\ action.kind # "advance" => ~active
  <2>1. PICK active \in BOOLEAN, failed \in BOOLEAN :
          /\ flow' = [flow EXCEPT !.step = @ + 1, !.active = active, !.failed = failed]
          /\ action.kind # "advance" => ~active
    BY <1>6
  <2>2. flow.step + 1 \in Nat
    BY <1>2
  <2>3. flow' \in View /\ flow'.id = flow.id /\ flow'.step = flow.step + 1 /\ flow'.active = active
    BY <1>2, <2>1, <2>2 DEF View
  <2>4. PICK v \in View : v = flow' /\ action' = [action EXCEPT !.at = "answered", !.view = v]
    BY <1>6, <2>3
  <2>. QED  BY <1>3, <1>6, <2>1, <2>3, <2>4 DEF Moves
<1>7. CASE /\ action.kind \in {"cancel", "close"} /\ ~flow.active /\ flow' = flow
           /\ action' = [action EXCEPT !.at = "answered", !.view = flow]
  BY <1>2, <1>3, <1>7 DEF Moves
<1>8. CASE flow' = flow /\ \/ action.kind = "unlink" /\ ~flow.active /\ action' = [action EXCEPT !.at = "answered"]
                           \/ action' = [action EXCEPT !.at = "refused"]
  <2>1. PICK at \in {"answered", "refused"} :
          /\ action' = [action EXCEPT !.at = at]
          /\ at = "answered" => action.kind = "unlink" /\ ~flow.active
    BY <1>8
  <2>2. [action EXCEPT !.at = at] = [action EXCEPT !.at = at, !.view = action.view]
    BY <1>2 DEF ActionState
  <2>3. PICK v \in View : action' = [action EXCEPT !.at = at, !.view = v]
    BY <1>4, <2>1, <2>2
  <2>. QED  BY <1>2, <1>3, <1>8, <2>1, <2>3 DEF Moves
<1>9. CASE action.kind = "advance" /\ flow.active /\ \E active \in BOOLEAN :
             flow' = [flow EXCEPT !.step = @ + 1, !.active = active]
             /\ action' = [action EXCEPT !.at = "answered", !.view = [flow EXCEPT !.step = @ + 1, !.active = active]]
  <2>1. PICK active \in BOOLEAN : 
             /\ flow' = [flow EXCEPT !.step = @ + 1, !.active = active]
             /\ action' = [action EXCEPT !.at = "answered", !.view = flow']
    BY <1>9
  <2>2. flow' = [flow EXCEPT !.step = @ + 1, !.active = active, !.failed = flow.failed] /\ flow.failed \in BOOLEAN
    BY <1>2, <2>1 DEF View
  <2>. QED  BY <1>6, <1>9, <2>1, <2>2
<1>. QED  BY <1>5, <1>6, <1>7, <1>8, <1>9 DEF ServeAction


LEMMA AskKeepsDialog ==
  ASSUME SetupInv, PollSent \/ ServePoll \/ PollFails
  PROVE  SetupInv'
<1>1. /\ flow' = flow /\ dialog' = dialog /\ cached' = cached /\ action' = action /\ lapse' = lapse
  BY DEF PollSent, ServePoll, PollFails
<1>2. /\ flow \in View /\ dialog \in Dialog /\ poll \in PollState /\ dialog.shown.id \in Nat
      /\ Past(dialog.answered, flow)
  BY ViewsAre DEF SetupInv, SetupTypes, DialogOf
<1>3. ASSUME poll' \in PollState, PollOf(poll', dialog, flow),
             dialog.isolated /\ poll'.at # "none" => ~Busy \/ action.kind \in {"close", "unlink"}
      PROVE  SetupInv'
  BY <1>1, <1>3 DEF SetupInv, SetupTypes, Busy
<1>4. CASE PollSent
  <2>1. poll' = [NoPoll EXCEPT !.at = "sent", !.id = dialog.shown.id]
    BY <1>4 DEF PollSent
  <2>2. poll' \in PollState /\ poll'.at = "sent"
    BY <1>2, <2>1, NoPollIs DEF PollState, Stage
  <2>. QED  BY <1>3, <1>4, <2>2 DEF PollSent, PollEnabled, PollOf
<1>5. CASE ServePoll /\ poll.id = flow.id
  <2>1. poll.at = "sent" /\ poll' = [poll EXCEPT !.at = "answered", !.view = flow]
    BY <1>5 DEF ServePoll
  <2>2. poll' \in PollState /\ poll'.at = "answered" /\ poll'.view = flow /\ poll'.id = poll.id
    BY <1>2, <2>1 DEF PollState, Stage
  <2>3. PollOf(poll', dialog, flow)
    BY <1>2, <1>5, <2>2, ServedIsFresh DEF PollOf, Past
  <2>. QED  BY <1>3, <2>1, <2>2, <2>3 DEF SetupInv
<1>6. CASE poll' = NoPoll
  BY <1>3, <1>6, NoPollIs DEF PollOf
<1>. QED  BY <1>4, <1>5, <1>6 DEF ServePoll, PollFails

\* What is shown may be replaced by a view that is as fresh.
LEMMA PollArrivesKeeps ==
  ASSUME SetupInv, PollArrives
  PROVE  SetupInv'
<1>1. /\ flow' = flow /\ action' = action /\ lapse' = lapse /\ poll' = NoPoll
      /\ poll.at = "answered"
      /\ cached' \in {cached, poll.view}
      /\ dialog' = dialog \/ (Watched /\ dialog' = [dialog EXCEPT !.shown = poll.view])
  BY DEF PollArrives
<1>2. /\ Past(poll.view, flow) /\ poll.view.id = poll.id /\ Fresh(poll.view, dialog)
      /\ DialogOf(dialog, cached, flow) /\ dialog \in Dialog
  BY <1>1 DEF SetupInv, PollOf, SetupTypes
<1>3. /\ dialog' \in Dialog /\ dialog'.isolated = dialog.isolated /\ dialog'.opened = dialog.opened
      /\ dialog'.answered = dialog.answered /\ dialog'.shown.id = dialog.shown.id
      /\ dialog'.shown \in {dialog.shown, poll.view}
  BY <1>1, <1>2, ViewsAre DEF Watched, Dialog
<1>4. DialogOf(dialog', cached', flow)
  BY <1>1, <1>2, <1>3 DEF DialogOf, Fresh
<1>5. SetupTypes'
  BY <1>1, <1>3, ViewsAre, NoPollIs DEF SetupInv, SetupTypes
<1>6. ActionOf(action, dialog', flow)
  BY <1>3 DEF SetupInv, ActionOf, Fresh
<1>7. flow.active /\ ~lapse => KnownTo(dialog', action, flow)
  BY <1>3 DEF SetupInv, KnownTo
<1>. QED  BY <1>1, <1>3, <1>4, <1>5, <1>6, <1>7, NoPollIs DEF SetupInv, Busy, PollOf

\* With an active flow that is known the dialog shows it, and shows it active.
LEMMA KnownIsShown ==
  ASSUME SetupInv, flow.active, ~lapse, ~Busy
  PROVE  ActiveShown /\ dialog.opened /\ dialog.shown.id = flow.id
<1>1. dialog.shown.id = flow.id /\ dialog.opened
  BY DEF SetupInv, KnownTo, Busy
<1>2. Past(dialog.shown, flow) /\ flow.id \in Nat
  BY ViewsAre DEF SetupInv, DialogOf, View
<1>. QED  BY <1>1, <1>2 DEF Past, ActiveShown

\* An action is sent.
LEMMA SendKeepsDialog ==
  ASSUME SetupInv, NEW kind \in {"start", "advance", "cancel", "close", "unlink"}, SendAction(kind),
         dialog.opened, ~Busy, flow' = flow, dialog' = dialog, lapse' = lapse,
         cached' \in {cached, NoFlow}, poll' \in {poll, NoPoll},
         kind = "unlink" => ~ActiveShown,
         kind \notin {"close", "unlink"} /\ dialog.isolated => poll' = NoPoll
  PROVE  SetupInv'
<1>1. action' = [NoAction EXCEPT !.at = "sent", !.kind = kind, !.id = dialog.shown.id]
  BY DEF SendAction
<1>2. action' \in ActionState /\ action'.at = "sent" /\ action'.kind = kind
  BY <1>1, NoActionIs, ViewsAre DEF ActionState, Stage
<1>3. SetupTypes'
  BY <1>2, NoFlowIs, NoPollIs DEF SetupInv, SetupTypes
<1>4. DialogOf(dialog, cached', flow) /\ PollOf(poll', dialog, flow) /\ ActionOf(action', dialog, flow)
  BY <1>2, NoPollIs DEF SetupInv, DialogOf, PollOf, ActionOf
<1>5. flow.active /\ ~lapse => KnownTo(dialog, action', flow)
  BY <1>2, KnownIsShown DEF KnownTo
<1>. QED  BY <1>2, <1>3, <1>4, <1>5, NoPollIs DEF SetupInv, Busy

LEMMA ActKeeps ==
  ASSUME SetupInv, StartFlow \/ AdvanceFlow \/ CancelFlow
  PROVE  SetupInv'
<1>1. PICK kind \in {"start", "advance", "cancel"} : Act(kind)
  BY DEF StartFlow, AdvanceFlow, CancelFlow
<1>2. CASE ActIsolated(kind)
  BY <1>2, SendKeepsDialog DEF ActIsolated
<1>3. CASE ActPairing(kind)
  BY <1>3, SendKeepsDialog DEF ActPairing
<1>. QED  BY <1>1, <1>2, <1>3 DEF Act

LEMMA UnlinkKeepsDialog == SetupInv /\ Unlink => SetupInv'
BY SendKeepsDialog DEF Unlink

LEMMA OpenKeepsDialog ==
  ASSUME SetupInv, Open
  PROVE  SetupInv'
<1>1. /\ ~dialog.opened /\ dialog' = [dialog EXCEPT !.opened = TRUE]
      /\ flow' = flow /\ cached' = cached /\ poll' = poll /\ action' = action /\ lapse' = lapse
  BY DEF Open
<1>2. /\ dialog' \in Dialog /\ dialog'.isolated = dialog.isolated /\ dialog'.opened
      /\ dialog'.answered = dialog.answered /\ dialog'.shown = dialog.shown
  BY <1>1 DEF SetupInv, SetupTypes, Dialog
<1>3. SetupTypes'
  BY <1>1, <1>2 DEF SetupInv, SetupTypes
<1>4. DialogOf(dialog', cached, flow) /\ PollOf(poll, dialog', flow) /\ ActionOf(action, dialog', flow)
  BY <1>2 DEF SetupInv, DialogOf, PollOf, ActionOf, Fresh
<1>5. ~(flow.active /\ ~lapse)
  BY <1>1 DEF SetupInv, KnownTo
<1>. QED  BY <1>1, <1>2, <1>3, <1>4, <1>5 DEF SetupInv, Busy

\* The action is over, and what is shown has been replaced: d is the dialog, c the query's data.
LEMMA OverKeeps ==
  ASSUME SetupInv, action' = NoAction, flow' = flow, NEW d \in Dialog, dialog' = d,
         d.isolated = dialog.isolated, NEW c \in View, cached' = c, DialogOf(d, c, flow),
         poll' = NoPoll \/ (poll' = poll /\ PollOf(poll, d, flow)),
         lapse' \in BOOLEAN, flow.active /\ ~lapse' => d.opened /\ d.shown.id = flow.id
  PROVE  SetupInv'
<1>1. SetupTypes'
  BY NoActionIs, NoPollIs DEF SetupInv, SetupTypes
<1>2. PollOf(poll', d, flow) /\ ActionOf(action', d, flow)
  BY NoActionIs, NoPollIs DEF PollOf, ActionOf
<1>. QED  BY <1>1, <1>2, NoActionIs, NoPollIs DEF SetupInv, Busy, KnownTo

\* The dialog is closed or emptied.
LEMMA EmptyIs ==
  ASSUME SetupInv, NEW opened \in BOOLEAN
  PROVE  LET d == [dialog EXCEPT !.opened = opened, !.shown = NoFlow, !.answered = NoFlow] IN
         d \in Dialog /\ d.isolated = dialog.isolated /\ DialogOf(d, NoFlow, flow)
<1>1. PICK d : d = [dialog EXCEPT !.opened = opened, !.shown = NoFlow, !.answered = NoFlow]
  OBVIOUS
<1>2. d \in Dialog /\ d.isolated = dialog.isolated /\ d.shown = NoFlow /\ d.answered = NoFlow
  BY <1>1, NoFlowIs DEF SetupInv, SetupTypes, Dialog
<1>3. DialogOf(d, NoFlow, flow)
  BY <1>2, NoFlowIs DEF SetupInv, DialogOf, Fresh
<1>. QED  BY <1>1, <1>2, <1>3

LEMMA ActionEndsKeep ==
  ASSUME SetupInv, ActionAnswered \/ ActionFails \/ UnlinkAnswered
  PROVE  SetupInv'
<1>1. dialog \in Dialog /\ action \in ActionState /\ lapse \in BOOLEAN
  BY DEF SetupInv, SetupTypes
<1>2. CASE ActionAnswered
  <2>1. /\ action.at = "answered" /\ action.kind \in {"start", "advance", "cancel"} /\ action' = NoAction
        /\ cached' = action.view /\ flow' = flow /\ poll' = poll /\ lapse' = lapse
        /\ dialog' = [dialog EXCEPT !.shown = action.view, !.answered = action.view]
    BY <1>2 DEF ActionAnswered
  <2>2. PICK d : d = [dialog EXCEPT !.shown = action.view, !.answered = action.view]
    OBVIOUS
  <2>3. d \in Dialog /\ d.isolated = dialog.isolated /\ d.shown = action.view /\ d.answered = action.view
        /\ d.opened = dialog.opened
    BY <1>1, <2>2, ViewsAre DEF Dialog
  <2>4. Past(action.view, flow) /\ action.view.id = flow.id
    BY <2>1 DEF SetupInv, ActionOf
  <2>5. DialogOf(d, action.view, flow)
    BY <2>3, <2>4, ViewsAre DEF SetupInv, DialogOf, Fresh, View
  <2>6. PollOf(poll, d, flow)
    <3>1. dialog.isolated => poll.at = "none"
      BY <2>1 DEF SetupInv, Busy
    <3>. QED  BY <2>3, <3>1 DEF SetupInv, PollOf, Fresh
  <2>7. flow.active /\ ~lapse => d.opened /\ d.shown.id = flow.id
    <3>1. dialog.opened
      BY <2>1 DEF SetupInv, Busy
    <3>. QED  BY <2>3, <2>4, <3>1
  <2>. QED  BY <1>1, <2>1, <2>2, <2>3, <2>5, <2>6, <2>7, OverKeeps, ViewsAre
<1>3. CASE ActionFails
  <2>1. /\ action' = NoAction /\ flow' = flow /\ dialog' = dialog /\ cached' = cached /\ poll' = poll
        /\ lapse' = TRUE \/ (lapse' = lapse /\ action.at = "refused")
    BY <1>3 DEF ActionFails
  <2>2. flow.active /\ ~lapse' => dialog.opened /\ dialog.shown.id = flow.id
    BY <2>1 DEF SetupInv, KnownTo
  <2>3. DialogOf(dialog, cached, flow) /\ PollOf(poll, dialog, flow) /\ lapse' \in BOOLEAN
    BY <1>1, <2>1 DEF SetupInv
  <2>. QED  BY <1>1, <2>1, <2>2, <2>3, OverKeeps, ViewsAre
<1>4. CASE UnlinkAnswered
  <2>1. /\ action.at = "answered" /\ action.kind = "unlink" /\ action' = NoAction /\ cached' = NoFlow
        /\ poll' = NoPoll /\ flow' = flow /\ lapse' = lapse
        /\ dialog' = [dialog EXCEPT !.shown = NoFlow, !.answered = NoFlow]
    BY <1>4 DEF UnlinkAnswered
  <2>2. PICK d : d = dialog'
    OBVIOUS
  <2>3. d = [dialog EXCEPT !.opened = dialog.opened, !.shown = NoFlow, !.answered = NoFlow] /\ dialog.opened \in BOOLEAN
    BY <1>1, <2>1, <2>2 DEF Dialog
  <2>4. d \in Dialog /\ d.isolated = dialog.isolated /\ DialogOf(d, NoFlow, flow)
    BY <2>3, EmptyIs
  <2>5. ~(flow.active /\ ~lapse)
    BY <2>1 DEF SetupInv, KnownTo
  <2>. QED  BY <1>1, <2>1, <2>2, <2>4, <2>5, OverKeeps, NoFlowIs
<1>. QED  BY <1>2, <1>3, <1>4

LEMMA CloseKeeps ==
  ASSUME SetupInv, Close
  PROVE  SetupInv'
<1>1. dialog.opened /\ ~Busy /\ poll' = NoPoll /\ flow' = flow /\ lapse' = lapse
  BY DEF Close
<1>2. CASE ActiveShown
  BY <1>1, <1>2, SendKeepsDialog DEF Close
<1>3. CASE ~ActiveShown
  <2>1. /\ dialog' = [dialog EXCEPT !.opened = FALSE, !.shown = NoFlow, !.answered = NoFlow]
        /\ cached' = NoFlow /\ action' = action
    BY <1>3 DEF Close
  <2>2. PICK d : d = [dialog EXCEPT !.opened = FALSE, !.shown = NoFlow, !.answered = NoFlow]
    OBVIOUS
  <2>3. d \in Dialog /\ d.isolated = dialog.isolated /\ DialogOf(d, NoFlow, flow)
    BY <2>2, EmptyIs
  <2>4. ~(flow.active /\ ~lapse)
    BY <1>1, <1>3, KnownIsShown
  <2>5. SetupTypes'
    BY <1>1, <2>1, <2>2, <2>3, NoFlowIs, NoPollIs DEF SetupInv, SetupTypes
  <2>6. action.at = "none"
    BY <1>1 DEF Busy
  <2>. QED  BY <1>1, <2>1, <2>2, <2>3, <2>4, <2>5, <2>6, NoPollIs DEF SetupInv, Busy, PollOf, ActionOf
<1>. QED  BY <1>2, <1>3

LEMMA CloseAnsweredKeeps ==
  ASSUME SetupInv, CloseAnswered
  PROVE  SetupInv'
<1>1. /\ action.at = "answered" /\ action.kind = "close" /\ action' = NoAction /\ flow' = flow /\ lapse' = lapse
      /\ dialog \in Dialog /\ lapse \in BOOLEAN
  BY DEF CloseAnswered, SetupInv, SetupTypes
<1>2. ~flow.active /\ Past(action.view, flow) /\ Fresh(action.view, dialog)
  BY <1>1 DEF SetupInv, ActionOf
<1>3. CASE action.view.failed
  <2>1. /\ dialog' = [dialog EXCEPT !.shown = action.view] /\ cached' \in {cached, action.view} /\ poll' = poll
    BY <1>3 DEF CloseAnswered
  <2>2. PICK d : d = [dialog EXCEPT !.shown = action.view]
    OBVIOUS
  <2>3. d \in Dialog /\ d.isolated = dialog.isolated /\ d.shown = action.view /\ d.answered = dialog.answered
    BY <1>1, <2>2, ViewsAre DEF Dialog
  <2>4. DialogOf(d, cached', flow) /\ PollOf(poll, d, flow)
    BY <1>2, <2>1, <2>3 DEF SetupInv, DialogOf, PollOf, Fresh
  <2>5. cached' \in View
    BY <2>1, ViewsAre
  <2>. QED  BY <1>1, <1>2, <2>1, <2>2, <2>3, <2>4, <2>5, OverKeeps
<1>4. CASE ~action.view.failed
  <2>1. /\ dialog' = [dialog EXCEPT !.opened = FALSE, !.shown = NoFlow, !.answered = NoFlow]
        /\ cached' = NoFlow /\ poll' = NoPoll
    BY <1>4 DEF CloseAnswered
  <2>2. PICK d : d = [dialog EXCEPT !.opened = FALSE, !.shown = NoFlow, !.answered = NoFlow]
    OBVIOUS
  <2>3. d \in Dialog /\ d.isolated = dialog.isolated /\ DialogOf(d, NoFlow, flow)
    BY <2>2, EmptyIs
  <2>. QED  BY <1>1, <1>2, <2>1, <2>2, <2>3, OverKeeps, NoFlowIs
<1>. QED  BY <1>3, <1>4

LEMMA LeavePageKeeps ==
  ASSUME SetupInv, LeavePage
  PROVE  SetupInv'
<1>1. /\ dialog' = [dialog EXCEPT !.opened = FALSE, !.shown = NoFlow, !.answered = NoFlow]
      /\ cached' = NoFlow /\ poll' = NoPoll /\ action' = NoAction /\ flow' = flow
      /\ lapse' = (lapse \/ flow.active \/ action.at = "sent")
  BY DEF LeavePage
<1>2. PICK d : d = [dialog EXCEPT !.opened = FALSE, !.shown = NoFlow, !.answered = NoFlow]
  OBVIOUS
<1>3. d \in Dialog /\ d.isolated = dialog.isolated /\ DialogOf(d, NoFlow, flow)
  BY <1>2, EmptyIs
<1>4. lapse' \in BOOLEAN /\ ~(flow.active /\ ~lapse')
  BY <1>1
<1>. QED  BY <1>1, <1>2, <1>3, <1>4, OverKeeps, NoFlowIs

LEMMA SetupInitial == SetupInit => SetupInv
<1>. SUFFICES ASSUME SetupInit
              PROVE  SetupInv
  OBVIOUS
<1>1. SetupTypes
  <2>1. PICK i \in BOOLEAN : dialog = [isolated |-> i, opened |-> FALSE, shown |-> NoFlow, answered |-> NoFlow]
    BY DEF SetupInit
  <2>2. dialog \in Dialog
    BY <2>1, NoFlowIs DEF Dialog
  <2>. QED  BY <2>2, NoFlowIs, NoPollIs, NoActionIs DEF SetupInit, SetupTypes
<1>2. dialog.shown = NoFlow /\ dialog.answered = NoFlow
  BY DEF SetupInit
<1>3. DialogOf(dialog, cached, flow)
  BY <1>2, NoFlowIs DEF SetupInit, DialogOf, Past, Fresh
<1>. QED  BY <1>1, <1>3, NoFlowIs, NoPollIs, NoActionIs DEF SetupInit, SetupInv, PollOf, ActionOf, Busy

LEMMA SetupStep == SetupInv /\ [SetupNext]_setupVars => SetupInv'
<1>. SUFFICES ASSUME SetupInv, [SetupNext]_setupVars
              PROVE  SetupInv'
  OBVIOUS
<1>1. CASE UNCHANGED setupVars
  BY <1>1 DEF setupVars, SetupInv, SetupTypes, Busy
<1>2. CASE SetupNext
  BY <1>2, FlowMovesKeeps, ServeActionKeeps, AskKeepsDialog, PollArrivesKeeps, OpenKeepsDialog, ActKeeps, ActionEndsKeep,
     UnlinkKeepsDialog, CloseKeeps, CloseAnsweredKeeps, LeavePageKeeps DEF SetupNext
<1>. QED  BY <1>1, <1>2

LEMMA SetupInvariance == SetupSpec => []SetupInv
BY SetupInitial, SetupStep, PTL DEF SetupSpec

\* A dialog that isolates its polls shows nothing older than the answer to what the
\* operator did last, and any dialog closes on no flow it knew of (connection-login.tsx,
\* telegram-target-pairing.tsx, whatsapp-setup.tsx).
THEOREM DialogIsTrue == SetupSpec => []DialogIsHonest
<1>1. SetupInv => DialogIsHonest
  <2>. SUFFICES ASSUME SetupInv
                PROVE  DialogIsHonest
    OBVIOUS
  <2>1. ShownIsFresh
    BY DEF SetupInv, DialogOf, Fresh, ShownIsFresh
  <2>2. ClosingCancels
    BY DEF SetupInv, KnownTo, ClosingCancels
  <2>. QED  BY <2>1, <2>2 DEF DialogIsHonest
<1>. QED  BY <1>1, SetupInvariance, PTL

-----------------------------------------------------------------------------
(* The records *)

RecordsSpec == RecordsInit /\ [][RecordsNext]_recordVars

CallRecord == [state : {"none", "connected", "ended", "uncertain"}, created : Nat,
               availability : {"empty", "disabled", "available", "expired"}]
Fragment == [call : RecordIds, at : Nat, cursor : Nat \ {0}]
Reader == [of : {0} \cup RecordIds, state : {"idle", "reading", "done"}, key : Nat, id : {0} \cup RecordIds,
           owed : SUBSET Nat, seen : SUBSET Nat, again : BOOLEAN]

RecordTypes ==
  /\ calls \in [RecordIds -> CallRecord]
  /\ fragments \subseteq Fragment /\ IsFiniteSet(fragments)
  /\ copies \in [RecordIds -> Nat]
  /\ service \in [up : BOOLEAN, capture : BOOLEAN, now : Nat \ {0}, cursor : Nat \ {0}]
  /\ reader \in Reader
  /\ IsFiniteSet(Known)

\* What is kept of a call is of one that was made and captured.
KeptInv ==
  \A c \in RecordIds :
    /\ Held(c) => calls[c].state # "none" /\ calls[c].availability \in {"available", "expired"}
    /\ calls[c].availability = "available" => Held(c)

\* A cursor is that of one fragment, and behind the next.
CursorInv ==
  /\ \A f \in fragments : f.cursor < service.cursor
  /\ \A f, g \in fragments : f.cursor = g.cursor => f.call = g.call

\* A reader has seen what is not after its place, of what it began with and is there still.
CallsRead ==
  reader.state # "idle" /\ reader.of = 0 =>
    /\ reader.owed \subseteq Known /\ reader.seen \subseteq Known
    /\ \A c \in reader.seen : ~After(c)
    /\ \A c \in reader.owed : reader.state = "done" \/ ~After(c) => c \in reader.seen
TranscriptRead ==
  reader.state # "idle" /\ reader.of # 0 =>
    /\ \A n \in reader.owed : n < service.cursor
    /\ \A n \in reader.seen : n <= reader.key
    /\ \A f \in fragments : f.cursor \in reader.owed =>
         /\ f.call = reader.of
         /\ reader.state = "done" \/ f.cursor <= reader.key => f.cursor \in reader.seen

RecordsInv == RecordTypes /\ KeptInv /\ CursorInv /\ CallsRead /\ TranscriptRead /\ ~reader.again

LEMMA NoReaderIs == NoReader \in Reader /\ NoReader.state = "idle" /\ ~NoReader.again
BY DEF NoReader, Reader

LEMMA RecordsInitial == RecordsInit => RecordsInv
<1>. SUFFICES ASSUME RecordsInit
              PROVE  RecordsInv
  OBVIOUS
<1>1. \A c \in RecordIds : calls[c].state = "none" /\ calls[c].availability = "empty" /\ copies[c] = 0
  BY DEF RecordsInit
<1>2. Known = {} /\ fragments = {} /\ \A c \in RecordIds : ~Held(c)
  BY <1>1 DEF RecordsInit, Known, Held
<1>3. calls \in [RecordIds -> CallRecord] /\ copies \in [RecordIds -> Nat]
  BY DEF RecordsInit, CallRecord
<1>4. RecordTypes
  BY <1>2, <1>3, FS_EmptySet, NoReaderIs DEF RecordsInit, RecordTypes
<1>. QED  BY <1>1, <1>2, <1>4, NoReaderIs DEF RecordsInit, RecordsInv, KeptInv, CursorInv, CallsRead, TranscriptRead

\* The parts in the next state, when the reader stands.
LEMMA ReaderStands ==
  ASSUME RecordsInv, RecordTypes', reader' = reader,
         \A c \in Known : calls'[c].created = calls[c].created /\ calls'[c].state # "none",
         service'.cursor >= service.cursor,
         \A f \in fragments' : f \in fragments \/ f.cursor >= service.cursor
  PROVE  CallsRead' /\ TranscriptRead'
<1>1. Known \subseteq Known'
  BY DEF RecordsInv, RecordTypes, Known
<1>2. CallsRead'
  <2>1. \A c \in Known : After(c)' <=> After(c)
    BY DEF After
  <2>2. ASSUME reader.state # "idle", reader.of = 0
        PROVE  /\ reader.owed \subseteq Known /\ reader.seen \subseteq Known
               /\ \A c \in reader.seen : ~After(c)
               /\ \A c \in reader.owed : reader.state = "done" \/ ~After(c) => c \in reader.seen
    BY <2>2 DEF RecordsInv, CallsRead
  <2>3. ASSUME reader.state # "idle", reader.of = 0
        PROVE  /\ \A c \in reader.seen : ~After(c)'
               /\ \A c \in reader.owed : reader.state = "done" \/ ~After(c)' => c \in reader.seen
    BY <2>1, <2>2, <2>3
  <2>. QED  BY <1>1, <2>2, <2>3 DEF CallsRead
<1>3. TranscriptRead'
  <2>. SUFFICES ASSUME reader.state # "idle", reader.of # 0
                PROVE  /\ \A n \in reader.owed : n < service'.cursor
                       /\ \A n \in reader.seen : n <= reader.key
                       /\ \A f \in fragments' : f.cursor \in reader.owed =>
                            /\ f.call = reader.of
                            /\ reader.state = "done" \/ f.cursor <= reader.key => f.cursor \in reader.seen
    BY DEF TranscriptRead
  <2>1. /\ \A n \in reader.owed : n < service.cursor
        /\ \A n \in reader.seen : n <= reader.key
        /\ \A f \in fragments : f.cursor \in reader.owed =>
             /\ f.call = reader.of
             /\ reader.state = "done" \/ f.cursor <= reader.key => f.cursor \in reader.seen
    BY DEF RecordsInv, TranscriptRead
  <2>2. service.cursor \in Nat /\ service'.cursor \in Nat /\ reader.owed \subseteq Nat
    BY DEF RecordsInv, RecordTypes, Reader
  <2>3. \A n \in reader.owed : n < service'.cursor /\ ~(n >= service.cursor)
    BY <2>1, <2>2
  <2>. QED  BY <2>1, <2>3
<1>. QED  BY <1>2, <1>3

\* What the service does to its records, and nothing to a reader.
LEMMA SameKeeps ==
  ASSUME RecordsInv, UNCHANGED <<fragments, copies, reader>>,
         calls' \in [RecordIds -> CallRecord],
         \A c \in RecordIds : /\ calls'[c].created = calls[c].created
                              /\ calls'[c].availability = calls[c].availability
                              /\ calls'[c].state = "none" <=> calls[c].state = "none",
         service' \in [up : BOOLEAN, capture : BOOLEAN, now : Nat \ {0}, cursor : Nat \ {0}],
         service'.cursor = service.cursor
  PROVE  RecordsInv'
<1>1. Known' = Known
  BY DEF Known
<1>2. RecordTypes'
  BY <1>1 DEF RecordsInv, RecordTypes
<1>3. \A c \in RecordIds : Held(c)' <=> Held(c)
  BY DEF Held
<1>4. KeptInv'
  BY <1>3 DEF RecordsInv, KeptInv
<1>5. CursorInv'
  BY DEF RecordsInv, CursorInv
<1>6. service'.cursor >= service.cursor
  BY DEF RecordsInv, RecordTypes
<1>7. CallsRead' /\ TranscriptRead'
  BY <1>2, <1>6, ReaderStands DEF Known
<1>. QED  BY <1>2, <1>4, <1>5, <1>7 DEF RecordsInv

LEMMA CreateKeeps ==
  ASSUME RecordsInv, NEW c \in RecordIds, Create(c)
  PROVE  RecordsInv'
<1>1. PICK e : e = [state |-> "connected", created |-> service.now,
                    availability |-> IF service.capture THEN "empty" ELSE "disabled"]
  OBVIOUS
<1>2. /\ calls' = [calls EXCEPT ![c] = e] /\ calls[c].state = "none"
      /\ UNCHANGED <<fragments, copies, service, reader>>
  BY <1>1 DEF Create
<1>3. e \in CallRecord /\ e.state # "none" /\ e.availability # "available"
  BY <1>1 DEF RecordsInv, RecordTypes, CallRecord
<1>4. /\ calls' \in [RecordIds -> CallRecord] /\ calls'[c] = e
      /\ \A d \in RecordIds \ {c} : calls'[d] = calls[d]
  BY <1>2, <1>3 DEF RecordsInv, RecordTypes
<1>5. Known' = Known \cup {c}
  BY <1>3, <1>4 DEF Known
<1>6. RecordTypes'
  BY <1>2, <1>4, <1>5, FS_AddElement DEF RecordsInv, RecordTypes
<1>7. \A d \in RecordIds : Held(d)' <=> Held(d)
  BY <1>2 DEF Held
<1>8. KeptInv'
  BY <1>2, <1>3, <1>4, <1>7 DEF RecordsInv, KeptInv
<1>9. CursorInv' /\ service'.cursor >= service.cursor
  BY <1>2 DEF RecordsInv, CursorInv, RecordTypes
<1>10. \A d \in Known : calls'[d].created = calls[d].created /\ calls'[d].state # "none"
  BY <1>2, <1>4 DEF Known
<1>11. CallsRead' /\ TranscriptRead'
  BY <1>2, <1>6, <1>9, <1>10, ReaderStands
<1>. QED  BY <1>2, <1>6, <1>8, <1>9, <1>11 DEF RecordsInv

\* A transcript becomes available.
LEMMA AvailableIs ==
  ASSUME RecordsInv, NEW c \in RecordIds, calls[c].state = "connected",
         calls' = [calls EXCEPT ![c].availability = "available"]
  PROVE  /\ calls' \in [RecordIds -> CallRecord]
         /\ \A d \in RecordIds : /\ calls'[d].state = calls[d].state /\ calls'[d].created = calls[d].created
                                 /\ calls'[d].availability = IF d = c THEN "available" ELSE calls[d].availability
<1>1. PICK e : e = [calls[c] EXCEPT !.availability = "available"]
  OBVIOUS
<1>2. calls \in [RecordIds -> CallRecord] /\ calls[c] \in CallRecord
  BY DEF RecordsInv, RecordTypes
<1>3. e \in CallRecord /\ e.state = calls[c].state /\ e.created = calls[c].created /\ e.availability = "available"
  BY <1>1, <1>2 DEF CallRecord
<1>4. calls' = [calls EXCEPT ![c] = e]
  BY <1>1
<1>. QED  BY <1>2, <1>3, <1>4

LEMMA AppendKeeps ==
  ASSUME RecordsInv, NEW c \in RecordIds, AppendTranscript(c)
  PROVE  RecordsInv'
<1>1. /\ calls[c].state = "connected" /\ service' = [service EXCEPT !.cursor = @ + 1]
      /\ UNCHANGED <<copies, reader>>
  BY DEF AppendTranscript
<1>2. /\ service \in [up : BOOLEAN, capture : BOOLEAN, now : Nat \ {0}, cursor : Nat \ {0}]
      /\ calls \in [RecordIds -> CallRecord]
  BY DEF RecordsInv, RecordTypes
<1>3. PICK k : k = service.cursor + 1
  OBVIOUS
<1>4. k \in Nat \ {0} /\ service.cursor \in Nat /\ service.cursor < k
  BY <1>2, <1>3
<1>5. /\ service' \in [up : BOOLEAN, capture : BOOLEAN, now : Nat \ {0}, cursor : Nat \ {0}]
      /\ service'.cursor = k
  BY <1>1, <1>2, <1>3, <1>4
<1>6. CASE ~Captures(c)
  <2>1. UNCHANGED <<calls, fragments>>
    BY <1>6 DEF AppendTranscript
  <2>2. Known' = Known /\ \A d \in RecordIds : Held(d)' <=> Held(d)
    BY <1>1, <2>1 DEF Known, Held
  <2>3. RecordTypes'
    BY <1>1, <1>5, <2>1, <2>2 DEF RecordsInv, RecordTypes
  <2>4. KeptInv'
    BY <2>1, <2>2 DEF RecordsInv, KeptInv
  <2>5. CursorInv'
    <3>1. \A f \in fragments : f.cursor \in Nat /\ f.cursor < service.cursor
      BY DEF RecordsInv, RecordTypes, Fragment, CursorInv
    <3>2. \A f \in fragments : f.cursor < k
      BY <1>4, <3>1
    <3>. QED  BY <1>5, <2>1, <3>2 DEF RecordsInv, CursorInv
  <2>6. CallsRead' /\ TranscriptRead'
    BY <1>1, <1>4, <1>5, <2>1, <2>3, ReaderStands DEF Known
  <2>. QED  BY <1>1, <2>3, <2>4, <2>5, <2>6 DEF RecordsInv
<1>7. CASE Captures(c)
  <2>1. PICK f : f = [call |-> c, at |-> service.now, cursor |-> service.cursor]
    OBVIOUS
  <2>2. /\ fragments' = fragments \cup {f} /\ calls' = [calls EXCEPT ![c].availability = "available"]
    BY <1>7, <2>1 DEF AppendTranscript
  <2>3. f \in Fragment /\ f.call = c /\ f.cursor = service.cursor
    BY <1>2, <2>1 DEF Fragment
  <2>4. /\ calls' \in [RecordIds -> CallRecord]
        /\ \A d \in RecordIds : /\ calls'[d].state = calls[d].state /\ calls'[d].created = calls[d].created
                                /\ calls'[d].availability = IF d = c THEN "available" ELSE calls[d].availability
    BY <1>1, <2>2, AvailableIs
  <2>5. Known' = Known
    BY <2>4 DEF Known
  <2>6. RecordTypes'
    BY <1>1, <1>5, <2>2, <2>3, <2>4, <2>5, FS_AddElement DEF RecordsInv, RecordTypes
  <2>7. Held(c)' /\ \A d \in RecordIds \ {c} : Held(d)' <=> Held(d)
    BY <1>1, <2>2, <2>3 DEF Held
  <2>8. KeptInv'
    BY <1>1, <2>4, <2>7 DEF RecordsInv, KeptInv
  <2>9. CursorInv'
    <3>1. \A g \in fragments : g.cursor \in Nat /\ g.cursor < service.cursor
      BY DEF RecordsInv, RecordTypes, Fragment, CursorInv
    <3>2. \A g \in fragments : g.cursor < k /\ g.cursor # service.cursor
      BY <1>4, <3>1
    <3>. QED  BY <1>4, <1>5, <2>2, <2>3, <3>2 DEF RecordsInv, CursorInv
  <2>10. /\ service'.cursor >= service.cursor
         /\ \A g \in fragments' : g \in fragments \/ g.cursor >= service.cursor
    BY <1>4, <1>5, <2>2, <2>3
  <2>11. CallsRead' /\ TranscriptRead'
    BY <1>1, <2>4, <2>6, <2>10, ReaderStands DEF Known
  <2>. QED  BY <1>1, <2>6, <2>8, <2>9, <2>11 DEF RecordsInv
<1>. QED  BY <1>6, <1>7

LEMMA DelegateKeeps ==
  ASSUME RecordsInv, NEW c \in RecordIds, Delegate(c)
  PROVE  RecordsInv'
<1>1. /\ calls[c].state = "connected" /\ copies' = [copies EXCEPT ![c] = service.now]
      /\ calls' = [calls EXCEPT ![c].availability = "available"] /\ UNCHANGED <<fragments, service, reader>>
  BY DEF Delegate
<1>2. /\ calls' \in [RecordIds -> CallRecord]
      /\ \A d \in RecordIds : /\ calls'[d].state = calls[d].state /\ calls'[d].created = calls[d].created
                              /\ calls'[d].availability = IF d = c THEN "available" ELSE calls[d].availability
  BY <1>1, AvailableIs
<1>3. service.now \in Nat \ {0} /\ copies \in [RecordIds -> Nat] /\ service.cursor \in Nat
  BY DEF RecordsInv, RecordTypes
<1>4. copies' \in [RecordIds -> Nat] /\ copies'[c] # 0 /\ \A d \in RecordIds \ {c} : copies'[d] = copies[d]
  BY <1>1, <1>3
<1>5. Known' = Known
  BY <1>2 DEF Known
<1>6. RecordTypes'
  BY <1>1, <1>2, <1>4, <1>5 DEF RecordsInv, RecordTypes
<1>7. Held(c)' /\ \A d \in RecordIds \ {c} : Held(d)' <=> Held(d)
  BY <1>1, <1>4 DEF Held
<1>8. KeptInv'
  BY <1>1, <1>2, <1>7 DEF RecordsInv, KeptInv
<1>9. CursorInv' /\ service'.cursor >= service.cursor
  BY <1>1, <1>3 DEF RecordsInv, CursorInv
<1>10. CallsRead' /\ TranscriptRead'
  BY <1>1, <1>2, <1>6, <1>9, ReaderStands DEF Known
<1>. QED  BY <1>1, <1>6, <1>8, <1>9, <1>10 DEF RecordsInv

LEMMA CleanUpKeeps ==
  ASSUME RecordsInv, NEW before \in 1 .. MaxTime, CleanUp(before)
  PROVE  RecordsInv'
<1>. DEFINE RunsOut(c) == c \in ExpiredCalls(before) /\ calls[c].availability # "disabled"
<1>1. /\ calls' = [c \in RecordIds |-> IF RunsOut(c) THEN [calls[c] EXCEPT !.availability = "expired"] ELSE calls[c]]
      /\ copies' = [c \in RecordIds |-> IF copies[c] < before THEN 0 ELSE copies[c]]
      /\ fragments' = {f \in fragments : f.at >= before}
      /\ UNCHANGED <<service, reader>>
  BY DEF CleanUp
<1>2. /\ calls \in [RecordIds -> CallRecord] /\ fragments \subseteq Fragment /\ copies \in [RecordIds -> Nat]
      /\ before \in Nat /\ before # 0 /\ service.cursor \in Nat
  BY RecordsAssumption DEF RecordsInv, RecordTypes
<1>3. ASSUME NEW c \in RecordIds
      PROVE  /\ calls'[c] \in CallRecord /\ calls'[c].state = calls[c].state /\ calls'[c].created = calls[c].created
             /\ calls'[c].availability = IF RunsOut(c) THEN "expired" ELSE calls[c].availability
  <2>1. PICK e : e = [calls[c] EXCEPT !.availability = "expired"]
    OBVIOUS
  <2>2. e \in CallRecord /\ e.state = calls[c].state /\ e.created = calls[c].created /\ e.availability = "expired"
    BY <1>2, <2>1 DEF CallRecord
  <2>3. calls'[c] = IF RunsOut(c) THEN e ELSE calls[c]
    BY <1>1, <2>1
  <2>. HIDE DEF RunsOut
  <2>. QED  BY <1>2, <2>2, <2>3
<1>4. \A c \in RecordIds : copies'[c] \in Nat /\ copies'[c] = IF copies[c] < before THEN 0 ELSE copies[c]
  BY <1>1, <1>2
<1>5. Known' = Known
  BY <1>3 DEF Known
<1>6. RecordTypes'
  <2>1. calls' \in [RecordIds -> CallRecord] /\ copies' \in [RecordIds -> Nat]
    BY <1>1, <1>3, <1>4
  <2>2. fragments' \subseteq Fragment /\ IsFiniteSet(fragments')
    BY <1>1, <1>2, FS_Subset DEF RecordsInv, RecordTypes
  <2>. QED  BY <1>1, <1>5, <2>1, <2>2 DEF RecordsInv, RecordTypes
<1>7. ASSUME NEW c \in RecordIds, Held(c)'
      PROVE  Held(c)
  BY <1>1, <1>2, <1>4, <1>7 DEF Held
<1>8. ASSUME NEW c \in RecordIds, Held(c), c \notin ExpiredCalls(before)
      PROVE  Held(c)'
  <2>1. CASE copies[c] # 0
    <3>1. ~(copies[c] < before)
      BY <1>8, <2>1 DEF ExpiredCalls
    <3>. QED  BY <1>4, <2>1, <3>1 DEF Held
  <2>2. CASE \E f \in fragments : f.call = c
    <3>1. PICK f \in fragments : f.call = c
      BY <2>2
    <3>2. ~(f.at < before) /\ f.at \in Nat
      BY <1>2, <1>8, <3>1 DEF ExpiredCalls, Fragment
    <3>3. f \in fragments'
      BY <1>1, <1>2, <3>2
    <3>. QED  BY <3>1, <3>3 DEF Held
  <2>. QED  BY <1>8, <2>1, <2>2 DEF Held
<1>9. KeptInv'
  <2>1. ASSUME NEW c \in RecordIds, Held(c)'
        PROVE  calls'[c].state # "none" /\ calls'[c].availability \in {"available", "expired"}
    <3>1. calls[c].state # "none" /\ calls[c].availability \in {"available", "expired"}
      BY <1>7, <2>1 DEF RecordsInv, KeptInv
    <3>. HIDE DEF RunsOut
    <3>. QED  BY <1>3, <3>1
  <2>2. ASSUME NEW c \in RecordIds, calls'[c].availability = "available"
        PROVE  Held(c)'
    <3>1. calls[c].availability = "available" /\ ~RunsOut(c)
      <4>. HIDE DEF RunsOut
      <4>. QED  BY <1>3, <2>2
    <3>2. Held(c) /\ c \notin ExpiredCalls(before)
      BY <3>1 DEF RecordsInv, KeptInv
    <3>. QED  BY <1>8, <3>2
  <2>. QED  BY <2>1, <2>2 DEF KeptInv
<1>10. CursorInv' /\ service'.cursor >= service.cursor
  BY <1>1, <1>2 DEF RecordsInv, CursorInv
<1>11. /\ \A f \in fragments' : f \in fragments
       /\ \A c \in Known : calls'[c].created = calls[c].created /\ calls'[c].state # "none"
  BY <1>1, <1>3 DEF Known
<1>12. CallsRead' /\ TranscriptRead'
  BY <1>1, <1>6, <1>10, <1>11, ReaderStands
<1>. QED  BY <1>1, <1>6, <1>9, <1>10, <1>12 DEF RecordsInv

LEMMA ServiceKeeps ==
  ASSUME RecordsInv, \/ StopService \/ Recapture \/ TimePasses
                     \/ \E capture \in BOOLEAN : StartService(capture)
                     \/ \E c \in RecordIds : EndCall(c)
  PROVE  RecordsInv'
<1>1. /\ service \in [up : BOOLEAN, capture : BOOLEAN, now : Nat \ {0}, cursor : Nat \ {0}]
      /\ calls \in [RecordIds -> CallRecord]
  BY DEF RecordsInv, RecordTypes
<1>2. CASE StopService \/ Recapture
  <2>1. /\ service' \in [up : BOOLEAN, capture : BOOLEAN, now : Nat \ {0}, cursor : Nat \ {0}]
        /\ service'.cursor = service.cursor
    BY <1>1, <1>2 DEF StopService, Recapture
  <2>. QED  BY <1>1, <1>2, <2>1, SameKeeps DEF StopService, Recapture
<1>3. CASE TimePasses
  <2>1. service.now + 1 \in Nat \ {0}
    BY <1>1
  <2>2. /\ service' \in [up : BOOLEAN, capture : BOOLEAN, now : Nat \ {0}, cursor : Nat \ {0}]
        /\ service'.cursor = service.cursor
    BY <1>1, <1>3, <2>1 DEF TimePasses
  <2>. QED  BY <1>1, <1>3, <2>2, SameKeeps DEF TimePasses
<1>4. CASE \E capture \in BOOLEAN : StartService(capture)
  <2>1. PICK capture \in BOOLEAN : StartService(capture)
    BY <1>4
  <2>2. /\ service' \in [up : BOOLEAN, capture : BOOLEAN, now : Nat \ {0}, cursor : Nat \ {0}]
        /\ service'.cursor = service.cursor
    BY <1>1, <2>1 DEF StartService
  <2>3. ASSUME NEW c \in RecordIds
        PROVE  /\ calls'[c] \in CallRecord /\ calls'[c].created = calls[c].created
               /\ calls'[c].availability = calls[c].availability
               /\ calls'[c].state = "none" <=> calls[c].state = "none"
    <3>1. PICK e : e = [calls[c] EXCEPT !.state = "uncertain"]
      OBVIOUS
    <3>2. e \in CallRecord /\ e.state = "uncertain" /\ e.created = calls[c].created
          /\ e.availability = calls[c].availability
      BY <1>1, <3>1 DEF CallRecord
    <3>3. calls'[c] = IF calls[c].state = "connected" THEN e ELSE calls[c]
      BY <2>1, <3>1 DEF StartService
    <3>. QED  BY <1>1, <3>2, <3>3
  <2>4. calls' \in [RecordIds -> CallRecord]
    BY <2>1, <2>3 DEF StartService
  <2>. QED  BY <2>1, <2>2, <2>3, <2>4, SameKeeps DEF StartService
<1>5. CASE \E c \in RecordIds : EndCall(c)
  <2>1. PICK c \in RecordIds : EndCall(c)
    BY <1>5
  <2>2. PICK e : e = [calls[c] EXCEPT !.state = "ended"]
    OBVIOUS
  <2>3. e \in CallRecord /\ e.state = "ended" /\ e.created = calls[c].created
        /\ e.availability = calls[c].availability
    BY <1>1, <2>2 DEF CallRecord
  <2>4. calls' = [calls EXCEPT ![c] = e] /\ calls[c].state # "none" /\ UNCHANGED <<fragments, copies, service, reader>>
    BY <2>1, <2>2 DEF EndCall
  <2>5. /\ calls' \in [RecordIds -> CallRecord] /\ calls'[c] = e
        /\ \A d \in RecordIds \ {c} : calls'[d] = calls[d]
    BY <1>1, <2>3, <2>4
  <2>. QED  BY <1>1, <2>3, <2>4, <2>5, SameKeeps
<1>. QED  BY <1>2, <1>3, <1>4, <1>5

LEMMA OpenReaderKeeps ==
  ASSUME RecordsInv, NEW of \in {0} \cup RecordIds, OpenReader(of)
  PROVE  RecordsInv'
<1>1. PICK owed : owed = IF of = 0 THEN Known ELSE {f.cursor : f \in {g \in fragments : g.call = of}}
  OBVIOUS
<1>2. reader' = [NoReader EXCEPT !.of = of, !.state = "reading", !.owed = owed] /\ UNCHANGED <<calls, fragments, copies, service>>
  BY <1>1 DEF OpenReader
<1>3. owed \in SUBSET Nat
  <2>1. Known \subseteq Nat
    BY RecordsAssumption DEF Known
  <2>2. \A f \in fragments : f.cursor \in Nat
    BY DEF RecordsInv, RecordTypes, Fragment
  <2>. QED  BY <1>1, <2>1, <2>2
<1>4. /\ reader' \in Reader /\ reader'.of = of /\ reader'.state = "reading" /\ reader'.owed = owed
      /\ reader'.seen = {} /\ reader'.id = 0 /\ reader'.key = 0 /\ ~reader'.again
  BY <1>2, <1>3 DEF NoReader, Reader
<1>5. Known' = Known /\ \A c \in RecordIds : Held(c)' <=> Held(c)
  BY <1>2 DEF Known, Held
<1>6. RecordTypes' /\ KeptInv' /\ CursorInv'
  BY <1>2, <1>4, <1>5 DEF RecordsInv, RecordTypes, KeptInv, CursorInv
<1>7. CallsRead'
  BY <1>1, <1>4, <1>5 DEF CallsRead, After
<1>8. TranscriptRead'
  <2>1. CASE of = 0
    BY <1>4, <2>1 DEF TranscriptRead
  <2>2. CASE of # 0
    <3>1. \A f \in fragments : f.cursor \in Nat /\ f.cursor < service.cursor /\ f.cursor # 0
      <4>1. \A f \in fragments : f.cursor \in Nat \ {0} /\ f.cursor < service.cursor
        BY DEF RecordsInv, RecordTypes, Fragment, CursorInv
      <4>. QED  BY <4>1
    <3>2. \A n \in owed : \E f \in fragments : f.call = of /\ n = f.cursor
      BY <1>1, <2>2
    <3>3. \A n \in owed : n < service.cursor
      BY <3>1, <3>2
    <3>4. ASSUME NEW f \in fragments, f.cursor \in owed
          PROVE  f.call = of /\ ~(f.cursor <= 0)
      <4>1. PICK g \in fragments : g.call = of /\ f.cursor = g.cursor
        BY <3>2, <3>4
      <4>. QED  BY <3>1, <4>1 DEF RecordsInv, CursorInv
    <3>. QED  BY <1>2, <1>4, <3>3, <3>4 DEF TranscriptRead
  <2>. QED  BY <2>1, <2>2
<1>. QED  BY <1>4, <1>6, <1>7, <1>8 DEF RecordsInv

\* Who comes after fewer is on the page too.
LEMMA FewerBefore ==
  ASSUME NEW left, IsFiniteSet(left), NEW A \in SUBSET left, NEW B \in SUBSET A, Cardinality(A) < PageSize
  PROVE  Cardinality(B) < PageSize
<1>1. IsFiniteSet(A) /\ IsFiniteSet(B)
  BY FS_Subset
<1>2. Cardinality(A) \in Nat /\ Cardinality(B) \in Nat /\ Cardinality(B) <= Cardinality(A)
  BY <1>1, FS_Subset, FS_CardinalityType
<1>. QED  BY <1>2, RecordsAssumption

\* A page is read, none of which was seen before.
LEMMA ReadPageIs ==
  ASSUME RecordsInv, NEW page \in SUBSET Nat, NEW left, NEW key \in Nat, NEW id \in {0} \cup RecordIds,
         page \cap reader.seen = {}, ReadPage(page, left, key, id), reader.state = "reading"
  PROVE  /\ reader' \in Reader /\ reader'.of = reader.of /\ reader'.owed = reader.owed /\ ~reader'.again
         /\ reader'.key = key /\ reader'.id = id /\ reader'.seen = reader.seen \cup page
         /\ reader'.state = IF left = page THEN "done" ELSE "reading"
<1>1. reader \in Reader /\ ~reader.again
  BY DEF RecordsInv, RecordTypes
<1>2. PICK again \in BOOLEAN : again = (reader.again \/ page \cap reader.seen # {})
  OBVIOUS
<1>3. ~again
  BY <1>1, <1>2
<1>4. PICK state : state = IF left = page THEN "done" ELSE "reading"
  OBVIOUS
<1>5. state \in {"done", "reading"}
  BY <1>4
<1>6. PICK read : read = reader.seen \cup page
  OBVIOUS
<1>7. read \in SUBSET Nat
  BY <1>1, <1>6 DEF Reader
<1>8. reader' = [reader EXCEPT !.seen = read, !.again = again, !.key = key, !.id = id, !.state = state]
  BY <1>2, <1>4, <1>6 DEF ReadPage
<1>9. /\ reader' \in Reader /\ reader'.of = reader.of /\ reader'.owed = reader.owed /\ reader'.again = again
      /\ reader'.key = key /\ reader'.id = id /\ reader'.seen = read /\ reader'.state = state
  BY <1>1, <1>2, <1>5, <1>7, <1>8 DEF Reader
<1>. QED  BY <1>3, <1>4, <1>6, <1>9

LEMMA ReadTranscriptKeeps ==
  ASSUME RecordsInv, ReadTranscript
  PROVE  RecordsInv'
<1>1. PICK left : left = {f.cursor : f \in {g \in fragments : g.call = reader.of /\ g.cursor > reader.key}}
  OBVIOUS
<1>2. PICK page : page = {x \in left : Cardinality({y \in left : y < x}) < PageSize}
  OBVIOUS
<1>3. PICK last : last = IF page = {} THEN reader.key ELSE CHOOSE n \in page : \A m \in page : m <= n
  OBVIOUS
<1>4. /\ reader.state = "reading" /\ reader.of # 0 /\ ReadPage(page, left, last, 0)
      /\ UNCHANGED <<calls, fragments, copies, service>>
  BY <1>1, <1>2, <1>3 DEF ReadTranscript, FirstOf
<1>5. /\ reader.key \in Nat /\ service.cursor \in Nat /\ reader.seen \subseteq Nat /\ reader.owed \subseteq Nat
      /\ fragments \subseteq Fragment /\ IsFiniteSet(fragments)
  BY DEF RecordsInv, RecordTypes, Reader
<1>6. \A f \in fragments : f.cursor \in Nat /\ f.cursor < service.cursor
  BY <1>5 DEF RecordsInv, CursorInv, Fragment
<1>7. left \subseteq Nat /\ \A n \in left : n <= service.cursor /\ n > reader.key
  BY <1>1, <1>6, <1>5
<1>8. IsFiniteSet(left)
  <2>1. left \subseteq 0..service.cursor
    BY <1>5, <1>7
  <2>2. IsFiniteSet(0..service.cursor)
    BY <1>5, FS_Interval
  <2>. QED  BY <2>1, <2>2, FS_Subset
<1>9. page \subseteq left
  BY <1>2
<1>10. last \in Nat /\ last >= reader.key /\ (page # {} => last \in page) /\ \A m \in page : m <= last
  <2>1. CASE page = {}
    BY <1>3, <1>5, <2>1
  <2>2. CASE page # {}
    <3>1. \E n \in page : \A m \in page : m <= n
      BY <1>5, <1>7, <1>9, <2>2, Maximum
    <3>2. last \in page /\ \A m \in page : m <= last
      BY <1>3, <2>2, <3>1
    <3>. QED  BY <1>5, <1>7, <1>9, <3>2
  <2>. QED  BY <2>1, <2>2
<1>11. page \cap reader.seen = {}
  <2>1. \A n \in reader.seen : n <= reader.key
    BY <1>4 DEF RecordsInv, TranscriptRead
  <2>. QED  BY <1>5, <1>7, <1>9, <2>1
<1>12. /\ reader' \in Reader /\ reader'.of = reader.of /\ reader'.owed = reader.owed /\ ~reader'.again
       /\ reader'.key = last /\ reader'.seen = reader.seen \cup page
       /\ reader'.state = IF left = page THEN "done" ELSE "reading"
  BY <1>4, <1>7, <1>9, <1>10, <1>11, ReadPageIs
<1>13. Known' = Known /\ \A c \in RecordIds : Held(c)' <=> Held(c)
  BY <1>4 DEF Known, Held
<1>14. RecordTypes' /\ KeptInv' /\ CursorInv'
  BY <1>4, <1>12, <1>13 DEF RecordsInv, RecordTypes, KeptInv, CursorInv
<1>15. CallsRead'
  BY <1>4, <1>12 DEF CallsRead
<1>16. TranscriptRead'
  <2>1. /\ \A n \in reader.owed : n < service.cursor
        /\ \A n \in reader.seen : n <= reader.key
        /\ \A f \in fragments : f.cursor \in reader.owed =>
             /\ f.call = reader.of
             /\ f.cursor <= reader.key => f.cursor \in reader.seen
    BY <1>4 DEF RecordsInv, TranscriptRead
  <2>2. \A n \in reader'.seen : n <= last
    <3>1. \A n \in reader.seen : n <= last
      BY <1>5, <1>10, <2>1
    <3>. QED  BY <1>10, <1>12, <3>1
  <2>3. ASSUME NEW f \in fragments, f.cursor \in reader.owed, left = page \/ f.cursor <= last
        PROVE  f.cursor \in reader'.seen
    <3>1. CASE f.cursor <= reader.key
      BY <1>12, <2>1, <2>3, <3>1
    <3>2. CASE ~(f.cursor <= reader.key)
      <4>1. f.cursor \in left
        BY <1>1, <1>5, <1>6, <2>1, <2>3, <3>2
      <4>2. CASE left = page
        BY <1>12, <4>1, <4>2
      <4>3. CASE f.cursor <= last /\ left # page
        <5>1. page # {}
          <6>1. last # reader.key
            BY <1>5, <1>6, <1>10, <3>2, <4>3
          <6>. QED  BY <1>3, <6>1
        <5>2. PICK A \in SUBSET left : A = {y \in left : y < last} /\ Cardinality(A) < PageSize
          BY <1>2, <1>10, <5>1
        <5>3. PICK B \in SUBSET left : B = {y \in left : y < f.cursor}
          OBVIOUS
        <5>4. B \subseteq A
          <6>1. last \in Nat /\ f.cursor \in Nat /\ f.cursor <= last /\ \A y \in left : y \in Nat
            BY <1>6, <1>7, <1>10, <4>3
          <6>2. \A y \in left : y < f.cursor => y < last
            BY <6>1
          <6>. QED  BY <5>2, <5>3, <6>2
        <5>5. Cardinality(B) < PageSize
          BY <1>8, <5>2, <5>4, FewerBefore
        <5>6. f.cursor \in page
          BY <1>2, <4>1, <5>3, <5>5
        <5>. QED  BY <1>12, <5>6
      <4>. QED  BY <2>3, <4>2, <4>3
    <3>. QED  BY <3>1, <3>2
  <2>4. reader'.state = "done" => left = page
    BY <1>12
  <2>. QED  BY <1>4, <1>12, <2>1, <2>2, <2>3, <2>4 DEF TranscriptRead
<1>. QED  BY <1>12, <1>14, <1>15, <1>16 DEF RecordsInv

LEMMA OldestIs ==
  ASSUME RecordTypes, NEW S \in SUBSET RecordIds, S # {}
  PROVE  \E c \in S : \A d \in S \ {c} : ListedFirst(d, c)
<1>1. \A c \in S : calls[c].created \in Nat /\ c \in Nat
  BY RecordsAssumption DEF RecordTypes, CallRecord
<1>2. PICK m \in {calls[c].created : c \in S} : \A n \in {calls[c].created : c \in S} : m <= n
  <2>1. {calls[c].created : c \in S} \in SUBSET Nat /\ {calls[c].created : c \in S} # {}
    BY <1>1
  <2>. QED  BY <2>1, LeastNumber
<1>3. PICK c \in {d \in S : calls[d].created = m} : \A d \in {e \in S : calls[e].created = m} : c <= d
  <2>1. {d \in S : calls[d].created = m} \in SUBSET Nat /\ {d \in S : calls[d].created = m} # {}
    BY <1>1, <1>2
  <2>. QED  BY <2>1, LeastNumber
<1>4. c \in S /\ calls[c].created = m
  BY <1>3
<1>5. ASSUME NEW d \in S \ {c}
      PROVE  ListedFirst(d, c)
  <2>1. m <= calls[d].created /\ calls[d].created \in Nat /\ m \in Nat /\ d \in Nat /\ c \in Nat
    BY <1>1, <1>2, <1>4
  <2>2. calls[d].created = m => c <= d
    BY <1>3
  <2>. QED  BY <1>4, <2>1, <2>2 DEF ListedFirst
<1>. QED  BY <1>4, <1>5

LEMMA ReadCallsKeeps ==
  ASSUME RecordsInv, ReadCalls
  PROVE  RecordsInv'
<1>1. PICK left : left = {c \in Known : After(c)}
  OBVIOUS
<1>2. PICK page : page = {x \in left : Cardinality({y \in left : ListedFirst(y, x)}) < PageSize}
  OBVIOUS
<1>3. PICK last : last = IF page = {} THEN reader.id ELSE CHOOSE c \in page : \A d \in page \ {c} : ListedFirst(d, c)
  OBVIOUS
<1>4. PICK key : key = IF page = {} THEN reader.key ELSE calls[last].created
  OBVIOUS
<1>5. /\ reader.state = "reading" /\ reader.of = 0 /\ ReadPage(page, left, key, last)
      /\ UNCHANGED <<calls, fragments, copies, service>>
  <2>1. page = FirstOf(left, ListedFirst)
    BY <1>2 DEF FirstOf
  <2>. QED  BY <1>1, <1>3, <1>4, <2>1 DEF ReadCalls
<1>6. /\ reader.key \in Nat /\ reader.id \in {0} \cup RecordIds /\ IsFiniteSet(Known) /\ Known \subseteq RecordIds
      /\ RecordTypes
  <2>1. reader \in Reader /\ IsFiniteSet(Known) /\ RecordTypes
    BY DEF RecordsInv, RecordTypes
  <2>. QED  BY <2>1 DEF Reader, Known
<1>7. \A c \in Known : calls[c].created \in Nat /\ c \in Nat /\ c # 0
  BY <1>6, RecordsAssumption DEF RecordTypes, CallRecord
<1>8. left \subseteq Known /\ page \subseteq left /\ IsFiniteSet(left) /\ page \subseteq Nat
  BY <1>1, <1>2, <1>6, <1>7, FS_Subset
<1>9. page # {} => last \in page /\ \A d \in page \ {last} : ListedFirst(d, last)
  <2>1. page # {} => \E c \in page : \A d \in page \ {c} : ListedFirst(d, c)
    BY <1>6, <1>8, OldestIs
  <2>. QED  BY <1>3, <2>1
<1>10. key \in Nat /\ last \in {0} \cup RecordIds
  <2>1. CASE page = {}
    BY <1>3, <1>4, <1>6, <2>1
  <2>2. CASE page # {}
    BY <1>4, <1>6, <1>7, <1>8, <1>9, <2>2
  <2>. QED  BY <2>1, <2>2
<1>11. /\ reader.owed \subseteq Known /\ reader.seen \subseteq Known
       /\ \A c \in reader.seen : ~After(c)
       /\ \A c \in reader.owed : ~After(c) => c \in reader.seen
  BY <1>5 DEF RecordsInv, CallsRead
<1>12. page \cap reader.seen = {}
  BY <1>1, <1>8, <1>11
<1>13. /\ reader' \in Reader /\ reader'.of = reader.of /\ reader'.owed = reader.owed /\ ~reader'.again
       /\ reader'.key = key /\ reader'.id = last /\ reader'.seen = reader.seen \cup page
       /\ reader'.state = IF left = page THEN "done" ELSE "reading"
  BY <1>5, <1>8, <1>10, <1>12, ReadPageIs
<1>14. Known' = Known /\ \A c \in RecordIds : Held(c)' <=> Held(c)
  BY <1>5 DEF Known, Held
<1>15. RecordTypes' /\ KeptInv' /\ CursorInv'
  BY <1>5, <1>13, <1>14 DEF RecordsInv, RecordTypes, KeptInv, CursorInv
<1>16. TranscriptRead'
  BY <1>5, <1>13 DEF TranscriptRead
\* After the page come the calls that are older than its last.
<1>17. ASSUME NEW c \in Known
       PROVE  /\ page = {} => (After(c)' <=> After(c))
              /\ page # {} => (After(c)' <=> c # last /\ ListedFirst(last, c))
  <2>1. CASE page = {}
    BY <1>3, <1>4, <1>5, <1>13, <2>1 DEF After
  <2>2. CASE page # {}
    <3>1. last \in Known /\ last # 0 /\ key = calls[last].created
      BY <1>4, <1>7, <1>8, <1>9, <2>2
    <3>2. calls[c].created \in Nat /\ key \in Nat /\ c \in Nat /\ last \in Nat
      BY <1>7, <3>1
    <3>. QED  BY <1>5, <1>13, <2>2, <3>1, <3>2 DEF After, ListedFirst
  <2>. QED  BY <2>1, <2>2
<1>18. ASSUME NEW c \in reader'.seen
       PROVE  c \in Known /\ ~After(c)'
  <2>1. c \in Known
    BY <1>8, <1>11, <1>13
  <2>2. CASE page = {}
    BY <1>11, <1>13, <1>17, <2>1, <2>2
  <2>3. CASE page # {} /\ c \in page
    <3>1. c = last \/ ListedFirst(c, last)
      BY <1>9, <2>3
    <3>2. calls[c].created \in Nat /\ calls[last].created \in Nat /\ c \in Nat /\ last \in Nat
      BY <1>7, <1>8, <1>9, <2>1, <2>3
    <3>. QED  BY <1>17, <2>1, <2>3, <3>1, <3>2 DEF ListedFirst
  <2>4. CASE page # {} /\ c \in reader.seen
    <3>1. ~After(c) /\ After(last) /\ last \in Known
      BY <1>1, <1>8, <1>9, <1>11, <2>4
    <3>2. /\ calls[c].created \in Nat /\ calls[last].created \in Nat /\ c \in Nat /\ last \in Nat
      BY <1>7, <2>1, <3>1
    <3>4. reader.id \in Nat /\ reader.key \in Nat
      <4>1. {0} \cup RecordIds \subseteq Nat
        BY RecordsAssumption
      <4>2. reader.id \in {0} \cup RecordIds /\ reader.key \in Nat
        BY <1>6
      <4>. QED  BY <4>1, <4>2
    <3>3. ~ListedFirst(last, c)
      BY <3>1, <3>2, <3>4 DEF After, ListedFirst
    <3>. QED  BY <1>17, <2>1, <2>4, <3>3
  <2>. QED  BY <1>13, <2>2, <2>3, <2>4
<1>19. ASSUME NEW c \in reader.owed, left = page \/ ~After(c)'
       PROVE  c \in reader'.seen
  <2>1. c \in Known
    BY <1>11
  <2>2. CASE ~After(c)
    BY <1>11, <1>13, <2>2
  <2>3. CASE After(c)
    <3>1. c \in left
      BY <1>1, <2>1, <2>3
    <3>2. CASE left = page
      BY <1>13, <3>1, <3>2
    <3>3. CASE left # page
      <4>1. page # {} /\ ~After(c)'
        BY <1>17, <1>19, <2>1, <2>3, <3>3
      <4>2. c = last \/ ~ListedFirst(last, c)
        BY <1>17, <2>1, <4>1
      <4>3. last \in page /\ last \in Known
        BY <1>8, <1>9, <4>1
      <4>4. PICK A \in SUBSET left : A = {y \in left : ListedFirst(y, last)} /\ Cardinality(A) < PageSize
        BY <1>2, <4>3
      <4>5. PICK B \in SUBSET left : B = {y \in left : ListedFirst(y, c)}
        OBVIOUS
      <4>6. ASSUME NEW y \in left, ListedFirst(y, c)
            PROVE  ListedFirst(y, last)
        <5>1. /\ calls[c].created \in Nat /\ calls[last].created \in Nat /\ calls[y].created \in Nat
              /\ c \in Nat /\ last \in Nat /\ y \in Nat
          BY <1>7, <1>8, <2>1, <4>3
        <5>. QED  BY <4>2, <4>6, <5>1 DEF ListedFirst
      <4>7. Cardinality(B) < PageSize
        <5>1. B \subseteq A
          BY <4>4, <4>5, <4>6
        <5>. QED  BY <1>8, <4>4, <5>1, FewerBefore
      <4>8. c \in page
        BY <1>2, <3>1, <4>5, <4>7
      <4>. QED  BY <1>13, <4>8
    <3>. QED  BY <3>2, <3>3
  <2>. QED  BY <2>2, <2>3
<1>20. CallsRead'
  <2>1. reader'.state = "done" => left = page
    BY <1>13
  <2>. QED  BY <1>11, <1>13, <1>14, <1>18, <1>19, <2>1 DEF CallsRead
<1>. QED  BY <1>13, <1>15, <1>16, <1>20 DEF RecordsInv

LEMMA RecordsStep == RecordsInv /\ [RecordsNext]_recordVars => RecordsInv'
<1>. SUFFICES ASSUME RecordsInv, [RecordsNext]_recordVars
              PROVE  RecordsInv'
  OBVIOUS
<1>1. CASE UNCHANGED recordVars
  <2>1. UNCHANGED <<calls, fragments, copies, service, reader>>
    BY <1>1 DEF recordVars
  <2>. QED  BY <2>1, SameKeeps DEF RecordsInv, RecordTypes
<1>2. CASE RecordsNext
  BY <1>2, ServiceKeeps, CreateKeeps, AppendKeeps, DelegateKeeps, CleanUpKeeps, OpenReaderKeeps,
     ReadCallsKeeps, ReadTranscriptKeeps DEF RecordsNext
<1>. QED  BY <1>1, <1>2

LEMMA RecordsInvariance == RecordsSpec => []RecordsInv
BY RecordsInitial, RecordsStep, PTL DEF RecordsSpec

\* What is said of a transcript is what is kept of it, and a reader that follows the cursors
\* meets nothing twice and misses nothing that stays (index.ts prune, console.ts).
THEOREM RecordsTrue == RecordsSpec => []RecordsAreHonest
<1>1. RecordsInv => RecordsAreHonest
  <2>. SUFFICES ASSUME RecordsInv
                PROVE  RecordsAreHonest
    OBVIOUS
  <2>1. AvailabilityIsHonest
    BY DEF RecordsInv, KeptInv, AvailabilityIsHonest, Known
  <2>2. PagesMissNothing
    BY DEF RecordsInv, CallsRead, TranscriptRead, PagesMissNothing
  <2>. QED  BY <2>1, <2>2 DEF RecordsAreHonest
<1>. QED  BY <1>1, RecordsInvariance, PTL

-----------------------------------------------------------------------------
(* Sums *)

AnyOf(s) == CHOOSE x \in s : TRUE

\* sum has the sums of f over the sets of D, as the recursion takes them.
Sums(f, D, sum) ==
  \A s \in D : sum[s] = IF s = {} THEN 0 ELSE f[AnyOf(s)] + sum[s \ {AnyOf(s)}]

\* sum has the sums of f over the subsets of S.
SumsOf(f, S, sum) ==
  /\ sum[{}] = 0
  /\ \A T \in SUBSET S : sum[T] \in Nat /\ SumFunctionOnSet(f, T) = sum[T]
  /\ \A T \in SUBSET S : T # {} => sum[T] = f[AnyOf(T)] + sum[T \ {AnyOf(T)}]

LEMMA AnyOfIs ==
  ASSUME NEW s, s # {}, IsFiniteSet(s)
  PROVE  /\ AnyOf(s) \in s /\ IsFiniteSet(s \ {AnyOf(s)})
         /\ Cardinality(s) \in Nat /\ Cardinality(s \ {AnyOf(s)}) \in Nat
         /\ Cardinality(s \ {AnyOf(s)}) = Cardinality(s) - 1
<1>1. AnyOf(s) \in s
  BY DEF AnyOf
<1>. QED  BY <1>1, FS_RemoveElement, FS_CardinalityType

\* A least set of those that P's complement holds has every smaller subset outside it.
LEMMA LeastSet ==
  ASSUME NEW S, IsFiniteSet(S), NEW Bad \in SUBSET SUBSET S, Bad # {}
  PROVE  \E s \in Bad : \A t \in Bad : Cardinality(s) <= Cardinality(t)
<1>1. \A s \in Bad : Cardinality(s) \in Nat
  BY FS_Subset, FS_CardinalityType
<1>2. PICK N \in SUBSET Nat : N = {Cardinality(s) : s \in Bad}
  BY <1>1
<1>3. N # {}
  BY <1>2
<1>4. \E n \in N : \A m \in N : n <= m
  BY <1>3, LeastNumber
<1>. QED  BY <1>2, <1>4

LEMMA SumExists ==
  ASSUME NEW S, IsFiniteSet(S), NEW f, \A x \in S : f[x] \in Nat
  PROVE  \E sum \in [SUBSET S -> Nat] : Sums(f, SUBSET S, sum)
<1>. DEFINE Upto(n) == {s \in SUBSET S : Cardinality(s) <= n}
            Good(n) == \E sum \in [Upto(n) -> Nat] : Sums(f, Upto(n), sum)
            Bad == {n \in Nat : ~Good(n)}
<1>1. \A s \in SUBSET S : IsFiniteSet(s) /\ Cardinality(s) \in Nat /\ (Cardinality(s) = 0 <=> s = {})
  BY FS_Subset, FS_CardinalityType, FS_EmptySet
<1>2. Good(0)
  <2>1. PICK sum : sum = [s \in Upto(0) |-> 0]
    OBVIOUS
  <2>2. \A s \in Upto(0) : s = {}
    BY <1>1
  <2>3. sum \in [Upto(0) -> Nat]
    BY <2>1
  <2>4. Sums(f, Upto(0), sum)
    BY <2>1, <2>2 DEF Sums
  <2>. QED  BY <2>3, <2>4
<1>3. ASSUME NEW n \in Nat, Good(n)
      PROVE  Good(n + 1)
  <2>1. PICK g \in [Upto(n) -> Nat] : Sums(f, Upto(n), g)
    BY <1>3
  <2>2. PICK sum : sum = [s \in Upto(n + 1) |-> IF s = {} THEN 0 ELSE f[AnyOf(s)] + g[s \ {AnyOf(s)}]]
    OBVIOUS
  <2>3. ASSUME NEW s \in Upto(n + 1), s # {}
        PROVE  AnyOf(s) \in S /\ s \ {AnyOf(s)} \in Upto(n)
    <3>1. IsFiniteSet(s) /\ s \subseteq S
      BY <1>1
    <3>2. AnyOf(s) \in s /\ Cardinality(s \ {AnyOf(s)}) = Cardinality(s) - 1 /\ Cardinality(s) \in Nat
      BY <2>3, <3>1, AnyOfIs
    <3>3. Cardinality(s) - 1 <= n
      BY <3>2
    <3>. QED  BY <3>1, <3>2, <3>3
  <2>4. sum \in [Upto(n + 1) -> Nat]
    <3>1. ASSUME NEW s \in Upto(n + 1)
          PROVE  sum[s] \in Nat
      <4>1. CASE s = {}
        BY <2>2, <4>1
      <4>2. CASE s # {}
        <5>1. f[AnyOf(s)] \in Nat /\ g[s \ {AnyOf(s)}] \in Nat
          BY <2>1, <2>3, <4>2
        <5>2. sum[s] = f[AnyOf(s)] + g[s \ {AnyOf(s)}]
          BY <2>2, <4>2
        <5>. QED  BY <5>1, <5>2
      <4>. QED  BY <4>1, <4>2
    <3>. QED  BY <2>2, <3>1
  <2>5. ASSUME NEW s \in Upto(n)
        PROVE  s \in Upto(n + 1) /\ sum[s] = g[s]
    <3>1. s \in Upto(n + 1)
      BY <1>1
    <3>. QED  BY <2>1, <2>2, <3>1 DEF Sums
  <2>6. Sums(f, Upto(n + 1), sum)
    BY <2>2, <2>3, <2>5 DEF Sums
  <2>. QED  BY <2>4, <2>6
<1>4. Bad = {}
  <2>. SUFFICES ASSUME Bad # {} PROVE FALSE
    OBVIOUS
  <2>1. PICK n \in Bad : \A m \in Bad : n <= m
    BY LeastNumber
  <2>2. n \in Nat /\ ~Good(n) /\ n # 0
    <3>1. n \in Nat /\ ~Good(n)
      BY <2>1
    <3>. HIDE DEF Good
    <3>. QED  BY <1>2, <3>1
  <2>3. n - 1 \in Nat /\ n - 1 \notin Bad
    <3>1. n - 1 \in Nat /\ ~(n <= n - 1)
      BY <2>2
    <3>. QED  BY <2>1, <3>1, Zenon
  <2>4. Good(n - 1)
    BY <2>3
  <2>5. Good((n - 1) + 1)
    BY <1>3, <2>3, <2>4
  <2>6. (n - 1) + 1 = n
    BY <2>2
  <2>. QED  BY <2>2, <2>5, <2>6
<1>5. Good(Cardinality(S)) /\ Upto(Cardinality(S)) = SUBSET S
  <2>1. Cardinality(S) \in Nat
    BY FS_CardinalityType
  <2>2. \A s \in SUBSET S : Cardinality(s) <= Cardinality(S)
    BY FS_Subset
  <2>. QED  BY <1>4, <2>1, <2>2
<1>. QED  BY <1>5

\* The sums are what the recursion says, and those of a set serve its subsets.
LEMMA SumsAgree ==
  ASSUME NEW S, IsFiniteSet(S), NEW T \in SUBSET S, NEW f, NEW g, NEW h,
         Sums(f, SUBSET S, g), Sums(f, SUBSET T, h)
  PROVE  g[T] = h[T]
<1>. DEFINE Bad == {s \in SUBSET T : g[s] # h[s]}
<1>. SUFFICES ASSUME Bad # {} PROVE FALSE
  OBVIOUS
<1>1. PICK s \in Bad : \A t \in Bad : Cardinality(s) <= Cardinality(t)
  <2>1. IsFiniteSet(T) /\ Bad \in SUBSET SUBSET T
    BY FS_Subset
  <2>. HIDE DEF Bad
  <2>. QED  BY <2>1, LeastSet
<1>2. s \subseteq T /\ s \subseteq S /\ IsFiniteSet(s) /\ s # {}
  BY <1>1, FS_Subset DEF Sums
<1>3. /\ Cardinality(s) \in Nat /\ Cardinality(s \ {AnyOf(s)}) \in Nat
      /\ Cardinality(s \ {AnyOf(s)}) = Cardinality(s) - 1
  BY <1>2, AnyOfIs
<1>4. s \ {AnyOf(s)} \notin Bad
  BY <1>1, <1>3
<1>5. g[s \ {AnyOf(s)}] = h[s \ {AnyOf(s)}]
  BY <1>2, <1>4
<1>. QED  BY <1>1, <1>2, <1>5 DEF Sums

LEMMA SumIs ==
  ASSUME NEW S, IsFiniteSet(S), NEW f, \A x \in S : f[x] \in Nat
  PROVE  \E sum : SumsOf(f, S, sum)
<1>1. ASSUME NEW T, IsFiniteSet(T), \A x \in T : f[x] \in Nat
      PROVE  \E sum : Sums(f, SUBSET T, sum) /\ SumFunctionOnSet(f, T) = sum[T]
  <2>1. PICK g \in [SUBSET T -> Nat] : Sums(f, SUBSET T, g)
    BY <1>1, SumExists
  <2>2. g = [s \in SUBSET T |-> IF s = {} THEN 0 ELSE f[AnyOf(s)] + g[s \ {AnyOf(s)}]]
    BY <2>1 DEF Sums
  <2>3. PICK sum : sum = CHOOSE h : h = [s \in SUBSET T |-> IF s = {} THEN 0 ELSE f[AnyOf(s)] + h[s \ {AnyOf(s)}]]
    OBVIOUS
  <2>4. sum = [s \in SUBSET T |-> IF s = {} THEN 0 ELSE f[AnyOf(s)] + sum[s \ {AnyOf(s)}]]
    BY <2>2, <2>3, Zenon
  <2>5. SumFunctionOnSet(f, T) = sum[T]
    BY <2>3, Zenon DEF SumFunctionOnSet, FoldFunctionOnSet, MapThenFoldSet, AnyOf
  <2>6. Sums(f, SUBSET T, sum)
    BY <2>4 DEF Sums
  <2>. QED  BY <2>5, <2>6
<1>2. PICK sum \in [SUBSET S -> Nat] : Sums(f, SUBSET S, sum)
  BY SumExists
<1>3. ASSUME NEW T \in SUBSET S
      PROVE  SumFunctionOnSet(f, T) = sum[T]
  <2>1. IsFiniteSet(T)
    BY FS_Subset
  <2>2. PICK h : Sums(f, SUBSET T, h) /\ SumFunctionOnSet(f, T) = h[T]
    BY <1>1, <2>1
  <2>. QED  BY <1>2, <2>2, SumsAgree
<1>4. sum[{}] = 0 /\ \A T \in SUBSET S : T # {} => sum[T] = f[AnyOf(T)] + sum[T \ {AnyOf(T)}]
  BY <1>2 DEF Sums
<1>. QED  BY <1>2, <1>3, <1>4 DEF SumsOf

LEMMA SumOfNone ==
  ASSUME NEW f
  PROVE  SumFunctionOnSet(f, {}) = 0
<1>1. PICK sum : SumsOf(f, {}, sum)
  BY SumIs, FS_EmptySet
<1>. QED  BY <1>1 DEF SumsOf

LEMMA SumIsNumber ==
  ASSUME NEW S, IsFiniteSet(S), NEW f, \A x \in S : f[x] \in Nat
  PROVE  SumFunctionOnSet(f, S) \in Nat
BY SumIs DEF SumsOf

LEMMA SumAdds ==
  ASSUME NEW S, IsFiniteSet(S), NEW f, \A x \in S : f[x] \in Nat, NEW a \in S
  PROVE  SumFunctionOnSet(f, S) = SumFunctionOnSet(f, S \ {a}) + f[a]
<1>1. PICK sum : SumsOf(f, S, sum)
  BY SumIs
<1>2. PICK Bad \in SUBSET SUBSET S : Bad = {s \in SUBSET S : \E b \in s : sum[s] # sum[s \ {b}] + f[b]}
  OBVIOUS
<1>3. Bad = {}
  <2>. SUFFICES ASSUME Bad # {} PROVE FALSE
    OBVIOUS
  <2>1. PICK s \in Bad : \A t \in Bad : Cardinality(s) <= Cardinality(t)
    BY LeastSet
  <2>2. PICK b \in s : sum[s] # sum[s \ {b}] + f[b]
    BY <1>2, <2>1
  <2>3. PICK x : x = AnyOf(s)
    OBVIOUS
  <2>4. s \subseteq S /\ s # {} /\ IsFiniteSet(s)
    BY <2>1, <2>2, FS_Subset
  <2>5. x \in s /\ sum[s] = f[x] + sum[s \ {x}]
    BY <1>1, <2>3, <2>4, AnyOfIs DEF SumsOf
  <2>6. /\ f[x] \in Nat /\ f[b] \in Nat /\ sum[s \ {x}] \in Nat
        /\ s \ {x} \in SUBSET S /\ s \ {b} \in SUBSET S
    BY <1>1, <2>2, <2>4, <2>5 DEF SumsOf
  <2>7. x # b
    <3>1. ASSUME NEW i \in Nat, NEW j \in Nat
          PROVE  i + j = j + i
      OBVIOUS
    <3>2. f[x] + sum[s \ {x}] = sum[s \ {x}] + f[x]
      BY <2>6, <3>1
    <3>. QED  BY <2>2, <2>5, <3>2
  <2>8. /\ Cardinality(s) \in Nat
        /\ Cardinality(s \ {x}) = Cardinality(s) - 1 /\ Cardinality(s \ {b}) = Cardinality(s) - 1
    BY <2>2, <2>4, <2>5, FS_RemoveElement, FS_CardinalityType
  <2>9. s \ {x} \notin Bad /\ s \ {b} \notin Bad
    <3>1. ~(Cardinality(s) <= Cardinality(s) - 1)
      BY <2>8
    <3>. QED  BY <2>1, <2>8, <3>1
  <2>10. b \in s \ {x} /\ x \in s \ {b} /\ (s \ {x}) \ {b} = (s \ {b}) \ {x}
    BY <2>2, <2>5, <2>7
  <2>11. sum[s \ {x}] = sum[(s \ {x}) \ {b}] + f[b] /\ sum[s \ {b}] = sum[(s \ {x}) \ {b}] + f[x]
    BY <1>2, <2>6, <2>9, <2>10
  <2>12. sum[(s \ {x}) \ {b}] \in Nat
    BY <2>6, <1>1 DEF SumsOf
  <2>13. sum[s] = sum[s \ {b}] + f[b]
    BY <2>5, <2>6, <2>11, <2>12
  <2>. QED  BY <2>2, <2>13
<1>4. sum[S] = sum[S \ {a}] + f[a]
  BY <1>2, <1>3
<1>5. SumFunctionOnSet(f, S) = sum[S] /\ SumFunctionOnSet(f, S \ {a}) = sum[S \ {a}]
  <2>1. S \in SUBSET S /\ S \ {a} \in SUBSET S
    OBVIOUS
  <2>. QED  BY <1>1, <2>1 DEF SumsOf
<1>. QED  BY <1>4, <1>5

LEMMA SumOrdered ==
  ASSUME NEW S, IsFiniteSet(S), NEW f, NEW g, \A x \in S : f[x] \in Nat /\ g[x] \in Nat /\ f[x] <= g[x]
  PROVE  SumFunctionOnSet(f, S) <= SumFunctionOnSet(g, S)
<1>1. PICK low : SumsOf(f, S, low)
  BY SumIs
<1>2. PICK high : SumsOf(g, S, high)
  BY SumIs
<1>3. PICK Bad \in SUBSET SUBSET S : Bad = {s \in SUBSET S : ~(low[s] <= high[s])}
  OBVIOUS
<1>4. Bad = {}
  <2>. SUFFICES ASSUME Bad # {} PROVE FALSE
    OBVIOUS
  <2>1. PICK s \in Bad : \A t \in Bad : Cardinality(s) <= Cardinality(t)
    BY LeastSet
  <2>2. s \subseteq S /\ IsFiniteSet(s)
    BY <2>1, FS_Subset
  <2>3. s # {}
    <3>1. low[{}] <= high[{}]
      BY <1>1, <1>2 DEF SumsOf
    <3>. QED  BY <1>3, <2>1, <3>1
  <2>4. PICK x : x = AnyOf(s)
    OBVIOUS
  <2>5. x \in s /\ low[s] = f[x] + low[s \ {x}] /\ high[s] = g[x] + high[s \ {x}]
    BY <1>1, <1>2, <2>2, <2>3, <2>4, AnyOfIs DEF SumsOf
  <2>6. Cardinality(s) \in Nat /\ Cardinality(s \ {x}) = Cardinality(s) - 1
    BY <2>2, <2>5, FS_RemoveElement, FS_CardinalityType
  <2>7. s \ {x} \notin Bad
    <3>1. ~(Cardinality(s) <= Cardinality(s) - 1)
      BY <2>6
    <3>. QED  BY <2>1, <2>6, <3>1
  <2>8. s \ {x} \in SUBSET S
    BY <2>2
  <2>9. low[s \ {x}] <= high[s \ {x}] /\ low[s \ {x}] \in Nat /\ high[s \ {x}] \in Nat
    BY <1>1, <1>2, <1>3, <2>7, <2>8 DEF SumsOf
  <2>10. f[x] \in Nat /\ g[x] \in Nat /\ f[x] <= g[x]
    BY <2>2, <2>5
  <2>11. low[s] <= high[s]
    BY <2>5, <2>9, <2>10
  <2>. QED  BY <1>3, <2>1, <2>11
<1>. QED  BY <1>1, <1>2, <1>3, <1>4 DEF SumsOf

LEMMA SumOfUnion ==
  ASSUME NEW A, NEW B, IsFiniteSet(A), IsFiniteSet(B), A \cap B = {},
         NEW f, \A x \in A \cup B : f[x] \in Nat
  PROVE  SumFunctionOnSet(f, A \cup B) = SumFunctionOnSet(f, A) + SumFunctionOnSet(f, B)
<1>1. PICK S : S = A \cup B
  OBVIOUS
<1>2. IsFiniteSet(S) /\ \A x \in S : f[x] \in Nat
  BY <1>1, FS_Union
<1>3. PICK sum : SumsOf(f, S, sum)
  BY <1>2, SumIs
<1>4. PICK Bad \in SUBSET SUBSET B : Bad = {s \in SUBSET B : sum[A \cup s] # sum[A] + sum[s]}
  OBVIOUS
<1>5. sum[{}] = 0 /\ sum[A] \in Nat
  BY <1>1, <1>3 DEF SumsOf
<1>6. Bad = {}
  <2>. SUFFICES ASSUME Bad # {} PROVE FALSE
    OBVIOUS
  <2>1. PICK s \in Bad : \A t \in Bad : Cardinality(s) <= Cardinality(t)
    BY LeastSet
  <2>2. s \subseteq B /\ IsFiniteSet(s) /\ s \in SUBSET S /\ A \cup s \in SUBSET S
    BY <1>1, <2>1, FS_Subset
  <2>3. s # {}
    <3>1. A \cup {} = A /\ sum[A] + 0 = sum[A]
      BY <1>5
    <3>. QED  BY <1>4, <1>5, <2>1, <3>1
  <2>4. PICK x : x = AnyOf(s)
    OBVIOUS
  <2>5. x \in s /\ sum[s] = f[x] + sum[s \ {x}]
    BY <1>3, <2>2, <2>3, <2>4, AnyOfIs DEF SumsOf
  <2>6. Cardinality(s) \in Nat /\ Cardinality(s \ {x}) = Cardinality(s) - 1
    BY <2>2, <2>5, FS_RemoveElement, FS_CardinalityType
  <2>7. s \ {x} \notin Bad
    <3>1. ~(Cardinality(s) <= Cardinality(s) - 1)
      BY <2>6
    <3>. QED  BY <2>1, <2>6, <3>1
  <2>8. sum[A \cup (s \ {x})] = sum[A] + sum[s \ {x}]
    BY <1>4, <2>2, <2>7
  <2>9. (A \cup s) \ {x} = A \cup (s \ {x}) /\ x \in A \cup s /\ A \cup (s \ {x}) \in SUBSET S /\ s \ {x} \in SUBSET S
    BY <2>2, <2>5
  <2>10. SumFunctionOnSet(f, A \cup s) = SumFunctionOnSet(f, (A \cup s) \ {x}) + f[x]
    <3>1. IsFiniteSet(A \cup s) /\ \A y \in A \cup s : f[y] \in Nat
      BY <1>2, <2>2, FS_Subset
    <3>. QED  BY <2>9, <3>1, SumAdds
  <2>11. sum[A \cup s] = sum[A \cup (s \ {x})] + f[x]
    BY <1>3, <2>2, <2>9, <2>10 DEF SumsOf
  <2>12. f[x] \in Nat /\ sum[s \ {x}] \in Nat
    BY <1>2, <1>3, <2>2, <2>5, <2>9 DEF SumsOf
  <2>13. sum[A \cup s] = sum[A] + sum[s]
    BY <1>5, <2>5, <2>8, <2>11, <2>12
  <2>. QED  BY <1>4, <2>1, <2>13
<1>7. sum[S] = sum[A] + sum[B]
  BY <1>1, <1>4, <1>6
<1>8. SumFunctionOnSet(f, S) = sum[S] /\ SumFunctionOnSet(f, A) = sum[A] /\ SumFunctionOnSet(f, B) = sum[B]
  BY <1>1, <1>3 DEF SumsOf
<1>. QED  BY <1>1, <1>7, <1>8

-----------------------------------------------------------------------------
(* The usage *)

UsageSpec == UsageInit /\ [][UsageNext]_usageVars

Row == [day : Nat, zone : Zones, seconds : Nat, status : {"none", "reserved", "incomplete", "settled"}]
Ledger == [Spenders -> [state : {"none", "active", "ended"}, row : Row]]

RowsOf(l) == {c \in Spenders : l[c].row.status # "none"}
RowsOn(l, day) == {c \in RowsOf(l) : l[c].row.day = day}
SecondsOf(l) == [c \in Spenders |-> l[c].row.seconds]
CappedOf(l) == [c \in Spenders |-> IF l[c].row.seconds > MaxSeconds THEN MaxSeconds ELSE l[c].row.seconds]

\* Before a call is made it has no row, and until its seconds are known it counts at its maximum.
RowInv(l) ==
  \A c \in Spenders :
    /\ l[c].state = "none" => l[c].row.status = "none"
    /\ l[c].row.status \in {"reserved", "incomplete"} => l[c].row.seconds = MaxSeconds

BudgetInv(l) == \A day \in 1..LastDay : SumFunctionOnSet(CappedOf(l), RowsOn(l, day)) <= DailySeconds

LedgerInv(l) == l \in Ledger /\ IsFiniteSet(RowsOf(l)) /\ RowInv(l) /\ BudgetInv(l)
UsageInv == LedgerInv(ledger) /\ clock \in [today : Nat, zone : Zones]

\* No row counts for more than its seconds, nor for more than the maximum.
LEMMA CappedIs ==
  ASSUME NEW l \in Ledger, NEW c \in Spenders
  PROVE  /\ CappedOf(l)[c] \in Nat /\ CappedOf(l)[c] <= MaxSeconds /\ CappedOf(l)[c] <= l[c].row.seconds
         /\ SecondsOf(l)[c] = l[c].row.seconds /\ l[c].row.seconds \in Nat /\ l[c].row.day \in Nat
         /\ l[c].row.seconds <= MaxSeconds => CappedOf(l)[c] = l[c].row.seconds
<1>1. l[c].row.seconds \in Nat /\ l[c].row.day \in Nat
  BY DEF Ledger, Row
<1>2. CappedOf(l)[c] = IF l[c].row.seconds > MaxSeconds THEN MaxSeconds ELSE l[c].row.seconds
  BY DEF CappedOf
<1>3. MaxSeconds \in Nat
  BY UsageAssumption
<1>. QED  BY <1>1, <1>2, <1>3 DEF SecondsOf

LEMMA RowsOnIs ==
  ASSUME NEW l \in Ledger, IsFiniteSet(RowsOf(l)), NEW day
  PROVE  IsFiniteSet(RowsOn(l, day)) /\ RowsOn(l, day) \subseteq RowsOf(l) /\ RowsOn(l, day) \subseteq Spenders
<1>1. RowsOn(l, day) \subseteq RowsOf(l) /\ RowsOf(l) \subseteq Spenders
  BY DEF RowsOn, RowsOf
<1>. QED  BY <1>1, FS_Subset

\* A row that is made within what is left of its day's budget.
LEMMA ReservedKeeps ==
  ASSUME NEW l, LedgerInv(l), NEW m \in Ledger, NEW c \in Spenders, NEW today,
         \A d \in Spenders \ {c} : m[d] = l[d],
         l[c].state = "none",
         m[c].state = "active", m[c].row.day = today, m[c].row.seconds = MaxSeconds, m[c].row.status = "reserved",
         SumFunctionOnSet(SecondsOf(l), RowsOn(l, today)) + MaxSeconds <= DailySeconds
  PROVE  LedgerInv(m)
<1>1. /\ l \in Ledger /\ IsFiniteSet(RowsOf(l)) /\ RowInv(l) /\ BudgetInv(l)
      /\ MaxSeconds \in Nat /\ DailySeconds \in Nat
  BY UsageAssumption DEF LedgerInv
<1>2. c \notin RowsOf(l) /\ RowsOf(m) = RowsOf(l) \cup {c}
  BY <1>1 DEF RowInv, RowsOf
<1>3. IsFiniteSet(RowsOf(m))
  BY <1>1, <1>2, FS_AddElement
<1>4. RowInv(m)
  BY <1>1 DEF RowInv
<1>5. ASSUME NEW day \in 1..LastDay
      PROVE  SumFunctionOnSet(CappedOf(m), RowsOn(m, day)) <= DailySeconds
  <2>1. PICK S : S = RowsOn(l, day)
    OBVIOUS
  <2>2. IsFiniteSet(S) /\ S \subseteq Spenders \ {c}
    BY <1>1, <1>2, <2>1, RowsOnIs
  <2>3. \A d \in S : /\ CappedOf(m)[d] \in Nat /\ CappedOf(l)[d] \in Nat /\ SecondsOf(l)[d] \in Nat
                     /\ CappedOf(m)[d] = CappedOf(l)[d] /\ CappedOf(m)[d] <= SecondsOf(l)[d]
    <3>1. ASSUME NEW d \in S
          PROVE  CappedOf(m)[d] = CappedOf(l)[d]
      BY <2>2 DEF CappedOf
    <3>2. ASSUME NEW d \in S
          PROVE  CappedOf(l)[d] \in Nat /\ SecondsOf(l)[d] \in Nat /\ CappedOf(l)[d] <= SecondsOf(l)[d]
      BY <1>1, <2>2, CappedIs
    <3>. QED  BY <3>1, <3>2
  <2>4. CASE day # today
    <3>1. RowsOn(m, day) = S
      BY <1>2, <2>1, <2>4 DEF RowsOn, RowsOf
    <3>2. \A d \in S : CappedOf(m)[d] <= CappedOf(l)[d]
      BY <2>3
    <3>3. SumFunctionOnSet(CappedOf(m), S) <= SumFunctionOnSet(CappedOf(l), S)
      BY <2>2, <2>3, <3>2, SumOrdered
    <3>4. SumFunctionOnSet(CappedOf(m), S) \in Nat /\ SumFunctionOnSet(CappedOf(l), S) \in Nat
      BY <2>2, <2>3, SumIsNumber
    <3>5. SumFunctionOnSet(CappedOf(l), S) <= DailySeconds
      BY <1>1, <2>1 DEF BudgetInv
    <3>. QED  BY <1>1, <3>1, <3>3, <3>4, <3>5
  <2>5. CASE day = today
    <3>1. RowsOn(m, day) = S \cup {c} /\ c \notin S
      BY <1>2, <2>1, <2>2, <2>5 DEF RowsOn, RowsOf
    <3>2. CappedOf(m)[c] = MaxSeconds
      BY <1>1, CappedIs
    <3>3. SumFunctionOnSet(CappedOf(m), S \cup {c}) = SumFunctionOnSet(CappedOf(m), S) + MaxSeconds
      <4>1. IsFiniteSet(S \cup {c}) /\ (S \cup {c}) \ {c} = S /\ c \in S \cup {c}
        BY <2>2, <3>1, FS_AddElement
      <4>2. \A d \in S \cup {c} : CappedOf(m)[d] \in Nat
        BY <1>1, <2>3, <3>2
      <4>. QED  BY <3>2, <4>1, <4>2, SumAdds
    <3>4. SumFunctionOnSet(CappedOf(m), S) <= SumFunctionOnSet(SecondsOf(l), S)
      BY <2>2, <2>3, SumOrdered
    <3>5. SumFunctionOnSet(CappedOf(m), S) \in Nat /\ SumFunctionOnSet(SecondsOf(l), S) \in Nat
      BY <2>2, <2>3, SumIsNumber
    <3>6. SumFunctionOnSet(SecondsOf(l), S) + MaxSeconds <= DailySeconds
      BY <2>1, <2>5
    <3>. QED  BY <1>1, <3>1, <3>3, <3>4, <3>5, <3>6
  <2>. QED  BY <2>4, <2>5
<1>. QED  BY <1>3, <1>4, <1>5 DEF LedgerInv, BudgetInv

\* A row that counted at the maximum and is settled, or a call that goes on without one.
LEMMA SettledKeeps ==
  ASSUME NEW l, LedgerInv(l), NEW m \in Ledger, NEW c \in Spenders,
         \A d \in Spenders \ {c} : m[d] = l[d],
         m[c].state = "ended", m[c].row.day = l[c].row.day,
         m[c].row.status = "none" <=> l[c].row.status = "none",
         CappedOf(m)[c] <= CappedOf(l)[c],
         m[c].row.status \in {"reserved", "incomplete"} => m[c].row.seconds = MaxSeconds
  PROVE  LedgerInv(m)
<1>1. /\ l \in Ledger /\ IsFiniteSet(RowsOf(l)) /\ RowInv(l) /\ BudgetInv(l) /\ DailySeconds \in Nat
  BY UsageAssumption DEF LedgerInv
<1>2. RowsOf(m) = RowsOf(l) /\ \A day : RowsOn(m, day) = RowsOn(l, day)
  BY DEF RowsOf, RowsOn
<1>3. RowInv(m)
  BY <1>1 DEF RowInv
<1>4. ASSUME NEW d \in Spenders
      PROVE  CappedOf(m)[d] \in Nat /\ CappedOf(l)[d] \in Nat /\ CappedOf(m)[d] <= CappedOf(l)[d]
  <2>1. CappedOf(m)[d] \in Nat /\ CappedOf(l)[d] \in Nat
    BY <1>1, CappedIs
  <2>2. d # c => CappedOf(m)[d] = CappedOf(l)[d]
    BY DEF CappedOf
  <2>. QED  BY <2>1, <2>2
<1>5. ASSUME NEW day \in 1..LastDay
      PROVE  SumFunctionOnSet(CappedOf(m), RowsOn(m, day)) <= DailySeconds
  <2>1. PICK S : S = RowsOn(l, day)
    OBVIOUS
  <2>2. IsFiniteSet(S) /\ S \subseteq Spenders
    BY <1>1, <2>1, RowsOnIs
  <2>3. SumFunctionOnSet(CappedOf(m), S) <= SumFunctionOnSet(CappedOf(l), S)
    BY <1>4, <2>2, SumOrdered
  <2>4. SumFunctionOnSet(CappedOf(m), S) \in Nat /\ SumFunctionOnSet(CappedOf(l), S) \in Nat
    BY <1>4, <2>2, SumIsNumber
  <2>5. SumFunctionOnSet(CappedOf(l), S) <= DailySeconds
    BY <1>1, <2>1 DEF BudgetInv
  <2>. QED  BY <1>1, <1>2, <2>1, <2>3, <2>4, <2>5
<1>. QED  BY <1>1, <1>2, <1>3, <1>5 DEF LedgerInv, BudgetInv

LEMMA UsageInitial == UsageInit => UsageInv
<1>. SUFFICES ASSUME UsageInit
              PROVE  UsageInv
  OBVIOUS
<1>1. PICK z \in Zones : clock = [today |-> 1, zone |-> z]
  BY DEF UsageInit
<1>2. NoRow \in Row /\ NoRow.status = "none"
  <2>1. (CHOOSE y \in Zones : TRUE) \in Zones
    BY <1>1
  <2>. QED  BY <2>1 DEF NoRow, Row
<1>3. ledger = [c \in Spenders |-> [state |-> "none", row |-> NoRow]]
  BY DEF UsageInit
<1>4. /\ ledger \in Ledger
      /\ \A c \in Spenders : ledger[c].state = "none" /\ ledger[c].row.status = "none"
  BY <1>2, <1>3 DEF Ledger
<1>5. RowsOf(ledger) = {} /\ \A day : RowsOn(ledger, day) = {}
  BY <1>4 DEF RowsOf, RowsOn
<1>6. RowInv(ledger) /\ IsFiniteSet(RowsOf(ledger))
  BY <1>4, <1>5, FS_EmptySet DEF RowInv
<1>7. BudgetInv(ledger)
  BY <1>5, SumOfNone, UsageAssumption DEF BudgetInv
<1>. QED  BY <1>1, <1>4, <1>6, <1>7 DEF UsageInv, LedgerInv

LEMMA ReserveKeeps ==
  ASSUME UsageInv, NEW c \in Spenders, Reserve(c)
  PROVE  UsageInv'
<1>1. /\ ledger \in Ledger /\ LedgerInv(ledger) /\ RowInv(ledger)
      /\ clock \in [today : Nat, zone : Zones] /\ MaxSeconds \in Nat
  BY UsageAssumption DEF UsageInv, LedgerInv
<1>2. ledger[c].state = "none" /\ ledger[c].row \in Row /\ ledger[c].row.status = "none"
  BY <1>1 DEF Reserve, Ledger, RowInv
<1>3. CASE Admissible
  <2>1. PICK r : r = [day |-> clock.today, zone |-> clock.zone, seconds |-> MaxSeconds, status |-> "reserved"]
    OBVIOUS
  <2>2. r \in Row /\ r.day = clock.today /\ r.seconds = MaxSeconds /\ r.status = "reserved"
    BY <1>1, <2>1 DEF Row
  <2>3. ledger' = [ledger EXCEPT ![c] = [state |-> "active", row |-> r]]
    BY <1>3, <2>1 DEF Reserve
  <2>4. /\ ledger' \in Ledger /\ ledger'[c].state = "active" /\ ledger'[c].row = r
        /\ \A d \in Spenders \ {c} : ledger'[d] = ledger[d]
    BY <1>1, <2>2, <2>3 DEF Ledger
  <2>5. SumFunctionOnSet(SecondsOf(ledger), RowsOn(ledger, clock.today)) + MaxSeconds <= DailySeconds
    BY <1>3 DEF Admissible, Used, Seconds, SecondsOf, RowsOn, Rows, RowsOf
  <2>6. LedgerInv(ledger')
    BY <1>1, <1>2, <2>2, <2>4, <2>5, ReservedKeeps
  <2>7. clock' \in [today : Nat, zone : Zones]
    BY <1>1 DEF Reserve
  <2>. QED  BY <2>6, <2>7 DEF UsageInv
<1>4. CASE ~Admissible
  <2>1. PICK e : e = [ledger[c] EXCEPT !.state = "ended"]
    OBVIOUS
  <2>2. ledger' = [ledger EXCEPT ![c] = e]
    BY <1>4, <2>1 DEF Reserve
  <2>3. /\ e \in [state : {"none", "active", "ended"}, row : Row]
        /\ e.state = "ended" /\ e.row = ledger[c].row
    BY <1>1, <2>1 DEF Ledger
  <2>4. /\ ledger' \in Ledger /\ ledger'[c] = e
        /\ \A d \in Spenders \ {c} : ledger'[d] = ledger[d]
    BY <1>1, <2>2, <2>3 DEF Ledger
  <2>5. CappedOf(ledger')[c] = CappedOf(ledger)[c]
    BY <2>3, <2>4 DEF CappedOf
  <2>6. CappedOf(ledger')[c] <= CappedOf(ledger)[c]
    BY <1>1, <2>5, CappedIs
  <2>7. LedgerInv(ledger')
    BY <1>1, <1>2, <2>3, <2>4, <2>6, SettledKeeps
  <2>8. clock' \in [today : Nat, zone : Zones]
    BY <1>1 DEF Reserve
  <2>. QED  BY <2>7, <2>8 DEF UsageInv
<1>. QED  BY <1>3, <1>4

LEMMA SettleRowKeeps ==
  ASSUME UsageInv, NEW c \in Spenders, NEW known \in BOOLEAN, NEW seconds \in 0..(MaxSeconds + 1),
         Settle(c, known, seconds)
  PROVE  UsageInv'
<1>1. /\ ledger \in Ledger /\ LedgerInv(ledger) /\ RowInv(ledger)
      /\ clock \in [today : Nat, zone : Zones] /\ MaxSeconds \in Nat
  BY UsageAssumption DEF UsageInv, LedgerInv
<1>2. ledger[c].row \in Row /\ ledger[c].row.status \in {"reserved", "incomplete"} /\ ledger[c].row.seconds = MaxSeconds
  BY <1>1 DEF Settle, Ledger, RowInv
<1>3. PICK n : n = IF known THEN seconds ELSE ledger[c].row.seconds
  OBVIOUS
<1>4. PICK s : s = IF known THEN "settled" ELSE "incomplete"
  OBVIOUS
<1>5. n \in Nat /\ s \in {"settled", "incomplete"} /\ (s = "incomplete" => n = MaxSeconds)
  BY <1>1, <1>2, <1>3, <1>4
<1>6. PICK r : r = [ledger[c].row EXCEPT !.seconds = n, !.status = s]
  OBVIOUS
<1>7. r \in Row /\ r.day = ledger[c].row.day /\ r.seconds = n /\ r.status = s
  BY <1>2, <1>5, <1>6 DEF Row
<1>8. ledger' = [ledger EXCEPT ![c].state = "ended", ![c].row.seconds = n, ![c].row.status = s]
  BY <1>3, <1>4 DEF Settle
<1>9. /\ ledger' \in Ledger /\ ledger'[c].state = "ended" /\ ledger'[c].row = r
      /\ \A d \in Spenders \ {c} : ledger'[d] = ledger[d]
  <2>1. PICK e : e = [ledger[c] EXCEPT !.state = "ended", !.row.seconds = n, !.row.status = s]
    OBVIOUS
  <2>2. ledger[c] \in [state : {"none", "active", "ended"}, row : Row]
    BY <1>1 DEF Ledger
  <2>3. e.state = "ended" /\ e.row = r /\ e \in [state : {"none", "active", "ended"}, row : Row]
    BY <1>6, <1>7, <2>1, <2>2
  <2>4. ledger' = [ledger EXCEPT ![c] = e]
    BY <1>1, <1>8, <2>1 DEF Ledger
  <2>. QED  BY <1>1, <2>3, <2>4 DEF Ledger
<1>10. CappedOf(ledger')[c] <= CappedOf(ledger)[c]
  <2>1. CappedOf(ledger)[c] = MaxSeconds
    BY <1>1, <1>2, CappedIs
  <2>2. CappedOf(ledger')[c] <= MaxSeconds
    BY <1>9, CappedIs
  <2>. QED  BY <2>1, <2>2
<1>11. LedgerInv(ledger')
  BY <1>1, <1>2, <1>5, <1>7, <1>9, <1>10, SettledKeeps
<1>12. clock' \in [today : Nat, zone : Zones]
  BY <1>1 DEF Settle
<1>. QED  BY <1>11, <1>12 DEF UsageInv

LEMMA UsageStep == UsageInv /\ [UsageNext]_usageVars => UsageInv'
<1>. SUFFICES ASSUME UsageInv, [UsageNext]_usageVars
              PROVE  UsageInv'
  OBVIOUS
<1>1. ASSUME NEW c \in Spenders, Reserve(c)
      PROVE  UsageInv'
  BY <1>1, ReserveKeeps
<1>2. ASSUME NEW c \in Spenders, NEW seconds \in 0..(MaxSeconds + 1), NEW known \in BOOLEAN, Settle(c, known, seconds)
      PROVE  UsageInv'
  BY <1>2, SettleRowKeeps
<1>3. ASSUME UNCHANGED ledger, clock' \in [today : Nat, zone : Zones]
      PROVE  UsageInv'
  BY <1>3 DEF UsageInv
<1>4. clock \in [today : Nat, zone : Zones]
  BY DEF UsageInv
<1>5. CASE Midnight
  BY <1>3, <1>4, <1>5 DEF Midnight
<1>6. ASSUME NEW z \in Zones, Rezone(z)
      PROVE  UsageInv'
  BY <1>3, <1>4, <1>6 DEF Rezone
<1>7. CASE UNCHANGED usageVars
  BY <1>3, <1>4, <1>7 DEF usageVars
<1>. QED  BY <1>1, <1>2, <1>5, <1>6, <1>7 DEF UsageNext

LEMMA UsageInvariance == UsageSpec => []UsageInv
BY UsageInitial, UsageStep, PTL DEF UsageSpec

\* The overview's three sums are one day's use, in parts.
LEMMA ShownIsUsed ==
  ASSUME UsageInv
  PROVE  /\ Shown("settled", clock.today) + Shown("reserved", clock.today) + Shown("unknown", clock.today)
              = Used(clock.today)
         /\ \A status \in {"settled", "reserved", "unknown"} : Shown(status, clock.today) \in Nat
<1>1. ledger \in Ledger /\ IsFiniteSet(RowsOf(ledger)) /\ clock.today \in Nat
  BY DEF UsageInv, LedgerInv
<1>2. PICK S : S = RowsOn(ledger, clock.today)
  OBVIOUS
<1>3. PICK f : f = SecondsOf(ledger)
  OBVIOUS
<1>4. IsFiniteSet(S) /\ S \subseteq Spenders /\ \A c \in S : f[c] \in Nat
  <2>1. IsFiniteSet(S) /\ S \subseteq Spenders
    BY <1>1, <1>2, RowsOnIs
  <2>. QED  BY <1>1, <1>3, <2>1, CappedIs
<1>. DEFINE Part(s) == {c \in S : ShownAs(ledger[c].row.status) = s}
<1>5. \A s : Shown(s, clock.today) = SumFunctionOnSet(f, Part(s))
  <2>1. ASSUME NEW s
        PROVE  {c \in Rows : ledger[c].row.day \in clock.today..clock.today /\ ShownAs(ledger[c].row.status) = s} = Part(s)
    <3>1. Rows = RowsOf(ledger) /\ Rows \subseteq Spenders
      BY DEF Rows, RowsOf
    <3>2. \A c \in Spenders : ledger[c].row.day \in clock.today..clock.today <=> ledger[c].row.day = clock.today
      BY <1>1, CappedIs
    <3>. QED  BY <1>2, <3>1, <3>2 DEF RowsOn
  <2>. QED  BY <1>3, <2>1 DEF Shown, Seconds, SecondsOf
<1>6. Used(clock.today) = SumFunctionOnSet(f, S)
  BY <1>2, <1>3 DEF Used, Seconds, SecondsOf, RowsOn, Rows, RowsOf
<1>7. \A s : IsFiniteSet(Part(s)) /\ \A c \in Part(s) : f[c] \in Nat
  BY <1>4, FS_Subset
<1>8. /\ Part("settled") \cap Part("reserved") = {}
      /\ (Part("settled") \cup Part("reserved")) \cap Part("unknown") = {}
      /\ Part("settled") \cup Part("reserved") \cup Part("unknown") = S
  BY DEF ShownAs
<1>9. PICK A, B, C : A = Part("settled") /\ B = Part("reserved") /\ C = Part("unknown")
  OBVIOUS
<1>10. /\ IsFiniteSet(A) /\ IsFiniteSet(B) /\ IsFiniteSet(C) /\ IsFiniteSet(A \cup B)
       /\ \A c \in A \cup B \cup C : f[c] \in Nat
  BY <1>7, <1>9, FS_Union
<1>11. A \cap B = {} /\ (A \cup B) \cap C = {} /\ A \cup B \cup C = S
  BY <1>8, <1>9
<1>12. SumFunctionOnSet(f, A \cup B) = SumFunctionOnSet(f, A) + SumFunctionOnSet(f, B)
  BY <1>10, <1>11, SumOfUnion
<1>13. SumFunctionOnSet(f, S) = SumFunctionOnSet(f, A \cup B) + SumFunctionOnSet(f, C)
  BY <1>10, <1>11, SumOfUnion
<1>14. /\ Shown("settled", clock.today) = SumFunctionOnSet(f, A)
       /\ Shown("reserved", clock.today) = SumFunctionOnSet(f, B)
       /\ Shown("unknown", clock.today) = SumFunctionOnSet(f, C)
  BY <1>5, <1>9
<1>15. SumFunctionOnSet(f, A) \in Nat /\ SumFunctionOnSet(f, B) \in Nat /\ SumFunctionOnSet(f, C) \in Nat
  BY <1>10, SumIsNumber
<1>. QED  BY <1>6, <1>12, <1>13, <1>14, <1>15

\* A day's budget holds through reservations, settlements late or absent, midnights and changes
\* of the zone, and the console shows what a call can still reserve (index.ts reserveUsage,
\* settleUsage, console.ts overview).
THEOREM BudgetKept == UsageSpec => []BudgetHolds
<1>1. UsageInv => BudgetHolds
  <2>. SUFFICES ASSUME UsageInv
                PROVE  BudgetHolds
    OBVIOUS
  <2>1. WithinBudget
    BY DEF UsageInv, LedgerInv, BudgetInv, WithinBudget, CappedOf, RowsOn, RowsOf, Rows
  <2>2. RemainingIsAdmissible
    <3>1. PICK a, b, c : /\ a = Shown("settled", clock.today) /\ b = Shown("reserved", clock.today)
                         /\ c = Shown("unknown", clock.today)
      OBVIOUS
    <3>2. a \in Nat /\ b \in Nat /\ c \in Nat /\ Used(clock.today) = a + b + c
      BY <3>1, ShownIsUsed
    <3>3. Remaining = IF DailySeconds - a - b - c > 0 THEN DailySeconds - a - b - c ELSE 0
      BY <3>1 DEF Remaining
    <3>4. MaxSeconds \in Nat \ {0} /\ DailySeconds \in Nat
      BY UsageAssumption
    <3>5. Remaining >= MaxSeconds <=> Used(clock.today) + MaxSeconds <= DailySeconds
      BY <3>2, <3>3, <3>4
    <3>. QED  BY <3>5 DEF RemainingIsAdmissible, Admissible
  <2>. QED  BY <2>1, <2>2 DEF BudgetHolds
<1>. QED  BY <1>1, UsageInvariance, PTL
=============================================================================
