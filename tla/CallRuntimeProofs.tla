------------------------- MODULE CallRuntimeProofs -------------------------
(***************************************************************************)
(* Proofs about the coordinator, for every set of calls and of legs.       *)
(*                                                                         *)
(* Every turn of the event loop writes the row, the Active object and the  *)
(* continuations of one call at most (Turn).  So each action is shown to   *)
(* be such a turn and to keep the invariant of its own call (CallInv);     *)
(* OthersKept says that it keeps that of the others.  Most actions end in  *)
(* stop(), whose effect is worked out once (Stopped, StopKeeps).           *)
(***************************************************************************)
EXTENDS CallRuntime, TLAPS

\* The platform has been asked for a leg.
Dialled == {"platform", "returned", "failed"}

\* Until then a call has no object, no leg of its own is awaited and no money
\* is spent.
BeforeDial(c) ==
  /\ start[c] = "none" <=> phase[c] = Absent
  /\ start[c] \notin Dialled =>
       /\ active # c
       /\ phase[c] \in {Absent, "requested", "ended"}
       /\ object[c].ref = NoRef /\ ~object[c].stopping
       /\ object[c].live = "none" /\ object[c].timer = "off"
       /\ ~liveReady[c] /\ stop[c] = "none" /\ c \notin endTask
  /\ start[c] \in {"none", "queued"} => usage[c] = "none"
  /\ start[c] = "preflight" => usage[c] = "reserved"
  /\ start[c] = "over" => usage[c] \in {"none", "zero"}

\* Afterwards it holds the slot until it is stored as ended; one that lost it
\* and one a shutdown found are being given up.
SlotInv(c) ==
  start[c] \in Dialled =>
    /\ mine[c] \in Refs
    /\ phase[c] \in CallState \ {"requested"}
    /\ active = c <=> phase[c] # "ended"
    /\ active # c \/ serving # "open" => object[c].stopping

\* A reference other than its own leg's reaches the object only with its end.
LegInv(c) ==
  start[c] \in Dialled =>
    /\ ~object[c].stopping => object[c].ref \in {NoRef, mine[c]}
    /\ start[c] = "returned" =>
         /\ object[c].ref = mine[c]
         /\ object[c].stopping => mine[c] \in asked \/ leg[mine[c]] = "gone"
    /\ ~StrayEnds /\ phase[c] = "ended" => leg[mine[c]] = "gone"

\* An object being given up has no open session and no timer.
LiveInv(c) ==
  /\ object[c].live \in {"started", "greeting", "greeted"} =>
       ~object[c].stopping /\ object[c].ref # NoRef
  /\ object[c].live \in {"closing", "final"} => object[c].stopping
  /\ object[c].timer # "off" \/ stop[c] # "none" => start[c] \in Dialled
  /\ object[c].timer # "off" => ~object[c].stopping
  /\ stop[c] # "none" => object[c].stopping
  /\ liveReady[c] => /\ phase[c] = "connected"
                     /\ object[c].live \in {"greeting", "greeted"}

\* While a session is open the usage is untouched; only its end meters it.
UsageInv(c) ==
  start[c] \in Dialled =>
    /\ object[c].live = "none" => usage[c] \in {"reserved", "zero", "incomplete"}
    /\ object[c].live = "none" /\ ~object[c].stopping => usage[c] = "reserved"
    /\ object[c].live \in {"started", "greeting", "greeted", "closing"} =>
         usage[c] = "reserved"
    /\ object[c].live = "final" => usage[c] \in {"metered", "incomplete"}

CallInv(c) ==
  BeforeDial(c) /\ SlotInv(c) /\ LegInv(c) /\ LiveInv(c) /\ UsageInv(c)

OneUnfinished == \A c, d \in Unfinished : c = d

IInv == TypeOK /\ OneUnfinished /\ \A c \in CallIds : CallInv(c)

-----------------------------------------------------------------------------
(* One turn *)

\* What a turn leaves alone of call d.
Rest(d) ==
  /\ phase'[d] = phase[d] /\ liveReady'[d] = liveReady[d] /\ usage'[d] = usage[d]
  /\ object'[d] = object[d] /\ start'[d] = start[d] /\ stop'[d] = stop[d]
  /\ mine'[d] = mine[d]
  /\ d \in endTask' => d \in endTask
  /\ (active' = d) <=> (active = d)
  /\ active = d => ((serving' = "open") <=> (serving = "open"))

\* Requests to end a leg are not taken back, and a leg that is gone stays so.
Platform ==
  /\ asked \subseteq asked'
  /\ \A r \in Refs : leg[r] = "gone" => leg'[r] = "gone"

\* The states a turn may take a call through.
Reaches(s, t) == s = t \/ Allowed(s, t)

Turn(c) ==
  /\ \A d \in CallIds \ {c} : Rest(d)
  /\ Platform
  /\ \/ Reaches(phase[c], phase'[c])
     \/ Unfinished = {} /\ phase[c] = Absent /\ phase'[c] = "requested"

LEMMA OthersKept ==
  ASSUME TypeOK, NEW d \in CallIds, CallInv(d), Rest(d), Platform
  PROVE  CallInv(d)'
<1>. USE DEF Rest
<1>1. BeforeDial(d)'
  BY DEF CallInv, BeforeDial
<1>2. SlotInv(d)'
  BY DEF CallInv, SlotInv
<1>3. LegInv(d)'
  BY DEF CallInv, LegInv, SlotInv, Platform
<1>4. LiveInv(d)'
  BY DEF CallInv, LiveInv
<1>5. UsageInv(d)'
  BY DEF CallInv, UsageInv
<1>. QED  BY <1>1, <1>2, <1>3, <1>4, <1>5 DEF CallInv

LEMMA ReachesFacts ==
  ASSUME NEW s, NEW t, Reaches(s, t)
  PROVE  /\ s = Absent => t = Absent
         /\ s = "ended" => t = "ended"
         /\ s \in CallState => t \in CallState
  BY DEF Reaches, Allowed, Absent, CallState

\* A turn is one step of the life of calls, and keeps all there is.
LEMMA TurnKeeps ==
  ASSUME IInv, NEW c \in CallIds, Turn(c), TypeOK', CallInv(c)'
  PROVE  IInv'
<1>1. \A d \in CallIds : CallInv(d)'
  BY OthersKept DEF IInv, Turn
<1>2. OneUnfinished'
  <2>1. CASE Reaches(phase[c], phase'[c])
    <3>1. Unfinished' \subseteq Unfinished
      BY <2>1, ReachesFacts DEF Turn, Rest, Unfinished
    <3>. QED  BY <3>1 DEF IInv, OneUnfinished
  <2>2. CASE Unfinished = {}
    <3>1. Unfinished' \subseteq {c}
      BY <2>2 DEF Turn, Rest, Unfinished
    <3>. QED  BY <3>1 DEF OneUnfinished
  <2>. QED  BY <2>1, <2>2 DEF Turn
<1>. QED  BY <1>1, <1>2 DEF IInv

LEMMA TurnRefines ==
  ASSUME TypeOK, NEW c \in CallIds, Turn(c), TypeOK'
  PROVE  [Lifecycle!Next]_phase
<1>1. phase' = [phase EXCEPT ![c] = phase'[c]]
  BY DEF TypeOK, Turn, Rest
<1>2. CASE Reaches(phase[c], phase'[c])
  <2>1. CASE phase'[c] = phase[c]
    BY <1>1, <2>1 DEF TypeOK
  <2>2. CASE Allowed(phase[c], phase'[c])
    <3>1. phase'[c] \in Lifecycle!CallState
      BY <2>2 DEF Allowed, CallState, Lifecycle!CallState
    <3>2. Lifecycle!Allowed(phase[c], phase'[c])
      BY <2>2 DEF Allowed, CallState, Lifecycle!Allowed, Lifecycle!CallState
    <3>. QED  BY <1>1, <3>1, <3>2 DEF Lifecycle!Next, Lifecycle!Move
  <2>. QED  BY <1>2, <2>1, <2>2 DEF Reaches
<1>3. CASE Unfinished = {} /\ phase[c] = Absent /\ phase'[c] = "requested"
  BY <1>1, <1>3 DEF Lifecycle!Next, Lifecycle!Admit, Lifecycle!Unfinished, Unfinished,
     Lifecycle!Absent, Absent
<1>. QED  BY <1>2, <1>3 DEF Turn

-----------------------------------------------------------------------------
(* What the handlers share *)

LEMMA SafeFacts ==
  ASSUME NEW s \in CallState, NEW t \in CallState
  PROVE  /\ Safe(s, t) \in {s, t}
         /\ Reaches(s, Safe(s, t))
  BY DEF Safe, Reaches

LEMMA HaltedFacts ==
  ASSUME NEW o \in Object
  PROVE  /\ Halted(o) \in Object
         /\ Halted(o).ref = o.ref /\ Halted(o).stopping
         /\ Halted(o).timer = "off"
         /\ o.live = "none" => Halted(o).live = "none"
         /\ o.live \in {"started", "greeting", "greeted", "closing"} =>
              Halted(o).live = "closing"
         /\ o.live = "final" => Halted(o).live = "final"
  BY DEF Halted, Object

LEMMA SettleFacts ==
  ASSUME NEW u, NEW what
  PROVE  /\ u \notin {"zero", "metered"} => Settle(u, what) = what
         /\ u = what => Settle(u, what) = what
  BY DEF Settle

\* Put, value by value.
LEMMA PutFacts ==
  ASSUME TypeOK, NEW c \in CallIds, NEW s \in CallState, NEW o \in Object, Put(c, s, o)
  PROVE  /\ phase'[c] = s /\ object'[c] = o
         /\ liveReady'[c] => liveReady[c] /\ s \notin Quiescent
         /\ \A d \in CallIds \ {c} : /\ phase'[d] = phase[d] /\ object'[d] = object[d]
                                     /\ liveReady'[d] = liveReady[d]
         /\ phase' \in [CallIds -> CallState \cup {Absent}]
         /\ liveReady' \in [CallIds -> BOOLEAN]
         /\ object' \in [CallIds -> Object]
<1>1. phase'[c] = s /\ object'[c] = o
  BY DEF TypeOK, Put
<1>2. liveReady'[c] = (liveReady[c] /\ s \notin Quiescent)
  BY Zenon DEF TypeOK, Put
<1>3. \A d \in CallIds \ {c} : /\ phase'[d] = phase[d] /\ object'[d] = object[d]
                               /\ liveReady'[d] = liveReady[d]
  BY DEF TypeOK, Put
<1>4. /\ phase' \in [CallIds -> CallState \cup {Absent}]
      /\ object' \in [CallIds -> Object]
  BY DEF TypeOK, Put
<1>5. liveReady' \in [CallIds -> BOOLEAN]
  <2>1. liveReady' = [liveReady EXCEPT ![c] = liveReady[c] /\ s \notin Quiescent]
    BY Zenon DEF Put
  <2>2. (liveReady[c] /\ s \notin Quiescent) \in BOOLEAN
    OBVIOUS
  <2>. QED  BY <2>1, <2>2 DEF TypeOK
<1>. QED  BY <1>1, <1>2, <1>3, <1>4, <1>5

\* The variables stop() writes, of the other calls and as a whole.
StopsOnly(c) ==
  /\ \A d \in CallIds \ {c} :
       /\ phase'[d] = phase[d] /\ object'[d] = object[d] /\ liveReady'[d] = liveReady[d]
       /\ usage'[d] = usage[d] /\ stop'[d] = stop[d]
  /\ phase' \in [CallIds -> CallState \cup {Absent}]
  /\ liveReady' \in [CallIds -> BOOLEAN]
  /\ object' \in [CallIds -> Object]
  /\ usage' \in [CallIds -> Usage]
  /\ stop' \in [CallIds -> {"none", "ending", "shutdown"}]
  /\ asked \subseteq asked' /\ asked' \subseteq Refs

\* What stop() makes of call c: given up once, and a leg that is known asked
\* to end; only a call without one and without a session loses its budget.
StoppedAs(c, s, o) ==
  /\ object'[c].stopping /\ object'[c].ref = o.ref
  /\ o.stopping => /\ phase'[c] = s /\ object'[c] = o /\ usage'[c] = usage[c]
                   /\ stop'[c] = stop[c]
                   /\ liveReady'[c] => liveReady[c]
  /\ ~o.stopping =>
       /\ phase'[c] \in {"ending", "uncertain"} /\ Reaches(s, phase'[c])
       /\ object'[c] = Halted(o)
       /\ ~liveReady'[c]
       /\ o.ref # NoRef => o.ref \in asked'
       /\ \/ usage'[c] = usage[c]
          \/ o.live = "none" /\ usage'[c] = Settle(usage[c], "incomplete")

LEMMA Stopped ==
  ASSUME TypeOK, NEW c \in CallIds, NEW s \in CallState \ {"requested"}, NEW o \in Object,
         NEW why \in {"known", "unknown", "shutdown"},
         s = "ended" => o.stopping,
         StopCall(c, s, o, why)
  PROVE  StopsOnly(c) /\ StoppedAs(c, s, o)
<1>. DEFINE t == Safe(s, IF why = "known" THEN "ending" ELSE "uncertain")
<1>1. CASE o.stopping
  <2>1. Put(c, s, o) /\ UNCHANGED <<usage, stop, asked>>
    BY <1>1 DEF StopCall
  <2>. QED  BY <1>1, <2>1, PutFacts DEF StopsOnly, StoppedAs, TypeOK
<1>2. CASE ~o.stopping
  <2>1. s \in Established \cup {"ending", "uncertain"}
    BY <1>2 DEF CallState, Established
  <2>2. t \in {"ending", "uncertain"} /\ Reaches(s, t)
    BY <2>1 DEF Safe, Reaches, Allowed, Established, CallState
  <2>3. Safe(t, "uncertain") \in {"ending", "uncertain"} /\ Reaches(s, Safe(t, "uncertain"))
    BY <2>1, <2>2 DEF Safe, Reaches, Allowed, Established, CallState
  <2>4. CASE o.ref = NoRef
    <3>1. /\ Put(c, Safe(t, "uncertain"), Halted(o))
          /\ usage' = [usage EXCEPT ![c] = IF o.live # "none" THEN @ ELSE Settle(@, "incomplete")]
          /\ UNCHANGED <<stop, asked>>
      BY <1>2, <2>1, <2>4 DEF StopCall, StopWithoutRef, Established
    <3>2. Settle(usage[c], "incomplete") \in Usage
      BY DEF Settle, Usage
    <3>3. usage' \in [CallIds -> Usage] /\ \A d \in CallIds \ {c} : usage'[d] = usage[d]
      BY <3>1, <3>2 DEF TypeOK
    <3>4. \/ usage'[c] = usage[c]
          \/ o.live = "none" /\ usage'[c] = Settle(usage[c], "incomplete")
      BY <3>1 DEF TypeOK
    <3>5. ~liveReady'[c]
      BY <2>3, <3>1, PutFacts, HaltedFacts DEF Quiescent, CallState
    <3>6. /\ phase'[c] = Safe(t, "uncertain") /\ object'[c] = Halted(o)
          /\ \A d \in CallIds \ {c} : /\ phase'[d] = phase[d] /\ object'[d] = object[d]
                                      /\ liveReady'[d] = liveReady[d]
          /\ phase' \in [CallIds -> CallState \cup {Absent}]
          /\ liveReady' \in [CallIds -> BOOLEAN]
          /\ object' \in [CallIds -> Object]
      BY <2>3, <3>1, PutFacts, HaltedFacts DEF CallState
    <3>7. StopsOnly(c)
      BY <3>1, <3>3, <3>6 DEF StopsOnly, TypeOK
    <3>8. StoppedAs(c, s, o)
      BY <1>2, <2>3, <2>4, <3>4, <3>5, <3>6, HaltedFacts DEF StoppedAs
    <3>. QED  BY <3>7, <3>8
  <2>5. CASE o.ref # NoRef
    <3>1. /\ Put(c, t, Halted(o))
          /\ stop' = [stop EXCEPT ![c] = IF why = "shutdown" THEN "shutdown" ELSE "ending"]
          /\ asked' = asked \cup {o.ref}
          /\ usage' = usage
      BY <1>2, <2>5 DEF StopCall, StopByRef
    <3>2. o.ref \in Refs
      BY <2>5 DEF Object
    <3>3. ~liveReady'[c]
      BY <2>2, <3>1, PutFacts, HaltedFacts DEF Quiescent, CallState
    <3>4. /\ phase'[c] = t /\ object'[c] = Halted(o)
          /\ \A d \in CallIds \ {c} : /\ phase'[d] = phase[d] /\ object'[d] = object[d]
                                      /\ liveReady'[d] = liveReady[d]
          /\ phase' \in [CallIds -> CallState \cup {Absent}]
          /\ liveReady' \in [CallIds -> BOOLEAN]
          /\ object' \in [CallIds -> Object]
      BY <2>2, <3>1, PutFacts, HaltedFacts DEF CallState
    <3>5. StopsOnly(c)
      BY <3>1, <3>2, <3>4 DEF StopsOnly, TypeOK
    <3>6. StoppedAs(c, s, o)
      BY <1>2, <2>2, <2>5, <3>1, <3>3, <3>4, HaltedFacts DEF StoppedAs
    <3>. QED  BY <3>5, <3>6
  <2>. QED  BY <2>4, <2>5
<1>. QED  BY <1>1, <1>2

LEMMA ReachesTransitive ==
  ASSUME NEW s, NEW t, NEW u, Reaches(s, t), Reaches(t, u)
  PROVE  Reaches(s, u)
<1>1. CASE s = t \/ t = u
  BY <1>1
<1>2. CASE Allowed(s, t) /\ Allowed(t, u)
  BY <1>2 DEF Reaches, Allowed, CallState
<1>. QED  BY <1>1, <1>2 DEF Reaches

\* Whatever the turn learnt about call c before, stop() leaves it in order.
LEMMA StopKeeps ==
  ASSUME IInv, NEW c \in CallIds, start[c] \in Dialled,
         NEW s \in CallState \ {"requested"}, NEW o \in Object,
         NEW why \in {"known", "unknown", "shutdown"},
         Reaches(phase[c], s), s = "ended" => phase[c] = "ended",
         o.stopping = object[c].stopping,
         \/ o.live = object[c].live
         \/ object[c].live = "none" /\ o.live = "started" /\ ~o.stopping,
         ~o.stopping => o.ref \in {NoRef, mine[c]},
         start[c] = "returned" => o.ref = mine[c],
         o.stopping => o.timer = "off",
         StopCall(c, s, o, why),
         start'[c] \in Dialled, start'[c] = "returned" => start[c] = "returned",
         UNCHANGED <<active, leg, mine>>
  PROVE  StopsOnly(c) /\ Platform /\ CallInv(c)' /\ Reaches(phase[c], phase'[c])
<1>. USE DEF IInv
<1>1. s = "ended" => o.stopping
  BY DEF CallInv, SlotInv
<1>2. StopsOnly(c) /\ StoppedAs(c, s, o)
  BY <1>1, Stopped
<1>3. Reaches(phase[c], phase'[c])
  <2>1. Reaches(s, phase'[c])
    BY <1>2 DEF StoppedAs, Reaches
  <2>. QED  BY <2>1, ReachesTransitive
<1>4. Platform
  BY <1>2 DEF StopsOnly, Platform
<1>5. o.stopping => ~liveReady[c]
  BY DEF CallInv, LiveInv
<1>6. ~liveReady'[c]
  BY <1>2, <1>5 DEF StoppedAs
<1>7. /\ phase'[c] \in CallState \ {"requested"}
      /\ phase'[c] = "ended" <=> phase[c] = "ended"
      /\ phase'[c] # Absent /\ phase[c] # Absent
  <2>1. phase[c] = "ended" => s = "ended"
    BY ReachesFacts
  <2>2. phase[c] \in CallState
    BY DEF CallInv, SlotInv
  <2>. QED  BY <1>1, <1>2, <2>1, <2>2 DEF StoppedAs, CallState, Absent
<1>8. BeforeDial(c)'
  BY <1>7 DEF BeforeDial, Dialled
<1>9. SlotInv(c)'
  BY <1>2, <1>7 DEF SlotInv, CallInv, StoppedAs
<1>10. LegInv(c)'
  BY <1>2, <1>7, NoRefAssumption DEF LegInv, SlotInv, CallInv, StoppedAs, StopsOnly
<1>11. /\ object'[c].stopping /\ object'[c].timer = "off"
       /\ o.live = "none" => object'[c].live = "none"
       /\ o.live = "final" => object'[c].live = "final"
       /\ o.live \notin {"none", "final"} => object'[c].live = "closing"
  <2>1. CASE o.stopping
    <3>1. object'[c] = o
      BY <1>2, <2>1 DEF StoppedAs
    <3>2. o.live \in {"none", "closing", "final"}
      <4>1. LiveInv(c)
        BY DEF CallInv
      <4>2. o.live \in {"none", "started", "greeting", "greeted", "closing", "final"}
        BY DEF Object
      <4>. QED  BY <2>1, <4>1, <4>2 DEF LiveInv
    <3>. QED  BY <2>1, <3>1, <3>2
  <2>2. CASE ~o.stopping
    <3>1. object'[c] = Halted(o)
      BY <1>2, <2>2 DEF StoppedAs
    <3>. QED  BY <3>1, HaltedFacts DEF Object
  <2>. QED  BY <2>1, <2>2
<1>12. LiveInv(c)'
  BY <1>6, <1>11 DEF LiveInv, Object
<1>13. UsageInv(c)'
  <2>1. /\ object[c].live = "none" => usage[c] \in {"reserved", "zero", "incomplete"}
        /\ object[c].live = "none" /\ ~object[c].stopping => usage[c] = "reserved"
        /\ object[c].live \in {"started", "greeting", "greeted", "closing"} =>
             usage[c] = "reserved"
        /\ object[c].live = "final" => usage[c] \in {"metered", "incomplete"}
    BY DEF CallInv, UsageInv
  <2>2. CASE usage'[c] = usage[c]
    BY <1>11, <2>1, <2>2 DEF UsageInv, Object
  <2>3. CASE ~o.stopping /\ o.live = "none" /\ usage'[c] = Settle(usage[c], "incomplete")
    <3>1. usage'[c] = "incomplete"
      BY <2>1, <2>3 DEF Settle
    <3>. QED  BY <1>11, <2>3, <3>1 DEF UsageInv
  <2>. QED  BY <1>2, <2>2, <2>3 DEF StoppedAs
<1>. QED  BY <1>2, <1>3, <1>4, <1>8, <1>9, <1>10, <1>12, <1>13 DEF CallInv

\* stop() on the call as it stands.
LEMMA StopAsItStands ==
  ASSUME IInv, NEW c \in CallIds, start[c] \in Dialled,
         NEW why \in {"known", "unknown", "shutdown"},
         StopCall(c, phase[c], object[c], why),
         start'[c] \in Dialled, start'[c] = "returned" => start[c] = "returned",
         UNCHANGED <<active, leg, mine>>
  PROVE  StopsOnly(c) /\ Platform /\ CallInv(c)' /\ Reaches(phase[c], phase'[c])
<1>1. phase[c] \in CallState \ {"requested"} /\ object[c] \in Object
  BY DEF IInv, TypeOK, CallInv, SlotInv
<1>2. Reaches(phase[c], phase[c])
  BY DEF Reaches
<1>3. /\ ~object[c].stopping => object[c].ref \in {NoRef, mine[c]}
      /\ start[c] = "returned" => object[c].ref = mine[c]
      /\ object[c].stopping => object[c].timer = "off"
  BY <1>1 DEF IInv, CallInv, LegInv, LiveInv
<1>. QED  BY <1>1, <1>2, <1>3, StopKeeps

\* How a turn that ends in stop() is put together.
LEMMA StopTurn ==
  ASSUME IInv, NEW c \in CallIds,
         StopsOnly(c), Platform, CallInv(c)', Reaches(phase[c], phase'[c]),
         UNCHANGED <<paused, active, leg, mine>>,
         endTask' \subseteq endTask, channel' \in BOOLEAN,
         serving' \in {"open", "closing", "disposed"},
         serving' = serving \/ active = c,
         start' \in [CallIds -> Start],
         \A d \in CallIds \ {c} : start'[d] = start[d]
  PROVE  Turn(c) /\ TypeOK' /\ CallInv(c)'
<1>1. Turn(c)
  BY DEF Turn, Rest, StopsOnly
<1>2. TypeOK'
  BY DEF TypeOK, StopsOnly, IInv
<1>. QED  BY <1>1, <1>2

\* beginLive(), after audioReady or connected.
LEMMA BeginLiveKeeps ==
  ASSUME IInv, NEW c \in CallIds, start[c] \in Dialled, active = c,
         NEW s \in CallState \ {"requested", "ended"}, NEW o \in Object,
         Reaches(phase[c], s), s \in Quiescent => ~liveReady[c],
         o.stopping = object[c].stopping, o.live = object[c].live,
         o.ref = mine[c], o.stopping => o.timer = "off",
         BeginLive(c, s, o),
         UNCHANGED <<paused, active, start, endTask, serving, channel, leg, mine>>
  PROVE  Turn(c) /\ TypeOK' /\ CallInv(c)'
<1>. USE DEF IInv
<1>0. mine[c] \in Refs /\ mine[c] # NoRef /\ c # NoCall
  BY NoRefAssumption, NoCallAssumption DEF CallInv, SlotInv
<1>1. ASSUME NEW q \in Object, q.stopping = o.stopping, q.ref = o.ref, q.timer = o.timer,
             \/ q.live = o.live
             \/ o.live = "none" /\ q.live = "started" /\ ~o.stopping,
             liveReady[c] => q.live = o.live,
             Put(c, s, q), UNCHANGED <<usage, stop, asked>>
      PROVE  Turn(c) /\ TypeOK' /\ CallInv(c)'
  <2>1. /\ phase'[c] = s /\ object'[c] = q
        /\ liveReady'[c] => liveReady[c] /\ s \notin Quiescent
        /\ \A d \in CallIds \ {c} : /\ phase'[d] = phase[d] /\ object'[d] = object[d]
                                    /\ liveReady'[d] = liveReady[d]
        /\ phase' \in [CallIds -> CallState \cup {Absent}]
        /\ liveReady' \in [CallIds -> BOOLEAN]
        /\ object' \in [CallIds -> Object]
    BY <1>1, PutFacts
  <2>2. Turn(c)
    BY <1>1, <2>1 DEF Turn, Rest, Platform
  <2>3. TypeOK'
    BY <1>1, <2>1 DEF TypeOK
  <2>4. BeforeDial(c)' /\ SlotInv(c)' /\ LegInv(c)'
    BY <1>0, <1>1, <2>1 DEF BeforeDial, SlotInv, LegInv, CallInv, CallState, Absent, Dialled
  <2>5. LiveInv(c)'
    <3>1. liveReady'[c] => s = "connected"
      BY <2>1 DEF CallInv, LiveInv, Reaches, Allowed, CallState, Quiescent
    <3>. QED  BY <1>0, <1>1, <2>1, <3>1 DEF LiveInv, CallInv
  <2>6. UsageInv(c)'
    BY <1>1, <2>1 DEF UsageInv, CallInv
  <2>. QED  BY <2>2, <2>3, <2>4, <2>5, <2>6 DEF CallInv
<1>2. CASE ~CanBeginLive(c, s, o)
  <2>1. Put(c, s, o) /\ UNCHANGED <<usage, stop, asked>>
    BY <1>2 DEF BeginLive
  <2>. QED  BY <1>1, <2>1
<1>3. CASE CanBeginLive(c, s, o)
  <2>1. ~o.stopping /\ o.live = "none"
    BY <1>3 DEF CanBeginLive
  <2>2. CASE Put(c, s, [o EXCEPT !.live = "started"]) /\ UNCHANGED <<usage, stop, asked>>
    <3>1. /\ [o EXCEPT !.live = "started"] \in Object
          /\ [o EXCEPT !.live = "started"].live = "started"
          /\ [o EXCEPT !.live = "started"].stopping = o.stopping
          /\ [o EXCEPT !.live = "started"].ref = o.ref
          /\ [o EXCEPT !.live = "started"].timer = o.timer
      BY DEF Object
    <3>2. ~liveReady[c]
      BY <2>1 DEF CallInv, LiveInv
    <3>. QED  BY <1>1, <2>1, <2>2, <3>1, <3>2
  <2>3. ASSUME NEW l \in {"none", "started"}, StopCall(c, s, [o EXCEPT !.live = l], "known")
        PROVE  Turn(c) /\ TypeOK' /\ CallInv(c)'
    <3>1. /\ [o EXCEPT !.live = l] \in Object
          /\ [o EXCEPT !.live = l].live = l
          /\ [o EXCEPT !.live = l].stopping = o.stopping
          /\ [o EXCEPT !.live = l].ref = o.ref
          /\ [o EXCEPT !.live = l].timer = o.timer
      BY DEF Object
    <3>2. StopsOnly(c) /\ Platform /\ CallInv(c)' /\ Reaches(phase[c], phase'[c])
      BY <2>1, <2>3, <3>1, StopKeeps
    <3>. QED  BY <3>2, StopTurn DEF TypeOK
  <2>. QED  BY <1>3, <2>2, <2>3 DEF BeginLive
<1>. QED  BY <1>2, <1>3

-----------------------------------------------------------------------------
(* Admission and start() *)

\* The values of the actions that EXCEPT call c only.
LEMMA CreateKeeps ==
  ASSUME IInv, NEW c \in CallIds, Create(c)
  PROVE  Turn(c) /\ TypeOK' /\ CallInv(c)'
<1>. USE DEF IInv, Create, Admit, platform
<1>1. TypeOK'
  BY DEF TypeOK, CallState, Start
<1>2. /\ phase'[c] = "requested" /\ start'[c] = "queued"
      /\ \A d \in CallIds \ {c} : phase'[d] = phase[d] /\ start'[d] = start[d]
  BY DEF TypeOK
<1>3. Turn(c)
  BY <1>2 DEF Turn, Rest, Platform
<1>4. CallInv(c)'
  BY <1>2 DEF CallInv, BeforeDial, SlotInv, LegInv, LiveInv, UsageInv, Dialled, Absent
<1>. QED  BY <1>1, <1>3, <1>4

LEMMA StartQueuedKeeps ==
  ASSUME IInv, NEW c \in CallIds, StartQueued(c)
  PROVE  Turn(c) /\ TypeOK' /\ CallInv(c)'
<1>. USE DEF IInv, StartQueued, Begin, platform
<1>1. TypeOK'
  BY DEF TypeOK, CallState, Start, Usage
<1>2. /\ \/ phase'[c] = phase[c] /\ start'[c] = "over" /\ usage'[c] = usage[c]
         \/ /\ phase[c] = "requested" /\ phase'[c] = "ended"
            /\ start'[c] = "over" /\ usage'[c] = usage[c]
         \/ phase'[c] = phase[c] /\ start'[c] = "preflight" /\ usage'[c] = "reserved"
      /\ \A d \in CallIds \ {c} :
           phase'[d] = phase[d] /\ start'[d] = start[d] /\ usage'[d] = usage[d]
  BY DEF TypeOK
<1>3. Turn(c)
  BY <1>2 DEF Turn, Rest, Platform, Reaches, Allowed, CallState
<1>4. CallInv(c)'
  BY <1>2 DEF CallInv, BeforeDial, SlotInv, LegInv, LiveInv, UsageInv, Dialled, Absent
<1>. QED  BY <1>1, <1>3, <1>4

LEMMA CancelPreflightKeeps ==
  ASSUME IInv, NEW c \in CallIds, CancelPreflight(c)
  PROVE  Turn(c) /\ TypeOK' /\ CallInv(c)'
<1>. USE DEF IInv, CancelPreflight, platform
<1>1. Settle(usage[c], "zero") = "zero"
  BY DEF CallInv, BeforeDial, Settle
<1>2. TypeOK'
  BY <1>1 DEF TypeOK, CallState, Start, Usage
<1>3. /\ phase'[c] = (IF phase[c] = "requested" THEN "ended" ELSE phase[c])
      /\ start'[c] = "over" /\ usage'[c] = "zero"
      /\ \A d \in CallIds \ {c} :
           phase'[d] = phase[d] /\ start'[d] = start[d] /\ usage'[d] = usage[d]
  BY <1>1 DEF TypeOK
<1>4. Turn(c)
  BY <1>3 DEF Turn, Rest, Platform, Reaches, Allowed, CallState
<1>5. CallInv(c)'
  BY <1>3 DEF CallInv, BeforeDial, SlotInv, LegInv, LiveInv, UsageInv, Dialled, Absent
<1>. QED  BY <1>2, <1>4, <1>5

\* The slot is taken by a call the store admitted: no other is unfinished.
LEMMA DialKeeps ==
  ASSUME IInv, NEW c \in CallIds, Dial(c)
  PROVE  Turn(c) /\ TypeOK' /\ CallInv(c)'
<1>. USE DEF IInv, Dial, MayDial
<1>1. PICK r \in Refs :
        /\ IF mine[c] = NoRef THEN leg[r] = "free" ELSE r = mine[c]
        /\ mine' = [mine EXCEPT ![c] = r]
        /\ leg' = [leg EXCEPT ![r] = IF @ = "gone" THEN "gone" ELSE "dialing"]
  OBVIOUS
<1>2. NewObject(mine[c]) \in Object
  BY DEF NewObject, Object, TypeOK
<1>3. TypeOK'
  BY <1>1, <1>2 DEF TypeOK, CallState, Start, Leg
<1>4. /\ phase'[c] \in {"dialing", "ringing"} /\ start'[c] = "platform"
      /\ mine'[c] = r /\ object'[c] = NewObject(mine[c])
      /\ \A d \in CallIds \ {c} : /\ phase'[d] = phase[d] /\ start'[d] = start[d]
                                  /\ mine'[d] = mine[d] /\ object'[d] = object[d]
      /\ \A q \in Refs : leg[q] = "gone" => leg'[q] = "gone"
  BY <1>1 DEF TypeOK
<1>5. \A d \in CallIds \ {c} : active' # d /\ active # d
  BY NoCallAssumption
<1>6. Turn(c)
  BY <1>4, <1>5 DEF Turn, Rest, Platform, Reaches, Allowed, CallState
<1>7. /\ NewObject(mine[c]).ref = mine[c] /\ ~NewObject(mine[c]).stopping
      /\ NewObject(mine[c]).live = "none" /\ NewObject(mine[c]).timer = "ring"
  BY DEF NewObject
<1>8. usage'[c] = "reserved" /\ ~liveReady'[c] /\ stop'[c] = "none"
  BY DEF CallInv, BeforeDial, Dialled
<1>9. mine[c] \in {NoRef, r}
  BY <1>1
<1>10. CallInv(c)'
  BY <1>4, <1>7, <1>8, <1>9
     DEF CallInv, BeforeDial, SlotInv, LegInv, LiveInv, UsageInv, Dialled, Absent, CallState
<1>. QED  BY <1>3, <1>6, <1>10

LEMMA ReturnedKeeps ==
  ASSUME IInv, NEW c \in CallIds, Returned(c)
  PROVE  Turn(c) /\ TypeOK' /\ CallInv(c)'
<1>. USE DEF IInv, Returned, store, platform
<1>1. mine[c] \in Refs
  BY DEF CallInv, SlotInv, Dialled
<1>2. object' = [object EXCEPT ![c].ref = mine[c]]
  OBVIOUS
<1>3. /\ object' \in [CallIds -> Object]
      /\ object'[c].ref = mine[c]
      /\ object'[c].stopping = object[c].stopping
      /\ object'[c].live = object[c].live /\ object'[c].timer = object[c].timer
      /\ \A d \in CallIds \ {c} : object'[d] = object[d]
  <2>1. object \in [CallIds -> Object] /\ object[c] \in Object
    BY DEF TypeOK
  <2>2. PICK o : o = [object[c] EXCEPT !.ref = mine[c]]
    OBVIOUS
  <2>3. /\ o \in Object /\ o.ref = mine[c] /\ o.stopping = object[c].stopping
        /\ o.live = object[c].live /\ o.timer = object[c].timer
    BY <1>1, <2>1, <2>2 DEF Object
  <2>4. object' = [object EXCEPT ![c] = o]
    BY <1>2, <2>2
  <2>. QED  BY <2>1, <2>3, <2>4
<1>4. /\ start'[c] = "returned"
      /\ \A d \in CallIds \ {c} : start'[d] = start[d]
  BY DEF TypeOK
<1>5. asked \subseteq asked' /\ asked' \subseteq Refs
      /\ (object[c].stopping => mine[c] \in asked')
  BY <1>1 DEF TypeOK
<1>6. TypeOK'
  BY <1>3, <1>5 DEF TypeOK, Start
<1>7. Turn(c)
  BY <1>3, <1>4, <1>5 DEF Turn, Rest, Platform, Reaches
<1>8. CallInv(c)'
  BY <1>1, <1>3, <1>4, <1>5, NoRefAssumption
     DEF CallInv, BeforeDial, SlotInv, LegInv, LiveInv, UsageInv, Dialled
<1>. QED  BY <1>6, <1>7, <1>8

LEMMA FailedKeeps ==
  ASSUME IInv, NEW c \in CallIds, Failed(c)
  PROVE  Turn(c) /\ TypeOK' /\ CallInv(c)'
<1>. USE DEF IInv, Failed, platform
<1>1. start' \in [CallIds -> Start] /\ start'[c] = "failed"
      /\ (\A d \in CallIds \ {c} : start'[d] = start[d])
  BY DEF TypeOK, Start
<1>2. StopsOnly(c) /\ Platform /\ CallInv(c)' /\ Reaches(phase[c], phase'[c])
  BY <1>1, StopAsItStands DEF Dialled
<1>. QED  BY <1>1, <1>2, StopTurn DEF TypeOK

-----------------------------------------------------------------------------
(* Callbacks of the voice driver *)

\* A callback concerns the call that holds the slot.
LEMMA ConcernsFacts ==
  ASSUME IInv, NEW c \in CallIds, NEW r \in Refs \cup {NoRef}, Concerns(c, r)
  PROVE  /\ active = c /\ start[c] \in Dialled /\ mine[c] \in Refs
         /\ phase[c] \in CallState \ {"requested", "ended"}
         /\ object[c] \in Object
         /\ object[c].stopping => object[c].timer = "off"
<1>1. active = c /\ start[c] \in Dialled
  BY DEF Concerns, IInv, CallInv, BeforeDial
<1>. QED  BY <1>1 DEF IInv, TypeOK, CallInv, SlotInv, LiveInv

LEMMA ProgressKeeps ==
  ASSUME IInv, NEW c \in CallIds, NEW r \in Refs, NEW s \in Established, Progress(c, r, s)
  PROVE  Turn(c) /\ TypeOK' /\ CallInv(c)'
<1>. DEFINE o == [object[c] EXCEPT !.ref = r, !.timer = TimerAfter(object[c], s)]
            t == Safe(phase[c], s)
<1>1. /\ active = c /\ start[c] \in Dialled /\ r = mine[c] /\ mine[c] \in Refs
      /\ phase[c] \in CallState \ {"requested", "ended"}
      /\ object[c] \in Object
      /\ object[c].stopping => object[c].timer = "off"
  BY ConcernsFacts DEF Progress
<1>2. /\ t \in CallState \ {"requested", "ended"} /\ Reaches(phase[c], t)
      /\ t \in Quiescent => phase[c] \in Quiescent
      /\ phase[c] = "connected" => t = "connected"
  <2>1. s \in CallState \ {"requested", "ended"} /\ s \notin Quiescent
    BY DEF Established, CallState, Quiescent
  <2>2. phase[c] = "connected" => ~Allowed(phase[c], s)
    BY DEF Allowed, Established
  <2>. QED  BY <1>1, <2>1, <2>2, SafeFacts DEF Safe
<1>3. TimerAfter(object[c], s) \in {"off", "ring", "duration"}
      /\ (object[c].stopping => TimerAfter(object[c], s) = "off")
  BY <1>1 DEF TimerAfter, Object
<1>4. /\ o \in Object /\ o.ref = r /\ o.timer = TimerAfter(object[c], s)
      /\ o.stopping = object[c].stopping /\ o.live = object[c].live
  BY <1>1, <1>3 DEF Object
<1>5. t \in Quiescent => ~liveReady[c]
  BY <1>2 DEF IInv, CallInv, LiveInv, Quiescent
<1>6. UNCHANGED <<paused, active, start, endTask, serving, channel, leg, mine>>
  BY DEF Progress, platform
<1>7. CASE s = "connected"
  <2>1. BeginLive(c, t, o)
    BY <1>7 DEF Progress
  <2>. QED  BY <1>1, <1>2, <1>3, <1>4, <1>5, <1>6, <2>1, BeginLiveKeeps
<1>8. CASE s # "connected"
  <2>1. Put(c, t, o) /\ UNCHANGED <<usage, stop, asked>>
    BY <1>8 DEF Progress
  <2>2. /\ phase'[c] = t /\ object'[c] = o
        /\ liveReady'[c] => liveReady[c] /\ t \notin Quiescent
        /\ \A d \in CallIds \ {c} : /\ phase'[d] = phase[d] /\ object'[d] = object[d]
                                    /\ liveReady'[d] = liveReady[d]
        /\ phase' \in [CallIds -> CallState \cup {Absent}]
        /\ liveReady' \in [CallIds -> BOOLEAN]
        /\ object' \in [CallIds -> Object]
    BY <1>2, <1>4, <2>1, PutFacts DEF IInv
  <2>3. Turn(c)
    BY <1>2, <1>6, <2>1, <2>2 DEF Turn, Rest, Platform
  <2>4. TypeOK'
    BY <1>6, <2>1, <2>2 DEF TypeOK, IInv
  <2>5. o.timer # "off" => ~o.stopping
    BY <1>3, <1>4
  <2>6. BeforeDial(c)' /\ SlotInv(c)' /\ LegInv(c)'
    BY <1>1, <1>2, <1>4, <1>6, <2>1, <2>2, NoRefAssumption
       DEF IInv, BeforeDial, SlotInv, LegInv, CallInv, CallState, Absent, Dialled
  <2>7. LiveInv(c)' /\ UsageInv(c)'
    BY <1>1, <1>2, <1>4, <1>6, <2>1, <2>2, <2>5, NoRefAssumption
       DEF IInv, LiveInv, UsageInv, CallInv
  <2>. QED  BY <2>3, <2>4, <2>6, <2>7 DEF CallInv
<1>. QED  BY <1>7, <1>8

LEMMA AudioReadyKeeps ==
  ASSUME IInv, NEW c \in CallIds, NEW r \in Refs, AudioReady(c, r)
  PROVE  Turn(c) /\ TypeOK' /\ CallInv(c)'
<1>. DEFINE o == [object[c] EXCEPT !.ref = r, !.media = TRUE]
<1>1. /\ active = c /\ start[c] \in Dialled /\ r = mine[c] /\ mine[c] \in Refs
      /\ phase[c] \in CallState \ {"requested", "ended"}
      /\ object[c] \in Object
      /\ object[c].stopping => object[c].timer = "off"
  BY ConcernsFacts DEF AudioReady
<1>2. /\ o \in Object /\ o.ref = r /\ o.timer = object[c].timer
      /\ o.stopping = object[c].stopping /\ o.live = object[c].live
  BY <1>1 DEF Object
<1>3. phase[c] \in Quiescent => ~liveReady[c]
  BY DEF IInv, CallInv, LiveInv, Quiescent
<1>4. Reaches(phase[c], phase[c])
  BY DEF Reaches
<1>5. BeginLive(c, phase[c], o)
      /\ UNCHANGED <<paused, active, start, endTask, serving, channel, leg, mine>>
  BY DEF AudioReady, platform
<1>. QED  BY <1>1, <1>2, <1>3, <1>4, <1>5, BeginLiveKeeps

\* The end of another leg takes the slot from the call as well (StrayEnds),
\* and then only its object remembers that it was given up.
LEMMA EndedKeeps ==
  ASSUME IInv, NEW c \in CallIds, NEW r \in Refs, Ended(c, r)
  PROVE  Turn(c) /\ TypeOK' /\ CallInv(c)'
<1>. DEFINE o == [object[c] EXCEPT !.ref = r]
<1>1. /\ active = c /\ start[c] \in Dialled /\ mine[c] \in Refs
      /\ phase[c] \in CallState \ {"requested", "ended"}
      /\ object[c] \in Object
      /\ object[c].ref \in {NoRef, r}
  BY ConcernsFacts DEF Ended, Concerns
<1>2. /\ o \in Object /\ o.ref = r
      /\ o.stopping = object[c].stopping /\ o.live = object[c].live
  BY <1>1 DEF Object
<1>3. Safe(phase[c], "ended") = "ended"
  BY <1>1 DEF Safe, Allowed, CallState
<1>4. /\ Put(c, "ended", Halted(o))
      /\ usage' = [usage EXCEPT ![c] =
                     IF object[c].live = "none" THEN Settle(@, "zero") ELSE @]
      /\ active' = NoCall
      /\ UNCHANGED <<paused, start, stop, endTask, serving, channel, leg, mine, asked>>
  BY <1>3 DEF Ended, platform
<1>5. /\ phase'[c] = "ended" /\ object'[c] = Halted(o)
      /\ ~liveReady'[c]
      /\ \A d \in CallIds \ {c} : /\ phase'[d] = phase[d] /\ object'[d] = object[d]
                                  /\ liveReady'[d] = liveReady[d]
      /\ phase' \in [CallIds -> CallState \cup {Absent}]
      /\ liveReady' \in [CallIds -> BOOLEAN]
      /\ object' \in [CallIds -> Object]
  BY <1>2, <1>4, PutFacts, HaltedFacts DEF IInv, CallState, Quiescent
<1>6. object[c].live = "none" => Settle(usage[c], "zero") = "zero"
  BY <1>1 DEF IInv, CallInv, UsageInv, Settle
<1>7. /\ usage'[c] = (IF object[c].live = "none" THEN "zero" ELSE usage[c])
      /\ usage' \in [CallIds -> Usage]
      /\ \A d \in CallIds \ {c} : usage'[d] = usage[d]
  BY <1>4, <1>6 DEF IInv, TypeOK, Usage
<1>8. Turn(c)
  <2>1. Reaches(phase[c], "ended")
    BY <1>1 DEF Reaches, Allowed, CallState
  <2>2. \A d \in CallIds \ {c} : active' # d /\ active # d
    BY <1>1, <1>4, NoCallAssumption
  <2>. QED  BY <1>4, <1>5, <1>7, <2>1, <2>2 DEF Turn, Rest, Platform
<1>9. TypeOK'
  BY <1>4, <1>5, <1>7 DEF TypeOK, IInv
<1>a. object'[c].stopping /\ object'[c].ref = r
  <2>1. Halted(o).stopping /\ Halted(o).ref = o.ref
    BY <1>2, HaltedFacts
  <2>2. object'[c] = Halted(o) /\ o.ref = r
    BY <1>2, <1>5
  <2>. QED  BY <2>1, <2>2
<1>10. BeforeDial(c)' /\ SlotInv(c)'
  BY <1>1, <1>4, <1>5, <1>a, NoCallAssumption
     DEF BeforeDial, SlotInv, CallState, Absent, Dialled
<1>11. LegInv(c)'
  <2>1. leg[r] = "gone" /\ (r = mine[c] \/ StrayEnds)
    BY DEF Ended
  <2>2. start[c] = "returned" => object[c].ref = mine[c]
    BY DEF IInv, CallInv, LegInv, Dialled
  <2>3. start[c] = "returned" => r = mine[c]
    BY <1>1, <2>2, NoRefAssumption
  <2>. QED  BY <1>1, <1>4, <1>5, <1>a, <2>1, <2>3, StrayEndsAssumption DEF LegInv
<1>12. LiveInv(c)' /\ UsageInv(c)'
  <2>1. /\ object'[c].stopping /\ object'[c].timer = "off"
        /\ object[c].live = "none" => object'[c].live = "none"
        /\ object[c].live = "final" => object'[c].live = "final"
        /\ object[c].live \notin {"none", "final"} => object'[c].live = "closing"
    BY <1>1, <1>2, <1>5, HaltedFacts DEF Object
  <2>2. /\ object[c].live \in {"started", "greeting", "greeted", "closing"} =>
             usage[c] = "reserved"
        /\ object[c].live = "final" => usage[c] \in {"metered", "incomplete"}
    BY <1>1 DEF IInv, CallInv, UsageInv
  <2>. QED  BY <1>1, <1>4, <1>5, <1>7, <2>1, <2>2 DEF LiveInv, UsageInv, Object
<1>. QED  BY <1>8, <1>9, <1>10, <1>11, <1>12 DEF CallInv

LEMMA UncertainKeeps ==
  ASSUME IInv, NEW c \in CallIds, Uncertain(c)
  PROVE  Turn(c) /\ TypeOK' /\ CallInv(c)'
<1>1. PICK r \in {mine[c], object[c].ref} :
        /\ Concerns(c, r)
        /\ StopCall(c, Safe(phase[c], "uncertain"), [object[c] EXCEPT !.ref = r], "unknown")
  BY DEF Uncertain
<1>. DEFINE o == [object[c] EXCEPT !.ref = r]
            s == Safe(phase[c], "uncertain")
<1>2. UNCHANGED <<paused, active, start, endTask, serving, channel, leg, mine>>
  BY DEF Uncertain, platform
<1>3. r \in Refs \cup {NoRef}
  BY <1>1 DEF IInv, TypeOK, Object
<1>4. /\ active = c /\ start[c] \in Dialled /\ mine[c] \in Refs
      /\ phase[c] \in CallState \ {"requested", "ended"}
      /\ object[c] \in Object
      /\ object[c].stopping => object[c].timer = "off"
  BY <1>1, <1>3, ConcernsFacts
<1>5. s \in CallState \ {"requested", "ended"} /\ Reaches(phase[c], s)
  BY <1>4, SafeFacts DEF CallState
<1>6. /\ o \in Object /\ o.ref = r /\ o.timer = object[c].timer
      /\ o.stopping = object[c].stopping /\ o.live = object[c].live
  BY <1>3, <1>4 DEF Object
<1>7. /\ ~object[c].stopping => r \in {NoRef, mine[c]}
      /\ start[c] = "returned" => r = mine[c]
  <2>1. /\ ~object[c].stopping => object[c].ref \in {NoRef, mine[c]}
        /\ start[c] = "returned" => object[c].ref = mine[c]
    BY <1>4 DEF IInv, CallInv, LegInv
  <2>. QED  BY <2>1
<1>8. StopsOnly(c) /\ Platform /\ CallInv(c)' /\ Reaches(phase[c], phase'[c])
  BY <1>1, <1>2, <1>4, <1>5, <1>6, <1>7, StopKeeps DEF Dialled
<1>. QED  BY <1>2, <1>8, StopTurn DEF IInv, TypeOK

\* A turn that concerns no call.
Idle ==
  /\ \A d \in CallIds : Rest(d)
  /\ Platform
  /\ UNCHANGED phase

LEMMA IdleKeeps ==
  ASSUME IInv, Idle, TypeOK'
  PROVE  IInv'
<1>1. \A d \in CallIds : CallInv(d)'
  BY OthersKept DEF IInv, Idle
<1>2. OneUnfinished'
  BY DEF IInv, Idle, OneUnfinished, Unfinished
<1>. QED  BY <1>1, <1>2 DEF IInv

\* The kinds of steps there are.
Kept == TypeOK' /\ (Idle \/ \E c \in CallIds : Turn(c) /\ CallInv(c)')

\* The slot names a call.
LEMMA ActiveFacts ==
  ASSUME IInv, active # NoCall
  PROVE  active \in CallIds /\ start[active] \in Dialled
  BY DEF IInv, TypeOK, CallInv, BeforeDial

LEMMA FaultKeeps ==
  ASSUME IInv, Fault
  PROVE  Kept
<1>. USE DEF IInv, Fault, platform
<1>1. CASE active = NoCall
  <2>1. UNCHANGED <<phase, liveReady, usage, object, stop, asked, paused, active, start,
                    endTask, serving, leg, mine>> /\ channel' = FALSE
    BY <1>1 DEF store
  <2>. QED  BY <2>1 DEF Kept, Idle, Rest, Platform, TypeOK
<1>2. CASE active # NoCall
  <2>1. active \in CallIds /\ start[active] \in Dialled
    BY <1>2, ActiveFacts
  <2>2. /\ StopsOnly(active) /\ Platform /\ CallInv(active)'
        /\ Reaches(phase[active], phase'[active])
    BY <1>2, <2>1, StopAsItStands
  <2>. QED  BY <2>1, <2>2, StopTurn DEF Kept, TypeOK
<1>. QED  BY <1>1, <1>2

LEMMA CloseKeeps ==
  ASSUME IInv, Close
  PROVE  Kept
<1>. USE DEF IInv, Close, platform
<1>1. CASE active = NoCall
  <2>1. /\ UNCHANGED <<phase, liveReady, usage, object, stop, asked, paused, active, start,
                       endTask, channel, leg, mine>>
        /\ serving' = "closing"
    BY <1>1 DEF store
  <2>2. \A d \in CallIds : active # d
    BY <1>1, NoCallAssumption
  <2>. QED  BY <2>1, <2>2 DEF Kept, Idle, Rest, Platform, TypeOK
<1>2. CASE active # NoCall
  <2>1. active \in CallIds /\ start[active] \in Dialled
    BY <1>2, ActiveFacts
  <2>2. /\ StopsOnly(active) /\ Platform /\ CallInv(active)'
        /\ Reaches(phase[active], phase'[active])
    BY <1>2, <2>1, StopAsItStands
  <2>. QED  BY <2>1, <2>2, StopTurn DEF Kept, TypeOK
<1>. QED  BY <1>1, <1>2

LEMMA OfferKeeps ==
  ASSUME IInv, NEW r \in Refs, Offer(r)
  PROVE  Kept
<1>. USE DEF IInv, Offer
<1>1. leg' \in [Refs -> Leg] /\ \A q \in Refs : leg[q] = "gone" => leg'[q] = "gone"
  BY DEF TypeOK, Leg
<1>2. CASE UNCHANGED <<phase, liveReady, start, mine>>
  BY <1>1, <1>2 DEF Kept, Idle, Rest, Platform, TypeOK
<1>3. ASSUME NEW c \in CallIds, Admit(c), mine' = [mine EXCEPT ![c] = r],
             start' = [start EXCEPT ![c] = "queued"]
      PROVE  Kept
  <2>. USE <1>3 DEF Admit
  <2>1. TypeOK'
    BY <1>1 DEF TypeOK, CallState, Start
  <2>2. /\ phase'[c] = "requested" /\ start'[c] = "queued" /\ mine'[c] = r
        /\ \A d \in CallIds \ {c} :
             phase'[d] = phase[d] /\ start'[d] = start[d] /\ mine'[d] = mine[d]
    BY DEF TypeOK
  <2>3. Turn(c)
    BY <1>1, <2>2 DEF Turn, Rest, Platform
  <2>4. CallInv(c)'
    BY <2>2 DEF CallInv, BeforeDial, SlotInv, LegInv, LiveInv, UsageInv, Dialled, Absent
  <2>. QED  BY <2>1, <2>3, <2>4 DEF Kept
<1>. QED  BY <1>2, <1>3

LEMMA QuietKeeps ==
  ASSUME IInv, Dispose \/ SetPaused \/ \E r \in Refs : LegUp(r) \/ LegGone(r)
  PROVE  Kept
<1>. USE DEF IInv, store, platform
<1>1. CASE Dispose
  BY <1>1 DEF Dispose, Kept, Idle, Rest, Platform, TypeOK
<1>2. CASE SetPaused
  BY <1>2 DEF SetPaused, Kept, Idle, Rest, Platform, TypeOK
<1>3. ASSUME NEW r \in Refs, LegUp(r) \/ LegGone(r)
      PROVE  Kept
  <2>1. leg' \in [Refs -> Leg] /\ \A q \in Refs : leg[q] = "gone" => leg'[q] = "gone"
    BY <1>3 DEF LegUp, LegGone, TypeOK, Leg
  <2>. QED  BY <1>3, <2>1 DEF LegUp, LegGone, Kept, Idle, Rest, Platform, TypeOK
<1>. QED  BY <1>1, <1>2, <1>3

-----------------------------------------------------------------------------
(* Events of the Live session, timers, and the end of a call *)

\* A session or a timer belongs to a call that was dialled, and one that is
\* not being given up to the call that holds the slot.
LEMMA LiveFacts ==
  ASSUME IInv, NEW c \in CallIds, object[c].live # "none" \/ object[c].timer # "off"
  PROVE  /\ start[c] \in Dialled /\ object[c] \in Object
         /\ phase[c] \in CallState \ {"requested"} /\ mine[c] \in Refs
         /\ ~object[c].stopping => Current(c) /\ phase[c] # "ended"
<1>1. start[c] \in Dialled
  BY DEF IInv, CallInv, BeforeDial, LiveInv
<1>. QED  BY <1>1 DEF IInv, TypeOK, CallInv, SlotInv, Current

LEMMA LiveReadyKeeps ==
  ASSUME IInv, NEW c \in CallIds, LiveReady(c)
  PROVE  Turn(c) /\ TypeOK' /\ CallInv(c)'
<1>. USE DEF IInv, LiveReady, platform
<1>1. /\ start[c] \in Dialled /\ object[c] \in Object /\ mine[c] \in Refs
      /\ phase[c] \in CallState \ {"requested", "ended"}
  BY LiveFacts
<1>2. Safe(phase[c], "connected") \in CallState \ {"requested", "ended"}
      /\ Reaches(phase[c], Safe(phase[c], "connected"))
      /\ (phase[c] = "connected" => Safe(phase[c], "connected") = "connected")
  BY <1>1 DEF Safe, Reaches, Allowed, CallState
<1>3. object' = [object EXCEPT ![c].live = "greeting"]
  OBVIOUS
<1>4. /\ object' \in [CallIds -> Object]
      /\ object'[c].live = "greeting" /\ object'[c].ref = object[c].ref
      /\ object'[c].stopping = object[c].stopping /\ object'[c].timer = object[c].timer
      /\ \A d \in CallIds \ {c} : object'[d] = object[d]
  <2>1. object \in [CallIds -> Object] /\ object[c] \in Object
    BY DEF TypeOK
  <2>2. PICK o : o = [object[c] EXCEPT !.live = "greeting"]
    OBVIOUS
  <2>3. /\ o \in Object /\ o.live = "greeting" /\ o.ref = object[c].ref
        /\ o.stopping = object[c].stopping /\ o.timer = object[c].timer
    BY <2>1, <2>2 DEF Object
  <2>4. object' = [object EXCEPT ![c] = o]
    BY <1>3, <2>2
  <2>. QED  BY <2>1, <2>3, <2>4
<1>5. /\ phase'[c] = Safe(phase[c], "connected")
      /\ phase' \in [CallIds -> CallState \cup {Absent}]
      /\ \A d \in CallIds \ {c} : phase'[d] = phase[d]
  BY <1>2 DEF TypeOK
<1>6. /\ liveReady' \in [CallIds -> BOOLEAN]
      /\ \A d \in CallIds \ {c} : liveReady'[d] = liveReady[d]
  <2>1. liveReady' = [liveReady EXCEPT ![c] = liveReady[c] \/ phase[c] = "connected"]
    BY Zenon
  <2>2. (liveReady[c] \/ phase[c] = "connected") \in BOOLEAN
    OBVIOUS
  <2>. QED  BY <2>1, <2>2 DEF TypeOK
<1>7. liveReady'[c] => phase[c] = "connected"
  <2>1. liveReady'[c] = (liveReady[c] \/ phase[c] = "connected")
    BY Zenon DEF TypeOK
  <2>. QED  BY <2>1 DEF CallInv, LiveInv
<1>8. Turn(c)
  BY <1>2, <1>4, <1>5, <1>6 DEF Turn, Rest, Platform
<1>9. TypeOK'
  BY <1>4, <1>5, <1>6 DEF TypeOK
<1>10. BeforeDial(c)' /\ SlotInv(c)' /\ LegInv(c)'
  BY <1>1, <1>2, <1>4, <1>5
     DEF CallInv, BeforeDial, SlotInv, LegInv, Dialled, CallState, Absent
<1>11. LiveInv(c)' /\ UsageInv(c)'
  BY <1>1, <1>2, <1>4, <1>5, <1>7 DEF CallInv, LiveInv, UsageInv
<1>. QED  BY <1>8, <1>9, <1>10, <1>11 DEF CallInv

LEMMA GreetKeeps ==
  ASSUME IInv, NEW c \in CallIds, Greet(c)
  PROVE  Turn(c) /\ TypeOK' /\ CallInv(c)'
<1>. USE DEF IInv
<1>1. object[c].live = "greeting"
      /\ UNCHANGED <<paused, active, start, endTask, serving, channel, leg, mine>>
  BY DEF Greet, platform
<1>2. /\ start[c] \in Dialled /\ object[c] \in Object /\ mine[c] \in Refs
      /\ phase[c] \in CallState \ {"requested"}
  BY <1>1, LiveFacts
<1>3. CASE /\ phase[c] = "connected"
           /\ Put(c, phase[c], [object[c] EXCEPT !.live = "greeted"])
           /\ UNCHANGED <<usage, stop, asked>>
  <2>. DEFINE o == [object[c] EXCEPT !.live = "greeted"]
  <2>1. /\ o \in Object /\ o.live = "greeted" /\ o.ref = object[c].ref
        /\ o.stopping = object[c].stopping /\ o.timer = object[c].timer
    BY <1>2 DEF Object
  <2>2. /\ phase'[c] = phase[c] /\ object'[c] = o
        /\ liveReady'[c] => liveReady[c]
        /\ \A d \in CallIds \ {c} : /\ phase'[d] = phase[d] /\ object'[d] = object[d]
                                    /\ liveReady'[d] = liveReady[d]
        /\ phase' \in [CallIds -> CallState \cup {Absent}]
        /\ liveReady' \in [CallIds -> BOOLEAN]
        /\ object' \in [CallIds -> Object]
    BY <1>2, <1>3, <2>1, PutFacts
  <2>3. Turn(c)
    BY <1>1, <1>3, <2>2 DEF Turn, Rest, Platform, Reaches
  <2>4. TypeOK'
    BY <1>1, <1>3, <2>2 DEF TypeOK
  <2>5. BeforeDial(c)' /\ SlotInv(c)' /\ LegInv(c)'
    BY <1>1, <1>2, <1>3, <2>1, <2>2 DEF CallInv, BeforeDial, SlotInv, LegInv
  <2>6. LiveInv(c)' /\ UsageInv(c)'
    BY <1>1, <1>2, <1>3, <2>1, <2>2 DEF CallInv, LiveInv, UsageInv
  <2>. QED  BY <2>3, <2>4, <2>5, <2>6 DEF CallInv
<1>4. CASE StopCall(c, phase[c], object[c], "known")
  <2>1. StopsOnly(c) /\ Platform /\ CallInv(c)' /\ Reaches(phase[c], phase'[c])
    BY <1>1, <1>2, <1>4, StopAsItStands
  <2>. QED  BY <1>1, <2>1, StopTurn DEF TypeOK
<1>. QED  BY <1>3, <1>4 DEF Greet

\* A session settles its call's usage once: until it is final nobody has.
LEMMA LiveClosedKeeps ==
  ASSUME IInv, NEW c \in CallIds, LiveClosed(c)
  PROVE  Turn(c) /\ TypeOK' /\ CallInv(c)'
<1>. USE DEF IInv
<1>. DEFINE o == [object[c] EXCEPT !.live = "final"]
<1>1. /\ object[c].live \in {"started", "greeting", "greeted", "closing"}
      /\ UNCHANGED <<paused, active, start, endTask, serving, channel, leg, mine>>
  BY DEF LiveClosed, platform
<1>2. /\ start[c] \in Dialled /\ object[c] \in Object /\ mine[c] \in Refs
      /\ phase[c] \in CallState \ {"requested"}
      /\ ~object[c].stopping => Current(c) /\ phase[c] # "ended"
  BY <1>1, LiveFacts
<1>3. /\ o \in Object /\ o.live = "final" /\ o.ref = object[c].ref
      /\ o.stopping = object[c].stopping /\ o.timer = object[c].timer
  BY <1>2 DEF Object
<1>4. usage[c] = "reserved"
  BY <1>1, <1>2 DEF CallInv, UsageInv
<1>5. PICK what \in {"metered", "incomplete"} :
        /\ usage' = [usage EXCEPT ![c] = Settle(@, what)]
        /\ IF Current(c) /\ ~o.stopping
             THEN /\ Put(c, Safe(phase[c], "ending"), Halted(o))
                  /\ stop' = [stop EXCEPT ![c] = "ending"]
                  /\ asked' = asked \cup {o.ref}
             ELSE /\ Put(c, phase[c], o)
                  /\ UNCHANGED <<stop, asked>>
  BY DEF LiveClosed
<1>6. Settle(usage[c], what) = what
  BY <1>4 DEF Settle
<1>7. /\ usage'[c] = what /\ usage' \in [CallIds -> Usage]
      /\ \A d \in CallIds \ {c} : usage'[d] = usage[d]
  BY <1>5, <1>6 DEF TypeOK, Usage
<1>8. ASSUME NEW s \in CallState \ {"requested"}, NEW q \in Object,
             Put(c, s, q), Reaches(phase[c], s), s = "ended" => phase[c] = "ended",
             q.live = "final", q.stopping, q.timer = "off", q.ref = object[c].ref,
             liveReady[c] => s \in Quiescent,
             stop' \in [CallIds -> {"none", "ending", "shutdown"}],
             \A d \in CallIds \ {c} : stop'[d] = stop[d],
             asked \subseteq asked', asked' \subseteq Refs,
             object[c].stopping \/ object[c].ref \in asked'
      PROVE  Turn(c) /\ TypeOK' /\ CallInv(c)'
  <2>1. /\ phase'[c] = s /\ object'[c] = q
        /\ liveReady'[c] => liveReady[c] /\ s \notin Quiescent
        /\ \A d \in CallIds \ {c} : /\ phase'[d] = phase[d] /\ object'[d] = object[d]
                                    /\ liveReady'[d] = liveReady[d]
        /\ phase' \in [CallIds -> CallState \cup {Absent}]
        /\ liveReady' \in [CallIds -> BOOLEAN]
        /\ object' \in [CallIds -> Object]
    BY <1>8, PutFacts
  <2>2. Turn(c)
    BY <1>1, <1>7, <1>8, <2>1 DEF Turn, Rest, Platform
  <2>3. TypeOK'
    BY <1>1, <1>7, <1>8, <2>1 DEF TypeOK
  <2>4. phase[c] = "ended" => s = "ended"
    BY <1>8, ReachesFacts
  <2>5. BeforeDial(c)' /\ SlotInv(c)'
    BY <1>1, <1>2, <1>8, <2>1, <2>4
       DEF CallInv, BeforeDial, SlotInv, CallState, Absent, Dialled
  <2>6. LegInv(c)'
    BY <1>1, <1>2, <1>8, <2>1, <2>4 DEF CallInv, LegInv
  <2>7. LiveInv(c)' /\ UsageInv(c)'
    BY <1>1, <1>2, <1>7, <1>8, <2>1 DEF CallInv, LiveInv, UsageInv
  <2>. QED  BY <2>2, <2>3, <2>5, <2>6, <2>7 DEF CallInv
<1>9. CASE Current(c) /\ ~o.stopping
  <2>1. Put(c, Safe(phase[c], "ending"), Halted(o)) /\ asked' = asked \cup {o.ref}
        /\ stop' = [stop EXCEPT ![c] = "ending"]
    BY <1>5, <1>9
  <2>2. phase[c] # "ended"
    BY <1>2, <1>3, <1>9
  <2>3. /\ Safe(phase[c], "ending") \in {"ending", "uncertain"}
        /\ Reaches(phase[c], Safe(phase[c], "ending"))
    BY <1>2, <2>2 DEF Safe, Reaches, Allowed, CallState
  <2>4. object[c].ref \in Refs
    BY <1>1, <1>2, <1>3, <1>9 DEF CallInv, LiveInv, Object
  <2>5. /\ Halted(o) \in Object /\ Halted(o).live = "final" /\ Halted(o).stopping
        /\ Halted(o).timer = "off" /\ Halted(o).ref = object[c].ref
    BY <1>3, HaltedFacts
  <2>6. /\ stop' \in [CallIds -> {"none", "ending", "shutdown"}]
        /\ \A d \in CallIds \ {c} : stop'[d] = stop[d]
        /\ asked \subseteq asked' /\ asked' \subseteq Refs /\ object[c].ref \in asked'
    BY <1>3, <2>1, <2>4 DEF TypeOK
  <2>. QED  BY <1>8, <2>1, <2>2, <2>3, <2>5, <2>6 DEF CallState, Quiescent
<1>10. CASE ~(Current(c) /\ ~o.stopping)
  <2>1. Put(c, phase[c], o) /\ UNCHANGED <<stop, asked>>
    BY <1>5, <1>10
  <2>2. o.stopping
    BY <1>2, <1>3, <1>10
  <2>3. o.timer = "off" /\ ~liveReady[c]
    BY <1>3, <2>2 DEF CallInv, LiveInv
  <2>4. Reaches(phase[c], phase[c])
    BY DEF Reaches
  <2>. QED  BY <1>2, <1>3, <1>8, <2>1, <2>2, <2>3, <2>4 DEF TypeOK
<1>. QED  BY <1>9, <1>10

LEMMA GivenUpKeeps ==
  ASSUME IInv, NEW c \in CallIds, LiveFault(c) \/ TimerFires(c)
  PROVE  Turn(c) /\ TypeOK' /\ CallInv(c)'
<1>1. /\ StopCall(c, phase[c], object[c], "known")
      /\ object[c].live # "none" \/ object[c].timer # "off"
      /\ UNCHANGED <<paused, active, start, endTask, serving, channel, leg, mine>>
  BY DEF LiveFault, TimerFires, platform
<1>2. start[c] \in Dialled
  BY <1>1, LiveFacts
<1>3. StopsOnly(c) /\ Platform /\ CallInv(c)' /\ Reaches(phase[c], phase'[c])
  BY <1>1, <1>2, StopAsItStands
<1>. QED  BY <1>1, <1>3, StopTurn DEF IInv, TypeOK

LEMMA FinalTimerKeeps ==
  ASSUME IInv, NEW c \in CallIds, FinalTimer(c)
  PROVE  Turn(c) /\ TypeOK' /\ CallInv(c)'
<1>. USE DEF IInv
<1>. DEFINE o == [object[c] EXCEPT !.live = "final"]
<1>1. /\ start[c] \in Dialled /\ object[c] \in Object /\ object[c].live = "closing"
      /\ object' = [object EXCEPT ![c] = o]
      /\ usage' = [usage EXCEPT ![c] = Settle(@, "incomplete")]
      /\ UNCHANGED <<phase, liveReady, paused, active, start, stop, endTask, serving,
                     channel, leg, mine, asked>>
  BY LiveFacts DEF FinalTimer, platform
<1>2. /\ o \in Object /\ o.live = "final" /\ o.ref = object[c].ref
      /\ o.stopping = object[c].stopping /\ o.timer = object[c].timer
  BY <1>1 DEF Object
<1>3. /\ object' \in [CallIds -> Object] /\ object'[c] = o
      /\ \A d \in CallIds \ {c} : object'[d] = object[d]
  BY <1>1, <1>2 DEF TypeOK
<1>4. Settle(usage[c], "incomplete") = "incomplete"
  BY <1>1 DEF CallInv, UsageInv, Settle
<1>5. /\ usage'[c] = "incomplete" /\ usage' \in [CallIds -> Usage]
      /\ \A d \in CallIds \ {c} : usage'[d] = usage[d]
  BY <1>1, <1>4 DEF TypeOK, Usage
<1>6. Turn(c)
  BY <1>1, <1>3, <1>5 DEF Turn, Rest, Platform, Reaches
<1>7. TypeOK'
  BY <1>1, <1>3, <1>5 DEF TypeOK
<1>8. BeforeDial(c)'
  BY <1>1 DEF CallInv, BeforeDial, Dialled
<1>10. SlotInv(c)' /\ LegInv(c)'
  BY <1>1, <1>2, <1>3 DEF CallInv, SlotInv, LegInv
<1>9. LiveInv(c)' /\ UsageInv(c)'
  BY <1>1, <1>2, <1>3, <1>5 DEF CallInv, LiveInv, UsageInv
<1>. QED  BY <1>6, <1>7, <1>8, <1>9, <1>10 DEF CallInv

LEMMA StopReturnsKeeps ==
  ASSUME IInv, NEW c \in CallIds, StopReturns(c)
  PROVE  Turn(c) /\ TypeOK' /\ CallInv(c)'
<1>. USE DEF IInv
<1>. DEFINE s == Safe(phase[c], "uncertain")
<1>1. /\ stop[c] # "none" /\ stop' = [stop EXCEPT ![c] = "none"]
      /\ Put(c, s, object[c])
      /\ usage' = [usage EXCEPT ![c] =
                     IF object[c].live = "none" THEN Settle(@, "zero") ELSE @]
      /\ UNCHANGED <<paused, active, start, endTask, serving, channel, leg, mine, asked>>
  BY DEF StopReturns, platform
<1>2. /\ start[c] \in Dialled /\ object[c].stopping /\ object[c] \in Object
      /\ phase[c] \in CallState \ {"requested"}
  BY <1>1 DEF TypeOK, CallInv, LiveInv, SlotInv
<1>3. /\ s \in CallState \ {"requested"} /\ Reaches(phase[c], s)
      /\ s = "ended" <=> phase[c] = "ended"
  BY <1>2 DEF Safe, Reaches, Allowed, CallState
<1>4. object[c].live = "none" => Settle(usage[c], "zero") = "zero"
  BY <1>2 DEF CallInv, UsageInv, Settle
<1>5. /\ usage'[c] = (IF object[c].live = "none" THEN "zero" ELSE usage[c])
      /\ usage' \in [CallIds -> Usage]
      /\ \A d \in CallIds \ {c} : usage'[d] = usage[d]
  BY <1>1, <1>4 DEF TypeOK, Usage
<1>6. /\ stop'[c] = "none" /\ stop' \in [CallIds -> {"none", "ending", "shutdown"}]
      /\ \A d \in CallIds \ {c} : stop'[d] = stop[d]
  BY <1>1 DEF TypeOK
<1>7. /\ phase'[c] = s /\ object'[c] = object[c]
      /\ liveReady'[c] => liveReady[c]
      /\ \A d \in CallIds \ {c} : /\ phase'[d] = phase[d] /\ object'[d] = object[d]
                                  /\ liveReady'[d] = liveReady[d]
      /\ phase' \in [CallIds -> CallState \cup {Absent}]
      /\ liveReady' \in [CallIds -> BOOLEAN]
      /\ object' \in [CallIds -> Object]
  BY <1>1, <1>2, <1>3, PutFacts
<1>8. Turn(c)
  BY <1>1, <1>3, <1>5, <1>6, <1>7 DEF Turn, Rest, Platform
<1>9. TypeOK'
  BY <1>1, <1>5, <1>6, <1>7 DEF TypeOK
<1>10. BeforeDial(c)' /\ SlotInv(c)' /\ LegInv(c)'
  BY <1>1, <1>2, <1>3, <1>7
     DEF CallInv, BeforeDial, SlotInv, LegInv, CallState, Absent, Dialled
<1>11. LiveInv(c)' /\ UsageInv(c)'
  BY <1>1, <1>2, <1>5, <1>6, <1>7 DEF CallInv, LiveInv, UsageInv
<1>. QED  BY <1>8, <1>9, <1>10, <1>11 DEF CallInv

LEMMA EndCallKeeps ==
  ASSUME IInv, NEW c \in CallIds, EndCall(c)
  PROVE  Turn(c) /\ TypeOK' /\ CallInv(c)'
<1>. USE DEF IInv
<1>. DEFINE s == IF phase[c] = "requested" THEN "ended" ELSE "ending"
<1>1. /\ Put(c, s, object[c])
      /\ phase[c] \in {"requested"} \cup Established
      /\ endTask' \subseteq endTask \cup {c} /\ (phase[c] = "requested" => endTask' = endTask)
      /\ UNCHANGED <<usage, paused, active, start, stop, serving, channel, leg, mine, asked>>
  BY DEF EndCall, platform
<1>2. s \in CallState /\ Reaches(phase[c], s) /\ object[c] \in Object /\ s \in Quiescent
  BY <1>1 DEF TypeOK, Reaches, Allowed, CallState, Established, Quiescent
<1>3. /\ phase'[c] = s /\ object'[c] = object[c] /\ ~liveReady'[c]
      /\ \A d \in CallIds \ {c} : /\ phase'[d] = phase[d] /\ object'[d] = object[d]
                                  /\ liveReady'[d] = liveReady[d]
      /\ phase' \in [CallIds -> CallState \cup {Absent}]
      /\ liveReady' \in [CallIds -> BOOLEAN]
      /\ object' \in [CallIds -> Object]
  BY <1>1, <1>2, PutFacts
<1>4. Turn(c)
  BY <1>1, <1>2, <1>3 DEF Turn, Rest, Platform
<1>5. TypeOK'
  BY <1>1, <1>3 DEF TypeOK
<1>6. BeforeDial(c)'
  BY <1>1, <1>3 DEF CallInv, BeforeDial, Established, Absent, Dialled
<1>7. SlotInv(c)' /\ LegInv(c)'
  BY <1>1, <1>3 DEF CallInv, SlotInv, LegInv, Established, CallState
<1>8. LiveInv(c)' /\ UsageInv(c)'
  BY <1>1, <1>3 DEF CallInv, LiveInv, UsageInv
<1>. QED  BY <1>4, <1>5, <1>6, <1>7, <1>8 DEF CallInv

LEMMA OnEndKeeps ==
  ASSUME IInv, NEW c \in CallIds, OnEnd(c)
  PROVE  Turn(c) /\ TypeOK' /\ CallInv(c)'
<1>. USE DEF IInv
<1>1. /\ endTask' \subseteq endTask
      /\ UNCHANGED <<paused, active, start, serving, channel, leg, mine>>
  BY DEF OnEnd, platform
<1>2. CASE active = c
  <2>1. StopCall(c, phase[c], object[c], "known")
    BY <1>2 DEF OnEnd
  <2>2. start[c] \in Dialled
    BY <1>2 DEF CallInv, BeforeDial
  <2>3. StopsOnly(c) /\ Platform /\ CallInv(c)' /\ Reaches(phase[c], phase'[c])
    BY <1>1, <2>1, <2>2, StopAsItStands
  <2>. QED  BY <1>1, <2>3, StopTurn DEF TypeOK
<1>3. CASE active # c
  \* A call that was dialled and is not active any more has been stored as ended.
  <2>1. start[c] \in Dialled /\ phase[c] = "ended" /\ object[c] \in Object
    BY <1>3 DEF OnEnd, CallInv, BeforeDial, SlotInv, TypeOK
  <2>2. Put(c, "ended", object[c]) /\ UNCHANGED <<usage, stop, asked>>
    BY <1>3, <2>1 DEF OnEnd
  <2>3. /\ phase'[c] = "ended" /\ object'[c] = object[c] /\ ~liveReady'[c]
        /\ \A d \in CallIds \ {c} : /\ phase'[d] = phase[d] /\ object'[d] = object[d]
                                    /\ liveReady'[d] = liveReady[d]
        /\ phase' \in [CallIds -> CallState \cup {Absent}]
        /\ liveReady' \in [CallIds -> BOOLEAN]
        /\ object' \in [CallIds -> Object]
    BY <2>1, <2>2, PutFacts DEF CallState, Quiescent
  <2>4. Turn(c)
    BY <1>1, <2>1, <2>2, <2>3 DEF Turn, Rest, Platform, Reaches
  <2>5. TypeOK'
    BY <1>1, <2>2, <2>3 DEF TypeOK
  <2>6. BeforeDial(c)' /\ SlotInv(c)' /\ LegInv(c)'
    BY <1>1, <2>1, <2>2, <2>3
       DEF CallInv, BeforeDial, SlotInv, LegInv, CallState, Absent
  <2>7. LiveInv(c)' /\ UsageInv(c)'
    BY <1>1, <2>1, <2>2, <2>3 DEF CallInv, LiveInv, UsageInv
  <2>. QED  BY <2>4, <2>5, <2>6, <2>7 DEF CallInv
<1>. QED  BY <1>2, <1>3

-----------------------------------------------------------------------------
(* The steps together *)

LEMMA Initial == Init => IInv
<1>. SUFFICES ASSUME Init
     PROVE  IInv
  OBVIOUS
<1>. DEFINE o == [NewObject(NoRef) EXCEPT !.timer = "off"]
<1>1. /\ o \in Object /\ o.ref = NoRef /\ ~o.stopping
      /\ o.live = "none" /\ o.timer = "off"
  BY DEF NewObject, Object
<1>2. object = [c \in CallIds |-> o]
  BY DEF Init
<1>3. TypeOK
  BY <1>1, <1>2 DEF Init, TypeOK, Usage, Start, Leg
<1>4. OneUnfinished
  BY DEF Init, OneUnfinished, Unfinished
<1>5. \A c \in CallIds : CallInv(c)
  BY <1>1, <1>2, NoCallAssumption
     DEF Init, CallInv, BeforeDial, SlotInv, LegInv, LiveInv, UsageInv, Dialled, Absent
<1>. QED  BY <1>3, <1>4, <1>5 DEF IInv

LEMMA StepKeeps ==
  ASSUME IInv, Next
  PROVE  Kept
<1>1. ASSUME NEW c \in CallIds,
             \/ Create(c) \/ StartQueued(c) \/ CancelPreflight(c) \/ Dial(c)
             \/ Returned(c) \/ Failed(c) \/ Uncertain(c)
      PROVE  Kept
  BY <1>1, CreateKeeps, StartQueuedKeeps, CancelPreflightKeeps, DialKeeps, ReturnedKeeps,
     FailedKeeps, UncertainKeeps DEF Kept
<1>2. ASSUME NEW c \in CallIds,
             \/ LiveReady(c) \/ Greet(c) \/ LiveClosed(c) \/ LiveFault(c)
             \/ FinalTimer(c) \/ TimerFires(c) \/ StopReturns(c)
             \/ EndCall(c) \/ OnEnd(c)
      PROVE  Kept
  BY <1>2, LiveReadyKeeps, GreetKeeps, LiveClosedKeeps, GivenUpKeeps, FinalTimerKeeps,
     StopReturnsKeeps, EndCallKeeps, OnEndKeeps DEF Kept
<1>3. ASSUME NEW c \in CallIds, NEW r \in Refs,
             \/ \E s \in Established : Progress(c, r, s)
             \/ Ended(c, r) \/ AudioReady(c, r)
      PROVE  Kept
  BY <1>3, ProgressKeeps, EndedKeeps, AudioReadyKeeps DEF Kept
<1>4. CASE Fault \/ Close
  BY <1>4, FaultKeeps, CloseKeeps
<1>5. CASE Dispose \/ SetPaused \/ \E r \in Refs : LegUp(r) \/ LegGone(r)
  BY <1>5, QuietKeeps
<1>6. CASE \E r \in Refs : Offer(r)
  BY <1>6, OfferKeeps
<1>. QED  BY <1>1, <1>2, <1>3, <1>4, <1>5, <1>6 DEF Next

LEMMA Inductive == IInv /\ [Next]_vars => IInv'
<1>. SUFFICES ASSUME IInv, [Next]_vars
     PROVE  IInv'
  OBVIOUS
<1>1. CASE Next
  <2>1. Kept
    BY <1>1, StepKeeps
  <2>. QED  BY <2>1, IdleKeeps, TurnKeeps DEF Kept
<1>2. CASE UNCHANGED vars
  <2>1. TypeOK'
    BY <1>2 DEF IInv, TypeOK, vars
  <2>2. Idle
    BY <1>2 DEF Idle, Rest, Platform, vars
  <2>. QED  BY <2>1, <2>2, IdleKeeps
<1>. QED  BY <1>1, <1>2

LEMMA Invariance == Spec => []IInv
  BY Initial, Inductive, PTL DEF Spec

\* Type correctness.
THEOREM TypeCorrect == Spec => []TypeOK
<1>1. IInv => TypeOK
  BY DEF IInv
<1>. QED  BY <1>1, Invariance, PTL

\* The slot and the store's capacity agree (the variable active and
\* admissionLocked), for any number of calls: no admitted call finds the slot
\* taken and is left behind as requested.
THEOREM SlotAgrees == Spec => []SlotMatchesCapacity
<1>1. ASSUME IInv
      PROVE  SlotMatchesCapacity
  <2>1. ASSUME active # NoCall
        PROVE  phase[active] \in Established \cup {"ending", "uncertain"}
    BY <1>1, <2>1, ActiveFacts DEF IInv, CallInv, SlotInv, CallState, Established
  <2>2. ASSUME NEW c \in CallIds, start[c] \in {"queued", "preflight"},
               phase[c] = "requested", active # NoCall
        PROVE  FALSE
    <3>1. active \in CallIds /\ active # c
      BY <1>1, <2>2, ActiveFacts DEF Dialled
    <3>2. active \in Unfinished /\ c \in Unfinished
      BY <2>1, <2>2, <3>1 DEF Unfinished, Established, Absent
    <3>. QED  BY <1>1, <3>1, <3>2 DEF IInv, OneUnfinished
  <2>. QED  BY <2>1, <2>2 DEF SlotMatchesCapacity
<1>2. IInv => SlotMatchesCapacity
  BY <1>1
<1>. QED  BY <1>2, Invariance, PTL

\* Settlements never conflict (settleUsage), in whatever order stop(), the
\* platform's end, Live's report and its final timer come.
THEOREM OneSettlement == Spec => []SettlementsAgree
<1>1. ASSUME IInv, NEW c \in CallIds
      PROVE  /\ usage[c] # "conflict"
             /\ usage[c] = "zero" => object[c].live = "none"
             /\ object[c].live # "none" => usage[c] # "none"
  <2>1. object[c].live \in {"none", "started", "greeting", "greeted", "closing", "final"}
        /\ start[c] \in Start
    BY <1>1 DEF IInv, TypeOK, Object
  <2>2. CASE start[c] \in Dialled
    BY <1>1, <2>1, <2>2 DEF IInv, CallInv, UsageInv
  <2>3. CASE start[c] \notin Dialled
    BY <1>1, <2>1, <2>3 DEF IInv, CallInv, BeforeDial, Start, Dialled
  <2>. QED  BY <2>2, <2>3
<1>2. IInv => SettlementsAgree
  BY <1>1 DEF SettlementsAgree
<1>. QED  BY <1>2, Invariance, PTL

\* A call given up while dial or accept was awaited has its leg hung up by
\* whichever of stop() and start() learns its reference last.
THEOREM NoForgottenLeg == Spec => []AbandonedLegsAreHungUp
<1>1. IInv => AbandonedLegsAreHungUp
  BY DEF IInv, CallInv, LegInv, AbandonedLegsAreHungUp, Dialled
<1>. QED  BY <1>1, Invariance, PTL

\* live_ready of the store never outlives the session it stands for.
THEOREM ReadinessHolds == Spec => []ReadinessIsReal
<1>1. ASSUME IInv, NEW c \in CallIds, liveReady[c]
      PROVE  /\ active = c
             /\ object[c].live \in {"greeting", "greeted"}
             /\ object[c].ref = mine[c]
             /\ ~object[c].stopping
  <2>1. object[c].live \in {"greeting", "greeted"} /\ ~object[c].stopping
        /\ object[c].ref # NoRef
    BY <1>1 DEF IInv, CallInv, LiveInv
  <2>2. start[c] \in Dialled
    BY <1>1 DEF IInv, CallInv, BeforeDial
  <2>. QED  BY <1>1, <2>1, <2>2 DEF IInv, CallInv, SlotInv, LegInv
<1>2. IInv => ReadinessIsReal
  BY <1>1 DEF ReadinessIsReal
<1>. QED  BY <1>2, Invariance, PTL

\* With drivers that report the end of no leg but the one they were asked for,
\* no call is stored as ended while its leg may be up (docs/runtime.md:30).
THEOREM EndsAreReal ==
  ASSUME StrayEnds = FALSE
  PROVE  Spec => []NoFabricatedEnd
<1>1. ASSUME IInv, NEW c \in CallIds,
             start[c] \in Dialled, leg[mine[c]] \in {"dialing", "up"}
      PROVE  phase[c] \in Established \cup {"ending", "uncertain"}
  BY <1>1 DEF IInv, CallInv, SlotInv, LegInv, Established, CallState
<1>2. IInv => NoFabricatedEnd
  BY <1>1 DEF NoFabricatedEnd, Dialled
<1>. QED  BY <1>2, Invariance, PTL

\* The coordinator implements the life of calls: each of its turns, two
\* stored transitions in one included, is one step of the table or none.
THEOREM Refinement == Spec => ImplementsLifecycle
<1>1. Init => Lifecycle!Init
  BY DEF Init, Lifecycle!Init, Lifecycle!Absent, Absent
<1>2. ASSUME IInv, [Next]_vars
      PROVE  [Lifecycle!Next]_phase
  <2>1. CASE Next
    <3>1. Kept
      BY <1>2, <2>1, StepKeeps
    <3>. QED  BY <1>2, <3>1, TurnRefines DEF Kept, Idle, IInv
  <2>2. CASE UNCHANGED vars
    BY <2>2 DEF vars
  <2>. QED  BY <1>2, <2>1, <2>2
<1>3. IInv /\ [Next]_vars => [Lifecycle!Next]_phase
  BY <1>2
<1>. QED  BY <1>1, <1>3, Invariance, PTL DEF Spec, Lifecycle!Spec, ImplementsLifecycle
=============================================================================
