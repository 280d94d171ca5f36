----------------------------- MODULE ContractProofs -----------------------------
(***************************************************************************)
(* What every implementation of the two abstract specifications inherits:  *)
(* of CallLifecycle, for any number of calls, and of VoiceContract, for    *)
(* any number of legs.                                                     *)
(***************************************************************************)
EXTENDS CallLifecycle, TLAPS

CONSTANT Refs

VARIABLES alive, over, free   \* of a driver

Voice == INSTANCE VoiceContract

-----------------------------------------------------------------------------
(* The lifecycle of the calls *)

IInv == TypeOK /\ OneUnfinished

LEMMA Initial == Init => IInv
  BY DEF Init, IInv, TypeOK, OneUnfinished, Unfinished

LEMMA Inductive == IInv /\ [Next]_phase => IInv'
<1>. SUFFICES ASSUME IInv, [Next]_phase
     PROVE  IInv'
  OBVIOUS
<1>1. CASE UNCHANGED phase
  BY <1>1 DEF IInv, TypeOK, OneUnfinished, Unfinished
<1>2. ASSUME NEW c \in CallIds, Admit(c)
      PROVE  IInv'
  <2>1. TypeOK'
    BY <1>2 DEF IInv, TypeOK, Admit, CallState
  \* Nobody else was unfinished, so c is the only one now.
  <2>2. Unfinished' \subseteq {c}
    BY <1>2 DEF IInv, TypeOK, Admit, Unfinished
  <2>. QED  BY <2>1, <2>2 DEF IInv, OneUnfinished
<1>3. ASSUME NEW c \in CallIds, NEW s \in CallState, Move(c, s)
      PROVE  IInv'
  <2>1. TypeOK'
    BY <1>3 DEF IInv, TypeOK, Move
  \* The table starts no absent call and leads nowhere from "ended".
  <2>2. c \in Unfinished
    BY <1>3 DEF Move, Allowed, Unfinished, Absent
  <2>3. Unfinished' \subseteq Unfinished
    BY <1>3, <2>2 DEF IInv, TypeOK, Move, Unfinished
  <2>. QED  BY <2>1, <2>3 DEF IInv, OneUnfinished
<1>. QED  BY <1>1, <1>2, <1>3 DEF Next

LEMMA Invariance == Spec => []IInv
  BY Initial, Inductive, PTL DEF Spec

\* The account carries one call, however many have been requested: what the
\* single row of admissionLocked (core) is there for.
THEOREM SingleCall == Spec => []OneUnfinished
<1>1. IInv => OneUnfinished
  BY DEF IInv
<1>. QED  BY <1>1, Invariance, PTL

\* A call the bridge gave up - ending, ended or uncertain - is never dialled,
\* rung or connected again, and an ended one never changes at all.
THEOREM NoRevival == Spec => NeverRevived
<1>1. ASSUME IInv, [Next]_phase
      PROVE  [\A c \in CallIds :
                /\ phase[c] = "ended" => phase'[c] = "ended"
                /\ phase[c] \in Quiescent =>
                     phase'[c] \notin Established \cup {"requested"}]_phase
  <2>1. CASE UNCHANGED phase
    BY <2>1
  <2>2. ASSUME NEW c \in CallIds, Admit(c), NEW d \in CallIds
        PROVE  /\ phase[d] = "ended" => phase'[d] = "ended"
               /\ phase[d] \in Quiescent =>
                    phase'[d] \notin Established \cup {"requested"}
    BY <1>1, <2>2 DEF IInv, TypeOK, Admit, Absent, Quiescent, Established
  <2>3. ASSUME NEW c \in CallIds, NEW s \in CallState, Move(c, s), NEW d \in CallIds
        PROVE  /\ phase[d] = "ended" => phase'[d] = "ended"
               /\ phase[d] \in Quiescent =>
                    phase'[d] \notin Established \cup {"requested"}
    BY <1>1, <2>3 DEF IInv, TypeOK, Move, Allowed, Quiescent, Established
  <2>. QED  BY <1>1, <2>1, <2>2, <2>3 DEF Next
<1>2. IInv /\ [Next]_phase =>
        [\A c \in CallIds :
                /\ phase[c] = "ended" => phase'[c] = "ended"
                /\ phase[c] \in Quiescent =>
                     phase'[c] \notin Established \cup {"requested"}]_phase
  BY <1>1
<1>. QED  BY <1>2, Invariance, PTL DEF Spec, NeverRevived

-----------------------------------------------------------------------------
(* The contract of a voice driver *)

\* LegsAreHeld is inductive together with the type of the driver's reservation.
HeldInv == free \in BOOLEAN /\ Voice!LegsAreHeld

LEMMA InitHolds == Voice!Init => HeldInv
BY DEF Voice!Init, HeldInv, Voice!LegsAreHeld

LEMMA StepHolds == HeldInv /\ [Voice!Next]_(Voice!vars) => HeldInv'
<1> SUFFICES ASSUME HeldInv, [Voice!Next]_(Voice!vars) PROVE HeldInv'
  OBVIOUS
<1> USE DEF HeldInv, Voice!LegsAreHeld
<1>1. CASE Voice!Reserve
  BY <1>1 DEF Voice!Reserve
<1>2. CASE Voice!Retire
  BY <1>2 DEF Voice!Retire
<1>3. ASSUME NEW r \in Refs, Voice!Place(r) PROVE HeldInv'
  BY <1>3 DEF Voice!Place
<1>4. ASSUME NEW r \in Refs, Voice!Drop(r) PROVE HeldInv'
  BY <1>4 DEF Voice!Drop
<1>5. ASSUME NEW r \in Refs, Voice!ReportEnded(r) PROVE HeldInv'
  <2>1. alive' = alive /\ over' = over \cup {r} /\ r \notin alive
    BY <1>5 DEF Voice!ReportEnded
  <2>2. free' \in BOOLEAN /\ (free' => free \/ alive = {})
    BY <1>5 DEF Voice!ReportEnded
  <2>3. alive' # {} => ~free'
    BY <2>1, <2>2
  <2>4. QED
    BY <2>1, <2>2, <2>3
<1>6. CASE UNCHANGED Voice!vars
  BY <1>6 DEF Voice!vars
<1>7. QED
  BY <1>1, <1>2, <1>3, <1>4, <1>5, <1>6 DEF Voice!Next

\* A driver that keeps the contract never takes a dial while one of its legs may be up,
\* never has two, and has reported as ended only legs that are down.  With
\* DriversKeepContract this holds of TelegramDriver and WhatsAppDriver.
THEOREM VoiceLegsAreHeld == Voice!Spec => []Voice!LegsAreHeld
<1>1. HeldInv => Voice!LegsAreHeld
  BY DEF HeldInv
<1>2. QED
  BY InitHolds, StepHolds, <1>1, PTL DEF Voice!Spec
=============================================================================
