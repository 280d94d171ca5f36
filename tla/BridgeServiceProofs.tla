------------------------ MODULE BridgeServiceProofs ------------------------
(***************************************************************************)
(* Proofs about BridgeService for every set of calls.  A step writes the   *)
(* store's states by admitting a call, by Record, by recovery, or not at   *)
(* all (PhaseCases); that is all the lifecycle and OneUnfinished need.     *)
(* The other invariants are shown action by action.                        *)
(***************************************************************************)
EXTENDS BridgeService, TLAPS

OneUnfinished == \A c, d \in Unfinished : c = d

AdmitStep(c) ==
  /\ hold = "none"
  /\ Unfinished = {}
  /\ phase[c] = Absent
  /\ phase' = [phase EXCEPT ![c] = "requested"]

RecoverStep == phase' = [c \in CallIds |-> Recovered(phase[c])]

\* The actions that leave every call state as it is.
Quiet ==
  \/ PauseRecovered \/ Serve \/ Crash \/ Claim \/ ReleaseSafe \/ ReleaseUnknown
  \/ Pause \/ Resume \/ Close \/ CloseRuntime \/ Stop
  \/ \E c \in CallIds : LineUp(c) \/ LineDown(c) \/ Reconcile(c)

LEMMA PhaseCases ==
  ASSUME [Next]_vars
  PROVE  \/ \E c \in CallIds : AdmitStep(c)
         \/ \E c \in CallIds, s \in CallState : Record(c, s)
         \/ RecoverStep
         \/ UNCHANGED phase
<1>1. CASE UNCHANGED vars
  BY <1>1 DEF vars
<1>2. CASE StartService
  BY <1>2 DEF StartService, RecoverStep
<1>3. CASE Quiet
  BY <1>3 DEF Quiet, PauseRecovered, Serve, Crash, Claim, ReleaseSafe, ReleaseUnknown,
     Pause, Resume, Close, CloseRuntime, Stop, LineUp, LineDown, Reconcile
<1>4. ASSUME NEW c \in CallIds, Create(c) \/ Incoming(c)
      PROVE  AdmitStep(c)
  BY <1>4 DEF Create, Incoming, AdmissionOpen, AdmitStep
<1>5. ASSUME NEW c \in CallIds,
             Dispatch(c) \/ CancelPreflight(c) \/ Dial(c)
      PROVE  (\E s \in CallState : Record(c, s)) \/ UNCHANGED phase
  <2>1. {"ended", "dialing", "ringing"} \subseteq CallState
    BY DEF CallState
  <2>2. CASE Dispatch(c)
    BY <2>1, <2>2 DEF Dispatch
  <2>3. CASE CancelPreflight(c)
    BY <2>1, <2>3 DEF CancelPreflight
  <2>4. CASE Dial(c)
    BY <2>1, <2>4 DEF Dial
  <2>. QED  BY <1>5, <2>2, <2>3, <2>4
<1>6. ASSUME NEW c \in CallIds,
             \/ Report(c) \/ ReportEnded(c) \/ EndCall(c) \/ GiveUp(c)
             \/ ConfirmEnded(c)
      PROVE  \E s \in CallState : Record(c, s)
  <2>1. CallState = {"requested", "dialing", "ringing", "connected", "ending",
                     "ended", "uncertain"}
    BY DEF CallState
  <2>. QED  BY <1>6, <2>1 DEF Report, ReportEnded, EndCall, GiveUp, ConfirmEnded
<1>. QED  BY <1>1, <1>2, <1>3, <1>4, <1>5, <1>6 DEF Next, Work, Quiet

\* What recovery makes of a state.
LEMMA RecoveredState ==
  ASSUME NEW s \in CallState \cup {Absent}
  PROVE  /\ Recovered(s) \in {Absent, "ended", "uncertain"}
         /\ Recovered(s) = Absent <=> s = Absent
         /\ Recovered(s) = "uncertain" <=> s \notin {Absent, "ended", "requested"}
  BY DEF Recovered, CallState, Absent

\* A recorded state: the call was unfinished before.
LEMMA RecordStep ==
  ASSUME TypeOK, NEW c \in CallIds, NEW s, Record(c, s)
  PROVE  /\ s \in CallState
         /\ c \in Unfinished
         /\ phase'[c] = s
         /\ \A d \in CallIds : d # c => phase'[d] = phase[d]
         /\ phase' \in [CallIds -> CallState \cup {Absent}]
  BY DEF TypeOK, Record, Allowed, CallState, Absent, Unfinished

-----------------------------------------------------------------------------
(* Types *)

LEMMA PhaseType ==
  ASSUME TypeOK, [Next]_vars
  PROVE  phase' \in [CallIds -> CallState \cup {Absent}]
<1>1. ASSUME NEW c \in CallIds, AdmitStep(c)
      PROVE  phase' \in [CallIds -> CallState \cup {Absent}]
  BY <1>1 DEF TypeOK, AdmitStep, CallState
<1>2. CASE RecoverStep
  BY <1>2, RecoveredState DEF TypeOK, RecoverStep, CallState
<1>. QED  BY <1>1, <1>2, RecordStep, PhaseCases DEF TypeOK

LEMMA TypeStep ==
  ASSUME TypeOK, [Next]_vars
  PROVE  TypeOK'
<1>. USE PhaseType DEF TypeOK, Waiting
<1>1. CASE UNCHANGED vars
  BY <1>1 DEF vars
<1>2. CASE \/ StartService \/ PauseRecovered \/ Serve \/ Crash
           \/ Claim \/ ReleaseSafe \/ ReleaseUnknown
  <2>1. CASE StartService
    BY <2>1 DEF StartService, Holder
  <2>2. CASE PauseRecovered \/ Serve \/ Crash
    BY <2>2 DEF PauseRecovered, Serve, Crash, Holder, Idle, Task
  <2>3. CASE Claim \/ ReleaseSafe \/ ReleaseUnknown
    BY <2>3 DEF Claim, ReleaseSafe, ReleaseUnknown
  <2>. QED  BY <1>2, <2>1, <2>2, <2>3
<1>3. CASE Pause \/ Resume \/ Close \/ CloseRuntime \/ Stop
  BY <1>3 DEF Pause, Resume, Close, CloseRuntime, Stop, Holder, Idle, Task
<1>4. ASSUME NEW c \in CallIds, Create(c) \/ Incoming(c)
      PROVE  TypeOK'
  BY <1>4 DEF Create, Incoming, Task, Line
<1>5. ASSUME NEW c \in CallIds, Work(c)
      PROVE  TypeOK'
  <2>1. CASE Dispatch(c)
    BY <2>1 DEF Dispatch, Task
  <2>2. CASE Dial(c)
    BY <2>2 DEF Dial, Task, Line
  <2>3. CASE CancelPreflight(c)
    BY <2>3 DEF CancelPreflight, Task
  <2>. QED  BY <1>5, <2>1, <2>2, <2>3 DEF Work
<1>6. ASSUME NEW c \in CallIds, Report(c) \/ ReportEnded(c) \/ EndCall(c) \/ GiveUp(c)
      PROVE  TypeOK'
  BY <1>6 DEF Report, ReportEnded, EndCall, GiveUp, Task
<1>7. ASSUME NEW c \in CallIds, LineUp(c) \/ LineDown(c) \/ Reconcile(c) \/ ConfirmEnded(c)
      PROVE  TypeOK'
  BY <1>7 DEF LineUp, LineDown, Reconcile, ConfirmEnded, Line, Holder
<1>. QED  BY <1>1, <1>2, <1>3, <1>4, <1>5, <1>6, <1>7 DEF Next

-----------------------------------------------------------------------------
(* One unfinished call *)

LEMMA OneUnfinishedStep ==
  ASSUME TypeOK, OneUnfinished, [Next]_vars
  PROVE  OneUnfinished'
<1>1. ASSUME NEW c \in CallIds, AdmitStep(c)
      PROVE  OneUnfinished'
  BY <1>1 DEF TypeOK, AdmitStep, OneUnfinished, Unfinished
<1>2. ASSUME NEW c \in CallIds, NEW s \in CallState, Record(c, s)
      PROVE  OneUnfinished'
  BY <1>2, RecordStep DEF OneUnfinished, Unfinished
<1>3. CASE RecoverStep
  <2>1. \A c \in CallIds : phase'[c] \notin {Absent, "ended"} =>
          phase[c] \notin {Absent, "ended"}
    BY <1>3 DEF RecoverStep, Recovered
  <2>. QED  BY <2>1 DEF OneUnfinished, Unfinished
<1>4. CASE UNCHANGED phase
  BY <1>4 DEF OneUnfinished, Unfinished
<1>. QED  BY <1>1, <1>2, <1>3, <1>4, PhaseCases

-----------------------------------------------------------------------------
(* Lines *)

\* The states of a call whose line may be up.
Carrying == Established \cup {"ending", "uncertain"}

Covered == \A c \in CallIds : line[c] \in Busy => phase[c] \in Carrying

\* Between the two writes of reconcile no line is up: the operator looked
\* before, and nothing dials while the command holds the lock.
LinesDown == holder = "reconciling" => \A c \in CallIds : line[c] \notin Busy

LEMMA CarryingUnfinished ==
  /\ Carrying = {"dialing", "ringing", "connected", "ending", "uncertain"}
  /\ Carrying \cap {Absent, "requested", "ended"} = {}
  BY DEF Carrying, Established, Absent

\* Of the writes of the store only "ended" uncovers a line.
LEMMA RecordKeepsCover ==
  ASSUME TypeOK, Covered, NEW c \in CallIds, NEW s, Record(c, s),
         s = "ended" => line[c] \notin Busy, UNCHANGED line
  PROVE  Covered'
<1>1. s \in CallState /\ phase'[c] = s /\ (\A d \in CallIds : d # c => phase'[d] = phase[d])
  BY RecordStep
<1>2. s \in Carrying \cup {"ended"}
  BY DEF Record, Allowed, CallState, Carrying, Established
<1>. QED  BY <1>1, <1>2 DEF Covered

LEMMA CoveredStep ==
  ASSUME TypeOK, Covered, LinesDown, [Next]_vars
  PROVE  Covered'
<1>. USE CarryingUnfinished
<1>1. CASE UNCHANGED vars
  BY <1>1 DEF Covered, vars
<1>2. CASE StartService
  <2>1. \A c \in CallIds : phase[c] \in Carrying => phase'[c] = "uncertain"
    BY <1>2, RecoveredState DEF StartService, TypeOK
  <2>. QED  BY <1>2, <2>1 DEF Covered, StartService
<1>3. CASE \/ PauseRecovered \/ Serve \/ Crash \/ Claim \/ ReleaseSafe
           \/ ReleaseUnknown \/ Pause \/ Resume \/ Close \/ CloseRuntime \/ Stop
           \/ \E c \in CallIds : Reconcile(c)
  BY <1>3 DEF Covered, PauseRecovered, Serve, Crash, Claim, ReleaseSafe,
     ReleaseUnknown, Pause, Resume, Close, CloseRuntime, Stop, Reconcile
<1>4. ASSUME NEW c \in CallIds, Create(c) \/ Incoming(c)
      PROVE  Covered'
  BY <1>4 DEF Covered, Create, Incoming, TypeOK, Busy
<1>5. ASSUME NEW c \in CallIds, Dial(c)
      PROVE  Covered'
  <2>1. PICK s \in {"dialing", "ringing"} : Record(c, s)
    BY <1>5 DEF Dial
  <2>2. \A d \in CallIds \ {c} : line'[d] = line[d] /\ phase'[d] = phase[d]
    BY <1>5, <2>1, RecordStep DEF Dial, TypeOK
  <2>3. phase'[c] \in Carrying
    BY <2>1, RecordStep
  <2>. QED  BY <2>2, <2>3 DEF Covered
<1>6. ASSUME NEW c \in CallIds, Dispatch(c) \/ CancelPreflight(c)
      PROVE  Covered'
  <2>1. CASE Record(c, "ended") /\ phase[c] = "requested"
    BY <1>6, <2>1, RecordKeepsCover DEF Covered, Dispatch, CancelPreflight
  <2>2. CASE UNCHANGED phase
    BY <1>6, <2>2 DEF Covered, Dispatch, CancelPreflight
  <2>. QED  BY <1>6, <2>1, <2>2 DEF Dispatch, CancelPreflight
<1>7. ASSUME NEW c \in CallIds, Report(c) \/ GiveUp(c)
      PROVE  Covered'
  BY <1>7, RecordKeepsCover DEF Report, GiveUp
<1>8. ASSUME NEW c \in CallIds, ReportEnded(c)
      PROVE  Covered'
  BY <1>8, RecordKeepsCover DEF ReportEnded, Busy
<1>9. ASSUME NEW c \in CallIds, EndCall(c)
      PROVE  Covered'
  <2>1. CASE phase[c] = "requested"
    BY <1>9, <2>1, RecordKeepsCover DEF EndCall, Covered
  <2>2. CASE phase[c] # "requested"
    BY <1>9, <2>2, RecordKeepsCover DEF EndCall
  <2>. QED  BY <2>1, <2>2
<1>10. ASSUME NEW c \in CallIds, LineUp(c) \/ LineDown(c)
       PROVE  Covered'
  BY <1>10 DEF Covered, LineUp, LineDown, TypeOK, Busy
<1>11. ASSUME NEW c \in CallIds, ConfirmEnded(c)
       PROVE  Covered'
  BY <1>11, RecordKeepsCover DEF ConfirmEnded, LinesDown
<1>. QED  BY <1>1, <1>2, <1>3, <1>4, <1>5, <1>6, <1>7, <1>8, <1>9, <1>10, <1>11
          DEF Next, Work

LEMMA LinesDownStep ==
  ASSUME TypeOK, OneUnfinished, Covered, LinesDown, [Next]_vars
  PROVE  LinesDown'
<1>1. CASE UNCHANGED vars
  BY <1>1 DEF LinesDown, vars
<1>2. ASSUME NEW c \in CallIds, Reconcile(c)
      PROVE  LinesDown'
  <2>1. \A d \in CallIds : line[d] \in Busy => d \in Unfinished
    BY CarryingUnfinished DEF Covered, Unfinished
  <2>2. \A d \in CallIds : line[d] \notin Busy
    BY <1>2, <2>1 DEF Reconcile, OneUnfinished
  <2>. QED  BY <1>2, <2>2 DEF Reconcile, LinesDown
<1>3. ASSUME NEW c \in CallIds, LineUp(c) \/ LineDown(c)
      PROVE  LinesDown'
  BY <1>3 DEF LineUp, LineDown, LinesDown, TypeOK, Busy
<1>4. CASE \/ StartService \/ PauseRecovered \/ Serve \/ Crash \/ Claim
           \/ ReleaseSafe \/ ReleaseUnknown \/ Pause \/ Resume \/ Close
           \/ CloseRuntime \/ Stop
  BY <1>4 DEF LinesDown, StartService, PauseRecovered, Serve, Crash, Claim,
     ReleaseSafe, ReleaseUnknown, Pause, Resume, Close, CloseRuntime, Stop
<1>5. ASSUME NEW c \in CallIds,
             \/ Create(c) \/ Incoming(c) \/ Work(c) \/ Report(c)
             \/ ReportEnded(c) \/ EndCall(c) \/ GiveUp(c) \/ ConfirmEnded(c)
      PROVE  LinesDown'
  BY <1>5 DEF LinesDown, Create, Incoming, Work, Dispatch, Dial, CancelPreflight,
     Report, ReportEnded, EndCall, GiveUp, ConfirmEnded, Running
<1>. QED  BY <1>1, <1>2, <1>3, <1>4, <1>5 DEF Next

-----------------------------------------------------------------------------
(* Management *)

LEMMA ManagedAloneStep ==
  ASSUME TypeOK, Covered, ManagedAlone, Covered', [Next]_vars
  PROVE  ManagedAlone'
<1>1. Unfinished' = {} => \A c \in CallIds : line'[c] \notin Busy
  BY CarryingUnfinished DEF Covered, Unfinished
<1>2. SUFFICES ASSUME hold' # "none"  PROVE Unfinished' = {}
  BY <1>1 DEF ManagedAlone
<1>3. CASE Claim
  BY <1>3 DEF Claim, Unfinished
<1>4. CASE ~Claim
  <2>1. hold # "none"
    BY <1>2, <1>4 DEF Next, vars, StartService, PauseRecovered, Serve, Crash,
       ReleaseSafe, ReleaseUnknown, Pause, Resume, Close, CloseRuntime, Stop, Create,
       Incoming, Work, Dispatch, Dial, CancelPreflight, Report, ReportEnded, EndCall,
       GiveUp, LineUp, LineDown, Reconcile, ConfirmEnded
  <2>2. Unfinished = {}
    BY <2>1 DEF ManagedAlone
  <2>4. CASE UNCHANGED phase
    BY <2>2, <2>4 DEF Unfinished
  <2>5. ASSUME NEW c \in CallIds, NEW s \in CallState, Record(c, s)
        PROVE  FALSE
    BY <2>2, <2>5, RecordStep
  <2>6. CASE RecoverStep
    BY <2>2, <2>6, RecoveredState DEF RecoverStep, TypeOK, Unfinished
  <2>7. ASSUME NEW c \in CallIds, AdmitStep(c)
        PROVE  FALSE
    BY <2>1, <2>7 DEF AdmitStep
  <2>. QED  BY <2>4, <2>5, <2>6, <2>7, PhaseCases
<1>. QED  BY <1>3, <1>4

-----------------------------------------------------------------------------
(* Pauses owed to an operator *)

LEMMA UncertaintyPausesStep ==
  ASSUME TypeOK, UncertaintyPauses, [Next]_vars
  PROVE  UncertaintyPauses'
<1>. USE DEF UncertaintyPauses
<1>1. CASE UNCHANGED vars
  BY <1>1 DEF vars
<1>2. CASE StartService
  <2>1. \A c \in CallIds : phase[c] \notin {Absent, "ended", "requested"} =>
          phase'[c] = "uncertain" /\ Unfinished # {}
    BY <1>2, RecoveredState DEF StartService, TypeOK, Unfinished
  <2>2. paused' = paused
    BY <1>2 DEF StartService
  <2>3. "unknown cleanup" \in owed' => "unknown cleanup" \in owed
    BY <1>2 DEF StartService
  <2>4. ASSUME "uncertain" \in owed', ~paused
        PROVE  \E c \in CallIds : phase[c] \notin {Absent, "ended", "requested"}
    <3>1. CASE "uncertain" \in owed
      BY <2>4, <3>1 DEF Absent
    <3>2. CASE "uncertain" \notin owed
      BY <1>2, <2>4, <3>2 DEF StartService, Unfinished
    <3>. QED  BY <3>1, <3>2
  <2>5. ASSUME "uncertain" \in owed', ~paused
        PROVE  /\ holder' = "recovered"
               /\ \E c \in CallIds : phase'[c] = "uncertain"
    BY <1>2, <2>1, <2>4, <2>5 DEF StartService
  <2>. QED  BY <2>2, <2>3, <2>5
<1>3. CASE PauseRecovered \/ Pause \/ Stop \/ Resume \/ ReleaseUnknown
  BY <1>3 DEF PauseRecovered, Pause, Stop, Resume, ReleaseUnknown, Running
<1>4. CASE Crash
  BY <1>4 DEF Crash
<1>5. CASE Serve \/ Claim \/ ReleaseSafe \/ Close \/ CloseRuntime
  BY <1>5 DEF Serve, Claim, ReleaseSafe, Close, CloseRuntime, Running
<1>6. ASSUME NEW c \in CallIds, Create(c) \/ Incoming(c) \/ Work(c)
      PROVE  UncertaintyPauses'
  BY <1>6 DEF Create, Incoming, Work, Dispatch, Dial, CancelPreflight, Running
<1>7. ASSUME NEW c \in CallIds, Report(c) \/ ReportEnded(c) \/ EndCall(c) \/ GiveUp(c)
      PROVE  UncertaintyPauses'
  BY <1>7 DEF Report, ReportEnded, EndCall, GiveUp, Running
<1>8. ASSUME NEW c \in CallIds, LineUp(c) \/ LineDown(c) \/ Reconcile(c) \/ ConfirmEnded(c)
      PROVE  UncertaintyPauses'
  BY <1>8 DEF LineUp, LineDown, Reconcile, ConfirmEnded
<1>. QED  BY <1>1, <1>2, <1>3, <1>4, <1>5, <1>6, <1>7, <1>8 DEF Next

-----------------------------------------------------------------------------
(* Calls that waited through a pause, an account change or a restart *)

\* What may change stale or the pause.
LEMMA StaleCases ==
  ASSUME [Next]_vars
  PROVE  \/ StartService \/ Claim \/ PauseRecovered \/ ReleaseUnknown \/ Pause \/ Resume
         \/ Stop \/ (\E c \in CallIds : Reconcile(c))
         \/ UNCHANGED <<stale, paused>>
  BY DEF Next, vars, Serve, Crash, ReleaseSafe, Close, CloseRuntime, Create, Incoming,
     Work, Dispatch, Dial, CancelPreflight, Report, ReportEnded, EndCall, GiveUp,
     LineUp, LineDown, ConfirmEnded

\* A call that is waiting after a step was waiting before it or is new.
LEMMA WaitingBefore ==
  ASSUME TypeOK, [Next]_vars, NEW c \in CallIds
  PROVE  /\ phase'[c] = "requested" => phase[c] \in {"requested", Absent}
         /\ phase'[c] = "requested" /\ StartService => FALSE
         /\ phase'[c] = Absent => phase[c] = Absent
<1>1. ASSUME NEW d \in CallIds, AdmitStep(d)
      PROVE  /\ phase'[c] = "requested" => phase[c] \in {"requested", Absent}
             /\ phase'[c] = Absent => phase[c] = Absent
  BY <1>1 DEF AdmitStep, TypeOK, Absent
<1>2. ASSUME NEW d \in CallIds, NEW s \in CallState, Record(d, s)
      PROVE  /\ phase'[c] = "requested" => phase[c] \in {"requested", Absent}
             /\ phase'[c] = Absent => phase[c] = Absent
  <2>1. s # "requested" /\ s # Absent
    BY <1>2 DEF Record, Allowed, CallState, Absent
  <2>. QED  BY <1>2, <2>1, RecordStep
<1>3. RecoverStep => /\ phase'[c] # "requested"
                     /\ phase'[c] = Absent => phase[c] = Absent
  BY RecoveredState DEF RecoverStep, TypeOK, Absent
<1>4. StartService => RecoverStep
  BY DEF StartService, RecoverStep
<1>. QED  BY <1>1, <1>2, <1>3, <1>4, PhaseCases

\* A pause stays as long as a call that was waiting when it came.
StalePaused ==
  \A c \in stale : phase[c] # Absent /\ (phase[c] = "requested" => paused)

LEMMA StaleStep ==
  ASSUME TypeOK, StalePaused, [Next]_vars
  PROVE  StalePaused'
<1>. USE DEF StalePaused
<1>1. \A c \in Waiting : c \in Unfinished /\ phase[c] # Absent
  BY DEF Waiting, Unfinished, Absent
<1>2. CASE StartService
  <2>1. \A c \in CallIds : /\ phase'[c] # "requested"
                           /\ phase'[c] = Absent => phase[c] = Absent
    BY <1>2, WaitingBefore
  <2>2. stale' = stale \cup Waiting /\ stale' \subseteq CallIds
    BY <1>2 DEF StartService, TypeOK, Waiting
  <2>. QED  BY <1>1, <2>1, <2>2
<1>3. CASE \/ PauseRecovered \/ ReleaseUnknown \/ Pause \/ Stop
           \/ \E c \in CallIds : Reconcile(c)
  <2>1. /\ UNCHANGED phase
        /\ UNCHANGED <<stale, paused>> \/ (paused' /\ stale' = stale \cup Waiting)
    BY <1>3 DEF PauseRecovered, ReleaseUnknown, Pause, Stop, Reconcile
  <2>. QED  BY <1>1, <2>1
<1>4. CASE Claim
  BY <1>1, <1>4 DEF Claim
<1>5. CASE Resume
  BY <1>5 DEF Resume, Unfinished, Absent, TypeOK
<1>6. CASE UNCHANGED <<stale, paused>>
  BY <1>6, WaitingBefore DEF TypeOK
<1>. QED  BY <1>2, <1>3, <1>4, <1>5, <1>6, StaleCases

-----------------------------------------------------------------------------
(* The invariant and the theorems *)

IInv ==
  /\ TypeOK
  /\ OneUnfinished
  /\ Covered
  /\ LinesDown
  /\ ManagedAlone
  /\ UncertaintyPauses
  /\ StalePaused

LEMMA InitIInv == Init => IInv
<1>. SUFFICES ASSUME Init  PROVE IInv
  OBVIOUS
<1>1. TypeOK
  BY DEF Init, TypeOK, Idle, Holder, Task, Line
<1>2. Unfinished = {}
  BY DEF Init, Unfinished
<1>3. \A c \in CallIds : line[c] \notin Busy
  BY DEF Init, Busy
<1>4. owed = {} /\ stale = {} /\ hold = "none"
  BY DEF Init
<1>. QED  BY <1>1, <1>2, <1>3, <1>4
          DEF IInv, OneUnfinished, Covered, LinesDown, ManagedAlone,
              UncertaintyPauses, StalePaused

LEMMA StepIInv == IInv /\ [Next]_vars => IInv'
<1>. SUFFICES ASSUME IInv, [Next]_vars  PROVE IInv'
  OBVIOUS
<1>. USE DEF IInv
<1>1. TypeOK'             BY TypeStep
<1>2. OneUnfinished'      BY OneUnfinishedStep
<1>3. Covered'            BY CoveredStep
<1>4. LinesDown'          BY LinesDownStep
<1>5. ManagedAlone'       BY <1>3, ManagedAloneStep
<1>6. UncertaintyPauses'  BY UncertaintyPausesStep
<1>7. StalePaused'        BY StaleStep
<1>. QED  BY <1>1, <1>2, <1>3, <1>4, <1>5, <1>6, <1>7

LEMMA Invariance == Spec => []IInv
  BY InitIInv, StepIInv, PTL DEF Spec

\* The durable rows, the lock's stages and the lines have their types.
THEOREM TypeCorrect == Spec => []TypeOK
  BY Invariance, PTL DEF IInv

\* Dialling after storing the intent, recovery as uncertain and the
\* operator's reconciliation together keep every line that may be up covered
\* by an unfinished call, through any number of crashes and restarts.
THEOREM LinesCovered == Spec => []LinesHoldCapacity
<1>1. IInv => LinesHoldCapacity
  <2>. SUFFICES ASSUME IInv  PROVE LinesHoldCapacity
    OBVIOUS
  <2>1. \A c \in CallIds : line[c] \in Busy => c \in Unfinished
    BY CarryingUnfinished DEF IInv, Covered, Unfinished
  <2>. QED  BY <2>1 DEF IInv, OneUnfinished, Covered, Carrying, LinesHoldCapacity
<1>. QED  BY <1>1, Invariance, PTL

\* The RuntimeManager's claim and the admission hold keep calls and account
\* changes apart.
THEOREM ManagementExclusive == Spec => []ManagedAlone
  BY Invariance, PTL DEF IInv

\* The order of the writes in startService, reconcile and shutdown keeps
\* calling paused until an operator resumes it, wherever a crash falls.
THEOREM UncertaintyIsPaused == Spec => []UncertaintyPauses
  BY Invariance, PTL DEF IInv

\* start() looks at the pause and the hold only as they are when the backend
\* has answered.  That is enough: a pause outlives every call that was waiting
\* when it came (StalePaused, since resuming needs no call unfinished), an
\* account change never meets a waiting call, and recovery leaves none.
THEOREM DialsCurrent == Spec => DialsAreCurrent
<1>1. ASSUME IInv, Next, NEW c \in CallIds,
             line[c] # "requested", line'[c] = "requested"
      PROVE  c \notin stale
  <2>1. PICK d \in CallIds : Dial(d)
    BY <1>1 DEF IInv, TypeOK, Next, StartService, PauseRecovered, Serve, Crash,
       Claim, ReleaseSafe, ReleaseUnknown, Pause, Resume, Close, CloseRuntime, Stop,
       Create, Incoming, Work, Dispatch, CancelPreflight, Report, ReportEnded,
       EndCall, GiveUp, LineUp, LineDown, Reconcile, ConfirmEnded
  <2>2. d = c
    BY <1>1, <2>1 DEF Dial, IInv, TypeOK
  <2>. QED  BY <1>1, <2>1, <2>2 DEF Dial, MayDial, IInv, StalePaused
<1>2. IInv /\ [Next]_vars =>
        [\A c \in CallIds :
           line[c] # "requested" /\ line'[c] = "requested" => c \notin stale]_vars
  BY <1>1
<1>. QED  BY <1>2, Invariance, PTL DEF Spec, DialsAreCurrent

\* The service, with its crashes, restarts and operator commands, implements
\* the abstract life of calls.
THEOREM Refinement == Spec => ImplementsLifecycle
<1>1. Init => Lifecycle!Init
  BY DEF Init, Lifecycle!Init, Lifecycle!Absent, Absent
<1>2. ASSUME IInv, [Next]_vars
      PROVE  [Lifecycle!Next]_phase
  <2>. USE <1>2 DEF IInv
  <2>1. Lifecycle!Unfinished = Unfinished
    BY DEF Lifecycle!Unfinished, Unfinished, Lifecycle!Absent, Absent
  <2>2. ASSUME NEW c \in CallIds, AdmitStep(c)
        PROVE  Lifecycle!Admit(c)
    BY <2>1, <2>2 DEF AdmitStep, Lifecycle!Admit, Lifecycle!Absent, Absent
  <2>3. ASSUME NEW c \in CallIds, NEW s \in CallState, Record(c, s)
        PROVE  Lifecycle!Move(c, s)
    BY <2>3 DEF Record, Lifecycle!Move, Allowed, Lifecycle!Allowed, CallState,
       Lifecycle!CallState
  <2>4. CASE RecoverStep
    <3>1. CASE Unfinished = {}
      <4>1. \A c \in CallIds : phase'[c] = phase[c]
        BY <2>4, <3>1 DEF RecoverStep, Recovered, Unfinished
      <4>2. phase' = phase
        BY <2>4, <4>1 DEF RecoverStep, TypeOK
      <4>. QED  BY <4>2
    <3>2. ASSUME NEW c \in Unfinished
          PROVE  Lifecycle!Move(c, Recovered(phase[c])) \/ UNCHANGED phase
      <4>1. \A d \in CallIds : d # c => Recovered(phase[d]) = phase[d]
        BY <3>2 DEF OneUnfinished, Unfinished, Recovered
      <4>2. phase' = [phase EXCEPT ![c] = Recovered(phase[c])]
        BY <2>4, <4>1 DEF RecoverStep, TypeOK
      <4>3. \/ Recovered(phase[c]) = phase[c]
            \/ Lifecycle!Allowed(phase[c], Recovered(phase[c]))
        BY <3>2 DEF TypeOK, Unfinished, Recovered, CallState, Lifecycle!Allowed,
           Lifecycle!CallState
      <4>. QED  BY <4>2, <4>3 DEF Lifecycle!Move, TypeOK
    <3>3. \A c \in Unfinished : c \in CallIds /\ Recovered(phase[c]) \in CallState
      BY RecoveredState DEF TypeOK, Unfinished, CallState, Recovered
    <3>. QED  BY <3>1, <3>2, <3>3 DEF Lifecycle!Next, CallState, Lifecycle!CallState
  <2>5. CallState = Lifecycle!CallState
    BY DEF CallState, Lifecycle!CallState
  <2>. QED  BY <2>2, <2>3, <2>4, <2>5, PhaseCases DEF Lifecycle!Next
<1>. QED  BY <1>1, <1>2, Invariance, PTL DEF Spec, Lifecycle!Spec, ImplementsLifecycle
=============================================================================
