--------------------------- MODULE BridgeService ---------------------------
(***************************************************************************)
(* The bridge process around the call store: the process lock, start,      *)
(* recovery and shutdown (apps/bridge/src/cli-service.ts), the commands an *)
(* operator runs offline (cli-commands.ts) and online (console-service.ts),*)
(* the admission of calls over HTTP and from the platform (server.ts, the  *)
(* runtime's incoming and start), and the RuntimeManager's hold on         *)
(* admission while accounts and settings change.                           *)
(*                                                                         *)
(* A crash may come between any two steps; the store and the platform's    *)
(* lines survive it, everything else is lost.  Of the store only the call  *)
(* states are kept (CallStore implements the lifecycle used here); of the  *)
(* coordinator only when it records, dials and reports (CallRuntime has    *)
(* its detail, and says where it departs from the reports assumed here).   *)
(***************************************************************************)
EXTENDS CallStates

CONSTANT CallIds

VARIABLES
  phase,      \* store: the state of every call
  paused,     \* store: the metadata row "paused"
  holder,     \* the program that holds the process lock, and its stage
  hold,       \* RuntimeManager: "none", "leased", or "stuck" after a cleanup
              \* of unknown outcome
  task,       \* what the process still has to do for a call
  line,       \* platform: the voice line of a call
  owed,       \* history: what happened since an operator last resumed calling
  stale       \* history: calls still waiting for their dial when a pause, an
              \* account change or a restart came

vars == <<phase, paused, holder, hold, task, line, owed, stale>>

\* Stages of the service: lock and store open and recover() committed; runtime
\* being started; HTTP up; HTTP closed; runtime closing.  "reconciling" is the
\* offline command between its two writes.
Holder == {"none", "recovered", "starting", "serving", "closing", "stopping",
           "reconciling"}
Running == {"starting", "serving", "closing", "stopping"}

\* queued: dispatch scheduled with setImmediate; preflight: awaiting the
\* backend's context; live: the runtime's active call.
Task == {"none", "queued", "preflight", "live"}

\* requested: the dial or accept was sent and nothing is known; alive: the
\* platform carries the call.  offered: an incoming call not accepted.
Line == {"idle", "offered", "requested", "alive", "gone"}
Busy == {"requested", "alive"}

Idle == [c \in CallIds |-> "none"]

Lifecycle == INSTANCE CallLifecycle

Unfinished == {c \in CallIds : phase[c] \notin {Absent, "ended"}}
Waiting == {c \in CallIds : phase[c] = "requested"}

Init ==
  /\ phase = [c \in CallIds |-> Absent]
  /\ paused = FALSE
  /\ holder = "none"
  /\ hold = "none"
  /\ task = Idle
  /\ line = [c \in CallIds |-> "idle"]
  /\ owed = {}
  /\ stale = {}

\* store.transition: refused unless the table allows it.
Record(c, s) ==
  /\ Allowed(phase[c], s)
  /\ phase' = [phase EXCEPT ![c] = s]

-----------------------------------------------------------------------------
(* Start and recovery *)

\* Faulty: a call whose dial was stored is cancelled like a requested one.
RecoveredAsCancelled(s) ==
  IF s \in {Absent, "ended"} THEN s
  ELSE IF s \in {"requested", "dialing"} THEN "ended" ELSE "uncertain"

\* Faulty: a requested call waits for a dispatch after the restart.
RecoveredAsRequested(s) ==
  IF s \in {Absent, "ended", "requested"} THEN s ELSE "uncertain"

\* recover(): a call that was only requested is cancelled, any other
\* unfinished one stays as an uncertain call.
Recovered(s) ==
  IF s \in {Absent, "ended"} THEN s
  ELSE IF s = "requested" THEN "ended" ELSE "uncertain"

\* recover() returns every call it found unfinished.
StartService ==
  /\ holder = "none"
  /\ phase' = [c \in CallIds |-> Recovered(phase[c])]
  /\ holder' = IF Unfinished = {} THEN "starting" ELSE "recovered"
  /\ owed' = owed \cup {"recovered" : c \in Unfinished}
                  \cup {"uncertain" : c \in {d \in Unfinished : phase[d] # "requested"}}
  /\ stale' = stale \cup Waiting
  /\ UNCHANGED <<paused, hold, task, line>>

\* if (store.recover().length) store.setPaused(true): a second transaction.
PauseRecovered ==
  /\ holder = "recovered"
  /\ holder' = "starting"
  /\ paused' = TRUE
  /\ stale' = stale \cup Waiting
  /\ UNCHANGED <<phase, hold, task, line, owed>>

Serve ==
  /\ holder = "starting"
  /\ holder' = "serving"
  /\ UNCHANGED <<phase, paused, hold, task, line, owed, stale>>

\* The process, or an offline command, dies; its lock goes with it.
Crash ==
  /\ holder # "none"
  /\ holder' = "none"
  /\ hold' = "none"
  /\ task' = Idle
  /\ UNCHANGED <<phase, paused, line, owed, stale>>

-----------------------------------------------------------------------------
(* Admission and dispatch *)

\* Faulty: a call waits beside an unfinished one.
AdmissionDespiteCall == ~paused /\ hold = "none"

AdmissionOpen == ~paused /\ hold = "none" /\ Unfinished = {}

\* POST /v1/calls: the call is stored and its dispatch left to a later tick.
Create(c) ==
  /\ holder = "serving"
  /\ AdmissionOpen
  /\ phase[c] = Absent
  /\ phase' = [phase EXCEPT ![c] = "requested"]
  /\ task' = [task EXCEPT ![c] = "queued"]
  /\ UNCHANGED <<paused, holder, hold, line, owed, stale>>

\* An allowed caller rings: stored and started in the same tick.  The runtime
\* answers its platforms from its start until it is closed itself.
Incoming(c) ==
  /\ holder \in {"starting", "serving", "closing"}
  /\ AdmissionOpen
  /\ phase[c] = Absent
  /\ phase' = [phase EXCEPT ![c] = "requested"]
  /\ task' = [task EXCEPT ![c] = "preflight"]
  /\ line' = [line EXCEPT ![c] = "offered"]
  /\ UNCHANGED <<paused, holder, hold, owed, stale>>

\* onCallCreated in its own tick, unless the server is closing by then.
Dispatch(c) ==
  /\ holder = "serving"
  /\ task[c] = "queued"
  /\ IF phase[c] = "requested" /\ (paused \/ hold # "none")
       THEN Record(c, "ended") /\ task' = [task EXCEPT ![c] = "none"]
       ELSE /\ task' = [task EXCEPT ![c] = IF phase[c] = "requested"
                                             THEN "preflight" ELSE "none"]
            /\ UNCHANGED phase
  /\ UNCHANGED <<paused, holder, hold, line, owed, stale>>

\* What start() checks again when the backend's answer is in.
MayDial(c) ==
  /\ phase[c] = "requested"
  /\ ~paused
  /\ hold = "none"
  /\ holder # "stopping"

\* The intent is stored before the platform is asked to dial or to accept.
Dial(c) ==
  /\ holder \in Running
  /\ task[c] = "preflight"
  /\ MayDial(c)
  /\ Record(c, IF line[c] = "idle" THEN "dialing" ELSE "ringing")
  /\ task' = [task EXCEPT ![c] = "live"]
  /\ line' = [line EXCEPT ![c] = IF @ = "gone" THEN "gone" ELSE "requested"]
  /\ UNCHANGED <<paused, holder, hold, owed, stale>>

\* Paused, closing, obsolete, expired, cancelled, or the backend failed.
CancelPreflight(c) ==
  /\ holder \in Running
  /\ task[c] = "preflight"
  /\ IF phase[c] = "requested" THEN Record(c, "ended") ELSE UNCHANGED phase
  /\ task' = [task EXCEPT ![c] = "none"]
  /\ UNCHANGED <<paused, holder, hold, line, owed, stale>>

-----------------------------------------------------------------------------
(* The call in progress *)

\* The platform reports ringing or an answer.
Report(c) ==
  /\ holder \in Running
  /\ task[c] = "live"
  /\ line[c] = "alive"
  /\ phase[c] \in {"dialing", "ringing"}
  /\ \E s \in {"ringing", "connected"} : Record(c, s)
  /\ UNCHANGED <<paused, holder, hold, task, line, owed, stale>>

\* The platform reports that the line of the active call is gone.
ReportEnded(c) ==
  /\ holder \in Running
  /\ task[c] = "live"
  /\ line[c] = "gone"
  /\ Record(c, "ended")
  /\ task' = [task EXCEPT ![c] = "none"]
  /\ UNCHANGED <<paused, holder, hold, line, owed, stale>>

\* POST /v1/calls/:id/end.
EndCall(c) ==
  /\ holder = "serving"
  /\ phase[c] \in {"requested"} \cup Established
  /\ Record(c, IF phase[c] = "requested" THEN "ended" ELSE "ending")
  /\ UNCHANGED <<paused, holder, hold, task, line, owed, stale>>

\* stop(): the runtime gives the call up and asks the platform to end it;
\* without confirmation the outcome is uncertain.
GiveUp(c) ==
  /\ holder \in Running
  /\ task[c] = "live"
  /\ \E s \in {"ending", "uncertain"} : Record(c, s)
  /\ UNCHANGED <<paused, holder, hold, task, line, owed, stale>>

LineUp(c) ==
  /\ line[c] = "requested"
  /\ line' = [line EXCEPT ![c] = "alive"]
  /\ UNCHANGED <<phase, paused, holder, hold, task, owed, stale>>

LineDown(c) ==
  /\ line[c] \in Busy \cup {"offered"}
  /\ line' = [line EXCEPT ![c] = "gone"]
  /\ UNCHANGED <<phase, paused, holder, hold, task, owed, stale>>

-----------------------------------------------------------------------------
(* Management: settings and account changes *)

Claim ==
  /\ holder = "serving"
  /\ hold = "none"
  /\ Unfinished = {}
  /\ hold' = "leased"
  /\ stale' = stale \cup Waiting
  /\ UNCHANGED <<phase, paused, holder, task, line, owed>>

ReleaseSafe ==
  /\ holder \in Running
  /\ hold = "leased"
  /\ hold' = "none"
  /\ UNCHANGED <<phase, paused, holder, task, line, owed, stale>>

\* finish(true): the hold stays for the life of the process and the pause for
\* longer.
ReleaseUnknown ==
  /\ holder \in Running
  /\ hold = "leased"
  /\ hold' = "stuck"
  /\ paused' = TRUE
  /\ owed' = owed \cup {"unknown cleanup"}
  /\ stale' = stale \cup Waiting
  /\ UNCHANGED <<phase, holder, task, line>>

-----------------------------------------------------------------------------
(* The operator *)

Pause ==
  /\ holder = "serving"
  /\ paused' = TRUE
  /\ stale' = stale \cup Waiting
  /\ UNCHANGED <<phase, holder, hold, task, line, owed>>

\* Faulty: calling is resumed beside an unfinished call.
ResumeBesideCall ==
  /\ \/ holder = "serving" /\ hold = "none"
     \/ holder = "none"
  /\ paused' = FALSE
  /\ owed' = {}
  /\ UNCHANGED <<phase, holder, hold, task, line, stale>>

\* POST /v1/control/resume, or the offline command while nothing else runs.
Resume ==
  /\ \/ holder = "serving" /\ hold = "none"
     \/ holder = "none"
  /\ Unfinished = {}
  /\ paused' = FALSE
  /\ owed' = {}
  /\ UNCHANGED <<phase, holder, hold, task, line, stale>>

\* Faulty: the pause is left to the next start.
ReconcileUnpaused(c) ==
  /\ holder = "none"
  /\ c \in Unfinished
  /\ line[c] \notin Busy
  /\ holder' = "reconciling"
  /\ UNCHANGED <<phase, paused, hold, task, line, owed, stale>>

\* reconcile --confirm-ended, for a call the operator has seen end: the pause
\* is stored first, the end of the call after it.
Reconcile(c) ==
  /\ holder = "none"
  /\ c \in Unfinished
  /\ line[c] \notin Busy
  /\ paused' = TRUE
  /\ holder' = "reconciling"
  /\ stale' = stale \cup Waiting
  /\ UNCHANGED <<phase, hold, task, line, owed>>

ConfirmEnded(c) ==
  /\ holder = "reconciling"
  /\ c \in Unfinished
  /\ Record(c, "ended")
  /\ holder' = "none"
  /\ UNCHANGED <<paused, hold, task, line, owed, stale>>

-----------------------------------------------------------------------------
(* Shutdown *)

\* app.close(): no further request, and scheduled dispatches are dropped.
Close ==
  /\ holder \in {"starting", "serving"}
  /\ holder' = "closing"
  /\ UNCHANGED <<phase, paused, hold, task, line, owed, stale>>

\* runtime.close(): no further admission and no further dial.
CloseRuntime ==
  /\ holder = "closing"
  /\ holder' = "stopping"
  /\ UNCHANGED <<phase, paused, hold, task, line, owed, stale>>

\* The runtime closed in time; its active call, if any, is given up.
Settled == /\ hold # "leased"
           /\ \A c \in CallIds : task[c] = "live" =>
                phase[c] \in {"uncertain", "ended"}

\* Detach the store, close it and release the lock.  A bounded step that
\* failed or ran out of time is stored as a pause first.
Stop ==
  /\ holder = "stopping"
  /\ \/ Settled /\ UNCHANGED <<paused, owed, stale>>
     \/ /\ paused' = TRUE
        /\ owed' = owed \cup {"unknown cleanup"}
        /\ stale' = stale \cup Waiting
  /\ holder' = "none"
  /\ hold' = "none"
  /\ task' = Idle
  /\ UNCHANGED <<phase, line>>

-----------------------------------------------------------------------------
Work(c) ==
  \/ Dispatch(c)
  \/ Dial(c)
  \/ CancelPreflight(c)

Next ==
  \/ StartService \/ PauseRecovered \/ Serve \/ Crash
  \/ Claim \/ ReleaseSafe \/ ReleaseUnknown
  \/ Pause \/ Resume
  \/ Close \/ CloseRuntime \/ Stop
  \/ \E c \in CallIds :
       \/ Create(c) \/ Incoming(c) \/ Work(c)
       \/ Report(c) \/ ReportEnded(c) \/ EndCall(c) \/ GiveUp(c)
       \/ LineUp(c) \/ LineDown(c)
       \/ Reconcile(c) \/ ConfirmEnded(c)

Spec == Init /\ [][Next]_vars

\* Scheduled work runs, stop() has a deadline, shutdown is bounded in time;
\* whoever runs the bridge starts it again and again after it went down.
Fairness ==
  /\ SF_vars(StartService)
  /\ WF_vars(PauseRecovered)
  /\ WF_vars(CloseRuntime)
  /\ WF_vars(Stop)
  /\ \A c \in CallIds :
       WF_vars(Work(c)) /\ WF_vars(GiveUp(c)) /\ WF_vars(ConfirmEnded(c))

FairSpec == Spec /\ Fairness
-----------------------------------------------------------------------------
TypeOK ==
  /\ phase \in [CallIds -> CallState \cup {Absent}]
  /\ paused \in BOOLEAN
  /\ holder \in Holder
  /\ hold \in {"none", "leased", "stuck"}
  /\ task \in [CallIds -> Task]
  /\ line \in [CallIds -> Line]
  /\ owed \subseteq {"recovered", "uncertain", "unknown cleanup"}
  /\ stale \subseteq CallIds

\* A line that may be up always belongs to a call that still holds the
\* account's one place: no crash, restart, shutdown or operator command frees
\* it, so a second line is never asked for beside the first.
LinesHoldCapacity ==
  /\ \A c \in CallIds : line[c] \in Busy =>
       phase[c] \in Established \cup {"ending", "uncertain"}
  /\ \A c, d \in CallIds : line[c] \in Busy /\ line[d] \in Busy => c = d

\* While accounts or settings change, and after a change whose cleanup is
\* unknown, no call is unfinished and no line is up.
ManagedAlone ==
  hold # "none" =>
    /\ Unfinished = {}
    /\ \A c \in CallIds : line[c] \notin Busy

\* After a restart that found a call with external intent, and after a
\* cleanup of unknown outcome, calling stays paused through every further
\* crash and restart until an operator resumes it; the call itself stays
\* until the operator has confirmed its end.
UncertaintyPauses ==
  /\ "unknown cleanup" \in owed => paused
  /\ "uncertain" \in owed =>
       \/ paused
       \/ /\ holder \in {"none", "recovered"}
          /\ \E c \in CallIds : phase[c] = "uncertain"

\* The runtime looks at the pause and the hold only as they are when the
\* backend's answer is in.  A dial, or the answer to a caller, is still never
\* sent for a call that was waiting when calling was paused, even if it has
\* been resumed since, when an account change claimed the runtime, even if
\* that is over, or when a process started again.
DialsAreCurrent ==
  [][\A c \in CallIds :
       line[c] # "requested" /\ line'[c] = "requested" => c \notin stale]_vars

\* The service implements the life of calls; no restart revives one.
ImplementsLifecycle == Lifecycle!Spec

\* No call stays requested or ending: dispatched, cancelled, dropped by a
\* shutdown or cut off by a crash, it is dialled, ends, or becomes uncertain.
CallsAreSettled ==
  \A c \in CallIds : phase[c] \in {"requested", "ending"}
                       ~> phase[c] \notin {"requested", "ending"}

\* docs/operations.md:15 of recovery: "Any recovered call persists a global
\* pause until an operator" resumes.
RecoveryPauses == holder = "serving" /\ "recovered" \in owed => paused
=============================================================================
