---------------------------- MODULE CallRuntime ----------------------------
(***************************************************************************)
(* The call coordinator of packages/runtime/src/index.ts between the call  *)
(* store, the voice driver of a platform, the Live session and the         *)
(* backend.  It is single-threaded: an action is one turn of the event     *)
(* loop, from a callback or a resumed await to the next await, and every   *)
(* await leaves a continuation that may find the call in another state.    *)
(*                                                                         *)
(* One receiving target on one platform; one run of the process, from its  *)
(* start until it is disposed (BridgeService has the restarts).            *)
(* Transcripts, delegations, results and the event outbox are not here.    *)
(***************************************************************************)
EXTENDS CallStates

CONSTANTS
  CallIds, NoCall,
  Refs, NoRef,    \* the platform's references of its voice legs
  StrayEnds       \* may the end of one leg be reported while another is
                  \* dialled and its reference is not known yet?

ASSUME NoCallAssumption == NoCall \notin CallIds
ASSUME NoRefAssumption == NoRef \notin Refs
ASSUME StrayEndsAssumption == StrayEnds \in BOOLEAN

VARIABLES
  phase,      \* store: the state of every call
  liveReady,  \* store: live_ready of every call
  usage,      \* store: the usage row of every call
  paused,     \* store: isPaused
  active,     \* active?.callId
  object,     \* the Active object of every call, kept by its continuations
  start,      \* where start() is for a call
  stop,       \* "ending" while stop() awaits voice.end; "shutdown" if close()
              \* awaits that stop()
  endTask,    \* calls whose onEnd is scheduled
  serving,    \* "open", "closing", "disposed"
  channel,    \* is the target's channel in readyChannels?
  leg,        \* platform: the state of every leg
  mine,       \* the leg a call was dialled on or offered with
  asked       \* legs the driver was asked to end

store == <<phase, liveReady, usage>>
platform == <<leg, mine>>
vars == <<phase, liveReady, usage, paused, active, object, start, stop, endTask,
          serving, channel, leg, mine, asked>>

\* live: no session; started; ready and asked for the greeting's context;
\* greeted; close() called and finalTimer set; liveFinalized.
\* timer: the one that is running, if any.
Object == [ref : Refs \cup {NoRef}, stopping : BOOLEAN, media : BOOLEAN,
           live : {"none", "started", "greeting", "greeted", "closing", "final"},
           timer : {"off", "ring", "duration"}]

\* incomplete may still be settled; zero and metered are final; conflict is
\* the error usage_settlement_conflict, thrown into a handler that has no
\* catch for it.
Usage == {"none", "reserved", "zero", "metered", "incomplete", "conflict"}

Start == {"none", "queued", "preflight", "platform", "returned", "failed", "over"}

Leg == {"free", "offer", "dialing", "up", "gone"}

NewObject(r) == [ref |-> r, stopping |-> FALSE, media |-> FALSE,
                 live |-> "none", timer |-> "ring"]

Init ==
  /\ phase = [c \in CallIds |-> Absent]
  /\ liveReady = [c \in CallIds |-> FALSE]
  /\ usage = [c \in CallIds |-> "none"]
  /\ paused = FALSE
  /\ active = NoCall
  /\ object = [c \in CallIds |-> [NewObject(NoRef) EXCEPT !.timer = "off"]]
  /\ start = [c \in CallIds |-> "none"]
  /\ stop = [c \in CallIds |-> "none"]
  /\ endTask = {}
  /\ serving = "open"
  /\ channel = TRUE
  /\ leg = [r \in Refs |-> "free"]
  /\ mine = [c \in CallIds |-> NoRef]
  /\ asked = {}

Lifecycle == INSTANCE CallLifecycle

Unfinished == {c \in CallIds : phase[c] \notin {Absent, "ended"}}

-----------------------------------------------------------------------------
(* What the handlers share *)

\* Faulty: every report of the platform is stored.
SafeAnyway(s, t) == t

\* safeTransition: the state stored after a request for t in state s.  The
\* store's table refuses all that the order of the states forbids, but for
\* the way back from uncertain to ending.
Safe(s, t) == IF Allowed(s, t) /\ (s # "uncertain" \/ t = "ended") THEN t ELSE s

\* settleUsage: with seconds ("zero", "metered") or without ("incomplete").
Settle(u, what) ==
  IF u \in {"zero", "metered"}
    THEN IF what = u THEN u ELSE "conflict"
    ELSE what

\* current(a)
Current(c) == active = c /\ serving = "open"

\* Faulty: a session that is not ready yet is not closed.
HaltedWhenReady(o) ==
  [o EXCEPT !.stopping = TRUE, !.timer = "off",
            !.live = IF @ \in {"greeting", "greeted"} THEN "closing" ELSE @]

\* clearMedia and finishLive, in stop() and when the platform reports the end.
Halted(o) ==
  [o EXCEPT !.stopping = TRUE, !.timer = "off",
            !.live = IF @ \in {"started", "greeting", "greeted"}
                       THEN "closing" ELSE @]

\* Write the call's row and its object; the store clears live_ready in the
\* quiescent states.
Put(c, s, o) ==
  /\ phase' = [phase EXCEPT ![c] = s]
  /\ liveReady' = [liveReady EXCEPT ![c] = @ /\ s \notin Quiescent]
  /\ object' = [object EXCEPT ![c] = o]

\* Faulty: no reference is taken for no call.
StopAsNoCall(c, s, t, o) ==
  /\ Put(c, Safe(t, "ended"), Halted(o))
  /\ usage' = [usage EXCEPT ![c] = IF o.live = "none" THEN Settle(@, "zero") ELSE @]
  /\ UNCHANGED <<stop, asked>>

\* Without a reference: once the intent to dial was stored, having none is
\* not a proof of no call.
StopWithoutRef(c, s, t, o) ==
  /\ Put(c, Safe(t, IF s = "requested" THEN "ended" ELSE "uncertain"), Halted(o))
  /\ usage' = [usage EXCEPT ![c] =
                 IF o.live # "none" THEN @
                 ELSE Settle(@, IF s = "requested" THEN "zero" ELSE "incomplete")]
  /\ UNCHANGED <<stop, asked>>

\* With one: the driver is asked to end the leg, and awaited.
StopByRef(c, t, o, why) ==
  /\ Put(c, t, Halted(o))
  /\ stop' = [stop EXCEPT ![c] = IF why = "shutdown" THEN "shutdown" ELSE "ending"]
  /\ asked' = asked \cup {o.ref}
  /\ UNCHANGED usage

\* stop() up to its first await, on object o in state s; why is "known" if
\* the coordinator decided to stop, else the outcome is declared uncertain.
StopCall(c, s, o, why) ==
  LET t == Safe(s, IF why = "known" THEN "ending" ELSE "uncertain")
  IN  IF o.stopping THEN Put(c, s, o) /\ UNCHANGED <<usage, stop, asked>>
      ELSE IF o.ref = NoRef THEN StopWithoutRef(c, s, t, o)
      ELSE StopByRef(c, t, o, why)

\* beginLive: what must have happened before a Live session is opened.
CanBeginLive(c, s, o) ==
  /\ Current(c)
  /\ ~o.stopping /\ o.live = "none" /\ o.media /\ o.ref # NoRef
  /\ s = "connected"

BeginLive(c, s, o) ==
  IF CanBeginLive(c, s, o)
    THEN \/ /\ Put(c, s, [o EXCEPT !.live = "started"])
            /\ UNCHANGED <<usage, stop, asked>>
         \/ \E l \in {"none", "started"} :      \* live_start_failed
              StopCall(c, s, [o EXCEPT !.live = l], "known")
    ELSE Put(c, s, o) /\ UNCHANGED <<usage, stop, asked>>

-----------------------------------------------------------------------------
(* Admission and start() *)

Admit(c) ==
  /\ ~paused
  /\ Unfinished = {}
  /\ phase[c] = Absent
  /\ phase' = [phase EXCEPT ![c] = "requested"]
  /\ UNCHANGED liveReady

\* What start() checks before its first await.
Refused == serving # "open" \/ paused \/ ~channel

\* POST /v1/calls: start() runs in a later tick, if the server is still open.
Create(c) ==
  /\ serving = "open" /\ channel
  /\ Admit(c)
  /\ start' = [start EXCEPT ![c] = "queued"]
  /\ UNCHANGED <<usage, paused, active, object, stop, endTask, serving, channel,
                 platform, asked>>

\* Refuse the call, for a reason above or because the daily budget does not
\* allow it; or reserve its budget and ask the backend for context.
Begin(c) ==
  \/ /\ phase' = [phase EXCEPT ![c] = "ended"]
     /\ start' = [start EXCEPT ![c] = "over"]
     /\ UNCHANGED usage
  \/ /\ ~Refused
     /\ usage' = [usage EXCEPT ![c] = "reserved"]
     /\ start' = [start EXCEPT ![c] = "preflight"]
     /\ UNCHANGED phase

\* A call that found the slot taken would stay requested; SlotMatchesCapacity
\* says that none does.
StartQueued(c) ==
  /\ start[c] = "queued"
  /\ serving # "disposed"
  /\ \/ /\ phase[c] # "requested" \/ active # NoCall \/ serving # "open"
        /\ start' = [start EXCEPT ![c] = "over"]
        /\ UNCHANGED <<phase, usage>>
     \/ phase[c] = "requested" /\ active = NoCall /\ Begin(c)
  /\ UNCHANGED <<liveReady, paused, active, object, stop, endTask, serving,
                 channel, platform, asked>>

\* incoming(): an admitted offer is started in the same tick (a step of its
\* own here, since it writes again); one that is not admitted is rejected,
\* which ends its leg sooner or later.
Offer(r) ==
  /\ leg[r] = "free"
  /\ serving # "disposed"
  /\ leg' = [leg EXCEPT ![r] = "offer"]
  /\ \/ /\ serving = "open"
        /\ \E c \in CallIds :
             /\ Admit(c)
             /\ mine' = [mine EXCEPT ![c] = r]
             /\ start' = [start EXCEPT ![c] = "queued"]
     \/ UNCHANGED <<phase, liveReady, start, mine>>
  /\ UNCHANGED <<usage, paused, active, object, stop, endTask, serving, channel, asked>>

\* The backend's context did not come, is obsolete, or the state of the
\* bridge changed while it was awaited.
CancelPreflight(c) ==
  /\ start[c] = "preflight"
  /\ serving # "disposed"
  /\ start' = [start EXCEPT ![c] = "over"]
  /\ phase' = [phase EXCEPT ![c] = IF @ = "requested" THEN "ended" ELSE @]
  /\ usage' = [usage EXCEPT ![c] = Settle(@, "zero")]
  /\ UNCHANGED <<liveReady, paused, active, object, stop, endTask, serving,
                 channel, platform, asked>>

\* What start() checks after that await.
MayDial(c) == serving = "open" /\ ~paused /\ phase[c] = "requested" /\ active = NoCall

\* Store the intent, become the active call, and ask the platform: for an
\* outgoing call on a leg whose reference only the answer tells.
Dial(c) ==
  /\ start[c] = "preflight"
  /\ MayDial(c)
  /\ phase' = [phase EXCEPT ![c] = IF mine[c] = NoRef THEN "dialing" ELSE "ringing"]
  /\ active' = c
  /\ object' = [object EXCEPT ![c] = NewObject(mine[c])]
  /\ start' = [start EXCEPT ![c] = "platform"]
  /\ \E r \in Refs :
       /\ IF mine[c] = NoRef THEN leg[r] = "free" ELSE r = mine[c]
       /\ mine' = [mine EXCEPT ![c] = r]
       /\ leg' = [leg EXCEPT ![r] = IF @ = "gone" THEN "gone" ELSE "dialing"]
  /\ UNCHANGED <<liveReady, usage, paused, stop, endTask, serving, channel, asked>>

\* Faulty: only the slot is looked at, not whether the call was given up.
ReturnedToSlot(c) ==
  /\ start[c] = "platform"
  /\ start' = [start EXCEPT ![c] = "returned"]
  /\ object' = [object EXCEPT ![c].ref = mine[c]]
  /\ asked' = IF Current(c) THEN asked ELSE asked \cup {mine[c]}
  /\ UNCHANGED <<store, paused, active, stop, endTask, serving, channel, platform>>

\* dial or accept resolved: remember the reference; a call given up meanwhile
\* is hung up at once.
Returned(c) ==
  /\ start[c] = "platform"
  /\ start' = [start EXCEPT ![c] = "returned"]
  /\ object' = [object EXCEPT ![c].ref = mine[c]]
  /\ asked' = IF object[c].stopping \/ ~Current(c)
                THEN asked \cup {mine[c]} ELSE asked
  /\ UNCHANGED <<store, paused, active, stop, endTask, serving, channel, platform>>

\* dial or accept failed: the platform may have acted all the same.
Failed(c) ==
  /\ start[c] = "platform"
  /\ start' = [start EXCEPT ![c] = "failed"]
  /\ StopCall(c, phase[c], object[c], "unknown")
  /\ UNCHANGED <<paused, active, endTask, serving, channel, platform>>

-----------------------------------------------------------------------------
(* Callbacks of the voice driver *)

\* A callback that names leg r concerns the active call unless that call is
\* known to be on another leg.
Concerns(c, r) ==
  /\ serving # "disposed"
  /\ active = c
  /\ c # NoCall
  /\ object[c].ref \in {NoRef, r}

\* connected replaces the ring timer by the timer of the call's length.
TimerAfter(o, s) ==
  IF s = "connected" /\ ~o.stopping THEN "duration" ELSE o.timer

\* state(ref, "dialing" | "ringing" | "connected"); connected may open Live.
Progress(c, r, s) ==
  /\ Concerns(c, r)
  /\ r = mine[c]
  /\ IF s = "connected" THEN leg[r] = "up" ELSE leg[r] \in {"dialing", "up"}
  /\ LET o == [object[c] EXCEPT !.ref = r, !.timer = TimerAfter(object[c], s)]
         t == Safe(phase[c], s)
     IN  IF s = "connected" THEN BeginLive(c, t, o)
         ELSE Put(c, t, o) /\ UNCHANGED <<usage, stop, asked>>
  /\ UNCHANGED <<paused, active, start, endTask, serving, channel, platform>>

\* state(ref, "ended")
Ended(c, r) ==
  /\ Concerns(c, r)
  /\ leg[r] = "gone"
  /\ r = mine[c] \/ StrayEnds
  /\ Put(c, Safe(phase[c], "ended"), Halted([object[c] EXCEPT !.ref = r]))
  /\ usage' = [usage EXCEPT ![c] =
                 IF object[c].live = "none" THEN Settle(@, "zero") ELSE @]
  /\ active' = NoCall
  /\ UNCHANGED <<paused, start, stop, endTask, serving, channel, platform, asked>>

\* state(ref, "uncertain"), with the reference of the call's leg or none; it
\* also stands for fault() without the loss of the channel.
Uncertain(c) ==
  /\ \E r \in {mine[c], object[c].ref} :
       /\ Concerns(c, r)
       /\ StopCall(c, Safe(phase[c], "uncertain"), [object[c] EXCEPT !.ref = r], "unknown")
  /\ UNCHANGED <<paused, active, start, endTask, serving, channel, platform>>

\* fault(): the driver's process or stream is lost.
Fault ==
  /\ channel
  /\ channel' = FALSE
  /\ IF active # NoCall
       THEN StopCall(active, phase[active], object[active], "unknown")
       ELSE UNCHANGED <<store, object, stop, asked>>
  /\ UNCHANGED <<paused, active, start, endTask, serving, platform>>

\* audioReady(ref)
AudioReady(c, r) ==
  /\ Concerns(c, r)
  /\ r = mine[c]
  /\ leg[r] = "up"
  /\ BeginLive(c, phase[c], [object[c] EXCEPT !.ref = r, !.media = TRUE])
  /\ UNCHANGED <<paused, active, start, endTask, serving, channel, platform>>

\* The callee answers; either side, the network or an end request ends a leg.
LegUp(r) ==
  /\ leg[r] = "dialing"
  /\ leg' = [leg EXCEPT ![r] = "up"]
  /\ UNCHANGED <<store, paused, active, object, start, stop, endTask, serving,
                 channel, mine, asked>>

LegGone(r) ==
  /\ leg[r] \in {"offer", "dialing", "up"}
  /\ leg' = [leg EXCEPT ![r] = "gone"]
  /\ UNCHANGED <<store, paused, active, object, start, stop, endTask, serving,
                 channel, mine, asked>>

-----------------------------------------------------------------------------
(* Events of the Live session *)

\* ready: media flows, and the backend is asked for the greeting's context.
LiveReady(c) ==
  /\ serving # "disposed"
  /\ object[c].live = "started"
  /\ Current(c) /\ ~object[c].stopping
  /\ phase' = [phase EXCEPT ![c] = Safe(@, "connected")]
  /\ liveReady' = [liveReady EXCEPT ![c] = @ \/ phase[c] = "connected"]
  /\ object' = [object EXCEPT ![c].live = "greeting"]
  /\ UNCHANGED <<usage, paused, active, start, stop, endTask, serving, channel,
                 platform, asked>>

\* The context came, and is spoken only if the call still goes on; or it did
\* not come.
Greet(c) ==
  /\ object[c].live = "greeting"
  /\ serving # "disposed"
  /\ \/ /\ Current(c) /\ ~object[c].stopping /\ phase[c] = "connected"
        /\ Put(c, phase[c], [object[c] EXCEPT !.live = "greeted"])
        /\ UNCHANGED <<usage, stop, asked>>
     \/ StopCall(c, phase[c], object[c], "known")
  /\ UNCHANGED <<paused, active, start, endTask, serving, channel, platform>>

\* closed: settle with the seconds Live reports, or with none.
LiveClosed(c) ==
  /\ serving # "disposed"
  /\ object[c].live \in {"started", "greeting", "greeted", "closing"}
  /\ \E what \in {"metered", "incomplete"} :
       LET o == [object[c] EXCEPT !.live = "final"]
       IN  IF Current(c) /\ ~o.stopping
             THEN /\ Put(c, Safe(phase[c], "ending"), Halted(o))
                  /\ usage' = [usage EXCEPT ![c] = Settle(@, what)]
                  /\ stop' = [stop EXCEPT ![c] = "ending"]
                  /\ asked' = asked \cup {o.ref}
             ELSE /\ Put(c, phase[c], o)
                  /\ usage' = [usage EXCEPT ![c] = Settle(@, what)]
                  /\ UNCHANGED <<stop, asked>>
  /\ UNCHANGED <<paused, active, start, endTask, serving, channel, platform>>

\* A fault of the session, or of the audio between it and the driver.
LiveFault(c) ==
  /\ serving # "disposed"
  /\ object[c].live \in {"started", "greeting", "greeted"}
  /\ Current(c)
  /\ StopCall(c, phase[c], object[c], "known")
  /\ UNCHANGED <<paused, active, start, endTask, serving, channel, platform>>

\* Faulty: the timer is not cleared, and fires after Live said how it closed.
FinalTimerUncleared(c) ==
  /\ object[c].live \in {"closing", "final"}
  /\ object' = [object EXCEPT ![c].live = "final"]
  /\ usage' = [usage EXCEPT ![c] = Settle(@, "incomplete")]
  /\ UNCHANGED <<phase, liveReady, paused, active, start, stop, endTask, serving,
                 channel, platform, asked>>

\* finalTimer: Live never said how it closed.
FinalTimer(c) ==
  /\ object[c].live = "closing"
  /\ object' = [object EXCEPT ![c].live = "final"]
  /\ usage' = [usage EXCEPT ![c] = Settle(@, "incomplete")]
  /\ UNCHANGED <<phase, liveReady, paused, active, start, stop, endTask, serving,
                 channel, platform, asked>>

-----------------------------------------------------------------------------
(* Timers, the end of a call, and shutdown *)

\* ringTimer or durationTimer
TimerFires(c) ==
  /\ object[c].timer # "off"
  /\ StopCall(c, phase[c], object[c], "known")
  /\ UNCHANGED <<paused, active, start, endTask, serving, channel, platform>>

\* stop() after voice.end came back, failed or timed out.
StopReturns(c) ==
  /\ stop[c] # "none"
  /\ stop' = [stop EXCEPT ![c] = "none"]
  /\ Put(c, Safe(phase[c], "uncertain"), object[c])
  /\ usage' = [usage EXCEPT ![c] =
                 IF object[c].live = "none" THEN Settle(@, "zero") ELSE @]
  /\ UNCHANGED <<paused, active, start, endTask, serving, channel, platform, asked>>

\* POST /v1/calls/:id/end: a call with external intent is stored as ending
\* and onEnd left to a later tick.
EndCall(c) ==
  /\ serving = "open"
  /\ phase[c] \in {"requested"} \cup Established
  /\ Put(c, IF phase[c] = "requested" THEN "ended" ELSE "ending", object[c])
  /\ endTask' = IF phase[c] = "requested" THEN endTask ELSE endTask \cup {c}
  /\ UNCHANGED <<usage, paused, active, start, stop, serving, channel, platform,
                 asked>>

OnEnd(c) ==
  /\ c \in endTask
  /\ serving = "open"
  /\ endTask' = endTask \ {c}
  /\ IF active = c
       THEN StopCall(c, phase[c], object[c], "known")
       ELSE /\ Put(c, IF object[c].ref = NoRef /\ phase[c] \in {"requested", "ending"}
                        THEN "ended" ELSE phase[c], object[c])
            /\ UNCHANGED <<usage, stop, asked>>
  /\ UNCHANGED <<paused, active, start, serving, channel, platform>>

\* close() until it awaits: no further admission, the active call is given up.
Close ==
  /\ serving = "open"
  /\ serving' = "closing"
  /\ IF active # NoCall
       THEN StopCall(active, phase[active], object[active], "shutdown")
       ELSE UNCHANGED <<store, object, stop, asked>>
  /\ UNCHANGED <<paused, active, start, endTask, channel, platform>>

\* The stop() that close() began and every Live session came to an end; one
\* begun earlier is not waited for.
Dispose ==
  /\ serving = "closing"
  /\ \A c \in CallIds : stop[c] # "shutdown"
  /\ \A c \in CallIds : object[c].live \in {"none", "final"}
  /\ serving' = "disposed"
  /\ channel' = FALSE
  /\ UNCHANGED <<store, paused, active, object, start, stop, endTask, platform,
                 asked>>

SetPaused ==
  /\ serving = "open"
  /\ paused' = ~paused
  /\ UNCHANGED <<store, active, object, start, stop, endTask, serving, channel,
                 platform, asked>>

-----------------------------------------------------------------------------
Next ==
  \/ Fault \/ Close \/ Dispose \/ SetPaused
  \/ \E c \in CallIds :
       \/ Create(c) \/ StartQueued(c) \/ CancelPreflight(c) \/ Dial(c)
       \/ Returned(c) \/ Failed(c) \/ Uncertain(c)
       \/ LiveReady(c) \/ Greet(c) \/ LiveClosed(c) \/ LiveFault(c)
       \/ FinalTimer(c) \/ TimerFires(c) \/ StopReturns(c)
       \/ EndCall(c) \/ OnEnd(c)
       \/ \E r \in Refs :
            \/ \E s \in Established : Progress(c, r, s)
            \/ Ended(c, r) \/ AudioReady(c, r)
  \/ \E r \in Refs : Offer(r) \/ LegUp(r) \/ LegGone(r)

Spec == Init /\ [][Next]_vars

\* Scheduled ticks run, timers fire, and every await of the coordinator is
\* bounded in time: the backend's, the platform's and Live's answers.
Fairness ==
  /\ WF_vars(Dispose)
  /\ \A c \in CallIds :
       /\ WF_vars(StartQueued(c))
       /\ WF_vars(CancelPreflight(c) \/ Dial(c))
       /\ WF_vars(Returned(c) \/ Failed(c))
       /\ WF_vars(TimerFires(c))
       /\ WF_vars(StopReturns(c))
       /\ WF_vars(FinalTimer(c))
       /\ WF_vars(OnEnd(c))

FairSpec == Spec /\ Fairness
-----------------------------------------------------------------------------
TypeOK ==
  /\ phase \in [CallIds -> CallState \cup {Absent}]
  /\ liveReady \in [CallIds -> BOOLEAN]
  /\ usage \in [CallIds -> Usage]
  /\ paused \in BOOLEAN
  /\ active \in CallIds \cup {NoCall}
  /\ object \in [CallIds -> Object]
  /\ start \in [CallIds -> Start]
  /\ stop \in [CallIds -> {"none", "ending", "shutdown"}]
  /\ endTask \subseteq CallIds
  /\ serving \in {"open", "closing", "disposed"}
  /\ channel \in BOOLEAN
  /\ leg \in [Refs -> Leg]
  /\ mine \in [CallIds -> Refs \cup {NoRef}]
  /\ asked \subseteq Refs

\* docs/runtime.md:30: "No fabricated terminal state is used to free
\* capacity."  A call is not stored as ended while the leg it was dialled or
\* accepted on may be up.
NoFabricatedEnd ==
  \A c \in CallIds :
    /\ start[c] \in {"platform", "returned", "failed"}
    /\ leg[mine[c]] \in {"dialing", "up"}
    => phase[c] \in Established \cup {"ending", "uncertain"}

\* The coordinator's slot and the store's capacity agree: the active call is
\* one the store still counts, so a call the store admits never finds the
\* slot taken and is never left behind as requested.
SlotMatchesCapacity ==
  /\ active # NoCall =>
       phase[active] \in Established \cup {"ending", "uncertain"}
  /\ \A c \in CallIds : start[c] \in {"queued", "preflight"} /\ phase[c] = "requested"
       => active = NoCall

\* However close, finalTimer, stop() and the platform's end race, no two of
\* them settle the usage of a call to different values; and usage is settled
\* to zero only if no Live session was opened.
SettlementsAgree ==
  \A c \in CallIds :
    /\ usage[c] # "conflict"
    /\ usage[c] = "zero" => object[c].live = "none"
    /\ object[c].live # "none" => usage[c] # "none"

\* What the store calls live_ready is a session that was opened on a known
\* leg of the active call, is not closed and not being given up.
ReadinessIsReal ==
  \A c \in CallIds : liveReady[c] =>
    /\ active = c
    /\ object[c].live \in {"greeting", "greeted"}
    /\ object[c].ref = mine[c]
    /\ ~object[c].stopping

\* A call that was given up, whenever the platform's answer came, has its leg
\* hung up: none is left up unnoticed.
AbandonedLegsAreHungUp ==
  \A c \in CallIds :
    start[c] = "returned" /\ object[c].stopping =>
      mine[c] \in asked \/ leg[mine[c]] = "gone"

\* The coordinator implements the life of calls.
ImplementsLifecycle == Lifecycle!Spec

\* Every admitted call ends or is declared uncertain: no missing answer of
\* the platform, of Live or of the backend keeps it going for ever.
CallsAreSettled ==
  \A c \in CallIds :
    phase[c] \in {"requested", "ending"} \cup Established
      ~> phase[c] \in {"ended", "uncertain"} \/ serving = "disposed"

\* Every reserved budget is settled, or marked incomplete.
UsageIsSettled ==
  \A c \in CallIds :
    usage[c] = "reserved" ~> usage[c] # "reserved" \/ serving = "disposed"

\* Whatever is not answered, a call comes to an end and so does what it holds of the
\* budget: the deadlines and the final timer see to both.
CallsAndUsageAreSettled == CallsAreSettled /\ UsageIsSettled
=============================================================================
