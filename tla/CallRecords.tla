------------------------------ MODULE CallRecords ------------------------------
(***************************************************************************)
(* What the store keeps of a conversation, what retention takes away and   *)
(* what the console pages through: appendTranscript, recordDelegation's    *)
(* fragments and prune (packages/core/src/index.ts), the calls and         *)
(* transcripts queries (console.ts).                                       *)
(*                                                                         *)
(* Call ids are random, so their order is not that of creation.            *)
(***************************************************************************)
EXTENDS Naturals, FiniteSets

CONSTANTS
  RecordIds,      \* call ids, numbers for their order
  MaxTime,        \* bound: times of the wall clock, which does not go back
  MaxFragments,   \* bound: fragments spoken
  PageSize

\* The ids are unequal to the 0 of a reader that has read none.
ASSUME RecordsAssumption == RecordIds \subseteq Nat \ {0} /\ MaxTime \in Nat /\ PageSize \in Nat

VARIABLES
  calls,        \* calls[c]: state, created_at, availability
  fragments,    \* rows of transcripts joined with their cursors
  copies,       \* copies[c]: occurred_at of a delegation that holds fragments, or 0
  service,      \* running or not, its persistTranscripts, time, next cursor
  reader        \* a console that follows next_cursor

recordVars == <<calls, fragments, copies, service, reader>>

NoReader == [of |-> 0, state |-> "idle", key |-> 0, id |-> 0, owed |-> {}, seen |-> {}, again |-> FALSE]

RecordsInit ==
  /\ calls = [c \in RecordIds |-> [state |-> "none", created |-> 0, availability |-> "empty"]]
  /\ fragments = {} /\ copies = [c \in RecordIds |-> 0]
  /\ service = [up |-> FALSE, capture |-> FALSE, now |-> 1, cursor |-> 1]
  /\ reader = NoReader

Known == {c \in RecordIds : calls[c].state # "none"}

\* createCall; one call at a time.
Create(c) ==
  /\ service.up /\ calls[c].state = "none" /\ \A d \in Known : calls[d].state = "ended"
  /\ calls' = [calls EXCEPT ![c] =
       [state |-> "connected", created |-> service.now,
        availability |-> IF service.capture THEN "empty" ELSE "disabled"]]
  /\ UNCHANGED <<fragments, copies, service, reader>>

EndCall(c) ==
  /\ service.up /\ calls[c].state \in {"connected", "uncertain"}
  /\ calls' = [calls EXCEPT ![c].state = "ended"]
  /\ UNCHANGED <<fragments, copies, service, reader>>

\* captureTranscripts
Captures(c) == service.capture /\ calls[c].availability \notin {"disabled", "expired"}

\* appendTranscript of a new fragment.
AppendTranscript(c) ==
  /\ service.up /\ calls[c].state = "connected" /\ service.cursor <= MaxFragments
  /\ service' = [service EXCEPT !.cursor = @ + 1]
  /\ IF Captures(c)
     THEN /\ fragments' = fragments \cup {[call |-> c, at |-> service.now, cursor |-> service.cursor]}
          /\ calls' = [calls EXCEPT ![c].availability = "available"]
     ELSE UNCHANGED <<calls, fragments>>
  /\ UNCHANGED <<copies, reader>>

\* recordDelegation with the fragments so far, which it holds when they are captured.
Delegate(c) ==
  /\ service.up /\ calls[c].state = "connected" /\ Captures(c) /\ \E f \in fragments : f.call = c
  /\ copies' = [copies EXCEPT ![c] = service.now]
  /\ calls' = [calls EXCEPT ![c].availability = "available"]
  /\ UNCHANGED <<fragments, service, reader>>

\* The calls prune() takes fragments of, with the delegation's own time for copies.
ExpiredCalls(before) ==
  {c \in RecordIds : (copies[c] # 0 /\ copies[c] < before) \/ \E f \in fragments : f.call = c /\ f.at < before}

\* cleanup runs while the service is stopped.
CleanUp(before) ==
  /\ ~service.up
  /\ calls' = [c \in RecordIds |->
       IF c \in ExpiredCalls(before) /\ calls[c].availability # "disabled"
       THEN [calls[c] EXCEPT !.availability = "expired"] ELSE calls[c]]
  /\ copies' = [c \in RecordIds |-> IF copies[c] < before THEN 0 ELSE copies[c]]
  /\ fragments' = {f \in fragments : f.at >= before}
  /\ UNCHANGED <<service, reader>>

\* The service starts with its configuration and finds a call it left uncertain.
StartService(capture) ==
  /\ ~service.up /\ service' = [service EXCEPT !.up = TRUE, !.capture = capture]
  /\ calls' = [c \in RecordIds |->
       IF calls[c].state = "connected" THEN [calls[c] EXCEPT !.state = "uncertain"] ELSE calls[c]]
  /\ UNCHANGED <<fragments, copies, reader>>

\* It stops or crashes, or a configuration is activated while no call is up.
StopService ==
  /\ service.up /\ service' = [service EXCEPT !.up = FALSE, !.capture = FALSE]
  /\ UNCHANGED <<calls, fragments, copies, reader>>
Recapture ==
  /\ service.up /\ \A c \in RecordIds : calls[c].state # "connected"
  /\ service' = [service EXCEPT !.capture = ~@] /\ UNCHANGED <<calls, fragments, copies, reader>>

TimePasses ==
  /\ service.now < MaxTime /\ service' = [service EXCEPT !.now = @ + 1]
  /\ UNCHANGED <<calls, fragments, copies, reader>>

-----------------------------------------------------------------------------
(* Paging.  A reader of calls (of = 0) or of one call's transcript.        *)

OpenReader(of) ==
  /\ service.up /\ reader.state = "idle" /\ (of = 0 \/ of \in Known)
  /\ reader' = [NoReader EXCEPT !.of = of, !.state = "reading",
       !.owed = IF of = 0 THEN Known ELSE {f.cursor : f \in {g \in fragments : g.call = of}}]
  /\ UNCHANGED <<calls, fragments, copies, service>>

\* Faulty: calls of the cursor's own time are taken as read.
AfterByTime(c) == reader.id = 0 \/ calls[c].created < reader.key

\* From the last one of the page before.
After(c) ==
  \/ reader.id = 0 \/ calls[c].created < reader.key
  \/ calls[c].created = reader.key /\ c < reader.id

\* The first PageSize of a set, in an order given by the later ones of each.
FirstOf(left, Before(_, _)) == {x \in left : Cardinality({y \in left : Before(y, x)}) < PageSize}

ReadPage(page, left, key, id) ==
  reader' = [reader EXCEPT !.seen = @ \cup page, !.again = @ \/ page \cap reader.seen # {},
    !.key = key, !.id = id, !.state = IF left = page THEN "done" ELSE @]

\* Newest first, ties by id.
ListedFirst(c, d) == calls[c].created > calls[d].created \/ (calls[c].created = calls[d].created /\ c > d)

ReadCalls ==
  LET left == {c \in Known : After(c)}
      page == FirstOf(left, ListedFirst)
      last == IF page = {} THEN reader.id ELSE CHOOSE c \in page : \A d \in page \ {c} : ListedFirst(d, c)
  IN
  /\ service.up /\ reader.state = "reading" /\ reader.of = 0
  /\ ReadPage(page, left, IF page = {} THEN reader.key ELSE calls[last].created, last)
  /\ UNCHANGED <<calls, fragments, copies, service>>

ReadTranscript ==
  LET left == {f.cursor : f \in {g \in fragments : g.call = reader.of /\ g.cursor > reader.key}}
      page == FirstOf(left, <)
      last == IF page = {} THEN reader.key ELSE CHOOSE n \in page : \A m \in page : m <= n
  IN
  /\ service.up /\ reader.state = "reading" /\ reader.of # 0
  /\ ReadPage(page, left, last, 0)
  /\ UNCHANGED <<calls, fragments, copies, service>>

RecordsNext ==
  \/ StopService \/ Recapture \/ TimePasses \/ ReadCalls \/ ReadTranscript
  \/ \E c \in RecordIds : Create(c) \/ EndCall(c) \/ AppendTranscript(c) \/ Delegate(c)
  \/ \E before \in 1..MaxTime : CleanUp(before)
  \/ \E capture \in BOOLEAN : StartService(capture)
  \/ \E of \in {0} \cup RecordIds : OpenReader(of)

Held(c) == copies[c] # 0 \/ \E f \in fragments : f.call = c

\* What the console says of a transcript (index.ts:687, 97) is what is kept: nothing
\* of a call made without capture, whatever is configured later, and something of
\* one that is said to be available.
AvailabilityIsHonest ==
  \A c \in Known : /\ Held(c) => calls[c].availability \in {"available", "expired"}
                   /\ calls[c].availability = "available" => Held(c)

\* A reader that follows the cursors while calls are made, fragments arrive and
\* others expire meets nothing twice and misses nothing that was there when it
\* began and still is (console.ts:263, 311).
PagesMissNothing ==
  /\ ~reader.again
  /\ reader.state = "done" =>
       (reader.owed \cap (IF reader.of = 0 THEN Known ELSE {f.cursor : f \in fragments})) \subseteq reader.seen

\* What the console shows of the records is what there is.
RecordsAreHonest == AvailabilityIsHonest /\ PagesMissNothing
=============================================================================
