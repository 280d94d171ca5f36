----------------------------- MODULE CallStore -----------------------------
(***************************************************************************)
(* The durable call ledger of packages/core/src/index.ts: the tables       *)
(* calls, commands, call_facts and events.  Each operation of the class is *)
(* one immediate SQLite transaction, hence one action here.  Who calls the *)
(* operations, and in which order, is left open; BridgeService restricts   *)
(* it to what the service process and the command line do, and adds the    *)
(* pause flag and the admission holds, which no operation here reads.      *)
(***************************************************************************)
EXTENDS CallStates, Naturals, Sequences

CONSTANTS
  CallIds,        \* identities createCall can draw (randomUUID)
  NoCall,         \* the absence of a call in an answer
  Commands,       \* command identities: a client with an idempotency key
  Digests,        \* hashes of a request together with its direction
  Reasons,        \* reasons the callers of transition() give
  NoReason,       \* the reason of a call nothing was noted on
  Cancelled,      \* reason "cancelled"
  Restarted,      \* reason "restart_requires_reconciliation"
  MaxRevision     \* bound: beyond it only recovery and termination revise a call

ASSUME CallIdsAssumption == NoCall \notin CallIds
ASSUME MaxRevisionAssumption == MaxRevision \in Nat

VARIABLES
  calls,      \* table calls: the stored body of every call
  commands,   \* table commands: rows [key, hash, call]
  facts,      \* table call_facts, with a call's revision as its clock
  log,        \* table events: position i holds the event with cursor i
  reply       \* the request the last createCall answered, and the answer

vars == <<calls, commands, facts, log, reply>>

Reason == Reasons \cup {NoReason, Cancelled, Restarted}

\* ready stands for audio_ready and live_ready, which the store always treats
\* alike; CallRuntime tells them apart.
Call == [state : CallState \cup {Absent}, revision : Nat,
         ready : BOOLEAN, reason : Reason]
Command == [key : Commands, hash : Digests, call : CallIds]
Fact == [connected : BOOLEAN, connectedAt : Nat, endedAt : Nat,
         wasUncertain : BOOLEAN]
Event == [call : CallIds, seq : Nat, state : CallState]
Reply == [kind : {"created", "replayed", "idempotency_conflict",
                  "calling_disabled", "request_refused", "call_capacity"},
          key : Commands, hash : Digests, call : CallIds \cup {NoCall}]
         \cup [kind : {"none"}]

NoRow == [state |-> Absent, revision |-> 0, ready |-> FALSE,
          reason |-> NoReason]
NoFact == [connected |-> FALSE, connectedAt |-> 0, endedAt |-> 0,
           wasUncertain |-> FALSE]

Init ==
  /\ calls = [c \in CallIds |-> NoRow]
  /\ commands = {}
  /\ facts = [c \in CallIds |-> NoFact]
  /\ log = <<>>
  /\ reply = [kind |-> "none"]

-----------------------------------------------------------------------------
Unfinished == {c \in CallIds : calls[c].state \notin {Absent, "ended"}}

\* emit: the event of a stored call body, in the same transaction.
Emit(c, body) ==
  log' = Append(log, [call |-> c, seq |-> body.revision, state |-> body.state])

CapacityFree == Unfinished = {}

\* Insert a requested call with its command, its facts and its first event.
Insert(k, h, c) ==
  LET body == [state |-> "requested", revision |-> 1, ready |-> FALSE,
               reason |-> NoReason]
  IN  /\ calls' = [calls EXCEPT ![c] = body]
      /\ commands' = commands \cup {[key |-> k, hash |-> h, call |-> c]}
      /\ facts' = [facts EXCEPT ![c] = NoFact]
      /\ Emit(c, body)
      /\ reply' = [kind |-> "created", key |-> k, hash |-> h, call |-> c]

Answer(kind, k, h, c) ==
  /\ reply' = [kind |-> kind, key |-> k, hash |-> h, call |-> c]
  /\ UNCHANGED <<calls, commands, facts, log>>

Refuse(kind, k, h) == Answer(kind, k, h, NoCall)

\* Faulty: the stored request is not compared.
ReplayAnyRequest(row, h) == Answer("replayed", row.key, h, row.call)

\* A command key already stored: the same request is answered with its call
\* whatever the configuration says now, another request conflicts.
Replay(row, h) ==
  IF row.hash = h
    THEN Answer("replayed", row.key, h, row.call)
    ELSE Refuse("idempotency_conflict", row.key, h)

\* The command lookup comes before every check of the configuration.
Known(k) == {row \in commands : row.key = k}

\* createCall with key k and digest h.  enabled and valid stand for the
\* caller's options: enabled for calling, pause, target and adapter, valid
\* for the request's lifetime, target and expiry.
CreateCall(k, h, enabled, valid) ==
  /\ \/ \E row \in Known(k) : Replay(row, h)
     \/ /\ Known(k) = {}
        /\ \/ ~enabled /\ Refuse("calling_disabled", k, h)
           \/ enabled /\ ~valid /\ Refuse("request_refused", k, h)
           \/ enabled /\ valid /\ ~CapacityFree /\ Refuse("call_capacity", k, h)
           \/ /\ enabled /\ valid /\ CapacityFree
              /\ \E c \in CallIds : calls[c].state = Absent /\ Insert(k, h, c)

\* The body transition() stores: revision counted, readiness cleared in the
\* quiescent states.
Revised(c, s, ready, reason) ==
  [state |-> s, revision |-> calls[c].revision + 1,
   ready |-> ready /\ s \notin Quiescent, reason |-> reason]

\* Faulty: the upsert overwrites what it should accumulate.
FactsOverwritten(c, s) ==
  LET now == calls[c].revision + 1
  IN  [connected |-> s = "connected",
       connectedAt |-> IF s = "connected" THEN now ELSE facts[c].connectedAt,
       endedAt |-> IF s = "ended" THEN now ELSE facts[c].endedAt,
       wasUncertain |-> s = "uncertain"]

FactsAfter(c, s) ==
  LET now == calls[c].revision + 1
  IN  [connected |-> s = "connected" \/ facts[c].connected,
       connectedAt |-> IF /\ s = "connected" /\ calls[c].state # "connected"
                          /\ facts[c].connectedAt = 0
                         THEN now ELSE facts[c].connectedAt,
       endedAt |-> IF s = "ended" THEN now ELSE facts[c].endedAt,
       wasUncertain |-> s = "uncertain" \/ facts[c].wasUncertain]

\* Faulty: an uncertain call may turn out to be connected.
ResumesUncertain(c, s) ==
  /\ calls[c].state \notin {Absent, "ended"}
  /\ \/ s = calls[c].state \/ Allowed(calls[c].state, s)
     \/ calls[c].state = "uncertain" /\ s = "connected"

MayBecome(c, s) ==
  /\ calls[c].state \notin {Absent, "ended"}
  /\ s = calls[c].state \/ Allowed(calls[c].state, s)

\* The writes of a transition that is neither refused nor a no-op.
Store(c, s, ready, reason) ==
  LET body == Revised(c, s, ready, reason)
  IN  /\ calls' = [calls EXCEPT ![c] = body]
      /\ facts' = [facts EXCEPT ![c] = FactsAfter(c, s)]
      /\ Emit(c, body)

\* transition(id, state, patch): ready and reason are the values after the
\* patch.  A request that changes nothing returns the stored call; one the
\* table forbids throws and leaves no trace.
Transition(c, s, ready, reason) ==
  /\ <<s, ready, reason>> # <<calls[c].state, calls[c].ready, calls[c].reason>>
  /\ MayBecome(c, s)
  /\ s # "ended" => calls[c].revision < MaxRevision
  /\ Store(c, s, ready, reason)
  /\ UNCHANGED <<commands, reply>>

\* Faulty: a call that was being dialled is requested again.
RecoverByRedial(c) ==
  IF calls[c].state = "dialing"
    THEN Store(c, "requested", calls[c].ready, Restarted)
    ELSE UNCHANGED <<calls, facts, log>>

\* recover() on the unfinished call; the index one_active_call leaves at
\* most one.  A call without external intent is cancelled, any other keeps
\* its capacity as uncertain.
RecoverCall(c) ==
  LET s == IF calls[c].state = "requested" THEN "ended" ELSE "uncertain"
      why == IF calls[c].state = "requested" THEN Cancelled ELSE Restarted
  IN  IF calls[c].state = s /\ calls[c].reason = why
        THEN UNCHANGED <<calls, facts, log>>
        ELSE Store(c, s, calls[c].ready, why)

Recover ==
  /\ \/ \E c \in Unfinished : RecoverCall(c)
     \/ Unfinished = {} /\ UNCHANGED <<calls, facts, log>>
  /\ UNCHANGED <<commands, reply>>

Next ==
  \/ \E k \in Commands, h \in Digests, enabled, valid \in BOOLEAN :
       CreateCall(k, h, enabled, valid)
  \/ \E c \in CallIds, s \in CallState, ready \in BOOLEAN :
       \E reason \in Reasons \cup {calls[c].reason} :
         Transition(c, s, ready, reason)
  \/ Recover

Spec == Init /\ [][Next]_vars
-----------------------------------------------------------------------------
TypeOK ==
  /\ calls \in [CallIds -> Call]
  /\ commands \subseteq Command
  /\ facts \in [CallIds -> Fact]
  /\ log \in Seq(Event)
  /\ reply \in Reply

\* One account carries one call: two stored calls are never unfinished
\* together, whatever sequence of creations, transitions and restarts ran.
OneUnfinished == \A c, d \in Unfinished : c = d

\* A command names one call and a call one command, and no call exists
\* without the command that asked for it.
CommandIdentity ==
  /\ \A r1, r2 \in commands : r1.key = r2.key \/ r1.call = r2.call => r1 = r2
  /\ \A c \in CallIds :
       calls[c].state # Absent <=> \E row \in commands : row.call = c

\* A client that repeats a stored request is told the stored call, even when
\* calling is paused, disabled or at capacity by then; any other request is
\* told no call at all.
RetryFindsCall ==
  reply.kind # "none" =>
    LET same == {row \in Known(reply.key) : row.hash = reply.hash}
    IN  IF same = {} THEN reply.call = NoCall
                     ELSE \E row \in same : reply.call = row.call

\* The events of a call are numbered 1, 2, ... without a gap, in log order,
\* and the last one shows the stored state: a reader of the log that drops
\* out-of-order numbers per call ends with the call as it is.
LogNumbersRevisions ==
  /\ \A i \in 1..Len(log) :
       /\ log[i].seq \in 1..calls[log[i].call].revision
       /\ log[i].seq = calls[log[i].call].revision =>
            log[i].state = calls[log[i].call].state
  /\ \A c \in CallIds : \A n \in 1..calls[c].revision :
       \E i \in 1..Len(log) : log[i].call = c /\ log[i].seq = n
  /\ \A i, j \in 1..Len(log) :
       i < j /\ log[i].call = log[j].call => log[i].seq < log[j].seq

\* The events of different calls do not mix: once another call has an event,
\* the earlier call is finished and has no further event.
LogKeepsCallsApart ==
  \A i, j \in 1..Len(log) :
    i < j /\ log[i].call # log[j].call =>
      /\ calls[log[i].call].state = "ended"
      /\ \A k \in 1..Len(log) : k > j => log[k].call # log[i].call

\* After the event that reports a call uncertain, ending or ended, no event
\* reports it dialled, rung or connected; after ended none reports it at all.
LogNeverRedials ==
  \A i, j \in 1..Len(log) :
    i < j /\ log[i].call = log[j].call =>
      /\ log[i].state # "ended"
      /\ log[i].state \in Quiescent => log[j].state \in Quiescent

\* call_facts says of each call what its events say: whether it was ever
\* connected and since when, whether it was ever uncertain, when it ended.
FactsSummariseLog ==
  \A c \in CallIds :
    LET Seen(s) == {i \in 1..Len(log) : log[i].call = c /\ log[i].state = s}
    IN  /\ facts[c].connected <=> Seen("connected") # {}
        /\ facts[c].wasUncertain <=> Seen("uncertain") # {}
        /\ \A i \in Seen("connected") : /\ facts[c].connectedAt > 0
                                        /\ facts[c].connectedAt <= log[i].seq
        /\ facts[c].connectedAt > 0 =>
             \E i \in Seen("connected") : log[i].seq = facts[c].connectedAt
        /\ \A i \in Seen("ended") : log[i].seq = facts[c].endedAt
        /\ facts[c].endedAt > 0 <=> calls[c].state = "ended"

\* The ledger implements the life of calls: an operation admits a call, moves
\* one along the table, or leaves every state as it was.
Lifecycle == INSTANCE CallLifecycle WITH phase <- [c \in CallIds |-> calls[c].state]

ImplementsLifecycle == Lifecycle!Spec
=============================================================================
