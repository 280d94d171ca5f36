-------------------------- MODULE CallStoreProofs --------------------------
(***************************************************************************)
(* Proofs about CallStore for every set of calls, commands, requests and   *)
(* reasons and every revision bound.  Every step of the ledger either      *)
(* inserts a call, stores a revision of an unfinished call, or leaves the  *)
(* tables alone (NextCases); each invariant is then shown for the first    *)
(* two kinds of steps.  From the invariant follows what the migration of   *)
(* an older database makes of any suffix of its event log.                 *)
(***************************************************************************)
EXTENDS ConsoleMigration, FiniteSetTheorems, WellFoundedInduction, TLAPS

\* Where a call that was connected may be.
Beyond == Quiescent \cup {"connected"}

LogStaysBeyond ==
  \A i, j \in 1..Len(log) :
    i < j /\ log[i].call = log[j].call /\ log[i].state \in Beyond => log[j].state \in Beyond

\* What a createCall that commits a new call writes.
InsertStep(k, h, c) ==
  /\ Known(k) = {}
  /\ Unfinished = {}
  /\ calls[c].state = Absent
  /\ calls' = [calls EXCEPT ![c] = [state |-> "requested", revision |-> 1,
                                    ready |-> FALSE, reason |-> NoReason]]
  /\ commands' = commands \cup {[key |-> k, hash |-> h, call |-> c]}
  /\ facts' = [facts EXCEPT ![c] = NoFact]
  /\ log' = Append(log, [call |-> c, seq |-> 1, state |-> "requested"])
  /\ reply' = [kind |-> "created", key |-> k, hash |-> h, call |-> c]

\* What a transition, or a recovery, that changes the call writes.
StoreStep(c, s, ready, reason) ==
  /\ MayBecome(c, s)
  /\ calls' = [calls EXCEPT ![c] =
                [state |-> s, revision |-> calls[c].revision + 1,
                 ready |-> ready /\ s \notin Quiescent, reason |-> reason]]
  /\ facts' = [facts EXCEPT ![c] = FactsAfter(c, s)]
  /\ log' = Append(log, [call |-> c, seq |-> calls[c].revision + 1, state |-> s])
  /\ UNCHANGED <<commands, reply>>

\* Anything else: at most the answer of the last createCall changes.
AnswerStep ==
  /\ UNCHANGED <<calls, commands, facts, log>>
  /\ \/ UNCHANGED reply
     \/ \E k \in Commands, h \in Digests, c \in CallIds \cup {NoCall},
           kind \in {"replayed", "idempotency_conflict", "calling_disabled",
                     "request_refused", "call_capacity"} :
          /\ reply' = [kind |-> kind, key |-> k, hash |-> h, call |-> c]
          /\ IF \E row \in Known(k) : row.hash = h
               THEN \E row \in Known(k) : row.hash = h /\ c = row.call
               ELSE c = NoCall

\* The prefix of the log is kept and one event added.
LEMMA Appended ==
  ASSUME NEW T, NEW s \in Seq(T), NEW e \in T
  PROVE  /\ Append(s, e) \in Seq(T)
         /\ Len(Append(s, e)) = Len(s) + 1
         /\ \A i \in 1..Len(s) : Append(s, e)[i] = s[i]
         /\ Append(s, e)[Len(s) + 1] = e
  OBVIOUS

-----------------------------------------------------------------------------
\* Uniqueness of command keys is all NextCases needs of CommandIdentity.
LEMMA CreateCases ==
  ASSUME TypeOK, CommandIdentity, NEW k \in Commands, NEW h \in Digests,
         NEW enabled \in BOOLEAN, NEW valid \in BOOLEAN,
         CreateCall(k, h, enabled, valid)
  PROVE  (\E c \in CallIds : InsertStep(k, h, c)) \/ AnswerStep
<1>1. CASE \E row \in Known(k) : Replay(row, h)
  <2>1. PICK row \in Known(k) : Replay(row, h)
    BY <1>1
  <2>2. row \in Command /\ row.key = k /\ Known(k) = {row}
    BY <2>1 DEF TypeOK, Known, CommandIdentity
  <2>3. CASE row.hash = h
    <3>1. /\ reply' = [kind |-> "replayed", key |-> k, hash |-> h, call |-> row.call]
          /\ UNCHANGED <<calls, commands, facts, log>>
      BY <2>1, <2>2, <2>3 DEF Replay, Answer
    <3>2. row.call \in CallIds
      BY <2>2 DEF Command
    <3>. QED  BY <2>2, <2>3, <3>1, <3>2 DEF AnswerStep
  <2>4. CASE row.hash # h
    <3>1. /\ reply' = [kind |-> "idempotency_conflict", key |-> k, hash |-> h,
                       call |-> NoCall]
          /\ UNCHANGED <<calls, commands, facts, log>>
      BY <2>1, <2>2, <2>4 DEF Replay, Refuse, Answer
    <3>. QED  BY <2>2, <2>4, <3>1 DEF AnswerStep
  <2>. QED  BY <2>3, <2>4
<1>2. CASE /\ Known(k) = {}
           /\ \/ Refuse("calling_disabled", k, h)
              \/ Refuse("request_refused", k, h)
              \/ Refuse("call_capacity", k, h)
  BY <1>2 DEF AnswerStep, Refuse, Answer
<1>3. CASE /\ Known(k) = {} /\ CapacityFree
           /\ \E c \in CallIds : calls[c].state = Absent /\ Insert(k, h, c)
  BY <1>3 DEF InsertStep, CapacityFree, Insert, Emit
<1>. QED  BY <1>1, <1>2, <1>3 DEF CreateCall

LEMMA RecoverCases ==
  ASSUME TypeOK, Recover
  PROVE  \/ \E c \in CallIds, s \in CallState, ready \in BOOLEAN, reason \in Reason :
              StoreStep(c, s, ready, reason)
         \/ AnswerStep
<1>1. ASSUME NEW c \in Unfinished, RecoverCall(c), UNCHANGED <<commands, reply>>
      PROVE  \/ \E s \in CallState, ready \in BOOLEAN, reason \in Reason :
                  StoreStep(c, s, ready, reason)
             \/ AnswerStep
  <2>1. c \in CallIds /\ calls[c] \in Call /\ calls[c].state \in CallState \ {"ended"}
    BY <1>1 DEF TypeOK, Unfinished, Call
  <2>2. calls[c].ready \in BOOLEAN /\ Cancelled \in Reason /\ Restarted \in Reason
    BY <2>1 DEF Call, Reason
  <2>3. CASE UNCHANGED <<calls, facts, log>>
    BY <1>1, <2>3 DEF AnswerStep
  <2>4. CASE calls[c].state = "requested" /\ Store(c, "ended", calls[c].ready, Cancelled)
    <3>1. MayBecome(c, "ended")
      BY <2>1, <2>4 DEF MayBecome, Allowed, CallState, Absent
    <3>. QED  BY <1>1, <2>2, <2>4, <3>1 DEF StoreStep, Store, Revised, Emit, CallState
  <2>5. CASE calls[c].state # "requested" /\ Store(c, "uncertain", calls[c].ready, Restarted)
    <3>1. MayBecome(c, "uncertain")
      BY <2>1, <2>5 DEF MayBecome, Allowed, CallState, Absent
    <3>. QED  BY <1>1, <2>2, <2>5, <3>1 DEF StoreStep, Store, Revised, Emit, CallState
  <2>. QED  BY <1>1, <2>3, <2>4, <2>5 DEF RecoverCall
<1>2. CASE UNCHANGED <<calls, facts, log>> /\ UNCHANGED <<commands, reply>>
  BY <1>2 DEF AnswerStep
<1>. QED  BY <1>1, <1>2 DEF Recover, Unfinished

LEMMA NextCases ==
  ASSUME TypeOK, CommandIdentity, [Next]_vars
  PROVE  \/ \E k \in Commands, h \in Digests, c \in CallIds : InsertStep(k, h, c)
         \/ \E c \in CallIds, s \in CallState, ready \in BOOLEAN, reason \in Reason :
              StoreStep(c, s, ready, reason)
         \/ AnswerStep
<1>1. CASE \E k \in Commands, h \in Digests, enabled, valid \in BOOLEAN :
             CreateCall(k, h, enabled, valid)
  BY <1>1, CreateCases
<1>2. CASE \E c \in CallIds, s \in CallState, ready \in BOOLEAN :
             \E reason \in Reasons \cup {calls[c].reason} :
               Transition(c, s, ready, reason)
  <2>0. PICK c \in CallIds, s \in CallState, ready \in BOOLEAN :
          \E reason \in Reasons \cup {calls[c].reason} :
            Transition(c, s, ready, reason)
    BY <1>2
  <2>1. PICK reason \in Reasons \cup {calls[c].reason} :
          Transition(c, s, ready, reason)
    BY <2>0
  <2>2. reason \in Reason
    BY DEF TypeOK, Call, Reason
  <2>. QED  BY <2>1, <2>2 DEF Transition, StoreStep, Store, Revised, Emit
<1>3. CASE Recover
  BY <1>3, RecoverCases
<1>4. CASE UNCHANGED vars
  BY <1>4 DEF vars, AnswerStep
<1>. QED  BY <1>1, <1>2, <1>3, <1>4 DEF Next

-----------------------------------------------------------------------------
LEMMA TypeStep ==
  ASSUME TypeOK, CommandIdentity, [Next]_vars
  PROVE  TypeOK'
<1>1. ASSUME NEW k \in Commands, NEW h \in Digests, NEW c \in CallIds,
             InsertStep(k, h, c)
      PROVE  TypeOK'
  <2>1. calls' \in [CallIds -> Call]
    BY <1>1 DEF InsertStep, TypeOK, Call, CallState, Reason
  <2>2. commands' \subseteq Command
    BY <1>1 DEF TypeOK, InsertStep, Command
  <2>3. facts' \in [CallIds -> Fact]
    BY <1>1 DEF TypeOK, InsertStep, NoFact, Fact
  <2>4. log' \in Seq(Event)
    BY <1>1 DEF TypeOK, InsertStep, Event, CallState
  <2>5. reply' \in Reply
    BY <1>1 DEF InsertStep, Reply
  <2>. QED  BY <2>1, <2>2, <2>3, <2>4, <2>5 DEF TypeOK
<1>2. ASSUME NEW c \in CallIds, NEW s \in CallState, NEW ready \in BOOLEAN,
             NEW reason \in Reason, StoreStep(c, s, ready, reason)
      PROVE  TypeOK'
  <2>1. calls' \in [CallIds -> Call]
    BY <1>2 DEF TypeOK, StoreStep, Call
  <2>2. FactsAfter(c, s) \in Fact
    BY <1>2 DEF TypeOK, Call, FactsAfter, Fact
  <2>3. facts' \in [CallIds -> Fact]
    BY <1>2, <2>2 DEF TypeOK, StoreStep
  <2>4. log' \in Seq(Event)
    BY <1>2 DEF TypeOK, StoreStep, Event, Call
  <2>. QED  BY <1>2, <2>1, <2>3, <2>4 DEF TypeOK, StoreStep
<1>3. CASE AnswerStep
  BY <1>3 DEF AnswerStep, TypeOK, Reply
<1>. QED  BY <1>1, <1>2, <1>3, NextCases

-----------------------------------------------------------------------------
\* The invariants below are proved together with the numbering of revisions.
LEMMA OneUnfinishedStep ==
  ASSUME TypeOK, CommandIdentity, OneUnfinished, [Next]_vars
  PROVE  OneUnfinished'
<1>1. ASSUME NEW k \in Commands, NEW h \in Digests, NEW c \in CallIds,
             InsertStep(k, h, c)
      PROVE  OneUnfinished'
  <2>1. Unfinished' = {c}
    BY <1>1 DEF TypeOK, InsertStep, Unfinished, Absent
  <2>. QED  BY <2>1 DEF OneUnfinished
<1>2. ASSUME NEW c \in CallIds, NEW s \in CallState, NEW ready \in BOOLEAN,
             NEW reason \in Reason, StoreStep(c, s, ready, reason)
      PROVE  OneUnfinished'
  <2>1. Unfinished' \subseteq Unfinished
    BY <1>2 DEF TypeOK, StoreStep, MayBecome, Unfinished, CallState, Absent
  <2>. QED  BY <2>1 DEF OneUnfinished
<1>3. CASE AnswerStep
  BY <1>3 DEF AnswerStep, OneUnfinished, Unfinished
<1>. QED  BY <1>1, <1>2, <1>3, NextCases

LEMMA CommandIdentityStep ==
  ASSUME TypeOK, CommandIdentity, [Next]_vars
  PROVE  CommandIdentity'
<1>1. ASSUME NEW k \in Commands, NEW h \in Digests, NEW c \in CallIds,
             InsertStep(k, h, c)
      PROVE  CommandIdentity'
  <2>1. commands' = commands \cup {[key |-> k, hash |-> h, call |-> c]}
    BY <1>1 DEF InsertStep
  <2>2. \A row \in commands : row.key # k /\ row.call # c
    BY <1>1 DEF InsertStep, Known, CommandIdentity
  <2>3. \A r1, r2 \in commands' : r1.key = r2.key \/ r1.call = r2.call => r1 = r2
    BY <2>1, <2>2 DEF CommandIdentity
  <2>4. ASSUME NEW d \in CallIds
        PROVE  calls'[d].state # Absent <=> \E row \in commands' : row.call = d
    <3>1. CASE d = c
      <4>1. calls'[d].state = "requested"
        BY <1>1, <3>1 DEF TypeOK, InsertStep
      <4>2. [key |-> k, hash |-> h, call |-> c] \in commands'
        BY <2>1
      <4>. QED  BY <3>1, <4>1, <4>2 DEF Absent
    <3>2. CASE d # c
      BY <1>1, <2>1, <3>2 DEF TypeOK, InsertStep, CommandIdentity
    <3>. QED  BY <3>1, <3>2
  <2>. QED  BY <2>3, <2>4 DEF CommandIdentity
<1>2. ASSUME NEW c \in CallIds, NEW s \in CallState, NEW ready \in BOOLEAN,
             NEW reason \in Reason, StoreStep(c, s, ready, reason)
      PROVE  CommandIdentity'
  <2>1. \A d \in CallIds : calls'[d].state # Absent <=> calls[d].state # Absent
    BY <1>2 DEF TypeOK, StoreStep, MayBecome, CallState, Absent
  <2>. QED  BY <1>2, <2>1 DEF StoreStep, CommandIdentity
<1>3. CASE AnswerStep
  BY <1>3 DEF AnswerStep, CommandIdentity
<1>. QED  BY <1>1, <1>2, <1>3, NextCases

LEMMA RetryFindsCallStep ==
  ASSUME TypeOK, CommandIdentity, RetryFindsCall, [Next]_vars
  PROVE  RetryFindsCall'
<1>1. ASSUME NEW k \in Commands, NEW h \in Digests, NEW c \in CallIds,
             InsertStep(k, h, c)
      PROVE  RetryFindsCall'
  <2>1. /\ reply' = [kind |-> "created", key |-> k, hash |-> h, call |-> c]
        /\ [key |-> k, hash |-> h, call |-> c] \in commands'
    BY <1>1 DEF InsertStep
  <2>. QED  BY <2>1 DEF RetryFindsCall, Known
<1>2. ASSUME NEW c \in CallIds, NEW s \in CallState, NEW ready \in BOOLEAN,
             NEW reason \in Reason, StoreStep(c, s, ready, reason)
      PROVE  RetryFindsCall'
  BY <1>2 DEF StoreStep, RetryFindsCall, Known
<1>3. CASE AnswerStep
  <2>1. CASE UNCHANGED reply
    BY <1>3, <2>1 DEF AnswerStep, RetryFindsCall, Known
  <2>2. CASE ~ UNCHANGED reply
    <3>1. PICK k \in Commands, h \in Digests, c \in CallIds \cup {NoCall} :
            /\ reply'.key = k /\ reply'.hash = h /\ reply'.call = c
            /\ IF \E row \in Known(k) : row.hash = h
                 THEN \E row \in Known(k) : row.hash = h /\ c = row.call
                 ELSE c = NoCall
      BY <1>3, <2>2 DEF AnswerStep
    <3>2. Known(k)' = Known(k)
      BY <1>3 DEF AnswerStep, Known
    <3>. QED  BY <3>1, <3>2 DEF RetryFindsCall
  <2>. QED  BY <2>1, <2>2
<1>. QED  BY <1>1, <1>2, <1>3, NextCases

-----------------------------------------------------------------------------
\* A call without a row has revision 0, so no event can name it.
AbsentUnrevised == \A c \in CallIds :
  IF calls[c].state = Absent THEN calls[c].revision = 0 ELSE calls[c].revision > 0

LEMMA AbsentUnrevisedStep ==
  ASSUME TypeOK, CommandIdentity, AbsentUnrevised, [Next]_vars
  PROVE  AbsentUnrevised'
<1>1. ASSUME NEW k \in Commands, NEW h \in Digests, NEW c \in CallIds,
             InsertStep(k, h, c)
      PROVE  AbsentUnrevised'
  BY <1>1 DEF InsertStep, TypeOK, Call, AbsentUnrevised, Absent
<1>2. ASSUME NEW c \in CallIds, NEW s \in CallState, NEW ready \in BOOLEAN,
             NEW reason \in Reason, StoreStep(c, s, ready, reason)
      PROVE  AbsentUnrevised'
  BY <1>2 DEF StoreStep, TypeOK, Call, AbsentUnrevised, Absent, CallState
<1>3. CASE AnswerStep
  BY <1>3 DEF AnswerStep, AbsentUnrevised
<1>. QED  BY <1>1, <1>2, <1>3, NextCases

\* Both writing steps revise one call by one and append the event that says so.
Revision(c) ==
  /\ calls[c].revision \in Nat
  /\ \E body \in Call : /\ body.revision = calls[c].revision + 1
                        /\ calls' = [calls EXCEPT ![c] = body]
                        /\ log' = Append(log, [call |-> c, seq |-> body.revision,
                                               state |-> body.state])

LEMMA InsertRevises ==
  ASSUME TypeOK, AbsentUnrevised, NEW k \in Commands, NEW h \in Digests,
         NEW c \in CallIds, InsertStep(k, h, c)
  PROVE  Revision(c)
<1>. DEFINE body == [state |-> "requested", revision |-> 1, ready |-> FALSE,
                     reason |-> NoReason]
<1>1. body \in Call
  BY DEF Call, CallState, Reason
<1>2. calls[c].revision = 0
  BY DEF InsertStep, AbsentUnrevised
<1>3. /\ calls[c].revision \in Nat /\ body.revision = calls[c].revision + 1
      /\ calls' = [calls EXCEPT ![c] = body]
      /\ log' = Append(log, [call |-> c, seq |-> body.revision, state |-> body.state])
  BY <1>2 DEF InsertStep
<1>. QED  BY <1>1, <1>3 DEF Revision

LEMMA StoreRevises ==
  ASSUME TypeOK, NEW c \in CallIds, NEW s \in CallState, NEW ready \in BOOLEAN,
         NEW reason \in Reason, StoreStep(c, s, ready, reason)
  PROVE  Revision(c)
<1>. DEFINE body == [state |-> s, revision |-> calls[c].revision + 1,
                     ready |-> ready /\ s \notin Quiescent, reason |-> reason]
<1>1. calls[c].revision \in Nat /\ body \in Call
  BY DEF TypeOK, Call
<1>. QED  BY <1>1 DEF StoreStep, Revision

LEMMA NumberingPreserved ==
  ASSUME TypeOK, TypeOK', LogNumbersRevisions, NEW c \in CallIds, Revision(c)
  PROVE  LogNumbersRevisions'
<1>. DEFINE n == Len(log)
            r == calls[c].revision + 1
<1>1. PICK body \in Call : /\ body.revision = r
                           /\ calls' = [calls EXCEPT ![c] = body]
                           /\ log' = Append(log, [call |-> c, seq |-> r, state |-> body.state])
  BY DEF Revision
<1>2. /\ n \in Nat /\ r \in Nat \ {0}
      /\ Len(log') = n + 1
      /\ \A i \in 1..n : log'[i] = log[i] /\ log[i] \in Event
      /\ log'[n + 1] = [call |-> c, seq |-> r, state |-> body.state]
      /\ \A d \in CallIds : calls'[d] = IF d = c THEN body ELSE calls[d]
      /\ \A d \in CallIds : calls[d].revision \in Nat
  <2>1. log \in Seq(Event) /\ n \in Nat /\ r \in Nat \ {0}
    BY DEF TypeOK, Revision
  <2>2. \A i \in 1..n : log[i] \in Event
    BY <2>1
  <2>3. /\ Len(log') = n + 1
        /\ \A i \in 1..n : log'[i] = log[i]
        /\ log'[n + 1] = [call |-> c, seq |-> r, state |-> body.state]
    BY <1>1, <2>1
  <2>4. \A d \in CallIds : calls'[d] = IF d = c THEN body ELSE calls[d]
    BY <1>1 DEF TypeOK
  <2>5. \A d \in CallIds : calls[d].revision \in Nat
    BY DEF TypeOK, Call
  <2>. QED  BY <2>1, <2>2, <2>3, <2>4, <2>5
<1>3. ASSUME NEW i \in 1..Len(log')
      PROVE  /\ log'[i].seq \in 1..calls'[log'[i].call].revision
             /\ log'[i].seq = calls'[log'[i].call].revision =>
                  log'[i].state = calls'[log'[i].call].state
  <2>1. CASE i = n + 1
    BY <1>1, <1>2, <2>1
  <2>2. CASE i \in 1..n
    <3>1. /\ log'[i] = log[i] /\ log[i].call \in CallIds /\ log[i].seq \in Nat
          /\ log[i].seq \in 1..calls[log[i].call].revision
          /\ log[i].seq = calls[log[i].call].revision =>
               log[i].state = calls[log[i].call].state
      BY <1>2, <2>2 DEF LogNumbersRevisions, Event
    <3>2. CASE log[i].call = c
      BY <1>1, <1>2, <3>1, <3>2
    <3>3. CASE log[i].call # c
      BY <1>2, <3>1, <3>3
    <3>. QED  BY <3>2, <3>3
  <2>. QED  BY <1>2, <2>1, <2>2
<1>4. ASSUME NEW d \in CallIds, NEW m \in 1..calls'[d].revision
      PROVE  \E i \in 1..Len(log') : log'[i].call = d /\ log'[i].seq = m
  <2>1. CASE d = c /\ m = r
    BY <1>2, <2>1
  <2>2. CASE ~(d = c /\ m = r)
    <3>1. m \in 1..calls[d].revision
      BY <1>1, <1>2, <2>2
    <3>2. PICK i \in 1..n : log[i].call = d /\ log[i].seq = m
      BY <3>1 DEF LogNumbersRevisions
    <3>. QED  BY <1>2, <3>2
  <2>. QED  BY <2>1, <2>2
<1>5. ASSUME NEW i \in 1..Len(log'), NEW j \in 1..Len(log'), i < j,
             log'[i].call = log'[j].call
      PROVE  log'[i].seq < log'[j].seq
  <2>1. i \in 1..n /\ log'[i] = log[i] /\ log[i].call \in CallIds /\ log[i].seq \in Nat
    BY <1>2, <1>5 DEF Event
  <2>2. CASE j = n + 1
    <3>1. log[i].call = c /\ log[i].seq \in 1..calls[c].revision
      BY <1>2, <1>5, <2>1, <2>2 DEF LogNumbersRevisions
    <3>. QED  BY <1>2, <2>1, <2>2, <3>1
  <2>3. CASE j \in 1..n
    BY <1>2, <1>5, <2>1, <2>3 DEF LogNumbersRevisions
  <2>. QED  BY <1>2, <2>2, <2>3
<1>. QED  BY <1>3, <1>4, <1>5 DEF LogNumbersRevisions

LEMMA NumberingStep ==
  ASSUME TypeOK, CommandIdentity, AbsentUnrevised, LogNumbersRevisions, [Next]_vars
  PROVE  LogNumbersRevisions'
<1>1. CASE AnswerStep
  BY <1>1 DEF AnswerStep, LogNumbersRevisions
<1>. QED  BY <1>1, NextCases, TypeStep, InsertRevises, StoreRevises, NumberingPreserved

-----------------------------------------------------------------------------
\* The appended event, with the rest of the log and the other calls as before.
LEMMA RevisionEffect ==
  ASSUME TypeOK, NEW c \in CallIds, Revision(c)
  PROVE  /\ Len(log) \in Nat
         /\ Len(log') = Len(log) + 1
         /\ \A i \in 1..Len(log) : log'[i] = log[i] /\ log[i] \in Event
         /\ log'[Len(log) + 1].call = c
         /\ log'[Len(log) + 1].seq = calls[c].revision + 1
         /\ log'[Len(log) + 1].state = calls'[c].state
         /\ calls'[c] \in Call
         /\ \A d \in CallIds : d # c => calls'[d] = calls[d]
<1>1. PICK body \in Call : /\ body.revision = calls[c].revision + 1
                           /\ calls' = [calls EXCEPT ![c] = body]
                           /\ log' = Append(log, [call |-> c, seq |-> body.revision,
                                                  state |-> body.state])
  BY DEF Revision
<1>2. log \in Seq(Event) /\ Len(log) \in Nat
  BY DEF TypeOK
<1>3. \A i \in 1..Len(log) : log[i] \in Event
  BY <1>2
<1>4. /\ Len(log') = Len(log) + 1
      /\ \A i \in 1..Len(log) : log'[i] = log[i]
      /\ log'[Len(log) + 1] = [call |-> c, seq |-> body.revision, state |-> body.state]
  BY <1>1, <1>2
<1>5. calls'[c] = body /\ \A d \in CallIds : d # c => calls'[d] = calls[d]
  BY <1>1 DEF TypeOK
<1>. QED  BY <1>1, <1>2, <1>3, <1>4, <1>5

\* A call the log reports ended is ended, one it reports quiescent is so, and one
\* it reports connected has gone no way back.
LEMMA LogBoundsState ==
  ASSUME TypeOK, LogNumbersRevisions, LogNeverRedials, NEW i \in 1..Len(log)
  PROVE  /\ log[i].call \in CallIds
         /\ log[i].state = "ended" => calls[log[i].call].state = "ended"
         /\ log[i].state \in Quiescent => calls[log[i].call].state \in Quiescent
         /\ LogStaysBeyond /\ log[i].state \in Beyond => calls[log[i].call].state \in Beyond
<1>. DEFINE d == log[i].call
            r == calls[d].revision
<1>1. log \in Seq(Event) /\ Len(log) \in Nat /\ log[i] \in Event
  BY DEF TypeOK
<1>2. d \in CallIds /\ r \in Nat /\ log[i].seq \in 1..r
  BY <1>1 DEF TypeOK, Event, Call, LogNumbersRevisions
<1>3. PICK j \in 1..Len(log) : log[j].call = d /\ log[j].seq = r
  <2>1. r \in 1..r
    BY <1>2
  <2>. QED  BY <1>2, <2>1 DEF LogNumbersRevisions
<1>4. log[j].state = calls[d].state
  BY <1>3 DEF LogNumbersRevisions
<1>5. i = j \/ i < j
  <2>1. j < i => log[j].seq < log[i].seq
    BY <1>3 DEF LogNumbersRevisions
  <2>. QED  BY <1>1, <1>2, <1>3, <2>1
<1>6. CASE i = j
  BY <1>2, <1>4, <1>6
<1>7. CASE i < j
  <2>1. LogStaysBeyond /\ log[i].state \in Beyond => calls[d].state \in Beyond
    BY <1>2, <1>3, <1>4, <1>7 DEF LogStaysBeyond
  <2>. QED  BY <1>2, <1>3, <1>4, <1>7, <2>1 DEF LogNeverRedials
<1>. QED  BY <1>5, <1>6, <1>7

\* The state of a written call may follow the state it had, and every other
\* call is absent or finished.
LEMMA WriteCases ==
  ASSUME TypeOK, CommandIdentity, AbsentUnrevised, OneUnfinished, [Next]_vars
  PROVE  \/ \E c \in CallIds :
              /\ Revision(c)
              /\ calls[c].state # "ended"
              /\ calls[c].state \in Quiescent => calls'[c].state \in Quiescent
              /\ calls[c].state \in Beyond => calls'[c].state \in Beyond
              /\ \A d \in CallIds : d # c => calls[d].state \in {Absent, "ended"}
         \/ UNCHANGED <<calls, facts, log>>
<1>1. ASSUME NEW k \in Commands, NEW h \in Digests, NEW c \in CallIds,
             InsertStep(k, h, c)
      PROVE  /\ Revision(c)
             /\ calls[c].state = Absent
             /\ \A d \in CallIds : d # c => calls[d].state \in {Absent, "ended"}
  BY <1>1, InsertRevises DEF InsertStep, Unfinished
<1>2. ASSUME NEW c \in CallIds, NEW s \in CallState, NEW ready \in BOOLEAN,
             NEW reason \in Reason, StoreStep(c, s, ready, reason)
      PROVE  /\ Revision(c)
             /\ calls[c].state # "ended"
             /\ calls[c].state \in Quiescent => calls'[c].state \in Quiescent
             /\ calls[c].state \in Beyond => calls'[c].state \in Beyond
             /\ \A d \in CallIds : d # c => calls[d].state \in {Absent, "ended"}
  <2>1. Revision(c)
    BY <1>2, StoreRevises
  <2>2. c \in Unfinished /\ calls'[c].state = s /\ MayBecome(c, s)
    BY <1>2 DEF StoreStep, MayBecome, Unfinished, TypeOK
  <2>3. calls[c].state \in Quiescent => s \in Quiescent
    BY <2>2 DEF MayBecome, Allowed, Quiescent
  <2>5. calls[c].state \in Beyond => s \in Beyond
    BY <2>2 DEF MayBecome, Allowed, Quiescent, Beyond
  <2>4. \A d \in CallIds : d # c => calls[d].state \in {Absent, "ended"}
    BY <2>2 DEF OneUnfinished, Unfinished
  <2>. QED  BY <2>1, <2>2, <2>3, <2>4, <2>5 DEF MayBecome
<1>3. AnswerStep => UNCHANGED <<calls, facts, log>>
  BY DEF AnswerStep
<1>. QED  BY <1>1, <1>2, <1>3, NextCases DEF Absent, Quiescent, Beyond

LEMMA NeverRedialsStep ==
  ASSUME TypeOK, CommandIdentity, AbsentUnrevised, OneUnfinished,
         LogNumbersRevisions, LogNeverRedials, [Next]_vars
  PROVE  LogNeverRedials'
<1>1. ASSUME NEW c \in CallIds, Revision(c), calls[c].state # "ended",
             calls[c].state \in Quiescent => calls'[c].state \in Quiescent
      PROVE  LogNeverRedials'
  <2>. SUFFICES ASSUME NEW i \in 1..Len(log'), NEW j \in 1..Len(log'), i < j,
                       log'[i].call = log'[j].call
                PROVE  /\ log'[i].state # "ended"
                       /\ log'[i].state \in Quiescent => log'[j].state \in Quiescent
    BY DEF LogNeverRedials
  <2>1. i \in 1..Len(log) /\ log'[i] = log[i]
    BY <1>1, RevisionEffect
  <2>2. CASE j \in 1..Len(log)
    BY <1>1, <2>1, <2>2, RevisionEffect DEF LogNeverRedials
  <2>3. CASE j = Len(log) + 1
    <3>1. log[i].call = c /\ log'[j].state = calls'[c].state
      BY <1>1, <2>1, <2>3, RevisionEffect
    <3>. QED  BY <1>1, <2>1, <3>1, LogBoundsState
  <2>. QED  BY <1>1, <2>2, <2>3, RevisionEffect
<1>2. CASE UNCHANGED <<calls, facts, log>>
  BY <1>2 DEF LogNeverRedials
<1>. QED  BY <1>1, <1>2, WriteCases

\* What was connected is not reported as dialled or rung again.
LEMMA StaysBeyondStep ==
  ASSUME TypeOK, CommandIdentity, AbsentUnrevised, OneUnfinished,
         LogNumbersRevisions, LogNeverRedials, LogStaysBeyond, [Next]_vars
  PROVE  LogStaysBeyond'
<1>1. ASSUME NEW c \in CallIds, Revision(c), calls[c].state \in Beyond => calls'[c].state \in Beyond
      PROVE  LogStaysBeyond'
  <2>. SUFFICES ASSUME NEW i \in 1..Len(log'), NEW j \in 1..Len(log'), i < j,
                       log'[i].call = log'[j].call, log'[i].state \in Beyond
                PROVE  log'[j].state \in Beyond
    BY DEF LogStaysBeyond, Beyond
  <2>1. i \in 1..Len(log) /\ log'[i] = log[i]
    BY <1>1, RevisionEffect
  <2>2. CASE j \in 1..Len(log)
    BY <1>1, <2>1, <2>2, RevisionEffect DEF LogStaysBeyond
  <2>3. CASE j = Len(log) + 1
    <3>1. log[i].call = c /\ log'[j].state = calls'[c].state
      BY <1>1, <2>1, <2>3, RevisionEffect
    <3>. QED  BY <1>1, <2>1, <3>1, LogBoundsState
  <2>. QED  BY <1>1, <2>2, <2>3, RevisionEffect
<1>2. CASE UNCHANGED <<calls, facts, log>>
  BY <1>2 DEF LogStaysBeyond
<1>. QED  BY <1>1, <1>2, WriteCases

LEMMA CallsApartStep ==
  ASSUME TypeOK, CommandIdentity, AbsentUnrevised, OneUnfinished,
         LogNumbersRevisions, LogKeepsCallsApart, [Next]_vars
  PROVE  LogKeepsCallsApart'
<1>1. ASSUME NEW c \in CallIds, Revision(c), calls[c].state # "ended",
             \A d \in CallIds : d # c => calls[d].state \in {Absent, "ended"}
      PROVE  LogKeepsCallsApart'
  <2>. SUFFICES ASSUME NEW i \in 1..Len(log'), NEW j \in 1..Len(log'), i < j,
                       log'[i].call # log'[j].call
                PROVE  /\ calls'[log'[i].call].state = "ended"
                       /\ \A k \in 1..Len(log') : k > j => log'[k].call # log'[i].call
    BY DEF LogKeepsCallsApart
  <2>1. i \in 1..Len(log) /\ log'[i] = log[i] /\ log[i].call \in CallIds
    BY <1>1, RevisionEffect DEF Event
  <2>2. log[i].call # c
    <3>1. CASE j = Len(log) + 1
      BY <1>1, <2>1, <3>1, RevisionEffect
    <3>2. CASE j \in 1..Len(log)
      BY <1>1, <2>1, <3>2, RevisionEffect DEF LogKeepsCallsApart
    <3>. QED  BY <1>1, <3>1, <3>2, RevisionEffect
  <2>3. calls'[log[i].call].state = "ended"
    <3>1. calls[log[i].call].state # Absent
      <4>1. log[i].seq \in 1..calls[log[i].call].revision
        BY <2>1 DEF LogNumbersRevisions
      <4>. QED  BY <2>1, <4>1 DEF AbsentUnrevised
    <3>. QED  BY <1>1, <2>1, <2>2, <3>1, RevisionEffect
  <2>4. ASSUME NEW k \in 1..Len(log'), k > j
        PROVE  log'[k].call # log[i].call
    <3>1. CASE k = Len(log) + 1
      BY <1>1, <2>2, <3>1, RevisionEffect
    <3>2. CASE k \in 1..Len(log)
      BY <1>1, <2>1, <2>4, <3>2, RevisionEffect DEF LogKeepsCallsApart
    <3>. QED  BY <1>1, <3>1, <3>2, RevisionEffect
  <2>. QED  BY <2>1, <2>3, <2>4
<1>2. CASE UNCHANGED <<calls, facts, log>>
  BY <1>2 DEF LogKeepsCallsApart
<1>. QED  BY <1>1, <1>2, WriteCases

-----------------------------------------------------------------------------
\* The positions of the events that report call c in state s.
Seen(c, s) == {i \in 1..Len(log) : log[i].call = c /\ log[i].state = s}

\* FactsSummariseLog for one call.
FactsOf(c) ==
  /\ facts[c].connected <=> Seen(c, "connected") # {}
  /\ facts[c].wasUncertain <=> Seen(c, "uncertain") # {}
  /\ \A i \in Seen(c, "connected") : /\ facts[c].connectedAt > 0
                                     /\ facts[c].connectedAt <= log[i].seq
  /\ facts[c].connectedAt > 0 =>
       \E i \in Seen(c, "connected") : log[i].seq = facts[c].connectedAt
  /\ \A i \in Seen(c, "ended") : log[i].seq = facts[c].endedAt
  /\ facts[c].endedAt > 0 <=> calls[c].state = "ended"

LEMMA FactsByCall == FactsSummariseLog <=> \A c \in CallIds : FactsOf(c)
  BY DEF FactsSummariseLog, FactsOf, Seen

\* A revision adds at most its own position to the events seen.
LEMMA SeenGrows ==
  ASSUME TypeOK, NEW c \in CallIds, Revision(c), NEW d \in CallIds, NEW s
  PROVE  /\ Seen(d, s)' = IF d = c /\ s = calls'[c].state
                            THEN Seen(d, s) \cup {Len(log) + 1} ELSE Seen(d, s)
         /\ \A i \in Seen(d, s) : log'[i] = log[i] /\ i \in 1..Len(log)
<1>1. \A i \in 1..Len(log) : i \in Seen(d, s)' <=> i \in Seen(d, s)
  BY RevisionEffect DEF Seen
<1>2. Len(log) + 1 \in Seen(d, s)' <=> d = c /\ s = calls'[c].state
  BY RevisionEffect DEF Seen
<1>3. Seen(d, s)' \subseteq 1..(Len(log) + 1) /\ Seen(d, s) \subseteq 1..Len(log)
  BY RevisionEffect DEF Seen
<1>4. Len(log) \in Nat /\ \A i \in 1..Len(log) : log'[i] = log[i]
  BY RevisionEffect
<1>5. 1..(Len(log) + 1) = 1..Len(log) \cup {Len(log) + 1}
  BY <1>4
<1>6. Seen(d, s)' = IF d = c /\ s = calls'[c].state
                      THEN Seen(d, s) \cup {Len(log) + 1} ELSE Seen(d, s)
  <2>1. Len(log) + 1 \notin Seen(d, s)
    BY <1>3, <1>4
  <2>2. \A i \in 1..(Len(log) + 1) :
          i \in Seen(d, s)' <=> \/ i \in Seen(d, s)
                                \/ i = Len(log) + 1 /\ d = c /\ s = calls'[c].state
    BY <1>1, <1>2, <1>5, <2>1
  <2>3. CASE d = c /\ s = calls'[c].state
    BY <1>3, <1>5, <2>2, <2>3
  <2>4. CASE ~(d = c /\ s = calls'[c].state)
    BY <1>3, <1>5, <2>2, <2>4
  <2>. QED  BY <2>3, <2>4
<1>. QED  BY <1>3, <1>4, <1>6

LEMMA FactsStep ==
  ASSUME TypeOK, CommandIdentity, AbsentUnrevised, OneUnfinished,
         LogNumbersRevisions, LogNeverRedials, FactsSummariseLog, [Next]_vars
  PROVE  FactsSummariseLog'
<1>1. ASSUME NEW c \in CallIds, Revision(c), NEW d \in CallIds, d # c,
             facts'[d] = facts[d]
      PROVE  FactsOf(d)'
  <2>1. \A s : /\ Seen(d, s)' = Seen(d, s)
               /\ \A i \in Seen(d, s) : log'[i] = log[i]
    BY <1>1, SeenGrows
  <2>2. calls'[d] = calls[d]
    BY <1>1, RevisionEffect
  <2>3. FactsOf(d)
    BY FactsByCall
  <2>. QED  BY <1>1, <2>1, <2>2, <2>3 DEF FactsOf
<1>2. ASSUME NEW k \in Commands, NEW h \in Digests, NEW c \in CallIds,
             InsertStep(k, h, c)
      PROVE  FactsSummariseLog'
  <2>1. Revision(c) /\ facts' = [facts EXCEPT ![c] = NoFact]
    BY <1>2, InsertRevises DEF InsertStep
  <2>2. calls'[c].state = "requested"
    BY <1>2 DEF InsertStep, TypeOK
  <2>3. \A s : Seen(c, s) = {}
    <3>1. calls[c].revision = 0
      BY <1>2 DEF InsertStep, AbsentUnrevised
    <3>2. \A i \in 1..Len(log) : log[i].call # c
      BY <3>1 DEF LogNumbersRevisions
    <3>. QED  BY <3>2 DEF Seen
  <2>4. /\ Seen(c, "connected")' = {} /\ Seen(c, "uncertain")' = {}
        /\ Seen(c, "ended")' = {}
    BY <2>1, <2>2, <2>3, SeenGrows
  <2>5. FactsOf(c)'
    BY <2>1, <2>2, <2>4 DEF FactsOf, NoFact, TypeOK
  <2>6. \A d \in CallIds : d # c => FactsOf(d)'
    BY <1>1, <2>1 DEF TypeOK
  <2>. QED  BY <2>5, <2>6 DEF FactsSummariseLog, FactsOf, Seen
<1>3. ASSUME NEW c \in CallIds, NEW s \in CallState, NEW ready \in BOOLEAN,
             NEW reason \in Reason, StoreStep(c, s, ready, reason)
      PROVE  FactsSummariseLog'
  <2>. DEFINE now == calls[c].revision + 1
  <2>1. Revision(c) /\ facts'[c] = FactsAfter(c, s) /\ calls'[c].state = s
    BY <1>3, StoreRevises DEF StoreStep, TypeOK
  <2>2. \A d \in CallIds : d # c => facts'[d] = facts[d]
    BY <1>3 DEF StoreStep, TypeOK
  <2>3. calls[c].state # "ended" /\ FactsOf(c)
    BY <1>3, FactsByCall DEF StoreStep, MayBecome
  <2>4. now \in Nat \ {0} /\ facts[c] \in Fact /\ log'[Len(log) + 1].seq = now
    BY <2>1, RevisionEffect DEF Revision, TypeOK
  <2>5. \A i \in 1..Len(log) : log[i].call = c =>
          log[i].seq \in Nat /\ log[i].seq < now
    BY <2>1, <2>4 DEF LogNumbersRevisions, Revision
  <2>6. /\ Seen(c, "connected")' = IF s = "connected"
             THEN Seen(c, "connected") \cup {Len(log) + 1} ELSE Seen(c, "connected")
        /\ Seen(c, "uncertain")' = IF s = "uncertain"
             THEN Seen(c, "uncertain") \cup {Len(log) + 1} ELSE Seen(c, "uncertain")
        /\ Seen(c, "ended")' = IF s = "ended"
             THEN Seen(c, "ended") \cup {Len(log) + 1} ELSE Seen(c, "ended")
        /\ \A t : \A i \in Seen(c, t) : log'[i] = log[i] /\ i \in 1..Len(log)
    BY <2>1, SeenGrows
  <2>7. Seen(c, "ended") = {}
    BY <2>3, LogBoundsState DEF Seen
  <2>8. calls[c].state = "connected" => Seen(c, "connected") # {}
    <3>1. ASSUME calls[c].state = "connected"
          PROVE  \E i \in 1..Len(log) : log[i].call = c /\ log[i].seq = calls[c].revision
      <4>1. calls[c].revision \in 1..calls[c].revision
        BY <2>1, <3>1 DEF AbsentUnrevised, Absent, Revision
      <4>. QED  BY <4>1 DEF LogNumbersRevisions
    <3>. QED  BY <3>1 DEF LogNumbersRevisions, Seen
  <2>9. facts'[c] = [connected |-> s = "connected" \/ facts[c].connected,
                     connectedAt |-> IF s = "connected" /\ facts[c].connectedAt = 0
                                       THEN now ELSE facts[c].connectedAt,
                     endedAt |-> IF s = "ended" THEN now ELSE facts[c].endedAt,
                     wasUncertain |-> s = "uncertain" \/ facts[c].wasUncertain]
    BY <2>1, <2>3, <2>8 DEF FactsAfter, FactsOf
  <2>10. /\ facts'[c].connected <=> Seen(c, "connected")' # {}
         /\ facts'[c].wasUncertain <=> Seen(c, "uncertain")' # {}
    <3>. HIDE DEF now
    <3>1. /\ facts'[c].connected = (s = "connected" \/ facts[c].connected)
          /\ facts'[c].wasUncertain = (s = "uncertain" \/ facts[c].wasUncertain)
      BY <2>9
    <3>2. /\ Seen(c, "connected")' # {} <=> s = "connected" \/ Seen(c, "connected") # {}
          /\ Seen(c, "uncertain")' # {} <=> s = "uncertain" \/ Seen(c, "uncertain") # {}
      BY <2>6
    <3>. QED  BY <2>3, <3>1, <3>2 DEF FactsOf
  <2>11. \A i \in Seen(c, "connected")' : /\ facts'[c].connectedAt > 0
                                          /\ facts'[c].connectedAt <= log'[i].seq
    <3>1. ASSUME NEW i \in Seen(c, "connected")
          PROVE  /\ facts'[c].connectedAt = facts[c].connectedAt
                 /\ facts[c].connectedAt > 0
                 /\ facts[c].connectedAt <= log'[i].seq /\ log'[i].seq < now
                 /\ log'[i].seq \in Nat
      <4>1. /\ i \in 1..Len(log) /\ log[i].call = c /\ log'[i] = log[i]
            /\ log[i].seq \in Nat /\ log[i].seq < now
        BY <2>5, <2>6, <3>1 DEF Seen
      <4>2. facts[c].connectedAt > 0 /\ facts[c].connectedAt <= log[i].seq
        BY <2>3, <3>1 DEF FactsOf
      <4>3. facts'[c].connectedAt = facts[c].connectedAt
        BY <2>4, <2>9, <4>2 DEF Fact
      <4>. QED  BY <4>1, <4>2, <4>3
    <3>2. CASE s = "connected" /\ Seen(c, "connected") = {}
      <4>1. facts[c].connectedAt = 0
        BY <2>3, <2>4, <3>2 DEF FactsOf, Fact
      <4>. QED  BY <2>4, <2>6, <2>9, <3>2, <4>1
    <3>3. CASE s = "connected" /\ Seen(c, "connected") # {}
      <4>1. /\ facts'[c].connectedAt = facts[c].connectedAt
            /\ facts[c].connectedAt \in Nat
            /\ facts[c].connectedAt > 0 /\ facts[c].connectedAt <= now
        BY <2>4, <3>1, <3>3 DEF Fact
      <4>. QED  BY <2>4, <2>6, <3>1, <3>3, <4>1
    <3>4. CASE s # "connected"
      BY <2>6, <3>1, <3>4
    <3>. QED  BY <3>2, <3>3, <3>4
  <2>12. facts'[c].connectedAt > 0 =>
           \E i \in Seen(c, "connected")' : log'[i].seq = facts'[c].connectedAt
    <3>1. CASE s = "connected" /\ facts[c].connectedAt = 0
      BY <2>4, <2>6, <2>9, <3>1
    <3>2. CASE ~(s = "connected" /\ facts[c].connectedAt = 0)
      BY <2>3, <2>6, <2>9, <3>2 DEF FactsOf
    <3>. QED  BY <3>1, <3>2
  <2>13. /\ \A i \in Seen(c, "ended")' : log'[i].seq = facts'[c].endedAt
         /\ facts'[c].endedAt > 0 <=> calls'[c].state = "ended"
    BY <2>1, <2>3, <2>4, <2>6, <2>7, <2>9 DEF FactsOf, Fact
  <2>14. FactsOf(c)'
    BY <2>10, <2>11, <2>12, <2>13 DEF FactsOf
  <2>15. \A d \in CallIds : d # c => FactsOf(d)'
    BY <1>1, <2>1, <2>2
  <2>. QED  BY <2>14, <2>15 DEF FactsSummariseLog, FactsOf, Seen
<1>4. CASE AnswerStep
  BY <1>4 DEF AnswerStep, FactsSummariseLog
<1>. QED  BY <1>2, <1>3, <1>4, NextCases

-----------------------------------------------------------------------------
\* The inductive invariant: the checked invariants, AbsentUnrevised, which ties a
\* row's absence to an empty history, and LogStaysBeyond, which the migration needs.
IInv ==
  /\ TypeOK
  /\ OneUnfinished
  /\ CommandIdentity
  /\ RetryFindsCall
  /\ AbsentUnrevised
  /\ LogNumbersRevisions
  /\ LogKeepsCallsApart
  /\ LogNeverRedials
  /\ LogStaysBeyond
  /\ FactsSummariseLog

LEMMA InitIInv == Init => IInv
<1>. SUFFICES ASSUME Init  PROVE  IInv
  OBVIOUS
<1>1. TypeOK
  BY DEF Init, TypeOK, NoRow, NoFact, Call, Fact, Reason, Reply, Absent
<1>2. Unfinished = {} /\ \A c \in CallIds : calls[c] = NoRow /\ facts[c] = NoFact
  BY DEF Init, Unfinished, NoRow
<1>3. OneUnfinished /\ CommandIdentity /\ RetryFindsCall /\ AbsentUnrevised
  BY <1>2 DEF Init, OneUnfinished, CommandIdentity, RetryFindsCall,
              AbsentUnrevised, NoRow
<1>4. Len(log) = 0 /\ 1..Len(log) = {}
  BY DEF Init
<1>5. LogNumbersRevisions /\ LogKeepsCallsApart /\ LogNeverRedials /\ LogStaysBeyond
  BY <1>2, <1>4 DEF LogNumbersRevisions, LogKeepsCallsApart, LogNeverRedials, LogStaysBeyond, NoRow
<1>6. FactsSummariseLog
  BY <1>2, <1>4 DEF FactsSummariseLog, NoRow, NoFact, Absent
<1>. QED  BY <1>1, <1>3, <1>5, <1>6 DEF IInv

LEMMA StepIInv == IInv /\ [Next]_vars => IInv'
<1>. SUFFICES ASSUME IInv, [Next]_vars  PROVE  IInv'
  OBVIOUS
<1>. USE DEF IInv
<1>1. TypeOK'                BY TypeStep
<1>2. OneUnfinished'         BY OneUnfinishedStep
<1>3. CommandIdentity'       BY CommandIdentityStep
<1>4. RetryFindsCall'        BY RetryFindsCallStep
<1>5. AbsentUnrevised'       BY AbsentUnrevisedStep
<1>6. LogNumbersRevisions'   BY NumberingStep
<1>7. LogKeepsCallsApart'    BY CallsApartStep
<1>8. LogNeverRedials'       BY NeverRedialsStep
<1>9. LogStaysBeyond'        BY StaysBeyondStep
<1>10. FactsSummariseLog'    BY FactsStep
<1>. QED  BY <1>1, <1>2, <1>3, <1>4, <1>5, <1>6, <1>7, <1>8, <1>9, <1>10

LEMMA Invariance == Spec => []IInv
  BY InitIInv, StepIInv, PTL DEF Spec

\* Every stored row, answer and event has the shape the schema gives it.
THEOREM TypeCorrect == Spec => []TypeOK
  BY Invariance, PTL DEF IInv

\* createCall's capacity check and the table of transitions never leave two
\* calls unfinished, whatever the callers and restarts do.
THEOREM SingleCall == Spec => []OneUnfinished
  BY Invariance, PTL DEF IInv

\* A command row and its call are created together and stay one to one.
THEOREM CommandsNameCalls == Spec => []CommandIdentity
  BY Invariance, PTL DEF IInv

\* createCall answers a repeated request with the stored call and any other
\* request with none.
THEOREM RetriesAnswered == Spec => []RetryFindsCall
  BY Invariance, PTL DEF IInv

\* emit() numbers the events of a call 1, 2, ... and the last shows its state.
THEOREM EventsComplete == Spec => []LogNumbersRevisions
  BY Invariance, PTL DEF IInv

\* The event log is a concatenation of the histories of the calls.
THEOREM EventsApart == Spec => []LogKeepsCallsApart
  BY Invariance, PTL DEF IInv

\* No event reports a call active after one reported it uncertain, ending or
\* ended: nothing in the ledger lets a recovered call be dialled again.
THEOREM NeverRedialled == Spec => []LogNeverRedials
  BY Invariance, PTL DEF IInv

\* The dashboard's call_facts row of a call agrees with the call's events.
THEOREM FactsAgree == Spec => []FactsSummariseLog
  BY Invariance, PTL DEF IInv

-----------------------------------------------------------------------------
(* The migration of an older database *)

\* Induction by the least counterexample: the initial segments 0..n, n in S,
\* are ordered by inclusion.
LEMMA LeastNumber ==
  ASSUME NEW S \in SUBSET Nat, S # {}
  PROVE  \E m \in S : \A n \in S : m <= n
<1>. DEFINE T == {0..n : n \in S}
<1>1. T \subseteq FiniteSubsetsOf(Nat) /\ T # {}
  <2>1. \A n \in S : 0..n \subseteq Nat /\ IsFiniteSet(0..n)
    BY FS_Interval
  <2>. QED  BY <2>1 DEF FiniteSubsetsOf
<1>2. \E x \in T : \A y \in T : <<y, x>> \notin StrictSubsetOrdering(Nat)
  BY <1>1, FS_StrictSubsetOrderingWellFounded, WFMin
<1>3. PICK m \in S : \A n \in S : <<0..n, 0..m>> \notin StrictSubsetOrdering(Nat)
  BY <1>2
<1>4. ASSUME NEW n \in S, n < m PROVE FALSE
  <2>1. 0..n \subseteq 0..m /\ m \in 0..m /\ m \notin 0..n /\ 0..m \subseteq Nat
    BY <1>4
  <2>2. <<0..n, 0..m>> \in StrictSubsetOrdering(Nat)
    BY <2>1 DEF StrictSubsetOrdering
  <2>. QED  BY <1>3, <2>2
<1>. QED  BY <1>4

Before(c, n) == {i \in 1..Len(log) : log[i].call = c /\ log[i].seq <= n}

\* What the ledger's invariant says of one call's events.
LEMMA LogOf ==
  ASSUME IInv, NEW c \in CallIds
  PROVE  /\ Len(log) \in Nat /\ calls[c].revision \in Nat
         /\ \A i \in 1..Len(log) : log[i].call = c =>
              log[i].seq \in Nat /\ 1 <= log[i].seq /\ log[i].seq <= calls[c].revision
         /\ \A n \in 1..calls[c].revision : \E i \in 1..Len(log) : log[i].call = c /\ log[i].seq = n
         /\ \A i, j \in 1..Len(log) : i < j /\ log[i].call = c /\ log[j].call = c => log[i].seq < log[j].seq
         /\ \A i \in 1..Len(log) : log[i].call = c /\ log[i].seq = calls[c].revision => log[i].state = calls[c].state
<1>1. log \in Seq(Event) /\ Len(log) \in Nat /\ calls[c].revision \in Nat
  BY DEF IInv, TypeOK, Call
<1>2. LogNumbersRevisions
  BY DEF IInv
<1>3. ASSUME NEW i \in 1..Len(log), log[i].call = c
      PROVE  log[i].seq \in Nat /\ 1 <= log[i].seq /\ log[i].seq <= calls[c].revision
  BY <1>1, <1>2, <1>3 DEF LogNumbersRevisions
<1>4. \A n \in 1..calls[c].revision : \E i \in 1..Len(log) : log[i].call = c /\ log[i].seq = n
  BY <1>2 DEF LogNumbersRevisions
<1>5. \A i, j \in 1..Len(log) : i < j /\ log[i].call = c /\ log[j].call = c => log[i].seq < log[j].seq
  BY <1>2 DEF LogNumbersRevisions
<1>6. \A i \in 1..Len(log) : log[i].call = c /\ log[i].seq = calls[c].revision => log[i].state = calls[c].state
  BY <1>2 DEF LogNumbersRevisions
<1>. QED  BY <1>1, <1>3, <1>4, <1>5, <1>6

\* The order of the places is the order of the numbers.
LEMMA NumbersAreOrdered ==
  ASSUME IInv, NEW c \in CallIds, NEW i \in 1..Len(log), NEW j \in 1..Len(log), log[i].call = c, log[j].call = c
  PROVE  /\ i < j <=> log[i].seq < log[j].seq
         /\ i = j <=> log[i].seq = log[j].seq
<1>1. /\ i \in Nat /\ j \in Nat /\ log[i].seq \in Nat /\ log[j].seq \in Nat
      /\ i < j => log[i].seq < log[j].seq
      /\ j < i => log[j].seq < log[i].seq
  BY LogOf
<1>. QED  BY <1>1

\* A call has n events numbered up to n.
LEMMA Counted ==
  ASSUME IInv, NEW c \in CallIds, NEW n \in 0..calls[c].revision
  PROVE  IsFiniteSet(Before(c, n)) /\ Cardinality(Before(c, n)) = n
<1>1. PICK D : D = Before(c, n)
  OBVIOUS
<1>2. D \subseteq 1..Len(log) /\ IsFiniteSet(D)
  <2>1. D \subseteq 1..Len(log)
    BY <1>1 DEF Before
  <2>2. 1 \in Int /\ Len(log) \in Int
    BY LogOf
  <2>3. IsFiniteSet(1..Len(log))
    BY <2>2, FS_Interval
  <2>. QED  BY <2>1, <2>3, FS_Subset
<1>3. PICK f : f = [i \in D |-> log[i].seq]
  OBVIOUS
<1>4. f \in [D -> 1..n]
  <2>1. \A i \in D : log[i].seq \in 1..n
    BY <1>1, LogOf DEF Before
  <2>. QED  BY <1>3, <2>1
<1>5. \A i, j \in D : f[i] = f[j] => i = j
  BY <1>1, <1>3, NumbersAreOrdered DEF Before
<1>6. \A m \in 1..n : \E i \in D : f[i] = m
  <2>1. ASSUME NEW m \in 1..n
        PROVE  \E i \in D : f[i] = m
    <3>1. m \in 1..calls[c].revision /\ m <= n
      BY LogOf
    <3>2. PICK i \in 1..Len(log) : log[i].call = c /\ log[i].seq = m
      BY <3>1, LogOf
    <3>. QED  BY <1>1, <1>3, <3>1, <3>2 DEF Before
  <2>. QED  BY <2>1
<1>7. ExistsBijection(D, 1..n)
  <2>1. DOMAIN f = D
    BY <1>3
  <2>2. f \in Injection(D, 1..n)
    BY <1>4, <1>5, <2>1 DEF Injection, IsInjective
  <2>3. f \in Surjection(D, 1..n)
    BY <1>4, <1>6 DEF Surjection
  <2>. QED  BY <2>2, <2>3 DEF ExistsBijection, Bijection
<1>8. Cardinality(1..n) = n
  <2>1. n \in Nat
    BY LogOf
  <2>. QED  BY <2>1, FS_Interval
<1>. QED  BY <1>1, <1>2, <1>7, <1>8, FS_Bijection

\* With the whole log the events of a call are complete, and with less they are if none
\* of the call's is gone.
LEMMA CompleteIs ==
  ASSUME IInv, NEW c \in CallIds, NEW pruned \in 0..Len(log), NEW left, left = EventsLeft(c, pruned)
  PROVE  /\ left \subseteq EventsLeft(c, 0)
         /\ pruned = 0 => Complete(c, left)
         /\ Complete(c, left) => left = EventsLeft(c, 0)
<1>1. Len(log) \in Nat /\ calls[c].revision \in Nat
  BY LogOf
<1>2. EventsLeft(c, 0) = Before(c, calls[c].revision)
  <2>1. (0 + 1)..Len(log) = 1..Len(log)
    BY <1>1
  <2>. QED  BY <2>1, LogOf DEF EventsLeft, Before
<1>3. IsFiniteSet(EventsLeft(c, 0)) /\ Cardinality(EventsLeft(c, 0)) = calls[c].revision
  BY <1>1, <1>2, Counted
<1>4. left \subseteq EventsLeft(c, 0)
  BY <1>1 DEF EventsLeft
<1>5. Complete(c, left) => left = EventsLeft(c, 0)
  BY <1>3, <1>4, FS_Subset DEF Complete
<1>6. ASSUME pruned = 0
      PROVE  Complete(c, left)
  <2>1. left = Before(c, calls[c].revision)
    BY <1>2, <1>6
  <2>2. ASSUME NEW i \in left
        PROVE  log[i].seq = Cardinality({j \in left : j <= i})
    <3>1. i \in 1..Len(log) /\ log[i].call = c /\ log[i].seq \in 0..calls[c].revision
      BY <1>1, <2>1, LogOf DEF Before
    <3>2. {j \in left : j <= i} = Before(c, log[i].seq)
      <4>1. ASSUME NEW j \in 1..Len(log), log[j].call = c
            PROVE  j <= i <=> log[j].seq <= log[i].seq
        <5>1. /\ i < j <=> log[i].seq < log[j].seq
              /\ i \in Nat /\ j \in Nat /\ log[i].seq \in Nat /\ log[j].seq \in Nat
          BY <3>1, <4>1, NumbersAreOrdered, LogOf
        <5>. QED  BY <5>1
      <4>2. \A j \in 1..Len(log) : log[j].call = c => log[j].seq <= calls[c].revision
        BY LogOf
      <4>. QED  BY <2>1, <4>1, <4>2 DEF Before
    <3>. QED  BY <3>1, <3>2, Counted
  <2>. QED  BY <1>3, <1>6, <2>2 DEF Complete
<1>. QED  BY <1>4, <1>5, <1>6

\* A call that was made has an event that shows the stored state.
LEMMA LastEvent ==
  ASSUME IInv, NEW c \in CallIds, calls[c].state # Absent
  PROVE  \E i \in 1..Len(log) : log[i].call = c /\ log[i].seq = calls[c].revision /\ log[i].state = calls[c].state
<1>1. calls[c].revision \in 1..calls[c].revision
  <2>1. calls[c].revision # 0
    BY DEF IInv, AbsentUnrevised
  <2>. QED  BY <2>1, LogOf
<1>. QED  BY <1>1, LogOf

\* Some connected event that is left is the first one.
LEMMA FirstIs ==
  ASSUME NEW left \in SUBSET Nat, NEW k \in left, log[k].state = "connected"
  PROVE  FirstConnected(left) # {}
<1>1. PICK S \in SUBSET Nat : S = {i \in left : log[i].state = "connected"} /\ S # {}
  OBVIOUS
<1>2. PICK i \in S : \A j \in S : i <= j
  BY <1>1, LeastNumber
<1>3. \A j \in left : j < i => log[j].state # "connected"
  <2>1. \A j \in left : j \in Nat /\ i \in Nat
    BY <1>1
  <2>. QED  BY <1>1, <1>2, <2>1
<1>. QED  BY <1>1, <1>3 DEF FirstConnected

\* An event that is known to be the connection is the one the store recorded.
LEMMA ObservedIs ==
  ASSUME IInv, NEW c \in CallIds, NEW pruned \in 0..Len(log), NEW left, left = EventsLeft(c, pruned),
         NEW i \in FirstConnected(left), Observed(c, left, i)
  PROVE  log[i].seq = facts[c].connectedAt
<1>1. /\ i \in left /\ log[i].state = "connected" /\ log[i].call = c /\ i \in 1..Len(log) /\ i \in Nat
      /\ left \subseteq 1..Len(log) /\ \A j \in left : log[j].call = c
      /\ \A j \in left : j < i => log[j].state # "connected"
  BY LogOf DEF FirstConnected, EventsLeft
<1>2. /\ facts[c].connectedAt > 0 /\ facts[c].connectedAt <= log[i].seq
      /\ facts[c].connectedAt \in Nat
  BY <1>1 DEF IInv, FactsSummariseLog, TypeOK, Fact
<1>3. PICK k \in 1..Len(log) : log[k].call = c /\ log[k].state = "connected" /\ log[k].seq = facts[c].connectedAt
  BY <1>2 DEF IInv, FactsSummariseLog
<1>4. /\ log[i].seq \in Nat /\ log[k].seq \in Nat /\ log[k].seq <= log[i].seq
      /\ k < i <=> log[k].seq < log[i].seq
  BY <1>1, <1>2, <1>3, LogOf, NumbersAreOrdered
<1>5. CASE Complete(c, left)
  <2>1. k \in left
    <3>1. left = EventsLeft(c, 0)
      BY <1>5, CompleteIs
    <3>2. 1..Len(log) = (0 + 1)..Len(log)
      BY LogOf
    <3>. QED  BY <1>3, <3>1, <3>2 DEF EventsLeft
  <2>2. ~(k < i)
    BY <1>1, <1>3, <2>1
  <2>. QED  BY <1>3, <1>4, <2>2
<1>6. CASE \E j \in left : /\ log[j].seq + 1 = log[i].seq
                           /\ log[j].state \in {"requested", "dialing", "ringing"}
  <2>1. PICK j \in left : /\ log[j].seq + 1 = log[i].seq
                          /\ log[j].state \in {"requested", "dialing", "ringing"}
    BY <1>6
  <2>2. j \in 1..Len(log) /\ log[j].call = c /\ log[j].seq \in Nat
    BY <1>1, LogOf
  <2>3. ~(k < j)
    <3>1. log[k].state \in Beyond /\ log[j].state \notin Beyond
      BY <1>3, <2>1 DEF Beyond, Quiescent
    <3>2. LogStaysBeyond
      BY DEF IInv
    <3>. QED  BY <1>3, <2>2, <3>1, <3>2 DEF LogStaysBeyond
  <2>4. k # j
    BY <1>3, <2>1
  <2>5. /\ k < j <=> log[k].seq < log[j].seq
        /\ k = j <=> log[k].seq = log[j].seq
    BY <1>3, <2>2, NumbersAreOrdered
  <2>6. ~(log[k].seq < log[i].seq)
    BY <1>4, <2>1, <2>2, <2>3, <2>4, <2>5
  <2>. QED  BY <1>3, <1>4, <2>6
<1>. QED  BY <1>5, <1>6 DEF Observed

\* migrateConsoleFacts records of a call what the running store would have recorded, or leaves
\* it unknown, however much of the log was pruned; of a whole log it leaves nothing unknown.
THEOREM MigrationTrue == Spec => []MigrationAgrees
<1>1. IInv => MigrationAgrees
  <2>. SUFFICES ASSUME IInv, NEW c \in CallIds, NEW pruned \in 0..Len(log), calls[c].state # Absent
                PROVE  LET migrated == MigratedFacts(c, pruned) IN
                       /\ facts[c].connected \in migrated.connected
                       /\ facts[c].wasUncertain \in migrated.wasUncertain
                       /\ migrated.connectedAt \subseteq {facts[c].connectedAt}
                       /\ migrated.endedAt = facts[c].endedAt
                       /\ pruned = 0 => /\ migrated.connected # BOOLEAN /\ migrated.wasUncertain # BOOLEAN
                                        /\ facts[c].connected <=> migrated.connectedAt # {}
    BY DEF MigrationAgrees
  <2>1. PICK left : left = EventsLeft(c, pruned)
    OBVIOUS
  <2>2. PICK first : first = FirstConnected(left)
    OBVIOUS
  <2>3. PICK connected \in BOOLEAN : connected = (first # {} \/ calls[c].state = "connected")
    OBVIOUS
  <2>4. PICK uncertain \in BOOLEAN :
          uncertain = (calls[c].state = "uncertain" \/ \E i \in left : log[i].state = "uncertain")
    OBVIOUS
  <2>5. PICK complete \in BOOLEAN : complete = Complete(c, left)
    <3>1. Complete(c, left) \in BOOLEAN
      BY DEF Complete
    <3>. QED  BY <3>1
  <2>6. PICK m : m = MigratedFacts(c, pruned)
    OBVIOUS
  <2>7. /\ m.connected = IF connected THEN {TRUE} ELSE IF complete THEN {FALSE} ELSE BOOLEAN
        /\ m.wasUncertain = IF uncertain THEN {TRUE} ELSE IF complete THEN {FALSE} ELSE BOOLEAN
        /\ m.connectedAt = {log[i].seq : i \in {j \in first : Observed(c, left, j)}}
        /\ m.endedAt = IF calls[c].state = "ended" THEN calls[c].revision ELSE 0
    BY <2>1, <2>2, <2>3, <2>4, <2>5, <2>6 DEF MigratedFacts
  <2>8. /\ facts[c] \in Fact
        /\ left \subseteq 1..Len(log) /\ \A i \in left : log[i].call = c
        /\ left \in SUBSET Nat
    <3>1. facts[c] \in Fact
      BY DEF IInv, TypeOK
    <3>2. left \subseteq 1..Len(log) /\ \A i \in left : log[i].call = c
      BY <2>1, LogOf DEF EventsLeft
    <3>. QED  BY <3>1, <3>2
  <2>9. /\ facts[c].connected <=> \E i \in 1..Len(log) : log[i].call = c /\ log[i].state = "connected"
        /\ facts[c].wasUncertain <=> \E i \in 1..Len(log) : log[i].call = c /\ log[i].state = "uncertain"
        /\ \A i \in 1..Len(log) : log[i].call = c /\ log[i].state = "ended" => log[i].seq = facts[c].endedAt
        /\ facts[c].endedAt > 0 <=> calls[c].state = "ended"
    BY DEF IInv, FactsSummariseLog
  <2>10. PICK k \in 1..Len(log) : log[k].call = c /\ log[k].seq = calls[c].revision /\ log[k].state = calls[c].state
    BY LastEvent
  <2>11. /\ connected => facts[c].connected
         /\ uncertain => facts[c].wasUncertain
    BY <2>2, <2>3, <2>4, <2>8, <2>9, <2>10 DEF FirstConnected
  <2>12. ASSUME complete
         PROVE  /\ facts[c].connected => first # {}
                /\ facts[c].wasUncertain => uncertain
    <3>1. left = EventsLeft(c, 0)
      BY <2>1, <2>5, <2>12, CompleteIs
    <3>2. \A i \in 1..Len(log) : log[i].call = c => i \in left
      <4>1. (0 + 1)..Len(log) = 1..Len(log)
        BY LogOf
      <4>. QED  BY <3>1, <4>1 DEF EventsLeft
    <3>3. facts[c].connected => first # {}
      BY <2>2, <2>8, <2>9, <3>2, FirstIs
    <3>. QED  BY <2>4, <2>9, <3>2, <3>3
  <2>13. facts[c].connected \in m.connected /\ facts[c].wasUncertain \in m.wasUncertain
    <3>1. facts[c].connected \in BOOLEAN /\ facts[c].wasUncertain \in BOOLEAN
      BY <2>8 DEF Fact
    <3>. QED  BY <2>3, <2>7, <2>11, <2>12, <3>1
  <2>14. m.connectedAt \subseteq {facts[c].connectedAt}
    BY <2>1, <2>2, <2>7, ObservedIs
  <2>15. m.endedAt = facts[c].endedAt
    <3>1. facts[c].endedAt \in Nat
      BY <2>8 DEF Fact
    <3>. QED  BY <2>7, <2>9, <2>10, <3>1
  <2>16. ASSUME pruned = 0
         PROVE  /\ m.connected # BOOLEAN /\ m.wasUncertain # BOOLEAN
                /\ facts[c].connected <=> m.connectedAt # {}
    <3>1. complete
      BY <2>1, <2>5, <2>16, CompleteIs
    <3>2. {TRUE} # BOOLEAN /\ {FALSE} # BOOLEAN
      OBVIOUS
    <3>3. first # {} <=> m.connectedAt # {}
      BY <2>5, <2>7, <3>1 DEF Observed
    <3>4. first # {} => connected
      BY <2>3
    <3>5. facts[c].connected <=> first # {}
      BY <2>11, <2>12, <3>1, <3>4
    <3>. QED  BY <2>7, <3>1, <3>2, <3>3, <3>5
  <2>. QED  BY <2>6, <2>13, <2>14, <2>15, <2>16
<1>. QED  BY <1>1, Invariance, PTL

-----------------------------------------------------------------------------
\* The ledger implements the abstract life of calls.
THEOREM Refinement == Spec => ImplementsLifecycle
<1>. DEFINE ph == [c \in CallIds |-> calls[c].state]
<1>1. Init => Lifecycle!Init
  BY DEF Init, Lifecycle!Init, NoRow, Lifecycle!Absent, Absent
<1>2. ASSUME IInv, [Next]_vars
      PROVE  [Lifecycle!Next]_ph
  <2>. USE <1>2 DEF IInv
  <2>1. Lifecycle!Unfinished = Unfinished
    BY DEF Lifecycle!Unfinished, Unfinished, Lifecycle!Absent, Absent
  <2>2. ASSUME NEW k \in Commands, NEW h \in Digests, NEW c \in CallIds,
               InsertStep(k, h, c)
        PROVE  Lifecycle!Admit(c)
    <3>1. ph' = [ph EXCEPT ![c] = "requested"]
      BY <2>2 DEF InsertStep, TypeOK
    <3>2. ph[c] = Lifecycle!Absent
      BY <2>2 DEF InsertStep, Lifecycle!Absent, Absent
    <3>. QED  BY <2>1, <2>2, <3>1, <3>2 DEF InsertStep, Lifecycle!Admit
  <2>3. ASSUME NEW c \in CallIds, NEW s \in CallState, NEW ready \in BOOLEAN,
               NEW reason \in Reason, StoreStep(c, s, ready, reason)
        PROVE  Lifecycle!Move(c, s) \/ UNCHANGED ph
    <3>1. ph' = [ph EXCEPT ![c] = s]
      BY <2>3 DEF StoreStep, TypeOK
    <3>2. CASE s = calls[c].state
      BY <3>1, <3>2
    <3>3. CASE Allowed(calls[c].state, s)
      <4>1. Lifecycle!Allowed(ph[c], s)
        BY <3>3 DEF Allowed, Lifecycle!Allowed, CallState, Lifecycle!CallState
      <4>. QED  BY <3>1, <4>1 DEF Lifecycle!Move
    <3>. QED  BY <2>3, <3>2, <3>3 DEF StoreStep, MayBecome
  <2>4. CASE AnswerStep
    BY <2>4 DEF AnswerStep
  <2>5. CallState = Lifecycle!CallState
    BY DEF CallState, Lifecycle!CallState
  <2>. QED  BY <2>2, <2>3, <2>4, <2>5, NextCases DEF Lifecycle!Next
<1>. QED  BY <1>1, <1>2, Invariance, PTL DEF Spec, Lifecycle!Spec, ImplementsLifecycle
=============================================================================
