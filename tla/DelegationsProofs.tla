------------------------- MODULE DelegationsProofs -------------------------
(***************************************************************************)
(* Proofs about delegations, for any number of them and of corrections.    *)
(*                                                                         *)
(* What is said in order rests on how results are numbered: the backend    *)
(* issues at most a receipt and an outcome for each context (JobInv), so   *)
(* that a later revision answers a later context (IssueInv); the bridge    *)
(* records and speaks revisions that rise (SpokenInv), in whatever order   *)
(* receipts and callbacks arrive.                                          *)
(***************************************************************************)
EXTENDS Delegations, FiniteSetTheorems, TLAPS

OfDelegation(d) == {r \in issued : r.of = d}

\* The work is about the job's context, and its outcome is there when the
\* work is terminal; revisions number the results of a delegation.
JobInv ==
  \A d \in DelegationIds :
    /\ work[d].context = job[d]
    /\ IsFiniteSet(OfDelegation(d))
    /\ Cardinality(OfDelegation(d)) <= 2 * job[d]
    /\ work[d].state \in {"queued", "running"} =>
         Cardinality(OfDelegation(d)) < 2 * job[d]
    /\ \A r \in OfDelegation(d) :
         /\ r.revision <= Cardinality(OfDelegation(d))
         /\ r.context <= job[d]
         /\ r.context = job[d] /\ r.status # "accepted" => work[d].state = "terminal"

IssueInv ==
  \A x, y \in issued : x.of = y.of =>
    /\ x.revision = y.revision => x = y
    /\ x.revision < y.revision =>
         /\ x.context <= y.context
         /\ x.status # "accepted" => x.context < y.context

\* Work the model was asked about is not queued again.
PaidInv ==
  \A q \in paid :
    /\ q.context <= job[q.of]
    /\ q.context = job[q.of] => work[q.of].state # "queued"

CallbackInv ==
  /\ \A c \in callbacks :
       /\ c.result \in issued /\ c.result.status # "accepted"
       /\ c.status = "pending" => c.result.context = job[c.result.of]
       /\ c.status = "accepted" => c.result \in results
  /\ \A b, c \in callbacks : b.result = c.result => b = c

\* Only what the backend issued is on its way, and recorded.
DeliveryInv ==
  /\ posted \subseteq issued /\ results \subseteq issued
  /\ replied => posting \in results

SpokenInv ==
  /\ \A i \in 1..Len(spoken) : spoken[i] \in results
  /\ \A i, j \in 1..Len(spoken) :
       i < j /\ spoken[i].of = spoken[j].of => spoken[i].revision < spoken[j].revision

\* The bridge stores a context before it asks about it.
StoredInv ==
  /\ \A d \in DelegationIds : stored[d] <= context
  /\ \A q \in asked \cup asking : q.context <= stored[q.of]

IInv ==
  /\ TypeOK /\ JobInv /\ IssueInv /\ PaidInv /\ CallbackInv
  /\ DeliveryInv /\ SpokenInv /\ StoredInv

USE MaxContextAssumption

-----------------------------------------------------------------------------
(* Results and their revisions *)

\* One more result, of a context that has room for it.
LEMMA Issue ==
  ASSUME IInv, NEW d \in DelegationIds, NEW k \in Contexts,
         NEW status \in {"accepted", "completed", "failed"},
         NEW r, r = [of |-> d, context |-> k, revision |-> NextRevision(d), status |-> status],
         issued' = issued \cup {r},
         Cardinality(OfDelegation(d)) < 2 * k,
         \A x \in OfDelegation(d) :
           x.context <= k /\ (x.status # "accepted" => x.context < k)
  PROVE  /\ r \in Result /\ issued' \subseteq Result
         /\ r \notin issued
         /\ IssueInv'
         /\ OfDelegation(d)' = OfDelegation(d) \cup {r}
         /\ IsFiniteSet(OfDelegation(d)')
         /\ Cardinality(OfDelegation(d)') = Cardinality(OfDelegation(d)) + 1
         /\ r.revision = Cardinality(OfDelegation(d)')
         /\ \A e \in DelegationIds \ {d} : OfDelegation(e)' = OfDelegation(e)
<1>. USE DEF IInv
<1>1. IsFiniteSet(OfDelegation(d)) /\ Cardinality(OfDelegation(d)) \in Nat
  BY FS_CardinalityType DEF JobInv
<1>2. NextRevision(d) = Cardinality(OfDelegation(d)) + 1
  BY DEF NextRevision, OfDelegation
<1>3. k \in Nat /\ k <= MaxContext
  BY DEF Contexts
<1>4. r \in Result
  BY <1>1, <1>2, <1>3 DEF Result, Revisions
<1>5. \A x \in OfDelegation(d) : x.revision \in Nat /\ x.revision < r.revision
  <2>. SUFFICES ASSUME NEW x \in OfDelegation(d)
       PROVE  x.revision \in Nat /\ x.revision < r.revision
    OBVIOUS
  <2>1. x \in Result
    BY DEF OfDelegation, TypeOK
  <2>2. x.revision \in Nat
    BY <2>1 DEF Result, Revisions
  <2>3. x.revision <= Cardinality(OfDelegation(d))
    BY DEF JobInv
  <2>4. r.revision = Cardinality(OfDelegation(d)) + 1
    BY <1>2
  <2>. QED  BY <1>1, <2>2, <2>3, <2>4
<1>6. r \notin issued
  <2>1. r \in issued => r \in OfDelegation(d)
    BY DEF OfDelegation
  <2>. QED  BY <1>1, <1>2, <1>5, <2>1
<1>7. OfDelegation(d)' = OfDelegation(d) \cup {r}
  BY DEF OfDelegation
<1>8. /\ IsFiniteSet(OfDelegation(d)')
      /\ Cardinality(OfDelegation(d)') = Cardinality(OfDelegation(d)) + 1
  <2>1. r \notin OfDelegation(d)
    BY <1>6 DEF OfDelegation
  <2>. QED  BY <1>1, <1>7, <2>1, FS_AddElement
<1>9. \A e \in DelegationIds \ {d} : OfDelegation(e)' = OfDelegation(e)
  BY DEF OfDelegation
<1>10. IssueInv'
  <2>. SUFFICES ASSUME NEW x \in issued', NEW y \in issued', x.of = y.of
       PROVE  /\ x.revision = y.revision => x = y
              /\ x.revision < y.revision =>
                   /\ x.context <= y.context
                   /\ x.status # "accepted" => x.context < y.context
    BY DEF IssueInv
  <2>1. CASE x \in issued /\ y \in issued
    BY <2>1 DEF IssueInv
  <2>2. CASE x \in issued /\ y = r
    <3>1. x \in OfDelegation(d)
      BY <2>2 DEF OfDelegation
    <3>. QED  BY <1>1, <1>2, <1>5, <2>2, <3>1
  <2>3. CASE x = r /\ y \in issued
    <3>1. y \in OfDelegation(d)
      BY <2>3 DEF OfDelegation
    <3>. QED  BY <1>1, <1>2, <1>5, <2>3, <3>1
  <2>4. CASE x = r /\ y = r
    BY <1>1, <1>2, <2>4
  <2>. QED  BY <2>1, <2>2, <2>3, <2>4
<1>11. r.revision = Cardinality(OfDelegation(d)')
  BY <1>2, <1>8
<1>. QED  BY <1>4, <1>6, <1>7, <1>8, <1>9, <1>10, <1>11 DEF TypeOK

\* recordResult and onResult, for a result the backend has issued.
LEMMA Recorded ==
  ASSUME IInv, NEW r \in issued, Record(r), UNCHANGED <<stored, issued>>
  PROVE  /\ results' \subseteq Result /\ spoken' \in Seq(Result)
         /\ results \subseteq results' /\ results' \subseteq issued
         /\ Accepts(r) => r \in results'
         /\ SpokenInv'
<1>. USE DEF IInv
<1>1. r \in Result /\ results \subseteq Result /\ results \subseteq issued
  BY DEF TypeOK, DeliveryInv
<1>2. /\ results' \subseteq results \cup {r} /\ results \subseteq results'
      /\ Accepts(r) => r \in results'
  BY DEF Record, Accepts
<1>3. CASE spoken' = spoken
  BY <1>1, <1>2, <1>3 DEF SpokenInv, TypeOK
<1>4. CASE r \notin results /\ Admissible(r) /\ spoken' = Append(spoken, r)
  <2>1. /\ spoken' \in Seq(Result) /\ Len(spoken) \in Nat
        /\ Len(spoken') = Len(spoken) + 1
        /\ \A i \in 1..Len(spoken) : spoken'[i] = spoken[i]
        /\ spoken'[Len(spoken) + 1] = r
    BY <1>1, <1>4 DEF TypeOK
  <2>2. r \in results'
    BY <1>4 DEF Record
  <2>3. \A i \in 1..Len(spoken') : spoken'[i] \in results'
    BY <1>2, <2>1, <2>2 DEF SpokenInv
  <2>4. ASSUME NEW i \in 1..Len(spoken'), NEW j \in 1..Len(spoken'),
               i < j, spoken'[i].of = spoken'[j].of
        PROVE  spoken'[i].revision < spoken'[j].revision
    <3>1. CASE j \in 1..Len(spoken)
      BY <2>1, <2>4, <3>1 DEF SpokenInv
    <3>2. CASE j = Len(spoken) + 1
      <4>1. i \in 1..Len(spoken) /\ spoken'[i] = spoken[i] /\ spoken'[j] = r
        BY <2>1, <2>4, <3>2
      <4>2. spoken[i] \in results
        BY <4>1 DEF SpokenInv
      <4>. QED  BY <1>4, <2>4, <4>1, <4>2 DEF Admissible
    <3>. QED  BY <2>1, <3>1, <3>2
  <2>. QED  BY <1>1, <1>2, <2>1, <2>3, <2>4 DEF SpokenInv
<1>. QED  BY <1>3, <1>4 DEF Record

-----------------------------------------------------------------------------
(* What an action leaves alone *)

LEMMA WorkKept ==
  ASSUME IInv, UNCHANGED <<job, issued, work, paid>>
  PROVE  JobInv' /\ IssueInv' /\ PaidInv'
BY DEF IInv, JobInv, IssueInv, PaidInv, OfDelegation

LEMMA CallbacksKept ==
  ASSUME IInv, UNCHANGED <<job, issued, callbacks>>, results \subseteq results'
  PROVE  CallbackInv'
BY DEF IInv, CallbackInv

LEMMA SpokenKept ==
  ASSUME IInv, UNCHANGED <<results, spoken>>
  PROVE  SpokenInv'
BY DEF IInv, SpokenInv

LEMMA StoredKept ==
  ASSUME IInv, UNCHANGED <<context, stored>>, asked' \cup asking' \subseteq asked \cup asking
  PROVE  StoredInv'
BY DEF IInv, StoredInv

LEMMA BackendKept ==
  ASSUME IInv, UNCHANGED <<backend, results, spoken>>
  PROVE  JobInv' /\ IssueInv' /\ PaidInv' /\ CallbackInv' /\ SpokenInv'
BY WorkKept, CallbacksKept, SpokenKept DEF backend

-----------------------------------------------------------------------------
(* The coordinator *)

LEMMA HearKeeps == ASSUME IInv, NEW d \in DelegationIds, Hear(d) PROVE IInv'
<1>. USE DEF Hear, bridge, backend, delivery
<1>1. TypeOK'  BY DEF IInv, TypeOK
<1>2. JobInv' /\ IssueInv' /\ PaidInv' /\ CallbackInv' /\ SpokenInv'  BY BackendKept
<1>3. DeliveryInv' /\ StoredInv'  BY StoredKept DEF IInv, DeliveryInv
<1>. QED  BY <1>1, <1>2, <1>3 DEF IInv

LEMMA FragmentKeeps == ASSUME IInv, NEW S \in SUBSET heard, Fragment(S) PROVE IInv'
<1>. USE DEF Fragment, bridge, backend, delivery
<1>1. TypeOK'  BY DEF IInv, TypeOK, Contexts
<1>2. JobInv' /\ IssueInv' /\ PaidInv' /\ CallbackInv' /\ SpokenInv'  BY BackendKept
<1>3. DeliveryInv'  BY DEF IInv, DeliveryInv
<1>4. StoredInv'  BY DEF IInv, StoredInv, TypeOK, Contexts
<1>. QED  BY <1>1, <1>2, <1>3, <1>4 DEF IInv

LEMMA DelegateKeeps == ASSUME IInv, NEW d \in DelegationIds, Delegate(d) PROVE IInv'
<1>. USE DEF Delegate, backend, delivery
<1>1. JobInv' /\ IssueInv' /\ PaidInv' /\ CallbackInv' /\ SpokenInv'  BY BackendKept
<1>2. DeliveryInv'  BY DEF IInv, DeliveryInv
<1>3. CASE call = "connected"
  <2>. DEFINE q == [of |-> d, context |-> context]
  <2>1. /\ stored' = [stored EXCEPT ![d] = context]
        /\ asked' = asked \cup {q} /\ asking' = asking \cup {q}
    BY <1>3
  <2>2. q \in Request /\ q.of = d /\ q.context = context /\ context \in 0..MaxContext
    BY DEF IInv, TypeOK, Request, Contexts
  <2>3. /\ stored' \in [DelegationIds -> 0..MaxContext]
        /\ stored'[d] = context
        /\ \A e \in DelegationIds \ {d} : stored'[e] = stored[e]
    BY <2>1, <2>2 DEF IInv, TypeOK
  <2>. HIDE DEF q
  <2>4. TypeOK'  BY <2>1, <2>2, <2>3 DEF IInv, TypeOK
  <2>5. \A e \in DelegationIds : stored'[e] <= context'
    BY <2>2, <2>3 DEF IInv, StoredInv
  <2>6. ASSUME NEW p \in asked' \cup asking' PROVE p.context <= stored'[p.of]
    <3>1. CASE p = q
      BY <2>2, <2>3, <3>1
    <3>2. CASE p \in asked \cup asking
      <4>1. p.of \in DelegationIds /\ p.context \in 0..MaxContext /\ p.context <= stored[p.of]
        BY <3>2 DEF IInv, StoredInv, TypeOK, Request, Contexts
      <4>2. stored[p.of] \in 0..MaxContext /\ stored[p.of] <= context
        BY <4>1 DEF IInv, TypeOK, StoredInv
      <4>. QED  BY <2>2, <2>3, <4>1, <4>2
    <3>. QED  BY <2>1, <2>6, <3>1, <3>2
  <2>7. StoredInv'  BY <2>5, <2>6 DEF StoredInv
  <2>. QED  BY <1>1, <1>2, <2>4, <2>7 DEF IInv
<1>4. CASE call # "connected"
  <2>1. TypeOK'  BY <1>4 DEF IInv, TypeOK
  <2>2. StoredInv'  BY <1>4, StoredKept
  <2>. QED  BY <1>1, <1>2, <2>1, <2>2 DEF IInv
<1>. QED  BY <1>3, <1>4

LEMMA ReceiptKeeps == ASSUME IInv, NEW q \in asking, Receipt(q) PROVE IInv'
<1>. USE DEF Receipt, runtime, backend, delivery
<1>1. PICK r \in issued : Record(r)
  BY DEF Answers
<1>2. /\ results' \subseteq Result /\ spoken' \in Seq(Result)
      /\ results \subseteq results' /\ results' \subseteq issued
      /\ SpokenInv'
  BY <1>1, Recorded
<1>3. TypeOK'  BY <1>2 DEF IInv, TypeOK
<1>4. JobInv' /\ IssueInv' /\ PaidInv'  BY WorkKept
<1>5. CallbackInv' /\ StoredInv'  BY <1>2, CallbacksKept, StoredKept
<1>6. DeliveryInv'  BY <1>2 DEF IInv, DeliveryInv
<1>. QED  BY <1>2, <1>3, <1>4, <1>5, <1>6 DEF IInv

LEMMA NoReceiptKeeps == ASSUME IInv, NEW q \in asking, NoReceipt(q) PROVE IInv'
<1>. USE DEF NoReceipt, runtime, bridge, backend, delivery
<1>1. TypeOK'  BY DEF IInv, TypeOK
<1>2. JobInv' /\ IssueInv' /\ PaidInv' /\ CallbackInv' /\ SpokenInv'  BY BackendKept
<1>3. DeliveryInv' /\ StoredInv'  BY StoredKept DEF IInv, DeliveryInv
<1>. QED  BY <1>1, <1>2, <1>3 DEF IInv

\* The call ends, the bridge stops, the bridge is back.
LEMMA CallKeeps == ASSUME IInv, EndCall \/ BridgeDown \/ BridgeUp PROVE IInv'
<1>. USE DEF EndCall, BridgeDown, BridgeUp, runtime, bridge, backend, delivery
<1>1. TypeOK'  BY DEF IInv, TypeOK
<1>2. JobInv' /\ IssueInv' /\ PaidInv' /\ CallbackInv' /\ SpokenInv'  BY BackendKept
<1>3. DeliveryInv' /\ StoredInv'  BY StoredKept DEF IInv, DeliveryInv
<1>. QED  BY <1>1, <1>2, <1>3 DEF IInv

-----------------------------------------------------------------------------
(* The backend *)

\* Some callbacks, all of them pending, get another status.
LEMMA Restatus ==
  ASSUME IInv, NEW old \in SUBSET callbacks, \A c \in old : c.status = "pending",
         NEW status \in {"accepted", "superseded", "failed"},
         callbacks' = {IF c \in old THEN [c EXCEPT !.status = status] ELSE c : c \in callbacks}
  PROVE  /\ callbacks' \subseteq Callback
         /\ \A c \in callbacks' : \E b \in callbacks :
              /\ c.result = b.result
              /\ \/ b \in old /\ c.status = status
                 \/ b \notin old /\ c = b
         /\ \A b, c \in callbacks' : b.result = c.result => b = c
<1>. DEFINE New(c) == IF c \in old THEN [c EXCEPT !.status = status] ELSE c
<1>1. callbacks' = {New(c) : c \in callbacks}
  OBVIOUS
<1>2. ASSUME NEW c \in callbacks
      PROVE  /\ New(c) \in Callback /\ New(c).result = c.result
             /\ c \in old => New(c).status = status
             /\ c \notin old => New(c) = c
  <2>1. c \in Callback
    BY DEF IInv, TypeOK
  <2>. QED  BY <2>1 DEF Callback
<1>. HIDE DEF New
<1>3. \A c \in callbacks' : \E b \in callbacks : c = New(b)
  BY <1>1
<1>4. ASSUME NEW x \in callbacks', NEW y \in callbacks', x.result = y.result PROVE x = y
  <2>1. PICK b \in callbacks : x = New(b)  BY <1>3
  <2>2. PICK c \in callbacks : y = New(c)  BY <1>3
  <2>3. b.result = c.result  BY <1>2, <1>4, <2>1, <2>2
  <2>4. b = c  BY <2>3 DEF IInv, CallbackInv
  <2>. QED  BY <2>1, <2>2, <2>4
<1>. QED  BY <1>2, <1>3, <1>4

LEMMA AcceptKeeps == ASSUME IInv, NEW q \in asked, Accept(q) PROVE IInv'
<1>. DEFINE d == q.of
            k == q.context
            r == [of |-> d, context |-> k, revision |-> NextRevision(d), status |-> "accepted"]
            old == {c \in callbacks : c.status = "pending" /\ c.result.of = d /\ c.result.context < k}
<1>1. d \in DelegationIds /\ k \in Contexts /\ k \in 1..MaxContext
  BY DEF IInv, TypeOK, Request, Contexts
<1>2. /\ UNCHANGED <<call, serving, context, heard, timers, stored, results, spoken, asking,
                     worker, paid, batch, posting, replied, posted>>
      /\ asked' \subseteq asked
  BY DEF Accept, runtime, bridge, delivery
<1>3. StoredInv' /\ SpokenInv'
  BY <1>2, StoredKept, SpokenKept
<1>4. CASE job[d] < k
  <2>1. /\ job' = [job EXCEPT ![d] = k]
        /\ issued' = issued \cup {r}
        /\ callbacks' = Superseded(q)
        /\ work' = [work EXCEPT ![d] = [context |-> k, state |-> "queued"]]
    BY <1>4 DEF Accept
  <2>2. /\ job[d] \in Nat /\ IsFiniteSet(OfDelegation(d)) /\ Cardinality(OfDelegation(d)) \in Nat
        /\ Cardinality(OfDelegation(d)) <= 2 * job[d]
        /\ \A x \in OfDelegation(d) : x.context <= job[d]
    BY <1>1, FS_CardinalityType DEF IInv, TypeOK, JobInv
  <2>3. \A x \in OfDelegation(d) : x.context \in Nat /\ x.revision \in Nat
    BY DEF IInv, TypeOK, OfDelegation, Result, Contexts, Revisions
  <2>4. \A x \in OfDelegation(d) : x.context < k
    BY <1>1, <1>4, <2>2, <2>3
  <2>5. Cardinality(OfDelegation(d)) + 1 < 2 * k
    BY <1>1, <1>4, <2>2
  <2>6. /\ r \in Result /\ issued' \subseteq Result
        /\ r \notin issued
        /\ IssueInv'
        /\ OfDelegation(d)' = OfDelegation(d) \cup {r}
        /\ IsFiniteSet(OfDelegation(d)')
        /\ Cardinality(OfDelegation(d)') = Cardinality(OfDelegation(d)) + 1
        /\ r.revision = Cardinality(OfDelegation(d)')
        /\ \A e \in DelegationIds \ {d} : OfDelegation(e)' = OfDelegation(e)
    <3>1. \A x \in OfDelegation(d) : x.context <= k /\ (x.status # "accepted" => x.context < k)
      BY <1>1, <2>3, <2>4
    <3>2. Cardinality(OfDelegation(d)) < 2 * k
      BY <1>1, <2>2, <2>5
    <3>. QED  BY <1>1, <2>1, <3>1, <3>2, Issue
  <2>7. /\ job' \in [DelegationIds -> 0..MaxContext]
        /\ job'[d] = k /\ \A e \in DelegationIds \ {d} : job'[e] = job[e]
    BY <1>1, <2>1 DEF IInv, TypeOK
  <2>8. /\ work' \in [DelegationIds -> Work]
        /\ work'[d].context = k /\ work'[d].state = "queued"
        /\ \A e \in DelegationIds \ {d} : work'[e] = work[e]
    BY <1>1, <2>1 DEF IInv, TypeOK, Work
  <2>9. r.of = d /\ r.context = k /\ r.status = "accepted"
    OBVIOUS
  <2>10. /\ callbacks' \subseteq Callback
         /\ \A c \in callbacks' : \E b \in callbacks :
              /\ c.result = b.result
              /\ \/ b \in old /\ c.status = "superseded"
                 \/ b \notin old /\ c = b
         /\ \A b, c \in callbacks' : b.result = c.result => b = c
    <3>1. callbacks' = {IF c \in old THEN [c EXCEPT !.status = "superseded"] ELSE c : c \in callbacks}
      BY <2>1 DEF Superseded
    <3>. QED  BY <3>1, Restatus
  <2>. HIDE DEF r
  <2>11. TypeOK'
    BY <1>2, <2>6, <2>7, <2>8, <2>10 DEF IInv, TypeOK
  <2>12. JobInv'
    <3>. SUFFICES ASSUME NEW e \in DelegationIds
         PROVE /\ work'[e].context = job'[e]
               /\ IsFiniteSet(OfDelegation(e)')
               /\ Cardinality(OfDelegation(e)') <= 2 * job'[e]
               /\ work'[e].state \in {"queued", "running"} =>
                    Cardinality(OfDelegation(e)') < 2 * job'[e]
               /\ \A x \in OfDelegation(e)' :
                    /\ x.revision <= Cardinality(OfDelegation(e)')
                    /\ x.context <= job'[e]
                    /\ x.context = job'[e] /\ x.status # "accepted" => work'[e].state = "terminal"
      BY DEF JobInv
    <3>1. CASE e = d
      <4>1. ASSUME NEW x \in OfDelegation(d)
            PROVE  x.revision <= Cardinality(OfDelegation(d)') /\ x.context < k
        <5>1. x.revision <= Cardinality(OfDelegation(d))
          BY <1>1 DEF IInv, JobInv
        <5>. QED  BY <2>2, <2>3, <2>4, <2>6, <5>1
      <4>2. ASSUME NEW x \in OfDelegation(d)'
            PROVE  /\ x.revision <= Cardinality(OfDelegation(d)')
                   /\ x.context <= k
                   /\ x.context = k => x.status = "accepted"
        <5>1. CASE x = r
          BY <1>1, <2>2, <2>6, <2>9, <5>1
        <5>2. CASE x \in OfDelegation(d)
          BY <1>1, <2>3, <4>1, <5>2
        <5>. QED  BY <2>6, <5>1, <5>2
      <4>3. work'[e].context = job'[e] /\ job'[e] = k
        BY <2>7, <2>8, <3>1
      <4>4. /\ IsFiniteSet(OfDelegation(e)')
            /\ Cardinality(OfDelegation(e)') <= 2 * k
            /\ Cardinality(OfDelegation(e)') < 2 * k
        <5>1. IsFiniteSet(OfDelegation(d)')
          BY <2>6
        <5>2. /\ Cardinality(OfDelegation(d)') <= 2 * k
              /\ Cardinality(OfDelegation(d)') < 2 * k
          <6>1. Cardinality(OfDelegation(d)') = Cardinality(OfDelegation(d)) + 1
            BY <2>6
          <6>. QED  BY <1>1, <2>2, <2>5, <6>1
        <5>. QED  BY <3>1, <5>1, <5>2, Zenon
      <4>. QED  BY <3>1, <4>2, <4>3, <4>4
    <3>2. CASE e # d
      BY <2>6, <2>7, <2>8, <3>2 DEF IInv, JobInv
    <3>. QED  BY <3>1, <3>2
  <2>13. PaidInv'
    <3>. SUFFICES ASSUME NEW p \in paid
         PROVE p.context <= job'[p.of] /\ (p.context = job'[p.of] => work'[p.of].state # "queued")
      BY <1>2 DEF PaidInv
    <3>1. p.of \in DelegationIds /\ p.context \in Nat /\ p.context <= job[p.of]
      BY DEF IInv, TypeOK, Request, Contexts, PaidInv
    <3>2. CASE p.of = d
      BY <1>1, <1>4, <2>2, <2>7, <3>1, <3>2
    <3>3. CASE p.of # d
      BY <2>7, <2>8, <3>1, <3>3 DEF IInv, PaidInv
    <3>. QED  BY <3>2, <3>3
  <2>14. CallbackInv'
    <3>1. ASSUME NEW c \in callbacks'
          PROVE  /\ c.result \in issued' /\ c.result.status # "accepted"
                 /\ c.status = "pending" => c.result.context = job'[c.result.of]
                 /\ c.status = "accepted" => c.result \in results'
      <4>1. PICK b \in callbacks :
              /\ c.result = b.result
              /\ \/ b \in old /\ c.status = "superseded"
                 \/ b \notin old /\ c = b
        BY <2>10
      <4>2. /\ b.result \in issued /\ b.result.status # "accepted"
            /\ b.status = "pending" => b.result.context = job[b.result.of]
            /\ b.status = "accepted" => b.result \in results
        BY DEF IInv, CallbackInv
      <4>3. b.result.of \in DelegationIds
        BY <4>2 DEF IInv, TypeOK, Result
      <4>4. c.status = "pending" => c.result.of # d
        BY <1>4, <4>1, <4>2
      <4>. QED  BY <1>2, <2>1, <2>7, <4>1, <4>2, <4>3, <4>4
    <3>. QED  BY <2>10, <3>1 DEF CallbackInv
  <2>15. DeliveryInv'
    BY <1>2, <2>1 DEF IInv, DeliveryInv
  <2>. QED  BY <1>3, <2>6, <2>11, <2>12, <2>13, <2>14, <2>15 DEF IInv
<1>5. CASE ~(job[d] < k)
  <2>1. UNCHANGED <<job, issued, callbacks, work>>
    BY <1>5 DEF Accept
  <2>2. TypeOK' /\ DeliveryInv'
    BY <1>2, <2>1 DEF IInv, TypeOK, DeliveryInv
  <2>3. JobInv' /\ IssueInv' /\ PaidInv' /\ CallbackInv'
    BY <1>2, <2>1, WorkKept, CallbacksKept
  <2>. QED  BY <1>3, <2>2, <2>3 DEF IInv
<1>. QED  BY <1>4, <1>5

LEMMA ClaimKeeps ==
  ASSUME IInv, NEW d \in DelegationIds, ClaimModelWork(d)
  PROVE  IInv' /\ (worker' # worker /\ worker' # Idle => worker' \notin paid)
<1>. DEFINE q == [of |-> d, context |-> work[d].context]
<1>1. /\ UNCHANGED <<call, serving, context, heard, timers, stored, results, spoken, asked,
                     asking, job, issued, callbacks, batch, posting, replied, posted>>
      /\ work[d].state = "queued" /\ work' = [work EXCEPT ![d].state = "running"]
      /\ worker' = q /\ paid' = paid \cup {q}
  BY DEF ClaimModelWork, runtime, bridge, delivery
<1>2. /\ work[d] \in Work /\ work[d].context = job[d] /\ job[d] \in 0..MaxContext
      /\ IsFiniteSet(OfDelegation(d)) /\ Cardinality(OfDelegation(d)) \in Nat
      /\ Cardinality(OfDelegation(d)) < 2 * job[d]
  BY <1>1, FS_CardinalityType DEF IInv, TypeOK, JobInv
<1>3. q \in Request /\ q.of = d /\ q.context = job[d]
  <2>1. job[d] \in Contexts
    BY <1>2 DEF Contexts
  <2>. QED  BY <1>2, <2>1 DEF Request
<1>4. /\ work' \in [DelegationIds -> Work]
      /\ work'[d].context = work[d].context /\ work'[d].state = "running"
      /\ \A e \in DelegationIds \ {d} : work'[e] = work[e]
  <2>1. [work[d] EXCEPT !.state = "running"] \in Work
    BY <1>2 DEF Work
  <2>2. work' = [work EXCEPT ![d] = [work[d] EXCEPT !.state = "running"]]
    BY <1>1 DEF IInv, TypeOK
  <2>. QED  BY <1>2, <2>1, <2>2 DEF IInv, TypeOK, Work
<1>. HIDE DEF q
<1>5. TypeOK'
  BY <1>1, <1>3, <1>4 DEF IInv, TypeOK
<1>6. JobInv'
  <2>. SUFFICES ASSUME NEW e \in DelegationIds
       PROVE /\ work'[e].context = job[e]
             /\ IsFiniteSet(OfDelegation(e))
             /\ Cardinality(OfDelegation(e)) <= 2 * job[e]
             /\ work'[e].state \in {"queued", "running"} => Cardinality(OfDelegation(e)) < 2 * job[e]
             /\ \A x \in OfDelegation(e) :
                  /\ x.revision <= Cardinality(OfDelegation(e))
                  /\ x.context <= job[e]
                  /\ x.context = job[e] /\ x.status # "accepted" => work'[e].state = "terminal"
    BY <1>1 DEF JobInv, OfDelegation
  <2>1. CASE e = d
    BY <1>1, <1>2, <1>4, <2>1 DEF IInv, JobInv
  <2>2. CASE e # d
    BY <1>4, <2>2 DEF IInv, JobInv
  <2>. QED  BY <2>1, <2>2
<1>7. PaidInv'
  <2>. SUFFICES ASSUME NEW p \in paid'
       PROVE p.context <= job[p.of] /\ (p.context = job[p.of] => work'[p.of].state # "queued")
    BY <1>1 DEF PaidInv
  <2>1. CASE p = q
    BY <1>2, <1>3, <1>4, <2>1
  <2>2. CASE p \in paid
    BY <1>4, <2>2 DEF IInv, PaidInv, TypeOK, Request
  <2>. QED  BY <1>1, <2>1, <2>2
<1>8. IssueInv' /\ CallbackInv' /\ SpokenInv' /\ StoredInv' /\ DeliveryInv'
  BY <1>1, CallbacksKept, SpokenKept, StoredKept DEF IInv, IssueInv, DeliveryInv
<1>9. q \notin paid
  BY <1>1, <1>3 DEF IInv, PaidInv
<1>. QED  BY <1>1, <1>5, <1>6, <1>7, <1>8, <1>9 DEF IInv

\* The running work gets its outcome, from the model or from a restart.
LEMMA CompleteKeeps ==
  ASSUME IInv, NEW q \in Request, IsCurrent(q), NEW status \in {"completed", "failed"},
         Complete(q, status), UNCHANGED <<job, paid, results>>
  PROVE  /\ JobInv' /\ IssueInv' /\ PaidInv' /\ CallbackInv'
         /\ issued \subseteq issued' /\ issued' \subseteq Result
         /\ work' \in [DelegationIds -> Work] /\ callbacks' \subseteq Callback
<1>. DEFINE d == q.of
            k == q.context
            r == [of |-> d, context |-> k, revision |-> NextRevision(d), status |-> status]
            b == [result |-> r, status |-> "pending"]
<1>1. d \in DelegationIds /\ k \in Contexts /\ k \in 1..MaxContext
  BY DEF Request, Contexts
<1>2. work[d] = [context |-> k, state |-> "running"]
  BY DEF IsCurrent
<1>3. /\ issued' = issued \cup {r} /\ callbacks' = callbacks \cup {b}
      /\ work' = [work EXCEPT ![d].state = "terminal"]
  BY DEF Complete
<1>4. /\ job[d] = k /\ IsFiniteSet(OfDelegation(d)) /\ Cardinality(OfDelegation(d)) \in Nat
      /\ Cardinality(OfDelegation(d)) < 2 * k
      /\ \A x \in OfDelegation(d) :
           /\ x.revision <= Cardinality(OfDelegation(d))
           /\ x.context <= k
           /\ x.context = k => x.status = "accepted"
  BY <1>1, <1>2, FS_CardinalityType DEF IInv, JobInv
<1>5. \A x \in OfDelegation(d) : x.context \in Nat /\ x.revision \in Nat
  BY DEF IInv, TypeOK, OfDelegation, Result, Contexts, Revisions
<1>6. /\ r \in Result /\ issued' \subseteq Result
      /\ r \notin issued
      /\ IssueInv'
      /\ OfDelegation(d)' = OfDelegation(d) \cup {r}
      /\ IsFiniteSet(OfDelegation(d)')
      /\ Cardinality(OfDelegation(d)') = Cardinality(OfDelegation(d)) + 1
      /\ r.revision = Cardinality(OfDelegation(d)')
      /\ \A e \in DelegationIds \ {d} : OfDelegation(e)' = OfDelegation(e)
  <2>1. \A x \in OfDelegation(d) : x.context <= k /\ (x.status # "accepted" => x.context < k)
    BY <1>1, <1>4, <1>5
  <2>. QED  BY <1>1, <1>3, <1>4, <2>1, Issue
<1>7. r.of = d /\ r.context = k /\ r.status = status
  OBVIOUS
<1>8. /\ work' \in [DelegationIds -> Work]
      /\ work'[d].context = k /\ work'[d].state = "terminal"
      /\ \A e \in DelegationIds \ {d} : work'[e] = work[e]
  <2>1. [work[d] EXCEPT !.state = "terminal"] = [context |-> k, state |-> "terminal"]
    BY <1>2
  <2>2. work' = [work EXCEPT ![d] = [context |-> k, state |-> "terminal"]]
    BY <1>3, <2>1 DEF IInv, TypeOK
  <2>3. [context |-> k, state |-> "terminal"] \in Work
    BY <1>1 DEF Work
  <2>. QED  BY <1>1, <2>2, <2>3 DEF IInv, TypeOK
<1>9. b \in Callback /\ b.result = r /\ b.status = "pending"
  BY <1>6 DEF Callback
<1>. HIDE DEF r, b
<1>10. JobInv'
  <2>. SUFFICES ASSUME NEW e \in DelegationIds
       PROVE /\ work'[e].context = job[e]
             /\ IsFiniteSet(OfDelegation(e)')
             /\ Cardinality(OfDelegation(e)') <= 2 * job[e]
             /\ work'[e].state \in {"queued", "running"} =>
                  Cardinality(OfDelegation(e)') < 2 * job[e]
             /\ \A x \in OfDelegation(e)' :
                  /\ x.revision <= Cardinality(OfDelegation(e)')
                  /\ x.context <= job[e]
                  /\ x.context = job[e] /\ x.status # "accepted" => work'[e].state = "terminal"
    BY DEF JobInv
  <2>1. CASE e = d
    <3>1. ASSUME NEW x \in OfDelegation(d)'
          PROVE  x.revision <= Cardinality(OfDelegation(d)') /\ x.context <= k
      <4>1. CASE x = r
        BY <1>1, <1>4, <1>6, <1>7, <4>1
      <4>2. CASE x \in OfDelegation(d)
        BY <1>4, <1>5, <1>6, <4>2
      <4>. QED  BY <1>6, <4>1, <4>2
    <3>2. Cardinality(OfDelegation(d)') <= 2 * k
      BY <1>1, <1>4, <1>6
    <3>. QED  BY <1>4, <1>6, <1>8, <2>1, <3>1, <3>2
  <2>2. CASE e # d
    BY <1>6, <1>8, <2>2 DEF IInv, JobInv
  <2>. QED  BY <2>1, <2>2
<1>11. PaidInv'
  <2>. SUFFICES ASSUME NEW p \in paid
       PROVE p.context <= job[p.of] /\ (p.context = job[p.of] => work'[p.of].state # "queued")
    BY DEF PaidInv
  <2>. QED  BY <1>8 DEF IInv, PaidInv, TypeOK, Request
<1>12. CallbackInv'
  <2>1. ASSUME NEW c \in callbacks'
        PROVE  /\ c.result \in issued' /\ c.result.status # "accepted"
               /\ c.status = "pending" => c.result.context = job[c.result.of]
               /\ c.status = "accepted" => c.result \in results
    <3>1. CASE c = b
      BY <1>3, <1>4, <1>7, <1>9, <3>1
    <3>2. CASE c \in callbacks
      BY <1>3, <3>2 DEF IInv, CallbackInv
    <3>. QED  BY <1>3, <3>1, <3>2
  <2>2. ASSUME NEW x \in callbacks', NEW y \in callbacks', x.result = y.result
        PROVE  x = y
    BY <1>3, <1>6, <1>9, <2>2 DEF IInv, CallbackInv
  <2>. QED  BY <2>1, <2>2 DEF CallbackInv
<1>13. issued \subseteq issued' /\ callbacks' \subseteq Callback
  BY <1>3, <1>9 DEF IInv, TypeOK
<1>. QED  BY <1>6, <1>8, <1>10, <1>11, <1>12, <1>13

LEMMA FinishKeeps == ASSUME IInv, FinishModelWork PROVE IInv'
<1>1. /\ UNCHANGED <<call, serving, context, heard, timers, stored, results, spoken, asked,
                     asking, job, paid, batch, posting, replied, posted>>
      /\ worker' = Idle /\ worker # Idle
  BY DEF FinishModelWork, runtime, bridge, delivery
<1>2. SpokenInv' /\ StoredInv'
  BY <1>1, SpokenKept, StoredKept
<1>3. /\ JobInv' /\ IssueInv' /\ PaidInv' /\ CallbackInv'
      /\ issued \subseteq issued' /\ issued' \subseteq Result
      /\ work' \in [DelegationIds -> Work] /\ callbacks' \subseteq Callback
  <2>1. CASE IsCurrent(worker)
    <3>1. PICK status \in {"completed", "failed"} : Complete(worker, status)
      BY <2>1 DEF FinishModelWork
    <3>2. worker \in Request
      BY <1>1 DEF IInv, TypeOK
    <3>. QED  BY <1>1, <2>1, <3>1, <3>2, CompleteKeeps
  <2>2. CASE ~IsCurrent(worker)
    <3>1. UNCHANGED <<issued, callbacks, work>>
      BY <2>2 DEF FinishModelWork
    <3>. QED  BY <1>1, <3>1, WorkKept, CallbacksKept DEF IInv, TypeOK
  <2>. QED  BY <2>1, <2>2
<1>4. TypeOK'
  BY <1>1, <1>3 DEF IInv, TypeOK
<1>5. DeliveryInv'
  BY <1>1, <1>3 DEF IInv, DeliveryInv
<1>. QED  BY <1>2, <1>3, <1>4, <1>5 DEF IInv

LEMMA RestartKeeps == ASSUME IInv, BackendRestart PROVE IInv'
<1>1. /\ UNCHANGED <<call, serving, context, heard, timers, stored, results, spoken, asked,
                     asking, job, paid, posted>>
      /\ worker' = Idle /\ batch' = {} /\ posting' = Idle /\ replied' = FALSE
  BY DEF BackendRestart, runtime, bridge
<1>2. SpokenInv' /\ StoredInv'
  BY <1>1, SpokenKept, StoredKept
<1>3. /\ JobInv' /\ IssueInv' /\ PaidInv' /\ CallbackInv'
      /\ issued \subseteq issued' /\ issued' \subseteq Result
      /\ work' \in [DelegationIds -> Work] /\ callbacks' \subseteq Callback
  <2>1. CASE worker # Idle /\ IsCurrent(worker)
    <3>1. Complete(worker, "failed")
      BY <2>1 DEF BackendRestart, RecoverModelWork
    <3>2. worker \in Request
      BY <2>1 DEF IInv, TypeOK
    <3>. QED  BY <1>1, <2>1, <3>1, <3>2, CompleteKeeps
  <2>2. CASE ~(worker # Idle /\ IsCurrent(worker))
    <3>1. UNCHANGED <<issued, callbacks, work>>
      BY <2>2 DEF BackendRestart, RecoverModelWork
    <3>. QED  BY <1>1, <3>1, WorkKept, CallbacksKept DEF IInv, TypeOK
  <2>. QED  BY <2>1, <2>2
<1>4. TypeOK'
  BY <1>1, <1>3 DEF IInv, TypeOK
<1>5. DeliveryInv'
  BY <1>1, <1>3 DEF IInv, DeliveryInv
<1>. QED  BY <1>2, <1>3, <1>4, <1>5 DEF IInv

-----------------------------------------------------------------------------
(* The callback worker *)

\* A callback whose status changed says so truly.
LEMMA RestatusKeeps ==
  ASSUME IInv, NEW old \in SUBSET callbacks, \A c \in old : c.status = "pending",
         NEW status \in {"accepted", "superseded", "failed"},
         callbacks' = {IF c \in old THEN [c EXCEPT !.status = status] ELSE c : c \in callbacks},
         status = "accepted" => \A c \in old : c.result \in results,
         UNCHANGED <<job, issued, results>>
  PROVE  callbacks' \subseteq Callback /\ CallbackInv'
<1>1. /\ callbacks' \subseteq Callback
      /\ \A c \in callbacks' : \E b \in callbacks :
           /\ c.result = b.result
           /\ \/ b \in old /\ c.status = status
              \/ b \notin old /\ c = b
      /\ \A b, c \in callbacks' : b.result = c.result => b = c
  BY Restatus
<1>2. ASSUME NEW c \in callbacks'
      PROVE  /\ c.result \in issued /\ c.result.status # "accepted"
             /\ c.status = "pending" => c.result.context = job[c.result.of]
             /\ c.status = "accepted" => c.result \in results
  <2>1. PICK b \in callbacks :
          /\ c.result = b.result
          /\ \/ b \in old /\ c.status = status
             \/ b \notin old /\ c = b
    BY <1>1
  <2>2. /\ b.result \in issued /\ b.result.status # "accepted"
        /\ b.status = "pending" => b.result.context = job[b.result.of]
        /\ b.status = "accepted" => b.result \in results
    BY DEF IInv, CallbackInv
  <2>. QED  BY <2>1, <2>2
<1>. QED  BY <1>1, <1>2 DEF CallbackInv

LEMMA PendingIsIssued == ASSUME IInv, NEW r \in Pending PROVE r \in issued
BY DEF IInv, CallbackInv, Pending, IsPending

LEMMA CollectKeeps ==
  ASSUME IInv, NEW old \in SUBSET Pending, NEW due \in SUBSET Pending, Collect(old, due)
  PROVE  IInv'
<1>. DEFINE late == {c \in callbacks : c.result \in old /\ c.status = "pending"}
<1>1. /\ UNCHANGED <<call, serving, context, heard, timers, stored, results, spoken, asked,
                     asking, job, issued, work, worker, paid, posting, replied, posted>>
      /\ batch' = due \ old
      /\ callbacks' = {IF c \in late THEN [c EXCEPT !.status = "failed"] ELSE c : c \in callbacks}
  BY DEF Collect, runtime, bridge
<1>2. callbacks' \subseteq Callback /\ CallbackInv'
  BY <1>1, RestatusKeeps
<1>3. TypeOK'  BY <1>1, <1>2 DEF IInv, TypeOK, Pending
<1>4. JobInv' /\ IssueInv' /\ PaidInv' /\ SpokenInv' /\ StoredInv'
  BY <1>1, WorkKept, SpokenKept, StoredKept
<1>5. DeliveryInv'  BY <1>1 DEF IInv, DeliveryInv
<1>. QED  BY <1>2, <1>3, <1>4, <1>5 DEF IInv

LEMMA PostKeeps == ASSUME IInv, NEW r \in batch, Post(r) PROVE IInv'
<1>. USE DEF Post, runtime, bridge, backend
<1>1. TypeOK'  BY DEF IInv, TypeOK
<1>2. JobInv' /\ IssueInv' /\ PaidInv' /\ CallbackInv' /\ SpokenInv'  BY BackendKept
<1>3. StoredInv'  BY StoredKept
<1>4. DeliveryInv'
  <2>1. IsPending(r) => r \in issued
    BY DEF IInv, CallbackInv, IsPending
  <2>. QED  BY <2>1 DEF IInv, DeliveryInv
<1>. QED  BY <1>1, <1>2, <1>3, <1>4 DEF IInv

LEMMA ArriveKeeps == ASSUME IInv, NEW r \in posted, Arrive(r) PROVE IInv'
<1>1. /\ UNCHANGED <<call, serving, context, heard, timers, stored, asked, asking, job, issued,
                     work, worker, paid, callbacks, batch, posting>>
      /\ posted' = posted \ {r} /\ Record(r)
      /\ replied' = (replied \/ (r = posting /\ Accepts(r)))
  BY DEF Arrive, runtime, backend
<1>2. r \in issued
  BY DEF IInv, DeliveryInv
<1>3. /\ results' \subseteq Result /\ spoken' \in Seq(Result)
      /\ results \subseteq results' /\ results' \subseteq issued
      /\ Accepts(r) => r \in results'
      /\ SpokenInv'
  BY <1>1, <1>2, Recorded
<1>4. replied' \in BOOLEAN
  BY <1>1
<1>5. TypeOK'
  BY <1>1, <1>3, <1>4 DEF IInv, TypeOK
<1>6. JobInv' /\ IssueInv' /\ PaidInv'  BY <1>1, WorkKept
<1>7. CallbackInv' /\ StoredInv'  BY <1>1, <1>3, CallbacksKept, StoredKept
<1>8. DeliveryInv'
  <2>1. replied' => posting' \in results'
    BY <1>1, <1>3 DEF IInv, DeliveryInv
  <2>2. posted' \subseteq issued' /\ results' \subseteq issued'
    BY <1>1, <1>3 DEF IInv, DeliveryInv
  <2>. QED  BY <2>1, <2>2 DEF DeliveryInv
<1>. QED  BY <1>3, <1>5, <1>6, <1>7, <1>8 DEF IInv

LEMMA AcknowledgeKeeps == ASSUME IInv, AcknowledgeCallback PROVE IInv'
<1>. DEFINE done == {c \in callbacks : c.result = posting /\ c.status = "pending"}
<1>1. /\ UNCHANGED <<call, serving, context, heard, timers, stored, results, spoken, asked,
                     asking, job, issued, work, worker, paid, batch, posted>>
      /\ replied /\ posting' = Idle /\ replied' = FALSE
      /\ callbacks' = {IF c \in done THEN [c EXCEPT !.status = "accepted"] ELSE c : c \in callbacks}
  BY DEF AcknowledgeCallback, Marked, runtime, bridge
<1>2. posting \in results
  BY <1>1 DEF IInv, DeliveryInv
<1>3. callbacks' \subseteq Callback /\ CallbackInv'
  BY <1>1, <1>2, RestatusKeeps
<1>4. TypeOK'  BY <1>1, <1>3 DEF IInv, TypeOK
<1>5. JobInv' /\ IssueInv' /\ PaidInv' /\ SpokenInv' /\ StoredInv'
  BY <1>1, WorkKept, SpokenKept, StoredKept
<1>6. DeliveryInv'  BY <1>1 DEF IInv, DeliveryInv
<1>. QED  BY <1>3, <1>4, <1>5, <1>6 DEF IInv

LEMMA RetryKeeps == ASSUME IInv, RetryCallback PROVE IInv'
<1>. USE DEF RetryCallback, runtime, bridge, backend
<1>1. TypeOK'  BY DEF IInv, TypeOK
<1>2. JobInv' /\ IssueInv' /\ PaidInv' /\ CallbackInv' /\ SpokenInv'  BY BackendKept
<1>3. DeliveryInv' /\ StoredInv'  BY StoredKept DEF IInv, DeliveryInv
<1>. QED  BY <1>1, <1>2, <1>3 DEF IInv

-----------------------------------------------------------------------------
(* The invariant *)

LEMMA Initial == Init => IInv
<1>. SUFFICES ASSUME Init PROVE IInv
  OBVIOUS
<1>. USE DEF Init
<1>0. /\ \A d \in DelegationIds : job[d] = 0 /\ work[d].context = 0 /\ work[d].state = "none"
      /\ job \in [DelegationIds -> 0..MaxContext] /\ stored \in [DelegationIds -> 0..MaxContext]
      /\ [context |-> 0, state |-> "none"] \in Work
  BY DEF Work
<1>1. TypeOK
  <2>1. work \in [DelegationIds -> Work]
    BY <1>0
  <2>2. spoken \in Seq(Result) /\ context \in Contexts
    BY DEF Contexts
  <2>. QED  BY <1>0, <2>1, <2>2 DEF TypeOK
<1>2. JobInv
  <2>1. \A d \in DelegationIds : OfDelegation(d) = {}
    BY DEF OfDelegation
  <2>2. IsFiniteSet({}) /\ Cardinality({}) = 0
    BY FS_EmptySet
  <2>3. ASSUME NEW d \in DelegationIds
        PROVE  /\ IsFiniteSet(OfDelegation(d)) /\ Cardinality(OfDelegation(d)) = 0
               /\ \A r \in OfDelegation(d) : FALSE
    BY <2>1, <2>2, Zenon
  <2>. HIDE DEF Init
  <2>. QED  BY <1>0, <2>3 DEF JobInv
<1>3. IssueInv /\ PaidInv /\ CallbackInv /\ DeliveryInv
  BY DEF IssueInv, PaidInv, CallbackInv, DeliveryInv
<1>4. SpokenInv  BY DEF SpokenInv
<1>5. StoredInv  BY DEF StoredInv
<1>. QED  BY <1>1, <1>2, <1>3, <1>4, <1>5 DEF IInv

LEMMA StepKeeps == IInv /\ [Next]_vars => IInv'
<1>. SUFFICES ASSUME IInv, [Next]_vars PROVE IInv'
  OBVIOUS
<1>1. ASSUME NEW d \in DelegationIds, Hear(d) \/ Delegate(d) \/ ClaimModelWork(d)
      PROVE  IInv'
  BY <1>1, HearKeeps, DelegateKeeps, ClaimKeeps
<1>2. ASSUME NEW S \in SUBSET heard, Fragment(S) PROVE IInv'
  BY <1>2, FragmentKeeps
<1>3. ASSUME NEW q \in asking, Receipt(q) \/ NoReceipt(q) PROVE IInv'
  BY <1>3, ReceiptKeeps, NoReceiptKeeps
<1>4. ASSUME NEW q \in asked, Accept(q) PROVE IInv'
  BY <1>4, AcceptKeeps
<1>5. CASE EndCall \/ BridgeDown \/ BridgeUp
  BY <1>5, CallKeeps
<1>6. CASE FinishModelWork \/ BackendRestart
  BY <1>6, FinishKeeps, RestartKeeps
<1>7. ASSUME NEW old \in SUBSET Pending, NEW due \in SUBSET Pending, Collect(old, due)
      PROVE  IInv'
  BY <1>7, CollectKeeps
<1>8. ASSUME NEW r \in batch, Post(r) PROVE IInv'
  BY <1>8, PostKeeps
<1>9. ASSUME NEW r \in posted, Arrive(r) PROVE IInv'
  BY <1>9, ArriveKeeps
<1>10. CASE AcknowledgeCallback \/ RetryCallback
  BY <1>10, AcknowledgeKeeps, RetryKeeps
<1>11. CASE UNCHANGED vars
  <2>. USE <1>11 DEF vars, bridge, runtime, delivery, backend
  <2>1. TypeOK' /\ DeliveryInv'  BY DEF IInv, TypeOK, DeliveryInv
  <2>2. JobInv' /\ IssueInv' /\ PaidInv' /\ CallbackInv' /\ SpokenInv'  BY BackendKept
  <2>3. StoredInv'  BY StoredKept
  <2>. QED  BY <2>1, <2>2, <2>3 DEF IInv
<1>. QED
  BY <1>1, <1>2, <1>3, <1>4, <1>5, <1>6, <1>7, <1>8, <1>9, <1>10, <1>11 DEF Next

LEMMA Invariance == Spec => []IInv
BY Initial, StepKeeps, PTL DEF Spec

-----------------------------------------------------------------------------
(* What follows *)

\* The variables of the two programs keep their types.
THEOREM TypeCorrect == Spec => []TypeOK
<1>1. IInv => TypeOK  BY DEF IInv
<1>. QED  BY <1>1, Invariance, PTL

\* What the caller hears about a delegation moves forward, however receipts
\* and callbacks overtake each other (recordResult, onResult).
THEOREM InOrder == Spec => []SpokenInOrder
<1>1. IInv => SpokenInOrder
  <2>. SUFFICES ASSUME IInv, NEW i \in 1..Len(spoken), NEW j \in 1..Len(spoken),
                       i < j, spoken[i].of = spoken[j].of
       PROVE  /\ spoken[i].revision < spoken[j].revision
              /\ spoken[i].context <= spoken[j].context
              /\ spoken[i].status # "accepted" => spoken[i].context < spoken[j].context
    BY DEF SpokenInOrder
  <2>1. spoken[i].revision < spoken[j].revision
    BY DEF IInv, SpokenInv
  <2>2. spoken[i] \in issued /\ spoken[j] \in issued
    BY DEF IInv, SpokenInv, DeliveryInv
  <2>. QED  BY <2>1, <2>2 DEF IInv, IssueInv
<1>. QED  BY <1>1, Invariance, PTL

\* A callback the backend takes for accepted is in the bridge's record
\* (callbacks.ts deliver, recordResult).
THEOREM RecordedIfAccepted == Spec => []AcceptedIsRecorded
<1>1. IInv => AcceptedIsRecorded  BY DEF IInv, CallbackInv, AcceptedIsRecorded
<1>. QED  BY <1>1, Invariance, PTL

\* A job has one outcome per context and one callback for it (store.ts
\* acceptDelegation, complete).
THEOREM OneOutcomeEach == Spec => []OneOutcome
<1>1. IInv => OneOutcome
  <2>. SUFFICES ASSUME IInv, NEW b \in callbacks, NEW c \in callbacks
       PROVE  /\ b.result.of = c.result.of /\ b.result.context = c.result.context => b = c
              /\ b.status = "pending" => b.result.context = job[b.result.of]
    BY DEF OneOutcome
  <2>1. b.status = "pending" => b.result.context = job[b.result.of]
    BY DEF IInv, CallbackInv
  <2>2. ASSUME b.result.of = c.result.of, b.result.context = c.result.context
        PROVE  b = c
    <3>1. /\ b.result \in issued /\ b.result.status # "accepted"
          /\ c.result \in issued /\ c.result.status # "accepted"
      BY DEF IInv, CallbackInv
    <3>2. /\ b.result.revision \in Nat /\ b.result.context \in Nat
          /\ c.result.revision \in Nat /\ c.result.context \in Nat
      BY <3>1 DEF IInv, TypeOK, Result, Contexts, Revisions
    <3>3. /\ ~(b.result.revision < c.result.revision)
          /\ ~(c.result.revision < b.result.revision)
      BY <2>2, <3>1, <3>2 DEF IInv, IssueInv
    <3>4. b.result.revision = c.result.revision
      BY <3>2, <3>3
    <3>5. b.result = c.result
      BY <2>2, <3>1, <3>4 DEF IInv, IssueInv
    <3>. QED  BY <3>5 DEF IInv, CallbackInv
  <2>. QED  BY <2>1, <2>2
<1>. QED  BY <1>1, Invariance, PTL

\* A model is asked at most once for each request, whatever restarts
\* (openai.ts, claimModelWork, recoverModelWork).
THEOREM AskedOnce == Spec => PaidOnce
<1>1. IInv /\ [Next]_vars => [worker' # worker /\ worker' # Idle => worker' \notin paid]_vars
  <2>. SUFFICES ASSUME IInv, Next, worker' # worker, worker' # Idle
       PROVE  worker' \notin paid
    BY DEF PaidOnce
  <2>1. PICK d \in DelegationIds : ClaimModelWork(d)
    BY DEF Next, Hear, Delegate, Fragment, Receipt, NoReceipt, Accept, EndCall, BridgeDown,
           BridgeUp, FinishModelWork, BackendRestart, Collect, Post, Arrive,
           AcknowledgeCallback, RetryCallback, backend
  <2>. QED  BY <2>1, ClaimKeeps
<1>. QED  BY <1>1, Invariance, PTL DEF Spec, PaidOnce

\* What is handed to Live answers the latest request about its delegation:
\* recordResult compares with what the bridge has stored, and delegate()
\* stores a context before it asks about it.
THEOREM CurrentWhenSpoken == Spec => SpokenIsCurrent
<1>1. IInv /\ [Next]_vars =>
        [\A i \in (Len(spoken) + 1)..Len(spoken') :
           /\ call = "connected"
           /\ \A q \in asked \cup asking :
                q.of = spoken'[i].of => q.context <= spoken'[i].context]_vars
  <2>. SUFFICES ASSUME IInv, Next, NEW i \in (Len(spoken) + 1)..Len(spoken')
       PROVE  /\ call = "connected"
              /\ \A q \in asked \cup asking :
                   q.of = spoken'[i].of => q.context <= spoken'[i].context
    OBVIOUS
  <2>1. spoken \in Seq(Result) /\ Len(spoken) \in Nat
    BY DEF IInv, TypeOK
  <2>2. spoken' # spoken
    BY <2>1
  <2>3. PICK r : Record(r)
    BY <2>2 DEF Next, Hear, Delegate, ClaimModelWork, Fragment, Receipt, NoReceipt, Accept,
           EndCall, BridgeDown, BridgeUp, FinishModelWork, BackendRestart, Collect, Post,
           Arrive, AcknowledgeCallback, RetryCallback, bridge
  <2>4. spoken' = Append(spoken, r) /\ Eligible(r)
    BY <2>2, <2>3 DEF Record
  <2>5. i = Len(spoken) + 1 /\ spoken'[i] = r
    BY <2>1, <2>4
  <2>6. call = "connected" /\ stored[r.of] = r.context
    BY <2>4 DEF Eligible
  <2>. QED  BY <2>5, <2>6 DEF IInv, StoredInv
<1>. QED  BY <1>1, Invariance, PTL DEF Spec, SpokenIsCurrent
=============================================================================
