---------------------------- MODULE Delegations ----------------------------
(***************************************************************************)
(* What the caller asks for during a call and what comes back: the         *)
(* coordinator asks the backend about a delegation, again whenever a later *)
(* fragment changes its context (packages/runtime/src/index.ts delegate);  *)
(* the backend answers with a receipt, works, and calls back               *)
(* (examples/backend/src/store.ts, openai.ts, callbacks.ts); the bridge    *)
(* records what it is told and speaks what is current                      *)
(* (packages/core/src/index.ts recordResult, runtime onResult).            *)
(*                                                                         *)
(* One call, from the moment Live is ready.  Requests and callbacks are    *)
(* slow, lost or overtaken; both programs may stop at any time.            *)
(***************************************************************************)
EXTENDS Naturals, Sequences, FiniteSets

CONSTANTS
  DelegationIds,
  MaxContext,     \* bound: the context revisions of the call
  Idle            \* a worker that awaits nothing

ASSUME MaxContextAssumption == MaxContext \in Nat \ {0}

VARIABLES
  call,       \* "connected" with Live ready, or "over"
  serving,    \* does the bridge still run?
  context,    \* Active.revision
  heard,      \* Active.delegations: what Live announced
  timers,     \* delegations whose 100 ms timer runs
  stored,     \* bridge, table delegations: revision, 0 if there is none
  results,    \* bridge, table results
  spoken,     \* results handed to Live, in order
  asked,      \* requests that may still reach the backend
  asking,     \* requests whose answer delegate() awaits
  job,        \* backend, table jobs: revision, 0 if there is none
  issued,     \* backend, tables receipts and completions
  work,       \* backend, table model_work
  worker,     \* backend, the work the OpenAI worker has sent, or Idle
  paid,       \* history: the requests the model was asked about
  callbacks,  \* backend, table callbacks
  batch,      \* backend, results the callback worker still has to post
  posting,    \* backend, the result whose answer it awaits, or Idle
  replied,    \* has the bridge accepted it?
  posted      \* results posted to the bridge that may still reach it

bridge == <<stored, results, spoken>>
runtime == <<context, heard, timers>>
delivery == <<batch, posting, replied, posted>>
backend == <<job, issued, work, worker, paid, callbacks>>
vars == <<call, serving, context, heard, timers, stored, results, spoken, asked,
          asking, job, issued, work, worker, paid, callbacks, batch, posting,
          replied, posted>>

Contexts == 1..MaxContext
Revisions == 1..(2 * MaxContext)

Request == [of : DelegationIds, context : Contexts]

\* A DelegationResult: the request it answers and the backend's revision,
\* which stands for its result_id as well.
Result == [of : DelegationIds, context : Contexts, revision : Revisions,
           status : {"accepted", "completed", "failed"}]
Callback == [result : Result,
             status : {"pending", "accepted", "superseded", "failed"}]
Work == [context : 0..MaxContext,
         state : {"none", "queued", "running", "terminal"}]

Answers(r, q) == r.of = q.of /\ r.context = q.context

Init ==
  /\ call = "connected" /\ serving = TRUE
  /\ context = 1 /\ heard = {} /\ timers = {}
  /\ stored = [d \in DelegationIds |-> 0] /\ results = {} /\ spoken = <<>>
  /\ asked = {} /\ asking = {}
  /\ job = [d \in DelegationIds |-> 0] /\ issued = {}
  /\ work = [d \in DelegationIds |-> [context |-> 0, state |-> "none"]]
  /\ worker = Idle /\ paid = {} /\ callbacks = {}
  /\ batch = {} /\ posting = Idle /\ replied = FALSE /\ posted = {}

-----------------------------------------------------------------------------
(* The bridge: what a result does to it *)

\* Faulty: results in any order.
AdmissibleInAnyOrder(r) == stored[r.of] >= r.context

Admissible(r) ==
  /\ stored[r.of] >= r.context
  /\ \A x \in results : x.of = r.of => x.revision < r.revision

Eligible(r) == call = "connected" /\ stored[r.of] = r.context

\* recordResult and, in the same turn, onResult.
Record(r) ==
  /\ results' = IF r \notin results /\ Admissible(r) THEN results \cup {r} ELSE results
  /\ spoken' = IF r \notin results /\ Admissible(r) /\ Eligible(r)
                 THEN Append(spoken, r) ELSE spoken

\* Is r accepted, now or before?
Accepts(r) == r \in results \/ Admissible(r)

-----------------------------------------------------------------------------
(* The coordinator *)

\* Live announces a delegation, once.
Hear(d) ==
  /\ call = "connected" /\ d \notin heard
  /\ heard' = heard \cup {d}
  /\ timers' = timers \cup {d}
  /\ UNCHANGED <<call, serving, context, bridge, asked, asking, backend, delivery>>

\* A fragment that belongs to the delegations S as well.
Fragment(S) ==
  /\ call = "connected" /\ context < MaxContext
  /\ context' = context + 1
  /\ timers' = timers \cup S
  /\ UNCHANGED <<call, serving, heard, bridge, asked, asking, backend, delivery>>

\* The timer fires: record the delegation, then ask the backend.
Delegate(d) ==
  /\ d \in timers
  /\ timers' = timers \ {d}
  /\ IF call = "connected"
       THEN LET q == [of |-> d, context |-> context] IN
            /\ stored' = [stored EXCEPT ![d] = context]
            /\ asked' = asked \cup {q}
            /\ asking' = asking \cup {q}
       ELSE UNCHANGED <<stored, asked, asking>>
  /\ UNCHANGED <<call, serving, context, heard, results, spoken, backend, delivery>>

\* The receipt for request q arrives.
Receipt(q) ==
  /\ q \in asking
  /\ \E r \in issued : Answers(r, q) /\ r.status = "accepted" /\ Record(r)
  /\ asking' = asking \ {q}
  /\ UNCHANGED <<call, serving, runtime, stored, asked, backend, delivery>>

\* It does not: a timeout, a refusal or a broken connection.
NoReceipt(q) ==
  /\ q \in asking
  /\ asking' = asking \ {q}
  /\ UNCHANGED <<call, serving, runtime, bridge, asked, backend, delivery>>

EndCall ==
  /\ call = "connected"
  /\ call' = "over"
  /\ UNCHANGED <<serving, runtime, bridge, asked, asking, backend, delivery>>

\* The bridge stops or dies; what a callback finds after its restart is the
\* same call, over.
BridgeDown ==
  /\ serving
  /\ serving' = FALSE
  /\ call' = "over"
  /\ timers' = {} /\ asking' = {}
  /\ UNCHANGED <<context, heard, bridge, asked, backend, delivery>>

BridgeUp ==
  /\ ~serving
  /\ serving' = TRUE
  /\ UNCHANGED <<call, runtime, bridge, asked, asking, backend, delivery>>

-----------------------------------------------------------------------------
(* The backend *)

NextRevision(d) == Cardinality({r \in issued : r.of = d}) + 1

Superseded(q) ==
  {IF c.status = "pending" /\ c.result.of = q.of /\ c.result.context < q.context
     THEN [c EXCEPT !.status = "superseded"] ELSE c : c \in callbacks}

\* POST /voice/v1/delegations, now, late or never: an older context than the
\* job's is refused.
Accept(q) ==
  /\ q \in asked
  /\ asked' = asked \ {q}
  /\ IF job[q.of] < q.context
       THEN /\ job' = [job EXCEPT ![q.of] = q.context]
            /\ issued' = issued \cup
                 {[of |-> q.of, context |-> q.context,
                   revision |-> NextRevision(q.of), status |-> "accepted"]}
            /\ callbacks' = Superseded(q)
            /\ work' = [work EXCEPT ![q.of] = [context |-> q.context, state |-> "queued"]]
       ELSE UNCHANGED <<job, issued, callbacks, work>>
  /\ UNCHANGED <<call, serving, runtime, bridge, asking, worker, paid, delivery>>

\* claimModelWork, and the paid request to the model.
ClaimModelWork(d) ==
  /\ worker = Idle /\ work[d].state = "queued"
  /\ work' = [work EXCEPT ![d].state = "running"]
  /\ worker' = [of |-> d, context |-> work[d].context]
  /\ paid' = paid \cup {worker'}
  /\ UNCHANGED <<call, serving, runtime, bridge, asked, asking, job, issued,
                 callbacks, delivery>>

\* complete: a result of its own revision, and a callback for it.
Complete(q, status) ==
  LET r == [of |-> q.of, context |-> q.context,
            revision |-> NextRevision(q.of), status |-> status] IN
  /\ issued' = issued \cup {r}
  /\ callbacks' = callbacks \cup {[result |-> r, status |-> "pending"]}
  /\ work' = [work EXCEPT ![q.of].state = "terminal"]

\* The work the worker was sent for is still the running one.
IsCurrent(q) == work[q.of] = [context |-> q.context, state |-> "running"]

\* The model answers or fails; work that was replaced meanwhile is left alone.
FinishModelWork ==
  /\ worker # Idle
  /\ IF IsCurrent(worker)
       THEN \E status \in {"completed", "failed"} : Complete(worker, status)
       ELSE UNCHANGED <<issued, callbacks, work>>
  /\ worker' = Idle
  /\ UNCHANGED <<call, serving, runtime, bridge, asked, asking, job, paid, delivery>>

\* Faulty: interrupted work is done again.
RecoverByRequeueing ==
  /\ work' = [d \in DelegationIds |->
               IF work[d].state = "running"
                 THEN [work[d] EXCEPT !.state = "queued"] ELSE work[d]]
  /\ UNCHANGED <<issued, callbacks>>

\* Faulty: interrupted work is left as it is.
RecoverNothing == UNCHANGED <<issued, callbacks, work>>

\* recoverModelWork: interrupted work has failed; the worker ran one at a time.
RecoverModelWork ==
  IF worker # Idle /\ IsCurrent(worker)
    THEN Complete(worker, "failed")
    ELSE UNCHANGED <<issued, callbacks, work>>

\* The backend stops or dies, and starts again.
BackendRestart ==
  /\ RecoverModelWork
  /\ worker' = Idle
  /\ batch' = {} /\ posting' = Idle /\ replied' = FALSE
  /\ UNCHANGED <<call, serving, runtime, bridge, asked, asking, job, paid, posted>>

-----------------------------------------------------------------------------
(* The callback worker *)

IsPending(r) == [result |-> r, status |-> "pending"] \in callbacks

Marked(r, status) ==
  {IF c.result = r /\ c.status = "pending" THEN [c EXCEPT !.status = status] ELSE c :
     c \in callbacks}

\* Faulty: no deadline.
CollectForever(old, due) ==
  /\ batch = {} /\ posting = Idle
  /\ batch' = due \cup old
  /\ UNCHANGED <<call, serving, runtime, bridge, asked, asking, backend, posting,
                 replied, posted>>

\* pendingCallbacks: the callbacks that are a day old have failed; some of the
\* others are due.
Collect(old, due) ==
  /\ batch = {} /\ posting = Idle
  /\ callbacks' = {IF c.result \in old /\ c.status = "pending"
                     THEN [c EXCEPT !.status = "failed"] ELSE c : c \in callbacks}
  /\ batch' = due \ old
  /\ UNCHANGED <<call, serving, runtime, bridge, asked, asking, job, issued,
                 work, worker, paid, posting, replied, posted>>

Pending == {r \in Result : IsPending(r)}

\* Post the next one, unless it was superseded since it was collected.
Post(r) ==
  /\ r \in batch /\ posting = Idle
  /\ batch' = batch \ {r}
  /\ IF IsPending(r)
       THEN /\ posting' = r /\ replied' = FALSE
            /\ posted' = posted \cup {r}
       ELSE UNCHANGED <<posting, replied, posted>>
  /\ UNCHANGED <<call, serving, runtime, bridge, asked, asking, backend>>

\* POST .../results at the bridge.
Arrive(r) ==
  /\ serving /\ r \in posted
  /\ posted' = posted \ {r}
  /\ Record(r)
  /\ replied' = (replied \/ (r = posting /\ Accepts(r)))
  /\ UNCHANGED <<call, serving, runtime, stored, asked, asking, backend, batch,
                 posting>>

\* Faulty: the answer is not looked at.
AcknowledgeCallbackBlindly ==
  /\ posting # Idle
  /\ callbacks' = Marked(posting, "accepted")
  /\ posting' = Idle /\ replied' = FALSE
  /\ UNCHANGED <<call, serving, runtime, bridge, asked, asking, job, issued,
                 work, worker, paid, batch, posted>>

AcknowledgeCallback ==
  /\ posting # Idle /\ replied
  /\ callbacks' = Marked(posting, "accepted")
  /\ posting' = Idle /\ replied' = FALSE
  /\ UNCHANGED <<call, serving, runtime, bridge, asked, asking, job, issued,
                 work, worker, paid, batch, posted>>

\* retryCallback: it stays pending, and is posted again later.
RetryCallback ==
  /\ posting # Idle
  /\ posting' = Idle /\ replied' = FALSE
  /\ UNCHANGED <<call, serving, runtime, bridge, asked, asking, backend, batch, posted>>

-----------------------------------------------------------------------------
Next ==
  \/ \E d \in DelegationIds : Hear(d) \/ Delegate(d) \/ ClaimModelWork(d)
  \/ \E S \in SUBSET heard : Fragment(S)
  \/ \E q \in asking : Receipt(q) \/ NoReceipt(q)
  \/ \E q \in asked : Accept(q)
  \/ EndCall \/ BridgeDown \/ BridgeUp
  \/ FinishModelWork \/ BackendRestart
  \/ \E old, due \in SUBSET Pending : Collect(old, due)
  \/ \E r \in batch : Post(r)
  \/ \E r \in posted : Arrive(r)
  \/ AcknowledgeCallback \/ RetryCallback

Spec == Init /\ [][Next]_vars

\* The model answers or times out, its timer fires, and the callback worker
\* goes on until a day has passed.
Fairness ==
  /\ WF_vars(FinishModelWork)
  /\ \A d \in DelegationIds : SF_vars(ClaimModelWork(d))
  /\ WF_vars(\E r \in batch : Post(r))
  /\ WF_vars(AcknowledgeCallback \/ RetryCallback)
  /\ SF_vars(Pending # {} /\ Collect(Pending, {}))

FairSpec == Spec /\ Fairness
-----------------------------------------------------------------------------
TypeOK ==
  /\ call \in {"connected", "over"} /\ serving \in BOOLEAN
  /\ context \in Contexts /\ heard \subseteq DelegationIds
  /\ timers \subseteq heard
  /\ stored \in [DelegationIds -> 0..MaxContext]
  /\ results \subseteq Result /\ spoken \in Seq(Result)
  /\ asked \subseteq Request /\ asking \subseteq Request
  /\ job \in [DelegationIds -> 0..MaxContext]
  /\ issued \subseteq Result
  /\ work \in [DelegationIds -> Work]
  /\ worker \in Request \cup {Idle} /\ paid \subseteq Request
  /\ callbacks \subseteq Callback
  /\ batch \subseteq Result /\ posting \in Result \cup {Idle}
  /\ replied \in BOOLEAN /\ posted \subseteq Result

\* What the caller hears about a delegation moves forward, whatever receipts
\* and callbacks overtake each other: nothing is said twice, no older word
\* after a newer one, no answer to words the caller has corrected.
SpokenInOrder ==
  \A i, j \in 1..Len(spoken) :
    i < j /\ spoken[i].of = spoken[j].of =>
      /\ spoken[i].revision < spoken[j].revision
      /\ spoken[i].context <= spoken[j].context
      /\ spoken[i].status # "accepted" => spoken[i].context < spoken[j].context

\* What is handed to Live answers the latest request about its delegation.
SpokenIsCurrent ==
  [][\A i \in (Len(spoken) + 1)..Len(spoken') :
       /\ call = "connected"
       /\ \A q \in asked \cup asking : q.of = spoken'[i].of => q.context <= spoken'[i].context]_vars

\* A callback the backend takes for accepted is in the bridge's record.
AcceptedIsRecorded ==
  \A c \in callbacks : c.status = "accepted" => c.result \in results

\* A job has one outcome per context, and one callback for it; those of a
\* context the caller has corrected do not wait for delivery any more.
OneOutcome ==
  \A b, c \in callbacks :
    /\ b.result.of = c.result.of /\ b.result.context = c.result.context => b = c
    /\ b.status = "pending" => b.result.context = job[b.result.of]

\* A model is asked at most once for each request, restarts included.
PaidOnce == [][worker' # worker /\ worker' # Idle => worker' \notin paid]_vars

\* Accepted work has an outcome in the end, unless a later request about the
\* same delegation replaced it.
WorkIsAnswered ==
  \A q \in Request :
    (job[q.of] = q.context) ~>
      \/ job[q.of] > q.context
      \/ \E r \in issued : Answers(r, q) /\ r.status # "accepted"

\* No callback stays pending for ever.
CallbacksAreSettled ==
  \A r \in Result : IsPending(r) ~> ~IsPending(r)

\* docs/state-and-recovery.md, "Context and result revisions": a late result
\* for an earlier context is recorded as not played.
LateResultsAreRecorded ==
  [][\A q \in asking :
       Receipt(q) => \E r \in results' : Answers(r, q) /\ r.status = "accepted"]_vars
=============================================================================
