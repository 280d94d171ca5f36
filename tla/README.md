# A formal model of voxdock

voxdock lets software place and answer voice calls over a personal Telegram or
WhatsApp account and have them spoken by a Live speech session. The process in
`apps/bridge` admits one call at a time, keeps it in a SQLite ledger, drives the
platform, the Live session and a business backend around it, and reports what
happened as a log of events.

What can go wrong here is rarely in one function. A dial cannot be undone and
its outcome is often unknown; every step awaits something that may come late,
twice or never; the process may die between any two of its writes. The one
promise behind the whole design is: *one account carries one call, and nothing
but a proof frees its place*. The modules in this directory state that promise
and what it rests on, check it with TLC on small instances, and prove its safety
with TLAPS for all of them.

## 1. The system

| Component | State it keeps | Operations | What makes it correct |
|---|---|---|---|
| Call store, `packages/core` | tables `calls`, `commands`, `call_facts`, `events`, `delegations`, `results`, `transcripts`, `usage`, `metadata` | `createCall`, `transition`, `recover`, event delivery marks, `recordDelegation`, `recordResult`, `reserveUsage`, `settleUsage`, `appendTranscript`, `prune` | one unfinished call; retries find their call; the log tells the truth about every call; the budget holds |
| Bridge service, `apps/bridge` | process lock, pause, admission holds, scheduled dispatches | start, recovery, shutdown, `POST /v1/calls`, end, pause, resume, offline `resume` and `reconcile` | a line that may be up holds capacity through every crash; a call that waited through a pause is not dialled after it |
| Managed configuration, `apps/bridge` | committed settings, current runtime, lease | `claim`, `apply`, rollback, `acquire` and its release, `close` | what runs is what is committed; unknown cleanup keeps the pause |
| Connections and pairing, `apps/bridge`, `packages/telegram` | one flow at a time, its lease, its deadline, the session file, the sidecar's attempts | begin, submit, poll, refresh of a code, cancel, expire, disconnect, unlink, arm, confirm, close | one user of an account; a lease is released once, and as unknown if the cleanup is |
| Coordinator, `packages/runtime` | the one active call, its leg, timers, Live session | `start`, `incoming`, driver callbacks, Live events, `stop`, `close` | no fabricated end; no leg left up; usage settled once |
| Voice drivers, `packages/telegram`, `packages/runtime`, `packages/whatsapp` | platform call, media connection, worker process, event stream | `dial`, `accept`, `reject`, `end`, platform updates | no dial while a leg may be up; every end told once it is a fact |
| Live client, `packages/live` | WebSocket session, its timer, delegations, managed responses | start, append, close, server events | one final event; responses kept apart |
| Call audio, `packages/audio`, `packages/runtime/src/audio.ts` | bounded queue, resampler, pacer, each way | receive, play, tick, close | no frame out of step, no sample split or reordered |
| Event outbox and delegations, `packages/backend` | deliveries, one batch at a time | `runOnce`, `deliverEvent`, `delegate`, `context` | at-least-once delivery; results are spoken once and only while current |
| Example backend, `examples/backend` | jobs, receipts, completions, callbacks, a mirror of calls | `delegate`, `complete`, `event`, callback worker | idempotent receipts; the mirror never goes back |
| Console queries, `packages/core/src/console.ts`, `console-migration.ts` | none of their own | pages of calls and fragments, the overview, the migration of older databases | nothing skipped while things change; unknown is said to be unknown |
| Console account, sessions, agents, `apps/bridge` | account file, bootstrap file, sessions, `agent-credentials.json` | open, update, recover, sign in and out, issue, rotate, revoke | only the present credentials let anyone in |
| Web console, `apps/console` | per tab: session; per dialog: flow shown, poll, action | sign in, expire, poll, act, close | it shows nothing older than it has shown, and leaves nothing open |
| Control client, CLI, MCP server | an output file | `createCall`, `agents create`, `agents rotate` | what may have taken effect is never called refused |

The components meet in few places. The HTTP server and the coordinator share
the store, whose every operation is one immediate transaction. The server hands
an admitted call to the coordinator with `setImmediate`, and an end request the
same way; both find the state of that later turn. The coordinator calls a driver
through `VoiceDriver` and is called back through `VoiceEvents`; a callback names
a leg by the platform's reference, which an outgoing call knows only after
`dial` has answered. The RuntimeManager replaces the coordinator while it holds
admission in the store, and lends the accounts to a login or a pairing. The
console and the agents reach all this over HTTP, where a request may be handled
though its answer is lost. The operator's offline commands open the same store
and files under the same process lock.

The hazards this creates are listed, with their lines, under `hazards` in
`PROJECT.json`.


### Behaviours that are hard

- *Intent before effect.* The store says `dialing` before `voice.dial` is
  called, and keeps a call whose answer is missing as `uncertain`. A crash, a
  timeout and a late answer all leave a line that may be up.
- *Continuations.* The coordinator is one thread with many awaits. Each
  continuation finds another state than the one it checked: the call is over,
  another is active, the bridge is paused or disposed.
- *Two transactions.* Recovery and its pause, an operator's pause and the
  termination it confirms, a shutdown and the pause for a cleanup of unknown
  outcome: a crash may come between them.
- *Repetition and overtaking.* Clients repeat creations, the outbox repeats
  events, the backend repeats callbacks; receipts, callbacks and corrections of
  one delegation overtake each other.
- *Effects after the deadline.* A request to the WhatsApp sidecar, an SDK call of
  a login or a POST of a client is given up at its deadline and may take effect
  later, when somebody else has the account.
- *Views that are behind.* A dialog polls while the operator acts, a reader pages
  while rows come and go, a password is verified while it is being changed.
- *Something must happen.* A dial, a hangup, Live's last event and a backend
  may never answer; timers and deadlines have to settle the call, its budget,
  its events and its delegations all the same.

## 2. The modules

```
CallStates ── CallLifecycle            what the account is promised
                 ▲   ▲   ▲
     implemented │   │   │ implemented by
      CallStore ─┘   │   └─ CallRuntime ─ ─ relies on ─ ─ VoiceContract
       │   │     BridgeService                              ▲     ▲
       │   └ ConsoleMigration                  TelegramDriver     WhatsAppDriver
       │ its event log     its connected call
       ▼                       ▼
  EventDelivery           Delegations

RuntimeManager ◄ ConnectionFlow ◄ TargetPairing ◄ Accounts   (◄: extended by)

LiveSession  CallAudio  UsageLedger  CallRecords  ConsoleAccess  SetupDialog  AgentAccess
```

| Module | Models | State and actions in the code |
|---|---|---|
| `CallStates` | the states of a call and the transitions the store's table allows | `CallState` of `contracts`, `transitions` of `core` |
| `CallLifecycle` | the abstract promise: a call is admitted when no other is unfinished and then moves along the table | one function `phase`; `Admit`, `Move` |
| `CallStore` | the ledger behind `createCall`, `transition`, `recover` | one variable per table (`calls`, `commands`, `call_facts` as `facts`, `events` as `log`) and the last answer of `createCall`; one action per operation, each a transaction |
| `ConsoleMigration` | `migrateConsoleFacts` as an operator on a state of `CallStore` whose log has lost a prefix | compared in every state with the facts the store itself kept |
| `BridgeService` | the process around the ledger | the lock (`holder` with the stage of start and shutdown), pause row, RuntimeManager's hold, scheduled work of each call (`task`), the platform's line, and as history the calls that waited through a pause, an account change or a restart (`stale`); start, recovery, crash, admission, dispatch, dial, end, reports, account changes, operator commands, shutdown |
| `CallRuntime` | the coordinator | `active`, the `Active` object of each call, the stage of `start()` and `stop()`, scheduled `onEnd`, usage row, the driver's legs; one action per callback or resumed await |
| `VoiceContract` | what the coordinator may rely on in a driver | legs that may be up, legs reported as ended, the reservation |
| `TelegramDriver` | driver, media, worker process and its parent | the driver object with one row per handler that awaits, Telegram's side of each call, the host's requests; one action per resumed await or update |
| `WhatsAppDriver` | control requests, event stream, media socket | the same, with offers, early events and the stream's order |
| `VoiceRefs` | the refinement both drivers share | what "may be up" and "reported" mean for a leg |
| `RuntimeManager` | the manager and the document it commits | the operation under way with its stage, the runtime made from some settings, the hold and the pause |
| `ConnectionFlow` | logins of both channels, `disconnect` | the flow with what it awaits and how it is being cancelled, the session file, the sidecar with requests that may still take effect |
| `TargetPairing` | both pairings | the flow of each channel, its candidate, what was confirmed, Telegram's observer |
| `Accounts` | these three with settings, sign-out and the shutdown | the operator's form, the revision in the file of the settings (`stored`), the step of `close()` |
| `EventDelivery` | events on their way out | `events`, `event_floor`, `next_at` as `resting`, the running batch, requests on the network, the example backend's mirror, a reader of `GET /v1/events`; offline `prune` |
| `Delegations` | what the caller asks for and what comes back | Live's announcements and timers, `delegations` and `results` of the store, what was spoken; jobs, receipts, model work, callbacks and their worker in the example backend |
| `LiveSession` | the Live client with `ManagedResponses` | state, subscription and timer; owners of delegations, responses and items |
| `CallAudio` | one direction of the route | bytes queued and in the resampler, halves of samples, time until due |
| `UsageLedger` | `reserveUsage`, `settleUsage`, the overview's budget | one row per call, the day and the zone |
| `CallRecords` | transcripts, delegations' copies, retention, paging | rows with their time and cursor, a reader with what it is owed |
| `ConsoleAccess` | account, bootstrap file, sessions, tabs | file and memory apart; verification and change as steps |
| `SetupDialog` | a dialog that polls | the flow as its number and how far it is, the poll and the action on their way |
| `AgentAccess` | tokens, the command that issues them, agents' calls | file and memory apart; a request is handled whether or not its sender waits |
| `…Proofs` | theorems | |
| `MC…` | the instances TLC runs | |

A definition keeps the name of the function or table it stands for where that
is possible; `map` in `PROJECT.json` names its lines. Definitions whose comment
begins with *Faulty* are not part of any specification. Each is the form a
plausible bug would give another definition, and `mutants` says which property
it breaks: a property is kept only if such a bug is found by it.

How the data is abstracted:

- Bodies of requests are digests (`CallStore`), legs and calls are model values,
  wording, hashes of events and signatures are left out. `createCall`'s checks
  of a request are one flag, since they are a function of the request and the
  configuration.
- Time is the order of actions. A timer is an action that may run once it is
  set; "older than the deadline" is a mark that moves over the events
  (`overdue`) or a set chosen when the code compares (`Collect`); a retention
  cutoff is any position (`Prune`).
- A network request that was sent may arrive late, more than once or never.
  That it never arrives needs no action: `Receive`, `Accept` and `Arrive` have no
  fairness.
- Each module keeps of its neighbours what it needs. `BridgeService` keeps of the
  coordinator when it records, dials and reports; `CallRuntime` shows where the
  reports are not as `BridgeService` assumes (see Findings). `EventDelivery`
  takes from `CallStore` that a call's revisions are numbered in order and that
  calls do not interleave, which `LogNumbersRevisions` and `LogKeepsCallsApart`
  state and `CallStoreProofs` proves. `RuntimeManager` takes from `BridgeService`
  that no call is unfinished when it claims the runtime.
- A login's states `cancelled` and `expired` are one, and so are a pairing's
  `cancelled`, `expired` and `failed`: they release the lease alike. Prompts for a
  number, a code and a password are one kind of prompt.
- Of audio the bytes are counted and not their values; both rates of a resampler
  are the same, its pieces of any length.
- A login to the console is a user name with its password, a token is the number
  of the run that asked for it. A file that is replaced is written in one step
  (`writePrivateFile`), and the write may fail after the replacement, when the
  directory is synced: the file is new then and memory old, in `AgentAccess` (`Saved`),
  in `ConsoleAccess` (`ChangeFails`) and for the settings in `Accounts` (`stored`).
  With a legacy password hash no bootstrap file is ever made: to `ConsoleAccess` that is
  the same as one that was unlinked.
- The daily limits of `UsageLedger` are constants: a change of settings replaces them
  between calls, and a day is then judged by other limits than its earlier calls were.
- Parts that share no state are checked together, one per behaviour
  (`MCVoiceDrivers`, `MCServiceParts`): their product would only repeat each of
  them in every state of the others.

## 3. What the runs check

| Run | Bounds | Checks |
|---|---|---|
| `store` | 2 calls, 2 commands, 2 digests, `MaxRevision` 3 | a retry finds its call; facts agree with the log, and migrated facts with the facts, however much of the log is gone; no call is dialled again; `CallStore` implements `CallLifecycle` |
| `service` | 3 calls | a line that may be up belongs to a call that holds the place; uncertainty keeps the pause; no call is dialled that waited through a pause, an account change or a restart; implements `CallLifecycle`; no call stays `requested` or `ending` |
| `service_recovery_pause` | 2 calls | *violation*: the pause after recovery |
| `runtime` | 2 calls, 3 legs, stray reports | slot and capacity agree; settlements agree; abandoned legs are hung up; implements `CallLifecycle` |
| `runtime_liveness` | 1 call, 3 legs | no fabricated end, if ends are reported to the call they are about; every call and every reserved budget is settled |
| `runtime_stray_end` | 1 call, 2 legs | *violation*: no fabricated end, without that assumption |
| `delegations` | 1 delegation, 2 contexts | speech moves forward; acknowledged means recorded; the model is paid once; accepted work has an outcome; no callback stays pending |
| `delegations_late` | 1 delegation, 2 contexts | *violation*: late results are recorded |
| `accounts` | 3 receivers of which one is the account itself, `MaxRevision` 1, `MaxAttempts` 2 | an account has one user; what is unknown keeps the pause; what runs is committed, and only what was meant; the file has what was answered as saved, and at most one change that failed; what the operator sees of a login is so; every lease ends |
| `accounts_disconnect` | the same, clients may leave | *violation*: what is unknown keeps the pause |
| `voice_drivers` | 2 legs, one of them offered; `MaxOps` 2, `QueueLimit` 1, `OfferLimit` 1, `EarlyLimit` 2 | both drivers implement `VoiceContract`; every leg that goes down is reported or kept in doubt |
| `service_parts` | per part, below | eleven properties of eight parts, below |

| Part of `service_parts` | Bounds | Checks |
|---|---|---|
| `EventDelivery` | 2 calls, `MaxEvents` 2, batches of 2 | the mirror ends with the last word; pruning takes nothing that is owed and no reader misses something unknowingly; every event is delivered or given up |
| `LiveSession` | 2 delegations, 2 responses, 2 items, `MaxSequence` 3, `WorkLimit` 2 | one closed event, the last; responses are told once and with their own items |
| `CallAudio` | frames of 2 and 4 timer periods, 2 bytes; `Capacity` 4, `PipeLimit` 4, `ProcessBuffer` 2, `MaxGap` 5 | no burst after a late timer; halves of samples are rejoined |
| `UsageLedger` | 3 calls, 2 zones, a budget of two calls, `LastDay` 2 | no day's reservations pass the budget; the overview's remainder is what a call would be admitted for |
| `CallRecords` | 2 calls, `MaxTime` 2, `MaxFragments` 2, `PageSize` 1 | availability says what is kept; pages skip and repeat nothing |
| `ConsoleAccess` | 2 tabs, 2 logins, `SessionLimit` 1, `MaxSignIns` 2, `MaxAccountRevision` 2 | a session is honoured only if opened with the present credentials; the bootstrap file holds no other password; a restart takes back no change that was answered, and brings at most one that failed half-way |
| `SetupDialog` | `MaxFlows` 2, `MaxSteps` 2 | nothing older is shown than was; closing cancels |
| `AgentAccess` | 2 agents, 1 key, `MaxRuns` 2, `MaxAttempts` 2 | what was reported refused or revoked has no effect now or after a restart; one call for a key, across rotations |

Why the bounds are enough. The system allows one unfinished call, so two calls
show every race between a call and its successor; a third lets a leg or a task
of the first meet the third while the second is up. Three revisions of a call
allow requested, dialing and one state more, with recovery and retries between
them. The theorems hold for every bound.
Two events give a batch and an event that overtakes a failed one. One correction
of a delegation gives two receipts and two outcomes in every order of arrival;
delegations share only the two workers, which take one item at a time. One
revision of the settings is enough for every commit, its failure and its
rollback, and for a second one to be refused as stale; two generations of a
login let each answer come after its attempt was replaced. Two operations of a
driver are a call and its successor or a dial beside an accept; queues of one
entry overflow at once, where the code's hold 16 or 32. The limits of
`UsageLedger` admit two calls and refuse the third on one day, with a midnight
between. Two sessions, flows, fragments or tokens are the one that is there and
the one that replaces it.

`CHECK_DEADLOCK FALSE` is set where the modelled system may really stop: when all
call identities of a bound are used up, or when the coordinator is disposed.

**Fairness.** Fairness is stated for work the process has scheduled itself:
`setImmediate` and timers fire, an await that the code bounds by `deadline` or by
a request timeout returns, and the service or the backend is started again
(strongly, since each start may be followed by a crash). Nothing is assumed of
the platform, of Live, of the network, of callers or of operators; an offline
`reconcile` that has made its first write goes on to its second
(`ConfirmEnded`). `Accounts` assumes that what a flow awaits comes to its answer or
its deadline (`Progress`, `Deadline`) and that a login is cancelled when it expires;
nothing of what a client asks for, nor that a late request of the sidecar ever
takes effect. `MCVoiceDrivers` assumes one progress of the driver, its worker and
the messages already on the way (`VoiceProgress`), not that anyone hangs up. In
`EventDelivery` the bridge must be up again and again for long
enough to send one request; a bridge that always dies earlier delivers nothing.

## 4. What is proved

TLAPS proves, for every value of the constants, every invariant the passing runs
check, their three properties of steps (`DialsAreCurrent`, `CommitsAreMeant`,
`PaidOnce`), and all five refinements: of `CallLifecycle` by ledger, process and
coordinator, of `VoiceContract` by both drivers. In each case every action of the
specification is shown to preserve an inductive invariant, and the property follows
from it in one state or one step. TLC was run with the inductive invariant as an
invariant before its proof was begun.

| Proofs | Theorems | Of which properties |
|---|---|---|
| `ContractProofs` | of the two abstract specifications: one unfinished call, none given up is dialled again; the legs of a driver are held | |
| `CallStoreProofs` | the ledger: types, single call, commands, retries, events, facts, refinement, migration | `RetryFindsCall`, `LogNeverRedials`, `FactsSummariseLog`, `MigrationAgrees`, `ImplementsLifecycle` |
| `BridgeServiceProofs` | the process: types, capacity, pause, dials, refinement | `LinesHoldCapacity`, `UncertaintyPauses`, `DialsAreCurrent`, `ImplementsLifecycle` |
| `CallRuntimeProofs` | the coordinator: types, slot, settlement, legs, readiness, ends, refinement | `SlotMatchesCapacity`, `SettlementsAgree`, `AbandonedLegsAreHungUp`, `NoFabricatedEnd`, `ImplementsLifecycle` |
| `DelegationsProofs` | delegations and the example backend: types, order, receipts, outcomes, one payment, currency | `SpokenInOrder`, `AcceptedIsRecorded`, `PaidOnce` |
| `AccountsProofs` | manager, logins and pairings: types, commits, what is shown, one user, pause | `OneOwner`, `UnknownIsHeld`, `RunningIsCommitted`, `LoginIsHonest`, `CommitsAreMeant` |
| `ServicePartsProofs` | the parts without a neighbour | `LastWordStands`, `PruningIsHonest`, `AccessIsCurrent`, `ToldIsSo`, `ClosedIsFinal`, `ResponsesKeptApart`, `AudioIsKept`, `DialogIsHonest`, `RecordsAreHonest`, `BudgetHolds` |
| `VoiceDriverProofs` | the two voice drivers: refinement of the contract | `DriversKeepContract` |

### Assumptions

The constants' assumptions are named in the modules that declare them. They say
that a constant standing for "nothing" (`NoCall`, `NoRef`, `None`, `Nobody`) is
none of the things it stands beside (and no reference of WhatsApp's is one of the
stages of a dial it shares a variable with), that bounds are natural numbers, and, where
the code has such a limit, that it is one: a batch has an event, a call and a day
have seconds, a frame has whole samples and is no longer than the longest pause
the model tells apart, and the account itself is one of the receivers there are.

Two theorems have a hypothesis of their own, and each has a finding where it fails:

- `EndsAreReal` assumes `StrayEnds = FALSE`: the driver reports an end only of the
  call it is about. Finding 1 is what happens otherwise.
- `UnknownKept` assumes `ClientsStay`: no client closes its connection before it is
  answered, so that `app.close()` ends in time only when no request is open
  (`Requests`). What flows and deadlines have begun by themselves (the cancellation of
  an overdue flow, the release of a lease, a late answer of the sidecar) is nobody's
  request and may go on through the shutdown. Finding 4 is what happens otherwise.

### The arguments

*CallStore.* Every step either inserts a call, stores a revision of an unfinished
one, or changes at most the last answer (`NextCases`). The inductive invariant is
the conjunction of the checked invariants with `AbsentUnrevised` (an identity
without a call has revision 0 and no event, so that a first event may be numbered
1) and with `LogStaysBeyond` (what was connected is not shown dialling or ringing
later). `LogNeverRedials` needs `LogNumbersRevisions`, since the code consults only
the stored state and never the log; `FactsSummariseLog` rests on the same link.

*ConsoleMigration.* That a migrated fact is the fact the store kept, or unknown,
follows from that invariant alone. The events numbered up to *n* of a call are *n*
(`Counted`, by the bijection that numbers them), so a suffix of the log counts as
complete just if nothing of the call is missing; a first connected event that is
left behind a direct predecessor still dialling or ringing is the first there ever
was, because of `LogStaysBeyond`.

*BridgeService.* `LinesHoldCapacity` is not inductive: that a line does not become
busy for a call that is already ended depends on what the process still has
scheduled. The invariant `Covered` relates line, phase and task of each call;
`LinesDown` says that a call which only waits has no busy line; with one
unfinished call they give the property. `UncertaintyPauses` needs the stages of
the lock: between recovery and its pause the process does not serve. `DialsAreCurrent` spans the await
of a preflight, while the code looks only at the pause and the hold of the moment after
it. It follows from `StalePaused`: a call that waited through an interruption still finds
the pause in force as long as it waits, because calling is resumed, and the runtime
claimed, only when no call is unfinished, and a start leaves none waiting.

*CallRuntime.* The invariant says of each call, by the stage of its `start()`, what
may be true of it: before the dial there is no object, no session, no stop and no
leg (`BeforeDial`); afterwards it has the slot until it is stored as ended
(`SlotInv`), its object names its own leg unless the call is being given up, and
that leg was asked to end or is gone (`LegInv`); an object being given up has no
session and no timer (`LiveInv`), and the usage row follows the session
(`UsageInv`). Each of the runtime's turns touches one call and leaves the rest
alone (`Turn`, `Rest`); a shutdown, which stops whatever is active, is reduced to
the turn of one call (`StoppedAs`). The four invariants and the refinement of
`CallLifecycle` are read off from it.

*Delegations.* Revisions are cardinalities: a result's revision is the number of
results its delegation had when it was issued. `JobInv` bounds that number by twice
the contexts and `IssueInv` orders contexts by revisions, so an order of revisions
at the store is an order of contexts at the caller's ear (`SpokenInOrder`).
`AcceptedIsRecorded` needs what the bridge has posted and not yet answered
(`DeliveryInv`); `PaidOnce` that a context asked about is never queued again
(`PaidInv`).

*Accounts.* `AccountsInv` has eight parts. `ManagerInv` relates the stage of an
operation to what runs; `CommitInv` says that what is about to be committed was
derived from the settings of now; `PairInv` and `LoginInv` say where a pairing and
a login may be while they have the lease. `ClientInv`, `EyeInv` and `SidecarInv` say of
each way to use an account, the SDK's client, the observer and requests the sidecar
may still perform, whose lease covers it, or that the manager is kept for good.
`OneOwner` follows from these three, whose proofs need each other. `ShutInv` follows
`close()` step by step for `UnknownIsHeld`. That only an operation's candidate is ever
saved, with the revision after the present one, keeps the file within one failed
change of the settings (`StoredInv`).

*The parts.* `EventDelivery`: the mirror is the newest event the backend has seen
(`MirrorInv`), and an acknowledged event was seen (`HeldInv`). `ConsoleAccess`: a
credential revision names one set of credentials, in sessions (`SessionsInv`), in a
verification under way (`VerifyInv`) and in a change being written (`ChangeInv`), and
the file is at most one failed change ahead of memory (`ProcessInv`).
`AgentAccess`: a token names the run that asked for it and its agent, in memory and
in the file (`TokenInv`), and a command is kept under the agent whose attempt made
it (`CommandInv`). `LiveSession`: what was reported is complete and still its own
(`ReportsOf`). `CallAudio`: when the last frame and the one before it went out,
relative to when the next is due (`FramesApart`). `SetupDialog`: every view, cached,
shown or on its way, is what the flow has been (`Past`) and none is older than the
operator's last answer (`Fresh`). `CallRecords`: a reader has seen all it is owed up to
its place and nothing beyond (`CallsRead`, `TranscriptRead`). `UsageLedger`: the capped
seconds of each day keep to the budget, as long as a row counts its maximum until it
is settled (`RowInv`, `BudgetInv`).

*The drivers.* The contract says where a leg may be up and when; the drivers know it
only late. So the invariants say where the knowledge is. In `TelegramDriver` a leg of
ours is that of the reservation or the one its operation has asked for (`LegsOf`,
`OpOf`); a handler that awaits has captured a reservation, which may be another's by
now (`WorkOf`); and an update `discarded`, in the chain or queued for a reservation
without a reference, is on its way only for a leg that is down (`DiscardedOf`). Of a
worker that is gone the invariant says nothing but its types: its reports have ended.
In `WhatsAppDriver` a leg of ours is the active call's or that of a dial whose answer
is out (`WaLegsOf`), a dial that is out keeps the driver reserved or finds it failed
(`RequestsOf`), and an event, in the stream or kept early, claims no end that is not
one, unless a delete of ours may have caused it (`EventsOf`). In both, an offer is
announced once, before anything else is known of its call. Each helper of a driver is
shown to keep the invariant and to end at most the call it is about (`Same`, `Outcome`);
`Replay`, which may go through any number of events, by induction (`ReplayKeeps`). An
action is then a step of the contract or none.

*Induction.* The library's induction theorems take an operator as a parameter, which
the provers cannot instantiate. Where an induction over data is needed, it is made
with the least counterexample: the finite subsets of a set are well-founded under
strict inclusion, and a set of counterexamples has a minimal member (`LeastNumber` in
`CallStoreProofs`, and in `VoiceDriverProofs` for the events of a replay; in `ServicePartsProofs` that a recursive sum over a finite set
exists, is monotone and adds up over disjoint sets).

For the proofs some definitions got another form with the same meaning: the migration
works with the places of events in the log instead of filtered sequences,
the budget is summed with `SumFunctionOnSet` of the community module `Functions`, and
the WhatsApp driver replays early events with a recursive function.

### Only model-checked

Liveness, which is out of the prover's reach: `CallsAreSettled`,
`CallsAndUsageAreSettled`, `WorkIsAnswered`, `CallbacksAreSettled`, `LeaseEnds`,
`EndsAreTold`, `EventsAreSettled`.

## 5. Findings

1. **A stray end ends the wrong call** (`runtime_stray_end`). Until `voice.dial`
   answers, the active call has no reference, and `callbacks.state`
   (`runtime/src/index.ts:208`) lets the report about any leg of the target pass
   and adopts its reference. An `ended` for a discarded offer or for the leg of
   the previous call ends the new one while its dial is in flight, against
   `docs/runtime.md:30`.
2. **A crash loses the recovery pause** (`service_recovery_pause`).
   `cli-service.ts:115` recovers and pauses in two transactions; after a crash
   between them a cancelled call leaves no trace, and the next start serves
   without the pause that `docs/operations.md:15` promises. (A call with external
   intent is found again; `UncertaintyPauses` holds.)
3. **A late receipt is refused, not recorded** (`delegations_late`).
   `core/src/index.ts:510` wants increasing revisions across all contexts of a
   delegation, so a receipt for an earlier context that arrives after a result of
   the next one is an error, against `docs/state-and-recovery.md:32`, and the
   coordinator tells Live that the receipt is unavailable.
4. **A shutdown does not wait for a disconnect** (`accounts_disconnect`).
   `close()` (`connection-service.ts:229`) cancels the login that is open but not a
   `disconnect()` under way. While its client is connected the HTTP server waits
   for it; when the client has gone the process exits with the sidecar's answer
   out and without the pause that `docs/connection-management.md:3` promises for
   unconfirmed cleanup. With `ClientsStay` the property holds.

Seen while modelling, and not stated as properties:

- A delegation's copy of a transcript expires with the delegation, not with the
  words (`core/src/index.ts:675`), so it may outlive its original.
  `docs/operations.md:49` says that transcript expiry includes the copies; whether it
  means at the same cutoff is a matter of reading.
- A failed save may come into force with the next start. `writePrivateFile`
  (`private-files.ts:9-11`) renames the new file into place before it syncs the
  directory; when that fails, a change of the settings (`configuration-store.ts:116`)
  or of the console's account (`console-account.ts:48`) is answered as failed with
  the new file there. `docs/api.md:43` says of the settings: "Failure retains the
  previous committed revision." That is so of the running service; what is so of the
  next start is in `RunningIsCommitted` (`SavedIsKept`) and `AccessIsCurrent`
  (`RestartKeepsAnswered`).
- An answer to a start that is lost leaves a flow the dialog does not know and
  cannot cancel; it holds the runtime until it expires (`connection-login.tsx:132`,
  `whatsapp-setup.tsx:72`). `DialogIsHonest` excuses it by `lapse`.
- WhatsApp's pairing keeps polling while the operator acts: an answer may show a
  completed pairing as a candidate again for one poll (`whatsapp-setup.tsx:43`).
- A 401 of an earlier session signs out the tab that has signed in since
  (`api.ts:131`), and a second tab's sign-in leaves the first with a token every
  change is refused for.
- When the command line cannot write a token down, it revokes the agent
  (`cli-agents.ts:27`), and with it a token another run has just issued to it.

## 6. What is not modelled

Single values and their validation (configuration, contracts, form fields),
password hashing, filters, counts and exports of the console, layout, output of
the command line and the rate limiter have no behaviour over time to check. The
patches against WaCalls change a program that is not in this repository.

Of modelled components: secrets and their files in the configuration store; the
expiry of result summaries; the signaling and frames of one media connection,
which appear as a failure that may come at any time; initialisation of the
Telegram worker; the backend's mode in which an operator completes the work.
Several agents' calls contend for capacity in `CallStore`, not in `AgentAccess`.

## 7. Plan

Every invariant, property of steps and refinement the runs check has a theorem. What
is left:

1. `CallRuntime`: `close()` awaits only the `stop()` it began itself
   (`runtime/src/index.ts:344`). The model has the interleaving; a property that
   says what the shutdown of the process may find unsettled then does not exist yet.
2. `CallStore`: how long a delegation's copy of what was said may outlive its
   transcript (`core/src/index.ts:675`), with the clock of `CallRecords`.
3. Lemmas a proof of liveness would rest on, one per step that must happen: that a
   leg which is down has, in every state, a message, handler or fault under way that
   will tell its end. They are invariants, so TLAPS can prove them, and the fairness of
   the run does the rest in TLC.
