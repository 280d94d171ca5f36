----------------------------- MODULE AccountsProofs -----------------------------
(***************************************************************************)
(* Proofs about the accounts of one bridge, for any receivers, revisions   *)
(* and attempts: what the manager runs and commits, what a login shows,    *)
(* and that an account has one user, whoever lost track of it.             *)
(***************************************************************************)
EXTENDS Accounts, FiniteSetTheorems, TLAPS

-----------------------------------------------------------------------------
(* The inductive invariant *)

\* Whoever runs an operation has claimed the manager; a claim nobody runs is
\* for good.  A lease carries no update until its holder asks for one.
OpInv ==
  /\ op.at # "idle" => busy
  /\ op.at = "idle" /\ busy => paused \/ closing
  /\ op.at = "stopping" => (op.update = None <=> op.for \in Leaseholders)
  /\ op.at = "leased" => op.update = None /\ op.for \in Leaseholders
  /\ op.at \in {"creating", "discarding"} => op.update # None
  /\ op.at \in {"stopping", "creating", "discarding"} /\ op.update # None => Prepared(op.update)
  /\ op.for \in {"login", "disconnect"} => op.update = None
  /\ op.for = "unlink" => ~op.update.bound["whatsapp"].on
  /\ op.at = "unlinking" => op.for = "unlink" /\ settings = op.update

\* Where the coordinator is while an operation is under way.
RunInv ==
  /\ op.at \in {"leased", "creating", "discarding", "restoring", "rollback"} => runtime = None
  /\ op.at \in {"retiring", "unlinking"} => runtime = settings
  /\ op.at = "stopping" => runtime \in {None, settings}
  /\ runtime \notin {None, settings} => busy /\ paused
  /\ op.at = "leased" => ~live
  /\ live /\ op.at \in {"idle", "stopping"} => runtime # None

ManagerInv == ManagerTypeOK /\ OpInv /\ RunInv

\* Settings somebody has read: those committed now, or of an earlier revision.
Earlier(s) == s.revision <= settings.revision /\ (s.revision = settings.revision => s = settings)

CommitInv ==
  /\ form \in Settings /\ Earlier(form)
  /\ op.at \in {"stopping", "creating", "discarding"} /\ op.update # None =>
       \E c \in Channels : op.update = Rebound(settings, c, op.update.bound[c])
  /\ \A c \in Channels : op.for = Pairs(c) /\ op.at = "creating" =>
       /\ op.update.bound[c].peer = pairing[c].ask.peer
       /\ op.update.bound[c].peer # Own

\* A pairing: what is confirmed is the candidate that was shown, never the account itself.
Pairing == [state : {"new", "waiting", "candidate", "completed", "over"},
            at : {"none", "account", "connecting", "arming", "polling", "checking", "verifying",
                  "cancelling", "committing"},
            cand : Candidates \cup {None}, ask : Candidates \cup {None},
            base : Settings \cup {None}, due : BOOLEAN, closing : BOOLEAN]
PairParts(p) ==
  /\ p.at # "none" => ~PairingOver(p)
  /\ p.ask \in {None, p.cand}
  /\ p.cand # None => p.cand.peer # Own
  /\ p.at \in {"checking", "verifying", "committing"} => p.ask # None

\* A pairing under way has the lease, or waits for the manager to commit what it found.
PairOf(c) ==
  /\ PairParts(pairing[c])
  /\ ~PairingOver(pairing[c]) =>
       /\ op.for = Pairs(c) /\ op.at \notin {"idle", "stopping"}
       /\ op.at = "leased" \/ pairing[c].at = "committing"
       /\ pairing[c].base \in Settings /\ Earlier(pairing[c].base)
  /\ op.for = Pairs(c) /\ op.at = "leased" => ~PairingOver(pairing[c])
PairInv ==
  /\ pairing \in [Channels -> Pairing]
  /\ eye \in [client : BOOLEAN, late : BOOLEAN, chosen : Peers \cup {None},
              aborted : BOOLEAN, failed : BOOLEAN]
  /\ eye.chosen = None \/ eye.chosen # Own
  /\ \A c \in Channels : PairOf(c)

\* A login: a cancelled one has been aborted, and there is no session file while
\* an account is being signed in.
FlowOf(f) ==
  /\ f.cancel # "no" \/ f.state = "cancelled" => f.aborted
  /\ f.qr \in {0, f.gen}
  /\ f.work \in {"sdk", "closing"} => f.client
  /\ f.work = "publishing" => ~f.client
  /\ f.work \in {"sdk", "closing", "publishing"} => ~session
  /\ f.signed /\ f.state \notin {"connected", "failed"} => ~session
  /\ f.channel = "whatsapp" => f.work \in {"none", "request", "giving up"} /\ ~f.client
  /\ f.channel = "telegram" => f.work \notin {"request", "giving up"} /\ f.gen = 0
  /\ f.state \in Terminal /\ f.work # "none" => f.work \notin {"request", "giving up"} /\ f.aborted
  /\ f.unknown => f.work = "none" /\ f.aborted
  /\ f.cancel = "disconnecting" => f.work = "none" /\ f.channel = "whatsapp"
LoginInv ==
  /\ FlowTypeOK
  /\ login # None => FlowOf(login)
  /\ op.for = "login" /\ op.at \notin {"idle", "stopping"} => login # None
  /\ Open(login) <=> op.for = "login" /\ op.at = "leased"
  /\ leaving # None <=> op.for = "disconnect" /\ op.at = "leased"

\* The manager is kept for good.
Kept == op.at = "idle" /\ busy /\ paused

\* Whoever may be using an account has its lease, or the manager is kept.
EyeOpen == eye.client \/ eye.late
ClientInv ==
  login # None /\ login.client =>
    /\ ~live /\ ~EyeOpen
    /\ \/ Open(login) /\ (login.work \in {"sdk", "closing"} \/ login.unknown)
       \/ Kept
EyeInv ==
  EyeOpen =>
    /\ ~live
    /\ \/ ~PairingOver(T) /\ op.at = "leased"
       \/ Kept

\* What the sidecar may still perform is known to whoever has the lease.
LoginSends(f, late) ==
  /\ late \subseteq {"connect", "disconnect"}
  /\ "connect" \in late => f.work = "request" \/ f.unknown
  /\ "disconnect" \in late => f.work = "giving up" \/ f.aborted
PairSends(p, late) ==
  /\ late \subseteq {"arm", "disarm"}
  /\ "arm" \in late => p.at = "arming"
  /\ "disarm" \in late => p.at \in {"cancelling", "committing"}
  /\ p.at # "account"
SidecarInv ==
  SidecarBusy =>
    \/ Open(login) /\ login.channel = "whatsapp" /\ LoginSends(login, sidecar.late)
    \/ ~PairingOver(W) /\ op.at = "leased" /\ PairSends(W, sidecar.late)
    \/ leaving = "whatsapp" /\ sidecar.late \subseteq {"disconnect"}
    \/ op.at = "unlinking" /\ sidecar.late \subseteq {"unlink"}
    \/ Kept /\ (live => ~runtime.bound["whatsapp"].on)

\* How far the shutdown is, and whose operations are over unless one of its steps
\* failed: those a request waits for, then those of each service it has closed.
ShutInv ==
  /\ shut \in {"serving", "app", "telegramTarget", "target", "connections", "runtime", "exited"}
  /\ failed \in BOOLEAN
  /\ closed <=> shut = "exited"
  /\ closing <=> shut \notin {"serving", "app"}
  /\ shut = "exited" /\ ~paused => ~live /\ ~failed
  /\ ClientsStay /\ ~failed =>
       /\ shut \notin {"serving", "app"} =>
            op.at # "stopping" /\ op.for \notin {"console", "unlink", "disconnect"}
       /\ shut \in {"target", "connections", "runtime", "exited"} => op.for # "telegramTarget"
       /\ shut \in {"connections", "runtime", "exited"} => op.for # "target"
       /\ shut \in {"runtime", "exited"} => op.for # "login"

AccountsInv ==
  /\ ManagerInv /\ CommitInv /\ PairInv /\ LoginInv
  /\ ClientInv /\ EyeInv /\ SidecarInv /\ ShutInv

-----------------------------------------------------------------------------
(* The manager *)

LEMMA ReboundIs ==
  ASSUME NEW s \in Settings, NEW c \in Channels, NEW b \in Binding
  PROVE  /\ Rebound(s, c, b) \in Updates /\ Rebound(s, c, b) # None
         /\ Rebound(s, c, b).revision = s.revision + 1 /\ Rebound(s, c, b).bound[c] = b
         /\ Rebound(s, c, b) = Rebound(s, c, Rebound(s, c, b).bound[c])
         /\ s.revision + 1 <= MaxRevision => Rebound(s, c, b) \in Settings
<1>1. Rebound(s, c, b) = [revision |-> s.revision + 1, bound |-> [s.bound EXCEPT ![c] = b]]
  BY DEF Rebound
<1>2. [s.bound EXCEPT ![c] = b] \in [Channels -> Binding] /\ [s.bound EXCEPT ![c] = b][c] = b
  BY DEF Settings
<1>3. s.revision \in 0 .. MaxRevision
  BY DEF Settings
<1>4. s.revision + 1 \in 1 .. MaxRevision + 1 /\ (s.revision + 1 <= MaxRevision => s.revision + 1 \in 0 .. MaxRevision)
  BY <1>3, SettingsAssumption
<1>5. Rebound(s, c, b) \in Updates /\ (s.revision + 1 <= MaxRevision => Rebound(s, c, b) \in Settings)
  BY <1>1, <1>2, <1>4 DEF Updates, Settings
<1>6. Rebound(s, c, b).bound[c] = b /\ Rebound(s, c, b).revision = s.revision + 1
  BY <1>1, <1>2
<1>. QED  BY <1>5, <1>6, SettingsAssumption

\* An update that is prepared can be committed.
LEMMA PreparedFits ==
  ASSUME ManagerInv, NEW u \in Updates, Prepared(u)
  PROVE  u \in Settings /\ u # None
BY SettingsAssumption DEF ManagerInv, ManagerTypeOK, Prepared, Updates, Settings

LEMMA ClaimKeeps ==
  ASSUME ManagerInv, NEW owner \in Owners, NEW update \in Updates \cup {None}, Claim(owner, update),
         update = None <=> owner \in Leaseholders,
         update # None => Prepared(update),
         owner = "unlink" => ~update.bound["whatsapp"].on
  PROVE  /\ ManagerInv'
         /\ op.at = "idle" /\ ~busy /\ ~closing /\ busy'
         /\ op' = [at |-> "stopping", for |-> owner, update |-> update]
         /\ op'.at = "stopping" /\ op'.for = owner /\ op'.update = update
<1>1. /\ ~busy /\ ~closing /\ busy' = TRUE
      /\ op' = [at |-> "stopping", for |-> owner, update |-> update]
      /\ UNCHANGED <<settings, paused, runtime, live, closing, closed>>
  BY DEF Claim
<1>2. op'.at = "stopping" /\ op'.for = owner /\ op'.update = update
  BY <1>1
<1>3. op.at = "idle"
  BY <1>1 DEF ManagerInv, OpInv
<1>4. ManagerTypeOK'
  BY <1>1 DEF ManagerInv, ManagerTypeOK, Stages
<1>5. OpInv'
  BY <1>1, <1>2 DEF ManagerInv, OpInv, Prepared, Leaseholders
<1>6. RunInv'
  BY <1>1, <1>2, <1>3 DEF ManagerInv, RunInv
<1>. QED  BY <1>1, <1>2, <1>3, <1>4, <1>5, <1>6 DEF ManagerInv

\* Before the store is let go.
LEMMA FinishIs ==
  ASSUME ~closed, NEW unknown \in BOOLEAN, Finish(unknown)
  PROVE  /\ op' = Idle /\ op'.at = "idle" /\ op'.for = "none" /\ op'.update = None
         /\ busy' = unknown /\ paused' = (paused \/ unknown)
BY DEF Finish, Idle

LEMMA FinishKeeps ==
  ASSUME ManagerInv, ~closed, NEW unknown \in BOOLEAN, Finish(unknown),
         UNCHANGED <<settings, closing, closed>>, runtime' \in Settings \cup {None}, live' \in BOOLEAN,
         runtime' \notin {None, settings} => unknown,
         live' => runtime' # None
  PROVE  ManagerInv'
<1>1. /\ op' = Idle /\ op'.at = "idle" /\ op'.for = "none" /\ op'.update = None
      /\ busy' = unknown /\ paused' = (paused \/ unknown)
  BY FinishIs
<1>2. ManagerTypeOK'
  BY <1>1 DEF ManagerInv, ManagerTypeOK
<1>3. OpInv'
  BY <1>1 DEF ManagerInv, OpInv
<1>4. RunInv'
  BY <1>1 DEF ManagerInv, RunInv
<1>. QED  BY <1>2, <1>3, <1>4 DEF ManagerInv

\* An operation that goes on: its stage and its update change.
LEMMA MoveKeeps ==
  ASSUME ManagerInv, op.at # "idle", UNCHANGED <<busy, paused, closing, closed, settings>>,
         NEW stage \in {"leased", "creating", "discarding", "restoring", "rollback", "retiring"},
         NEW update \in Updates \cup {None}, op' = [op EXCEPT !.at = stage, !.update = update],
         stage = "leased" => update = None /\ op.for \in Leaseholders,
         stage \in {"creating", "discarding"} => update # None /\ Prepared(update),
         op.for \in {"login", "disconnect"} => update = None,
         op.for = "unlink" => update = op.update,
         runtime' = IF stage = "retiring" THEN settings ELSE None,
         live' \in BOOLEAN, stage = "leased" => ~live'
  PROVE  /\ ManagerInv'
         /\ op'.at = stage /\ op'.for = op.for /\ op'.update = update
<1>1. op \in [at : Stages, for : Owners, update : Updates \cup {None}]
  BY DEF ManagerInv, ManagerTypeOK, Idle
<1>2. /\ op' \in [at : Stages, for : Owners, update : Updates \cup {None}]
      /\ op'.at = stage /\ op'.for = op.for /\ op'.update = update
  BY <1>1 DEF Stages
<1>3. ManagerTypeOK'
  BY <1>2 DEF ManagerInv, ManagerTypeOK
<1>4. OpInv'
  BY <1>2 DEF ManagerInv, OpInv, Prepared
<1>5. RunInv'
  BY <1>2 DEF ManagerInv, RunInv
<1>. QED  BY <1>2, <1>3, <1>4, <1>5 DEF ManagerInv

\* What install() comes to: the operation is over, or it creates a candidate.
LEMMA InstallKeeps ==
  ASSUME ManagerInv, ~closed, op.at \in {"stopping", "leased"},
         NEW update \in Updates, Prepared(update), Install(update),
         op.for \notin {"login", "disconnect"}, op.for = "unlink" => update = op.update,
         runtime' = None, UNCHANGED <<settings, closing, closed>>
  PROVE  /\ ManagerInv'
         /\ \/ closing /\ op' = Idle /\ ~live' /\ busy' = FALSE
            \/ ~closing /\ op'.at = "creating" /\ op'.for = op.for /\ op'.update = update
<1>1. update # None
  BY SettingsAssumption
<1>2. CASE closing
  <2>1. Finish(FALSE) /\ live' = FALSE
    BY <1>2 DEF Install
  <2>. QED  BY <1>2, <2>1, FinishIs, FinishKeeps
<1>3. CASE ~closing
  <2>1. /\ op' = [op EXCEPT !.at = "creating", !.update = update]
        /\ live' = TRUE /\ UNCHANGED <<busy, paused>>
    BY <1>3 DEF Install
  <2>. QED  BY <1>1, <1>3, <2>1, MoveKeeps
<1>. QED  BY <1>2, <1>3

\* The outcomes of the stop an operation begins with.
LEMMA StopKeeps ==
  ASSUME ManagerInv, ~closed, NEW ok \in BOOLEAN, StopRuntime(ok)
  PROVE  /\ ManagerInv' /\ op.at = "stopping"
         /\ \/ ~ok /\ op'.at = "idle" /\ op'.for = "none" /\ UNCHANGED live
            \/ op'.at = "idle" /\ op'.for = "none" /\ ~live'
            \/ op.for \in Leaseholders /\ op'.at = "leased" /\ op'.for = op.for /\ op'.update = None /\ ~live'
            \/ op.for \notin Leaseholders /\ op'.at = "creating" /\ op'.for = op.for /\ op'.update = op.update
         /\ UNCHANGED <<settings, closing, closed>>
<1>1. op.at = "stopping" /\ UNCHANGED <<settings, closing, closed>>
  BY DEF StopRuntime
<1>2. op \in [at : Stages, for : Owners, update : Updates \cup {None}]
  BY <1>1 DEF ManagerInv, ManagerTypeOK, Idle
<1>3. CASE ~ok
  <2>1. runtime # None /\ Finish(TRUE) /\ UNCHANGED <<runtime, live>>
    BY <1>3 DEF StopRuntime
  <2>2. runtime' \in Settings \cup {None} /\ live' \in BOOLEAN
    BY <2>1 DEF ManagerInv, ManagerTypeOK
  <2>. QED  BY <1>1, <1>3, <2>1, <2>2, FinishIs, FinishKeeps
<1>4. CASE ok /\ op.update # None
  <2>1. runtime' = None /\ Install(op.update)
    BY <1>4 DEF StopRuntime
  <2>2. /\ op.update \in Updates /\ Prepared(op.update) /\ op.for \notin Leaseholders
        /\ op.for \notin {"login", "disconnect"}
    BY <1>1, <1>2, <1>4 DEF ManagerInv, OpInv, Leaseholders
  <2>3. Idle.at = "idle" /\ Idle.for = "none"
    BY DEF Idle
  <2>. QED  BY <1>1, <2>1, <2>2, <2>3, InstallKeeps
<1>5. CASE ok /\ op.update = None
  <2>1. /\ runtime' = None /\ live' = FALSE /\ UNCHANGED <<busy, paused>>
        /\ op' = IF closing THEN Idle ELSE [op EXCEPT !.at = "leased"]
    BY <1>5 DEF StopRuntime
  <2>2. op.for \in Leaseholders /\ busy /\ op.for # "unlink"
    BY <1>1, <1>5 DEF ManagerInv, OpInv, Leaseholders
  <2>3. CASE closing
    <3>1. op' = Idle /\ op'.at = "idle" /\ op'.for = "none" /\ op'.update = None
      BY <2>1, <2>3 DEF Idle
    <3>2. ManagerTypeOK'
      BY <1>1, <2>1, <3>1 DEF ManagerInv, ManagerTypeOK
    <3>3. OpInv' /\ RunInv'
      BY <1>1, <2>1, <2>3, <3>1 DEF OpInv, RunInv
    <3>. QED  BY <1>1, <2>1, <3>1, <3>2, <3>3 DEF ManagerInv
  <2>4. CASE ~closing
    <3>1. op' = [op EXCEPT !.at = "leased", !.update = None]
      BY <1>2, <1>5, <2>1, <2>4
    <3>. QED  BY <1>1, <2>1, <2>2, <3>1, MoveKeeps
  <2>. QED  BY <2>3, <2>4
<1>. QED  BY <1>3, <1>4, <1>5

\* The outcomes of giving a lease back.
LEMMA ReleaseKeeps ==
  ASSUME ManagerInv, ~closed, NEW safe \in BOOLEAN, NEW valid \in BOOLEAN,
         NEW update \in Updates \cup {None}, Release(safe, update, valid),
         op.for \in {"login", "disconnect"} => update = None
  PROVE  /\ ManagerInv' /\ op.at = "leased" /\ UNCHANGED <<settings, closing, closed>>
         /\ \/ /\ ~safe \/ closing
               /\ op'.at = "idle" /\ op'.for = "none" /\ ~live' /\ (~safe => busy' /\ paused')
            \/ /\ safe /\ ~closing /\ op'.for = op.for /\ op'.update = update
               /\ op'.at \in {"creating", "restoring", "rollback"}
               /\ op'.at = "creating" => update # None
<1>1. op.at = "leased" /\ UNCHANGED <<settings, runtime, closing, closed>>
  BY DEF Release
<1>2. /\ op \in [at : Stages, for : Owners, update : Updates \cup {None}]
      /\ op.for \in Leaseholders /\ op.for # "unlink" /\ runtime = None /\ ~live
  BY <1>1 DEF ManagerInv, ManagerTypeOK, OpInv, RunInv, Idle, Leaseholders
<1>3. CASE closing \/ ~safe
  <2>1. PICK unknown \in BOOLEAN : unknown = ~safe
    OBVIOUS
  <2>2. Finish(unknown) /\ UNCHANGED live
    BY <1>3, <2>1 DEF Release
  <2>3. /\ op'.at = "idle" /\ op'.for = "none" /\ busy' = unknown /\ paused' = (paused \/ unknown)
    BY <2>2, FinishIs
  <2>4. ManagerInv'
    BY <1>1, <1>2, <2>2, FinishKeeps DEF ManagerInv, ManagerTypeOK
  <2>. QED  BY <1>1, <1>2, <1>3, <2>1, <2>2, <2>3, <2>4
<1>4. CASE ~closing /\ safe /\ update # None /\ valid /\ Prepared(update)
  <2>1. Install(update)
    BY <1>4 DEF Release
  <2>. QED  BY <1>1, <1>2, <1>4, <2>1, InstallKeeps
<1>5. CASE ~closing /\ safe /\ ~(update # None /\ valid /\ Prepared(update))
  <2>1. /\ live' = TRUE /\ UNCHANGED <<busy, paused>>
        /\ op' = [op EXCEPT !.at = IF update = None THEN "restoring" ELSE "rollback", !.update = update]
    BY <1>5 DEF Release
  <2>. QED  BY <1>1, <1>2, <1>5, <2>1, MoveKeeps
<1>. QED  BY <1>3, <1>4, <1>5

\* Until the end of an operation on the way of an update, or of a restart.
LEMMA CandidateKeeps ==
  ASSUME ManagerInv, ~closed, NEW made \in BOOLEAN, NEW saved \in BOOLEAN, CreateCandidate(made, saved)
  PROVE  /\ ManagerInv' /\ op.at = "creating" /\ UNCHANGED <<closing, closed>>
         /\ \/ /\ op'.at \in {"idle", "rollback", "discarding"} /\ UNCHANGED settings
               /\ op'.at = "idle" => ~(made /\ saved /\ ~closing)
            \/ /\ made /\ saved /\ ~closing /\ settings' = op.update /\ runtime' = settings'
               /\ op'.at = IF op.for = "unlink" THEN "unlinking" ELSE "idle"
         /\ op'.at # "idle" => op'.for = op.for /\ op'.update = op.update
         /\ op'.at = "idle" => op'.for = "none"
<1>1. op.at = "creating" /\ UNCHANGED <<closing, closed>>
  BY DEF CreateCandidate
<1>2. /\ op \in [at : Stages, for : Owners, update : Updates \cup {None}]
      /\ op.update \in Updates /\ Prepared(op.update) /\ op.update \in Settings /\ op.update # None
      /\ runtime = None /\ busy /\ op.for \notin {"login", "disconnect"}
    <2>1. op \in [at : Stages, for : Owners, update : Updates \cup {None}]
      BY <1>1 DEF ManagerInv, ManagerTypeOK, Idle
    <2>. QED  BY <1>1, <2>1, PreparedFits DEF ManagerInv, OpInv, RunInv
<1>3. CASE ~made /\ closing
  <2>1. UNCHANGED <<settings, runtime>> /\ Finish(FALSE) /\ live' = FALSE
    BY <1>3 DEF CreateCandidate
  <2>2. ManagerInv'
    BY <1>1, <1>2, <2>1, FinishKeeps
  <2>. QED  BY <1>1, <1>3, <2>1, <2>2, FinishIs
<1>4. CASE ~made /\ ~closing
  <2>1. UNCHANGED <<settings, runtime>> /\ Start("rollback")
    BY <1>4 DEF CreateCandidate
  <2>2. op' = [op EXCEPT !.at = "rollback", !.update = op.update] /\ live' = TRUE /\ UNCHANGED <<busy, paused>>
    BY <1>2, <1>4, <2>1 DEF Start, Goto
  <2>. QED  BY <1>1, <1>2, <1>4, <2>1, <2>2, MoveKeeps
<1>5. CASE made /\ (closing \/ ~saved)
  <2>1. UNCHANGED <<settings, runtime, live>> /\ Goto("discarding")
    BY <1>5 DEF CreateCandidate
  <2>2. op' = [op EXCEPT !.at = "discarding"] /\ UNCHANGED <<busy, paused>>
    BY <2>1 DEF Goto
  <2>3. /\ op' \in [at : Stages, for : Owners, update : Updates \cup {None}]
        /\ op'.at = "discarding" /\ op'.for = op.for /\ op'.update = op.update
    BY <1>2, <2>2 DEF Stages
  <2>4. ManagerTypeOK'
    BY <1>1, <2>1, <2>2, <2>3 DEF ManagerInv, ManagerTypeOK
  <2>5. OpInv' /\ RunInv'
    BY <1>1, <1>2, <2>1, <2>2, <2>3 DEF ManagerInv, OpInv, RunInv, Prepared
  <2>. QED  BY <1>1, <1>5, <2>1, <2>3, <2>4, <2>5 DEF ManagerInv
<1>6. CASE made /\ ~closing /\ saved
  <2>1. settings' = op.update /\ runtime' = op.update /\ UNCHANGED live
    BY <1>6 DEF CreateCandidate
  <2>2. CASE op.for = "unlink"
    <3>1. op' = [op EXCEPT !.at = "unlinking"] /\ UNCHANGED <<busy, paused>>
      BY <1>6, <2>2 DEF CreateCandidate, Goto
    <3>2. /\ op' \in [at : Stages, for : Owners, update : Updates \cup {None}]
          /\ op'.at = "unlinking" /\ op'.for = op.for /\ op'.update = op.update
      BY <1>2, <3>1 DEF Stages
    <3>3. ManagerTypeOK'
      BY <1>1, <1>2, <2>1, <3>1, <3>2 DEF ManagerInv, ManagerTypeOK
    <3>4. OpInv' /\ RunInv'
      BY <1>1, <1>2, <2>1, <2>2, <3>1, <3>2 DEF ManagerInv, OpInv, RunInv
    <3>. QED  BY <1>1, <1>6, <2>1, <2>2, <3>2, <3>3, <3>4 DEF ManagerInv
  <2>3. CASE op.for # "unlink"
    <3>1. Finish(FALSE)
      BY <1>6, <2>3 DEF CreateCandidate
    <3>2. op' = Idle /\ op'.at = "idle" /\ op'.for = "none" /\ op'.update = None /\ busy' = FALSE /\ paused' = paused
      BY <3>1, FinishIs DEF ManagerInv, ManagerTypeOK
    <3>3. ManagerTypeOK'
      BY <1>1, <1>2, <2>1, <3>2 DEF ManagerInv, ManagerTypeOK
    <3>4. OpInv' /\ RunInv'
      BY <1>1, <1>2, <2>1, <3>2 DEF OpInv, RunInv
    <3>. QED  BY <1>1, <1>6, <2>1, <2>3, <3>2, <3>3, <3>4 DEF ManagerInv
  <2>. QED  BY <2>2, <2>3
<1>. QED  BY <1>3, <1>4, <1>5, <1>6

LEMMA ReplaceKeeps ==
  ASSUME ManagerInv, ~closed, NEW ok \in BOOLEAN, DiscardCandidate(ok) \/ Restart(ok) \/ Retire(ok)
  PROVE  /\ ManagerInv' /\ UNCHANGED <<settings, closing, closed>>
         /\ op.at \in {"discarding", "restoring", "rollback", "retiring"}
         /\ \/ /\ op'.at \in {"rollback", "retiring"}
               /\ op'.for = op.for /\ op'.update = op.update
            \/ op'.at = "idle" /\ op'.for = "none" 
<1>1. /\ op.at \in {"discarding", "restoring", "rollback", "retiring"}
      /\ UNCHANGED <<settings, closing, closed>>
  BY DEF DiscardCandidate, Restart, Retire
<1>2. /\ op \in [at : Stages, for : Owners, update : Updates \cup {None}]
      /\ runtime \in Settings \cup {None} /\ settings \in Settings /\ busy
      /\ live \in BOOLEAN
  BY <1>1 DEF ManagerInv, ManagerTypeOK, OpInv, Idle
<1>3. ASSUME NEW stage \in {"rollback", "retiring"},
             Goto(stage), live' \in BOOLEAN, runtime' = IF stage = "retiring" THEN settings ELSE None
      PROVE  ManagerInv' /\ op'.at = stage /\ op'.for = op.for /\ op'.update = op.update
  <2>1. op' = [op EXCEPT !.at = stage, !.update = op.update] /\ UNCHANGED <<busy, paused>>
    BY <1>2, <1>3 DEF Goto
  <2>2. op.for \in {"login", "disconnect"} => op.update = None
    BY DEF ManagerInv, OpInv
  <2>. QED  BY <1>1, <1>2, <1>3, <2>1, <2>2, MoveKeeps
<1>4. CASE DiscardCandidate(ok)
  <2>1. op.at = "discarding" /\ runtime = None /\ op.update \in Settings /\ op.update # None
    <3>1. op.at = "discarding"
      BY <1>4 DEF DiscardCandidate
    <3>. QED  BY <1>2, <3>1, PreparedFits DEF ManagerInv, OpInv, RunInv
  <2>2. CASE ~ok
    <3>1. runtime' = op.update /\ Finish(TRUE) /\ UNCHANGED live
      BY <1>4, <2>2 DEF DiscardCandidate
    <3>2. ManagerInv'
      BY <1>1, <1>2, <2>1, <3>1, FinishKeeps
    <3>. QED  BY <1>1, <3>1, <3>2, FinishIs
  <2>3. CASE ok /\ closing
    <3>1. UNCHANGED runtime /\ Finish(FALSE) /\ live' = FALSE
      BY <1>4, <2>3 DEF DiscardCandidate
    <3>2. ManagerInv'
      BY <1>1, <1>2, <2>1, <3>1, FinishKeeps
    <3>. QED  BY <1>1, <3>1, <3>2, FinishIs
  <2>4. CASE ok /\ ~closing
    <3>1. UNCHANGED runtime /\ Goto("rollback") /\ live' = TRUE
      BY <1>4, <2>4 DEF DiscardCandidate, Start
    <3>. QED  BY <1>1, <1>3, <2>1, <3>1
  <2>. QED  BY <2>2, <2>3, <2>4
<1>5. CASE Restart(ok)
  <2>1. op.at \in {"restoring", "rollback"} /\ runtime = None /\ live' \in BOOLEAN
    BY <1>2, <1>5 DEF Restart, ManagerInv, RunInv
  <2>2. CASE ~ok
    <3>1. UNCHANGED runtime /\ Finish(FALSE) /\ live' = FALSE
      BY <1>5, <2>2 DEF Restart
    <3>2. ManagerInv'
      BY <1>1, <1>2, <2>1, <3>1, FinishKeeps
    <3>. QED  BY <1>1, <3>1, <3>2, FinishIs
  <2>3. CASE ok /\ closing
    <3>1. runtime' = settings /\ Goto("retiring") /\ UNCHANGED live
      BY <1>5, <2>3 DEF Restart
    <3>. QED  BY <1>1, <1>3, <2>1, <3>1
  <2>4. CASE ok /\ ~closing
    <3>1. runtime' = settings /\ Finish(FALSE) /\ UNCHANGED live /\ settings # None
      BY <1>2, <1>5, <2>4, SettingsAssumption DEF Restart
    <3>2. ManagerInv'
      BY <1>1, <1>2, <2>1, <3>1, FinishKeeps
    <3>. QED  BY <1>1, <3>1, <3>2, FinishIs
  <2>. QED  BY <2>2, <2>3, <2>4
<1>6. CASE Retire(ok)
  <2>1. op.at = "retiring" /\ runtime = settings /\ settings # None
    BY <1>2, <1>6, SettingsAssumption DEF Retire, ManagerInv, RunInv
  <2>2. PICK unknown \in BOOLEAN : unknown = ~ok
    OBVIOUS
  <2>3. Finish(unknown) /\ (IF ok THEN runtime' = None /\ live' = FALSE ELSE UNCHANGED <<runtime, live>>)
    BY <1>6, <2>2 DEF Retire
  <2>4. runtime' \in {None, settings} /\ live' \in BOOLEAN /\ (live' => runtime' # None)
    BY <1>2, <2>1, <2>3
  <2>5. ManagerInv'
    BY <1>1, <1>2, <2>3, <2>4, FinishKeeps
  <2>. QED  BY <1>1, <2>3, <2>5, FinishIs
<1>. QED  BY <1>4, <1>5, <1>6

-----------------------------------------------------------------------------
(* Logins *)

LEMMA OverIs ==
  ASSUME NEW f \in Flow, NEW state \in Terminal
  PROVE  /\ Over(f, state) \in Flow /\ Over(f, state).state = state /\ Over(f, state).cancel = "no"
         /\ ~Over(f, state).unknown /\ Over(f, state).gen = 0 /\ Over(f, state).qr = 0
         /\ Over(f, state).work = f.work /\ Over(f, state).client = f.client
         /\ Over(f, state).aborted = f.aborted /\ Over(f, state).signed = f.signed
         /\ Over(f, state).channel = f.channel
<1>1. /\ state \in Terminal \cup {"starting", "prompt", "qr"} /\ "no" \in {"no", "draining", "disconnecting"}
      /\ 0 \in 0 .. MaxAttempts /\ {} \in SUBSET (0 .. MaxAttempts)
  BY FlowAssumption
<1>2. Over(f, state) = [f EXCEPT !.state = state, !.cancel = "no", !.unknown = FALSE, !.gen = 0, !.qr = 0, !.polls = {}]
  BY DEF Over
<1>3. Over(f, state) \in Flow
  BY <1>1, <1>2 DEF Flow
<1>. QED  BY <1>2, <1>3 DEF Flow

LEMMA FlowStays ==
  ASSUME NEW f, FlowOf(f), session' = session
  PROVE  FlowOf(f)'
BY DEF FlowOf

LEMMA AttemptsFit == MaxAttempts \in Nat /\ 0 \in 0 .. MaxAttempts
BY FlowAssumption

\* A mutation that is sent, and one the sidecar has performed.
LEMMA SendIs ==
  ASSUME sidecar \in [on : BOOLEAN, late : SUBSET Mutations], NEW m \in Mutations
  PROVE  /\ Send(m) \in [on : BOOLEAN, late : SUBSET Mutations]
         /\ Send(m).late = sidecar.late \cup {m}
BY DEF Send

LEMMA DoneIs ==
  ASSUME sidecar \in [on : BOOLEAN, late : SUBSET Mutations], NEW m \in Mutations
  PROVE  /\ Done(m) \in [on : BOOLEAN, late : SUBSET Mutations]
         /\ Done(m).late = sidecar.late \ {m}
         /\ Done(m).on <=> m \in {"connect", "arm"}
<1>1. CASE m \in {"connect", "arm"}
  <2>1. (m \in {"connect", "arm"}) = TRUE
    BY <1>1
  <2>2. Done(m) = [sidecar EXCEPT !.late = @ \ {m}, !.on = TRUE]
    BY <2>1 DEF Done
  <2>. QED  BY <1>1, <2>2
<1>2. CASE m \notin {"connect", "arm"}
  <2>1. (m \in {"connect", "arm"}) = FALSE
    BY <1>2
  <2>2. Done(m) = [sidecar EXCEPT !.late = @ \ {m}, !.on = FALSE]
    BY <2>1 DEF Done
  <2>. QED  BY <1>2, <2>2
<1>. QED  BY <1>1, <1>2

\* Who has the lease when a login is open.
LEMMA LoginAlone ==
  ASSUME AccountsInv, Open(login)
  PROVE  /\ login \in Flow /\ login # None /\ FlowOf(login) /\ login.state \notin Terminal
         /\ op.for = "login" /\ op.at = "leased" /\ ~live /\ ~EyeOpen
         /\ leaving = None /\ \A c \in Channels : PairingOver(pairing[c])
         /\ SidecarBusy => login.channel = "whatsapp" /\ LoginSends(login, sidecar.late)
<1>1. op.for = "login" /\ op.at = "leased"
  BY DEF AccountsInv, LoginInv
<1>2. \A c \in Channels : PairingOver(pairing[c])
  BY <1>1 DEF AccountsInv, PairInv, PairOf, Pairs
<1>3. PairingOver(T) /\ PairingOver(W)
  BY <1>2 DEF Channels, T, W
<1>4. ~live /\ ~EyeOpen
  BY <1>1, <1>3 DEF AccountsInv, ManagerInv, RunInv, EyeInv, Kept
<1>5. leaving = None
  BY <1>1 DEF AccountsInv, LoginInv
<1>6. login \in Flow /\ login # None /\ FlowOf(login) /\ login.state \notin Terminal
  BY DEF Open, AccountsInv, LoginInv, FlowTypeOK
<1>7. SidecarBusy => login.channel = "whatsapp" /\ LoginSends(login, sidecar.late)
  <2>1. "whatsapp" # None
    BY SettingsAssumption DEF Channels
  <2>. QED  BY <1>1, <1>3, <1>5, <2>1 DEF AccountsInv, SidecarInv, Kept
<1>. QED  BY <1>1, <1>2, <1>4, <1>5, <1>6, <1>7

\* A step of a login that keeps its lease, or has given it back before.
LEMMA LoginStays ==
  ASSUME AccountsInv, login # None, UNCHANGED managerVars, UNCHANGED <<leaving, pairing, eye, form, shut, failed>>,
         NEW f \in Flow, login' = f, FlowOf(f)',
         f.state \in Terminal <=> login.state \in Terminal, f.channel = login.channel,
         session' \in BOOLEAN, sidecar' \in [on : BOOLEAN, late : SUBSET Mutations],
         f.client => Open(login) \/ login.client,
         Open(login) /\ f.client => f.work \in {"sdk", "closing"} \/ f.unknown,
         IF Open(login) THEN SidecarBusy' => f.channel = "whatsapp" /\ LoginSends(f, sidecar'.late)
         ELSE sidecar' = sidecar
  PROVE  AccountsInv'
<1>1. f # None /\ (Open(login)' <=> Open(login))
  BY FlowAssumption DEF Open
<1>2. ManagerInv' /\ CommitInv' /\ PairInv'
  BY DEF AccountsInv, managerVars, ManagerInv, ManagerTypeOK, OpInv, Prepared, RunInv,
         CommitInv, Earlier, PairInv, PairOf
<1>3. LoginInv'
  BY <1>1 DEF AccountsInv, managerVars, LoginInv, FlowTypeOK
<1>4. ClientInv'
  BY <1>1, LoginAlone DEF AccountsInv, managerVars, ClientInv, Kept, EyeOpen
<1>5. EyeInv'
  BY DEF AccountsInv, managerVars, EyeInv, EyeOpen, Kept, T
<1>6. SidecarInv'
  <2>1. CASE Open(login)
    BY <1>1, <2>1 DEF SidecarInv
  <2>2. CASE ~Open(login)
    <3>1. SidecarBusy' = SidecarBusy
      BY <2>2 DEF SidecarBusy
    <3>. QED  BY <2>2, <3>1 DEF AccountsInv, managerVars, SidecarInv, Kept, W
  <2>. QED  BY <2>1, <2>2
<1>7. ShutInv'
  BY <1>1 DEF AccountsInv, managerVars, ShutInv, T, W
<1>. QED  BY <1>2, <1>3, <1>4, <1>5, <1>6, <1>7 DEF AccountsInv

\* The step in which a login is over: what is left behind it does not call safe.
LEMMA LoginReleases ==
  ASSUME AccountsInv, shut # "exited", Open(login), UNCHANGED <<leaving, pairing, eye, form, shut, failed>>,
         NEW f \in Flow, login' = f, FlowOf(f)', f.state \in Terminal,
         session' \in BOOLEAN, sidecar' \in [on : BOOLEAN, late : SUBSET Mutations],
         NEW safe \in BOOLEAN, Release(safe, None, TRUE),
         safe => ~f.client /\ ~SidecarBusy'
  PROVE  AccountsInv'
<1>1. f # None /\ ~Open(login)' /\ ~closed
  BY FlowAssumption DEF Open, AccountsInv, ShutInv
<1>2. /\ ManagerInv' /\ UNCHANGED <<settings, closing, closed>>
      /\ \/ /\ ~safe \/ closing
            /\ op'.at = "idle" /\ op'.for = "none" /\ ~live' /\ (~safe => busy' /\ paused')
         \/ /\ safe /\ ~closing /\ op'.for = op.for /\ op'.update = None
            /\ op'.at \in {"creating", "restoring", "rollback"}
            /\ op'.at = "creating" => None # None
  BY <1>1, ReleaseKeeps DEF AccountsInv
<1>3. op'.at \in {"idle", "restoring", "rollback"}
  BY <1>2
<1>4. CommitInv'
  BY <1>2, <1>3 DEF AccountsInv, CommitInv, Earlier
<1>5. PairInv'
  BY <1>2, <1>3, LoginAlone DEF AccountsInv, PairInv, PairOf
<1>6. LoginInv'
  BY <1>1, <1>3, LoginAlone DEF AccountsInv, LoginInv, FlowTypeOK
<1>7. ClientInv' /\ EyeInv'
  BY <1>2, LoginAlone DEF ClientInv, EyeInv, EyeOpen, Kept
<1>8. SidecarInv'
  BY <1>2 DEF SidecarInv, Kept
<1>9. ShutInv'
  BY <1>1, <1>2, LoginAlone DEF AccountsInv, ShutInv, T, W, Channels
<1>. QED  BY <1>2, <1>4, <1>5, <1>6, <1>7, <1>8, <1>9 DEF AccountsInv

\* The work of a login has ended.
LEMMA WorkEndsKeeps ==
  ASSUME AccountsInv, shut # "exited", login # None, login.work # "none",
         UNCHANGED <<sidecar, leaving, pairing, eye, form, shut, failed>>,
         NEW client \in BOOLEAN, NEW state \in {"connected", "failed"}, NEW safe \in BOOLEAN,
         WorkEnds([login EXCEPT !.client = client], state, safe),
         client => login.client /\ ~safe, safe => login.channel = "telegram",
         session' \in BOOLEAN, session' = session \/ (login.work = "publishing" /\ ~login.aborted)
  PROVE  AccountsInv'
<1>1. login \in Flow /\ FlowOf(login) /\ sidecar' \in [on : BOOLEAN, late : SUBSET Mutations]
  BY DEF AccountsInv, LoginInv, FlowTypeOK
<1>2. PICK flow : flow = [login EXCEPT !.client = client]
  OBVIOUS
<1>3. PICK f : f = [flow EXCEPT !.work = "none", !.unknown = ~safe]
  OBVIOUS
<1>4. /\ flow \in Flow /\ flow.client = client /\ flow.work = login.work
      /\ flow.state = login.state /\ flow.cancel = login.cancel /\ flow.aborted = login.aborted
      /\ flow.signed = login.signed /\ flow.channel = login.channel
      /\ flow.gen = login.gen /\ flow.qr = login.qr
  BY <1>1, <1>2 DEF Flow
<1>5. /\ f \in Flow /\ f.client = client /\ f.work = "none" /\ f.unknown = ~safe
      /\ f.state = login.state /\ f.cancel = login.cancel /\ f.aborted = login.aborted
      /\ f.signed = login.signed /\ f.channel = login.channel /\ f.gen = login.gen /\ f.qr = login.qr
  BY <1>3, <1>4 DEF Flow
<1>6. IF login.state \in Terminal THEN Continue(Over(f, login.state))
      ELSE IF login.aborted THEN Continue(f) ELSE FinishLogin(f, state, safe)
  BY <1>2, <1>3, <1>4 DEF WorkEnds
<1>7. login.state \in Terminal \/ login.aborted => session' = session
  BY <1>1 DEF FlowOf
<1>8. CASE login.state \in Terminal
  <2>1. PICK g : g = Over(f, login.state)
    OBVIOUS
  <2>2. login' = g /\ UNCHANGED managerVars
    BY <1>6, <1>8, <2>1 DEF Continue
  <2>3. /\ g \in Flow /\ g.state = login.state /\ g.cancel = "no" /\ ~g.unknown /\ g.gen = 0 /\ g.qr = 0
        /\ g.work = "none" /\ g.client = client /\ g.aborted = login.aborted
        /\ g.signed = login.signed /\ g.channel = login.channel
    BY <1>5, <1>8, <2>1, OverIs
  <2>4. FlowOf(g)'
    BY <1>1, <1>7, <1>8, <2>3 DEF FlowOf
  <2>5. ~Open(login)
    BY <1>8 DEF Open
  <2>. QED  BY <1>1, <1>8, <2>2, <2>3, <2>4, <2>5, LoginStays
<1>9. CASE login.state \notin Terminal /\ login.aborted
  <2>1. login' = f /\ UNCHANGED managerVars
    BY <1>6, <1>9 DEF Continue
  <2>2. FlowOf(f)'
    BY <1>1, <1>5, <1>7, <1>9 DEF FlowOf
  <2>3. Open(login)
    BY <1>9 DEF Open
  <2>4. SidecarBusy' => f.channel = "whatsapp" /\ LoginSends(f, sidecar'.late)
    BY <1>5, <1>9, <2>3, LoginAlone DEF SidecarBusy, LoginSends
  <2>. QED  BY <1>1, <1>5, <1>9, <2>1, <2>2, <2>3, <2>4, LoginStays
<1>10. CASE login.state \notin Terminal /\ ~login.aborted
  <2>1. PICK g : g = Over(f, state)
    OBVIOUS
  <2>2. login' = g /\ Release(safe, None, TRUE)
    BY <1>5, <1>6, <1>10, <2>1 DEF FinishLogin
  <2>3. state \in Terminal
    BY DEF Terminal
  <2>4. /\ g \in Flow /\ g.state = state /\ g.cancel = "no" /\ ~g.unknown /\ g.gen = 0 /\ g.qr = 0
        /\ g.work = "none" /\ g.client = client /\ g.aborted = login.aborted
        /\ g.signed = login.signed /\ g.channel = login.channel
    BY <1>5, <2>1, <2>3, OverIs
  <2>5. FlowOf(g)'
    BY <1>1, <2>4 DEF FlowOf
  <2>6. Open(login)
    BY <1>10 DEF Open
  <2>7. safe => ~client /\ ~SidecarBusy'
    BY <2>6, LoginAlone DEF SidecarBusy
  <2>. QED  BY <1>1, <2>2, <2>3, <2>4, <2>5, <2>6, <2>7, LoginReleases
<1>. QED  BY <1>8, <1>9, <1>10

\* finish() for a login that is open.
LEMMA FinishLoginKeeps ==
  ASSUME AccountsInv, shut # "exited", Open(login), UNCHANGED <<session, leaving, pairing, eye, form, shut, failed>>,
         NEW flow \in Flow, flow.state = login.state, flow.channel = login.channel, flow.signed = login.signed,
         flow.aborted = login.aborted, flow.client = login.client, flow.work \in {"none", login.work},
         flow.work # "none" => flow.work \notin {"request", "giving up"} /\ login.aborted,
         NEW state \in Terminal, state = "cancelled" => login.aborted,
         NEW safe \in BOOLEAN, FinishLogin(flow, state, safe),
         sidecar' \in [on : BOOLEAN, late : SUBSET Mutations],
         safe => ~login.client /\ ~SidecarBusy'
  PROVE  AccountsInv'
<1>1. FlowOf(login) /\ login.state \notin Terminal /\ session' \in BOOLEAN
  BY LoginAlone DEF AccountsInv, LoginInv, FlowTypeOK
<1>2. PICK g : g = Over(flow, state)
  OBVIOUS
<1>3. login' = g /\ Release(safe, None, TRUE)
  BY <1>1, <1>2 DEF FinishLogin
<1>4. /\ g \in Flow /\ g.state = state /\ g.cancel = "no" /\ ~g.unknown /\ g.gen = 0 /\ g.qr = 0
      /\ g.work = flow.work /\ g.client = login.client /\ g.aborted = login.aborted
      /\ g.signed = login.signed /\ g.channel = login.channel
  BY <1>2, OverIs
<1>5. FlowOf(g)'
  <2>1. session \in BOOLEAN /\ session' = session
    BY DEF AccountsInv, LoginInv, FlowTypeOK
  <2>2. login.signed => ~session
    BY <1>1 DEF FlowOf, Terminal
  <2>3. /\ g.cancel # "no" \/ g.state = "cancelled" => g.aborted
        /\ g.qr \in {0, g.gen}
        /\ g.signed /\ g.state \notin {"connected", "failed"} => ~session
        /\ g.state \in Terminal /\ g.work # "none" => g.work \notin {"request", "giving up"} /\ g.aborted
    BY <1>4, <2>2
  <2>4. /\ g.work \in {"sdk", "closing"} => g.client
        /\ g.work = "publishing" => ~g.client
        /\ g.work \in {"sdk", "closing", "publishing"} => ~session
        /\ g.channel = "whatsapp" => g.work \in {"none", "request", "giving up"} /\ ~g.client
        /\ g.channel = "telegram" => g.work \notin {"request", "giving up"} /\ g.gen = 0
    BY <1>1, <1>4 DEF FlowOf
  <2>5. /\ g.unknown => g.work = "none" /\ g.aborted
        /\ g.cancel = "disconnecting" => g.work = "none" /\ g.channel = "whatsapp"
    BY <1>4
  <2>6. FlowOf(g)
    BY <2>3, <2>4, <2>5 DEF FlowOf
  <2>. QED  BY <2>1, <2>6, FlowStays
<1>. QED  BY <1>1, <1>3, <1>4, <1>5, LoginReleases

\* What a typed login that is there has.
LEMMA LoginIs ==
  ASSUME AccountsInv, login # None
  PROVE  /\ login \in Flow /\ FlowOf(login) /\ session \in BOOLEAN
         /\ sidecar \in [on : BOOLEAN, late : SUBSET Mutations]
         /\ Open(login) <=> login.state \notin Terminal
BY DEF AccountsInv, LoginInv, FlowTypeOK, Open

LEMMA OpenTelegramKeeps ==
  ASSUME AccountsInv, shut # "exited", NEW ready \in BOOLEAN, OpenTelegram(ready),
         UNCHANGED pairingVars, UNCHANGED rest
  PROVE  AccountsInv'
<1>1. /\ login # None /\ login.work = "opening" /\ UNCHANGED <<session, sidecar, leaving>>
      /\ UNCHANGED <<pairing, eye, form, shut, failed>>
  BY DEF OpenTelegram, pairingVars, rest
<1>2. /\ login \in Flow /\ FlowOf(login) /\ session' \in BOOLEAN
      /\ sidecar' \in [on : BOOLEAN, late : SUBSET Mutations]
      /\ Open(login) <=> login.state \notin Terminal
  BY <1>1, LoginIs
<1>3. login.channel = "telegram" /\ (login.state \in Terminal => login.aborted)
  BY <1>1, <1>2 DEF FlowOf, Flow, Channels
<1>4. PICK f : f = [login EXCEPT !.work = "none"]
  OBVIOUS
<1>5. /\ f \in Flow /\ f.work = "none" /\ f.state = login.state /\ f.cancel = login.cancel
      /\ f.aborted = login.aborted /\ f.signed = login.signed /\ f.channel = login.channel
      /\ f.gen = login.gen /\ f.qr = login.qr /\ f.client = login.client /\ f.unknown = login.unknown
  BY <1>2, <1>4 DEF Flow
<1>6. Open(login) => ~login.client /\ ~SidecarBusy'
  <2>1. SidecarBusy' = SidecarBusy
    BY <1>1 DEF SidecarBusy
  <2>2. ASSUME Open(login) PROVE ~login.client
    <3>1. op.at = "leased" /\ ~login.unknown
      BY <1>1, <1>2, <2>2, LoginAlone DEF FlowOf
    <3>. QED  BY <1>1, <3>1 DEF AccountsInv, ClientInv, Kept
  <2>. QED  BY <1>3, <2>1, <2>2, LoginAlone
<1>7. CASE session \/ ~ready
  <2>1. FinishLogin(f, "failed", TRUE)
    BY <1>4, <1>7 DEF OpenTelegram
  <2>2. CASE Open(login)
    BY <1>1, <1>2, <1>5, <1>6, <2>1, <2>2, FinishLoginKeeps DEF Terminal
  <2>3. CASE ~Open(login)
    <3>1. PICK g : g = Over(f, login.state)
      OBVIOUS
    <3>2. login' = g /\ UNCHANGED managerVars
      BY <1>2, <1>5, <2>1, <2>3, <3>1 DEF FinishLogin
    <3>3. /\ g \in Flow /\ g.state = login.state /\ g.cancel = "no" /\ ~g.unknown /\ g.gen = 0 /\ g.qr = 0
          /\ g.work = "none" /\ g.client = login.client /\ g.aborted = login.aborted
          /\ g.signed = login.signed /\ g.channel = login.channel
      BY <1>2, <1>5, <2>3, <3>1, OverIs
    <3>4. FlowOf(g)'
      BY <1>1, <1>2, <1>3, <2>3, <3>3 DEF FlowOf
    <3>. QED  BY <1>1, <1>2, <2>3, <3>2, <3>3, <3>4, LoginStays
  <2>. QED  BY <2>2, <2>3
<1>8. CASE ~session /\ ready /\ login.aborted
  <2>1. login' = f /\ UNCHANGED managerVars
    BY <1>4, <1>8 DEF OpenTelegram, Continue
  <2>2. FlowOf(f)'
    BY <1>1, <1>2, <1>5, <1>8 DEF FlowOf
  <2>. QED  BY <1>1, <1>2, <1>5, <1>6, <2>1, <2>2, LoginStays
<1>9. CASE ~session /\ ready /\ ~login.aborted
  <2>1. PICK g : g = [login EXCEPT !.work = "sdk", !.client = TRUE]
    OBVIOUS
  <2>2. login' = g /\ UNCHANGED managerVars
    BY <1>9, <2>1 DEF OpenTelegram, Continue
  <2>3. /\ g \in Flow /\ g.work = "sdk" /\ g.state = login.state /\ g.cancel = login.cancel
        /\ g.aborted = login.aborted /\ g.signed = login.signed /\ g.channel = login.channel
        /\ g.gen = login.gen /\ g.qr = login.qr /\ g.client /\ g.unknown = login.unknown
    BY <1>2, <2>1 DEF Flow
  <2>4. FlowOf(g)'
    BY <1>1, <1>2, <1>3, <1>9, <2>3 DEF FlowOf
  <2>5. Open(login)
    BY <1>2, <1>3, <1>9
  <2>. QED  BY <1>1, <1>2, <1>6, <2>2, <2>3, <2>4, <2>5, LoginStays
<1>. QED  BY <1>7, <1>8, <1>9

LEMMA ChallengeKeeps ==
  ASSUME AccountsInv, NEW state \in {"prompt", "qr", "starting"}, Challenge(state),
         UNCHANGED pairingVars, UNCHANGED rest
  PROVE  AccountsInv'
<1>1. /\ login # None /\ login.work = "sdk" /\ ~login.aborted /\ UNCHANGED <<session, sidecar, leaving>>
      /\ UNCHANGED <<pairing, eye, form, shut, failed>> /\ UNCHANGED managerVars
  BY DEF Challenge, pairingVars, rest
<1>2. /\ login \in Flow /\ FlowOf(login) /\ session' \in BOOLEAN
      /\ sidecar' \in [on : BOOLEAN, late : SUBSET Mutations]
      /\ Open(login) <=> login.state \notin Terminal
  BY <1>1, LoginIs
<1>3. PICK f : f = [login EXCEPT !.state = state]
  OBVIOUS
<1>4. /\ f \in Flow /\ f.state = state /\ f.work = "sdk" /\ f.cancel = login.cancel
      /\ f.aborted = login.aborted /\ f.signed = login.signed /\ f.channel = login.channel
      /\ f.gen = login.gen /\ f.qr = login.qr /\ f.client = login.client /\ f.unknown = login.unknown
      /\ login' = f
  BY <1>1, <1>2, <1>3 DEF Flow, Challenge
<1>5. Open(login) /\ state \notin Terminal
  BY <1>1, <1>2 DEF FlowOf, Terminal
<1>6. FlowOf(f)'
  BY <1>1, <1>2, <1>4, <1>5 DEF FlowOf
<1>7. SidecarBusy' => f.channel = "whatsapp" /\ LoginSends(f, sidecar'.late)
  BY <1>1, <1>2, <1>5, LoginAlone DEF SidecarBusy, FlowOf
<1>. QED  BY <1>1, <1>2, <1>4, <1>5, <1>6, <1>7, LoginStays

LEMMA SignInKeeps ==
  ASSUME AccountsInv, NEW ok \in BOOLEAN, SignIn(ok), UNCHANGED pairingVars, UNCHANGED rest
  PROVE  AccountsInv'
<1>1. /\ login # None /\ login.work = "sdk" /\ UNCHANGED <<session, sidecar, leaving>>
      /\ UNCHANGED <<pairing, eye, form, shut, failed>>
  BY DEF SignIn, pairingVars, rest
<1>2. /\ login \in Flow /\ FlowOf(login) /\ session' \in BOOLEAN
      /\ sidecar' \in [on : BOOLEAN, late : SUBSET Mutations]
      /\ Open(login) <=> login.state \notin Terminal
  BY <1>1, LoginIs
<1>3. PICK f : f = [login EXCEPT !.work = "closing", !.signed = ok /\ ~login.aborted]
  OBVIOUS
<1>4. /\ f \in Flow /\ f.work = "closing" /\ f.state = login.state /\ f.cancel = login.cancel
      /\ f.aborted = login.aborted /\ f.channel = login.channel
      /\ f.gen = login.gen /\ f.qr = login.qr /\ f.client = login.client /\ f.unknown = login.unknown
  BY <1>2, <1>3 DEF Flow
<1>5. login' = f /\ UNCHANGED managerVars
  BY <1>3 DEF SignIn, Continue
<1>6. FlowOf(f)' /\ login.channel # "whatsapp"
  BY <1>1, <1>2, <1>4 DEF FlowOf
<1>7. Open(login) => ~SidecarBusy'
  BY <1>1, <1>6, LoginAlone DEF SidecarBusy
<1>. QED  BY <1>1, <1>2, <1>4, <1>5, <1>6, <1>7, LoginStays

LEMMA CloseLoginKeeps ==
  ASSUME AccountsInv, shut # "exited", NEW ok \in BOOLEAN, CloseLogin(ok), UNCHANGED pairingVars, UNCHANGED rest
  PROVE  AccountsInv'
<1>1. /\ login # None /\ login.work = "closing" /\ UNCHANGED <<session, sidecar, leaving>>
      /\ UNCHANGED <<pairing, eye, form, shut, failed>>
  BY DEF CloseLogin, pairingVars, rest
<1>2. /\ login \in Flow /\ FlowOf(login) /\ session' \in BOOLEAN
      /\ sidecar' \in [on : BOOLEAN, late : SUBSET Mutations]
      /\ Open(login) <=> login.state \notin Terminal
  BY <1>1, LoginIs
<1>3. login.channel = "telegram"
  BY <1>1, <1>2 DEF FlowOf, Flow, Channels
<1>4. CASE ok /\ login.signed
  <2>1. PICK f : f = [login EXCEPT !.client = FALSE, !.work = "publishing"]
    OBVIOUS
  <2>2. /\ f \in Flow /\ f.work = "publishing" /\ f.state = login.state /\ f.cancel = login.cancel
        /\ f.aborted = login.aborted /\ f.signed = login.signed /\ f.channel = login.channel
        /\ f.gen = login.gen /\ f.qr = login.qr /\ ~f.client /\ f.unknown = login.unknown
    BY <1>2, <2>1 DEF Flow
  <2>3. login' = f /\ UNCHANGED managerVars
    BY <1>4, <2>1 DEF CloseLogin, Continue
  <2>4. FlowOf(f)'
    BY <1>1, <1>2, <2>2 DEF FlowOf
  <2>5. Open(login) => ~SidecarBusy'
    BY <1>1, <1>3, LoginAlone DEF SidecarBusy
  <2>. QED  BY <1>1, <1>2, <2>2, <2>3, <2>4, <2>5, LoginStays
<1>5. CASE ~(ok /\ login.signed)
  <2>1. PICK client \in BOOLEAN : client = ~ok
    OBVIOUS
  <2>2. WorkEnds([login EXCEPT !.client = client], "failed", ok)
    BY <1>5, <2>1 DEF CloseLogin
  <2>3. client => login.client
    BY <1>1, <1>2 DEF FlowOf
  <2>. QED  BY <1>1, <1>2, <1>3, <2>1, <2>2, <2>3, WorkEndsKeeps
<1>. QED  BY <1>4, <1>5

\* persistSession(): a session file only from a login nobody has given up.
LEMMA PublishSessionKeeps ==
  ASSUME AccountsInv, shut # "exited", NEW clean \in BOOLEAN, PublishSession(clean),
         UNCHANGED pairingVars, UNCHANGED rest
  PROVE  AccountsInv'
<1>1. /\ login # None /\ login.work = "publishing" /\ UNCHANGED <<sidecar, leaving>>
      /\ UNCHANGED <<pairing, eye, form, shut, failed>>
  BY DEF PublishSession, pairingVars, rest
<1>2. login \in Flow /\ FlowOf(login) /\ session \in BOOLEAN
  BY <1>1, LoginIs
<1>3. login.channel = "telegram" /\ ~session /\ ~login.client
  BY <1>1, <1>2 DEF FlowOf, Flow, Channels
<1>4. login = [login EXCEPT !.client = FALSE]
  BY <1>2, <1>3 DEF Flow
<1>5. CASE login.aborted
  <2>1. session' = session /\ WorkEnds([login EXCEPT !.client = FALSE], "failed", clean)
    BY <1>4, <1>5 DEF PublishSession
  <2>. QED  BY <1>1, <1>2, <1>3, <2>1, WorkEndsKeeps
<1>6. CASE ~login.aborted
  <2>1. PICK state \in {"connected", "failed"} : state = IF clean THEN "connected" ELSE "failed"
    OBVIOUS
  <2>2. session' = TRUE /\ WorkEnds([login EXCEPT !.client = FALSE], state, clean)
    BY <1>3, <1>4, <1>6, <2>1 DEF PublishSession
  <2>. QED  BY <1>1, <1>2, <1>3, <1>6, <2>2, WorkEndsKeeps
<1>. QED  BY <1>5, <1>6

\* The client of an open login is one that signs in, closes, or failed to close.
LEMMA ClientWorks ==
  ASSUME AccountsInv, Open(login), login.client
  PROVE  login.work \in {"sdk", "closing"} \/ login.unknown
BY LoginAlone DEF AccountsInv, ClientInv, Kept

LEMMA RefreshQrKeeps ==
  ASSUME AccountsInv, RefreshQr, UNCHANGED pairingVars, UNCHANGED rest
  PROVE  AccountsInv'
<1>1. /\ Open(login) /\ login.channel = "whatsapp" /\ ~login.aborted /\ login.work = "none"
      /\ login.gen < MaxAttempts /\ sidecar' = Send("connect")
      /\ UNCHANGED <<session, leaving, pairing, eye, form, shut, failed>> /\ UNCHANGED managerVars
  BY DEF RefreshQr, Continue, pairingVars, rest
<1>2. /\ login # None /\ login \in Flow /\ FlowOf(login) /\ session' \in BOOLEAN
      /\ sidecar \in [on : BOOLEAN, late : SUBSET Mutations]
  BY <1>1, LoginIs, LoginAlone
<1>3. login.gen + 1 \in 0 .. MaxAttempts /\ 0 \in 0 .. MaxAttempts
  <2>1. login.gen \in 0 .. MaxAttempts /\ MaxAttempts \in Nat
    BY <1>2, FlowAssumption DEF Flow
  <2>. QED  BY <1>1, <2>1
<1>4. PICK f : f = [login EXCEPT !.work = "request", !.gen = @ + 1, !.state = "starting", !.qr = 0]
  OBVIOUS
<1>5. /\ f \in Flow /\ f.work = "request" /\ f.state = "starting" /\ f.qr = 0 /\ f.cancel = login.cancel
      /\ f.aborted = login.aborted /\ f.signed = login.signed /\ f.channel = login.channel
      /\ f.client = login.client /\ f.unknown = login.unknown /\ login' = f
  BY <1>2, <1>3, <1>4 DEF Flow, RefreshQr, Continue
<1>6. FlowOf(f)' /\ ~f.client
  <2>1. login.state \notin Terminal
    BY <1>1 DEF Open
  <2>. QED  BY <1>1, <1>2, <1>5, <2>1 DEF FlowOf, Terminal
<1>7. SidecarBusy' => f.channel = "whatsapp" /\ LoginSends(f, sidecar'.late)
  <2>1. sidecar'.late = sidecar.late \cup {"connect"}
    BY <1>1, <1>2 DEF Send
  <2>. QED  BY <1>1, <1>5, <2>1, LoginAlone DEF SidecarBusy, LoginSends
<1>8. sidecar' \in [on : BOOLEAN, late : SUBSET Mutations]
  BY <1>1, <1>2 DEF Send, Mutations
<1>9. f.state \notin Terminal /\ login.state \notin Terminal
  BY <1>1, <1>5 DEF Open, Terminal
<1>. QED  BY <1>1, <1>2, <1>5, <1>6, <1>7, <1>8, <1>9, LoginStays

\* A poll concerns no state but its own.
LEMMA PollsKeep ==
  ASSUME AccountsInv, login # None, UNCHANGED managerVars,
         UNCHANGED <<session, sidecar, leaving, pairing, eye, form, shut, failed>>,
         NEW polls \in SUBSET (0 .. MaxAttempts), login' = [login EXCEPT !.polls = polls]
  PROVE  AccountsInv'
<1>1. login \in Flow /\ FlowOf(login) /\ session' \in BOOLEAN /\ sidecar' \in [on : BOOLEAN, late : SUBSET Mutations]
  BY LoginIs
<1>2. PICK f : f = [login EXCEPT !.polls = polls]
  OBVIOUS
<1>3. /\ f \in Flow /\ f.work = login.work /\ f.state = login.state /\ f.cancel = login.cancel
      /\ f.aborted = login.aborted /\ f.channel = login.channel /\ f.signed = login.signed
      /\ f.gen = login.gen /\ f.qr = login.qr /\ f.client = login.client /\ f.unknown = login.unknown
  BY <1>1, <1>2 DEF Flow
<1>4. FlowOf(f)'
  BY <1>1, <1>3 DEF FlowOf
<1>5. Open(login) => (SidecarBusy' => f.channel = "whatsapp" /\ LoginSends(f, sidecar'.late))
  BY <1>3, LoginAlone DEF SidecarBusy, LoginSends
<1>. QED  BY <1>1, <1>2, <1>3, <1>4, <1>5, ClientWorks, LoginStays

LEMMA PollKeeps ==
  ASSUME AccountsInv, Poll, UNCHANGED pairingVars, UNCHANGED rest
  PROVE  AccountsInv'
<1>1. /\ Open(login) /\ login' = [login EXCEPT !.polls = @ \cup {login.gen}] /\ UNCHANGED managerVars
      /\ UNCHANGED <<session, sidecar, leaving, pairing, eye, form, shut, failed>>
  BY DEF Poll, Continue, pairingVars, rest
<1>2. login \in Flow
  BY <1>1, LoginAlone
<1>3. PICK polls \in SUBSET (0 .. MaxAttempts) : polls = login.polls \cup {login.gen}
  BY <1>2 DEF Flow
<1>. QED  BY <1>1, <1>2, <1>3, LoginAlone, PollsKeep

\* What a status of the sidecar does to a login that is open.
LEMMA ApplyStatusKeeps ==
  ASSUME AccountsInv, shut # "exited", Open(login), login.channel = "whatsapp", login.work # "giving up",
         UNCHANGED <<session, leaving, pairing, eye, form, shut, failed>>,
         NEW polls \in SUBSET (0 .. MaxAttempts), NEW status \in Statuses,
         ApplyStatus([login EXCEPT !.polls = polls], status, login.gen),
         NEW s, s = sidecar \/ s = Done("connect"), sidecar' = StatusLeaves(s, status),
         s = sidecar => login.work = "none" /\ ~login.aborted
  PROVE  AccountsInv'
<1>1. /\ login # None /\ login \in Flow /\ FlowOf(login) /\ session' \in BOOLEAN
      /\ sidecar \in [on : BOOLEAN, late : SUBSET Mutations] /\ login.state \notin Terminal
  BY LoginIs, LoginAlone
<1>2. PICK flow : flow = [login EXCEPT !.polls = polls]
  OBVIOUS
<1>3. /\ flow \in Flow /\ flow.work = login.work /\ flow.state = login.state /\ flow.cancel = login.cancel
      /\ flow.aborted = login.aborted /\ flow.channel = "whatsapp" /\ flow.signed = login.signed
      /\ flow.gen = login.gen /\ flow.qr = login.qr /\ flow.client = login.client /\ flow.unknown = login.unknown
      /\ ~login.client
  BY <1>1, <1>2 DEF Flow, FlowOf
<1>4. /\ s \in [on : BOOLEAN, late : SUBSET Mutations]
      /\ s.late \subseteq {"disconnect"} /\ ("disconnect" \in s.late => login.aborted)
  <2>1. Done("connect").late = sidecar.late \ {"connect"} /\ Done("connect") \in [on : BOOLEAN, late : SUBSET Mutations]
    BY <1>1 DEF Done
  <2>2. /\ sidecar.late \subseteq {"connect", "disconnect"}
        /\ "disconnect" \in sidecar.late => login.aborted
        /\ login.work = "none" /\ ~login.aborted => "connect" \notin sidecar.late
    BY <1>1, LoginAlone DEF SidecarBusy, LoginSends, FlowOf
  <2>. QED  BY <1>1, <2>1, <2>2
<1>5. PICK f : f = [flow EXCEPT !.work = "none", !.qr = 0]
  OBVIOUS
<1>6. 0 \in 0 .. MaxAttempts /\ login.gen \in 0 .. MaxAttempts
  BY <1>1, AttemptsFit DEF Flow
<1>7. /\ f \in Flow /\ f.work = "none" /\ f.state = login.state /\ f.cancel = login.cancel
      /\ f.aborted = login.aborted /\ f.channel = "whatsapp" /\ f.signed = login.signed
      /\ f.gen = login.gen /\ f.qr = 0 /\ f.client = login.client /\ f.unknown = login.unknown
  BY <1>3, <1>5, <1>6 DEF Flow
<1>8. /\ sidecar' \in [on : BOOLEAN, late : SUBSET Mutations]
      /\ sidecar'.late \subseteq {"disconnect"}
      /\ status # "failure" /\ ~login.aborted => sidecar'.late = {}
      /\ status = "open" => ~sidecar'.on
  BY <1>4 DEF StatusLeaves, Mutations
<1>9. CASE login.aborted
  <2>1. PICK g : g = [flow EXCEPT !.work = "none"]
    OBVIOUS
  <2>2. /\ g \in Flow /\ g.work = "none" /\ g.state = login.state /\ g.cancel = login.cancel
        /\ g.aborted = login.aborted /\ g.channel = "whatsapp" /\ g.signed = login.signed
        /\ g.gen = login.gen /\ g.qr = login.qr /\ ~g.client /\ g.unknown = login.unknown
    BY <1>3, <2>1 DEF Flow
  <2>3. login' = g /\ UNCHANGED managerVars
    BY <1>2, <1>3, <1>9, <2>1 DEF ApplyStatus, Continue
  <2>4. FlowOf(g)'
    BY <1>1, <1>3, <2>2 DEF FlowOf
  <2>. QED  BY <1>1, <1>8, <1>9, <2>2, <2>3, <2>4, LoginStays DEF LoginSends
<1>10. CASE ~login.aborted /\ status \in {"open", "recovery"}
  <2>1. PICK g \in Flow, safe \in BOOLEAN, state \in {"connected", "failed"} :
           /\ FinishLogin(g, state, safe) /\ (safe <=> status = "open")
           /\ g.state = login.state /\ g.channel = login.channel /\ g.signed = login.signed
           /\ g.aborted = login.aborted /\ g.client = login.client /\ g.work = "none"
    <3>1. CASE status = "open"
      <4>1. FinishLogin(f, "connected", TRUE)
        BY <1>2, <1>3, <1>5, <1>10, <3>1 DEF ApplyStatus
      <4>. QED  BY <1>3, <1>7, <3>1, <4>1
    <3>2. CASE status = "recovery"
      <4>1. PICK g : g = [f EXCEPT !.unknown = TRUE]
        OBVIOUS
      <4>2. FinishLogin(g, "failed", FALSE)
        BY <1>2, <1>3, <1>5, <1>10, <3>2, <4>1 DEF ApplyStatus
      <4>3. /\ g \in Flow /\ g.state = login.state /\ g.channel = login.channel /\ g.signed = login.signed
            /\ g.aborted = login.aborted /\ g.client = login.client /\ g.work = "none"
        BY <1>3, <1>7, <4>1 DEF Flow
      <4>. QED  BY <3>2, <4>2, <4>3
    <3>. QED  BY <1>10, <3>1, <3>2
  <2>2. state \in Terminal /\ state # "cancelled"
    BY DEF Terminal
  <2>3. safe => ~login.client /\ ~SidecarBusy'
    BY <1>3, <1>8, <1>10, <2>1 DEF SidecarBusy
  <2>4. g.work \in {"none", login.work} /\ g.work = "none" /\ (state = "cancelled" => login.aborted)
    BY <2>1, <2>2
  <2>5. Open(login) /\ UNCHANGED <<session, leaving, pairing, eye, form, shut, failed>>
        /\ sidecar' \in [on : BOOLEAN, late : SUBSET Mutations]
    BY <1>8
  <2>. QED  BY <2>1, <2>2, <2>3, <2>4, <2>5, FinishLoginKeeps
<1>11. CASE ~login.aborted /\ status \notin {"open", "recovery"}
  <2>1. PICK g \in Flow :
           /\ login' = g /\ UNCHANGED managerVars
           /\ g.state \notin Terminal /\ g.channel = "whatsapp" /\ g.signed = login.signed
           /\ g.aborted = login.aborted /\ ~g.client /\ g.unknown = login.unknown /\ g.cancel = login.cancel
           /\ g.work \in {"none", "giving up"} /\ g.qr \in {0, g.gen}
           /\ status = "failure" => g.work = "giving up"
    <3>1. CASE status = "failure"
      <4>1. PICK g : g = [f EXCEPT !.work = "giving up"]
        OBVIOUS
      <4>2. login' = g /\ UNCHANGED managerVars
        BY <1>2, <1>3, <1>5, <1>11, <3>1, <4>1 DEF ApplyStatus, Continue
      <4>3. /\ g \in Flow /\ g.state = login.state /\ g.channel = "whatsapp" /\ g.signed = login.signed
            /\ g.aborted = login.aborted /\ g.client = login.client /\ g.unknown = login.unknown /\ g.cancel = login.cancel
            /\ g.work = "giving up" /\ g.qr = 0
        BY <1>7, <4>1 DEF Flow
      <4>. QED  BY <1>1, <1>3, <4>2, <4>3
    <3>2. CASE status = "qr"
      <4>1. PICK g : g = [f EXCEPT !.state = "qr", !.qr = login.gen]
        OBVIOUS
      <4>2. login' = g /\ UNCHANGED managerVars
        BY <1>2, <1>3, <1>5, <1>11, <3>2, <4>1 DEF ApplyStatus, Continue
      <4>3. /\ g \in Flow /\ g.state = "qr" /\ g.channel = "whatsapp" /\ g.signed = login.signed
            /\ g.aborted = login.aborted /\ g.client = login.client /\ g.unknown = login.unknown /\ g.cancel = login.cancel
            /\ g.work = "none" /\ g.qr = g.gen
        BY <1>6, <1>7, <4>1 DEF Flow
      <4>. QED  BY <1>3, <3>2, <4>2, <4>3 DEF Terminal
    <3>3. CASE status = "pending"
      <4>1. PICK g : g = [f EXCEPT !.state = "starting"]
        OBVIOUS
      <4>2. login' = g /\ UNCHANGED managerVars
        BY <1>2, <1>3, <1>5, <1>11, <3>3, <4>1 DEF ApplyStatus, Continue
      <4>3. /\ g \in Flow /\ g.state = "starting" /\ g.channel = "whatsapp" /\ g.signed = login.signed
            /\ g.aborted = login.aborted /\ g.client = login.client /\ g.unknown = login.unknown /\ g.cancel = login.cancel
            /\ g.work = "none" /\ g.qr = 0
        BY <1>7, <4>1 DEF Flow
      <4>. QED  BY <1>3, <3>3, <4>2, <4>3 DEF Terminal
    <3>. QED  BY <1>11, <3>1, <3>2, <3>3 DEF Statuses
  <2>2. FlowOf(g)
    BY <1>1, <1>11, <2>1 DEF FlowOf, Terminal
  <2>3. FlowOf(g)'
    BY <2>2, FlowStays
  <2>4. LoginSends(g, sidecar'.late)
    BY <1>8, <1>11, <2>1 DEF LoginSends
  <2>. QED  BY <1>1, <1>8, <2>1, <2>3, <2>4, LoginStays
<1>. QED  BY <1>9, <1>10, <1>11

LEMMA ConnectAnsweredKeeps ==
  ASSUME AccountsInv, shut # "exited", NEW status \in Statuses, ConnectAnswered(status),
         UNCHANGED pairingVars, UNCHANGED rest
  PROVE  AccountsInv'
<1>1. /\ login # None /\ login.work = "request" /\ ApplyStatus(login, status, login.gen)
      /\ sidecar' = StatusLeaves(Done("connect"), status)
      /\ UNCHANGED <<session, leaving, pairing, eye, form, shut, failed>>
  BY DEF ConnectAnswered, pairingVars, rest
<1>2. login \in Flow /\ FlowOf(login)
  BY <1>1, LoginIs
<1>3. Open(login) /\ login.channel = "whatsapp"
  BY <1>1, <1>2 DEF Open, FlowOf, Flow, Channels
<1>4. login = [login EXCEPT !.polls = login.polls] /\ login.polls \in SUBSET (0 .. MaxAttempts)
  BY <1>2 DEF Flow
<1>5. PICK s : s = Done("connect")
  OBVIOUS
<1>6. s # sidecar \/ s = sidecar
  OBVIOUS
<1>7. s = sidecar => login.work = "none" /\ ~login.aborted
  BY <1>1, <1>5, LoginIs DEF Done, ConnectAnswered
<1>. QED  BY <1>1, <1>3, <1>4, <1>5, <1>7, ApplyStatusKeeps

LEMMA PollAnsweredKeeps ==
  ASSUME AccountsInv, shut # "exited", NEW g \in 1 .. MaxAttempts, NEW status \in Statuses \cup {"none"},
         PollAnswered(g, status), UNCHANGED pairingVars, UNCHANGED rest
  PROVE  AccountsInv'
<1>1. login # None /\ UNCHANGED <<session, leaving, pairing, eye, form, shut, failed>>
  BY DEF PollAnswered, pairingVars, rest
<1>2. login \in Flow /\ FlowOf(login) /\ session' \in BOOLEAN /\ sidecar \in [on : BOOLEAN, late : SUBSET Mutations]
  BY <1>1, LoginIs
<1>3. PICK polls \in SUBSET (0 .. MaxAttempts) : polls = login.polls \ {g}
  BY <1>2 DEF Flow
<1>4. PICK flow : flow = [login EXCEPT !.polls = polls]
  OBVIOUS
<1>5. IF ~PollIsCurrent(g) THEN Continue(flow) /\ UNCHANGED sidecar
      ELSE IF status = "none"
      THEN Continue([flow EXCEPT !.state = "starting", !.qr = 0]) /\ UNCHANGED sidecar
      ELSE ApplyStatus(flow, status, g) /\ sidecar' = StatusLeaves(sidecar, status)
  BY <1>2, <1>3, <1>4 DEF PollAnswered, Flow
<1>6. CASE ~PollIsCurrent(g)
  BY <1>1, <1>4, <1>5, <1>6, PollsKeep DEF Continue
<1>7. ASSUME PollIsCurrent(g)
      PROVE  Open(login) /\ ~login.aborted /\ login.work = "none" /\ g = login.gen
  BY <1>7 DEF PollIsCurrent
<1>8. CASE PollIsCurrent(g) /\ status = "none"
  <2>1. PICK f : f = [flow EXCEPT !.state = "starting", !.qr = 0]
    OBVIOUS
  <2>2. login' = f /\ UNCHANGED managerVars /\ UNCHANGED sidecar
    BY <1>5, <1>8, <2>1 DEF Continue
  <2>3. /\ flow \in Flow /\ flow.work = login.work /\ flow.cancel = login.cancel
        /\ flow.aborted = login.aborted /\ flow.channel = login.channel /\ flow.signed = login.signed
        /\ flow.gen = login.gen /\ flow.client = login.client /\ flow.unknown = login.unknown
    BY <1>2, <1>4 DEF Flow
  <2>4. /\ f \in Flow /\ f.work = "none" /\ f.state = "starting" /\ f.cancel = login.cancel
        /\ f.aborted = login.aborted /\ f.channel = login.channel /\ f.signed = login.signed
        /\ f.gen = login.gen /\ f.qr = 0 /\ f.client = login.client /\ f.unknown = login.unknown
    BY <1>7, <1>8, <2>1, <2>3, AttemptsFit DEF Flow
  <2>5. f.state \notin Terminal /\ login.state \notin Terminal
    BY <1>7, <1>8, <2>4 DEF Open, Terminal
  <2>6. FlowOf(f)
    BY <1>2, <1>7, <1>8, <2>4, <2>5 DEF FlowOf, Terminal
  <2>7. FlowOf(f)'
    BY <1>1, <2>6, FlowStays
  <2>8. SidecarBusy' => f.channel = "whatsapp" /\ LoginSends(f, sidecar'.late)
    BY <1>7, <1>8, <2>2, <2>4, LoginAlone DEF SidecarBusy, LoginSends
  <2>. QED  BY <1>1, <1>2, <1>7, <1>8, <2>2, <2>4, <2>5, <2>7, <2>8, ClientWorks, LoginStays
<1>9. CASE PollIsCurrent(g) /\ status # "none"
  <2>1. ApplyStatus(flow, status, login.gen) /\ sidecar' = StatusLeaves(sidecar, status)
    BY <1>5, <1>7, <1>9
  <2>2. CASE login.channel = "whatsapp"
    <3>1. PICK s : s = sidecar
      OBVIOUS
    <3>. QED  BY <1>1, <1>4, <1>7, <1>9, <2>1, <2>2, <3>1, ApplyStatusKeeps
  <2>3. CASE login.channel = "telegram"
    <3>1. login.gen = 0 /\ login.gen = g
      BY <1>2, <1>7, <1>9, <2>3 DEF FlowOf
    <3>. QED  BY <3>1
  <2>. QED  BY <1>2, <2>2, <2>3 DEF Flow, Channels
<1>. QED  BY <1>6, <1>8, <1>9

LEMMA ConnectFailsKeeps ==
  ASSUME AccountsInv, shut # "exited", ConnectFails, UNCHANGED pairingVars, UNCHANGED rest
  PROVE  AccountsInv'
<1>1. /\ login # None /\ login.work = "request" /\ WorkEnds(login, "failed", FALSE)
      /\ UNCHANGED <<session, sidecar, leaving, pairing, eye, form, shut, failed>>
  BY DEF ConnectFails, pairingVars, rest
<1>2. login \in Flow /\ FlowOf(login) /\ session \in BOOLEAN
  BY <1>1, LoginIs
<1>3. ~login.client /\ login = [login EXCEPT !.client = FALSE]
  BY <1>1, <1>2 DEF Flow, FlowOf, Channels
<1>4. WorkEnds([login EXCEPT !.client = FALSE], "failed", FALSE)
  BY <1>1, <1>3
<1>. QED  BY <1>1, <1>2, <1>4, WorkEndsKeeps

LEMMA GaveUpKeeps ==
  ASSUME AccountsInv, shut # "exited", NEW ok \in BOOLEAN, GaveUp(ok), UNCHANGED pairingVars, UNCHANGED rest
  PROVE  AccountsInv'
<1>1. /\ login # None /\ login.work = "giving up" /\ (ok => "disconnect" \in sidecar.late)
      /\ sidecar' = IF ok THEN Done("disconnect") ELSE sidecar
      /\ UNCHANGED <<session, leaving, pairing, eye, form, shut, failed>>
  BY DEF GaveUp, pairingVars, rest
<1>2. /\ login \in Flow /\ FlowOf(login) /\ session' \in BOOLEAN
      /\ sidecar \in [on : BOOLEAN, late : SUBSET Mutations]
      /\ Open(login) <=> login.state \notin Terminal
  BY <1>1, LoginIs
<1>3. Open(login) /\ login.channel = "whatsapp" /\ ~login.client /\ ~login.unknown
  BY <1>1, <1>2 DEF FlowOf, Flow, Channels
<1>4. /\ sidecar' \in [on : BOOLEAN, late : SUBSET Mutations] /\ sidecar'.late \subseteq sidecar.late
      /\ ok => ~sidecar'.on /\ sidecar'.late = sidecar.late \ {"disconnect"}
  BY <1>1, <1>2, DoneIs DEF Mutations
<1>5. sidecar.late \subseteq {"disconnect"}
  BY <1>1, <1>3, LoginAlone DEF SidecarBusy, LoginSends
<1>6. PICK unknown \in BOOLEAN : unknown = IF login.aborted THEN login.unknown ELSE ~ok
  BY <1>2 DEF Flow
<1>7. PICK f : f = [login EXCEPT !.work = "none", !.unknown = unknown]
  OBVIOUS
<1>8. /\ f \in Flow /\ f.work = "none" /\ f.state = login.state /\ f.cancel = login.cancel
      /\ f.aborted = login.aborted /\ f.channel = login.channel /\ f.signed = login.signed
      /\ f.gen = login.gen /\ f.qr = login.qr /\ f.client = login.client /\ f.unknown = unknown
  BY <1>2, <1>7 DEF Flow
<1>9. CASE login.aborted
  <2>1. f = [login EXCEPT !.work = "none"]
    BY <1>2, <1>6, <1>7, <1>9 DEF Flow
  <2>2. login' = f /\ UNCHANGED managerVars
    BY <1>9, <2>1 DEF GaveUp, Continue
  <2>3. FlowOf(f)
    BY <1>2, <1>3, <1>6, <1>8, <1>9 DEF FlowOf
  <2>4. FlowOf(f)'
    BY <1>1, <2>3, FlowStays
  <2>5. LoginSends(f, sidecar'.late)
    BY <1>4, <1>5, <1>8, <1>9 DEF LoginSends
  <2>. QED  BY <1>1, <1>2, <1>3, <1>4, <1>8, <2>2, <2>4, <2>5, LoginStays
<1>10. CASE ~login.aborted
  <2>1. FinishLogin(f, "failed", ok)
    <3>1. f = [[login EXCEPT !.work = "none"] EXCEPT !.unknown = ~ok]
      BY <1>2, <1>6, <1>7, <1>10
    <3>. QED  BY <1>10, <3>1 DEF GaveUp
  <2>2. ok => ~login.client /\ ~SidecarBusy'
    BY <1>3, <1>4, <1>5 DEF SidecarBusy
  <2>3. "failed" \in Terminal /\ "failed" # "cancelled"
    BY DEF Terminal
  <2>4. Open(login) /\ UNCHANGED <<session, leaving, pairing, eye, form, shut, failed>>
        /\ sidecar' \in [on : BOOLEAN, late : SUBSET Mutations]
    BY <1>1, <1>3, <1>4
  <2>5. /\ f \in Flow /\ f.state = login.state /\ f.channel = login.channel /\ f.signed = login.signed
        /\ f.aborted = login.aborted /\ f.client = login.client /\ f.work = "none"
    BY <1>8
  <2>. QED  BY <2>1, <2>2, <2>3, <2>4, <2>5, FinishLoginKeeps
<1>. QED  BY <1>9, <1>10

LEMMA CancelLoginKeeps ==
  ASSUME AccountsInv, CancelLogin, UNCHANGED pairingVars, UNCHANGED rest
  PROVE  AccountsInv'
<1>1. /\ Open(login) /\ login.cancel = "no" /\ UNCHANGED managerVars
      /\ UNCHANGED <<session, sidecar, leaving, pairing, eye, form, shut, failed>>
  BY DEF CancelLogin, Continue, pairingVars, rest
<1>2. /\ login # None /\ login \in Flow /\ FlowOf(login) /\ session' \in BOOLEAN
      /\ sidecar' \in [on : BOOLEAN, late : SUBSET Mutations] /\ login.state \notin Terminal
  BY <1>1, LoginIs, LoginAlone
<1>3. PICK f : f = [login EXCEPT !.cancel = "draining", !.aborted = TRUE, !.qr = 0]
  OBVIOUS
<1>4. /\ f \in Flow /\ f.work = login.work /\ f.state = login.state /\ f.cancel = "draining"
      /\ f.aborted /\ f.channel = login.channel /\ f.signed = login.signed
      /\ f.gen = login.gen /\ f.qr = 0 /\ f.client = login.client /\ f.unknown = login.unknown
      /\ login' = f
  BY <1>2, <1>3, AttemptsFit DEF Flow, CancelLogin, Continue
<1>5. FlowOf(f)
  BY <1>2, <1>4 DEF FlowOf
<1>6. FlowOf(f)'
  BY <1>1, <1>5, FlowStays
<1>7. SidecarBusy' => f.channel = "whatsapp" /\ LoginSends(f, sidecar'.late)
  BY <1>1, <1>4, LoginAlone DEF SidecarBusy, LoginSends
<1>. QED  BY <1>1, <1>2, <1>4, <1>6, <1>7, ClientWorks, LoginStays

LEMMA CancelDrainedKeeps ==
  ASSUME AccountsInv, shut # "exited", CancelDrained, UNCHANGED pairingVars, UNCHANGED rest
  PROVE  AccountsInv'
<1>1. /\ Open(login) /\ login.cancel = "draining" /\ login.work \in {"none", "opening"}
      /\ UNCHANGED <<session, leaving, pairing, eye, form, shut, failed>>
  BY DEF CancelDrained, Drained, pairingVars, rest
<1>2. /\ login # None /\ login \in Flow /\ FlowOf(login) /\ session' \in BOOLEAN
      /\ sidecar \in [on : BOOLEAN, late : SUBSET Mutations] /\ login.state \notin Terminal
  BY <1>1, LoginIs, LoginAlone
<1>3. login.aborted
  BY <1>1, <1>2 DEF FlowOf
<1>4. CASE login.channel = "telegram" \/ login.unknown
  <2>1. PICK safe \in BOOLEAN : safe = ~login.unknown
    OBVIOUS
  <2>2. FinishLogin(login, "cancelled", safe) /\ sidecar' = sidecar
    BY <1>4, <2>1 DEF CancelDrained, Cancelled
  <2>3. safe => ~login.client /\ ~SidecarBusy'
    <3>1. safe => ~login.client
      BY <1>1, <2>1, ClientWorks
    <3>2. SidecarBusy' = SidecarBusy
      BY <2>2 DEF SidecarBusy
    <3>. QED  BY <1>1, <1>4, <2>1, <3>1, <3>2, LoginAlone
  <2>4. "cancelled" \in Terminal
    BY DEF Terminal
  <2>. QED  BY <1>1, <1>2, <1>3, <2>2, <2>3, <2>4, FinishLoginKeeps
<1>5. CASE ~(login.channel = "telegram" \/ login.unknown)
  <2>1. PICK f : f = [login EXCEPT !.cancel = "disconnecting"]
    OBVIOUS
  <2>2. login' = f /\ UNCHANGED managerVars /\ sidecar' = Send("disconnect")
    BY <1>5, <2>1 DEF CancelDrained, Continue
  <2>3. /\ f \in Flow /\ f.work = login.work /\ f.state = login.state /\ f.cancel = "disconnecting"
        /\ f.aborted = login.aborted /\ f.channel = login.channel /\ f.signed = login.signed
        /\ f.gen = login.gen /\ f.qr = login.qr /\ f.client = login.client /\ f.unknown = login.unknown
    BY <1>2, <2>1 DEF Flow
  <2>4. login.channel = "whatsapp" /\ login.work = "none"
    BY <1>1, <1>2, <1>5 DEF Flow, Channels, FlowOf
  <2>5. FlowOf(f)
    BY <1>2, <1>3, <2>3, <2>4 DEF FlowOf
  <2>6. FlowOf(f)'
    BY <1>1, <2>5, FlowStays
  <2>7. sidecar' \in [on : BOOLEAN, late : SUBSET Mutations] /\ sidecar'.late = sidecar.late \cup {"disconnect"}
    BY <1>2, <2>2 DEF Send, Mutations
  <2>8. LoginSends(f, sidecar'.late)
    BY <1>1, <1>3, <1>5, <2>3, <2>4, <2>7, LoginAlone DEF SidecarBusy, LoginSends
  <2>. QED  BY <1>1, <1>2, <2>2, <2>3, <2>4, <2>6, <2>7, <2>8, ClientWorks, LoginStays
<1>. QED  BY <1>4, <1>5

LEMMA CancelTimesOutKeeps ==
  ASSUME AccountsInv, shut # "exited", CancelTimesOut, UNCHANGED pairingVars, UNCHANGED rest
  PROVE  AccountsInv'
<1>1. /\ Open(login) /\ login.cancel = "draining" /\ login.channel = "telegram"
      /\ FinishLogin(login, "cancelled", FALSE)
      /\ UNCHANGED <<session, sidecar, leaving, pairing, eye, form, shut, failed>>
  BY DEF CancelTimesOut, Cancelled, pairingVars, rest
<1>2. /\ login # None /\ login \in Flow /\ FlowOf(login)
      /\ sidecar' \in [on : BOOLEAN, late : SUBSET Mutations]
  BY <1>1, LoginIs, LoginAlone
<1>3. login.aborted /\ login.work \notin {"request", "giving up"} /\ "cancelled" \in Terminal
  BY <1>1, <1>2 DEF FlowOf, Terminal
<1>. QED  BY <1>1, <1>2, <1>3, FinishLoginKeeps

LEMMA CancelDisconnectedKeeps ==
  ASSUME AccountsInv, shut # "exited", NEW ok \in BOOLEAN, CancelDisconnected(ok),
         UNCHANGED pairingVars, UNCHANGED rest
  PROVE  AccountsInv'
<1>1. /\ Open(login) /\ login.cancel = "disconnecting"
      /\ sidecar' = IF ok THEN Done("disconnect") ELSE sidecar
      /\ UNCHANGED <<session, leaving, pairing, eye, form, shut, failed>>
  BY DEF CancelDisconnected, pairingVars, rest
<1>2. /\ login # None /\ login \in Flow /\ FlowOf(login)
      /\ sidecar \in [on : BOOLEAN, late : SUBSET Mutations]
  BY <1>1, LoginIs, LoginAlone
<1>3. login.aborted /\ login.work = "none" /\ ~login.client /\ "cancelled" \in Terminal
  BY <1>1, <1>2 DEF FlowOf, Terminal
<1>4. PICK safe \in BOOLEAN : safe = (ok /\ ~login.unknown)
  OBVIOUS
<1>5. FinishLogin(login, "cancelled", safe)
  BY <1>4 DEF CancelDisconnected, Cancelled
<1>6. /\ sidecar' \in [on : BOOLEAN, late : SUBSET Mutations]
      /\ ok => ~sidecar'.on /\ sidecar'.late = sidecar.late \ {"disconnect"}
  BY <1>1, <1>2, DoneIs DEF Mutations
<1>7. ~login.unknown => sidecar.late \subseteq {"disconnect"}
  BY <1>1, <1>3, LoginAlone DEF SidecarBusy, LoginSends
<1>8. safe => ~login.client /\ ~SidecarBusy'
  BY <1>3, <1>4, <1>6, <1>7 DEF SidecarBusy
<1>9. sidecar' \in [on : BOOLEAN, late : SUBSET Mutations] /\ Open(login) /\ login \in Flow
  BY <1>1, <1>2, <1>6
<1>10. UNCHANGED <<session, leaving, pairing, eye, form, shut, failed>>
  BY <1>1
<1>. QED  BY <1>3, <1>5, <1>8, <1>9, <1>10, FinishLoginKeeps

-----------------------------------------------------------------------------
(* Operations under way, and leases *)

LEMMA EarlierStays ==
  ASSUME settings \in Settings, settings' = settings \/ settings'.revision = settings.revision + 1,
         NEW s \in Settings, Earlier(s)
  PROVE  Earlier(s)'
<1>1. s.revision \in 0 .. MaxRevision /\ settings.revision \in 0 .. MaxRevision
  BY DEF Settings
<1>2. CASE settings' = settings
  BY <1>2 DEF Earlier
<1>3. CASE settings'.revision = settings.revision + 1
  BY <1>1, <1>3, SettingsAssumption DEF Earlier
<1>. QED  BY <1>2, <1>3

LEMMA FinishedIs ==
  ASSUME NEW p \in Pairing, NEW state \in {"completed", "over"}
  PROVE  /\ Finished(p, state) \in Pairing /\ Finished(p, state).state = state
         /\ Finished(p, state).at = "none" /\ Finished(p, state).cand = None
         /\ Finished(p, state).ask = None /\ Finished(p, state).closing = p.closing
         /\ PairingOver(Finished(p, state)) /\ PairParts(Finished(p, state))
<1>1. /\ NoPairing \in Pairing /\ NoPairing.at = "none"
      /\ NoPairing.cand = None /\ NoPairing.ask = None
  BY DEF NoPairing, Pairing
<1>2. PICK q : q = [NoPairing EXCEPT !.state = state, !.closing = p.closing]
  OBVIOUS
<1>3. /\ q \in Pairing /\ q.state = state /\ q.closing = p.closing
      /\ q.at = "none" /\ q.cand = None /\ q.ask = None
  BY <1>1, <1>2 DEF Pairing
<1>. QED  BY <1>2, <1>3 DEF Finished, PairingOver, PairParts

\* While an operation awaits the manager's own work nobody uses the accounts,
\* but the sidecar that signs one out.
LEMMA OperationAlone ==
  ASSUME AccountsInv, op.at \notin {"idle", "leased"}
  PROVE  /\ ~Open(login) /\ leaving = None /\ ~EyeOpen /\ (login # None => ~login.client)
         /\ SidecarBusy => op.at = "unlinking" /\ sidecar.late \subseteq {"unlink"}
         /\ \A c \in Channels : ~PairingOver(pairing[c]) => op.at # "stopping" /\ pairing[c].at = "committing"
<1>1. ~Open(login) /\ leaving = None
  BY DEF AccountsInv, LoginInv
<1>2. ~EyeOpen /\ (login # None => ~login.client)
  BY <1>1 DEF AccountsInv, EyeInv, ClientInv, Kept
<1>3. SidecarBusy => op.at = "unlinking" /\ sidecar.late \subseteq {"unlink"}
  <2>1. "whatsapp" # None
    BY SettingsAssumption DEF Channels
  <2>. QED  BY <1>1, <2>1 DEF AccountsInv, SidecarInv, Kept
<1>4. \A c \in Channels : ~PairingOver(pairing[c]) => op.at # "stopping" /\ pairing[c].at = "committing"
  BY DEF AccountsInv, PairInv, PairOf
<1>. QED  BY <1>1, <1>2, <1>3, <1>4

LEMMA OperationKeeps ==
  ASSUME AccountsInv, shut # "exited", op.at \notin {"idle", "leased"},
         op'.at \notin {"leased", "stopping"}, op'.for \in {op.for, "none"},
         ManagerInv', CommitInv', PairInv',
         UNCHANGED <<closing, closed, eye, leaving, session, shut, failed>>,
         NEW f, login' = f, f = login \/ (login # None /\ f = [login EXCEPT !.state = "failed"]),
         sidecar' \in [on : BOOLEAN, late : SUBSET Mutations],
         op'.at \notin {"idle", "stopping"} /\ op'.for = "login" => op.at # "stopping" /\ op.for = "login",
         SidecarBusy' => \/ op'.at = "unlinking" /\ sidecar'.late \subseteq {"unlink"}
                         \/ Kept' /\ (live' => ~runtime'.bound["whatsapp"].on)
  PROVE  AccountsInv'
<1>1. /\ ~Open(login) /\ leaving = None /\ ~EyeOpen /\ (login # None => ~login.client)
  BY OperationAlone
<1>2. /\ f \in Flow \cup {None} /\ (f = None => login = None) /\ ~Open(f)
      /\ f # None => ~f.client /\ FlowOf(f)
  <2>1. CASE f = login
    BY <1>1, <2>1 DEF AccountsInv, LoginInv, FlowTypeOK
  <2>2. CASE login # None /\ f = [login EXCEPT !.state = "failed"]
    <3>1. login \in Flow /\ FlowOf(login) /\ login.state \in Terminal
      BY <1>1, <2>2, LoginIs
    <3>2. /\ f \in Flow /\ f.work = login.work /\ f.state = "failed" /\ f.cancel = login.cancel
          /\ f.aborted = login.aborted /\ f.channel = login.channel /\ f.signed = login.signed
          /\ f.gen = login.gen /\ f.qr = login.qr /\ f.client = login.client /\ f.unknown = login.unknown
      BY <2>2, <3>1 DEF Flow, Terminal
    <3>3. FlowOf(f)
      BY <3>1, <3>2 DEF FlowOf, Terminal
    <3>. QED  BY <1>1, <2>2, <3>2, <3>3, FlowAssumption DEF Open, Terminal
  <2>. QED  BY <2>1, <2>2
<1>3. f # None => FlowOf(f)'
  BY <1>2, FlowStays
<1>4. Open(login)' = Open(f)
  BY DEF Open
<1>5. LoginInv'
  <2>1. FlowTypeOK'
    BY <1>2 DEF AccountsInv, LoginInv, FlowTypeOK
  <2>2. op'.for = "login" /\ op'.at \notin {"idle", "stopping"} => login' # None
    BY <1>2 DEF AccountsInv, LoginInv
  <2>. QED  BY <1>1, <1>2, <1>3, <1>4, <2>1, <2>2 DEF LoginInv
<1>6. ClientInv' /\ EyeInv'
  BY <1>1, <1>2 DEF ClientInv, EyeInv, EyeOpen
<1>7. SidecarInv'
  BY DEF SidecarInv
<1>8. ShutInv'
  BY DEF AccountsInv, ShutInv
<1>. QED  BY <1>5, <1>6, <1>7, <1>8 DEF AccountsInv

\* A stop that does not end in a lease.
LEMMA StopOver ==
  ASSUME AccountsInv, shut # "exited", NEW ok \in BOOLEAN, StopRuntime(ok), op'.at # "leased",
         UNCHANGED flowVars, UNCHANGED pairingVars, UNCHANGED rest
  PROVE  AccountsInv'
<1>1. ~closed /\ UNCHANGED <<login, session, sidecar, leaving, pairing, eye, form, shut, failed>>
  BY DEF AccountsInv, ShutInv, flowVars, pairingVars, rest
<1>2. /\ ManagerInv' /\ op.at = "stopping" /\ UNCHANGED <<settings, closing, closed>>
      /\ \/ op'.at = "idle" /\ op'.for = "none"
         \/ op.for \notin Leaseholders /\ op'.at = "creating" /\ op'.for = op.for /\ op'.update = op.update
  BY <1>1, StopKeeps DEF AccountsInv
<1>3. ~SidecarBusy' /\ \A c \in Channels : PairingOver(pairing[c])
  BY <1>1, <1>2, OperationAlone DEF SidecarBusy
<1>4. CommitInv'
  BY <1>1, <1>2 DEF AccountsInv, CommitInv, Earlier, Pairs, Leaseholders
<1>5. PairInv'
  BY <1>1, <1>2, <1>3 DEF AccountsInv, PairInv, PairOf, Earlier
<1>6. sidecar' \in [on : BOOLEAN, late : SUBSET Mutations]
  BY <1>1 DEF AccountsInv, LoginInv, FlowTypeOK
<1>. QED  BY <1>1, <1>2, <1>3, <1>4, <1>5, <1>6, OperationKeeps DEF Leaseholders

\* What a caller is told when its operation goes on or is over.
LEMMA ToldKeeps ==
  ASSUME AccountsInv, shut # "exited", op.at \notin {"idle", "leased", "stopping"},
         NEW ok \in BOOLEAN, Told(ok), ManagerInv', UNCHANGED <<closing, closed>>, UNCHANGED <<form, shut, failed>>,
         op'.at \in {"idle", "rollback", "discarding", "retiring", "unlinking"},
         op'.at # "idle" => op'.for = op.for /\ op'.update = op.update,
         op'.at = "idle" => op'.for = "none",
         \/ settings' = settings
         \/ op.at = "creating" /\ settings' = op.update /\ op'.at \in {"idle", "unlinking"},
         op'.at = "discarding" => settings' = settings /\ op.at = "creating",
         sidecar' \in [on : BOOLEAN, late : SUBSET Mutations],
         SidecarBusy' => op'.at = "unlinking" /\ sidecar'.late \subseteq {"unlink"}
  PROVE  AccountsInv'
<1>1. UNCHANGED <<session, leaving, eye, form, shut, failed>>
  BY DEF Told, rest
<1>2. settings' = settings \/ settings'.revision = settings.revision + 1
  BY DEF AccountsInv, ManagerInv, OpInv, Prepared
<1>3. settings \in Settings
  BY DEF AccountsInv, ManagerInv, ManagerTypeOK
<1>4. CommitInv'
  <2>1. PICK s \in Settings : s = form /\ Earlier(s)
    BY DEF AccountsInv, CommitInv
  <2>2. Earlier(s)'
    BY <1>2, <1>3, <2>1, EarlierStays
  <2>. QED  BY <1>1, <2>1, <2>2 DEF AccountsInv, CommitInv, Earlier
<1>5. PICK state \in {"completed", "over"} : state = IF ok THEN "completed" ELSE "over"
  OBVIOUS
<1>6. pairing' = [c \in Channels |->
         IF op.for = Pairs(c) /\ op'.at = "idle" /\ pairing[c].at = "committing"
         THEN Finished(pairing[c], state) ELSE pairing[c]]
  BY <1>5 DEF Told
<1>7. PairInv'
  <2>1. pairing \in [Channels -> Pairing]
    BY DEF AccountsInv, PairInv
  <2>2. ASSUME NEW c \in Channels
        PROVE  pairing'[c] \in Pairing /\ PairOf(c)'
    <3>1. CASE op.for = Pairs(c) /\ op'.at = "idle" /\ pairing[c].at = "committing"
      <4>1. PICK p : p = Finished(pairing[c], state)
        OBVIOUS
      <4>2. p \in Pairing /\ PairingOver(p) /\ PairParts(p)
        BY <2>1, <4>1, FinishedIs
      <4>3. pairing'[c] = p
        BY <1>6, <3>1, <4>1
      <4>. QED  BY <3>1, <4>2, <4>3 DEF PairOf
    <3>2. CASE ~(op.for = Pairs(c) /\ op'.at = "idle" /\ pairing[c].at = "committing")
      <4>1. pairing'[c] = pairing[c]
        BY <1>6, <3>2
      <4>2. PICK p \in Pairing : p = pairing[c]
        BY <2>1
      <4>3. /\ PairParts(p)
            /\ ~PairingOver(p) => /\ op.for = Pairs(c) /\ op'.at # "idle" /\ p.at = "committing"
                                  /\ p.base \in Settings /\ Earlier(p.base)
        BY <3>2, <4>2 DEF AccountsInv, PairInv, PairOf
      <4>4. ~PairingOver(p) => Earlier(p.base)'
        BY <1>2, <1>3, <4>3, EarlierStays
      <4>. QED  BY <4>1, <4>2, <4>3, <4>4 DEF PairOf
    <3>. QED  BY <3>1, <3>2
  <2>3. pairing' \in [Channels -> Pairing]
    BY <1>6, <2>2
  <2>. QED  BY <1>1, <2>2, <2>3 DEF AccountsInv, PairInv
<1>8. PICK f : f = IF op'.at = "idle" /\ ~ok /\ op.for = "login" THEN [login EXCEPT !.state = "failed"] ELSE login
  OBVIOUS
<1>9. login' = f /\ (f = login \/ (login # None /\ f = [login EXCEPT !.state = "failed"]))
  BY <1>8 DEF Told, AccountsInv, LoginInv
<1>. QED  BY <1>1, <1>4, <1>7, <1>9, OperationKeeps

LEMMA StopForUpdateKeeps ==
  ASSUME AccountsInv, shut # "exited", NEW ok \in BOOLEAN, StopForUpdate(ok)
  PROVE  AccountsInv'
<1>1. /\ op.update # None /\ StopRuntime(ok)
      /\ UNCHANGED rest /\ UNCHANGED flowVars /\ UNCHANGED pairingVars
  BY DEF StopForUpdate, Others
<1>2. op.for \notin Leaseholders
  BY <1>1 DEF StopRuntime, AccountsInv, ManagerInv, OpInv
<1>3. op'.at # "leased"
  BY <1>1, <1>2, StopKeeps DEF AccountsInv, ShutInv
<1>. QED  BY <1>1, <1>3, StopOver

LEMMA CandidateStep ==
  ASSUME AccountsInv, shut # "exited", NEW made \in BOOLEAN, NEW saved \in BOOLEAN, Candidate(made, saved)
  PROVE  AccountsInv'
<1>1. PICK ok \in BOOLEAN : ok = (made /\ saved /\ ~closing)
  OBVIOUS
<1>2. /\ CreateCandidate(made, saved) /\ Told(ok) /\ UNCHANGED <<form, shut, failed>>
      /\ sidecar' = IF op'.at = "unlinking" THEN Send("unlink") ELSE sidecar
  BY <1>1 DEF Candidate
<1>3. ~closed /\ sidecar \in [on : BOOLEAN, late : SUBSET Mutations]
  BY DEF AccountsInv, ShutInv, LoginInv, FlowTypeOK
<1>4. /\ ManagerInv' /\ op.at = "creating" /\ UNCHANGED <<closing, closed>>
      /\ \/ op'.at \in {"idle", "rollback", "discarding"} /\ UNCHANGED settings
         \/ /\ settings' = op.update
            /\ op'.at = IF op.for = "unlink" THEN "unlinking" ELSE "idle"
      /\ op'.at # "idle" => op'.for = op.for /\ op'.update = op.update
      /\ op'.at = "idle" => op'.for = "none"
  BY <1>2, <1>3, CandidateKeeps DEF AccountsInv
<1>5. ~sidecar.on /\ sidecar.late = {}
  BY <1>4, OperationAlone DEF SidecarBusy
<1>6. sidecar' \in [on : BOOLEAN, late : SUBSET Mutations]
  BY <1>2, <1>3, SendIs DEF Mutations
<1>7. SidecarBusy' => op'.at = "unlinking" /\ sidecar'.late \subseteq {"unlink"}
  <2>1. CASE op'.at = "unlinking"
    BY <1>2, <1>3, <1>5, <2>1, SendIs DEF Mutations
  <2>2. CASE op'.at # "unlinking"
    BY <1>2, <1>5, <2>2 DEF SidecarBusy
  <2>. QED  BY <2>1, <2>2
<1>. QED  BY <1>2, <1>4, <1>6, <1>7, ToldKeeps

LEMMA ReplaceStep ==
  ASSUME AccountsInv, shut # "exited", NEW ok \in BOOLEAN, Replace(ok)
  PROVE  AccountsInv'
<1>1. PICK told \in BOOLEAN : Told(told)
  BY DEF Replace
<1>2. /\ DiscardCandidate(ok) \/ Restart(ok) \/ Retire(ok)
      /\ UNCHANGED sidecar /\ UNCHANGED <<form, shut, failed>>
  BY DEF Replace, rest
<1>3. ~closed /\ sidecar' \in [on : BOOLEAN, late : SUBSET Mutations]
  BY <1>2 DEF AccountsInv, ShutInv, LoginInv, FlowTypeOK
<1>4. /\ ManagerInv' /\ UNCHANGED <<settings, closing, closed>>
      /\ op.at \in {"discarding", "restoring", "rollback", "retiring"}
      /\ \/ /\ op'.at \in {"rollback", "retiring"}
            /\ op'.for = op.for /\ op'.update = op.update
         \/ op'.at = "idle" /\ op'.for = "none"
  BY <1>2, <1>3, ReplaceKeeps DEF AccountsInv
<1>5. ~SidecarBusy'
  BY <1>2, <1>4, OperationAlone DEF SidecarBusy
<1>. QED  BY <1>1, <1>2, <1>3, <1>4, <1>5, ToldKeeps

LEMMA UnlinkedKeeps ==
  ASSUME AccountsInv, shut # "exited", NEW ok \in BOOLEAN, Unlinked(ok)
  PROVE  AccountsInv'
<1>1. /\ op.at = "unlinking" /\ sidecar' = IF ok THEN Done("unlink") ELSE sidecar
      /\ UNCHANGED <<settings, runtime, live, closing, closed, login, session, leaving,
                     pairing, eye, form, shut, failed>>
  BY DEF Unlinked, pairingVars, rest
<1>2. PICK unknown \in BOOLEAN : unknown = ~ok
  OBVIOUS
<1>3. Finish(unknown)
  BY <1>2 DEF Unlinked
<1>4. ~closed /\ sidecar \in [on : BOOLEAN, late : SUBSET Mutations]
  BY DEF AccountsInv, ShutInv, LoginInv, FlowTypeOK
<1>5. /\ op'.at = "idle" /\ op'.for = "none" /\ busy' = unknown /\ paused' = (paused \/ unknown)
  BY <1>3, <1>4, FinishIs
<1>6. runtime = settings /\ settings \in Settings /\ settings # None /\ live \in BOOLEAN
      /\ ~settings.bound["whatsapp"].on
  BY <1>1, SettingsAssumption DEF AccountsInv, ManagerInv, RunInv, OpInv, ManagerTypeOK
<1>7. ManagerInv'
  BY <1>1, <1>3, <1>4, <1>6, FinishKeeps DEF AccountsInv
<1>8. CommitInv' /\ PairInv'
  BY <1>1, <1>5, OperationAlone DEF AccountsInv, CommitInv, Earlier, PairInv, PairOf, Pairs, OpInv, ManagerInv
<1>9. sidecar' \in [on : BOOLEAN, late : SUBSET Mutations] /\ (ok => ~SidecarBusy')
  <2>1. CASE ok
    <3>1. /\ sidecar' \in [on : BOOLEAN, late : SUBSET Mutations] /\ ~sidecar'.on
          /\ sidecar'.late = sidecar.late \ {"unlink"}
      BY <1>1, <1>4, <2>1, DoneIs DEF Mutations
    <3>2. sidecar.late \subseteq {"unlink"}
      BY <1>1, OperationAlone DEF SidecarBusy
    <3>. QED  BY <3>1, <3>2 DEF SidecarBusy
  <2>2. CASE ~ok
    BY <1>1, <1>4, <2>2
  <2>. QED  BY <2>1, <2>2
<1>10. SidecarBusy' => Kept' /\ (live' => ~runtime'.bound["whatsapp"].on)
  BY <1>1, <1>2, <1>5, <1>6, <1>9 DEF Kept
<1>11. /\ op'.at \notin {"leased", "stopping"} /\ op'.at \in {"idle", "stopping"}
       /\ op'.for \in {op.for, "none"}
  BY <1>5
<1>. QED  BY <1>1, <1>7, <1>8, <1>9, <1>10, <1>11, OperationKeeps

\* A stop that ends in a lease: its holder is the only one near the accounts.
LEMMA LeasedKeeps ==
  ASSUME AccountsInv, shut # "exited", NEW ok \in BOOLEAN, StopRuntime(ok), op'.at = "leased",
         UNCHANGED rest, LoginInv', PairInv', login' # None => ~login'.client,
         EyeOpen' => ~PairingOver(T)',
         SidecarBusy' => \/ Open(login)' /\ login'.channel = "whatsapp" /\ LoginSends(login, sidecar.late)'
                         \/ leaving' = "whatsapp" /\ sidecar'.late \subseteq {"disconnect"}
  PROVE  AccountsInv'
<1>1. ~closed /\ UNCHANGED <<form, shut, failed>>
  BY DEF AccountsInv, ShutInv, rest
<1>2. /\ ManagerInv' /\ op.at = "stopping" /\ UNCHANGED <<settings, closing, closed>>
      /\ op.for \in Leaseholders /\ op'.for = op.for /\ ~live'
  BY <1>1, StopKeeps DEF AccountsInv
<1>3. CommitInv'
  BY <1>1, <1>2 DEF AccountsInv, CommitInv, Earlier
<1>4. ClientInv' /\ EyeInv' /\ SidecarInv'
  BY <1>2 DEF ClientInv, EyeInv, SidecarInv
<1>5. ShutInv'
  BY <1>1, <1>2 DEF AccountsInv, ShutInv
<1>. QED  BY <1>2, <1>3, <1>4, <1>5 DEF AccountsInv

LEMMA LoginLeasedKeeps ==
  ASSUME AccountsInv, shut # "exited", NEW ok \in BOOLEAN, NEW channel \in Channels,
         LoginLeased(ok, channel), UNCHANGED pairingVars, UNCHANGED rest
  PROVE  AccountsInv'
<1>1. op.for = "login" /\ StopRuntime(ok) /\ UNCHANGED <<session, leaving, pairing, eye>>
  BY DEF LoginLeased, pairingVars
<1>2. CASE op'.at # "leased"
  BY <1>1, <1>2, StopOver DEF LoginLeased, flowVars
<1>3. CASE op'.at = "leased"
  <2>1. /\ op.at = "stopping" /\ op'.for = "login" /\ UNCHANGED settings
        /\ sidecar \in [on : BOOLEAN, late : SUBSET Mutations]
    BY <1>1, <1>3, StopKeeps DEF AccountsInv, ShutInv, LoginInv, FlowTypeOK
  <2>2. /\ ~sidecar.on /\ sidecar.late = {} /\ ~EyeOpen /\ leaving = None
        /\ \A c \in Channels : PairingOver(pairing[c])
    BY <2>1, OperationAlone DEF SidecarBusy
  <2>3. PICK work \in {"opening", "request"} : work = IF channel = "telegram" THEN "opening" ELSE "request"
    OBVIOUS
  <2>4. PICK gen \in {0, 1} : gen = IF channel = "telegram" THEN 0 ELSE 1
    OBVIOUS
  <2>5. gen \in 0 .. MaxAttempts /\ 0 \in 0 .. MaxAttempts /\ {} \in SUBSET (0 .. MaxAttempts)
    BY FlowAssumption
  <2>6. PICK f : f = [channel |-> channel, state |-> "starting", cancel |-> "no", work |-> work,
                      aborted |-> FALSE, unknown |-> FALSE, client |-> FALSE, signed |-> FALSE,
                      gen |-> gen, qr |-> 0, polls |-> {}]
    OBVIOUS
  <2>7. login' = f
    BY <1>3, <2>3, <2>4, <2>6 DEF LoginLeased
  <2>8. /\ f.channel = channel /\ f.state = "starting" /\ f.cancel = "no" /\ f.work = work
        /\ ~f.aborted /\ ~f.unknown /\ ~f.client /\ ~f.signed /\ f.gen = gen /\ f.qr = 0
    BY <2>6
  <2>9. f \in Flow
    BY <2>5, <2>6 DEF Flow, Terminal
  <2>10. FlowOf(f) /\ f # None /\ Open(f)
    BY <2>3, <2>4, <2>8, <2>9, FlowAssumption DEF FlowOf, Open, Terminal, Channels
  <2>11. FlowOf(f)'
    BY <1>1, <2>10, FlowStays
  <2>12. sidecar' = IF channel = "telegram" THEN sidecar ELSE Send("connect")
    BY <1>3 DEF LoginLeased
  <2>13. sidecar' \in [on : BOOLEAN, late : SUBSET Mutations]
    BY <2>1, <2>12, SendIs DEF Mutations
  <2>14. LoginInv'
    <3>1. FlowTypeOK'
      BY <1>1, <2>7, <2>9, <2>13 DEF AccountsInv, LoginInv, FlowTypeOK
    <3>2. Open(login)'
      BY <2>7, <2>10 DEF Open
    <3>. QED  BY <1>1, <1>3, <2>1, <2>2, <2>7, <2>10, <2>11, <3>1, <3>2 DEF LoginInv
  <2>15. PairInv'
    BY <1>1, <1>3, <2>1, <2>2 DEF AccountsInv, PairInv, PairOf, Pairs
  <2>16. ~EyeOpen' /\ ~login'.client
    BY <1>1, <2>2, <2>7, <2>8 DEF EyeOpen
  <2>17. CASE channel = "telegram"
    <3>1. ~SidecarBusy'
      BY <2>2, <2>12, <2>17 DEF SidecarBusy
    <3>. QED  BY <1>1, <1>3, <2>14, <2>15, <2>16, <3>1, LeasedKeeps
  <2>18. CASE channel = "whatsapp"
    <3>1. sidecar'.late = {"connect"}
      BY <2>1, <2>2, <2>12, <2>18, SendIs DEF Mutations
    <3>2. login'.work = "request" /\ login'.channel = "whatsapp" /\ Open(login)'
      BY <2>3, <2>7, <2>8, <2>10, <2>18 DEF Open
    <3>3. LoginSends(login, sidecar.late)'
      BY <3>1, <3>2 DEF LoginSends
    <3>. QED  BY <1>1, <1>3, <2>14, <2>15, <2>16, <3>2, <3>3, LeasedKeeps
  <2>. QED  BY <2>17, <2>18 DEF Channels
<1>. QED  BY <1>2, <1>3

LEMMA DisconnectLeasedKeeps ==
  ASSUME AccountsInv, shut # "exited", NEW ok \in BOOLEAN, NEW channel \in Channels,
         DisconnectLeased(ok, channel), UNCHANGED pairingVars, UNCHANGED rest
  PROVE  AccountsInv'
<1>1. op.for = "disconnect" /\ StopRuntime(ok) /\ UNCHANGED <<login, session, pairing, eye>>
  BY DEF DisconnectLeased, pairingVars
<1>2. CASE op'.at # "leased"
  BY <1>1, <1>2, StopOver DEF DisconnectLeased, flowVars
<1>3. CASE op'.at = "leased"
  <2>1. /\ op.at = "stopping" /\ op'.for = "disconnect" /\ UNCHANGED settings
        /\ sidecar \in [on : BOOLEAN, late : SUBSET Mutations]
    BY <1>1, <1>3, StopKeeps DEF AccountsInv, ShutInv, LoginInv, FlowTypeOK
  <2>2. /\ ~sidecar.on /\ sidecar.late = {} /\ ~EyeOpen /\ leaving = None
        /\ \A c \in Channels : PairingOver(pairing[c])
        /\ login # None => ~login.client
        /\ ~Open(login)
    BY <2>1, OperationAlone DEF SidecarBusy
  <2>3. leaving' = channel /\ sidecar' = IF channel = "whatsapp" THEN Send("disconnect") ELSE sidecar
    BY <1>3 DEF DisconnectLeased
  <2>4. /\ sidecar' \in [on : BOOLEAN, late : SUBSET Mutations]
        /\ sidecar'.late \subseteq {"disconnect"}
        /\ channel = "telegram" => ~SidecarBusy'
    <3>1. CASE channel = "whatsapp"
      BY <2>1, <2>2, <2>3, <3>1, SendIs DEF Mutations
    <3>2. CASE channel = "telegram"
      BY <2>1, <2>2, <2>3, <3>2 DEF SidecarBusy
    <3>. QED  BY <3>1, <3>2 DEF Channels
  <2>5. LoginInv'
    <3>1. FlowTypeOK'
      BY <1>1, <2>3, <2>4 DEF AccountsInv, LoginInv, FlowTypeOK
    <3>2. login # None => FlowOf(login)'
      BY <1>1 DEF AccountsInv, LoginInv, FlowOf
    <3>3. channel # None
      BY SettingsAssumption
    <3>. QED  BY <1>1, <1>3, <2>1, <2>2, <2>3, <3>1, <3>2, <3>3 DEF LoginInv, Open
  <2>6. PairInv'
    BY <1>1, <1>3, <2>1, <2>2 DEF AccountsInv, PairInv, PairOf, Pairs
  <2>7. ~EyeOpen' /\ (login' # None => ~login'.client)
    BY <1>1, <2>2 DEF EyeOpen
  <2>8. SidecarBusy' => leaving' = "whatsapp" /\ sidecar'.late \subseteq {"disconnect"}
    BY <2>3, <2>4 DEF Channels
  <2>. QED  BY <1>1, <1>3, <2>5, <2>6, <2>7, <2>8, LeasedKeeps
<1>. QED  BY <1>2, <1>3

\* Nothing is in use, and nobody has a lease, when an operation may begin.
LEMMA IdleAlone ==
  ASSUME AccountsInv, op.at = "idle", ~busy
  PROVE  /\ ~Open(login) /\ leaving = None /\ ~EyeOpen /\ (login # None => ~login.client)
         /\ ~SidecarBusy /\ \A c \in Channels : PairingOver(pairing[c])
<1>1. ~Open(login) /\ leaving = None
  BY DEF AccountsInv, LoginInv
<1>2. ~EyeOpen /\ (login # None => ~login.client)
  BY <1>1 DEF AccountsInv, EyeInv, ClientInv, Kept
<1>3. ~SidecarBusy
  <2>1. "whatsapp" # None
    BY SettingsAssumption DEF Channels
  <2>. QED  BY <1>1, <2>1 DEF AccountsInv, SidecarInv, Kept
<1>4. \A c \in Channels : PairingOver(pairing[c])
  BY DEF AccountsInv, PairInv, PairOf
<1>. QED  BY <1>1, <1>2, <1>3, <1>4

LEMMA ClaimStep ==
  ASSUME AccountsInv, Serving, NEW owner \in Owners, NEW update \in Updates \cup {None}, Claim(owner, update),
         update = None <=> owner \in Leaseholders,
         update # None => /\ Prepared(update)
                          /\ \E c \in Channels : update = Rebound(settings, c, update.bound[c]),
         owner = "unlink" => ~update.bound["whatsapp"].on,
         UNCHANGED flowVars, UNCHANGED pairingVars, UNCHANGED rest
  PROVE  AccountsInv'
<1>1. /\ ManagerInv' /\ op.at = "idle" /\ ~busy /\ ~closing
      /\ op'.at = "stopping" /\ op'.for = owner /\ op'.update = update
  BY ClaimKeeps DEF AccountsInv
<1>2. UNCHANGED <<settings, runtime, live, closing, closed, login, session, sidecar, leaving,
                  pairing, eye, form, shut, failed>>
  BY DEF Claim, flowVars, pairingVars, rest
<1>3. /\ ~Open(login) /\ leaving = None /\ ~EyeOpen /\ (login # None => ~login.client)
      /\ ~SidecarBusy /\ \A c \in Channels : PairingOver(pairing[c])
  BY <1>1, IdleAlone
<1>4. CommitInv'
  BY <1>1, <1>2 DEF AccountsInv, CommitInv, Earlier
<1>5. PairInv'
  BY <1>1, <1>2, <1>3 DEF AccountsInv, PairInv, PairOf
<1>6. LoginInv'
  BY <1>1, <1>2, <1>3 DEF AccountsInv, LoginInv, FlowTypeOK, FlowOf, Open
<1>7. ClientInv' /\ EyeInv' /\ SidecarInv'
  BY <1>2, <1>3 DEF ClientInv, EyeInv, EyeOpen, SidecarInv, SidecarBusy
<1>8. ShutInv'
  BY <1>2 DEF AccountsInv, ShutInv, Serving
<1>. QED  BY <1>1, <1>4, <1>5, <1>6, <1>7, <1>8 DEF AccountsInv

LEMMA SaveFormKeeps ==
  ASSUME AccountsInv, NEW c \in Channels, NEW on \in BOOLEAN, SaveForm(c, on)
  PROVE  AccountsInv'
<1>1. PICK b : b = [form.bound[c] EXCEPT !.on = on]
  OBVIOUS
<1>2. /\ Serving /\ Prepared(Rebound(form, c, b)) /\ Claim("console", Rebound(form, c, b))
      /\ UNCHANGED rest /\ UNCHANGED flowVars /\ UNCHANGED pairingVars
  BY <1>1 DEF SaveForm, Apply, Others
<1>3. form \in Settings /\ Earlier(form) /\ settings \in Settings
  BY DEF AccountsInv, CommitInv, ManagerInv, ManagerTypeOK
<1>4. b \in Binding
  BY <1>1, <1>3 DEF Settings, Binding
<1>5. PICK update \in Updates : update = Rebound(form, c, b) /\ update # None
  BY <1>3, <1>4, ReboundIs
<1>6. update.revision = form.revision + 1 /\ update = Rebound(form, c, update.bound[c])
  BY <1>3, <1>4, <1>5, ReboundIs
<1>7. form = settings
  <2>1. form.revision \in 0 .. MaxRevision /\ settings.revision \in 0 .. MaxRevision
    BY <1>3 DEF Settings
  <2>2. form.revision + 1 = settings.revision + 1
    BY <1>2, <1>5, <1>6 DEF Prepared
  <2>3. form.revision = settings.revision
    BY <2>1, <2>2, SettingsAssumption
  <2>. QED  BY <1>3, <2>3 DEF Earlier
<1>8. "console" \in Owners /\ "console" \notin Leaseholders
  BY DEF Owners, Leaseholders
<1>. QED  BY <1>2, <1>5, <1>6, <1>7, <1>8, ClaimStep

LEMMA SaveTelegramTargetKeeps ==
  ASSUME AccountsInv, NEW peer \in Peers, NEW on \in BOOLEAN, SaveTelegramTarget(peer, on)
  PROVE  AccountsInv'
<1>1. PICK b \in Binding : b = [on |-> on, peer |-> peer]
  BY DEF Binding
<1>2. /\ Serving /\ Prepared(Rebound(settings, "telegram", b)) /\ Claim("console", Rebound(settings, "telegram", b))
      /\ UNCHANGED rest /\ UNCHANGED flowVars /\ UNCHANGED pairingVars
  BY <1>1 DEF SaveTelegramTarget, Apply, Others
<1>3. settings \in Settings /\ "telegram" \in Channels
  BY DEF AccountsInv, ManagerInv, ManagerTypeOK, Channels
<1>4. PICK update \in Updates : update = Rebound(settings, "telegram", b) /\ update # None
  BY <1>3, ReboundIs
<1>5. update = Rebound(settings, "telegram", update.bound["telegram"])
  BY <1>3, <1>4, ReboundIs
<1>6. "console" \in Owners /\ "console" \notin Leaseholders
  BY DEF Owners, Leaseholders
<1>. QED  BY <1>2, <1>3, <1>4, <1>5, <1>6, ClaimStep

LEMMA UnlinkKeeps ==
  ASSUME AccountsInv, Unlink
  PROVE  AccountsInv'
<1>1. PICK b : b = [settings.bound["whatsapp"] EXCEPT !.on = FALSE]
  OBVIOUS
<1>2. /\ Serving /\ Prepared(Rebound(settings, "whatsapp", b)) /\ Claim("unlink", Rebound(settings, "whatsapp", b))
      /\ UNCHANGED rest /\ UNCHANGED flowVars /\ UNCHANGED pairingVars
  BY <1>1 DEF Unlink, Apply, Others
<1>3. settings \in Settings /\ "whatsapp" \in Channels
  BY DEF AccountsInv, ManagerInv, ManagerTypeOK, Channels
<1>4. b \in Binding /\ ~b.on
  BY <1>1, <1>3 DEF Settings, Binding
<1>5. PICK update \in Updates : update = Rebound(settings, "whatsapp", b) /\ update # None
  BY <1>3, <1>4, ReboundIs
<1>6. update = Rebound(settings, "whatsapp", update.bound["whatsapp"]) /\ update.bound["whatsapp"] = b
  BY <1>3, <1>4, <1>5, ReboundIs
<1>7. "unlink" \in Owners /\ "unlink" \notin Leaseholders
  BY DEF Owners, Leaseholders
<1>. QED  BY <1>2, <1>3, <1>4, <1>5, <1>6, <1>7, ClaimStep

LEMMA StartFlowKeeps ==
  ASSUME AccountsInv, StartFlow
  PROVE  AccountsInv'
<1>1. PICK owner \in Leaseholders :
        Claim(owner, None) /\ UNCHANGED flowVars /\ UNCHANGED pairingVars /\ UNCHANGED rest
  BY DEF StartFlow, BeginLogin, BeginDisconnect, BeginPairing, Acquire, Pairs, Leaseholders
<1>2. owner \in Owners /\ owner # "unlink" /\ Serving
  BY DEF Owners, Leaseholders, StartFlow
<1>. QED  BY <1>1, <1>2, ClaimStep

\* What the parts of the invariant are about, unchanged, leaves them.
LEMMA LoginStands ==
  ASSUME LoginInv, UNCHANGED <<login, session, leaving, op>>,
         sidecar' \in [on : BOOLEAN, late : SUBSET Mutations]
  PROVE  LoginInv'
<1>1. FlowTypeOK'
  BY DEF LoginInv, FlowTypeOK
<1>2. login # None => FlowOf(login)'
  BY FlowStays DEF LoginInv
<1>. QED  BY <1>1, <1>2 DEF LoginInv, FlowOf, Open

LEMMA SidecarStands ==
  ASSUME SidecarInv, UNCHANGED <<sidecar, login, leaving, pairing, op>>, Kept => Kept',
         (live => ~runtime.bound["whatsapp"].on) => (live' => ~runtime'.bound["whatsapp"].on)
  PROVE  SidecarInv'
<1>1. (~PairingOver(W))' = ~PairingOver(W) /\ PairSends(W, sidecar.late)' = PairSends(W, sidecar.late)
  BY DEF W, PairSends
<1>2. LoginSends(login, sidecar.late)' = LoginSends(login, sidecar.late) /\ Open(login)' = Open(login)
  BY DEF LoginSends, Open
<1>. QED  BY <1>1, <1>2 DEF SidecarInv, SidecarBusy

\* A step near none of the accounts.
LEMMA Unmoved ==
  ASSUME AccountsInv, UNCHANGED managerVars, UNCHANGED flowVars, UNCHANGED pairingVars
  PROVE  ManagerInv' /\ PairInv' /\ LoginInv' /\ ClientInv' /\ EyeInv' /\ SidecarInv'
<1>1. UNCHANGED <<settings, paused, busy, runtime, live, op, closing, closed,
                  login, session, sidecar, leaving, pairing, eye>>
  BY DEF managerVars, flowVars, pairingVars
<1>2. ManagerInv'
  BY <1>1 DEF AccountsInv, ManagerInv, ManagerTypeOK, OpInv, Prepared, RunInv
<1>3. PairInv'
  BY <1>1 DEF AccountsInv, PairInv, PairOf, Earlier
<1>4. LoginInv'
  <2>1. sidecar \in [on : BOOLEAN, late : SUBSET Mutations]
    BY DEF AccountsInv, LoginInv, FlowTypeOK
  <2>. QED  BY <1>1, <2>1, LoginStands DEF AccountsInv
<1>5. ClientInv' /\ EyeInv'
  BY <1>1 DEF AccountsInv, ClientInv, EyeInv, EyeOpen, Kept, Open, T
<1>6. SidecarInv'
  BY <1>1, SidecarStands DEF AccountsInv, Kept
<1>. QED  BY <1>2, <1>3, <1>4, <1>5, <1>6

LEMMA ReadFormKeeps ==
  ASSUME AccountsInv, ReadForm
  PROVE  AccountsInv'
<1>1. /\ form' = settings /\ UNCHANGED <<shut, failed>> /\ UNCHANGED managerVars
      /\ UNCHANGED flowVars /\ UNCHANGED pairingVars
  BY DEF ReadForm, Others
<1>2. UNCHANGED <<settings, op, pairing, login, leaving, live, paused, closing, closed>>
  BY <1>1 DEF managerVars, flowVars, pairingVars
<1>3. CommitInv'
  <2>1. settings.revision \in 0 .. MaxRevision /\ settings \in Settings
    BY DEF AccountsInv, ManagerInv, ManagerTypeOK, Settings
  <2>2. settings.revision <= settings.revision
    BY <2>1, SettingsAssumption
  <2>. QED  BY <1>1, <1>2, <2>1, <2>2 DEF AccountsInv, CommitInv, Earlier
<1>4. ShutInv'
  BY <1>1, <1>2 DEF AccountsInv, ShutInv, T, W, Open
<1>. QED  BY <1>1, <1>3, <1>4, Unmoved DEF AccountsInv

LEMMA LateEffectKeeps ==
  ASSUME AccountsInv, LateEffect
  PROVE  AccountsInv'
<1>1. /\ UNCHANGED <<login, session, leaving, pairing, eye, form, shut, failed>>
      /\ UNCHANGED <<settings, paused, busy, runtime, live, op, closing, closed>>
  BY DEF LateEffect, managerVars, pairingVars, rest
<1>2. PICK m \in sidecar.late : sidecar' = Done(m)
  BY DEF LateEffect
<1>3. sidecar \in [on : BOOLEAN, late : SUBSET Mutations]
  BY DEF AccountsInv, LoginInv, FlowTypeOK
<1>4. /\ sidecar' \in [on : BOOLEAN, late : SUBSET Mutations] /\ sidecar'.late \subseteq sidecar.late
      /\ SidecarBusy
  BY <1>2, <1>3, DoneIs DEF SidecarBusy
<1>5. ManagerInv'
  BY <1>1 DEF AccountsInv, ManagerInv, ManagerTypeOK, OpInv, Prepared, RunInv
<1>6. CommitInv' /\ PairInv'
  BY <1>1 DEF AccountsInv, CommitInv, PairInv, PairOf, Earlier
<1>7. LoginInv'
  BY <1>1, <1>4, LoginStands DEF AccountsInv
<1>8. ClientInv' /\ EyeInv'
  BY <1>1 DEF AccountsInv, ClientInv, EyeInv, EyeOpen, Kept, Open, T
<1>9. SidecarInv'
  BY <1>1, <1>4 DEF AccountsInv, SidecarInv, Kept, Open, W, LoginSends, PairSends
<1>10. ShutInv'
  BY <1>1 DEF AccountsInv, ShutInv, T, W, Open
<1>. QED  BY <1>5, <1>6, <1>7, <1>8, <1>9, <1>10 DEF AccountsInv

\* A lease is given back: what a holder calls safe is out of use.
LEMMA ReleasedKeeps ==
  ASSUME AccountsInv, shut # "exited", NEW safe \in BOOLEAN, NEW valid \in BOOLEAN,
         NEW update \in Updates \cup {None}, Release(safe, update, valid),
         op.for \in {"login", "disconnect"} => update = None,
         UNCHANGED rest, CommitInv', PairInv', LoginInv',
         ~Open(login)', leaving' = None,
         login' # None /\ login'.client => ~safe /\ ~EyeOpen',
         safe => ~EyeOpen' /\ ~SidecarBusy',
         \A c \in Channels : PairingOver(pairing[c]) => PairingOver(pairing[c])'
  PROVE  AccountsInv'
<1>1. ~closed /\ UNCHANGED <<form, shut, failed>>
  BY DEF AccountsInv, ShutInv, rest
<1>2. /\ ManagerInv' /\ op.at = "leased" /\ UNCHANGED <<settings, closing, closed>>
      /\ \/ /\ ~safe \/ closing
            /\ op'.at = "idle" /\ op'.for = "none" /\ ~live' /\ (~safe => busy' /\ paused')
         \/ safe /\ ~closing
  BY <1>1, ReleaseKeeps DEF AccountsInv
<1>3. ClientInv' /\ EyeInv'
  BY <1>2 DEF ClientInv, EyeInv, Kept
<1>4. SidecarInv'
  BY <1>2 DEF SidecarInv, Kept
<1>5. ShutInv'
  <2>1. (PairingOver(T) => PairingOver(T)') /\ (PairingOver(W) => PairingOver(W)')
    BY DEF T, W, Channels
  <2>. QED  BY <1>1, <1>2, <2>1 DEF AccountsInv, ShutInv
<1>. QED  BY <1>2, <1>3, <1>4, <1>5 DEF AccountsInv

LEMMA DisconnectEndsKeeps ==
  ASSUME AccountsInv, shut # "exited", NEW ok \in BOOLEAN, Disconnect(ok)
  PROVE  AccountsInv'
<1>1. /\ leaving # None /\ leaving' = None /\ UNCHANGED <<login, pairing, eye, form, shut, failed>>
      /\ sidecar' = IF ok /\ leaving = "whatsapp" THEN Done("disconnect") ELSE sidecar
      /\ session' = IF ok /\ leaving = "telegram" THEN FALSE ELSE session
      /\ UNCHANGED rest
  BY DEF Disconnect, DisconnectEnds, pairingVars, rest
<1>2. /\ op.for = "disconnect" /\ op.at = "leased" /\ leaving \in Channels
      /\ sidecar \in [on : BOOLEAN, late : SUBSET Mutations] /\ session \in BOOLEAN
  BY <1>1 DEF AccountsInv, LoginInv, FlowTypeOK
<1>3. Release(ok, None, TRUE)
  BY <1>2 DEF Disconnect, DisconnectEnds
<1>4. /\ UNCHANGED settings /\ op'.at \in {"idle", "creating", "restoring", "rollback"}
      /\ op'.at \in {"creating", "restoring", "rollback"} => op'.for = "disconnect"
      /\ op'.at # "creating"
  BY <1>2, <1>3, ReleaseKeeps DEF AccountsInv, ShutInv
<1>5. ~Open(login) /\ \A c \in Channels : PairingOver(pairing[c])
  BY <1>2 DEF AccountsInv, LoginInv, PairInv, PairOf, Pairs
<1>6. ~live /\ ~EyeOpen /\ (login # None => ~login.client)
  <2>1. PairingOver(T)
    BY <1>5 DEF T, Channels
  <2>. QED  BY <1>2, <1>5, <2>1 DEF AccountsInv, ManagerInv, RunInv, EyeInv, ClientInv, Kept
<1>7. SidecarBusy => leaving = "whatsapp" /\ sidecar.late \subseteq {"disconnect"}
  <2>1. PairingOver(W)
    BY <1>5 DEF W, Channels
  <2>. QED  BY <1>2, <1>5, <2>1 DEF AccountsInv, SidecarInv, Kept
<1>8. sidecar' \in [on : BOOLEAN, late : SUBSET Mutations] /\ (ok => ~SidecarBusy')
  <2>1. CASE ok /\ leaving = "whatsapp"
    <3>1. /\ sidecar' \in [on : BOOLEAN, late : SUBSET Mutations] /\ ~sidecar'.on
          /\ sidecar'.late = sidecar.late \ {"disconnect"}
      BY <1>1, <1>2, <2>1, DoneIs DEF Mutations
    <3>2. sidecar.late \subseteq {"disconnect"}
      BY <1>7 DEF SidecarBusy
    <3>. QED  BY <3>1, <3>2 DEF SidecarBusy
  <2>2. CASE ~(ok /\ leaving = "whatsapp")
    <3>1. sidecar' = sidecar
      BY <1>1, <2>2
    <3>. QED  BY <1>2, <1>7, <2>2, <3>1 DEF SidecarBusy
  <2>. QED  BY <2>1, <2>2
<1>9. CommitInv'
  BY <1>1, <1>4 DEF AccountsInv, CommitInv, Earlier
<1>10. PairInv'
  BY <1>1, <1>4, <1>5 DEF AccountsInv, PairInv, PairOf
<1>11. LoginInv'
  <2>1. FlowTypeOK'
    BY <1>1, <1>2, <1>8 DEF AccountsInv, LoginInv, FlowTypeOK
  <2>2. session' => session
    BY <1>1
  <2>3. login # None => FlowOf(login)'
    BY <1>1, <2>2 DEF AccountsInv, LoginInv, FlowOf
  <2>4. ~Open(login)'
    BY <1>1, <1>5 DEF Open
  <2>5. op'.at # "leased" /\ (op'.for = "login" => op'.at = "idle")
    BY <1>4
  <2>. QED  BY <1>1, <2>1, <2>3, <2>4, <2>5 DEF LoginInv
<1>12. ~Open(login)' /\ ~EyeOpen' /\ (login' # None => ~login'.client)
  BY <1>1, <1>5, <1>6 DEF Open, EyeOpen
<1>13. \A c \in Channels : PairingOver(pairing[c]) => PairingOver(pairing[c])'
  BY <1>1 DEF PairingOver
<1>. QED  BY <1>1, <1>3, <1>8, <1>9, <1>10, <1>11, <1>12, <1>13, ReleasedKeeps

-----------------------------------------------------------------------------
(* Pairings *)

\* Who has the lease while a pairing is under way.
LEMMA PairAlone ==
  ASSUME AccountsInv, NEW c \in Channels, ~PairingOver(pairing[c])
  PROVE  /\ pairing[c] \in Pairing /\ PairParts(pairing[c]) /\ op.for = Pairs(c)
         /\ op.at \notin {"idle", "stopping"} /\ (op.at = "leased" \/ pairing[c].at = "committing")
         /\ pairing[c].base \in Settings /\ Earlier(pairing[c].base)
         /\ ~Open(login) /\ leaving = None /\ (login # None => ~login.client)
         /\ \A d \in Channels : d # c => PairingOver(pairing[d])
         /\ op.at # "leased" => ~EyeOpen /\ ~SidecarBusy
         /\ op.at = "leased" => ~live
         /\ c = "whatsapp" => ~EyeOpen /\ (SidecarBusy => PairSends(W, sidecar.late))
         /\ c = "telegram" => ~SidecarBusy
<1>1. /\ pairing[c] \in Pairing /\ PairParts(pairing[c]) /\ op.for = Pairs(c)
      /\ op.at \notin {"idle", "stopping"} /\ (op.at = "leased" \/ pairing[c].at = "committing")
      /\ pairing[c].base \in Settings /\ Earlier(pairing[c].base)
  BY DEF AccountsInv, PairInv, PairOf
<1>2. op.for \notin {"login", "disconnect", "unlink"}
  BY <1>1 DEF Pairs
<1>3. ~Open(login) /\ leaving = None
  BY <1>2 DEF AccountsInv, LoginInv
<1>4. login # None => ~login.client
  BY <1>1, <1>3 DEF AccountsInv, ClientInv, Kept
<1>5. \A d \in Channels : d # c => PairingOver(pairing[d])
  BY <1>1 DEF AccountsInv, PairInv, PairOf, Pairs, Channels
<1>6. op.at # "unlinking"
  BY <1>2 DEF AccountsInv, ManagerInv, OpInv
<1>7. op.at # "leased" => ~EyeOpen /\ ~SidecarBusy
  BY <1>1, <1>6, OperationAlone
<1>8. op.at = "leased" => ~live
  BY DEF AccountsInv, ManagerInv, RunInv
<1>9. "whatsapp" # None
  BY SettingsAssumption DEF Channels
<1>10. c = "whatsapp" => ~EyeOpen /\ (SidecarBusy => PairSends(W, sidecar.late))
  <2>1. c = "whatsapp" => PairingOver(T)
    BY <1>5 DEF T, Channels
  <2>. QED  BY <1>1, <1>3, <1>6, <1>9, <2>1 DEF AccountsInv, EyeInv, SidecarInv, Kept
<1>11. c = "telegram" => ~SidecarBusy
  <2>1. c = "telegram" => PairingOver(W)
    BY <1>5 DEF W, Channels
  <2>. QED  BY <1>1, <1>3, <1>6, <1>9, <2>1 DEF AccountsInv, SidecarInv, Kept
<1>. QED  BY <1>1, <1>3, <1>4, <1>5, <1>7, <1>8, <1>10, <1>11

Eyes == [client : BOOLEAN, late : BOOLEAN, chosen : Peers \cup {None}, aborted : BOOLEAN, failed : BOOLEAN]

\* A step of a pairing that goes on.
LEMMA PairStays ==
  ASSUME AccountsInv, NEW c \in Channels, ~PairingOver(pairing[c]),
         NEW p \in Pairing, pairing' = [pairing EXCEPT ![c] = p], PairParts(p), ~PairingOver(p),
         p.base = pairing[c].base,
         op.at = "leased" \/ (p.at = pairing[c].at /\ p.ask = pairing[c].ask),
         Held, UNCHANGED rest,
         eye' \in Eyes, eye'.chosen = None \/ eye'.chosen # Own, EyeOpen' => EyeOpen \/ (c = "telegram" /\ op.at = "leased"),
         sidecar' \in [on : BOOLEAN, late : SUBSET Mutations],
         SidecarBusy' => \/ op.at = "leased" /\ c = "whatsapp" /\ PairSends(p, sidecar'.late)
                         \/ sidecar' = sidecar /\ p.at = pairing[c].at
  PROVE  AccountsInv'
<1>1. UNCHANGED <<settings, paused, busy, runtime, live, op, closing, closed, login, session, leaving,
                  form, shut, failed>>
  BY DEF Held, managerVars, rest
<1>2. /\ op.for = Pairs(c) /\ op.at \notin {"idle", "stopping"}
      /\ op.at = "leased" \/ pairing[c].at = "committing"
      /\ pairing[c].base \in Settings /\ Earlier(pairing[c].base)
      /\ ~Open(login) /\ leaving = None /\ (login # None => ~login.client)
      /\ \A d \in Channels : d # c => PairingOver(pairing[d])
      /\ op.at # "leased" => ~EyeOpen /\ ~SidecarBusy
      /\ op.at = "leased" => ~live
      /\ c = "whatsapp" => ~EyeOpen /\ (SidecarBusy => PairSends(W, sidecar.late))
      /\ c = "telegram" => ~SidecarBusy
  BY PairAlone
<1>3. /\ pairing \in [Channels -> Pairing] /\ pairing' \in [Channels -> Pairing]
      /\ pairing'[c] = p /\ \A d \in Channels : d # c => pairing'[d] = pairing[d]
  BY DEF AccountsInv, PairInv
<1>4. ManagerInv'
  BY <1>1 DEF AccountsInv, ManagerInv, ManagerTypeOK, OpInv, Prepared, RunInv
<1>5. CommitInv'
  <2>1. \A d \in Channels : op'.for = Pairs(d) /\ op'.at = "creating" =>
           /\ op'.update.bound[d].peer = pairing'[d].ask.peer
           /\ op'.update.bound[d].peer # Own
    BY <1>1, <1>3 DEF AccountsInv, CommitInv
  <2>. QED  BY <1>1, <2>1 DEF AccountsInv, CommitInv, Earlier
<1>6. PairInv'
  <2>1. PairOf(c)'
    <3>1. p.base \in Settings /\ Earlier(p.base)'
      BY <1>1, <1>2 DEF Earlier
    <3>. QED  BY <1>1, <1>2, <1>3, <3>1 DEF PairOf
  <2>2. ASSUME NEW d \in Channels, d # c
        PROVE  PairOf(d)'
    <3>1. PairingOver(pairing'[d]) /\ PairParts(pairing'[d])
      BY <1>2, <1>3, <2>2 DEF AccountsInv, PairInv, PairOf
    <3>2. op.for # Pairs(d)
      BY <1>2, <2>2 DEF Pairs, Channels
    <3>. QED  BY <1>1, <3>1, <3>2 DEF PairOf
  <2>. QED  BY <1>3, <2>1, <2>2 DEF PairInv, Eyes
<1>7. LoginInv'
  <2>1. /\ UNCHANGED <<login, session, leaving, op>> /\ sidecar' \in [on : BOOLEAN, late : SUBSET Mutations]
        /\ LoginInv
    BY <1>1 DEF AccountsInv
  <2>. QED  BY <2>1, LoginStands
<1>8. ClientInv'
  BY <1>1, <1>2 DEF ClientInv
<1>9. EyeInv'
  <2>1. c = "telegram" => ~PairingOver(T)'
    BY <1>3 DEF T
  <2>. QED  BY <1>1, <1>2, <2>1 DEF EyeInv, Channels
<1>10. SidecarInv'
  <2>1. c = "whatsapp" => W' = p
    BY <1>3 DEF W
  <2>2. PairSends(W, sidecar.late) /\ c = "whatsapp" /\ p.at = pairing[c].at => PairSends(p, sidecar.late)
    BY DEF PairSends, W
  <2>3. sidecar' = sidecar => SidecarBusy' = SidecarBusy
    BY DEF SidecarBusy
  <2>4. SidecarBusy' => op.at = "leased" /\ c = "whatsapp" /\ PairSends(p, sidecar'.late)
    BY <1>2, <2>2, <2>3 DEF Channels
  <2>. QED  BY <1>1, <2>1, <2>4 DEF SidecarInv
<1>11. ShutInv'
  <2>1. (PairingOver(T) => PairingOver(T)') /\ (PairingOver(W) => PairingOver(W)')
    BY <1>3 DEF T, W, Channels
  <2>. QED  BY <1>1, <2>1 DEF AccountsInv, ShutInv, Open
<1>. QED  BY <1>4, <1>5, <1>6, <1>7, <1>8, <1>9, <1>10, <1>11 DEF AccountsInv

\* The end of a pairing: it is over, or the manager commits what it has found.
LEMMA PairReleases ==
  ASSUME AccountsInv, shut # "exited", NEW c \in Channels, ~PairingOver(pairing[c]), op.at = "leased",
         NEW p, pairing' = [pairing EXCEPT ![c] = p],
         NEW safe \in BOOLEAN, NEW valid \in BOOLEAN, NEW update \in Updates \cup {None},
         Release(safe, update, valid),
         UNCHANGED <<login, session, leaving>>, UNCHANGED rest,
         eye' \in Eyes, eye'.chosen = None \/ eye'.chosen # Own,
         sidecar' \in [on : BOOLEAN, late : SUBSET Mutations],
         safe => ~EyeOpen' /\ ~SidecarBusy',
         \/ p = Finished(pairing[c], "over") /\ update = None
         \/ /\ p = pairing[c] /\ p.at = "committing" /\ safe /\ ~closing
            /\ \E base \in Settings : /\ Earlier(base)
                                      /\ update = Rebound(base, c, [on |-> TRUE, peer |-> p.cand.peer])
  PROVE  AccountsInv'
<1>1. UNCHANGED <<login, session, leaving, form, shut, failed>> /\ ~closed
  BY DEF rest, AccountsInv, ShutInv
<1>2. /\ pairing[c] \in Pairing /\ PairParts(pairing[c]) /\ op.for = Pairs(c)
      /\ pairing[c].base \in Settings /\ Earlier(pairing[c].base)
      /\ ~Open(login) /\ leaving = None /\ (login # None => ~login.client)
      /\ \A d \in Channels : d # c => PairingOver(pairing[d])
  BY PairAlone
<1>3. op.for \notin {"login", "disconnect"}
  BY <1>2 DEF Pairs
<1>4. /\ ManagerInv' /\ UNCHANGED <<settings, closing, closed>>
      /\ \/ /\ ~safe \/ closing
            /\ op'.at = "idle" /\ op'.for = "none"
         \/ /\ safe /\ ~closing /\ op'.for = op.for /\ op'.update = update
            /\ op'.at \in {"creating", "restoring", "rollback"}
            /\ op'.at = "creating" => update # None
  BY <1>1, <1>3, ReleaseKeeps DEF AccountsInv
<1>5. /\ pairing \in [Channels -> Pairing] /\ p \in Pairing /\ PairParts(p)
  BY <1>2, FinishedIs DEF AccountsInv, PairInv
<1>6. /\ pairing' \in [Channels -> Pairing]
      /\ pairing'[c] = p /\ \A d \in Channels : d # c => pairing'[d] = pairing[d]
  BY <1>5
<1>7. ~PairingOver(p) => /\ p = pairing[c] /\ p.at = "committing" /\ safe /\ ~closing
                         /\ \E base \in Settings : /\ Earlier(base)
                                                   /\ update = Rebound(base, c, [on |-> TRUE, peer |-> p.cand.peer])
  BY <1>2, FinishedIs
<1>8. PairInv'
  <2>1. PairOf(c)'
    BY <1>1, <1>2, <1>4, <1>5, <1>6, <1>7 DEF PairOf, Earlier
  <2>2. ASSUME NEW d \in Channels, d # c
        PROVE  PairOf(d)'
    <3>1. PairingOver(pairing'[d]) /\ PairParts(pairing'[d])
      BY <1>2, <1>6, <2>2 DEF AccountsInv, PairInv, PairOf
    <3>2. op'.at # "leased"
      BY <1>4
    <3>. QED  BY <3>1, <3>2 DEF PairOf
  <2>. QED  BY <1>6, <2>1, <2>2 DEF PairInv, Eyes
<1>9. CommitInv'
  <2>1. form' \in Settings /\ Earlier(form)'
    BY <1>1, <1>4 DEF AccountsInv, CommitInv, Earlier
  <2>2. CASE op'.at # "creating"
    <3>1. op'.at \notin {"stopping", "creating", "discarding"}
      BY <1>4, <2>2
    <3>. QED  BY <2>1, <3>1 DEF CommitInv
  <2>3. CASE op'.at = "creating"
    <3>1. update # None /\ op'.update = update /\ op'.for = Pairs(c)
      BY <1>2, <1>4, <2>3
    <3>2. p = pairing[c] /\ p.at = "committing"
      BY <3>1
    <3>3. PICK base \in Settings : /\ Earlier(base)
                                   /\ update = Rebound(base, c, [on |-> TRUE, peer |-> p.cand.peer])
      BY <3>1
    <3>4. p.ask = p.cand /\ p.cand # None /\ p.cand.peer # Own /\ p.cand \in Candidates
      BY <1>5, <3>2 DEF PairParts, Pairing
    <3>5. PICK b \in Binding : b = [on |-> TRUE, peer |-> p.cand.peer]
      BY <3>4 DEF Binding, Candidates
    <3>6. /\ update.revision = base.revision + 1 /\ update.bound[c] = b
          /\ update = Rebound(base, c, update.bound[c])
      BY <3>3, <3>5, ReboundIs
    <3>7. base = settings
      <4>1. base.revision \in 0 .. MaxRevision /\ settings.revision \in 0 .. MaxRevision
        BY DEF AccountsInv, ManagerInv, ManagerTypeOK, Settings
      <4>2. base.revision + 1 = settings.revision + 1
        BY <1>4, <2>3, <3>1, <3>6 DEF ManagerInv, OpInv, Prepared
      <4>3. base.revision = settings.revision
        BY <4>1, <4>2, SettingsAssumption
      <4>. QED  BY <3>3, <4>3 DEF Earlier
    <3>8. update.bound[c].peer = p.ask.peer /\ update.bound[c].peer # Own
      BY <3>4, <3>5, <3>6
    <3>9. \A d \in Channels : op'.for = Pairs(d) => d = c
      BY <3>1 DEF Pairs, Channels
    <3>10. op'.update = Rebound(settings', c, op'.update.bound[c])
      BY <1>4, <3>1, <3>6, <3>7
    <3>. QED  BY <1>6, <2>1, <3>1, <3>8, <3>9, <3>10 DEF CommitInv
  <2>. QED  BY <2>2, <2>3
<1>10. LoginInv'
  <2>1. op'.at # "leased" /\ op'.for # "login"
    BY <1>3, <1>4
  <2>2. ~Open(login)'
    BY <1>1, <1>2 DEF Open
  <2>3. FlowTypeOK'
    BY <1>1 DEF AccountsInv, LoginInv, FlowTypeOK
  <2>4. login' # None => FlowOf(login)'
    <3>1. PICK f : f = login /\ (f # None => FlowOf(f))
      BY DEF AccountsInv, LoginInv
    <3>2. login' = f /\ (f # None => FlowOf(f)')
      BY <1>1, <3>1, FlowStays
    <3>. QED  BY <3>2 DEF FlowOf
  <2>. QED  BY <1>1, <1>2, <2>1, <2>2, <2>3, <2>4 DEF LoginInv
<1>11. ~Open(login)' /\ leaving' = None /\ (login' # None => ~login'.client)
  BY <1>1, <1>2 DEF Open
<1>12. \A d \in Channels : PairingOver(pairing[d]) => PairingOver(pairing[d])'
  BY <1>6 DEF PairingOver
<1>. QED  BY <1>3, <1>8, <1>9, <1>10, <1>11, <1>12, ReleasedKeeps

LEMMA PairingLeasedKeeps ==
  ASSUME AccountsInv, shut # "exited", NEW ok \in BOOLEAN, NEW channel \in Channels,
         PairingLeased(channel, ok), UNCHANGED rest
  PROVE  AccountsInv'
<1>1. op.for = Pairs(channel) /\ StopRuntime(ok) /\ UNCHANGED flowVars
      /\ UNCHANGED <<login, session, leaving, sidecar>>
  BY DEF PairingLeased, flowVars
<1>2. CASE op'.at # "leased"
  BY <1>1, <1>2, StopOver DEF PairingLeased
<1>3. CASE op'.at = "leased"
  <2>1. /\ op.at = "stopping" /\ op'.for = Pairs(channel) /\ UNCHANGED settings /\ settings \in Settings
    BY <1>1, <1>3, StopKeeps DEF AccountsInv, ShutInv, ManagerInv, ManagerTypeOK
  <2>2. /\ ~SidecarBusy /\ ~EyeOpen /\ leaving = None /\ ~Open(login)
        /\ login # None => ~login.client
        /\ \A c \in Channels : PairingOver(pairing[c])
    BY <2>1, OperationAlone
  <2>3. PICK at \in {"account", "connecting"} : at = IF channel = "whatsapp" THEN "account" ELSE "connecting"
    OBVIOUS
  <2>4. pairing \in [Channels -> Pairing] /\ pairing[channel] \in Pairing
        /\ eye \in Eyes /\ (eye.chosen = None \/ eye.chosen # Own)
    BY DEF AccountsInv, PairInv, Eyes
  <2>5. PICK p : p = [pairing[channel] EXCEPT !.state = "new", !.base = settings, !.cand = None, !.ask = None,
                                              !.due = FALSE, !.at = at]
    OBVIOUS
  <2>6. /\ p \in Pairing /\ p.state = "new" /\ p.base = settings /\ p.cand = None /\ p.ask = None /\ p.at = at
    BY <2>1, <2>4, <2>5 DEF Pairing
  <2>7. pairing' = [pairing EXCEPT ![channel] = p]
    BY <1>3, <2>3, <2>5 DEF PairingLeased, Pair
  <2>8. /\ pairing' \in [Channels -> Pairing] /\ pairing'[channel] = p
        /\ \A c \in Channels : c # channel => pairing'[c] = pairing[c]
    BY <2>4, <2>6, <2>7
  <2>9. /\ eye' \in Eyes /\ (eye'.chosen = None \/ eye'.chosen # Own)
        /\ channel = "whatsapp" => eye' = eye
    <3>1. CASE channel = "whatsapp"
      BY <1>3, <2>4, <3>1 DEF PairingLeased
    <3>2. CASE channel # "whatsapp"
      <4>1. PICK e : e = [Closed EXCEPT !.late = TRUE]
        OBVIOUS
      <4>2. Closed \in Eyes /\ Closed.chosen = None
        BY DEF Closed, Eyes
      <4>3. e \in Eyes /\ e.chosen = None
        BY <4>1, <4>2 DEF Eyes
      <4>. QED  BY <1>3, <3>2, <4>1, <4>3 DEF PairingLeased
    <3>. QED  BY <3>1, <3>2
  <2>10. ~PairingOver(p) /\ PairParts(p)
    BY <2>6 DEF PairingOver, PairParts
  <2>11. settings.revision <= settings.revision
    BY <2>1, SettingsAssumption DEF Settings
  <2>12. PairInv'
    <3>1. PairOf(channel)'
      BY <1>3, <2>1, <2>6, <2>8, <2>10, <2>11 DEF PairOf, Earlier
    <3>2. ASSUME NEW d \in Channels, d # channel
          PROVE  PairOf(d)'
      <4>1. PairingOver(pairing'[d]) /\ PairParts(pairing'[d])
        BY <2>2, <2>8, <3>2 DEF AccountsInv, PairInv, PairOf
      <4>2. op'.for # Pairs(d)
        BY <2>1, <3>2 DEF Pairs, Channels
      <4>. QED  BY <4>1, <4>2 DEF PairOf
    <3>. QED  BY <2>8, <2>9, <3>1, <3>2 DEF PairInv, Eyes
  <2>13. LoginInv'
    <3>1. op'.for \notin {"login", "disconnect"}
      BY <2>1 DEF Pairs
    <3>2. FlowTypeOK'
      BY <1>1 DEF AccountsInv, LoginInv, FlowTypeOK
    <3>3. login' # None => FlowOf(login)'
      BY <1>1 DEF AccountsInv, LoginInv, FlowOf
    <3>. QED  BY <1>1, <2>2, <3>1, <3>2, <3>3 DEF LoginInv, Open
  <2>14. login' # None => ~login'.client
    BY <1>1, <2>2
  <2>15. EyeOpen' => ~PairingOver(T)'
    <3>1. CASE channel = "whatsapp"
      BY <2>2, <2>9, <3>1 DEF EyeOpen
    <3>2. CASE channel = "telegram"
      BY <2>8, <2>10, <3>2 DEF T
    <3>. QED  BY <3>1, <3>2 DEF Channels
  <2>16. ~SidecarBusy'
    BY <1>1, <2>2 DEF SidecarBusy
  <2>. QED  BY <1>1, <1>3, <2>12, <2>13, <2>14, <2>15, <2>16, LeasedKeeps
<1>. QED  BY <1>2, <1>3

\* What a pairing awaits next, and what it shows.
LEMMA AtIs ==
  ASSUME NEW p \in Pairing, PairParts(p), ~PairingOver(p),
         NEW at \in {"none", "account", "connecting", "arming", "polling", "checking", "verifying",
                     "cancelling", "committing"},
         at \in {"checking", "verifying", "committing"} => p.ask # None,
         NEW q, q = [p EXCEPT !.at = at]
  PROVE  /\ q \in Pairing /\ PairParts(q) /\ ~PairingOver(q) /\ q.at = at
         /\ q.base = p.base /\ q.ask = p.ask /\ q.cand = p.cand
<1>1. /\ q \in Pairing /\ q.at = at /\ q.base = p.base /\ q.ask = p.ask /\ q.cand = p.cand /\ q.state = p.state
  BY DEF Pairing
<1>. QED  BY <1>1 DEF PairParts, PairingOver

LEMMA ObservedIs ==
  ASSUME NEW p \in Pairing, PairParts(p), ~PairingOver(p), NEW c \in Candidates,
         AgreesWith(p, c), NEW q, q = Observed(p, c)
  PROVE  /\ q \in Pairing /\ PairParts(q) /\ ~PairingOver(q) /\ q.at = p.at
         /\ q.base = p.base /\ q.ask = p.ask /\ q.cand = c
<1>1. /\ q \in Pairing /\ q.at = p.at /\ q.base = p.base /\ q.ask = p.ask /\ q.cand = c /\ q.state = "candidate"
  BY DEF Pairing, Observed
<1>. QED  BY <1>1 DEF PairParts, PairingOver, AgreesWith

LEMMA WAlone ==
  ASSUME AccountsInv, ~PairingOver(W)
  PROVE  /\ W \in Pairing /\ PairParts(W) /\ ~EyeOpen
         /\ sidecar \in [on : BOOLEAN, late : SUBSET Mutations]
         /\ eye \in Eyes /\ (eye.chosen = None \/ eye.chosen # Own)
         /\ SidecarBusy => PairSends(W, sidecar.late)
         /\ op.for = "target" /\ (op.at = "leased" \/ W.at = "committing")
         /\ W.base \in Settings /\ Earlier(W.base)
<1>1. "whatsapp" \in Channels /\ ~PairingOver(pairing["whatsapp"])
  BY DEF Channels, W
<1>2. /\ pairing["whatsapp"] \in Pairing /\ PairParts(pairing["whatsapp"]) /\ op.for = Pairs("whatsapp")
      /\ op.at = "leased" \/ pairing["whatsapp"].at = "committing"
      /\ pairing["whatsapp"].base \in Settings /\ Earlier(pairing["whatsapp"].base)
      /\ ~EyeOpen /\ (SidecarBusy => PairSends(W, sidecar.late))
  BY <1>1, PairAlone
<1>3. /\ sidecar \in [on : BOOLEAN, late : SUBSET Mutations]
      /\ eye \in Eyes /\ (eye.chosen = None \/ eye.chosen # Own)
  BY DEF AccountsInv, LoginInv, FlowTypeOK, PairInv, Eyes
<1>. QED  BY <1>2, <1>3 DEF W, Pairs

\* A request that runs is that of a pairing that is not over.
LEMMA AtWork ==
  ASSUME AccountsInv
  PROVE  /\ W.at # "none" => ~PairingOver(W)
         /\ T.at # "none" => ~PairingOver(T)
BY DEF AccountsInv, PairInv, PairOf, PairParts, W, T, Channels

LEMMA WStays ==
  ASSUME AccountsInv, ~PairingOver(W), op.at = "leased", NEW p \in Pairing, Stay("whatsapp", p),
         UNCHANGED rest, UNCHANGED eye, PairParts(p), ~PairingOver(p), p.base = W.base,
         sidecar' \in [on : BOOLEAN, late : SUBSET Mutations],
         SidecarBusy' => PairSends(p, sidecar'.late)
  PROVE  AccountsInv'
<1>1. pairing' = [pairing EXCEPT !["whatsapp"] = p] /\ Held
  BY DEF Stay, Pair
<1>2. /\ eye' \in Eyes /\ (eye'.chosen = None \/ eye'.chosen # Own) /\ ~EyeOpen'
  BY WAlone DEF EyeOpen
<1>3. "whatsapp" \in Channels /\ ~PairingOver(pairing["whatsapp"]) /\ p.base = pairing["whatsapp"].base
  BY DEF Channels, W
<1>. QED  BY <1>1, <1>2, <1>3, PairStays

LEMMA WEnds ==
  ASSUME AccountsInv, shut # "exited", ~PairingOver(W), op.at = "leased",
         NEW safe \in BOOLEAN, EndW(safe), UNCHANGED rest, UNCHANGED eye,
         sidecar' \in [on : BOOLEAN, late : SUBSET Mutations], safe => ~SidecarBusy'
  PROVE  AccountsInv'
<1>1. PICK p : p = Finished(pairing["whatsapp"], "over")
  OBVIOUS
<1>2. /\ pairing' = [pairing EXCEPT !["whatsapp"] = p] /\ Release(safe, None, TRUE)
      /\ UNCHANGED <<login, session, leaving>>
  BY <1>1 DEF EndW, EndPairing, Pair, W
<1>3. /\ eye' \in Eyes /\ (eye'.chosen = None \/ eye'.chosen # Own) /\ ~EyeOpen'
  BY WAlone DEF EyeOpen
<1>4. "whatsapp" \in Channels /\ ~PairingOver(pairing["whatsapp"])
  BY DEF Channels, W
<1>. QED  BY <1>1, <1>2, <1>3, <1>4, PairReleases

\* cancelFlow(), and the disarming of a pairing that is confirmed.
LEMMA DisarmKeeps ==
  ASSUME AccountsInv, ~PairingOver(W), op.at = "leased", W.at # "arming",
         NEW at \in {"cancelling", "committing"}, at = "committing" => W.ask # None,
         Disarm(W, at), UNCHANGED rest, UNCHANGED eye
  PROVE  AccountsInv'
<1>1. PICK p : p = [W EXCEPT !.at = at]
  OBVIOUS
<1>2. Stay("whatsapp", p) /\ sidecar' = Send("disarm")
  BY <1>1 DEF Disarm
<1>3. /\ p \in Pairing /\ PairParts(p) /\ ~PairingOver(p) /\ p.base = W.base /\ p.at = at
  BY <1>1, WAlone, AtIs
<1>4. /\ sidecar' \in [on : BOOLEAN, late : SUBSET Mutations]
      /\ sidecar'.late = sidecar.late \cup {"disarm"}
  BY <1>2, WAlone, SendIs DEF Mutations
<1>5. PairSends(p, sidecar'.late)
  BY <1>3, <1>4, WAlone DEF PairSends, SidecarBusy
<1>. QED  BY <1>2, <1>3, <1>4, <1>5, WStays

LEMMA AccountCheckedKeeps ==
  ASSUME AccountsInv, shut # "exited", NEW ok \in BOOLEAN, AccountChecked(ok), UNCHANGED rest
  PROVE  AccountsInv'
<1>1. W.at = "account" /\ UNCHANGED eye
  BY DEF AccountChecked
<1>2. ~PairingOver(W)
  BY <1>1, AtWork
<1>3. /\ W \in Pairing /\ PairParts(W) /\ op.at = "leased"
      /\ sidecar \in [on : BOOLEAN, late : SUBSET Mutations] /\ ~SidecarBusy
  BY <1>1, <1>2, WAlone DEF PairSends
<1>4. CASE ~ok
  <2>1. EndW(TRUE) /\ sidecar' = sidecar
    BY <1>4 DEF AccountChecked
  <2>. QED  BY <1>1, <1>2, <1>3, <2>1, WEnds DEF SidecarBusy
<1>5. CASE ok
  <2>1. PICK p : p = [W EXCEPT !.state = "waiting", !.at = "arming"]
    OBVIOUS
  <2>2. Stay("whatsapp", p) /\ sidecar' = Send("arm")
    BY <1>5, <2>1 DEF AccountChecked
  <2>3. /\ p \in Pairing /\ p.state = "waiting" /\ p.at = "arming" /\ p.base = W.base
        /\ p.ask = W.ask /\ p.cand = W.cand
    BY <1>3, <2>1 DEF Pairing
  <2>4. PairParts(p) /\ ~PairingOver(p)
    BY <1>3, <2>3 DEF PairParts, PairingOver
  <2>5. sidecar' \in [on : BOOLEAN, late : SUBSET Mutations] /\ sidecar'.late = {"arm"}
    BY <1>3, <2>2, SendIs DEF Mutations, SidecarBusy
  <2>6. PairSends(p, sidecar'.late)
    BY <2>3, <2>5 DEF PairSends
  <2>. QED  BY <1>1, <1>2, <1>3, <2>2, <2>3, <2>4, <2>5, <2>6, WStays
<1>. QED  BY <1>4, <1>5

LEMMA ArmAnsweredKeeps ==
  ASSUME AccountsInv, shut # "exited", NEW c \in Candidates \cup {None}, ArmAnswered(c), UNCHANGED rest
  PROVE  AccountsInv'
<1>1. W.at = "arming" /\ UNCHANGED eye
  BY DEF ArmAnswered
<1>2. ~PairingOver(W)
  BY <1>1, AtWork
<1>3. /\ W \in Pairing /\ PairParts(W) /\ op.at = "leased"
      /\ sidecar \in [on : BOOLEAN, late : SUBSET Mutations] /\ sidecar.late \subseteq {"arm"}
  BY <1>1, <1>2, WAlone DEF PairSends, SidecarBusy
<1>4. PICK s : s = Done("arm")
  OBVIOUS
<1>5. s \in [on : BOOLEAN, late : SUBSET Mutations] /\ s.late = {}
  BY <1>3, <1>4, DoneIs DEF Mutations
<1>6. CASE W.closing \/ W.due
  <2>1. PICK p : p = [W EXCEPT !.at = "cancelling"]
    OBVIOUS
  <2>2. Stay("whatsapp", p) /\ sidecar' = [s EXCEPT !.late = @ \cup {"disarm"}]
    BY <1>4, <1>6, <2>1 DEF ArmAnswered
  <2>3. p \in Pairing /\ PairParts(p) /\ ~PairingOver(p) /\ p.base = W.base /\ p.at = "cancelling"
    BY <1>2, <1>3, <2>1, AtIs
  <2>4. sidecar' \in [on : BOOLEAN, late : SUBSET Mutations] /\ sidecar'.late = {"disarm"}
    BY <1>5, <2>2 DEF Mutations
  <2>5. PairSends(p, sidecar'.late)
    BY <2>3, <2>4 DEF PairSends
  <2>. QED  BY <1>1, <1>2, <1>3, <2>2, <2>3, <2>4, <2>5, WStays
<1>7. CASE ~(W.closing \/ W.due) /\ c = None
  <2>1. PICK p : p = [W EXCEPT !.at = "none"]
    OBVIOUS
  <2>2. Stay("whatsapp", p) /\ sidecar' = s
    BY <1>4, <1>7, <2>1 DEF ArmAnswered
  <2>3. p \in Pairing /\ PairParts(p) /\ ~PairingOver(p) /\ p.base = W.base /\ p.at = "none"
    BY <1>2, <1>3, <2>1, AtIs
  <2>4. PairSends(p, sidecar'.late)
    BY <1>5, <2>2, <2>3 DEF PairSends
  <2>. QED  BY <1>1, <1>2, <1>3, <1>5, <2>2, <2>3, <2>4, WStays
<1>8. CASE ~(W.closing \/ W.due) /\ c # None /\ AgreesWith(W, c)
  <2>1. PICK q : q = Observed(W, c)
    OBVIOUS
  <2>2. PICK p : p = [q EXCEPT !.at = "none"]
    OBVIOUS
  <2>3. Stay("whatsapp", p) /\ sidecar' = s
    BY <1>4, <1>8, <2>1, <2>2 DEF ArmAnswered
  <2>4. q \in Pairing /\ PairParts(q) /\ ~PairingOver(q) /\ q.base = W.base
    BY <1>2, <1>3, <1>8, <2>1, ObservedIs
  <2>5. p \in Pairing /\ PairParts(p) /\ ~PairingOver(p) /\ p.base = W.base /\ p.at = "none"
    BY <2>2, <2>4, AtIs
  <2>6. PairSends(p, sidecar'.late)
    BY <1>5, <2>3, <2>5 DEF PairSends
  <2>. QED  BY <1>1, <1>2, <1>3, <1>5, <2>3, <2>5, <2>6, WStays
<1>9. CASE ~(W.closing \/ W.due) /\ c # None /\ ~AgreesWith(W, c)
  <2>1. EndW(FALSE) /\ sidecar' = s
    BY <1>4, <1>9 DEF ArmAnswered
  <2>. QED  BY <1>1, <1>2, <1>3, <1>5, <2>1, WEnds
<1>. QED  BY <1>6, <1>7, <1>8, <1>9

LEMMA ArmFailsKeeps ==
  ASSUME AccountsInv, shut # "exited", ArmFails, UNCHANGED rest
  PROVE  AccountsInv'
<1>1. W.at = "arming" /\ EndW(FALSE) /\ UNCHANGED <<eye, sidecar>>
  BY DEF ArmFails
<1>2. ~PairingOver(W)
  BY <1>1, AtWork
<1>3. op.at = "leased" /\ sidecar' \in [on : BOOLEAN, late : SUBSET Mutations]
  BY <1>1, <1>2, WAlone
<1>. QED  BY <1>1, <1>2, <1>3, WEnds

\* What a request finds when it starts.
LEMMA FreeIs ==
  ASSUME AccountsInv, NEW c \in Channels, Free(c), ~PairingOver(pairing[c])
  PROVE  op.at = "leased" /\ pairing[c].at = "none"
BY PairAlone DEF Free

LEMMA PollPairingKeeps ==
  ASSUME AccountsInv, shut # "exited", PollPairing, UNCHANGED rest
  PROVE  AccountsInv'
<1>1. ~PairingOver(W) /\ UNCHANGED eye
  BY DEF PollPairing
<1>2. op.at = "leased" /\ W.at = "none"
  BY <1>1, FreeIs DEF PollPairing, W, Channels
<1>3. /\ W \in Pairing /\ PairParts(W) /\ sidecar \in [on : BOOLEAN, late : SUBSET Mutations]
      /\ SidecarBusy => PairSends(W, sidecar.late)
  BY <1>1, WAlone
<1>4. CASE W.due
  BY <1>1, <1>2, <1>4, DisarmKeeps DEF PollPairing
<1>5. CASE ~W.due
  <2>1. PICK p : p = [W EXCEPT !.at = "polling"]
    OBVIOUS
  <2>2. Stay("whatsapp", p) /\ sidecar' = sidecar
    BY <1>5, <2>1 DEF PollPairing
  <2>3. p \in Pairing /\ PairParts(p) /\ ~PairingOver(p) /\ p.base = W.base /\ p.at = "polling"
    BY <1>1, <1>3, <2>1, AtIs
  <2>4. SidecarBusy' => PairSends(p, sidecar'.late)
    BY <1>2, <1>3, <2>2, <2>3 DEF PairSends, SidecarBusy
  <2>. QED  BY <1>1, <1>2, <1>3, <2>2, <2>3, <2>4, WStays
<1>. QED  BY <1>4, <1>5

LEMMA ConfirmTargetKeeps ==
  ASSUME AccountsInv, shut # "exited", ConfirmTarget(W.cand), UNCHANGED rest
  PROVE  AccountsInv'
<1>1. ~PairingOver(W) /\ W.cand # None /\ UNCHANGED eye
  BY DEF ConfirmTarget
<1>2. op.at = "leased" /\ W.at = "none"
  BY <1>1, FreeIs DEF ConfirmTarget, W, Channels
<1>3. /\ W \in Pairing /\ PairParts(W) /\ sidecar \in [on : BOOLEAN, late : SUBSET Mutations]
      /\ SidecarBusy => PairSends(W, sidecar.late)
  BY <1>1, WAlone
<1>4. CASE W.due
  BY <1>1, <1>2, <1>4, DisarmKeeps DEF ConfirmTarget
<1>5. CASE ~W.due
  <2>1. PICK p : p = [W EXCEPT !.at = "checking", !.ask = W.cand]
    OBVIOUS
  <2>2. Stay("whatsapp", p) /\ sidecar' = sidecar
    BY <1>5, <2>1 DEF ConfirmTarget
  <2>3. /\ p \in Pairing /\ p.base = W.base /\ p.at = "checking" /\ p.ask = W.cand
        /\ p.cand = W.cand /\ p.state = W.state
    BY <1>3, <2>1 DEF Pairing
  <2>4. PairParts(p) /\ ~PairingOver(p)
    BY <1>1, <1>3, <2>3 DEF PairParts, PairingOver
  <2>5. SidecarBusy' => PairSends(p, sidecar'.late)
    BY <1>2, <1>3, <2>2, <2>3 DEF PairSends, SidecarBusy
  <2>. QED  BY <1>1, <1>2, <1>3, <2>2, <2>3, <2>4, <2>5, WStays
<1>. QED  BY <1>4, <1>5

LEMMA PairingObservedKeeps ==
  ASSUME AccountsInv, shut # "exited", NEW c \in Candidates \cup {None}, PairingObserved(c), UNCHANGED rest
  PROVE  AccountsInv'
<1>1. W.at \in {"polling", "checking"} /\ UNCHANGED <<eye, sidecar>>
  BY DEF PairingObserved
<1>2. ~PairingOver(W)
  BY <1>1, AtWork
<1>3. /\ W \in Pairing /\ PairParts(W) /\ op.at = "leased" /\ sidecar' \in [on : BOOLEAN, late : SUBSET Mutations]
      /\ SidecarBusy => PairSends(W, sidecar.late)
  BY <1>1, <1>2, WAlone
<1>4. PICK q : q = IF c # None /\ AgreesWith(W, c) THEN Observed(W, c) ELSE W
  OBVIOUS
<1>5. q \in Pairing /\ PairParts(q) /\ ~PairingOver(q) /\ q.base = W.base /\ q.ask = W.ask
  <2>1. CASE c # None /\ AgreesWith(W, c)
    BY <1>2, <1>3, <1>4, <2>1, ObservedIs
  <2>2. CASE ~(c # None /\ AgreesWith(W, c))
    BY <1>2, <1>3, <1>4, <2>2
  <2>. QED  BY <2>1, <2>2
<1>6. PICK at \in {"verifying", "none"} :
        /\ at = "verifying" => W.at = "checking"
        /\ Stay("whatsapp", [q EXCEPT !.at = at])
  BY <1>4 DEF PairingObserved
<1>7. PICK p : p = [q EXCEPT !.at = at]
  OBVIOUS
<1>8. at = "verifying" => q.ask # None
  BY <1>3, <1>5, <1>6 DEF PairParts
<1>9. p \in Pairing /\ PairParts(p) /\ ~PairingOver(p) /\ p.base = W.base /\ p.at = at
  BY <1>5, <1>7, <1>8, AtIs
<1>10. SidecarBusy' => PairSends(p, sidecar'.late)
  BY <1>1, <1>3, <1>9 DEF PairSends, SidecarBusy
<1>11. Stay("whatsapp", p)
  BY <1>6, <1>7
<1>. QED  BY <1>1, <1>2, <1>3, <1>9, <1>10, <1>11, WStays

LEMMA AccountVerifiedKeeps ==
  ASSUME AccountsInv, shut # "exited", NEW same \in BOOLEAN, AccountVerified(same), UNCHANGED rest
  PROVE  AccountsInv'
<1>1. W.at = "verifying" /\ UNCHANGED eye
  BY DEF AccountVerified
<1>2. ~PairingOver(W)
  BY <1>1, AtWork
<1>3. /\ W \in Pairing /\ PairParts(W) /\ op.at = "leased" /\ sidecar \in [on : BOOLEAN, late : SUBSET Mutations]
      /\ SidecarBusy => PairSends(W, sidecar.late)
  BY <1>1, <1>2, WAlone
<1>4. CASE ~same
  <2>1. PICK p : p = [W EXCEPT !.at = "none"]
    OBVIOUS
  <2>2. Stay("whatsapp", p) /\ sidecar' = sidecar
    BY <1>4, <2>1 DEF AccountVerified
  <2>3. p \in Pairing /\ PairParts(p) /\ ~PairingOver(p) /\ p.base = W.base /\ p.at = "none"
    BY <1>2, <1>3, <2>1, AtIs
  <2>4. SidecarBusy' => PairSends(p, sidecar'.late)
    BY <1>1, <1>3, <2>2, <2>3 DEF PairSends, SidecarBusy
  <2>. QED  BY <1>1, <1>2, <1>3, <2>2, <2>3, <2>4, WStays
<1>5. CASE same
  <2>1. PICK at \in {"cancelling", "committing"} : at = IF W.due THEN "cancelling" ELSE "committing"
    OBVIOUS
  <2>2. Disarm(W, at)
    BY <1>5, <2>1 DEF AccountVerified
  <2>3. W.ask # None
    BY <1>1, <1>3 DEF PairParts
  <2>. QED  BY <1>1, <1>2, <1>3, <2>2, <2>3, DisarmKeeps
<1>. QED  BY <1>4, <1>5

\* The answer of a disarm that was awaited.
LEMMA DisarmedIs ==
  ASSUME AccountsInv, ~PairingOver(W), W.at \in {"cancelling", "committing"}, NEW ok \in BOOLEAN,
         sidecar' = IF ok THEN Done("disarm") ELSE sidecar
  PROVE  sidecar' \in [on : BOOLEAN, late : SUBSET Mutations] /\ (ok => ~SidecarBusy')
<1>1. sidecar \in [on : BOOLEAN, late : SUBSET Mutations] /\ sidecar.late \subseteq {"disarm"}
  BY WAlone DEF PairSends, SidecarBusy
<1>2. /\ Done("disarm") \in [on : BOOLEAN, late : SUBSET Mutations] /\ ~Done("disarm").on
      /\ Done("disarm").late = {}
  BY <1>1, DoneIs DEF Mutations
<1>. QED  BY <1>1, <1>2 DEF SidecarBusy

LEMMA ConfirmDisarmedKeeps ==
  ASSUME AccountsInv, shut # "exited", NEW ok \in BOOLEAN, NEW valid \in BOOLEAN,
         ConfirmDisarmed(ok, valid), UNCHANGED rest
  PROVE  AccountsInv'
<1>1. /\ W.at = "committing" /\ op.at = "leased" /\ UNCHANGED eye
      /\ sidecar' = IF ok THEN Done("disarm") ELSE sidecar
  BY DEF ConfirmDisarmed
<1>2. ~PairingOver(W)
  BY <1>1, AtWork
<1>3. sidecar' \in [on : BOOLEAN, late : SUBSET Mutations] /\ (ok => ~SidecarBusy')
  BY <1>1, <1>2, DisarmedIs
<1>4. CASE ~ok
  <2>1. EndW(FALSE)
    BY <1>4 DEF ConfirmDisarmed
  <2>. QED  BY <1>1, <1>2, <1>3, <2>1, WEnds
<1>5. CASE ok /\ (W.closing \/ W.due \/ closing)
  <2>1. EndW(TRUE)
    BY <1>5 DEF ConfirmDisarmed
  <2>. QED  BY <1>1, <1>2, <1>3, <1>5, <2>1, WEnds
<1>6. CASE ok /\ ~(W.closing \/ W.due \/ closing)
  <2>1. PICK p : p = W
    OBVIOUS
  <2>2. /\ p \in Pairing /\ PairParts(p) /\ p.base \in Settings /\ Earlier(p.base)
        /\ eye \in Eyes /\ (eye.chosen = None \/ eye.chosen # Own) /\ ~EyeOpen
    BY <1>2, <2>1, WAlone
  <2>3. p.cand \in Candidates
    BY <1>1, <2>1, <2>2 DEF PairParts, Pairing
  <2>4. [on |-> TRUE, peer |-> p.cand.peer] \in Binding /\ "whatsapp" \in Channels
    BY <2>3 DEF Binding, Candidates, Channels
  <2>5. PICK update \in Updates : update = Rebound(p.base, "whatsapp", [on |-> TRUE, peer |-> p.cand.peer])
    BY <2>2, <2>4, ReboundIs
  <2>6. /\ pairing' = [pairing EXCEPT !["whatsapp"] = p] /\ Release(TRUE, update, valid)
        /\ UNCHANGED <<login, session, leaving>>
    BY <1>6, <2>1, <2>5 DEF ConfirmDisarmed, EndPairing, Pair
  <2>7. ~EyeOpen' /\ eye' \in Eyes /\ (eye'.chosen = None \/ eye'.chosen # Own)
    BY <1>1, <2>2 DEF EyeOpen
  <2>8. p = pairing["whatsapp"] /\ p.at = "committing" /\ ~closing /\ ~PairingOver(pairing["whatsapp"])
    BY <1>1, <1>2, <1>6, <2>1 DEF W
  <2>9. ~SidecarBusy'
    BY <1>3, <1>6
  <2>. QED  BY <1>1, <1>3, <2>2, <2>4, <2>5, <2>6, <2>7, <2>8, <2>9, PairReleases
<1>. QED  BY <1>4, <1>5, <1>6

LEMMA CancelPairingKeeps ==
  ASSUME AccountsInv, shut # "exited", CancelPairing, UNCHANGED rest
  PROVE  AccountsInv'
<1>1. ~PairingOver(W) /\ UNCHANGED eye /\ Disarm(W, "cancelling")
  BY DEF CancelPairing
<1>2. op.at = "leased" /\ W.at = "none"
  BY <1>1, FreeIs DEF CancelPairing, W, Channels
<1>. QED  BY <1>1, <1>2, DisarmKeeps

LEMMA PairingDisarmedKeeps ==
  ASSUME AccountsInv, shut # "exited", NEW ok \in BOOLEAN, PairingDisarmed(ok), UNCHANGED rest
  PROVE  AccountsInv'
<1>1. /\ W.at = "cancelling" /\ UNCHANGED eye /\ EndW(ok)
      /\ sidecar' = IF ok THEN Done("disarm") ELSE sidecar
  BY DEF PairingDisarmed
<1>2. ~PairingOver(W)
  BY <1>1, AtWork
<1>3. op.at = "leased"
  BY <1>1, <1>2, WAlone
<1>4. sidecar' \in [on : BOOLEAN, late : SUBSET Mutations] /\ (ok => ~SidecarBusy')
  BY <1>1, <1>2, DisarmedIs
<1>. QED  BY <1>1, <1>2, <1>3, <1>4, WEnds

LEMMA PairingDueKeeps ==
  ASSUME AccountsInv, NEW c \in Channels, PairingDue(c), UNCHANGED rest
  PROVE  AccountsInv'
<1>1. /\ ~PairingOver(pairing[c]) /\ UNCHANGED sidecar /\ Held
      /\ eye' = IF c = "telegram" THEN [eye EXCEPT !.aborted = TRUE] ELSE eye
  BY DEF PairingDue, Stay
<1>2. PICK p : p = [pairing[c] EXCEPT !.due = TRUE]
  OBVIOUS
<1>3. pairing' = [pairing EXCEPT ![c] = p]
  BY <1>2 DEF PairingDue, Stay, Pair
<1>4. pairing[c] \in Pairing /\ PairParts(pairing[c])
  BY <1>1, PairAlone
<1>5. /\ p \in Pairing /\ p.state = pairing[c].state /\ p.at = pairing[c].at /\ p.cand = pairing[c].cand
      /\ p.ask = pairing[c].ask /\ p.base = pairing[c].base
  BY <1>2, <1>4 DEF Pairing
<1>6. PairParts(p) /\ ~PairingOver(p)
  BY <1>1, <1>4, <1>5 DEF PairParts, PairingOver
<1>7. eye \in Eyes /\ (eye.chosen = None \/ eye.chosen # Own)
  BY DEF AccountsInv, PairInv, Eyes
<1>8. /\ eye' \in Eyes /\ eye'.chosen = eye.chosen /\ eye'.client = eye.client /\ eye'.late = eye.late
  BY <1>1, <1>7 DEF Eyes
<1>9. EyeOpen' = EyeOpen /\ sidecar' \in [on : BOOLEAN, late : SUBSET Mutations]
  BY <1>1, <1>8 DEF EyeOpen, AccountsInv, LoginInv, FlowTypeOK
<1>. QED  BY <1>1, <1>3, <1>5, <1>6, <1>7, <1>8, <1>9, PairStays

LEMMA TAlone ==
  ASSUME AccountsInv, ~PairingOver(T)
  PROVE  /\ T \in Pairing /\ PairParts(T) /\ ~SidecarBusy
         /\ sidecar \in [on : BOOLEAN, late : SUBSET Mutations]
         /\ eye \in Eyes /\ (eye.chosen = None \/ eye.chosen # Own)
         /\ op.for = "telegramTarget" /\ (op.at = "leased" \/ T.at = "committing")
<1>1. "telegram" \in Channels /\ ~PairingOver(pairing["telegram"])
  BY DEF Channels, T
<1>2. /\ pairing["telegram"] \in Pairing /\ PairParts(pairing["telegram"]) /\ op.for = Pairs("telegram")
      /\ op.at = "leased" \/ pairing["telegram"].at = "committing"
      /\ ~SidecarBusy
  BY <1>1, PairAlone
<1>3. /\ sidecar \in [on : BOOLEAN, late : SUBSET Mutations]
      /\ eye \in Eyes /\ (eye.chosen = None \/ eye.chosen # Own)
  BY DEF AccountsInv, LoginInv, FlowTypeOK, PairInv, Eyes
<1>. QED  BY <1>2, <1>3 DEF T, Pairs

LEMMA TStays ==
  ASSUME AccountsInv, ~PairingOver(T), op.at = "leased", NEW p \in Pairing, StayT(p),
         UNCHANGED rest, PairParts(p), ~PairingOver(p), p.base = T.base,
         eye' \in Eyes, eye'.chosen = None \/ eye'.chosen # Own
  PROVE  AccountsInv'
<1>1. pairing' = [pairing EXCEPT !["telegram"] = p] /\ Held /\ sidecar' = sidecar
  BY DEF StayT, Stay, Pair
<1>2. ~SidecarBusy' /\ sidecar' \in [on : BOOLEAN, late : SUBSET Mutations]
  BY <1>1, TAlone DEF SidecarBusy
<1>3. "telegram" \in Channels /\ ~PairingOver(pairing["telegram"]) /\ p.base = pairing["telegram"].base
  BY DEF Channels, T
<1>. QED  BY <1>1, <1>2, <1>3, PairStays

LEMMA TEnds ==
  ASSUME AccountsInv, shut # "exited", ~PairingOver(T), op.at = "leased",
         NEW safe \in BOOLEAN, EndT(safe), UNCHANGED rest, UNCHANGED sidecar,
         eye' \in Eyes, eye'.chosen = None \/ eye'.chosen # Own, safe => ~EyeOpen'
  PROVE  AccountsInv'
<1>1. PICK p : p = Finished(pairing["telegram"], "over")
  OBVIOUS
<1>2. /\ pairing' = [pairing EXCEPT !["telegram"] = p] /\ Release(safe, None, TRUE)
      /\ UNCHANGED <<login, session, leaving>>
  BY <1>1 DEF EndT, EndPairing, Pair, T
<1>3. ~SidecarBusy' /\ sidecar' \in [on : BOOLEAN, late : SUBSET Mutations]
  BY TAlone DEF SidecarBusy
<1>4. "telegram" \in Channels /\ ~PairingOver(pairing["telegram"])
  BY DEF Channels, T
<1>. QED  BY <1>1, <1>2, <1>3, <1>4, PairReleases

\* The observer that is gone, but for what may still be there.
LEMMA ClosedIs ==
  ASSUME NEW client \in BOOLEAN, NEW late \in BOOLEAN, NEW e, e = [Closed EXCEPT !.client = client, !.late = late]
  PROVE  e \in Eyes /\ e.chosen = None /\ e.client = client /\ e.late = late
<1>1. Closed \in Eyes /\ Closed.chosen = None
  BY DEF Closed, Eyes
<1>. QED  BY <1>1 DEF Eyes

\* A step of the observer alone.
LEMMA EyeKeeps ==
  ASSUME AccountsInv, UNCHANGED <<pairing, sidecar>>, Held, UNCHANGED rest, eye' \in Eyes,
         eye'.chosen = None \/ eye'.chosen # Own, eye'.client = eye.client, eye'.late = eye.late
  PROVE  AccountsInv'
<1>1. UNCHANGED <<settings, paused, busy, runtime, live, op, closing, closed, login, session, sidecar,
                  leaving, pairing, form, shut, failed>> /\ EyeOpen' = EyeOpen
  BY DEF Held, managerVars, rest, EyeOpen
<1>2. ManagerInv'
  BY <1>1 DEF AccountsInv, ManagerInv, ManagerTypeOK, OpInv, Prepared, RunInv
<1>3. PairInv'
  BY <1>1 DEF AccountsInv, PairInv, PairOf, Earlier, Eyes
<1>4. LoginInv'
  <2>1. sidecar \in [on : BOOLEAN, late : SUBSET Mutations]
    BY DEF AccountsInv, LoginInv, FlowTypeOK
  <2>. QED  BY <1>1, <2>1, LoginStands DEF AccountsInv
<1>5. ClientInv' /\ EyeInv'
  BY <1>1 DEF AccountsInv, ClientInv, EyeInv, Kept, Open, T
<1>6. SidecarInv'
  BY <1>1, SidecarStands DEF AccountsInv, Kept
<1>7. CommitInv'
  BY <1>1 DEF AccountsInv, CommitInv, Earlier
<1>8. ShutInv'
  BY <1>1 DEF AccountsInv, ShutInv, T, W, Open
<1>. QED  BY <1>2, <1>3, <1>4, <1>5, <1>6, <1>7, <1>8 DEF AccountsInv

LEMMA EyeMovesKeep ==
  ASSUME AccountsInv, UNCHANGED rest,
         EyeBreaks \/ AbortTelegram \/ \E peer \in Peers : EyeSelects(peer)
  PROVE  AccountsInv'
<1>1. eye \in Eyes /\ (eye.chosen = None \/ eye.chosen # Own)
  BY DEF AccountsInv, PairInv, Eyes
<1>2. UNCHANGED <<pairing, sidecar>> /\ Held
  BY DEF EyeBreaks, AbortTelegram, EyeSelects
<1>3. CASE EyeBreaks
  BY <1>1, <1>2, <1>3, EyeKeeps DEF EyeBreaks, Eyes
<1>4. CASE AbortTelegram
  BY <1>1, <1>2, <1>4, EyeKeeps DEF AbortTelegram, Eyes
<1>5. CASE \E peer \in Peers : EyeSelects(peer)
  <2>1. PICK peer \in Peers : peer # Own /\ eye' = [eye EXCEPT !.chosen = peer]
    BY <1>5 DEF EyeSelects
  <2>. QED  BY <1>1, <1>2, <2>1, EyeKeeps DEF Eyes
<1>. QED  BY <1>3, <1>4, <1>5

LEMMA EyeConnectsKeeps ==
  ASSUME AccountsInv, EyeConnects, UNCHANGED rest
  PROVE  AccountsInv'
<1>1. T.at = "connecting" /\ eye' = [eye EXCEPT !.client = TRUE, !.late = FALSE]
  BY DEF EyeConnects
<1>2. ~PairingOver(T)
  BY <1>1, AtWork
<1>3. T \in Pairing /\ PairParts(T) /\ op.at = "leased" /\ eye \in Eyes /\ (eye.chosen = None \/ eye.chosen # Own)
  BY <1>1, <1>2, TAlone
<1>4. PICK p : p = [T EXCEPT !.at = "none", !.state = "waiting"]
  OBVIOUS
<1>5. /\ p \in Pairing /\ p.state = "waiting" /\ p.at = "none" /\ p.base = T.base /\ p.ask = T.ask /\ p.cand = T.cand
  BY <1>3, <1>4 DEF Pairing
<1>6. PairParts(p) /\ ~PairingOver(p)
  BY <1>3, <1>5 DEF PairParts, PairingOver
<1>7. eye' \in Eyes /\ (eye'.chosen = None \/ eye'.chosen # Own) /\ StayT(p)
  BY <1>1, <1>3, <1>4 DEF Eyes, EyeConnects
<1>. QED  BY <1>2, <1>3, <1>5, <1>6, <1>7, TStays

LEMMA EyeEndsKeeps ==
  ASSUME AccountsInv, shut # "exited", NEW ok \in BOOLEAN,
         EyeFails(ok) \/ EyeAborted \/ TelegramClosed(ok), UNCHANGED rest
  PROVE  AccountsInv'
<1>1. T.at \in {"connecting", "cancelling"} /\ UNCHANGED sidecar
  BY DEF EyeFails, EyeAborted, TelegramClosed
<1>2. ~PairingOver(T)
  BY <1>1, AtWork
<1>3. op.at = "leased"
  BY <1>1, <1>2, TAlone
<1>4. Closed.client = FALSE /\ Closed.late = FALSE
  BY DEF Closed
<1>5. PICK unknown \in BOOLEAN : unknown = ~ok
  OBVIOUS
<1>6. CASE EyeFails(ok)
  <2>1. eye' = [Closed EXCEPT !.client = FALSE, !.late = unknown] /\ EndT(ok)
    BY <1>4, <1>5, <1>6 DEF EyeFails, Closed
  <2>2. eye' \in Eyes /\ eye'.chosen = None /\ (ok => ~EyeOpen')
    BY <1>5, <2>1, ClosedIs DEF EyeOpen
  <2>. QED  BY <1>1, <1>2, <1>3, <2>1, <2>2, TEnds
<1>7. CASE EyeAborted
  <2>1. eye' = [Closed EXCEPT !.client = FALSE, !.late = TRUE] /\ EndT(FALSE)
    BY <1>4, <1>7 DEF EyeAborted, Closed
  <2>2. eye' \in Eyes /\ eye'.chosen = None
    BY <2>1, ClosedIs
  <2>. QED  BY <1>1, <1>2, <1>3, <2>1, <2>2, TEnds
<1>8. CASE TelegramClosed(ok)
  <2>1. eye' = [Closed EXCEPT !.client = unknown, !.late = FALSE] /\ EndT(ok)
    BY <1>4, <1>5, <1>8 DEF TelegramClosed, Closed
  <2>2. eye' \in Eyes /\ eye'.chosen = None /\ (ok => ~EyeOpen')
    BY <1>5, <2>1, ClosedIs DEF EyeOpen
  <2>. QED  BY <1>1, <1>2, <1>3, <2>1, <2>2, TEnds
<1>. QED  BY <1>6, <1>7, <1>8

LEMMA CloseEyeKeeps ==
  ASSUME AccountsInv, Watching, CloseEye, UNCHANGED rest
  PROVE  AccountsInv'
<1>1. ~PairingOver(T) /\ op.at = "leased"
  BY FreeIs DEF Watching, T, Channels
<1>2. T \in Pairing /\ PairParts(T) /\ eye \in Eyes /\ (eye.chosen = None \/ eye.chosen # Own)
  BY <1>1, TAlone
<1>3. PICK p : p = [T EXCEPT !.at = "cancelling"]
  OBVIOUS
<1>4. StayT(p) /\ eye' = [eye EXCEPT !.aborted = TRUE]
  BY <1>3 DEF CloseEye
<1>5. p \in Pairing /\ PairParts(p) /\ ~PairingOver(p) /\ p.base = T.base
  BY <1>1, <1>2, <1>3, AtIs
<1>6. eye' \in Eyes /\ (eye'.chosen = None \/ eye'.chosen # Own)
  BY <1>2, <1>4 DEF Eyes
<1>. QED  BY <1>1, <1>4, <1>5, <1>6, TStays

LEMMA SeenKeeps ==
  ASSUME AccountsInv, Watching, NEW id \in Ids, StayT(Seen(id)), UNCHANGED eye, UNCHANGED rest
  PROVE  AccountsInv'
<1>1. ~PairingOver(T) /\ op.at = "leased"
  BY FreeIs DEF Watching, T, Channels
<1>2. T \in Pairing /\ PairParts(T) /\ eye \in Eyes /\ (eye.chosen = None \/ eye.chosen # Own)
  BY <1>1, TAlone
<1>3. PICK p : p = Seen(id)
  OBVIOUS
<1>4. p \in Pairing /\ PairParts(p) /\ ~PairingOver(p) /\ p.base = T.base
  <2>1. CASE eye.aborted \/ eye.chosen = None \/ T.cand # None
    BY <1>1, <1>2, <1>3, <2>1 DEF Seen
  <2>2. CASE ~(eye.aborted \/ eye.chosen = None \/ T.cand # None)
    <3>1. PICK c : c = [id |-> id, peer |-> eye.chosen]
      OBVIOUS
    <3>2. c \in Candidates /\ c.peer # Own
      BY <1>2, <2>2, <3>1 DEF Candidates, Eyes
    <3>3. p = Observed(T, c) /\ AgreesWith(T, c)
      BY <1>3, <2>2, <3>1, <3>2 DEF Seen, AgreesWith
    <3>. QED  BY <1>1, <1>2, <3>2, <3>3, ObservedIs
  <2>. QED  BY <2>1, <2>2
<1>5. StayT(p) /\ eye' \in Eyes /\ (eye'.chosen = None \/ eye'.chosen # Own)
  BY <1>2, <1>3
<1>. QED  BY <1>1, <1>4, <1>5, TStays

LEMMA PollTelegramKeeps ==
  ASSUME AccountsInv, NEW id \in Ids, PollTelegram(id), UNCHANGED rest
  PROVE  AccountsInv'
BY CloseEyeKeeps, SeenKeeps DEF PollTelegram

LEMMA ConfirmTelegramKeeps ==
  ASSUME AccountsInv, NEW id \in Ids, NEW kept \in BOOLEAN, ConfirmTelegram(T.cand, id, kept), UNCHANGED rest
  PROVE  AccountsInv'
<1>1. Watching /\ T.cand # None
  BY DEF ConfirmTelegram
<1>2. ~PairingOver(T) /\ op.at = "leased"
  BY <1>1, FreeIs DEF Watching, T, Channels
<1>3. CASE T.due \/ eye.aborted \/ Unclear \/ ~kept
  BY <1>1, <1>3, CloseEyeKeeps DEF ConfirmTelegram
<1>4. CASE ~(T.due \/ eye.aborted \/ Unclear \/ ~kept)
  <2>1. PICK p : p = [T EXCEPT !.at = "committing", !.ask = T.cand]
    OBVIOUS
  <2>2. StayT(p) /\ eye' = eye
    BY <1>1, <1>4, <2>1 DEF ConfirmTelegram
  <2>3. T \in Pairing /\ PairParts(T) /\ eye \in Eyes /\ (eye.chosen = None \/ eye.chosen # Own)
    BY <1>2, TAlone
  <2>4. /\ p \in Pairing /\ p.base = T.base /\ p.at = "committing" /\ p.ask = T.cand
        /\ p.cand = T.cand /\ p.state = T.state
    BY <2>1, <2>3 DEF Pairing
  <2>5. PairParts(p) /\ ~PairingOver(p)
    BY <1>1, <1>2, <2>3, <2>4 DEF PairParts, PairingOver
  <2>6. eye' \in Eyes /\ (eye'.chosen = None \/ eye'.chosen # Own)
    BY <2>2, <2>3
  <2>. QED  BY <1>2, <2>2, <2>4, <2>5, <2>6, TStays
<1>. QED  BY <1>3, <1>4

LEMMA TelegramCommitsKeeps ==
  ASSUME AccountsInv, shut # "exited", NEW ok \in BOOLEAN, NEW valid \in BOOLEAN,
         TelegramCommits(ok, valid), UNCHANGED rest
  PROVE  AccountsInv'
<1>1. /\ T.at = "committing" /\ op.at = "leased" /\ UNCHANGED sidecar /\ eye' = [Closed EXCEPT !.client = ~ok]
  BY DEF TelegramCommits
<1>2. ~PairingOver(T)
  BY <1>1, AtWork
<1>3. PICK unknown \in BOOLEAN : unknown = ~ok
  OBVIOUS
<1>4. eye' = [Closed EXCEPT !.client = unknown]
  BY <1>1, <1>3, Zenon
<1>5. eye' \in Eyes /\ eye'.chosen = None /\ (ok => ~EyeOpen')
  <2>1. Closed \in Eyes /\ Closed.chosen = None /\ Closed.late = FALSE
    BY DEF Closed, Eyes
  <2>2. eye' \in Eyes /\ eye'.chosen = None /\ eye'.late = FALSE /\ eye'.client = unknown
    BY <1>4, <2>1 DEF Eyes
  <2>. QED  BY <1>3, <2>2 DEF EyeOpen
<1>6. CASE ~ok
  <2>1. EndT(FALSE)
    BY <1>6 DEF TelegramCommits
  <2>. QED  BY <1>1, <1>2, <1>5, <2>1, TEnds
<1>7. CASE ok /\ (T.closing \/ eye.aborted \/ closing)
  <2>1. EndT(TRUE)
    BY <1>7 DEF TelegramCommits
  <2>. QED  BY <1>1, <1>2, <1>5, <1>7, <2>1, TEnds
<1>8. CASE ok /\ ~(T.closing \/ eye.aborted \/ closing)
  <2>1. PICK p : p = T
    OBVIOUS
  <2>2. p \in Pairing /\ PairParts(p) /\ sidecar \in [on : BOOLEAN, late : SUBSET Mutations] /\ ~SidecarBusy
    BY <1>2, <2>1, TAlone
  <2>3. p.cand \in Candidates
    BY <1>1, <2>1, <2>2 DEF PairParts, Pairing
  <2>4. [on |-> TRUE, peer |-> p.cand.peer] \in Binding /\ "telegram" \in Channels
    BY <2>3 DEF Binding, Candidates, Channels
  <2>5. settings \in Settings /\ settings.revision \in 0 .. MaxRevision
    BY DEF AccountsInv, ManagerInv, ManagerTypeOK, Settings
  <2>6. PICK base \in Settings : base = settings
    BY <2>5
  <2>7. Earlier(base)
    BY <2>5, <2>6, SettingsAssumption DEF Earlier
  <2>8. PICK update \in Updates : update = Rebound(base, "telegram", [on |-> TRUE, peer |-> p.cand.peer])
    BY <2>4, ReboundIs
  <2>9. /\ pairing' = [pairing EXCEPT !["telegram"] = p] /\ Release(TRUE, update, valid)
        /\ UNCHANGED <<login, session, leaving>>
    BY <1>8, <2>1, <2>6, <2>8 DEF TelegramCommits, EndPairing, Pair
  <2>10. p = pairing["telegram"] /\ p.at = "committing" /\ ~closing /\ ~PairingOver(pairing["telegram"])
    BY <1>1, <1>2, <1>8, <2>1 DEF T
  <2>11. /\ ~SidecarBusy' /\ sidecar' \in [on : BOOLEAN, late : SUBSET Mutations] /\ ~EyeOpen'
         /\ eye' \in Eyes /\ (eye'.chosen = None \/ eye'.chosen # Own) /\ op.at = "leased"
    BY <1>1, <1>5, <1>8, <2>2 DEF SidecarBusy
  <2>. QED  BY <2>4, <2>7, <2>8, <2>9, <2>10, <2>11, PairReleases
<1>. QED  BY <1>6, <1>7, <1>8

-----------------------------------------------------------------------------
(* The shutdown *)

LEMMA BeginCloseKeeps ==
  ASSUME AccountsInv, BeginClose
  PROVE  AccountsInv'
<1>1. /\ shut = "serving" /\ shut' = "app" /\ form' = settings /\ UNCHANGED failed
      /\ UNCHANGED managerVars /\ UNCHANGED flowVars /\ UNCHANGED pairingVars
  BY DEF BeginClose, Others
<1>2. UNCHANGED <<settings, op, pairing, login, leaving, live, paused, closing, closed>>
  BY <1>1 DEF managerVars, flowVars, pairingVars
<1>3. CommitInv'
  <2>1. settings.revision \in 0 .. MaxRevision /\ settings \in Settings
    BY DEF AccountsInv, ManagerInv, ManagerTypeOK, Settings
  <2>2. settings.revision <= settings.revision
    BY <2>1, SettingsAssumption
  <2>. QED  BY <1>1, <1>2, <2>1, <2>2 DEF AccountsInv, CommitInv, Earlier
<1>4. ShutInv'
  BY <1>1, <1>2 DEF AccountsInv, ShutInv
<1>. QED  BY <1>1, <1>3, <1>4, Unmoved DEF AccountsInv

\* A pairing that is told of the shutdown.
LEMMA ClosingIs ==
  ASSUME AccountsInv, NEW c \in Channels, pairing' = [pairing EXCEPT ![c].closing = TRUE]
  PROVE  /\ pairing' \in [Channels -> Pairing]
         /\ \A d \in Channels : /\ pairing'[d].state = pairing[d].state /\ pairing'[d].at = pairing[d].at
                                /\ pairing'[d].cand = pairing[d].cand /\ pairing'[d].ask = pairing[d].ask
                                /\ pairing'[d].base = pairing[d].base
<1>1. pairing \in [Channels -> Pairing] /\ pairing[c] \in Pairing
  BY DEF AccountsInv, PairInv
<1>2. PICK p : p = [pairing[c] EXCEPT !.closing = TRUE]
  OBVIOUS
<1>3. /\ p \in Pairing /\ p.state = pairing[c].state /\ p.at = pairing[c].at
      /\ p.cand = pairing[c].cand /\ p.ask = pairing[c].ask /\ p.base = pairing[c].base
  BY <1>1, <1>2 DEF Pairing
<1>4. pairing' = [pairing EXCEPT ![c] = p]
  BY <1>2
<1>. QED  BY <1>1, <1>3, <1>4

\* A pairing in another frame: what the invariant says of it is what it was.
LEMMA PairsStay ==
  ASSUME AccountsInv,
         pairing' \in [Channels -> Pairing],
         \A d \in Channels : /\ pairing'[d].state = pairing[d].state /\ pairing'[d].at = pairing[d].at
                             /\ pairing'[d].cand = pairing[d].cand /\ pairing'[d].ask = pairing[d].ask
                             /\ pairing'[d].base = pairing[d].base,
         UNCHANGED <<op, settings, form, sidecar, login, leaving, live, busy, paused, runtime>>, UNCHANGED flowVars,
         eye' \in Eyes, eye'.chosen = eye.chosen, eye'.client = eye.client, eye'.late = eye.late
  PROVE  /\ CommitInv' /\ PairInv' /\ EyeInv' /\ SidecarInv' /\ ClientInv' /\ LoginInv'
         /\ PairingOver(T)' = PairingOver(T) /\ PairingOver(W)' = PairingOver(W)
<1>1. \A d \in Channels : PairingOver(pairing[d])' = PairingOver(pairing[d])
  BY DEF PairingOver
<1>2. PairingOver(T)' = PairingOver(T) /\ PairingOver(W)' = PairingOver(W)
  BY DEF PairingOver, T, W, Channels
<1>3. CommitInv'
  BY DEF AccountsInv, CommitInv, Earlier
<1>4. PairInv'
  <2>1. \A d \in Channels : PairParts(pairing[d])'
    BY <1>1 DEF AccountsInv, PairInv, PairOf, PairParts
  <2>2. \A d \in Channels : PairOf(d)'
    BY <1>1, <2>1 DEF AccountsInv, PairInv, PairOf, Earlier
  <2>. QED  BY <2>2 DEF AccountsInv, PairInv, Eyes
<1>5. EyeOpen' = EyeOpen
  BY DEF EyeOpen
<1>6. EyeInv'
  BY <1>2, <1>5 DEF AccountsInv, EyeInv, Kept
<1>7. SidecarInv'
  <2>1. W'.at = W.at
    BY DEF W, Channels
  <2>2. PairSends(W, sidecar.late)' = PairSends(W, sidecar.late)
    BY <2>1 DEF PairSends
  <2>. QED  BY <1>2, <2>2 DEF AccountsInv, SidecarInv, SidecarBusy, Kept, Open, LoginSends
<1>8. ClientInv' /\ LoginInv'
  <2>1. ClientInv'
    BY <1>5 DEF AccountsInv, ClientInv, Kept, Open
  <2>2. session' = session /\ sidecar \in [on : BOOLEAN, late : SUBSET Mutations]
    BY DEF AccountsInv, LoginInv, FlowTypeOK, flowVars
  <2>. QED  BY <2>1, <2>2, LoginStands DEF AccountsInv
<1>. QED  BY <1>2, <1>3, <1>4, <1>6, <1>7, <1>8

LEMMA AppClosedKeeps ==
  ASSUME AccountsInv, NEW late \in BOOLEAN, AppClosed(late)
  PROVE  AccountsInv'
<1>1. /\ shut = "app" /\ shut' = "telegramTarget" /\ failed' = (failed \/ late) /\ closing' = TRUE
      /\ pairing' = [pairing EXCEPT !["telegram"].closing = TRUE]
      /\ eye' = [eye EXCEPT !.aborted = ~PairingOver(T)]
      /\ UNCHANGED <<form, settings, paused, busy, runtime, live, op, closed>> /\ UNCHANGED flowVars
      /\ UNCHANGED <<login, session, sidecar, leaving>>
  BY DEF AppClosed, flowVars
<1>2. PICK aborted \in BOOLEAN : aborted = ~PairingOver(T)
  BY DEF PairingOver
<1>3. eye' = [eye EXCEPT !.aborted = aborted] /\ eye \in Eyes
  BY <1>1, <1>2 DEF AccountsInv, PairInv, Eyes
<1>4. eye' \in Eyes /\ eye'.chosen = eye.chosen /\ eye'.client = eye.client /\ eye'.late = eye.late
  BY <1>3 DEF Eyes
<1>5. /\ pairing' \in [Channels -> Pairing]
      /\ \A d \in Channels : /\ pairing'[d].state = pairing[d].state /\ pairing'[d].at = pairing[d].at
                             /\ pairing'[d].cand = pairing[d].cand /\ pairing'[d].ask = pairing[d].ask
                             /\ pairing'[d].base = pairing[d].base
  BY <1>1, ClosingIs DEF Channels
<1>6. /\ CommitInv' /\ PairInv' /\ EyeInv' /\ SidecarInv' /\ ClientInv' /\ LoginInv'
      /\ PairingOver(T)' = PairingOver(T) /\ PairingOver(W)' = PairingOver(W)
  BY <1>1, <1>4, <1>5, PairsStay
<1>7. ManagerInv'
  BY <1>1 DEF AccountsInv, ManagerInv, ManagerTypeOK, OpInv, Prepared, RunInv
<1>8. ClientsStay /\ ~failed' =>
        op.at # "stopping" /\ op.for \notin {"console", "unlink", "disconnect"}
  BY <1>1 DEF AppClosed, Requests
<1>9. failed' \in BOOLEAN
  BY <1>1 DEF AccountsInv, ShutInv
<1>10. ShutInv'
  BY <1>1, <1>8, <1>9 DEF AccountsInv, ShutInv
<1>. QED  BY <1>6, <1>7, <1>10 DEF AccountsInv

LEMMA TelegramTargetClosedKeeps ==
  ASSUME AccountsInv, NEW late \in BOOLEAN, TelegramTargetClosed(late)
  PROVE  AccountsInv'
<1>1. /\ shut = "telegramTarget" /\ shut' = "target" /\ failed' = (failed \/ late)
      /\ late = ~PairingClosed("telegram")
      /\ pairing' = [pairing EXCEPT !["whatsapp"].closing = TRUE]
      /\ UNCHANGED <<form, eye>> /\ UNCHANGED managerVars /\ UNCHANGED flowVars
  BY DEF TelegramTargetClosed
<1>2. UNCHANGED <<settings, paused, busy, runtime, live, op, closing, closed, login, session, sidecar, leaving>>
  BY <1>1 DEF managerVars, flowVars
<1>3. /\ pairing' \in [Channels -> Pairing]
      /\ \A d \in Channels : /\ pairing'[d].state = pairing[d].state /\ pairing'[d].at = pairing[d].at
                             /\ pairing'[d].cand = pairing[d].cand /\ pairing'[d].ask = pairing[d].ask
                             /\ pairing'[d].base = pairing[d].base
  BY <1>1, ClosingIs DEF Channels
<1>4. eye' \in Eyes /\ eye'.chosen = eye.chosen /\ eye'.client = eye.client /\ eye'.late = eye.late
  BY <1>1 DEF AccountsInv, PairInv, Eyes
<1>5. /\ CommitInv' /\ PairInv' /\ EyeInv' /\ SidecarInv' /\ ClientInv' /\ LoginInv'
      /\ PairingOver(T)' = PairingOver(T) /\ PairingOver(W)' = PairingOver(W)
  BY <1>1, <1>2, <1>3, <1>4, PairsStay
<1>6. ManagerInv'
  BY <1>2 DEF AccountsInv, ManagerInv, ManagerTypeOK, OpInv, Prepared, RunInv
<1>7. ~failed' => op.for # "telegramTarget"
  BY <1>1 DEF PairingClosed, Quiet, Pairs, AccountsInv, PairInv, PairOf, Channels
<1>8. failed' \in BOOLEAN
  BY <1>1 DEF AccountsInv, ShutInv
<1>9. ShutInv'
  BY <1>1, <1>2, <1>5, <1>7, <1>8 DEF AccountsInv, ShutInv
<1>. QED  BY <1>5, <1>6, <1>9 DEF AccountsInv

LEMMA TargetClosedKeeps ==
  ASSUME AccountsInv, NEW late \in BOOLEAN, TargetClosed(late)
  PROVE  AccountsInv'
<1>1. /\ shut = "target" /\ shut' = "connections" /\ failed' = (failed \/ late)
      /\ late = ~PairingClosed("whatsapp") /\ UNCHANGED form
      /\ UNCHANGED managerVars /\ UNCHANGED flowVars /\ UNCHANGED pairingVars
  BY DEF TargetClosed, Others
<1>2. UNCHANGED <<settings, op, pairing, login, leaving, live, paused, closing, closed>>
  BY <1>1 DEF managerVars, flowVars, pairingVars
<1>3. ~failed' => op.for # "target"
  BY <1>1 DEF PairingClosed, Quiet, Pairs, AccountsInv, PairInv, PairOf, Channels
<1>5. failed' \in BOOLEAN
  BY <1>1 DEF AccountsInv, ShutInv
<1>6. ShutInv'
  BY <1>1, <1>2, <1>3, <1>5 DEF AccountsInv, ShutInv
<1>7. CommitInv'
  BY <1>1, <1>2 DEF AccountsInv, CommitInv, Earlier
<1>. QED  BY <1>1, <1>6, <1>7, Unmoved DEF AccountsInv

LEMMA ConnectionsClosedKeeps ==
  ASSUME AccountsInv, NEW late \in BOOLEAN, ConnectionsClosed(late)
  PROVE  AccountsInv'
<1>1. /\ shut = "connections" /\ shut' = "runtime" /\ failed' = (failed \/ late)
      /\ late = (Open(login) \/ (~Quiet("login") /\ op.at # "stopping")) /\ UNCHANGED form
      /\ UNCHANGED managerVars /\ UNCHANGED flowVars /\ UNCHANGED pairingVars
  BY DEF ConnectionsClosed, Others
<1>2. UNCHANGED <<settings, op, pairing, login, leaving, live, paused, closing, closed>>
  BY <1>1 DEF managerVars, flowVars, pairingVars
<1>3. ~failed' => op.at = "stopping" \/ op.for # "login"
  BY <1>1 DEF Quiet, AccountsInv, LoginInv
<1>5. failed' \in BOOLEAN
  BY <1>1 DEF AccountsInv, ShutInv
<1>6. ShutInv'
  BY <1>1, <1>2, <1>3, <1>5 DEF AccountsInv, ShutInv
<1>7. CommitInv'
  BY <1>1, <1>2 DEF AccountsInv, CommitInv, Earlier
<1>. QED  BY <1>1, <1>6, <1>7, Unmoved DEF AccountsInv

LEMMA ExitKeeps ==
  ASSUME AccountsInv, NEW ok \in BOOLEAN, Exit(ok)
  PROVE  AccountsInv'
<1>1. /\ shut = "runtime" /\ shut' = "exited" /\ closed' = TRUE
      /\ failed' = (failed \/ ~ok) /\ paused' = (paused \/ failed \/ ~ok)
      /\ ok => op.at \in {"idle", "leased"} /\ runtime' = None /\ live' = FALSE
      /\ ~ok => UNCHANGED <<runtime, live>>
      /\ UNCHANGED <<form, settings, busy, op, closing>>
      /\ UNCHANGED flowVars /\ UNCHANGED pairingVars
  BY DEF Exit, Others
<1>2. UNCHANGED <<login, session, sidecar, leaving, pairing, eye>>
  BY <1>1 DEF flowVars, pairingVars
<1>3. closing /\ failed \in BOOLEAN /\ paused \in BOOLEAN
  BY <1>1 DEF AccountsInv, ShutInv, ManagerInv, ManagerTypeOK
<1>4. /\ Kept => Kept'
      /\ live' => live /\ runtime' = runtime
  <2>1. paused => paused'
    BY <1>1, <1>3
  <2>2. live' => ~ok
    BY <1>1
  <2>. QED  BY <1>1, <2>1, <2>2 DEF Kept
<1>5. ManagerInv'
  <2>1. ManagerTypeOK'
    BY <1>1, <1>3 DEF AccountsInv, ManagerInv, ManagerTypeOK
  <2>2. OpInv'
    BY <1>1, <1>3 DEF AccountsInv, ManagerInv, OpInv, Prepared
  <2>3. RunInv'
    BY <1>1, <1>3 DEF AccountsInv, ManagerInv, RunInv
  <2>. QED  BY <2>1, <2>2, <2>3 DEF ManagerInv
<1>6. CommitInv'
  BY <1>1, <1>2 DEF AccountsInv, CommitInv, Earlier
<1>7. PairInv'
  BY <1>1, <1>2 DEF AccountsInv, PairInv, PairOf, Earlier
<1>8. LoginInv'
  <2>1. op' = op
    BY <1>1
  <2>2. sidecar \in [on : BOOLEAN, late : SUBSET Mutations]
    BY DEF AccountsInv, LoginInv, FlowTypeOK
  <2>. QED  BY <1>2, <2>1, <2>2, LoginStands DEF AccountsInv
<1>9. ClientInv' /\ EyeInv'
  BY <1>1, <1>2, <1>4 DEF AccountsInv, ClientInv, EyeInv, EyeOpen, Open, T
<1>10. SidecarInv'
  BY <1>1, <1>2, <1>4 DEF AccountsInv, SidecarInv, SidecarBusy, Open, W, LoginSends, PairSends
<1>11. ShutInv'
  <2>1. ~paused' => ~live' /\ ~failed'
    BY <1>1, <1>3
  <2>2. failed' \in BOOLEAN
    BY <1>1, <1>3
  <2>. QED  BY <1>1, <2>1, <2>2 DEF AccountsInv, ShutInv
<1>. QED  BY <1>5, <1>6, <1>7, <1>8, <1>9, <1>10, <1>11 DEF AccountsInv

-----------------------------------------------------------------------------
(* The invariant *)

LEMMA Initial == Init => AccountsInv
<1>. SUFFICES ASSUME Init
              PROVE  AccountsInv
  OBVIOUS
<1>1. PICK p \in Peers : /\ p # Own
                         /\ settings = [revision |-> 0,
                                        bound |-> [c \in Channels |-> [on |-> TRUE, peer |-> p]]]
  BY OwnAssumption DEF Init
<1>2. settings \in Settings /\ settings.revision = 0
  BY <1>1, SettingsAssumption DEF Settings, Binding
<1>3. /\ paused = FALSE /\ busy = FALSE /\ closing = FALSE /\ closed = FALSE
      /\ runtime = settings /\ live = TRUE /\ op = Idle
      /\ login = None /\ leaving = None /\ session \in BOOLEAN
      /\ sidecar = [on |-> FALSE, late |-> {}]
      /\ pairing = [c \in Channels |-> NoPairing]
      /\ eye = Closed /\ form = settings /\ shut = "serving" /\ failed = FALSE
  BY DEF Init
<1>4. op.at = "idle" /\ op.for = "none" /\ op.update = None
  BY <1>3 DEF Idle
<1>5. ManagerInv
  <2>1. ManagerTypeOK
    BY <1>2, <1>3 DEF ManagerTypeOK
  <2>2. OpInv
    BY <1>3, <1>4 DEF OpInv
  <2>3. settings # None
    BY <1>2, SettingsAssumption
  <2>4. RunInv
    BY <1>3, <1>4, <2>3 DEF RunInv
  <2>. QED  BY <2>1, <2>2, <2>4 DEF ManagerInv
<1>6. /\ NoPairing \in Pairing /\ NoPairing.state = "over" /\ NoPairing.at = "none"
      /\ NoPairing.cand = None /\ NoPairing.ask = None
  BY DEF NoPairing, Pairing
<1>7. CommitInv
  <2>1. Earlier(form)
    BY <1>2, <1>3 DEF Earlier
  <2>2. \A c \in Channels : op.for # Pairs(c)
    BY <1>4 DEF Pairs
  <2>. QED  BY <1>2, <1>3, <1>4, <2>1, <2>2 DEF CommitInv
<1>8. \A c \in Channels : pairing[c] = NoPairing
  BY <1>3
<1>9. PairInv
  <2>1. PairParts(NoPairing) /\ PairingOver(NoPairing)
    BY <1>6 DEF PairParts, PairingOver
  <2>2. \A c \in Channels : PairOf(c)
    BY <1>4, <1>8, <2>1 DEF PairOf
  <2>3. eye \in Eyes /\ eye.chosen = None
    BY <1>3 DEF Closed, Eyes
  <2>. QED  BY <1>3, <1>6, <2>2, <2>3 DEF PairInv, Eyes
<1>10. LoginInv
  BY <1>3, <1>4 DEF LoginInv, FlowTypeOK, Open
<1>11. ~EyeOpen /\ ~SidecarBusy
  BY <1>3 DEF EyeOpen, Closed, SidecarBusy
<1>12. ClientInv /\ EyeInv /\ SidecarInv
  BY <1>3, <1>11 DEF ClientInv, EyeInv, SidecarInv
<1>13. ShutInv
  BY <1>3 DEF ShutInv
<1>. QED  BY <1>5, <1>7, <1>9, <1>10, <1>12, <1>13 DEF AccountsInv

\* The manager and its callers.
LEMMA ManagerStep ==
  ASSUME AccountsInv, shut # "exited", Manager
  PROVE  AccountsInv'
<1>1. CASE \E ok \in BOOLEAN : StopForUpdate(ok) \/ Replace(ok) \/ Unlinked(ok)
  BY <1>1, StopForUpdateKeeps, ReplaceStep, UnlinkedKeeps
<1>2. CASE \E ok \in BOOLEAN, c \in Channels : FlowLeased(ok, c)
  BY <1>2, LoginLeasedKeeps, DisconnectLeasedKeeps, PairingLeasedKeeps DEF FlowLeased
<1>3. CASE \E made, saved \in BOOLEAN : Candidate(made, saved)
  BY <1>3, CandidateStep
<1>. QED  BY <1>1, <1>2, <1>3 DEF Manager

LEMMA OperatorStep ==
  ASSUME AccountsInv, Operator
  PROVE  AccountsInv'
BY ReadFormKeeps, SaveFormKeeps, SaveTelegramTargetKeeps, UnlinkKeeps, StartFlowKeeps DEF Operator

LEMMA ShutdownStep ==
  ASSUME AccountsInv, Shutdown
  PROVE  AccountsInv'
BY BeginCloseKeeps, AppClosedKeeps, TelegramTargetClosedKeeps, TargetClosedKeeps,
   ConnectionsClosedKeeps, ExitKeeps DEF Shutdown

\* The flows.
LEMMA LoginStep ==
  ASSUME AccountsInv, shut # "exited", TelegramLogin \/ WhatsAppLogin \/ CancelFlow
  PROVE  AccountsInv'
<1>1. CASE TelegramLogin
  BY <1>1, OpenTelegramKeeps, SignInKeeps, CloseLoginKeeps, PublishSessionKeeps, ChallengeKeeps DEF TelegramLogin
<1>2. CASE WhatsAppLogin
  BY <1>2, RefreshQrKeeps, ConnectAnsweredKeeps, ConnectFailsKeeps, GaveUpKeeps, PollKeeps, PollAnsweredKeeps
  DEF WhatsAppLogin
<1>3. CASE CancelFlow
  BY <1>3, CancelLoginKeeps, CancelDrainedKeeps, CancelTimesOutKeeps, CancelDisconnectedKeeps DEF CancelFlow
<1>. QED  BY <1>1, <1>2, <1>3

LEMMA TargetStep ==
  ASSUME AccountsInv, shut # "exited", TargetFlow
  PROVE  AccountsInv'
<1>1. UNCHANGED rest
  BY DEF TargetFlow
<1>2. CASE \E ok \in BOOLEAN : AccountChecked(ok) \/ AccountVerified(ok) \/ PairingDisarmed(ok)
  BY <1>1, <1>2, AccountCheckedKeeps, AccountVerifiedKeeps, PairingDisarmedKeeps
<1>3. CASE \E c \in Candidates \cup {None} : ArmAnswered(c) \/ PairingObserved(c)
  BY <1>1, <1>3, ArmAnsweredKeeps, PairingObservedKeeps
<1>4. CASE ArmFails \/ PollPairing \/ ConfirmTarget(W.cand) \/ CancelPairing
  BY <1>1, <1>4, ArmFailsKeeps, PollPairingKeeps, ConfirmTargetKeeps, CancelPairingKeeps
<1>5. CASE \E ok, valid \in BOOLEAN : ConfirmDisarmed(ok, valid)
  BY <1>1, <1>5, ConfirmDisarmedKeeps
<1>. QED  BY <1>2, <1>3, <1>4, <1>5 DEF TargetFlow

LEMMA TelegramStep ==
  ASSUME AccountsInv, shut # "exited", TelegramFlow
  PROVE  AccountsInv'
<1>1. UNCHANGED rest
  BY DEF TelegramFlow
<1>2. CASE EyeConnects \/ AbortTelegram \/ EyeBreaks \/ \E p \in Peers : EyeSelects(p)
  BY <1>1, <1>2, EyeConnectsKeeps, EyeMovesKeep
<1>3. CASE EyeAborted \/ \E ok \in BOOLEAN : EyeFails(ok) \/ TelegramClosed(ok)
  BY <1>1, <1>3, EyeEndsKeeps
<1>4. CASE \E id \in Ids : PollTelegram(id)
  BY <1>1, <1>4, PollTelegramKeeps
<1>5. CASE \E id \in Ids, ok \in BOOLEAN : ConfirmTelegram(T.cand, id, ok)
  BY <1>1, <1>5, ConfirmTelegramKeeps
<1>6. CASE \E ok, valid \in BOOLEAN : TelegramCommits(ok, valid)
  BY <1>1, <1>6, TelegramCommitsKeeps
<1>7. CASE CancelTelegram
  BY <1>1, <1>7, CloseEyeKeeps DEF CancelTelegram
<1>. QED  BY <1>2, <1>3, <1>4, <1>5, <1>6, <1>7 DEF TelegramFlow

LEMMA Step == AccountsInv /\ [Next]_vars => AccountsInv'
<1>. SUFFICES ASSUME AccountsInv, [Next]_vars
              PROVE  AccountsInv'
  OBVIOUS
<1>1. CASE UNCHANGED vars
  <2>1. UNCHANGED <<form, shut, failed>> /\ UNCHANGED managerVars /\ UNCHANGED flowVars /\ UNCHANGED pairingVars
    BY <1>1 DEF vars
  <2>2. UNCHANGED <<settings, op, pairing, login, leaving, live, paused, closing, closed>>
    BY <2>1 DEF managerVars, flowVars, pairingVars
  <2>3. CommitInv'
    BY <2>1, <2>2 DEF AccountsInv, CommitInv, Earlier
  <2>4. ShutInv'
    BY <2>1, <2>2 DEF AccountsInv, ShutInv, T, W, Open
  <2>. QED  BY <2>1, <2>3, <2>4, Unmoved DEF AccountsInv
<1>2. CASE Next
  <2>1. shut # "exited"
    BY <1>2 DEF Next
  <2>2. CASE Manager
    BY <2>1, <2>2, ManagerStep
  <2>3. CASE Operator
    BY <2>3, OperatorStep
  <2>4. CASE Shutdown
    BY <2>4, ShutdownStep
  <2>5. CASE TelegramLogin \/ WhatsAppLogin \/ CancelFlow
    BY <2>1, <2>5, LoginStep
  <2>6. CASE TargetFlow
    BY <2>1, <2>6, TargetStep
  <2>7. CASE TelegramFlow
    BY <2>1, <2>7, TelegramStep
  <2>8. CASE LateEffect
    BY <2>8, LateEffectKeeps
  <2>9. CASE \E ok \in BOOLEAN : Disconnect(ok)
    BY <2>1, <2>9, DisconnectEndsKeeps
  <2>10. CASE \E c \in Channels : Deadline(c)
    BY <2>10, PairingDueKeeps DEF Deadline
  <2>. QED  BY <1>2, <2>2, <2>3, <2>4, <2>5, <2>6, <2>7, <2>8, <2>9, <2>10 DEF Next
<1>. QED  BY <1>1, <1>2

LEMMA Invariance == Spec => []AccountsInv
<1>. QED  BY Initial, Step, PTL DEF Spec

-----------------------------------------------------------------------------
(* What the accounts are for *)

\* A cancelled login of connection-service.ts leaves no session file, and the code on
\* display is that of the latest attempt.
THEOREM LoginShown == Spec => []LoginIsHonest
<1>1. AccountsInv => LoginIsHonest
  BY DEF AccountsInv, LoginInv, FlowOf, LoginIsHonest, CancelledLeavesNoSession, ShownQrIsCurrent
<1>. QED  BY <1>1, Invariance, PTL

\* Two users of one account shut each other out.
LEMMA UserIsAlone ==
  ASSUME AccountsInv, NEW c \in Channels, NEW u \in Users(c), NEW v \in Users(c)
  PROVE  u = v
<1>1. /\ u \in {"coordinator", "login", "observer", "sidecar"}
      /\ v \in {"coordinator", "login", "observer", "sidecar"}
  BY DEF Users
<1>2. /\ "coordinator" \in Users(c) => live
      /\ "login" \in Users(c) => c = "telegram" /\ login # None /\ login.client
      /\ "observer" \in Users(c) => c = "telegram" /\ EyeOpen
      /\ "sidecar" \in Users(c) => c = "whatsapp" /\ SidecarBusy
  BY DEF Users, CoordinatorUses, EyeOpen
<1>3. login # None /\ login.client => ~live /\ ~EyeOpen
  BY DEF AccountsInv, ClientInv
<1>4. EyeOpen => ~live
  BY DEF AccountsInv, EyeInv
<1>5. SidecarBusy /\ c = "whatsapp" => "coordinator" \notin Users(c)
  <2>. SUFFICES ASSUME SidecarBusy, c = "whatsapp", "coordinator" \in Users(c)
                PROVE  FALSE
    OBVIOUS
  <2>1. live /\ (runtime # None => runtime.bound["whatsapp"].on)
    BY DEF Users, CoordinatorUses
  <2>2. op.at # "leased"
    BY <2>1 DEF AccountsInv, ManagerInv, RunInv
  <2>3. ~Open(login) /\ leaving = None
    BY <2>2 DEF AccountsInv, LoginInv
  <2>4. "whatsapp" # None
    BY SettingsAssumption DEF Channels
  <2>5. op.at = "unlinking" \/ (Kept /\ ~runtime.bound["whatsapp"].on)
    BY <2>1, <2>2, <2>3, <2>4 DEF AccountsInv, SidecarInv
  <2>6. CASE op.at = "unlinking"
    <3>1. runtime = settings /\ op.for = "unlink" /\ settings = op.update /\ ~op.update.bound["whatsapp"].on
      BY <2>6 DEF AccountsInv, ManagerInv, RunInv, OpInv
    <3>2. settings # None
      BY SettingsAssumption DEF AccountsInv, ManagerInv, ManagerTypeOK
    <3>. QED  BY <2>1, <3>1, <3>2
  <2>7. CASE Kept /\ ~runtime.bound["whatsapp"].on
    <3>1. runtime # None
      BY <2>1, <2>7 DEF AccountsInv, ManagerInv, RunInv, Kept
    <3>. QED  BY <2>1, <2>7, <3>1
  <2>. QED  BY <2>5, <2>6, <2>7
<1>. QED  BY <1>1, <1>2, <1>3, <1>4, <1>5

\* The coordinator, the client of a login, the observer of a pairing and the sidecar's
\* attempt never use one account together, whatever was cancelled, timed out or closed.
THEOREM OneUser == Spec => []OneOwner
<1>1. ASSUME AccountsInv, NEW c \in Channels
      PROVE  Cardinality(Users(c)) <= 1
  <2>1. CASE Users(c) = {}
    BY <2>1, FS_EmptySet
  <2>2. CASE Users(c) # {}
    <3>1. PICK u \in Users(c) : TRUE
      BY <2>2
    <3>2. Users(c) = {u}
      BY <1>1, <3>1, UserIsAlone
    <3>. QED  BY <3>2, FS_Singleton
  <2>. QED  BY <2>1, <2>2
<1>2. AccountsInv => OneOwner
  BY <1>1 DEF OneOwner
<1>. QED  BY <1>2, Invariance, PTL

\* Who uses an account while nobody is in charge of it keeps the manager and the pause.
LEMMA ForgottenIsHeld ==
  ASSUME AccountsInv, NEW c \in Channels, NEW u \in Users(c), ~InCharge(u)
  PROVE  busy /\ paused
<1>1. u \in {"coordinator", "login", "observer", "sidecar"}
  BY DEF Users
<1>2. CASE u = "coordinator"
  <2>1. live /\ runtime = None /\ op.at \in {"idle", "leased"}
    BY <1>2 DEF Users, CoordinatorUses, InCharge
  <2>. QED  BY <2>1 DEF AccountsInv, ManagerInv, RunInv
<1>3. CASE u = "login"
  <2>1. login # None /\ login.client /\ ~Open(login)
    BY <1>3 DEF Users, InCharge
  <2>. QED  BY <2>1 DEF AccountsInv, ClientInv, Kept
<1>4. CASE u = "observer"
  <2>1. EyeOpen /\ PairingOver(T)
    BY <1>4 DEF Users, InCharge, EyeOpen
  <2>. QED  BY <2>1 DEF AccountsInv, EyeInv, Kept
<1>5. CASE u = "sidecar"
  <2>1. SidecarBusy /\ ~Open(login) /\ PairingOver(W) /\ leaving = None /\ op.at # "unlinking"
    BY <1>5 DEF Users, InCharge
  <2>2. "whatsapp" # None
    BY SettingsAssumption DEF Channels
  <2>. QED  BY <2>1, <2>2 DEF AccountsInv, SidecarInv, Kept
<1>. QED  BY <1>1, <1>2, <1>3, <1>4, <1>5

\* What a shut down process leaves behind, unless an operator withdrew a request.
LEMMA LeftIsHeld ==
  ASSUME AccountsInv, ClientsStay, shut = "exited", NEW c \in Channels, NEW u \in Users(c)
  PROVE  paused
<1>. SUFFICES ASSUME ~paused
              PROVE  FALSE
  OBVIOUS
<1>1. ~live /\ ~failed
  BY DEF AccountsInv, ShutInv
<1>2. op.for \notin {"unlink", "disconnect", "telegramTarget", "target", "login"}
  BY <1>1 DEF AccountsInv, ShutInv
<1>3. ~Open(login) /\ leaving = None /\ op.at # "unlinking"
  BY <1>2 DEF AccountsInv, LoginInv, ManagerInv, OpInv
<1>4. PairingOver(T) /\ PairingOver(W)
  BY <1>2 DEF AccountsInv, PairInv, PairOf, Pairs, T, W, Channels
<1>5. ~InCharge(u)
  <2>1. u \in {"coordinator", "login", "observer", "sidecar"}
    BY DEF Users
  <2>2. u # "coordinator"
    BY <1>1 DEF Users, CoordinatorUses
  <2>. QED  BY <1>3, <1>4, <2>1, <2>2 DEF InCharge
<1>. QED  BY <1>5, ForgottenIsHeld

\* A cleanup of unknown outcome, of a login, an observer or the sidecar, keeps the manager
\* and the durable pause; the process leaves no user behind without it, provided that no
\* client closes its connection before it is answered.  The shutdown may still come while a
\* timer cancels a flow or the work of a login gives its lease back.
THEOREM UnknownKept ==
  ASSUME ClientsStay
  PROVE  Spec => []UnknownIsHeld
<1>1. AccountsInv => UnknownIsHeld
  BY ForgottenIsHeld, LeftIsHeld DEF UnknownIsHeld
<1>. QED  BY <1>1, Invariance, PTL

-----------------------------------------------------------------------------
(* The commits *)

\* What a flow does to the manager leaves the document alone.
LEMMA LoginCommitsNothing ==
  ASSUME NEW f, NEW state, NEW safe, NEW status, NEW attempt,
         \/ Continue(f) \/ FinishLogin(f, state, safe) \/ WorkEnds(f, state, safe)
         \/ ApplyStatus(f, status, attempt)
  PROVE  settings' = settings
<1>1. ASSUME NEW g, NEW s, NEW b, FinishLogin(g, s, b)
      PROVE  settings' = settings
  BY <1>1 DEF FinishLogin, Release, managerVars
<1>2. ASSUME NEW g, Continue(g)
      PROVE  settings' = settings
  BY <1>2 DEF Continue, managerVars
<1>3. CASE WorkEnds(f, state, safe)
  BY <1>1, <1>2, <1>3 DEF WorkEnds
<1>4. CASE ApplyStatus(f, status, attempt)
  BY <1>1, <1>2, <1>4 DEF ApplyStatus
<1>. QED  BY <1>1, <1>2, <1>3, <1>4

LEMMA FlowCommitsNothing ==
  ASSUME TelegramLogin \/ WhatsAppLogin \/ CancelFlow
  PROVE  settings' = settings
<1>1. CASE TelegramLogin
  BY <1>1, LoginCommitsNothing
  DEF TelegramLogin, OpenTelegram, SignIn, CloseLogin, PublishSession, Challenge, managerVars
<1>2. CASE WhatsAppLogin
  BY <1>2, LoginCommitsNothing
  DEF WhatsAppLogin, RefreshQr, ConnectAnswered, ConnectFails, GaveUp, Poll, PollAnswered
<1>3. CASE CancelFlow
  BY <1>3, LoginCommitsNothing
  DEF CancelFlow, CancelLogin, CancelDrained, CancelTimesOut, CancelDisconnected, Cancelled
<1>. QED  BY <1>1, <1>2, <1>3

LEMMA PairingCommitsNothing ==
  ASSUME TargetFlow \/ TelegramFlow
  PROVE  settings' = settings
<1>1. ASSUME NEW c, NEW p, Stay(c, p)
      PROVE  settings' = settings
  BY <1>1 DEF Stay, Held, managerVars
<1>2. ASSUME NEW c, NEW p, NEW safe, NEW update, NEW valid, EndPairing(c, p, safe, update, valid)
      PROVE  settings' = settings
  BY <1>2 DEF EndPairing, Release
<1>3. CASE TargetFlow
  BY <1>1, <1>2, <1>3
  DEF TargetFlow, AccountChecked, AccountVerified, PairingDisarmed, ArmAnswered, PairingObserved, ArmFails,
      PollPairing, ConfirmTarget, ConfirmDisarmed, CancelPairing, Disarm, EndW
<1>4. CASE TelegramFlow
  <2>1. Held => settings' = settings
    BY DEF Held, managerVars
  <2>. QED  BY <1>1, <1>2, <1>4, <2>1
            DEF TelegramFlow, EyeConnects, EyeAborted, EyeBreaks, EyeFails, TelegramClosed, EyeSelects,
                PollTelegram, ConfirmTelegram, TelegramCommits, AbortTelegram, CancelTelegram, CloseEye,
                StayT, EndT
<1>. QED  BY <1>3, <1>4

LEMMA OperatorCommitsNothing ==
  ASSUME Operator
  PROVE  settings' = settings
<1>1. ASSUME NEW owner, NEW update, Claim(owner, update)
      PROVE  settings' = settings
  BY <1>1 DEF Claim
<1>. QED  BY <1>1 DEF Operator, ReadForm, SaveForm, SaveTelegramTarget, Unlink, StartFlow, Apply, Acquire,
                      BeginLogin, BeginDisconnect, BeginPairing, managerVars

LEMMA OnlyCandidatesCommit ==
  ASSUME [Next]_vars, settings' # settings
  PROVE  \E made, saved \in BOOLEAN : Candidate(made, saved)
<1>1. CASE UNCHANGED vars
  BY <1>1 DEF vars, managerVars
<1>2. CASE Next
  <2>1. CASE Manager
    <3>1. ~(\E ok \in BOOLEAN : StopForUpdate(ok) \/ Replace(ok) \/ Unlinked(ok))
      BY DEF StopForUpdate, StopRuntime, Replace, DiscardCandidate, Restart, Retire, Unlinked
    <3>2. ~(\E ok \in BOOLEAN, c \in Channels : FlowLeased(ok, c))
      BY DEF FlowLeased, LoginLeased, DisconnectLeased, PairingLeased, StopRuntime
    <3>. QED  BY <2>1, <3>1, <3>2 DEF Manager
  <2>2. ~Shutdown
    BY DEF Shutdown, BeginClose, AppClosed, TelegramTargetClosed, TargetClosed, ConnectionsClosed, Exit, managerVars
  <2>3. ~LateEffect /\ ~\E ok \in BOOLEAN : Disconnect(ok)
    BY DEF LateEffect, Disconnect, DisconnectEnds, Release, managerVars
  <2>4. ~\E c \in Channels : Deadline(c)
    BY DEF Deadline, PairingDue, Stay, Held, managerVars
  <2>. QED  BY <1>2, <2>1, <2>2, <2>3, <2>4, FlowCommitsNothing, PairingCommitsNothing, OperatorCommitsNothing DEF Next
<1>. QED  BY <1>1, <1>2

LEMMA CommitIsMeant ==
  ASSUME AccountsInv, [Next]_vars, settings' # settings
  PROVE  Commit
<1>1. PICK made \in BOOLEAN, saved \in BOOLEAN : Candidate(made, saved)
  BY OnlyCandidatesCommit
<1>2. op.at = "creating" /\ settings' = op.update
  BY <1>1 DEF Candidate, CreateCandidate
<1>3. op.update # None
  BY <1>2 DEF AccountsInv, ManagerInv, OpInv
<1>4. /\ \E c \in Channels : op.update = Rebound(settings, c, op.update.bound[c])
      /\ \A c \in Channels : op.for = Pairs(c) =>
           /\ op.update.bound[c].peer = pairing[c].ask.peer
           /\ op.update.bound[c].peer # Own
  BY <1>2, <1>3 DEF AccountsInv, CommitInv
<1>. QED  BY <1>2, <1>4 DEF Commit

\* Each commit is one revision on the last and changes one binding; the receiver a pairing
\* found is the candidate the operator confirmed, and never the account itself.
THEOREM CommitsMeant == Spec => CommitsAreMeant
<1>1. AccountsInv /\ [Next]_vars => [settings' # settings => Commit]_vars
  BY CommitIsMeant
<1>. QED  BY <1>1, Invariance, PTL DEF Spec, CommitsAreMeant

\* The file of the settings: only the save of a candidate writes it.
StoredInv == stored \in 0 .. MaxRevision /\ SavedIsKept

LEMMA OnlyCandidatesStore ==
  ASSUME [Next]_vars, stored' # stored
  PROVE  \E made, saved \in BOOLEAN : Candidate(made, saved)
<1>1. CASE Manager
  <2>1. ~(\E ok \in BOOLEAN : StopForUpdate(ok) \/ Replace(ok) \/ Unlinked(ok))
    BY DEF StopForUpdate, Replace, Unlinked, rest
  <2>2. ~(\E ok \in BOOLEAN, c \in Channels : FlowLeased(ok, c))
    BY DEF FlowLeased, rest
  <2>. QED  BY <1>1, <2>1, <2>2 DEF Manager
<1>2. ~Operator
  BY DEF Operator, ReadForm, SaveForm, SaveTelegramTarget, Unlink, StartFlow, rest
<1>3. ~Shutdown
  BY DEF Shutdown, BeginClose, AppClosed, TelegramTargetClosed, TargetClosed,
     ConnectionsClosed, Exit
<1>4. ~(TelegramLogin \/ WhatsAppLogin \/ CancelFlow \/ TargetFlow \/ TelegramFlow \/ LateEffect)
  BY DEF TelegramLogin, WhatsAppLogin, CancelFlow, TargetFlow, TelegramFlow, LateEffect, rest
<1>5. ~((\E ok \in BOOLEAN : Disconnect(ok)) \/ (\E c \in Channels : Deadline(c)))
  BY DEF Disconnect, Deadline, rest
<1>6. ~UNCHANGED vars
  BY DEF vars
<1>. QED  BY <1>1, <1>2, <1>3, <1>4, <1>5, <1>6 DEF Next

LEMMA StoredStep ==
  ASSUME AccountsInv, StoredInv, [Next]_vars
  PROVE  StoredInv'
<1>1. ASSUME NEW made \in BOOLEAN, NEW saved \in BOOLEAN, Candidate(made, saved)
      PROVE  StoredInv'
  <2>1. op.update \in Updates /\ Prepared(op.update)
    BY <1>1 DEF Candidate, CreateCandidate, AccountsInv, ManagerInv, OpInv, ManagerTypeOK, Idle
  <2>2. op.update.revision \in 0 .. MaxRevision /\ op.update.revision = settings.revision + 1
    BY <2>1, PreparedFits DEF AccountsInv, Settings, Prepared
  <2>3. \/ settings' = settings /\ stored' \in {stored, op.update.revision}
        \/ settings' = op.update /\ stored' = op.update.revision
    BY <1>1 DEF Candidate, CreateCandidate
  <2>. QED  BY <2>2, <2>3 DEF StoredInv, SavedIsKept
<1>2. CASE ~\E made, saved \in BOOLEAN : Candidate(made, saved)
  <2>1. stored' = stored /\ settings' = settings
    BY <1>2, OnlyCandidatesStore, OnlyCandidatesCommit
  <2>. QED  BY <2>1 DEF StoredInv, SavedIsKept
<1>. QED  BY <1>1, <1>2

LEMMA StoredInvariance == Spec => []StoredInv
<1>1. Init => StoredInv
  BY SettingsAssumption DEF Init, StoredInv, SavedIsKept
<1>2. AccountsInv /\ StoredInv /\ [Next]_vars => StoredInv'
  BY StoredStep
<1>. QED  BY <1>1, <1>2, Invariance, PTL DEF Spec

LEMMA TypesFollow == AccountsInv /\ StoredInv => TypeOK
<1>. SUFFICES ASSUME AccountsInv, StoredInv
              PROVE  TypeOK
  OBVIOUS
<1>1. ManagerTypeOK /\ FlowTypeOK
  BY DEF AccountsInv, ManagerInv, LoginInv
<1>2. PairingTypeOK
  BY DEF AccountsInv, PairInv, Pairing, PairingTypeOK
<1>3. shut \in {Steps[i] : i \in DOMAIN Steps}
  <2>1. shut \in {Steps[1], Steps[2], Steps[3], Steps[4], Steps[5], Steps[6], Steps[7]}
    BY DEF AccountsInv, ShutInv, Steps
  <2>2. DOMAIN Steps = 1 .. 7
    BY DEF Steps
  <2>. QED  BY <2>1, <2>2
<1>. QED  BY <1>1, <1>2, <1>3 DEF AccountsInv, CommitInv, ShutInv, StoredInv, TypeOK

\* Every variable of the account management keeps its type: the document and the claim of
\* runtime-manager.ts, the Flow of connection-service.ts and those of the two pairing services.
THEOREM TypeCorrect == Spec => []TypeOK
BY Invariance, StoredInvariance, TypesFollow, PTL

\* Outside an operation the coordinator runs the committed settings; where another
\* candidate may still be alive, the manager is kept and the pause is durable.  The file
\* of configuration-store.ts has the committed settings or the change of them that failed
\* with its file already in place.
THEOREM CommittedIsRun == Spec => []RunningIsCommitted
<1>1. AccountsInv /\ StoredInv => RunningIsCommitted
  BY DEF AccountsInv, ManagerInv, RunInv, RunningIsCommitted, RunsCommitted, StoredInv
<1>. QED  BY <1>1, Invariance, StoredInvariance, PTL
====
