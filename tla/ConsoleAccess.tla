----------------------------- MODULE ConsoleAccess -----------------------------
(***************************************************************************)
(* Who may use the console: the account file and its bootstrap credentials *)
(* (apps/bridge/src/console-account.ts), the sessions of console-auth.ts,  *)
(* offline recovery (cli-commands.ts) and what the browser's tabs take     *)
(* themselves to be (apps/console/src/main.tsx, api.ts).                   *)
(*                                                                         *)
(* A login stands for a user name with its password.  Verifying one and    *)
(* unlinking a file take a while; everything else of a handler is one step.*)
(***************************************************************************)
EXTENDS Naturals, FiniteSets

CONSTANTS
  Tabs, Logins,
  NoLogin, Unlinked,   \* no bootstrap file yet; none: it was unlinked, or a legacy hash is the password
  SessionLimit,
  MaxSignIns,          \* bound: sessions ever opened
  MaxAccountRevision   \* bound: revisions of the account

VARIABLES
  process,    \* which process holds the data directory, and how far it is
  account,    \* the file, the state in memory, the bootstrap file
  change,     \* update() or recover() under way
  verifying,  \* POST /session under way
  sessions,   \* sessions[i]: proven is the login it was opened with
  browser,    \* the cookie, and the session each tab takes itself to have
  refusals    \* 401 answers on their way to a tab

accessVars == <<process, account, change, verifying, sessions, browser, refusals>>

Unsaved == [login |-> NoLogin, revision |-> 0, credential_revision |-> 0]
NoChange == [at |-> "none", tab |-> {}, current |-> NoLogin, next |-> Unsaved]
NotVerifying == [tab |-> {}, login |-> NoLogin, snapshot |-> Unsaved, previous |-> 0]
NoSession == [state |-> "none", credential_revision |-> 0, proven |-> NoLogin]

AccessInit ==
  /\ process = [is |-> "none", by |-> "service"]
  /\ \E none \in {NoLogin, Unlinked} :
       account = [file |-> Unsaved, memory |-> Unsaved, bootstrap |-> none]
  /\ change = NoChange /\ verifying = NotVerifying
  /\ sessions = [i \in 1..MaxSignIns |-> NoSession]
  /\ browser = [cookie |-> 0, tabs |-> [t \in Tabs |-> 0]]
  /\ refusals = {}

Serving == process = [is |-> "ready", by |-> "service"]

\* The hook of every admin request.
Honoured(i) ==
  /\ Serving /\ i # 0 /\ sessions[i].state = "live"
  /\ sessions[i].credential_revision = account.memory.credential_revision

-----------------------------------------------------------------------------
(* The process: the service, or console recover while it is stopped; the    *)
(* lock lets one of them in.                                               *)

First(l) == [login |-> l, revision |-> 1, credential_revision |-> 1]

\* openConsoleAccount finds the file, or makes an account: a generated password goes
\* to the bootstrap file first, unless the configuration names a legacy password hash.
OpenAccount(by, l) ==
  /\ process.is = "none"
  /\ IF account.file # Unsaved
     THEN /\ account' = [account EXCEPT !.memory = account.file]
          /\ process' = [is |-> "ready", by |-> by]
     ELSE /\ account' = [account EXCEPT !.memory = First(l), !.bootstrap = IF @ = Unlinked THEN @ ELSE l]
          /\ process' = [is |-> "opening", by |-> by]
  /\ UNCHANGED <<change, verifying, sessions, browser, refusals>>

WriteAccount ==
  /\ process.is = "opening"
  /\ account' = [account EXCEPT !.file = account.memory] /\ process' = [process EXCEPT !.is = "ready"]
  /\ UNCHANGED <<change, verifying, sessions, browser, refusals>>

\* The process ends or crashes: the sessions and whatever was under way are gone.
StopProcess ==
  /\ process.is # "none" /\ process' = [process EXCEPT !.is = "none"]
  /\ account' = [account EXCEPT !.memory = Unsaved]
  /\ change' = NoChange /\ verifying' = NotVerifying
  /\ sessions' = [i \in 1..MaxSignIns |-> IF sessions[i].state = "none" THEN NoSession
                                          ELSE [sessions[i] EXCEPT !.state = "gone"]]
  /\ UNCHANGED <<browser, refusals>>

-----------------------------------------------------------------------------
(* Changing the account.                                                    *)

Rotates(next) == next.credential_revision # account.memory.credential_revision

Changed(l, rotation) ==
  [login |-> l, revision |-> account.memory.revision + 1,
   credential_revision |-> account.memory.credential_revision + (IF rotation THEN 1 ELSE 0)]

AfterVerified(next) == IF Rotates(next) THEN "unlinking" ELSE "writing"

\* update() of a form that holds the present revision, and recover() of the operator.
BeginChange(by, l, rotation) ==
  /\ change = NoChange /\ account.memory.revision \in 1..(MaxAccountRevision - 1)
  /\ rotation \/ l = account.memory.login
  /\ LET next == Changed(l, rotation) IN
     \/ /\ Serving /\ \E t \in Tabs, current \in Logins :
             /\ Honoured(browser.cookie) /\ by = {t} /\ browser.tabs[t] = browser.cookie
             /\ change' = [at |-> "verifying", tab |-> {t}, current |-> current, next |-> next]
     \/ /\ process = [is |-> "ready", by |-> "recovery"] /\ by = {}
        /\ change' = [at |-> AfterVerified(next), tab |-> {}, current |-> NoLogin, next |-> next]
  /\ UNCHANGED <<process, account, verifying, sessions, browser, refusals>>

\* The current password is right, or invalid_current_password.
PasswordChecked ==
  /\ change.at = "verifying"
  /\ change' = IF change.current = account.memory.login
               THEN [change EXCEPT !.at = AfterVerified(change.next)] ELSE NoChange
  /\ UNCHANGED <<process, account, verifying, sessions, browser, refusals>>

UnlinkBootstrap ==
  /\ change.at = "unlinking"
  /\ account' = [account EXCEPT !.bootstrap = Unlinked] /\ change' = [change EXCEPT !.at = "writing"]
  /\ UNCHANGED <<process, verifying, sessions, browser, refusals>>

\* The new account is written.  Sessions end with the credentials, the tab's own at once.
CommitChange ==
  LET rotation == Rotates(change.next) IN
  /\ change.at = "writing" /\ change' = NoChange
  /\ account' = [account EXCEPT !.file = change.next, !.memory = change.next]
  /\ sessions' = IF rotation THEN [i \in 1..MaxSignIns |-> IF sessions[i].state = "none" THEN NoSession
                                                           ELSE [sessions[i] EXCEPT !.state = "gone"]]
                 ELSE sessions
  /\ browser' = IF rotation /\ change.tab # {}
                THEN [cookie |-> 0, tabs |-> [t \in Tabs |-> IF t \in change.tab THEN 0 ELSE browser.tabs[t]]]
                ELSE browser
  /\ UNCHANGED <<process, verifying, refusals>>

\* The bootstrap file cannot be unlinked, or the new account cannot be written.  A write
\* that fails at the last, when the directory is synced, has put the new file in place.
ChangeFails ==
  /\ change.at \in {"unlinking", "writing"} /\ change' = NoChange
  /\ \/ UNCHANGED account
     \/ change.at = "writing" /\ account' = [account EXCEPT !.file = change.next]
  /\ UNCHANGED <<process, verifying, sessions, browser, refusals>>

-----------------------------------------------------------------------------
(* Signing in and out.                                                      *)

SignIn(t, l) ==
  /\ Serving /\ verifying = NotVerifying /\ browser.tabs[t] = 0
  /\ verifying' = [tab |-> {t}, login |-> l, snapshot |-> account.memory, previous |-> browser.cookie]
  /\ UNCHANGED <<process, account, change, sessions, browser, refusals>>

\* Faulty: an account changed while the password was verified is not noticed.
AuthenticatesThen == verifying.login = verifying.snapshot.login

\* authenticate, after the password was verified against the snapshot.
Authenticates ==
  /\ verifying.login = verifying.snapshot.login
  /\ verifying.snapshot.credential_revision = account.memory.credential_revision

\* The rest of POST /session: expired sessions are pruned, the cookie's last one is
\* replaced.  The answer may be lost on its way.
SignedIn(arrives) ==
  LET pruned == [j \in 1..MaxSignIns |-> IF sessions[j].state = "expired" THEN [sessions[j] EXCEPT !.state = "gone"]
                                         ELSE sessions[j]]
      live == {j \in 1..MaxSignIns : pruned[j].state = "live"}
  IN
  /\ verifying # NotVerifying /\ verifying' = NotVerifying
  /\ IF ~Authenticates THEN UNCHANGED <<sessions, browser>>
     ELSE IF Cardinality(live) >= SessionLimit THEN sessions' = pruned /\ UNCHANGED browser
     ELSE \E i \in 1..MaxSignIns :
       /\ sessions[i] = NoSession /\ \A j \in 1..(i - 1) : sessions[j] # NoSession
       /\ sessions' = [j \in 1..MaxSignIns |->
            IF j = i THEN [state |-> "live", credential_revision |-> account.memory.credential_revision,
                           proven |-> verifying.login]
            ELSE IF j = verifying.previous THEN [pruned[j] EXCEPT !.state = "gone"] ELSE pruned[j]]
       /\ browser' = IF arrives
                     THEN [cookie |-> i, tabs |-> [t \in Tabs |-> IF t \in verifying.tab THEN i ELSE browser.tabs[t]]]
                     ELSE browser
  /\ UNCHANGED <<process, account, change, refusals>>

\* A session lives eight hours; the tab keeps its own time of it.
Expire(i) ==
  /\ sessions[i].state = "live" /\ sessions' = [sessions EXCEPT ![i].state = "expired"]
  /\ UNCHANGED <<process, account, change, verifying, browser, refusals>>
TabExpires(t) ==
  /\ browser.tabs[t] # 0 /\ sessions[browser.tabs[t]].state = "expired"
  /\ browser' = [browser EXCEPT !.tabs[t] = 0]
  /\ UNCHANGED <<process, account, change, verifying, sessions, refusals>>

\* A request the hook refuses: the session it names is deleted, and the answer will
\* sign the tab out, whatever session it has by then.
Request(t) ==
  /\ Serving /\ browser.tabs[t] # 0 /\ ~Honoured(browser.cookie) /\ t \notin refusals
  /\ sessions' = IF browser.cookie = 0 THEN sessions ELSE [sessions EXCEPT ![browser.cookie].state = "gone"]
  /\ refusals' = refusals \cup {t}
  /\ UNCHANGED <<process, account, change, verifying, browser>>
Unauthorized(t) ==
  /\ t \in refusals /\ refusals' = refusals \ {t} /\ browser' = [browser EXCEPT !.tabs[t] = 0]
  /\ UNCHANGED <<process, account, change, verifying, sessions>>

\* DELETE /session needs the CSRF token of the cookie's session.
LogOut(t) ==
  /\ Honoured(browser.cookie) /\ browser.tabs[t] = browser.cookie
  /\ sessions' = [sessions EXCEPT ![browser.cookie].state = "gone"]
  /\ browser' = [browser EXCEPT !.cookie = 0, !.tabs[t] = 0]
  /\ UNCHANGED <<process, account, change, verifying, refusals>>

\* A page that loads asks GET /session who it is.
Reload(t) ==
  /\ browser' = [browser EXCEPT !.tabs[t] = IF Honoured(browser.cookie) THEN browser.cookie ELSE 0]
  /\ refusals' = refusals \ {t}
  /\ UNCHANGED <<process, account, change, verifying, sessions>>

AccessNext ==
  \/ WriteAccount \/ StopProcess \/ PasswordChecked \/ UnlinkBootstrap \/ CommitChange \/ ChangeFails
  \/ \E by \in {"service", "recovery"}, l \in Logins : OpenAccount(by, l)
  \/ \E by \in {{}} \cup {{t} : t \in Tabs}, l \in Logins, rotation \in BOOLEAN : BeginChange(by, l, rotation)
  \/ \E arrives \in BOOLEAN : SignedIn(arrives)
  \/ \E i \in 1..MaxSignIns : Expire(i)
  \/ \E t \in Tabs : \/ TabExpires(t) \/ Request(t) \/ Unauthorized(t) \/ LogOut(t) \/ Reload(t)
                     \/ \E l \in Logins : SignIn(t, l)

-----------------------------------------------------------------------------

\* Only a session opened with the credentials now in force is honoured, even when they
\* are changed while a password is being verified (console-account.ts:57).
HonouredIsProven ==
  \A i \in 1..MaxSignIns : Honoured(i) => sessions[i].proven = account.memory.login

\* The bootstrap file never names another password than the one in force or the one a
\* restart would bring, and wherever a crash comes, the account is never left with a
\* generated password that was never in it (console-account.ts:34, 47).
BootstrapIsCurrent ==
  \A stored \in {account.file, account.memory} \ {Unsaved} :
    account.bootstrap \in {Unlinked, stored.login}

\* A restart takes back no change that was answered.  What it may bring is the one change
\* after it that was answered as failed, never other credentials under the revision of
\* those in force (console-account.ts:48).
RestartKeepsAnswered ==
  process.is = "ready" /\ account.file # account.memory =>
    /\ account.file.revision = account.memory.revision + 1
    /\ account.file.login # account.memory.login =>
         account.file.credential_revision = account.memory.credential_revision + 1

\* The console lets in whoever knows the present credentials, and nobody else, and who
\* they are is not undone.
AccessIsCurrent == HonouredIsProven /\ BootstrapIsCurrent /\ RestartKeepsAnswered
=============================================================================
