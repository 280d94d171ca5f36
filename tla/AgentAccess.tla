------------------------------ MODULE AgentAccess ------------------------------
(***************************************************************************)
(* Agents and their tokens: the credentials file the bridge keeps          *)
(* (apps/bridge/src/agent-credentials.ts), the command line that issues a  *)
(* token into a file (cli-agents.ts, cli-api.ts), and the calls an agent   *)
(* asks for over the MCP server and the control client                     *)
(* (packages/control-client/src/index.ts), whose answers may be lost.      *)
(*                                                                         *)
(* A token is numbered by the run of the command line that asked for it.   *)
(* The bridge handles a request in one step; the side that sent it may     *)
(* have given up before, or never hear of it.                              *)
(***************************************************************************)
EXTENDS Naturals

CONSTANTS
  Agents, Keys,
  MaxRuns,          \* bound: runs of `agents create` and `agents rotate`
  MaxAttempts       \* bound: POST /v1/calls an agent ever sends

VARIABLES
  credentials,  \* the agents in memory and in the file
  runs,         \* runs[r]: how far the command line is, and what it told the operator
  commands,     \* calls agents have asked for; by is the attempt that made one
  attempts      \* attempts[i]: the request, the bridge's answer, what the agent was told

agentVars == <<credentials, runs, commands, attempts>>

NoCredential == [token |-> 0, revoked |-> FALSE]
NoRun == [at |-> "none", agent |-> {}, answer |-> "none", told |-> "nothing"]
NoAttempt == [at |-> "none", agent |-> {}, token |-> 0, key |-> {}, answer |-> "none", told |-> "nothing"]

AgentsInit ==
  /\ credentials = [memory |-> [a \in Agents |-> NoCredential], file |-> [a \in Agents |-> NoCredential]]
  /\ runs = [r \in 1..MaxRuns |-> NoRun]
  /\ commands = {}
  /\ attempts = [i \in 1..MaxAttempts |-> NoAttempt]

-----------------------------------------------------------------------------
(* The bridge's side of the credentials.                                    *)

\* save: the file is replaced before memory is, and its directory synced last, so a
\* failure leaves memory behind the file, or neither changed.
Saved(next, how) ==
  [memory |-> IF how = "saved" THEN next ELSE credentials.memory,
   file |-> IF how = "not written" THEN credentials.file ELSE next]

\* create and rotate, for a request still on its way.
Issue(r, a, how) ==
  /\ runs[r].at # "none" /\ runs[r].answer = "none"
  /\ \/ runs[r].agent = {} /\ credentials.memory[a] = NoCredential
     \/ runs[r].agent = {a} /\ credentials.memory[a] # NoCredential /\ ~credentials.memory[a].revoked
  /\ credentials' = Saved([credentials.memory EXCEPT ![a] = [token |-> r, revoked |-> FALSE]], how)
  /\ runs' = [runs EXCEPT ![r].agent = {a}, ![r].answer = IF how = "saved" THEN "issued" ELSE "internal_error"]
  /\ UNCHANGED <<commands, attempts>>

\* invalid_target and agent_limit, agent_not_found and agent_revoked.
RefuseToIssue(r) ==
  /\ runs[r].at # "none" /\ runs[r].answer = "none"
  /\ \A a \in runs[r].agent : credentials.memory[a] = NoCredential \/ credentials.memory[a].revoked
  /\ runs' = [runs EXCEPT ![r].answer = "refused"]
  /\ UNCHANGED <<credentials, commands, attempts>>

Revoked(a) == [credentials.memory EXCEPT ![a].revoked = TRUE]

\* An operator revokes an agent from the console or the command line.
Revoke(a, how) ==
  /\ credentials.memory[a] # NoCredential /\ credentials' = Saved(Revoked(a), how)
  /\ UNCHANGED <<runs, commands, attempts>>

\* The bridge restarts and reads the file; requests it had not answered are lost.
RestartBridge ==
  /\ credentials' = [credentials EXCEPT !.memory = credentials.file]
  /\ runs' = [r \in 1..MaxRuns |-> IF runs[r].at # "none" /\ runs[r].answer = "none"
                                   THEN [runs[r] EXCEPT !.answer = "lost"] ELSE runs[r]]
  /\ attempts' = [i \in 1..MaxAttempts |-> IF attempts[i].at # "none" /\ attempts[i].answer = "none"
                                           THEN [attempts[i] EXCEPT !.answer = "lost"] ELSE attempts[i]]
  /\ UNCHANGED commands

-----------------------------------------------------------------------------
(* The command line: runAgentCommand.                                       *)

\* The output file is reserved, then the request sent: for a new agent, or to rotate one.
AskForToken(r, agent) ==
  /\ runs[r] = NoRun /\ \A q \in 1..(r - 1) : runs[q] # NoRun
  /\ runs' = [runs EXCEPT ![r].at = "asking", ![r].agent = agent]
  /\ UNCHANGED <<credentials, commands, attempts>>

\* Faulty: an internal error is passed on as though nothing had been issued.
ReportsAsRefused(answer) == IF answer \in {"refused", "internal_error"} THEN "refused" ELSE "uncertain"

\* What is told of an answer without a token: after these, check the list of agents.
ReportOf(answer) == IF answer = "refused" THEN "refused" ELSE "uncertain"

\* The answer is read, and its token written to the output file, or not.
HearOfIssue(r, writes) ==
  /\ runs[r].at = "asking" /\ runs[r].answer \notin {"none", "lost"}
  /\ runs' = IF runs[r].answer # "issued" THEN [runs EXCEPT ![r].at = "ended", ![r].told = ReportOf(runs[r].answer)]
             ELSE IF writes THEN [runs EXCEPT ![r].at = "ended", ![r].told = "issued"]
             ELSE [runs EXCEPT ![r].at = "revoking"]
  /\ UNCHANGED <<credentials, commands, attempts>>

\* No answer, or not one that can be read; the request may be handled all the same.
StopAsking(r) ==
  /\ runs[r].at = "asking"
  /\ runs' = [runs EXCEPT ![r].at = "ended", ![r].told = ReportOf("lost")]
  /\ UNCHANGED <<credentials, commands, attempts>>

\* A token that could not be written down is revoked with its agent.
RevokeUnwritten(r, how, heard) ==
  /\ runs[r].at = "revoking"
  /\ \E a \in runs[r].agent : credentials' = Saved(Revoked(a), how)
  /\ runs' = [runs EXCEPT ![r].at = "ended",
                          ![r].told = IF how = "saved" /\ heard THEN "revoked" ELSE "revoke_required"]
  /\ UNCHANGED <<commands, attempts>>

-----------------------------------------------------------------------------
(* An agent's calls.                                                        *)

\* voxdock_call, with a token the command line wrote down.
SendAttempt(i, r, k) ==
  /\ attempts[i] = NoAttempt /\ \A j \in 1..(i - 1) : attempts[j] # NoAttempt
  /\ runs[r].told = "issued"
  /\ attempts' = [attempts EXCEPT ![i] = [at |-> "sent", agent |-> runs[r].agent, token |-> r, key |-> {k},
                                          answer |-> "none", told |-> "nothing"]]
  /\ UNCHANGED <<credentials, runs, commands>>

\* authenticate
Bearers(token) == {a \in Agents : credentials.memory[a] = [token |-> token, revoked |-> FALSE]}

\* The client a command is kept under: the agent, whichever token it has.
ClientOf(agent, token) == agent

\* POST /v1/calls: repeated by key; otherwise made, refused for one of many reasons, or
\* failed with an internal error before or after it was made.
HandleAttempt(i, outcome) ==
  LET agent == Bearers(attempts[i].token)
      client == ClientOf(agent, attempts[i].token)
      found == \E c \in commands : c.client = client /\ c.key = attempts[i].key
      answered(answer) == attempts' = [attempts EXCEPT ![i].answer = answer]
  IN
  /\ attempts[i].at # "none" /\ attempts[i].answer = "none"
  /\ IF agent = {} THEN answered("refused") /\ UNCHANGED commands
     ELSE IF found THEN answered(outcome) /\ UNCHANGED commands
     ELSE /\ answered(outcome)
          /\ \/ outcome # "call" /\ UNCHANGED commands
             \/ /\ outcome # "refused"
                /\ commands' = commands \cup {[client |-> client, agent |-> agent, key |-> attempts[i].key, by |-> i]}
  /\ UNCHANGED <<credentials, runs>>

\* ControlClient.request, for a POST.
HearOfCall(i) ==
  /\ attempts[i].at = "sent" /\ attempts[i].answer \notin {"none", "lost"}
  /\ attempts' = [attempts EXCEPT ![i].at = "heard",
                    ![i].told = IF attempts[i].answer = "internal_error" THEN "outcome_unknown"
                                ELSE attempts[i].answer]
  /\ UNCHANGED <<credentials, runs, commands>>
HearNothing(i) ==
  /\ attempts[i].at = "sent"
  /\ attempts' = [attempts EXCEPT ![i].at = "heard", ![i].told = "outcome_unknown"]
  /\ UNCHANGED <<credentials, runs, commands>>

AgentsNext ==
  \/ RestartBridge
  \/ \E a \in Agents, how \in {"saved", "not written", "not synced"} :
       Revoke(a, how) \/ \E r \in 1..MaxRuns : Issue(r, a, how)
  \/ \E r \in 1..MaxRuns :
       \/ RefuseToIssue(r) \/ StopAsking(r)
       \/ \E agent \in {{}} \cup {{a} : a \in Agents} : AskForToken(r, agent)
       \/ \E writes \in BOOLEAN : HearOfIssue(r, writes)
       \/ \E how \in {"saved", "not written", "not synced"}, heard \in BOOLEAN : RevokeUnwritten(r, how, heard)
       \/ \E i \in 1..MaxAttempts, k \in Keys : SendAttempt(i, r, k)
  \/ \E i \in 1..MaxAttempts :
       \/ HearOfCall(i) \/ HearNothing(i)
       \/ \E outcome \in {"call", "refused", "internal_error"} : HandleAttempt(i, outcome)

-----------------------------------------------------------------------------

\* A token the operator was told was refused or revoked works nowhere, neither now nor
\* after a restart (cli-agents.ts:25-35).
IssuerIsTold ==
  \A r \in 1..MaxRuns : runs[r].told \in {"refused", "revoked"} =>
    \A a \in Agents, where \in {"memory", "file"} :
      credentials[where][a] # [token |-> r, revoked |-> FALSE]

\* An attempt an agent was told was refused made no call; a call it was told of is there.
AgentIsTold ==
  \A i \in 1..MaxAttempts :
    /\ attempts[i].told = "refused" => \A c \in commands : c.by # i
    /\ attempts[i].told = "call" => \E c \in commands : c.key = attempts[i].key /\ c.agent = attempts[i].agent

\* A retry under the same key makes no second call, though the token was rotated between.
OneCallForAKey == \A c, d \in commands : c.agent = d.agent /\ c.key = d.key => c = d

\* What an operator and an agent are told of a request is so, whatever was lost on the
\* way or failed half-way.
ToldIsSo == IssuerIsTold /\ AgentIsTold /\ OneCallForAKey
=============================================================================
