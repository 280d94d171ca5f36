--------------------------- MODULE CallLifecycle ---------------------------
(***************************************************************************)
(* What the bridge promises about calls, with everything but their states  *)
(* left out: a call is admitted only while no other call is unfinished,    *)
(* and then only moves along the table of CallStates.  The store           *)
(* (CallStore), the service around it (BridgeService) and the coordinator  *)
(* (CallRuntime) are each shown to implement this specification.           *)
(***************************************************************************)
EXTENDS CallStates

CONSTANT CallIds

VARIABLE phase          \* the state of every call, or Absent

Unfinished == {c \in CallIds : phase[c] \notin {Absent, "ended"}}

Init == phase = [c \in CallIds |-> Absent]

Admit(c) ==
  /\ phase[c] = Absent
  /\ Unfinished = {}
  /\ phase' = [phase EXCEPT ![c] = "requested"]

Move(c, s) ==
  /\ Allowed(phase[c], s)
  /\ phase' = [phase EXCEPT ![c] = s]

Next == \E c \in CallIds : Admit(c) \/ \E s \in CallState : Move(c, s)

Spec == Init /\ [][Next]_phase

TypeOK == phase \in [CallIds -> CallState \cup {Absent}]

\* Two calls are never unfinished at once: the account carries one call.
OneUnfinished == \A c, d \in Unfinished : c = d

\* A finished call stays finished, and a call that became uncertain or began
\* to end is never dialled, rung or connected again.
NeverRevived ==
  [][\A c \in CallIds :
       /\ phase[c] = "ended" => phase'[c] = "ended"
       /\ phase[c] \in Quiescent =>
            phase'[c] \notin Established \cup {"requested"}]_phase
=============================================================================
