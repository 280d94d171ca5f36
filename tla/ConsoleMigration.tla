---------------------------- MODULE ConsoleMigration ----------------------------
(***************************************************************************)
(* What migrateConsoleFacts (packages/core/src/console-migration.ts) makes *)
(* of the calls and events of an older database, whose first events may    *)
(* have been pruned: the facts the console shows of calls made before it   *)
(* kept them.                                                              *)
(***************************************************************************)
EXTENDS CallStore, FiniteSets

\* The events of a call that are left when the first ones of the log are gone, as
\* their places in the log.
EventsLeft(c, pruned) == {i \in (pruned + 1)..Len(log) : log[i].call = c}

\* None is missing: there are as many as revisions, each numbered by its place.
Complete(c, left) ==
  /\ Cardinality(left) = calls[c].revision
  /\ \A i \in left : log[i].seq = Cardinality({j \in left : j <= i})

\* The first connected event left, none or one.
FirstConnected(left) ==
  {i \in left : log[i].state = "connected" /\ \A j \in left : j < i => log[j].state # "connected"}

Precedes(left, j, i) == j < i /\ \A k \in left : ~(j < k /\ k < i)

\* Faulty: the first connected event left is taken for the connection itself.
ObservedAnyhow(c, left, i) == TRUE

\* It is known to be the connection itself: no event is missing, or the one before it
\* is still there and shows the call not connected yet.
Observed(c, left, i) ==
  \/ Complete(c, left)
  \/ \E j \in left : /\ Precedes(left, j, i) /\ log[j].seq + 1 = log[i].seq
                     /\ log[j].state \in {"requested", "dialing", "ringing"}

\* A fact is a set of the values it may have; with nothing known, all of them.
MigratedFacts(c, pruned) ==
  LET left == EventsLeft(c, pruned)
      first == FirstConnected(left)
      complete == Complete(c, left)
      OneOf(seen) == IF seen THEN {TRUE} ELSE IF complete THEN {FALSE} ELSE BOOLEAN
  IN
  [connected |-> OneOf(first # {} \/ calls[c].state = "connected"),
   connectedAt |-> {log[i].seq : i \in {j \in first : Observed(c, left, j)}},
   endedAt |-> IF calls[c].state = "ended" THEN calls[c].revision ELSE 0,
   wasUncertain |-> OneOf(calls[c].state = "uncertain" \/ \E i \in left : log[i].state = "uncertain")]

\* However much of the log was pruned, a migrated fact is what the running store would
\* have recorded or is left unknown; with the whole log nothing is left unknown.
MigrationAgrees ==
  \A c \in CallIds, pruned \in 0..Len(log) : calls[c].state # Absent =>
    LET migrated == MigratedFacts(c, pruned) IN
    /\ facts[c].connected \in migrated.connected
    /\ facts[c].wasUncertain \in migrated.wasUncertain
    /\ migrated.connectedAt \subseteq {facts[c].connectedAt}
    /\ migrated.endedAt = facts[c].endedAt
    /\ pruned = 0 => /\ migrated.connected # BOOLEAN /\ migrated.wasUncertain # BOOLEAN
                     /\ facts[c].connected <=> migrated.connectedAt # {}
=============================================================================
