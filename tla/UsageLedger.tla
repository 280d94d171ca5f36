------------------------------ MODULE UsageLedger ------------------------------
(***************************************************************************)
(* The usage table: reserveUsage and settleUsage (packages/core/src        *)
(* /index.ts) and the console's account of it (console.ts, overview).      *)
(***************************************************************************)
EXTENDS Integers, FiniteSets, Functions

CONSTANTS
  Spenders,     \* call ids
  Zones,        \* configured time zones
  DailySeconds, MaxSeconds,
  LastDay       \* bound: days that pass

\* Both limits are set in the configuration, at least one second each.
ASSUME UsageAssumption == MaxSeconds \in Nat \ {0} /\ DailySeconds \in Nat \ {0}

VARIABLES
  ledger,   \* ledger[c]: state of the call, its row of usage
  clock     \* today, the configured zone

usageVars == <<ledger, clock>>

NoRow == [day |-> 0, zone |-> CHOOSE z \in Zones : TRUE, seconds |-> 0, status |-> "none"]
Rows == {c \in Spenders : ledger[c].row.status # "none"}
Seconds(cs) == SumFunctionOnSet([c \in Spenders |-> ledger[c].row.seconds], cs)

UsageInit ==
  /\ ledger = [c \in Spenders |-> [state |-> "none", row |-> NoRow]]
  /\ \E z \in Zones : clock = [today |-> 1, zone |-> z]

\* Faulty: what is settled no longer counts.
UsedUnsettled(day) ==
  Seconds({c \in Rows : ledger[c].row.day = day /\ ledger[c].row.status # "settled"})

Used(day) == Seconds({c \in Rows : ledger[c].row.day = day})

SameZone(zone) == \A c \in Rows : ledger[c].row.zone = zone

Admissible == SameZone(clock.zone) /\ Used(clock.today) + MaxSeconds <= DailySeconds

\* A call is made and reserves before it dials; refused, it ends.
Reserve(c) ==
  /\ ledger[c].state = "none"
  /\ ledger' = [ledger EXCEPT ![c] =
       IF Admissible
       THEN [state |-> "active",
             row |-> [day |-> clock.today, zone |-> clock.zone, seconds |-> MaxSeconds,
                      status |-> "reserved"]]
       ELSE [@ EXCEPT !.state = "ended"]]
  /\ UNCHANGED clock

\* Live told the seconds, or never did; what is settled stays.
Settle(c, known, seconds) ==
  /\ ledger[c].row.status \in {"reserved", "incomplete"}
  /\ ledger' = [ledger EXCEPT ![c].state = "ended",
       ![c].row.seconds = IF known THEN seconds ELSE @,
       ![c].row.status = IF known THEN "settled" ELSE "incomplete"]
  /\ UNCHANGED clock

Midnight == clock.today < LastDay /\ clock' = [clock EXCEPT !.today = @ + 1] /\ UNCHANGED ledger

\* A configuration with another zone is activated between calls.
Rezone(zone) ==
  /\ \A c \in Spenders : ledger[c].state # "active"
  /\ clock' = [clock EXCEPT !.zone = zone] /\ UNCHANGED ledger

ShownAs(status) == IF status \in {"settled", "reserved"} THEN status ELSE "unknown"

\* overview({days}): seconds by status over a period that ends today, and what
\* remains of today's budget.
Shown(status, first) ==
  Seconds({c \in Rows : ledger[c].row.day \in first..clock.today /\ ShownAs(ledger[c].row.status) = status})
Remaining ==
  LET left == DailySeconds - Shown("settled", clock.today) - Shown("reserved", clock.today)
                - Shown("unknown", clock.today)
  IN IF left > 0 THEN left ELSE 0

UsageNext ==
  \/ Midnight \/ \E z \in Zones : Rezone(z)
  \/ \E c \in Spenders :
       \/ Reserve(c)
       \/ \E seconds \in 0..(MaxSeconds + 1), known \in BOOLEAN : Settle(c, known, seconds)

\* Whatever was settled, never told, or settled after it was taken for lost, a
\* day's calls take no more of the budget (index.ts:614) than it has, but for what
\* one call used beyond its own maximum.
WithinBudget ==
  \A day \in 1..LastDay :
    SumFunctionOnSet([c \in Spenders |->
                       IF ledger[c].row.seconds > MaxSeconds THEN MaxSeconds ELSE ledger[c].row.seconds],
                     {c \in Rows : ledger[c].row.day = day}) <= DailySeconds

\* What the overview shows as remaining (console.ts:439) is what a call can still
\* reserve (index.ts:614), when both accept the time zone.
RemainingIsAdmissible == SameZone(clock.zone) => (Remaining >= MaxSeconds <=> Admissible)

\* A day's budget holds, and the console and the admission of calls agree on what
\* is left of it.
BudgetHolds == WithinBudget /\ RemainingIsAdmissible
=============================================================================
