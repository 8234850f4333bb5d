------------------------- MODULE BreakersProperties -------------------------
(***************************************************************************)
(* What the breakers guarantee about entries, and what the design promises *)
(* that the ledger as wired does not keep.                                 *)
(***************************************************************************)
EXTENDS Breakers

BudgetType == [anchor : Times, start : Equities, used : Nat,
               tripped : BOOLEAN]

\* The types of BreakerState's fields.
BreakersTypeOK ==
  /\ equity \in Equities
  /\ daily \in BudgetType /\ weekly \in BudgetType
  /\ highWater \in Equities
  /\ latched \in BOOLEAN
  /\ entriesToday \in 0 .. MaxEntries
  /\ consecutiveLosses \in Nat
  /\ cooldownUntil \in Nat
  /\ lastTransitionAt \in Times
  /\ position \in PositionStates
  /\ enteredFrom \in {0} \cup Equities
  /\ dayEntries \in [day : Times, count : Nat]
  /\ lossAt \in {-1} \cup Times

(* Losses never escape the budgets: what is missing from a period's starting
   equity is counted as used, whatever entries, fundings, exits and
   reconciliations came in between, and an exhausted budget is tripped.  A
   period that starts at zero equity has an empty limit and trips at its next
   record only: there the drawdown latch blocks instead. *)
LossesAreCounted ==
  /\ equity <= highWater
  /\ Exhausts(highWater - equity, highWater, HardDrawdown) => latched
  /\ Loss(daily.start, equity) <= daily.used
  /\ Loss(weekly.start, equity) <= weekly.used
  /\ Exhausts(daily.used, daily.start, DailyLoss) => daily.tripped \/ latched
  /\ Exhausts(weekly.used, weekly.start, WeeklyLoss) => weekly.tripped \/ latched

(* A UTC day sees at most two allowances of entries: the one left over from
   the day before, which serves until the new day's first reconciliation, and
   the new day's own.  A second reconciliation of a day gives nothing. *)
DayLimitBounded == dayEntries.count <= 2 * MaxEntries

Enters == position = "ordered" /\ position' = "held"

(* The budget of a period is only given back by a reconciliation in a later
   period: until then nothing used returns and nothing tripped is cleared. *)
BudgetsNeverRefill ==
  [][/\ daily'.anchor = daily.anchor =>
          daily'.used >= daily.used /\ (daily.tripped => daily'.tripped)
     /\ weekly'.anchor = weekly.anchor =>
          weekly'.used >= weekly.used /\ (weekly.tripped => weekly'.tripped)
     /\ daily'.anchor # daily.anchor =>
          daily'.anchor > daily.anchor /\ daily'.start = equity]_breakerVars

(* The drawdown latch survives every reconciliation and recovery of equity,
   and no position is opened while it is set. *)
LatchIsFinal == [][latched => latched' /\ ~Enters]_breakerVars

(* After LossLimit losing trades in a row no position opens before the
   cooldown since the last of them has passed. *)
CooldownHonoured ==
  [][Enters /\ consecutiveLosses >= LossLimit =>
       lastTransitionAt' >= lossAt + Cooldown]_breakerVars

=============================================================================
