------------------------------ MODULE Breakers ------------------------------
(***************************************************************************)
(* The risk breakers of one ledger: BreakerState                           *)
(* (src/crates/trench-core/src/risk/breakers.rs) inside LedgerState        *)
(* (src/crates/trench-core/src/ledger.rs), whose every transition records  *)
(* the equity it leaves, driven by the engine, which asks the breakers for *)
(* the first time when the broker has already filled an entry.             *)
(*                                                                         *)
(* Equity is a natural number of currency units and a limit is compared    *)
(* exactly, in thousandths of the starting equity.  Only accepted calls    *)
(* are steps: a time that goes backward is an error.                       *)
(***************************************************************************)
EXTENDS Integers

CONSTANTS
  InitialEquity,  \* INITIAL_EQUITY
  Equities,       \* the equities a transition may leave
  Day,            \* DAY_NS
  DaysPerWeek,    \* 7
  FirstWeekday,   \* days between a Monday and the epoch: 3
  Cooldown,       \* COOLDOWN_NS
  MaxEntries,     \* MAX_ENTRIES_PER_DAY
  LossLimit,      \* CONSECUTIVE_LOSS_LIMIT
  MaxTime,        \* bound: the largest time of a transition
  Reconciles      \* whether anything calls LedgerState::reconcile

ASSUME BreakersAssumption ==
  /\ InitialEquity \in Equities /\ Equities \subseteq Nat
  /\ InitialEquity > 0
  /\ Day \in Nat \ {0} /\ DaysPerWeek \in Nat \ {0}
  /\ FirstWeekday \in 0 .. DaysPerWeek - 1
  /\ Cooldown \in Nat \ {0}
  /\ MaxEntries \in Nat \ {0} /\ LossLimit \in Nat \ {0}
  /\ MaxTime \in Nat
  /\ Reconciles \in BOOLEAN

VARIABLES
  equity,            \* LedgerState::equity
  daily, weekly,     \* LossBudget
  highWater,         \* high_water_equity
  latched,           \* hard_drawdown_latched
  entriesToday,
  consecutiveLosses,
  cooldownUntil,     \* 0 is None
  lastTransitionAt,
  position,          \* of broker and ledger together
  enteredFrom,       \* equity before the open position's entry
  dayEntries,        \* history: the entries of one UTC day
  lossAt             \* history: the last losing close, -1 is none

budgets == <<daily, weekly, highWater, latched>>
breakerVars == <<equity, daily, weekly, highWater, latched, entriesToday,
                 consecutiveLosses, cooldownUntil, lastTransitionAt, position,
                 enteredFrom, dayEntries, lossAt>>

Times == 0 .. MaxTime

PositionStates == {"none", "ordered", "held", "liquidated", "failed"}

\* Fractions in thousandths: 1.5 %, 4 % and 8 %.
DailyLoss == 15
WeeklyLoss == 40
HardDrawdown == 80

\* lost is at least the fraction of base.
Exhausts(lost, base, fraction) == 1000 * lost >= fraction * base

UtcDayStart(at) == (at \div Day) * Day

\* utc_week_start; the week the epoch falls in starts at the epoch.
UtcWeekStart(at) ==
  LET day == at \div Day
      sinceMonday == (day + FirstWeekday) % DaysPerWeek
  IN IF day < sinceMonday THEN 0 ELSE (day - sinceMonday) * Day

Loss(from, to) == IF from > to THEN from - to ELSE 0

NewBudget(anchor, start) ==
  [anchor |-> anchor, start |-> start, used |-> 0, tripped |-> FALSE]

RecordedVariant(budget, fraction, now) ==
  LET used == Loss(budget.start, now)
  IN [budget EXCEPT !.used = used,
                    !.tripped = Exhausts(used, budget.start, fraction)]

\* LossBudget::record_equity: what is used never comes back.
Recorded(budget, fraction, now) ==
  LET lost == Loss(budget.start, now)
      used == IF lost > budget.used THEN lost ELSE budget.used
  IN [budget EXCEPT
        !.used = used,
        !.tripped = budget.tripped \/ Exhausts(used, budget.start, fraction)]

HigherOf(a, b) == IF a > b THEN a ELSE b

\* BreakerState::record_equity
RecordEquity(now) ==
  /\ equity' = now
  /\ daily' = Recorded(daily, DailyLoss, now)
  /\ weekly' = Recorded(weekly, WeeklyLoss, now)
  /\ highWater' = HigherOf(highWater, now)
  /\ latched' = (latched \/ Exhausts(highWater' - now, highWater', HardDrawdown))

\* BreakerState::entry_allowed
EntryAllowed(at) ==
  /\ ~daily.tripped /\ ~weekly.tripped /\ ~latched
  /\ entriesToday < MaxEntries
  /\ at >= cooldownUntil
-----------------------------------------------------------------------------
BreakersInit ==
  /\ equity = InitialEquity
  /\ daily = NewBudget(0, InitialEquity)
  /\ weekly = NewBudget(0, InitialEquity)
  /\ highWater = InitialEquity
  /\ latched = FALSE
  /\ entriesToday = 0
  /\ consecutiveLosses = 0
  /\ cooldownUntil = 0
  /\ lastTransitionAt = 0
  /\ position = "none"
  /\ enteredFrom = 0
  /\ dayEntries = [day |-> 0, count |-> 0]
  /\ lossAt = -1

(* apply_entry_arbitration queues the winner for a flat ledger: the breakers
   are not consulted. *)
QueueEntry ==
  /\ position = "none"
  /\ position' = "ordered"
  /\ UNCHANGED <<equity, budgets, entriesToday, consecutiveLosses,
                 cooldownUntil, lastTransitionAt, enteredFrom, dayEntries,
                 lossAt>>

\* The book of the order fills nothing: it only marks the flat ledger.
CancelEntry(at) ==
  /\ position = "ordered" /\ at >= lastTransitionAt
  /\ RecordEquity(equity)
  /\ lastTransitionAt' = at
  /\ position' = "none"
  /\ UNCHANGED <<entriesToday, consecutiveLosses, cooldownUntil, enteredFrom,
                 dayEntries, lossAt>>

\* The entries of the UTC day of at, counted from nothing.
DayEntriesAfter(at) ==
  IF dayEntries.day = UtcDayStart(at)
    THEN [dayEntries EXCEPT !.count = dayEntries.count + 1]
    ELSE [day |-> UtcDayStart(at), count |-> 1]

\* LedgerState::open_position after a fill: now is the equity less the fee.
OpenPositionAt(at, now) ==
  /\ position = "ordered" /\ at >= lastTransitionAt
  /\ EntryAllowed(at)
  /\ now <= equity
  /\ RecordEquity(now)
  /\ entriesToday' = entriesToday + 1
  /\ lastTransitionAt' = at
  /\ position' = "held"
  /\ enteredFrom' = equity
  /\ dayEntries' = DayEntriesAfter(at)
  /\ UNCHANGED <<consecutiveLosses, cooldownUntil, lossAt>>

(* The broker filled the entry and the ledger refuses it: Engine::apply ends
   in an error that gives up broker, ledger and order. *)
RefusePosition(at) ==
  /\ position = "ordered" /\ at >= lastTransitionAt
  /\ ~EntryAllowed(at)
  /\ position' = "failed"
  /\ lastTransitionAt' = at
  /\ UNCHANGED <<equity, budgets, entriesToday, consecutiveLosses,
                 cooldownUntil, enteredFrom, dayEntries, lossAt>>

\* Funding that is not recorded by the breakers.
AdjustPositionVariant(at, now) ==
  /\ position = "held" /\ at >= lastTransitionAt
  /\ equity' = now
  /\ lastTransitionAt' = at
  /\ UNCHANGED <<budgets, entriesToday, consecutiveLosses, cooldownUntil,
                 position, enteredFrom, dayEntries, lossAt>>

\* Funding, or an exit that leaves a residual.
AdjustPosition(at, now) ==
  /\ position = "held" /\ at >= lastTransitionAt
  /\ RecordEquity(now)
  /\ lastTransitionAt' = at
  /\ UNCHANGED <<entriesToday, consecutiveLosses, cooldownUntil, position,
                 enteredFrom, dayEntries, lossAt>>

ClosedTradeVariant(at, lost) ==
  /\ consecutiveLosses' = IF lost THEN consecutiveLosses + 1 ELSE 0
  /\ cooldownUntil' = IF consecutiveLosses >= LossLimit
                        THEN at + Cooldown ELSE cooldownUntil

\* BreakerState::record_closed_trade
ClosedTrade(at, lost) ==
  /\ consecutiveLosses' = IF lost THEN consecutiveLosses + 1 ELSE 0
  /\ cooldownUntil' = IF consecutiveLosses' >= LossLimit
                        THEN at + Cooldown ELSE cooldownUntil

(* A complete exit, or a liquidation, after which the broker takes no order.
   The trade cashflow is the equity gained or lost since before the entry. *)
ClosePosition(at, now, next) ==
  /\ position = "held" /\ at >= lastTransitionAt
  /\ next \in {"none", "liquidated"}
  /\ ClosedTrade(at, now < enteredFrom)
  /\ RecordEquity(now)
  /\ lastTransitionAt' = at
  /\ position' = next
  /\ enteredFrom' = 0
  /\ lossAt' = IF now < enteredFrom THEN at ELSE lossAt
  /\ UNCHANGED <<entriesToday, dayEntries>>

\* LedgerState::reconcile
Reconcile(at) ==
  /\ Reconciles
  /\ position # "failed" /\ at >= lastTransitionAt
  /\ IF UtcDayStart(at) > daily.anchor
       THEN /\ daily' = NewBudget(UtcDayStart(at), equity)
            /\ entriesToday' = 0
       ELSE UNCHANGED <<daily, entriesToday>>
  /\ weekly' = IF UtcWeekStart(at) > weekly.anchor
                 THEN NewBudget(UtcWeekStart(at), equity) ELSE weekly
  /\ highWater' = HigherOf(highWater, equity)
  /\ lastTransitionAt' = at
  /\ UNCHANGED <<equity, latched, consecutiveLosses, cooldownUntil, position,
                 enteredFrom, dayEntries, lossAt>>

BreakersNext ==
  \/ QueueEntry
  \/ \E at \in Times :
       \/ CancelEntry(at) \/ RefusePosition(at) \/ Reconcile(at)
       \/ \E now \in Equities :
            \/ OpenPositionAt(at, now) \/ AdjustPosition(at, now)
            \/ \E next \in {"none", "liquidated"} : ClosePosition(at, now, next)

BreakersSpec == BreakersInit /\ [][BreakersNext]_breakerVars
=============================================================================
