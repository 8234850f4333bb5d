---------------------------- MODULE LedgerProofs ----------------------------
(***************************************************************************)
(* Proofs about the ledger for every set of equities, prices and rates,    *)
(* every limit, size, leverage, fee and number of digits: its breakers     *)
(* (Breakers) and the money of its position (Settlement).                  *)
(*                                                                         *)
(* What the budgets count follows from the transitions alone; the entry    *)
(* limit and the cooldown need to relate the counters to the history they  *)
(* stand for.  The account of a position balances step by step.  The two   *)
(* collaterals need the size of every rounding: what one fill parts them   *)
(* by, and how many fills a position can have.                             *)
(***************************************************************************)
EXTENDS BreakersProperties, SettlementProperties, TLAPS

(***************************************************************************)
(* The breakers                                                            *)
(***************************************************************************)

(* The counter of entries and the entries of the day it is compared with: a
   day before its reconciliation is counted on top of the day before, and a
   reconciled day has at most the old allowance besides its own count. *)
DayAccount ==
  /\ daily.anchor <= UtcDayStart(lastTransitionAt)
  /\ dayEntries.day <= UtcDayStart(lastTransitionAt)
  /\ daily.anchor = dayEntries.day =>
       dayEntries.count <= MaxEntries + entriesToday
  /\ daily.anchor < dayEntries.day => dayEntries.count <= entriesToday
  /\ dayEntries.count <= 2 * MaxEntries

(* The cooldown in force counts from the last losing close. *)
CooldownAccount ==
  consecutiveLosses >= LossLimit => cooldownUntil = lossAt + Cooldown

BreakersInv == BreakersTypeOK /\ LossesAreCounted /\ DayAccount /\ CooldownAccount

-----------------------------------------------------------------------------
(* The calendar: a day starts no later than its times, and days follow their
   times. *)
LEMMA DayFacts ==
  /\ \A at \in Times : UtcDayStart(at) \in Times /\ UtcDayStart(at) <= at
  /\ \A a, b \in Times : a <= b => UtcDayStart(a) <= UtcDayStart(b)
<1>1. Day \in Nat /\ Day > 0 /\ MaxTime \in Nat
  BY BreakersAssumption
<1>2. \A at \in Nat : /\ at \div Day \in Nat
                      /\ (at \div Day) * Day <= at
                      /\ (at \div Day) * Day \in Nat
                      /\ at < (at \div Day) * Day + Day
  BY <1>1, Z3
<1>3. ASSUME NEW a \in Nat, NEW b \in Nat, a <= b
      PROVE  a \div Day <= b \div Day
  <2> DEFINE p == a \div Day
             q == b \div Day
  <2>1. p \in Nat /\ q \in Nat /\ p * Day <= a /\ b < q * Day + Day
    BY <1>2
  <2> HIDE DEF p, q
  <2>2. SUFFICES ASSUME q + 1 <= p PROVE FALSE
    BY <2>1 DEF p, q
  <2>3. (q + 1) * Day <= p * Day
    BY <1>1, <2>1, <2>2, Z3
  <2>4. (q + 1) * Day = q * Day + Day
    BY <1>1, <2>1, Z3
  <2>5. q * Day \in Nat /\ p * Day \in Nat
    BY <1>1, <2>1
  <2> QED BY <1>1, <1>3, <2>1, <2>3, <2>4, <2>5
<1>4. ASSUME NEW a \in Nat, NEW b \in Nat, a <= b
      PROVE  (a \div Day) * Day <= (b \div Day) * Day
  <2> DEFINE p == a \div Day
             q == b \div Day
  <2>1. p \in Nat /\ q \in Nat /\ p <= q
    BY <1>2, <1>3, <1>4
  <2> HIDE DEF p, q
  <2>2. p * Day <= q * Day
    BY <1>1, <2>1, Z3
  <2> QED BY <2>2 DEF p, q
<1> QED BY <1>1, <1>2, <1>4 DEF UtcDayStart, Times

(* A week starts no later than its times. *)
LEMMA WeekFacts == \A at \in Times : UtcWeekStart(at) \in Times
<1> SUFFICES ASSUME NEW at \in Times PROVE UtcWeekStart(at) \in Times
  OBVIOUS
<1> DEFINE day == at \div Day
           since == (day + FirstWeekday) % DaysPerWeek
<1>1. Day \in Nat /\ Day > 0 /\ MaxTime \in Nat /\ at \in Nat /\ at <= MaxTime
  BY BreakersAssumption DEF Times
<1>2. day \in Nat /\ day * Day <= at
  BY <1>1, Z3
<1>3. DaysPerWeek \in Nat /\ DaysPerWeek > 0 /\ FirstWeekday \in Nat
  BY BreakersAssumption
<1>4. since \in Nat
  BY <1>2, <1>3
<1>5. UtcWeekStart(at) = IF day < since THEN 0 ELSE (day - since) * Day
  BY DEF UtcWeekStart
<1> HIDE DEF day, since
<1>6. CASE day < since
  BY <1>1, <1>5, <1>6 DEF Times
<1>7. CASE ~(day < since)
  <2>1. day - since \in Nat /\ day - since <= day
    BY <1>2, <1>4, <1>7
  <2>2. (day - since) * Day \in Nat /\ (day - since) * Day <= day * Day
    BY <1>1, <1>2, <2>1, Z3
  <2>3. day * Day \in Nat
    BY <1>1, <1>2
  <2> QED BY <1>1, <1>2, <1>5, <1>7, <2>2, <2>3 DEF Times
<1> QED BY <1>6, <1>7

-----------------------------------------------------------------------------
(* What is lost between two equities, and equities themselves, are numbers. *)
LEMMA LossFacts ==
  /\ Equities \subseteq Nat
  /\ \A a, b \in Equities : Loss(a, b) \in Nat
BY BreakersAssumption DEF Loss

(* A budget that records an equity keeps its period, never gives back what
   was used or tripped, counts the equity's loss and trips when exhausted. *)
LEMMA RecordedFacts ==
  ASSUME NEW budget \in BudgetType, NEW fraction, NEW now \in Equities
  PROVE  /\ Recorded(budget, fraction, now) \in BudgetType
         /\ Recorded(budget, fraction, now).anchor = budget.anchor
         /\ Recorded(budget, fraction, now).start = budget.start
         /\ Recorded(budget, fraction, now).used >= budget.used
         /\ budget.tripped => Recorded(budget, fraction, now).tripped
         /\ Loss(budget.start, now) <= Recorded(budget, fraction, now).used
         /\ Exhausts(Recorded(budget, fraction, now).used, budget.start,
                     fraction)
              => Recorded(budget, fraction, now).tripped
<1> DEFINE lost == Loss(budget.start, now)
           used == IF lost > budget.used THEN lost ELSE budget.used
           trips == Exhausts(used, budget.start, fraction)
<1>1. budget.start \in Equities /\ budget.used \in Nat
      /\ budget.anchor \in Times /\ budget.tripped \in BOOLEAN
  BY DEF BudgetType
<1>2. lost \in Nat
  BY <1>1, LossFacts
<1>3. used \in Nat /\ used >= budget.used /\ lost <= used
  BY <1>1, <1>2
<1>4. Recorded(budget, fraction, now) =
        [budget EXCEPT !.used = used, !.tripped = budget.tripped \/ trips]
  BY DEF Recorded
<1>5. (budget.tripped \/ trips) \in BOOLEAN
  OBVIOUS
<1>6. Loss(budget.start, now) = lost
  OBVIOUS
<1>7. trips <=> Exhausts(used, budget.start, fraction)
  OBVIOUS
<1> HIDE DEF lost, used, trips
<1>8. /\ Recorded(budget, fraction, now) \in BudgetType
      /\ Recorded(budget, fraction, now).anchor = budget.anchor
      /\ Recorded(budget, fraction, now).start = budget.start
      /\ Recorded(budget, fraction, now).used = used
      /\ Recorded(budget, fraction, now).tripped = (budget.tripped \/ trips)
  BY <1>1, <1>3, <1>4, <1>5 DEF BudgetType
<1> QED BY <1>3, <1>6, <1>7, <1>8

(* A new period starts with nothing used. *)
LEMMA NewBudgetFacts ==
  ASSUME NEW anchor \in Times, NEW start \in Equities
  PROVE  /\ NewBudget(anchor, start) \in BudgetType
         /\ NewBudget(anchor, start).anchor = anchor
         /\ NewBudget(anchor, start).start = start
         /\ NewBudget(anchor, start).used = 0
BY DEF NewBudget, BudgetType

MoneyTypeOK ==
  /\ equity \in Equities
  /\ daily \in BudgetType /\ weekly \in BudgetType
  /\ highWater \in Equities
  /\ latched \in BOOLEAN

(* Every transition that records equity leaves money well typed and every
   loss counted, whatever was counted before. *)
LEMMA RecordEquityFacts ==
  ASSUME MoneyTypeOK, NEW now \in Equities, RecordEquity(now)
  PROVE  /\ MoneyTypeOK' /\ LossesAreCounted'
         /\ daily'.anchor = daily.anchor /\ daily'.used >= daily.used
         /\ daily.tripped => daily'.tripped
         /\ weekly'.anchor = weekly.anchor /\ weekly'.used >= weekly.used
         /\ weekly.tripped => weekly'.tripped
         /\ latched => latched'
<1>1. /\ equity' = now
      /\ daily' = Recorded(daily, DailyLoss, now)
      /\ weekly' = Recorded(weekly, WeeklyLoss, now)
      /\ highWater' = HigherOf(highWater, now)
      /\ latched' = (latched \/ Exhausts(highWater' - now, highWater',
                                         HardDrawdown))
  BY DEF RecordEquity
<1>2. daily \in BudgetType /\ weekly \in BudgetType /\ highWater \in Equities
      /\ latched \in BOOLEAN
  BY DEF MoneyTypeOK
<1>3. /\ daily' \in BudgetType
      /\ daily'.anchor = daily.anchor /\ daily'.start = daily.start
      /\ daily'.used >= daily.used
      /\ daily.tripped => daily'.tripped
      /\ Loss(daily'.start, now) <= daily'.used
      /\ Exhausts(daily'.used, daily'.start, DailyLoss) => daily'.tripped
  BY <1>1, <1>2, RecordedFacts
<1>4. /\ weekly' \in BudgetType
      /\ weekly'.anchor = weekly.anchor /\ weekly'.start = weekly.start
      /\ weekly'.used >= weekly.used
      /\ weekly.tripped => weekly'.tripped
      /\ Loss(weekly'.start, now) <= weekly'.used
      /\ Exhausts(weekly'.used, weekly'.start, WeeklyLoss) => weekly'.tripped
  BY <1>1, <1>2, RecordedFacts
<1>5. highWater' \in Equities /\ now <= highWater'
  BY <1>1, <1>2, LossFacts DEF HigherOf
<1>6. latched' \in BOOLEAN /\ (latched => latched')
      /\ (Exhausts(highWater' - now, highWater', HardDrawdown) => latched')
  BY <1>1, <1>2
<1>7. MoneyTypeOK'
  BY <1>1, <1>3, <1>4, <1>5, <1>6 DEF MoneyTypeOK
<1>8. LossesAreCounted'
  BY <1>1, <1>3, <1>4, <1>5, <1>6 DEF LossesAreCounted
<1> QED BY <1>3, <1>4, <1>6, <1>7, <1>8

(* A reconciliation gives no loss back within a period, and starts a later
   period with nothing used: only equity that is gone would already exhaust
   it, and the drawdown that took it has latched. *)
LEMMA ReconcileFacts ==
  ASSUME MoneyTypeOK, LossesAreCounted, NEW at \in Times, Reconcile(at)
  PROVE  /\ MoneyTypeOK' /\ LossesAreCounted' /\ latched' = latched
         /\ daily'.anchor = daily.anchor => daily' = daily
         /\ weekly'.anchor = weekly.anchor => weekly' = weekly
         /\ daily'.anchor # daily.anchor =>
              daily'.anchor > daily.anchor /\ daily'.start = equity
<1>1. /\ daily' = IF UtcDayStart(at) > daily.anchor
                    THEN NewBudget(UtcDayStart(at), equity) ELSE daily
      /\ weekly' = IF UtcWeekStart(at) > weekly.anchor
                     THEN NewBudget(UtcWeekStart(at), equity) ELSE weekly
      /\ highWater' = HigherOf(highWater, equity)
      /\ equity' = equity /\ latched' = latched
  BY DEF Reconcile
<1>2. daily \in BudgetType /\ weekly \in BudgetType /\ highWater \in Equities
      /\ latched \in BOOLEAN /\ equity \in Equities
  BY DEF MoneyTypeOK
<1>3. equity \in Nat /\ highWater \in Nat
  BY <1>2, LossFacts
<1>4. highWater' = highWater
  BY <1>1, <1>3 DEF HigherOf, LossesAreCounted
<1>5. ASSUME Exhausts(0, equity, DailyLoss) \/ Exhausts(0, equity, WeeklyLoss)
      PROVE  latched
  <2>1. equity = 0
    BY <1>3, <1>5 DEF Exhausts, DailyLoss, WeeklyLoss
  <2>2. Exhausts(highWater - equity, highWater, HardDrawdown)
    BY <1>3, <2>1 DEF Exhausts, HardDrawdown
  <2> QED BY <2>2 DEF LossesAreCounted
<1>6. Loss(equity, equity) = 0
  BY <1>3 DEF Loss
<1>7. daily.anchor \in Int /\ weekly.anchor \in Int
      /\ UtcDayStart(at) \in Times /\ UtcWeekStart(at) \in Times
      /\ UtcDayStart(at) \in Int /\ UtcWeekStart(at) \in Int
  BY <1>2, DayFacts, WeekFacts DEF BudgetType, Times
<1>8. /\ daily' \in BudgetType
      /\ Loss(daily'.start, equity) <= daily'.used
      /\ Exhausts(daily'.used, daily'.start, DailyLoss)
           => daily'.tripped \/ latched
      /\ daily'.anchor = daily.anchor => daily' = daily
      /\ daily'.anchor # daily.anchor =>
           daily'.anchor > daily.anchor /\ daily'.start = equity
  <2>1. CASE UtcDayStart(at) > daily.anchor
    <3>1. /\ daily' \in BudgetType /\ daily'.anchor = UtcDayStart(at)
          /\ daily'.start = equity /\ daily'.used = 0
      BY <1>1, <1>2, <1>7, <2>1, NewBudgetFacts
    <3> QED BY <1>5, <1>6, <1>7, <2>1, <3>1
  <2>2. CASE ~(UtcDayStart(at) > daily.anchor)
    <3>1. daily' = daily
      BY <1>1, <2>2
    <3> QED BY <1>2, <3>1 DEF LossesAreCounted
  <2> QED BY <2>1, <2>2
<1>9. /\ weekly' \in BudgetType
      /\ Loss(weekly'.start, equity) <= weekly'.used
      /\ Exhausts(weekly'.used, weekly'.start, WeeklyLoss)
           => weekly'.tripped \/ latched
      /\ weekly'.anchor = weekly.anchor => weekly' = weekly
  <2>1. CASE UtcWeekStart(at) > weekly.anchor
    <3>1. /\ weekly' \in BudgetType /\ weekly'.anchor = UtcWeekStart(at)
          /\ weekly'.start = equity /\ weekly'.used = 0
      BY <1>1, <1>2, <1>7, <2>1, NewBudgetFacts
    <3> QED BY <1>5, <1>6, <1>7, <2>1, <3>1
  <2>2. CASE ~(UtcWeekStart(at) > weekly.anchor)
    <3>1. weekly' = weekly
      BY <1>1, <2>2
    <3> QED BY <1>2, <3>1 DEF LossesAreCounted
  <2> QED BY <2>1, <2>2
<1>10. MoneyTypeOK'
  BY <1>1, <1>2, <1>4, <1>8, <1>9 DEF MoneyTypeOK
<1>11. LossesAreCounted'
  BY <1>1, <1>4, <1>8, <1>9 DEF LossesAreCounted
<1> QED BY <1>1, <1>8, <1>9, <1>10, <1>11

-----------------------------------------------------------------------------
CountersTypeOK ==
  /\ entriesToday \in 0 .. MaxEntries
  /\ consecutiveLosses \in Nat
  /\ cooldownUntil \in Nat
  /\ lastTransitionAt \in Times
  /\ position \in PositionStates
  /\ enteredFrom \in {0} \cup Equities
  /\ dayEntries \in [day : Times, count : Nat]
  /\ lossAt \in {-1} \cup Times

(* The types of the money and of the counters are the breakers' types. *)
LEMMA TypeParts == BreakersTypeOK <=> MoneyTypeOK /\ CountersTypeOK
BY DEF BreakersTypeOK, MoneyTypeOK, CountersTypeOK

(* The same of the next state. *)
LEMMA TypePartsNext == BreakersTypeOK' <=> MoneyTypeOK' /\ CountersTypeOK'
BY DEF BreakersTypeOK, MoneyTypeOK, CountersTypeOK

(* The numbers the day account compares. *)
LEMMA DayAccountTypes ==
  ASSUME BreakersTypeOK
  PROVE  /\ daily.anchor \in Nat /\ dayEntries.day \in Nat
         /\ dayEntries.count \in Nat /\ entriesToday \in Nat
         /\ entriesToday <= MaxEntries /\ MaxEntries \in Nat
         /\ UtcDayStart(lastTransitionAt) \in Nat
BY BreakersAssumption, DayFacts DEF BreakersTypeOK, BudgetType, Times

(* Time that passes without an entry or a new period keeps the account. *)
LEMMA DayAccountKept ==
  ASSUME BreakersInv, NEW at \in Times, at >= lastTransitionAt,
         lastTransitionAt' = at, daily'.anchor = daily.anchor,
         UNCHANGED <<entriesToday, dayEntries>>
  PROVE  DayAccount'
<1>1. UtcDayStart(lastTransitionAt) <= UtcDayStart(at)
      /\ UtcDayStart(at) \in Nat
  BY DayFacts DEF BreakersInv, BreakersTypeOK, Times
<1>2. UtcDayStart(lastTransitionAt') = UtcDayStart(at)
  OBVIOUS
<1>3. (UtcDayStart(lastTransitionAt))' = UtcDayStart(lastTransitionAt')
  BY DEF UtcDayStart
<1> QED BY <1>1, <1>2, <1>3, DayAccountTypes DEF BreakersInv, DayAccount

(* Initially nothing was earned, lost or entered. *)
LEMMA InitBreakers == BreakersInit => BreakersInv
<1> SUFFICES ASSUME BreakersInit PROVE BreakersInv
  OBVIOUS
<1>1. InitialEquity \in Equities /\ InitialEquity \in Nat /\ InitialEquity > 0
  BY BreakersAssumption
<1>2. 0 \in Times /\ UtcDayStart(0) = 0
  BY BreakersAssumption, DayFacts DEF Times
<1>3. MoneyTypeOK
  BY <1>1, <1>2, NewBudgetFacts DEF BreakersInit, MoneyTypeOK
<1>4. CountersTypeOK
  BY <1>2, BreakersAssumption DEF BreakersInit, CountersTypeOK, PositionStates
<1>5. LossesAreCounted
  BY <1>1 DEF BreakersInit, LossesAreCounted, NewBudget, Loss, Exhausts, DailyLoss,
              WeeklyLoss, HardDrawdown
<1>6. DayAccount
  BY <1>2, BreakersAssumption DEF BreakersInit, DayAccount, NewBudget
<1>7. CooldownAccount
  BY BreakersAssumption DEF BreakersInit, CooldownAccount
<1> QED BY <1>3, <1>4, <1>5, <1>6, <1>7, TypeParts DEF BreakersInv

(* An order changes nothing of the breakers. *)
LEMMA QueueEntryIInv == ASSUME BreakersInv, QueueEntry PROVE BreakersInv'
<1>1. /\ position' = "ordered"
      /\ UNCHANGED <<equity, daily, weekly, highWater, latched, entriesToday,
                     consecutiveLosses, cooldownUntil, lastTransitionAt,
                     enteredFrom, dayEntries, lossAt>>
  BY DEF QueueEntry, budgets
<1>2. BreakersTypeOK'
  BY <1>1 DEF BreakersInv, BreakersTypeOK, PositionStates
<1>3. LossesAreCounted'
  BY <1>1 DEF BreakersInv, LossesAreCounted
<1>4. DayAccount'
  BY <1>1 DEF BreakersInv, DayAccount, UtcDayStart
<1>5. CooldownAccount'
  BY <1>1 DEF BreakersInv, CooldownAccount
<1> QED BY <1>2, <1>3, <1>4, <1>5 DEF BreakersInv

(* A cancelled order, or a change of the open position's equity. *)
LEMMA RecordingIInv ==
  ASSUME BreakersInv, NEW at \in Times, NEW now \in Equities, RecordEquity(now),
         at >= lastTransitionAt, lastTransitionAt' = at, position' \in PositionStates,
         UNCHANGED <<entriesToday, consecutiveLosses, cooldownUntil,
                     enteredFrom, dayEntries, lossAt>>
  PROVE  BreakersInv'
<1>1. MoneyTypeOK' /\ LossesAreCounted' /\ daily'.anchor = daily.anchor
  BY RecordEquityFacts, TypeParts DEF BreakersInv
<1>2. CountersTypeOK'
  BY TypeParts DEF BreakersInv, CountersTypeOK
<1>3. DayAccount'
  BY <1>1, DayAccountKept
<1>4. CooldownAccount'
  BY DEF BreakersInv, CooldownAccount
<1> QED BY <1>1, <1>2, <1>3, <1>4, TypePartsNext DEF BreakersInv

(* An entry: it is only allowed below the limit, and counts in its day. *)
LEMMA OpenPositionIInv ==
  ASSUME BreakersInv, NEW at \in Times, NEW now \in Equities, OpenPositionAt(at, now)
  PROVE  BreakersInv'
<1>1. /\ at >= lastTransitionAt /\ entriesToday < MaxEntries
      /\ RecordEquity(now)
      /\ entriesToday' = entriesToday + 1
      /\ lastTransitionAt' = at
      /\ position' = "held" /\ enteredFrom' = equity
      /\ dayEntries' = DayEntriesAfter(at)
      /\ UNCHANGED <<consecutiveLosses, cooldownUntil, lossAt>>
  BY DEF OpenPositionAt, EntryAllowed
<1>2. MoneyTypeOK' /\ LossesAreCounted' /\ daily'.anchor = daily.anchor
  BY <1>1, RecordEquityFacts, TypeParts DEF BreakersInv
<1>3. dayEntries \in [day : Times, count : Nat]
      /\ UtcDayStart(at) \in Times
      /\ lastTransitionAt \in Times
      /\ UtcDayStart(lastTransitionAt) <= UtcDayStart(at)
  BY <1>1, DayFacts DEF BreakersInv, BreakersTypeOK
<1>4. /\ dayEntries'.day = UtcDayStart(at)
      /\ dayEntries' \in [day : Times, count : Nat]
      /\ dayEntries'.count = IF dayEntries.day = UtcDayStart(at)
                               THEN dayEntries.count + 1 ELSE 1
  BY <1>1, <1>3 DEF DayEntriesAfter
<1>5. CountersTypeOK'
  BY <1>1, <1>4, TypeParts, BreakersAssumption
  DEF BreakersInv, CountersTypeOK, MoneyTypeOK, PositionStates
<1>6. UtcDayStart(at) \in Nat
  BY <1>3 DEF Times
<1>7. (UtcDayStart(lastTransitionAt))' = UtcDayStart(at)
  BY <1>1 DEF UtcDayStart
<1>8. /\ daily.anchor <= UtcDayStart(lastTransitionAt)
      /\ dayEntries.day <= UtcDayStart(lastTransitionAt)
      /\ daily.anchor = dayEntries.day =>
           dayEntries.count <= MaxEntries + entriesToday
      /\ daily.anchor < dayEntries.day => dayEntries.count <= entriesToday
      /\ dayEntries.count <= 2 * MaxEntries
  BY DEF BreakersInv, DayAccount
<1>9. DayAccount'
  BY <1>1, <1>2, <1>3, <1>4, <1>6, <1>7, <1>8, DayAccountTypes
  DEF BreakersInv, DayAccount
<1>10. CooldownAccount'
  BY <1>1 DEF BreakersInv, CooldownAccount
<1> QED BY <1>2, <1>5, <1>9, <1>10, TypePartsNext DEF BreakersInv

(* A refused entry gives up broker and ledger, and only tells the time. *)
LEMMA RefusePositionIInv ==
  ASSUME BreakersInv, NEW at \in Times, RefusePosition(at) PROVE BreakersInv'
<1>1. /\ at >= lastTransitionAt /\ lastTransitionAt' = at
      /\ position' = "failed"
      /\ UNCHANGED <<equity, daily, weekly, highWater, latched, entriesToday,
                     consecutiveLosses, cooldownUntil, enteredFrom,
                     dayEntries, lossAt>>
  BY DEF RefusePosition, budgets
<1>2. BreakersTypeOK'
  BY <1>1 DEF BreakersInv, BreakersTypeOK, PositionStates
<1>3. LossesAreCounted'
  BY <1>1 DEF BreakersInv, LossesAreCounted
<1>4. DayAccount'
  BY <1>1, DayAccountKept
<1>5. CooldownAccount'
  BY <1>1 DEF BreakersInv, CooldownAccount
<1> QED BY <1>2, <1>3, <1>4, <1>5 DEF BreakersInv

(* A closed trade: the last loss of a streak starts the cooldown. *)
LEMMA ClosePositionIInv ==
  ASSUME BreakersInv, NEW at \in Times, NEW now \in Equities,
         NEW next \in {"none", "liquidated"}, ClosePosition(at, now, next)
  PROVE  BreakersInv'
<1>1. /\ at >= lastTransitionAt /\ lastTransitionAt' = at
      /\ ClosedTrade(at, now < enteredFrom)
      /\ RecordEquity(now)
      /\ position' = next /\ enteredFrom' = 0
      /\ lossAt' = IF now < enteredFrom THEN at ELSE lossAt
      /\ UNCHANGED <<entriesToday, dayEntries>>
  BY DEF ClosePosition
<1>2. MoneyTypeOK' /\ LossesAreCounted' /\ daily'.anchor = daily.anchor
  BY <1>1, RecordEquityFacts, TypeParts DEF BreakersInv
<1>3. consecutiveLosses' = (IF now < enteredFrom
                              THEN consecutiveLosses + 1 ELSE 0)
      /\ cooldownUntil' = (IF consecutiveLosses' >= LossLimit
                             THEN at + Cooldown ELSE cooldownUntil)
  BY <1>1 DEF ClosedTrade
<1>4. CountersTypeOK'
  BY <1>1, <1>3, TypeParts, BreakersAssumption
  DEF BreakersInv, CountersTypeOK, PositionStates, Times
<1>5. DayAccount'
  BY <1>1, <1>2, DayAccountKept
<1>6. CooldownAccount'
  BY <1>1, <1>3, BreakersAssumption DEF CooldownAccount
<1> QED BY <1>2, <1>4, <1>5, <1>6, TypePartsNext DEF BreakersInv

(* A reconciliation: entries of the new day made before it stay in the day's
   history, and at most MaxEntries of them were counted. *)
LEMMA ReconcileIInv ==
  ASSUME BreakersInv, NEW at \in Times, Reconcile(at) PROVE BreakersInv'
<1>1. /\ at >= lastTransitionAt /\ lastTransitionAt' = at
      /\ entriesToday' = IF UtcDayStart(at) > daily.anchor
                           THEN 0 ELSE entriesToday
      /\ daily' = IF UtcDayStart(at) > daily.anchor
                    THEN NewBudget(UtcDayStart(at), equity) ELSE daily
      /\ UNCHANGED <<consecutiveLosses, cooldownUntil, position, enteredFrom,
                     dayEntries, lossAt>>
  BY DEF Reconcile
<1>2. MoneyTypeOK' /\ LossesAreCounted'
  BY ReconcileFacts, TypeParts DEF BreakersInv
<1>3. CountersTypeOK'
  BY <1>1, TypeParts, BreakersAssumption DEF BreakersInv, CountersTypeOK
<1>4. UtcDayStart(lastTransitionAt) <= UtcDayStart(at)
      /\ UtcDayStart(at) \in Nat
  BY <1>1, DayFacts DEF BreakersInv, BreakersTypeOK, Times
<1>5. (UtcDayStart(lastTransitionAt))' = UtcDayStart(at)
  BY <1>1 DEF UtcDayStart
<1>6. DayAccount'
  <2>1. CASE UtcDayStart(at) > daily.anchor
    <3>1. daily'.anchor = UtcDayStart(at) /\ entriesToday' = 0
      BY <1>1, <2>1 DEF NewBudget
    <3> QED BY <1>1, <1>4, <1>5, <2>1, <3>1, DayAccountTypes
            DEF BreakersInv, DayAccount
  <2>2. CASE ~(UtcDayStart(at) > daily.anchor)
    <3>1. daily' = daily /\ UNCHANGED <<entriesToday, dayEntries>>
      BY <1>1, <2>2
    <3> QED BY <1>1, <3>1, DayAccountKept
  <2> QED BY <2>1, <2>2
<1>7. CooldownAccount'
  BY <1>1 DEF BreakersInv, CooldownAccount
<1> QED BY <1>2, <1>3, <1>6, <1>7, TypePartsNext DEF BreakersInv

(* Every step of the ledger preserves the invariant. *)
LEMMA NextBreakers == BreakersInv /\ [BreakersNext]_breakerVars => BreakersInv'
<1> SUFFICES ASSUME BreakersInv, [BreakersNext]_breakerVars PROVE BreakersInv'
  OBVIOUS
<1>1. CASE QueueEntry
  BY <1>1, QueueEntryIInv
<1>2. ASSUME NEW at \in Times, CancelEntry(at) PROVE BreakersInv'
  <2>1. equity \in Equities
    BY DEF BreakersInv, BreakersTypeOK
  <2> QED BY <1>2, <2>1, RecordingIInv DEF CancelEntry, PositionStates
<1>3. ASSUME NEW at \in Times, RefusePosition(at) PROVE BreakersInv'
  BY <1>3, RefusePositionIInv
<1>4. ASSUME NEW at \in Times, Reconcile(at) PROVE BreakersInv'
  BY <1>4, ReconcileIInv
<1>5. ASSUME NEW at \in Times, NEW now \in Equities, OpenPositionAt(at, now)
      PROVE  BreakersInv'
  BY <1>5, OpenPositionIInv
<1>6. ASSUME NEW at \in Times, NEW now \in Equities, AdjustPosition(at, now)
      PROVE  BreakersInv'
  <2>1. position \in PositionStates
    BY DEF BreakersInv, BreakersTypeOK
  <2> QED BY <1>6, <2>1, RecordingIInv DEF AdjustPosition
<1>7. ASSUME NEW at \in Times, NEW now \in Equities,
             NEW next \in {"none", "liquidated"}, ClosePosition(at, now, next)
      PROVE  BreakersInv'
  BY <1>7, ClosePositionIInv
<1>8. CASE UNCHANGED breakerVars
  <2>1. UNCHANGED <<equity, daily, weekly, highWater, latched, entriesToday,
                    consecutiveLosses, cooldownUntil, lastTransitionAt,
                    position, enteredFrom, dayEntries, lossAt>>
    BY <1>8 DEF breakerVars, budgets
  <2>2. BreakersTypeOK'
    BY <2>1 DEF BreakersInv, BreakersTypeOK
  <2>3. LossesAreCounted'
    BY <2>1 DEF BreakersInv, LossesAreCounted
  <2>4. DayAccount'
    BY <2>1 DEF BreakersInv, DayAccount, UtcDayStart
  <2>5. CooldownAccount'
    BY <2>1 DEF BreakersInv, CooldownAccount
  <2> QED BY <2>2, <2>3, <2>4, <2>5 DEF BreakersInv
<1> QED BY <1>1, <1>2, <1>3, <1>4, <1>5, <1>6, <1>7, <1>8 DEF BreakersNext

-----------------------------------------------------------------------------
(* Types, counted losses, the entries of a day and the cooldown's start hold
   in every reachable state of the ledger (BreakerState, LedgerState). *)
THEOREM BreakersInvariant == BreakersSpec => []BreakersInv
<1>1. BreakersInit => BreakersInv
  BY InitBreakers
<1>2. BreakersInv /\ [BreakersNext]_breakerVars => BreakersInv'
  BY NextBreakers
<1> QED BY <1>1, <1>2, PTL DEF BreakersSpec

(* BreakerState's fields keep their types; the counter never passes the
   entry limit. *)
THEOREM BreakersTypeCorrect == BreakersSpec => []BreakersTypeOK
<1>1. BreakersInv => BreakersTypeOK
  BY DEF BreakersInv
<1> QED BY <1>1, BreakersInvariant, PTL

(* record_equity and reconcile lose no loss, whatever the limits and the
   order of transitions. *)
THEOREM LossesCounted == BreakersSpec => []LossesAreCounted
<1>1. BreakersInv => LossesAreCounted
  BY DEF BreakersInv
<1> QED BY <1>1, BreakersInvariant, PTL

(* record_entry and reconcile admit at most two allowances in a UTC day. *)
THEOREM DayLimit == BreakersSpec => []DayLimitBounded
<1>1. BreakersInv => DayLimitBounded
  BY DEF BreakersInv, DayAccount, DayLimitBounded
<1> QED BY <1>1, BreakersInvariant, PTL

(* What a step does to the money: it records an equity, starts a period or
   leaves budgets and latch alone. *)
LEMMA MoneySteps ==
  ASSUME BreakersInv, [BreakersNext]_breakerVars
  PROVE  \/ \E now \in Equities : RecordEquity(now)
         \/ \E at \in Times : Reconcile(at)
         \/ UNCHANGED <<daily, weekly, highWater, latched>>
<1>1. CASE QueueEntry
  BY <1>1 DEF QueueEntry, budgets
<1>2. ASSUME NEW at \in Times, CancelEntry(at)
      PROVE  \E now \in Equities : RecordEquity(now)
  <2>1. equity \in Equities /\ RecordEquity(equity)
    BY <1>2 DEF BreakersInv, BreakersTypeOK, CancelEntry
  <2> QED BY <2>1
<1>3. ASSUME NEW at \in Times, RefusePosition(at)
      PROVE  UNCHANGED <<daily, weekly, highWater, latched>>
  BY <1>3 DEF RefusePosition, budgets
<1>4. ASSUME NEW at \in Times, NEW now \in Equities,
             \/ OpenPositionAt(at, now) \/ AdjustPosition(at, now)
             \/ \E next \in {"none", "liquidated"} :
                  ClosePosition(at, now, next)
      PROVE  RecordEquity(now)
  BY <1>4 DEF OpenPositionAt, AdjustPosition, ClosePosition
<1>5. CASE UNCHANGED breakerVars
  BY <1>5 DEF breakerVars, budgets
<1> QED BY <1>1, <1>2, <1>3, <1>4, <1>5 DEF BreakersNext

(* LossBudget: nothing used or tripped is given back before a reconciliation
   in a later period, which starts from the equity of its moment. *)
THEOREM BudgetsKept == BreakersSpec => BudgetsNeverRefill
<1>1. ASSUME BreakersInv, [BreakersNext]_breakerVars
      PROVE  /\ daily'.anchor = daily.anchor =>
                  daily'.used >= daily.used /\ (daily.tripped => daily'.tripped)
             /\ weekly'.anchor = weekly.anchor =>
                  weekly'.used >= weekly.used
                    /\ (weekly.tripped => weekly'.tripped)
             /\ daily'.anchor # daily.anchor =>
                  daily'.anchor > daily.anchor /\ daily'.start = equity
  <2>1. MoneyTypeOK /\ LossesAreCounted
    BY <1>1, TypeParts DEF BreakersInv
  <2>2. daily.used \in Nat /\ weekly.used \in Nat
    BY <2>1 DEF MoneyTypeOK, BudgetType
  <2>3. ASSUME NEW now \in Equities, RecordEquity(now)
        PROVE  /\ daily'.anchor = daily.anchor /\ daily'.used >= daily.used
               /\ daily.tripped => daily'.tripped
               /\ weekly'.used >= weekly.used
               /\ weekly.tripped => weekly'.tripped
    BY <2>1, <2>3, RecordEquityFacts
  <2>4. ASSUME NEW at \in Times, Reconcile(at)
        PROVE  /\ daily'.anchor = daily.anchor => daily' = daily
               /\ weekly'.anchor = weekly.anchor => weekly' = weekly
               /\ daily'.anchor # daily.anchor =>
                    daily'.anchor > daily.anchor /\ daily'.start = equity
    BY <2>1, <2>4, ReconcileFacts
  <2>5. CASE \E now \in Equities : RecordEquity(now)
    BY <2>3, <2>5
  <2>6. CASE \E at \in Times : Reconcile(at)
    BY <2>2, <2>4, <2>6
  <2>7. CASE UNCHANGED <<daily, weekly, highWater, latched>>
    BY <2>2, <2>7
  <2> QED BY <1>1, <2>5, <2>6, <2>7, MoneySteps
<1> QED BY <1>1, BreakersInvariant, PTL DEF BreakersSpec, BudgetsNeverRefill

(* What an entry needs: the breakers allow it at its time. *)
LEMMA EntersAllowed ==
  ASSUME [BreakersNext]_breakerVars, Enters
  PROVE  ~latched /\ lastTransitionAt' >= cooldownUntil
<1>1. ASSUME NEW at \in Times, NEW now \in Equities, OpenPositionAt(at, now)
      PROVE  ~latched /\ lastTransitionAt' >= cooldownUntil
  BY <1>1 DEF OpenPositionAt, EntryAllowed
<1>2. ~QueueEntry
  BY DEF QueueEntry, Enters
<1>3. \A at \in Times : ~CancelEntry(at) /\ ~RefusePosition(at)
                          /\ ~Reconcile(at)
  BY DEF CancelEntry, RefusePosition, Reconcile, Enters
<1>4. \A at \in Times, now \in Equities :
        /\ ~AdjustPosition(at, now)
        /\ \A next \in {"none", "liquidated"} : ~ClosePosition(at, now, next)
  BY DEF AdjustPosition, ClosePosition, Enters
<1>5. ~UNCHANGED breakerVars
  BY DEF breakerVars, Enters
<1> QED BY <1>1, <1>2, <1>3, <1>4, <1>5 DEF BreakersNext

(* The drawdown latch is never cleared and admits no entry. *)
THEOREM LatchFinal == BreakersSpec => LatchIsFinal
<1>1. ASSUME BreakersInv, [BreakersNext]_breakerVars PROVE latched => latched' /\ ~Enters
  <2>1. MoneyTypeOK /\ LossesAreCounted
    BY <1>1, TypeParts DEF BreakersInv
  <2>2. ASSUME NEW now \in Equities, RecordEquity(now)
        PROVE  latched => latched'
    BY <2>1, <2>2, RecordEquityFacts
  <2>3. ASSUME NEW at \in Times, Reconcile(at) PROVE latched => latched'
    BY <2>3 DEF Reconcile
  <2>4. latched => latched'
    BY <1>1, <2>2, <2>3, MoneySteps
  <2> QED BY <1>1, <2>4, EntersAllowed
<1> QED BY <1>1, BreakersInvariant, PTL DEF BreakersSpec, LatchIsFinal

(* After a losing streak no position opens before the cooldown since its last
   loss has passed (record_closed_trade, entry_allowed). *)
THEOREM CooldownKept == BreakersSpec => CooldownHonoured
<1>1. ASSUME BreakersInv, [BreakersNext]_breakerVars
      PROVE  Enters /\ consecutiveLosses >= LossLimit =>
               lastTransitionAt' >= lossAt + Cooldown
  BY <1>1, EntersAllowed DEF BreakersInv, CooldownAccount
<1> QED BY <1>1, BreakersInvariant, PTL DEF BreakersSpec, CooldownHonoured

(***************************************************************************)
(* The money of a position                                                 *)
(***************************************************************************)

(* Rounding gives an integer, and never makes a sum negative. *)
LEMMA QuotientType ==
  ASSUME NEW a \in Int, NEW b \in Nat \ {0}
  PROVE  /\ Quotient(a, b) \in Int
         /\ a >= 0 => Quotient(a, b) \in Nat
<1>1. a \div b \in Int /\ a % b \in Int
  OBVIOUS
<1>2. a >= 0 => a \div b >= 0
  OBVIOUS
<1> QED
  BY <1>1, <1>2 DEF Quotient

(* A whole is divided by its own size without rounding. *)
LEMMA QuotientOfWhole ==
  ASSUME NEW a \in Int, NEW b \in Nat \ {0}
  PROVE  Quotient(a * b, b) = a /\ Quotient(b * a, b) = a
<1>1. (a * b) \div b = a /\ (a * b) % b = 0
  OBVIOUS
<1>2. b * a = a * b
  OBVIOUS
<1> QED
  BY <1>1, <1>2 DEF Quotient

LEMMA FeeType ==
  ASSUME NEW value \in Nat
  PROVE  FeeOf(value) \in Nat
BY QuotientType, SettlementAssumption DEF FeeOf, SettlementAssumption

(* A walk fills at most what it was asked for, at prices above zero. *)
LEMMA WalkType ==
  ASSUME NEW lots \in Nat, NEW side, NEW walk \in Walks(lots, side)
  PROVE  walk.filled \in 0 .. lots /\ walk.value \in Nat
<1>1. CASE walk \in {[filled |-> n, value |-> n * price] :
                       n \in 0 .. lots, price \in Prices}
  <2>1. PICK n \in 0 .. lots, price \in Prices :
          walk = [filled |-> n, value |-> n * price]
    BY <1>1
  <2>2. n \in Nat /\ price \in Nat /\ n * price \in Nat
    BY SettlementAssumption DEF SettlementAssumption
  <2> QED
    BY <2>1, <2>2
<1>2. CASE walk \in {[filled |-> n, value |-> n * price + Sign(side) * Scale] :
                       n \in 2 .. lots, price \in Prices}
  <2>1. PICK n \in 2 .. lots, price \in Prices :
          walk = [filled |-> n, value |-> n * price + Sign(side) * Scale]
    BY <1>2
  <2>2. n \in Nat /\ n >= 2 /\ price \in Nat /\ price > Scale /\ Scale \in Nat
    BY SettlementAssumption DEF SettlementAssumption
  <2>3. n * price >= price /\ n * price \in Nat
    BY <2>2
  <2>4. Sign(side) * Scale \in Int /\ Sign(side) * Scale >= -Scale
    BY <2>2 DEF Sign
  <2>5. n * price + Sign(side) * Scale \in Nat
    BY <2>2, <2>3, <2>4
  <2> QED
    BY <2>1, <2>5
<1> QED
  BY <1>1, <1>2 DEF Walks

LEMMA VwapType ==
  ASSUME NEW lots \in Nat, NEW side, NEW walk \in Walks(lots, side), walk.filled > 0
  PROVE  Vwap(walk) \in Nat
BY WalkType, QuotientType DEF Vwap

LEMMA GainType ==
  ASSUME NEW stake, stake.entry \in Nat,
         NEW price \in Nat, NEW lots \in Nat
  PROVE  Gain(stake, price, lots) \in Int
<1>1. Sign(stake.side) \in Int /\ price - stake.entry \in Int
  BY DEF Sign
<1> QED
  BY <1>1 DEF Gain

(* What a fill releases and what it leaves are the collateral and the gain
   together, and a fill of every lot leaves no collateral. *)
LEMMA SettledBalance ==
  ASSUME NEW l \in Accounts, NEW side, NEW walk \in Walks(l.quantity, side),
         walk.filled > 0
  PROVE  LET s == Settled(l, walk)
         IN  /\ s.released \in Nat /\ s.residual \in Int /\ s.gross \in Int
             /\ s.released + s.residual = l.isolated + s.gross
             /\ walk.filled = l.quantity => s.residual <= 0
<1> DEFINE fraction  == Quotient(walk.filled * Scale, l.quantity)
           allocated == Product(l.isolated, fraction)
           gross     == Gain(l, Vwap(walk), walk.filled)
<1>1. /\ l.quantity \in Nat \ {0} /\ walk.filled \in Nat /\ l.isolated \in Int
      /\ l.entry \in Nat /\ Scale \in Nat \ {0}
  BY WalkType, SettlementAssumption DEF Accounts, SettlementAssumption
<1>2. gross \in Int
  BY <1>1, VwapType, GainType
<1>3. fraction \in Int
  <2>1. walk.filled * Scale \in Int
    BY <1>1
  <2> QED
    BY <1>1, <2>1, QuotientType
<1>4. allocated \in Int
  <2>1. l.isolated * fraction \in Int
    BY <1>1, <1>3
  <2> QED
    BY <1>1, <2>1, QuotientType DEF Product
<1>5. walk.filled = l.quantity => allocated = l.isolated
  <2> Scale \in Int
    BY <1>1
  <2>1. Quotient(l.quantity * Scale, l.quantity) = Scale
    BY <1>1, QuotientOfWhole, Zenon
  <2>2. Quotient(l.isolated * Scale, Scale) = l.isolated
    BY <1>1, QuotientOfWhole, Zenon
  <2>3. walk.filled = l.quantity => fraction = Scale
    BY <2>1
  <2> QED
    BY <2>2, <2>3 DEF Product
<1>6. Settled(l, walk) =
        [released |-> Max0(allocated + gross),
         residual |-> l.isolated - allocated + Min0(allocated + gross),
         gross |-> gross]
  BY DEF Settled
<1> HIDE DEF fraction, allocated, gross
<1>7. /\ Max0(allocated + gross) \in Nat /\ Min0(allocated + gross) \in Int
      /\ Min0(allocated + gross) <= 0
      /\ Max0(allocated + gross) + Min0(allocated + gross) = allocated + gross
  BY <1>2, <1>4 DEF Max0, Min0
<1> DEFINE released == Max0(allocated + gross)
           residual == l.isolated - allocated + Min0(allocated + gross)
<1>8. /\ released \in Nat /\ residual \in Int
      /\ released + residual = l.isolated + gross
      /\ walk.filled = l.quantity => residual <= 0
  BY <1>1, <1>2, <1>4, <1>5, <1>7
<1>9. Settled(l, walk) =
        [released |-> released, residual |-> residual, gross |-> gross]
  BY <1>6
<1> HIDE DEF released, residual
<1> QED
  BY <1>2, <1>8, <1>9

(* A transition the ledger accepts is the one it was asked for. *)
LEMMA AcceptedOnly ==
  ASSUME NEW l
  PROVE  /\ Accept(l).error \in {"none", "negative equity"}
         /\ Accept(l).ledger = l
BY DEF Accept

Refusals == {"insufficient cash", "invalid forfeit", "excess forfeit",
             "capped liquidation required", "negative equity"}

(* What an exit makes of the account: cash changes by what is released less
   the fee, and nothing else is made or lost. *)
Exited(l, filled, spared) ==
  /\ l \in Accounts
  /\ l.quantity = ledger.quantity - filled
  /\ l.quantity = 0 => l.side = "none" /\ l.entry = 0 /\ l.isolated = 0
  /\ l.quantity > 0 => l.side = ledger.side /\ l.entry = ledger.entry
  /\ l.cash + l.fees >= ledger.cash + ledger.fees
  /\ l.cash + l.isolated - l.realized + l.fees
       = ledger.cash + ledger.isolated - ledger.realized + ledger.fees + spared
  /\ l.paid = ledger.paid /\ l.received = ledger.received
  /\ l.cashflow - l.cash = ledger.cashflow - ledger.cash

LEMMA ExitBalance ==
  ASSUME ledger \in Accounts, NEW side,
         NEW walk \in Walks(ledger.quantity, side), walk.filled > 0,
         NEW forfeit
  PROVE  LET r == SettleExit(walk, forfeit)
             spared == Max0(-Settled(ledger, walk).residual)
         IN  /\ r.error \in Refusals \cup {"none"}
             /\ spared \in Nat
             /\ r.error = "none" => Exited(r.ledger, walk.filled, spared)
<1> DEFINE s    == Settled(ledger, walk)
           fee  == FeeOf(walk.value)
           left == ledger.quantity - walk.filled
           due  == IF s.residual < 0 THEN Max0(ledger.isolated) ELSE None
           kept == IF left = 0 THEN 0 ELSE Max0(s.residual)
           new  == [ledger EXCEPT
             !.cash = @ + s.released - fee,
             !.isolated = kept,
             !.quantity = left,
             !.side = IF left = 0 THEN "none" ELSE @,
             !.entry = IF left = 0 THEN 0 ELSE @,
             !.cashflow = @ + s.released - fee,
             !.realized = @ + s.gross,
             !.fees = @ + fee]
           r == SettleExit(walk, forfeit)
<1>1. /\ s.released \in Nat /\ s.residual \in Int /\ s.gross \in Int
      /\ s.released + s.residual = ledger.isolated + s.gross
      /\ walk.filled = ledger.quantity => s.residual <= 0
  BY SettledBalance
<1>2. fee \in Nat /\ left \in 0 .. Lots /\ walk.filled \in Nat
  <2>1. walk.filled \in 0 .. ledger.quantity /\ walk.value \in Nat
    BY WalkType DEF Accounts
  <2> QED
    BY <2>1, FeeType, SettlementAssumption DEF Accounts, SettlementAssumption
<1>3. r = IF due # None /\ forfeit = None THEN Refuse("capped liquidation required")
          ELSE IF due # forfeit THEN Refuse("invalid forfeit")
          ELSE IF ledger.cash + s.released - fee < 0 THEN Refuse("insufficient cash")
          ELSE Accept(new)
  BY DEF SettleExit
<1>4. /\ ledger.cash \in Nat /\ ledger.fees \in Nat /\ ledger.realized \in Int
      /\ ledger.isolated \in Int /\ ledger.cashflow \in Int
      /\ ledger.quantity \in Nat /\ ledger.side \in Sides /\ ledger.entry \in Nat
  BY DEF Accounts
<1> HIDE DEF s, fee, due
<1>5. kept \in Int /\ kept = s.residual + Max0(-s.residual)
  <2>1. left = 0 => s.residual <= 0
    BY <1>1, <1>2, <1>4
  <2> QED
    BY <1>1, <2>1 DEF Max0
<1>6. Max0(-s.residual) \in Nat /\ (left = 0 => kept = 0)
  BY <1>1 DEF Max0
<1> HIDE DEF kept
<1>7. ASSUME ledger.cash + s.released - fee >= 0
      PROVE  Exited(new, walk.filled, Max0(-s.residual))
  <2>1. /\ new.cash = ledger.cash + s.released - fee /\ new.fees = ledger.fees + fee
        /\ new.realized = ledger.realized + s.gross
        /\ new.cashflow = ledger.cashflow + s.released - fee
        /\ new.paid = ledger.paid /\ new.received = ledger.received
        /\ new.quantity = left /\ new.isolated = kept
        /\ new.side = (IF left = 0 THEN "none" ELSE ledger.side)
        /\ new.entry = (IF left = 0 THEN 0 ELSE ledger.entry)
    BY DEF Accounts
  <2>2. new \in Accounts
    <3>1. /\ ledger.cash + s.released - fee \in Nat
          /\ ledger.cashflow + s.released - fee \in Int
          /\ ledger.realized + s.gross \in Int /\ ledger.fees + fee \in Nat
      BY <1>1, <1>2, <1>4, <1>7
    <3>2. /\ (IF left = 0 THEN "none" ELSE ledger.side) \in Sides
          /\ (IF left = 0 THEN 0 ELSE ledger.entry) \in Nat
      BY <1>4 DEF Sides
    <3> QED
      BY <1>2, <1>5, <3>1, <3>2 DEF Accounts
  <2> HIDE DEF new
  <2>3. left \in Nat
    BY <1>2, SettlementAssumption DEF SettlementAssumption
  <2>4. /\ new.cash + new.fees >= ledger.cash + ledger.fees
        /\ new.cashflow - new.cash = ledger.cashflow - ledger.cash
    BY <1>1, <1>2, <1>4, <2>1
  <2> DEFINE spared == Max0(-s.residual)
  <2>5. spared \in Int
    BY <1>6
  <2> HIDE DEF spared
  <2>6. kept = s.residual + spared
    BY <1>5 DEF spared
  <2>7. new.cash + new.isolated - new.realized + new.fees
          = ledger.cash + ledger.isolated - ledger.realized + ledger.fees + spared
    BY <1>1, <1>2, <1>4, <2>1, <2>5, <2>6
  <2> QED
    BY <1>6, <2>1, <2>2, <2>3, <2>4, <2>7 DEF Exited, spared
<1> HIDE DEF new, r
<1>8. ledger.cash + s.released - fee \in Int
  BY <1>1, <1>2, <1>4
<1>9. CASE r = Accept(new) /\ ledger.cash + s.released - fee >= 0
  <2>1. Accept(new).error \in {"none", "negative equity"}
    BY AcceptedOnly
  <2>2. Accept(new).ledger = new
    BY AcceptedOnly
  <2>3. r.error \in Refusals \cup {"none"}
    BY <1>9, <2>1 DEF Refusals
  <2>4. r.error = "none" => Exited(r.ledger, walk.filled, Max0(-s.residual))
    BY <1>7, <1>9, <2>2
  <2> QED
    BY <1>6, <2>3, <2>4 DEF s, r
<1>10. CASE \E error \in {"capped liquidation required", "invalid forfeit",
                           "insufficient cash"} : r = Refuse(error)
  <2> PICK error \in {"capped liquidation required", "invalid forfeit",
                       "insufficient cash"} : r = Refuse(error)
    BY <1>10
  <2>1. r.error \in Refusals /\ r.error # "none"
    BY DEF Refuse, Refusals
  <2> QED
    BY <1>6, <2>1 DEF s, r
<1> QED
  <2>1. \/ r = Refuse("capped liquidation required")
        \/ r = Refuse("invalid forfeit")
        \/ r = Refuse("insufficient cash")
        \/ ~(ledger.cash + s.released - fee < 0) /\ r = Accept(new)
    BY <1>3, Zenon
  <2>2. ~(ledger.cash + s.released - fee < 0) => ledger.cash + s.released - fee >= 0
    BY <1>8
  <2> QED
    BY <1>9, <1>10, <2>1, <2>2, Zenon

----------------------------------------------------------------------------
(* The inductive invariant *)

\* The account of l with the history h: conserved, and its trade is its cash.
Sound(l, h) ==
  /\ l \in Accounts /\ h \in Histories
  /\ l.cash + l.isolated =
       Initial + l.realized - l.fees - l.paid + l.received + h.spared - h.seized
  /\ h.trades > 0 => l.cashflow = l.cash - h.cashBefore

\* Without a position there is no collateral.
FlatIsFree == ledger.quantity = 0 => ledger.isolated = 0

IInv == SettlementTypeOK /\ SamePosition /\ FlatIsFree /\ Sound(ledger, history)

CashKept == ledger.quantity > 0 =>
              ledger'.cash + ledger'.fees >= ledger.cash + ledger.fees

LEMMA InitIInv == Init => IInv
BY SettlementAssumption
   DEF Init, IInv, SettlementTypeOK, SamePosition, FlatIsFree, Sound, NoPosition, NoRequest,
       NoHistory, Held, Positions, Requests, Accounts, Histories, Sides, Reasons,
       Failures, SettlementAssumption

LEMMA FailStep ==
  ASSUME IInv, NEW cause \in Failures, Fail(cause)
  PROVE  IInv' /\ CashKept
<1>1. ledger.cash + ledger.fees \in Int
  BY DEF IInv, SettlementTypeOK, Accounts
<1> QED
  BY <1>1 DEF IInv, Fail, SettlementTypeOK, SamePosition, FlatIsFree, Held, Sound,
             CashKept

LEMMA MandatoryStep ==
  ASSUME SettlementTypeOK, NEW reason \in Reasons, NEW mark \in Nat,
         StartMandatory(reason, mark)
  PROVE  state' = "MandatoryExit" /\ request' \in Requests
BY DEF SettlementTypeOK, StartMandatory, Escalated, Requests

LEMMA ObserveMarkStep ==
  ASSUME IInv, NEW mark \in Prices, NEW reason \in {"none", "Strategy"},
         ObserveMark(mark, reason)
  PROVE  IInv' /\ CashKept
<1> DEFINE cause == IF MarkedReason(mark) = "none" THEN reason ELSE MarkedReason(mark)
<1>1. cause \in Reasons
  BY DEF MarkedReason, Reasons
<1>2. mark \in Nat
  BY SettlementAssumption DEF SettlementAssumption
<1>3. /\ Held /\ UNCHANGED <<active, ledger, failure, history>>
      /\ IF Severity(cause) > 0 THEN StartMandatory(cause, mark)
           ELSE /\ state' = "NormalExit"
                /\ request' = [reason |-> cause, mark |-> mark]
  BY DEF ObserveMark
<1> HIDE DEF cause
<1>4. state' \in {"NormalExit", "MandatoryExit"} /\ request' \in Requests
  BY <1>1, <1>2, <1>3, MandatoryStep DEF IInv, Requests
<1>5. ledger.cash + ledger.fees \in Int
  BY DEF IInv, SettlementTypeOK, Accounts
<1> QED
  BY <1>3, <1>4, <1>5 DEF IInv, SettlementTypeOK, SamePosition, FlatIsFree, Held, Sound,
             CashKept

LEMMA AdvanceTimeStep ==
  ASSUME IInv, AdvanceTime
  PROVE  IInv' /\ CashKept
<1>1. ledger.cash + ledger.fees \in Int
  BY DEF IInv, SettlementTypeOK, Accounts
<1> QED
  BY <1>1 DEF AdvanceTime, IInv, SettlementTypeOK, SamePosition, FlatIsFree, Held, Sound,
             CashKept

(* Funding moves collateral of both accounts and no cash. *)
LEMMA ApplyFundingStep ==
  ASSUME IInv, NEW mark \in Prices, NEW rate \in Rates, ApplyFunding(mark, rate)
  PROVE  IInv' /\ CashKept
<1> DEFINE amount == Sign(active.side)
                       * Quotient(active.quantity * mark * rate, 10000)
           funded == [active EXCEPT !.collateral = @ - amount]
           new    == [ledger EXCEPT !.isolated = @ - amount,
                        !.paid = @ + Max0(amount), !.received = @ - Min0(amount)]
           booked == ApplyFundingTo(ledger, amount)
<1>1. amount \in Int
  <2>1. active.quantity * mark * rate \in Int
    BY SettlementAssumption
       DEF IInv, SettlementTypeOK, Positions, SettlementAssumption
  <2>2. Quotient(active.quantity * mark * rate, 10000) \in Int
    BY <2>1, QuotientType
  <2> QED
    BY <2>2 DEF Sign
<1>2. /\ Held
      /\ IF booked.error # "none" THEN Fail(booked.error)
         ELSE /\ active' = funded
              /\ ledger' = booked.ledger
              /\ IF Liquidates(funded, mark) THEN StartMandatory("Liquidation", mark)
                   ELSE UNCHANGED <<state, request>>
              /\ history' = [history EXCEPT !.fundings = @ + 1]
              /\ UNCHANGED failure
  BY DEF ApplyFunding
<1> HIDE DEF amount
<1>3. booked = Accept(new)
  BY DEF ApplyFundingTo
<1>4. booked.error \in Failures /\ booked.ledger = new
  <2>1. Accept(new).error \in {"none", "negative equity"}
    BY AcceptedOnly
  <2>2. Accept(new).ledger = new
    BY AcceptedOnly
  <2> QED
    BY <1>3, <2>1, <2>2 DEF Failures
<1>5. CASE booked.error # "none"
  BY <1>2, <1>4, <1>5, FailStep
<1>6. CASE booked.error = "none"
  <2>1. /\ active' = funded /\ ledger' = new /\ UNCHANGED failure
        /\ history' = [history EXCEPT !.fundings = @ + 1]
    BY <1>2, <1>4, <1>6
  <2>2. /\ state' \in {"Open", "NormalExit", "MandatoryExit"}
        /\ request' \in Requests
    <3>1. mark \in Nat /\ "Liquidation" \in Reasons
      BY SettlementAssumption DEF SettlementAssumption, Reasons
    <3> QED
      BY <1>2, <1>6, <3>1, MandatoryStep DEF IInv, SettlementTypeOK, Held
  <2>3. /\ Max0(amount) \in Nat /\ Min0(amount) \in Int /\ Min0(amount) <= 0
        /\ Max0(amount) + Min0(amount) = amount
    BY <1>1 DEF Max0, Min0
  <2>4. /\ ledger.cash \in Nat /\ ledger.isolated \in Int /\ ledger.paid \in Nat
        /\ ledger.received \in Nat /\ ledger.fees \in Nat
        /\ ledger.realized \in Int /\ ledger.cashflow \in Int
        /\ ledger.quantity \in 0 .. Lots
    BY DEF IInv, SettlementTypeOK, Accounts
  <2>5. /\ new.isolated = ledger.isolated - amount
        /\ new.paid = ledger.paid + Max0(amount)
        /\ new.received = ledger.received - Min0(amount)
        /\ new.cash = ledger.cash /\ new.fees = ledger.fees
        /\ new.realized = ledger.realized /\ new.cashflow = ledger.cashflow
        /\ new.side = ledger.side /\ new.quantity = ledger.quantity
        /\ new.entry = ledger.entry
    BY DEF IInv, SettlementTypeOK, Accounts
  <2>6. new \in Accounts
    <3>1. /\ ledger.isolated - amount \in Int /\ ledger.paid + Max0(amount) \in Nat
          /\ ledger.received - Min0(amount) \in Nat
      BY <1>1, <2>3, <2>4
    <3> QED
      BY <3>1 DEF IInv, SettlementTypeOK, Accounts
  <2>7. funded \in Positions /\ funded.side = active.side
          /\ funded.quantity = active.quantity /\ funded.entry = active.entry
    <3>1. active.collateral - amount \in Int
      BY <1>1 DEF IInv, SettlementTypeOK, Positions
    <3> QED
      BY <3>1 DEF IInv, SettlementTypeOK, Positions
  <2>8. /\ history' \in Histories /\ history'.spared = history.spared
        /\ history'.seized = history.seized /\ history'.trades = history.trades
        /\ history'.cashBefore = history.cashBefore
        /\ history.spared \in Nat /\ history.seized \in Int
    BY <2>1 DEF IInv, SettlementTypeOK, Histories
  <2>9. SettlementTypeOK'
    BY <2>1, <2>2, <2>6, <2>7, <2>8 DEF IInv, SettlementTypeOK
  <2>10. SamePosition' /\ FlatIsFree'
    BY <1>2, <2>1, <2>2, <2>4, <2>5, <2>7 DEF IInv, SamePosition, FlatIsFree, Held
  <2> HIDE DEF new
  <2>11. Sound(new, history')
    <3>1. new.cash + new.isolated =
            Initial + new.realized - new.fees - new.paid + new.received
              + history'.spared - history'.seized
      BY <1>1, <2>3, <2>4, <2>5, <2>8, SettlementAssumption
         DEF IInv, Sound, SettlementAssumption
    <3> QED
      BY <2>5, <2>6, <2>8, <3>1 DEF IInv, Sound
  <2>12. CashKept
    BY <2>1, <2>4, <2>5 DEF CashKept
  <2> QED
    BY <2>1, <2>9, <2>10, <2>11, <2>12 DEF IInv, Sound
<1> QED
  BY <1>5, <1>6

(* An entry moves margin from cash to collateral and pays the fee. *)
LEMMA EnterStep ==
  ASSUME IInv, NEW side \in {"Long", "Short"}, NEW walk \in Walks(Lots, side),
         Enter(side, walk)
  PROVE  IInv' /\ CashKept
<1> DEFINE stake == Opened(side, walk)
           opened == OpenPosition(side, walk)
           margin == Quotient(Vwap(walk) * walk.filled, Leverage)
           fee    == FeeOf(walk.value)
           new    == [ledger EXCEPT
             !.cash = @ - margin - fee, !.isolated = margin,
             !.side = side, !.quantity = walk.filled, !.entry = Vwap(walk),
             !.cashflow = -(margin + fee), !.fees = @ + fee]
<1>1. /\ state = "Flat" /\ walk.filled > 0
      /\ IF opened.error # "none" THEN Fail(opened.error)
         ELSE /\ active' = stake
              /\ ledger' = opened.ledger
              /\ IF walk.value < MinimumNotional
                   THEN StartMandatory("Dust", stake.entry)
                 ELSE IF Liquidates(stake, stake.entry)
                   THEN StartMandatory("Liquidation", stake.entry)
                 ELSE state' = "Open" /\ UNCHANGED request
              /\ history' = [history EXCEPT !.trades = @ + 1, !.fills = 1,
                                            !.cashBefore = ledger.cash]
              /\ UNCHANGED failure
  BY DEF Enter
<1>2. /\ walk.filled \in 1 .. Lots /\ walk.value \in Nat /\ Lots \in Nat
      /\ Vwap(walk) \in Nat /\ fee \in Nat /\ margin \in Nat
  <2>1. walk.filled \in 1 .. Lots /\ walk.value \in Nat /\ Lots \in Nat
    BY <1>1, WalkType, SettlementAssumption DEF SettlementAssumption
  <2>2. Vwap(walk) \in Nat
    BY <1>1, <2>1, VwapType
  <2>3. Vwap(walk) * walk.filled \in Nat
    BY <2>1, <2>2
  <2>4. margin \in Nat
    BY <2>3, QuotientType, SettlementAssumption DEF SettlementAssumption
  <2> QED
    BY <2>1, <2>2, <2>4, FeeType
<1>3. stake \in Positions /\ stake.side = side
        /\ stake.quantity = walk.filled /\ stake.entry = Vwap(walk)
  <2>1. walk.value \in Int /\ Leverage \in Nat \ {0}
    BY <1>2, SettlementAssumption DEF SettlementAssumption
  <2>2. Quotient(walk.value, Leverage) \in Int
    BY <2>1, QuotientType
  <2>3. Opened(side, walk) =
          [side |-> side, quantity |-> walk.filled, entry |-> Vwap(walk),
           collateral |-> Quotient(walk.value, Leverage)]
    BY DEF Opened
  <2>4. side \in Sides /\ walk.filled \in 0 .. Lots /\ Vwap(walk) \in Nat
    BY <1>2 DEF Sides
  <2> QED
    BY <2>2, <2>3, <2>4 DEF Positions
<1>4. opened = IF ledger.cash < margin + fee THEN Refuse("insufficient cash")
               ELSE Accept(new)
  BY DEF OpenPosition
<1> HIDE DEF stake, margin, fee, opened
<1>5. CASE opened.error # "none"
  <2>1. opened.error \in Failures
    <3>1. Refuse("insufficient cash").error \in Failures
      BY DEF Refuse, Failures
    <3>2. Accept(new).error \in Failures
      BY AcceptedOnly DEF Failures
    <3> QED
      BY <1>4, <3>1, <3>2
  <2> QED
    BY <1>1, <1>5, <2>1, FailStep
<1>6. CASE opened.error = "none"
  <2>1. opened.ledger = new /\ ~(ledger.cash < margin + fee)
    <3>1. Refuse("insufficient cash").error # "none"
      BY DEF Refuse
    <3>2. Accept(new).ledger = new
      BY AcceptedOnly
    <3> QED
      BY <1>4, <1>6, <3>1, <3>2
  <2>2. /\ active' = stake /\ ledger' = new /\ UNCHANGED failure
        /\ history' = [history EXCEPT !.trades = @ + 1, !.fills = 1,
                                      !.cashBefore = ledger.cash]
    BY <1>1, <1>6, <2>1
  <2>3. state' \in {"Open", "MandatoryExit"} /\ request' \in Requests
    <3>1. stake.entry \in Nat /\ "Dust" \in Reasons /\ "Liquidation" \in Reasons
      BY <1>2, <1>3 DEF Reasons
    <3>2. \/ StartMandatory("Dust", stake.entry)
          \/ StartMandatory("Liquidation", stake.entry)
          \/ state' = "Open" /\ UNCHANGED request
      BY <1>1, <1>6, Zenon
    <3>3. SettlementTypeOK /\ request \in Requests
      BY DEF IInv, SettlementTypeOK
    <3>4. CASE StartMandatory("Dust", stake.entry)
      BY <3>1, <3>3, <3>4, MandatoryStep
    <3>5. CASE StartMandatory("Liquidation", stake.entry)
      BY <3>1, <3>3, <3>5, MandatoryStep
    <3> QED
      BY <3>2, <3>3, <3>4, <3>5
  <2>4. /\ ledger.cash \in Nat /\ ledger.isolated \in Int /\ ledger.paid \in Nat
        /\ ledger.received \in Nat /\ ledger.fees \in Nat
        /\ ledger.realized \in Int /\ ledger.quantity \in 0 .. Lots
    BY DEF IInv, SettlementTypeOK, Accounts
  <2>5. /\ new.isolated = margin /\ new.cash = ledger.cash - margin - fee
        /\ new.fees = ledger.fees + fee /\ new.cashflow = -(margin + fee)
        /\ new.paid = ledger.paid /\ new.received = ledger.received
        /\ new.realized = ledger.realized
        /\ new.side = side /\ new.quantity = walk.filled /\ new.entry = Vwap(walk)
    BY DEF IInv, SettlementTypeOK, Accounts
  <2>6. new \in Accounts
    <3>1. /\ ledger.cash - margin - fee \in Nat /\ -(margin + fee) \in Int
          /\ ledger.fees + fee \in Nat /\ margin \in Int
          /\ walk.filled \in 0 .. Lots /\ side \in Sides
      BY <1>2, <2>1, <2>4 DEF Sides
    <3> QED
      BY <1>2, <3>1 DEF IInv, SettlementTypeOK, Accounts
  <2>7. ledger.quantity = 0 /\ ledger.isolated = 0
    <3>1. ledger.quantity = 0
      BY <1>1, <2>4, SettlementAssumption
         DEF IInv, SamePosition, Held, SettlementAssumption
    <3> QED
      BY <3>1 DEF IInv, FlatIsFree
  <2>8. /\ history' \in Histories /\ history'.spared = history.spared
        /\ history'.seized = history.seized
        /\ history'.cashBefore = ledger.cash
        /\ history.spared \in Nat /\ history.seized \in Int
    <3>1. history \in Histories
      BY DEF IInv, SettlementTypeOK
    <3>2. history.trades + 1 \in Nat /\ 1 \in Nat
      BY <3>1 DEF Histories
    <3> QED
      BY <2>2, <2>4, <3>1, <3>2 DEF Histories
  <2>9. SettlementTypeOK'
    BY <1>3, <2>2, <2>3, <2>6, <2>8 DEF IInv, SettlementTypeOK
  <2>10. SamePosition' /\ FlatIsFree'
    BY <1>2, <1>3, <2>2, <2>3, <2>5 DEF SamePosition, FlatIsFree, Held
  <2> HIDE DEF new
  <2>11. Sound(new, history')
    <3>1. new.cash + new.isolated =
            Initial + new.realized - new.fees - new.paid + new.received
              + history'.spared - history'.seized
      BY <1>2, <2>4, <2>5, <2>7, <2>8, SettlementAssumption
         DEF IInv, Sound, SettlementAssumption
    <3>2. new.cashflow = new.cash - history'.cashBefore
      BY <1>2, <2>4, <2>5, <2>8
    <3> QED
      BY <2>6, <2>8, <3>1, <3>2 DEF Sound
  <2>12. CashKept
    BY <2>7 DEF CashKept
  <2> QED
    BY <2>2, <2>9, <2>10, <2>11, <2>12 DEF IInv, Sound
<1> QED
  BY <1>5, <1>6

(* What is left of a position has the size, side and entry it had. *)
LEMMA ReducedType ==
  ASSUME IInv, Held, NEW walk \in ExitWalks
  PROVE  /\ Reduced(active, walk) \in Positions
         /\ Reduced(active, walk).side = active.side
         /\ Reduced(active, walk).entry = active.entry
         /\ Reduced(active, walk).quantity = active.quantity - walk.filled
         /\ Caps(active, walk) => -Residual(active, walk) \in Nat
<1>1. /\ active.quantity \in Nat \ {0} /\ active.quantity \in 0 .. Lots
      /\ active.entry \in Nat /\ active.collateral \in Int /\ active \in Positions
  BY SettlementAssumption
     DEF IInv, SettlementTypeOK, SamePosition, Positions, Accounts,
         SettlementAssumption
<1>2. walk.filled \in 0 .. active.quantity /\ walk.filled \in Nat
  BY <1>1, WalkType DEF ExitWalks
<1>3. CASE walk.filled = 0
  BY <1>1, <1>3 DEF Reduced, Caps
<1>4. CASE walk.filled > 0
  <2>1. Residual(active, walk) \in Int
    <3> DEFINE allocated ==
                 Quotient(active.collateral * walk.filled, active.quantity)
               realized == Gain(active, Vwap(walk), walk.filled)
    <3>1. active.collateral * walk.filled \in Int
      BY <1>1, <1>2
    <3>2. allocated \in Int
      BY <1>1, <3>1, QuotientType
    <3>3. Vwap(walk) \in Nat
      BY <1>1, <1>4, VwapType DEF ExitWalks
    <3>4. realized \in Int
      BY <1>1, <1>2, <3>3, GainType
    <3>5. Residual(active, walk)
            = active.collateral - allocated + Min0(allocated + realized)
      BY DEF Residual
    <3> HIDE DEF allocated, realized
    <3> QED
      BY <1>1, <3>2, <3>4, <3>5 DEF Min0
  <2>2. Max0(Residual(active, walk)) \in Int
    BY <2>1 DEF Max0
  <2>3. active.quantity - walk.filled \in 0 .. Lots
    BY <1>1, <1>2, SettlementAssumption DEF SettlementAssumption
  <2>4. Reduced(active, walk) =
          [active EXCEPT !.quantity = @ - walk.filled,
                         !.collateral = Max0(Residual(active, walk))]
    BY <1>2, <1>4 DEF Reduced
  <2>5. Caps(active, walk) => -Residual(active, walk) \in Nat
    BY <2>1 DEF Caps
  <2> QED
    BY <1>1, <2>2, <2>3, <2>4, <2>5 DEF Positions
<1> QED
  BY <1>2, <1>3, <1>4

LEMMA AccountFields ==
  ASSUME NEW l \in Accounts, NEW isolated \in Int, NEW quantity \in 0 .. Lots,
         NEW side \in Sides, NEW entry \in Nat
  PROVE  [l EXCEPT !.isolated = isolated, !.quantity = quantity, !.side = side,
                   !.entry = entry] \in Accounts
BY DEF Accounts

(* What a walk leaves open, or gives up, keeps the account. *)
LEMMA LeaveStep ==
  ASSUME IInv, Held, Running, NEW stake \in Positions, stake.quantity > 0,
         NEW mandatory \in BOOLEAN, NEW l, NEW h, Sound(l, h),
         l.quantity = stake.quantity, l.side = stake.side,
         l.entry = stake.entry,
         l.cash + l.fees >= ledger.cash + ledger.fees,
         Leave(stake, mandatory, l, h)
  PROVE  IInv' /\ CashKept
<1> DEFINE mark       == request.mark
           liquidated == Liquidates(stake, mark)
           fresh      == [reason |-> "Liquidation", mark |-> mark]
           next       == IF ~liquidated THEN request
                         ELSE IF mandatory THEN Escalated(fresh) ELSE fresh
           forfeit    == Max0(ReferenceEquity(stake, mark))
           settled    == SettleCappedLiquidation(l, forfeit)
           new        == [l EXCEPT !.isolated = 0, !.quantity = 0, !.side = "none",
                                   !.entry = 0]
<1>1. \/ Fail(settled.error) /\ settled.error # "none"
      \/ /\ settled.error = "none"
         /\ Close("Liquidation", FALSE)
         /\ ledger' = settled.ledger
         /\ history' = [h EXCEPT !.seized = @ + l.isolated]
         /\ UNCHANGED failure
      \/ /\ state' = IF liquidated \/ mandatory THEN "MandatoryExit"
                                                 ELSE "NormalExit"
         /\ active' = stake /\ request' = next /\ ledger' = l
         /\ history' = h /\ UNCHANGED failure
  BY DEF Leave
<1>2. settled = IF forfeit > Max0(l.isolated) THEN Refuse("excess forfeit")
                ELSE Accept(new)
  BY DEF SettleCappedLiquidation
<1>3. next \in Requests
  BY DEF Escalated, Requests, Reasons, IInv, SettlementTypeOK
<1> HIDE DEF forfeit, next, settled, liquidated
<1>4. l \in Accounts /\ h \in Histories /\ l.quantity > 0
  BY DEF Sound
<1>5. CASE Fail(settled.error) /\ settled.error # "none"
  <2>1. settled.error \in Failures
    <3>1. Refuse("excess forfeit").error \in Failures
      BY DEF Refuse, Failures
    <3>2. Accept(new).error \in Failures
      BY AcceptedOnly DEF Failures
    <3> QED
      BY <1>2, <3>1, <3>2
  <2> QED
    BY <1>5, <2>1, FailStep
<1>6. CASE /\ settled.error = "none"
           /\ Close("Liquidation", FALSE)
           /\ ledger' = settled.ledger
           /\ history' = [h EXCEPT !.seized = @ + l.isolated]
           /\ UNCHANGED failure
  <2>1. ledger' = new
    <3>1. Refuse("excess forfeit").error # "none"
      BY DEF Refuse
    <3>2. Accept(new).ledger = new
      BY AcceptedOnly
    <3> QED
      BY <1>2, <1>6, <3>1, <3>2
  <2>2. /\ state' = "Liquidated" /\ active' = NoPosition /\ request' = NoRequest
    BY <1>6 DEF Close
  <2>3. /\ l.cash \in Nat /\ l.isolated \in Int /\ l.fees \in Nat
        /\ l.realized \in Int /\ l.paid \in Nat /\ l.received \in Nat
        /\ h.seized \in Int /\ h.spared \in Nat
    BY <1>4 DEF Accounts, Histories
  <2>4. /\ new.cash = l.cash /\ new.isolated = 0 /\ new.fees = l.fees
        /\ new.realized = l.realized /\ new.paid = l.paid
        /\ new.received = l.received /\ new.cashflow = l.cashflow
        /\ new.quantity = 0 /\ new.side = "none" /\ new.entry = 0
    BY <1>4 DEF Accounts
  <2>5. new \in Accounts
    <3>1. 0 \in 0 .. Lots /\ "none" \in Sides
      BY SettlementAssumption DEF Sides, SettlementAssumption
    <3>2. 0 \in Int /\ 0 \in Nat
      OBVIOUS
    <3> QED
      BY <1>4, <3>1, <3>2, AccountFields, Zenon
  <2>6. /\ history' \in Histories /\ history'.spared = h.spared
        /\ history'.seized = h.seized + l.isolated
        /\ history'.trades = h.trades /\ history'.cashBefore = h.cashBefore
    BY <1>4, <1>6, <2>3 DEF Histories
  <2>7. SettlementTypeOK'
    BY <1>6, <2>1, <2>2, <2>5, <2>6, SettlementAssumption
       DEF IInv, SettlementTypeOK, NoPosition, NoRequest, Positions, Requests,
           Sides, Reasons, SettlementAssumption
  <2> HIDE DEF new
  <2>8. SamePosition' /\ FlatIsFree'
    BY <2>1, <2>2, <2>4 DEF SamePosition, FlatIsFree, Held, NoPosition
  <2>9. Sound(new, history')
    <3>1. new.cash + new.isolated =
            Initial + new.realized - new.fees - new.paid + new.received
              + history'.spared - history'.seized
      BY <2>3, <2>4, <2>6, SettlementAssumption DEF Sound, SettlementAssumption
    <3> QED
      BY <2>4, <2>5, <2>6, <3>1 DEF Sound
  <2>10. CashKept
    BY <2>1, <2>4 DEF CashKept
  <2> QED
    BY <2>1, <2>7, <2>8, <2>9, <2>10 DEF IInv, Sound
<1>7. CASE /\ state' = IF liquidated \/ mandatory THEN "MandatoryExit"
                                                  ELSE "NormalExit"
           /\ active' = stake /\ request' = next /\ ledger' = l
           /\ history' = h /\ UNCHANGED failure
  <2>1. state' \in {"NormalExit", "MandatoryExit"}
    BY <1>7
  <2>2. SettlementTypeOK'
    BY <1>3, <1>4, <1>7, <2>1 DEF IInv, SettlementTypeOK
  <2>3. SamePosition' /\ FlatIsFree'
    BY <1>4, <1>7, <2>1 DEF SamePosition, FlatIsFree, Held, Accounts
  <2>4. CashKept
    BY <1>7 DEF CashKept
  <2> QED
    BY <1>7, <2>2, <2>3, <2>4 DEF IInv, Sound
<1> QED
  BY <1>1, <1>5, <1>6, <1>7

LEMMA ExecuteExitStep ==
  ASSUME IInv, Held, Running, NEW walk \in ExitWalks, NEW mandatory \in BOOLEAN,
         ExecuteExit(walk, mandatory)
  PROVE  IInv' /\ CashKept
<1> DEFINE capped   == Caps(active, walk)
           left     == Reduced(active, walk)
           settled  == IF walk.filled = 0 THEN Accept(ledger)
                       ELSE SettleExit(walk, IF capped THEN active.collateral ELSE None)
           loss     == IF capped THEN -Residual(active, walk) ELSE 0
           spared   == Max0(-Settled(ledger, walk).residual)
           h == IF walk.filled = 0 THEN history
                ELSE [history EXCEPT !.fills = @ + 1, !.uncharged = @ + loss,
                                     !.spared = @ + spared]
<1>1. IF capped /\ active.collateral < 0 THEN Fail("negative collateral")
      ELSE IF settled.error # "none" THEN Fail(settled.error)
      ELSE IF left.quantity > 0 THEN Leave(left, mandatory, settled.ledger, h)
      ELSE /\ Close(request.reason, capped)
           /\ ledger' = settled.ledger
           /\ history' = h
           /\ UNCHANGED failure
  BY DEF ExecuteExit
<1>2. /\ left \in Positions /\ left.side = active.side /\ left.entry = active.entry
      /\ left.quantity = active.quantity - walk.filled
      /\ loss \in Nat
  BY ReducedType
<1>3. /\ ledger \in Accounts /\ history \in Histories /\ ledger.quantity \in Nat \ {0}
      /\ active.side = ledger.side /\ active.quantity = ledger.quantity
      /\ active.entry = ledger.entry
      /\ walk \in Walks(ledger.quantity, Opposite(active.side))
      /\ walk.filled \in 0 .. ledger.quantity
  <2>1. ledger.quantity \in Nat \ {0}
    BY SettlementAssumption
       DEF IInv, SettlementTypeOK, SamePosition, Accounts, SettlementAssumption
  <2> QED
    BY <2>1, WalkType DEF IInv, SettlementTypeOK, SamePosition, ExitWalks
<1>4. /\ settled.error \in Failures
      /\ settled.error = "none" =>
           /\ Sound(settled.ledger, h)
           /\ settled.ledger.quantity = left.quantity
           /\ settled.ledger.quantity > 0 =>
                settled.ledger.side = left.side /\ settled.ledger.entry = left.entry
           /\ settled.ledger.quantity = 0 =>
                /\ settled.ledger.side = "none" /\ settled.ledger.entry = 0
                /\ settled.ledger.isolated = 0
           /\ settled.ledger.cash + settled.ledger.fees >= ledger.cash + ledger.fees
  <2>1. CASE walk.filled = 0
    <3>1. settled = Accept(ledger) /\ h = history
      BY <2>1
    <3>2. settled.error \in Failures /\ settled.ledger = ledger
      BY <3>1, AcceptedOnly DEF Failures
    <3>3. ledger.cash + ledger.fees \in Int /\ left.quantity = ledger.quantity
      BY <1>2, <1>3, <2>1 DEF Accounts
    <3> QED
      BY <1>2, <1>3, <3>1, <3>2, <3>3 DEF IInv
  <2>2. CASE walk.filled > 0
    <3> DEFINE forfeit == IF capped THEN active.collateral ELSE None
    <3>1. settled = SettleExit(walk, forfeit)
      BY <1>3, <2>2
    <3> HIDE DEF forfeit
    <3>2. /\ settled.error \in Refusals \cup {"none"} /\ spared \in Nat
          /\ settled.error = "none" => Exited(settled.ledger, walk.filled, spared)
      BY <1>3, <2>2, <3>1, ExitBalance
    <3>3. h = [history EXCEPT !.fills = @ + 1, !.uncharged = @ + loss,
                              !.spared = @ + spared]
      BY <1>3, <2>2
    <3> HIDE DEF settled, spared, loss, h, left
    <3>4. settled.error \in Failures
      BY <3>2 DEF Refusals, Failures
    <3>5. /\ h \in Histories /\ h.spared = history.spared + spared
          /\ h.seized = history.seized /\ h.trades = history.trades
          /\ h.cashBefore = history.cashBefore
          /\ history.spared \in Nat /\ history.seized \in Int
          /\ history.cashBefore \in Nat
      <4>1. /\ history.fills + 1 \in Nat /\ history.uncharged + loss \in Nat
            /\ history.spared + spared \in Nat
        BY <1>2, <1>3, <3>2 DEF Histories
      <4> QED
        BY <1>3, <3>3, <4>1 DEF Histories
    <3>6. ASSUME settled.error = "none" PROVE Sound(settled.ledger, h)
      <4> DEFINE l == settled.ledger
      <4>1. Exited(l, walk.filled, spared)
        BY <3>2, <3>6
      <4> HIDE DEF l
      <4>2. /\ l \in Accounts /\ l.cash \in Nat /\ l.isolated \in Int /\ l.fees \in Nat
            /\ l.realized \in Int /\ l.cashflow \in Int
        BY <4>1 DEF Exited, Accounts
      <4>3. /\ ledger.cash \in Nat /\ ledger.isolated \in Int /\ ledger.fees \in Nat
            /\ ledger.realized \in Int /\ ledger.cashflow \in Int
            /\ ledger.paid \in Nat /\ ledger.received \in Nat
        BY <1>3 DEF Accounts
      <4>4. /\ l.cash + l.isolated - l.realized + l.fees
                 = ledger.cash + ledger.isolated - ledger.realized + ledger.fees + spared
            /\ l.paid = ledger.paid /\ l.received = ledger.received
            /\ l.cashflow - l.cash = ledger.cashflow - ledger.cash
        BY <4>1 DEF Exited
      <4>5. /\ ledger.cash + ledger.isolated =
                 Initial + ledger.realized - ledger.fees - ledger.paid
                   + ledger.received + history.spared - history.seized
            /\ history.trades > 0 => ledger.cashflow = ledger.cash - history.cashBefore
        BY DEF IInv, Sound
      <4>6. l.cash + l.isolated =
              Initial + l.realized - l.fees - l.paid + l.received
                + h.spared - h.seized
        BY <3>2, <3>5, <4>2, <4>3, <4>4, <4>5, SettlementAssumption
           DEF SettlementAssumption
      <4>7. h.trades > 0 => l.cashflow = l.cash - h.cashBefore
        BY <3>5, <4>2, <4>3, <4>4, <4>5
      <4> QED
        BY <3>5, <4>2, <4>6, <4>7 DEF Sound, l
    <3>7. ASSUME settled.error = "none"
          PROVE  /\ settled.ledger.quantity = left.quantity
                 /\ settled.ledger.quantity > 0 =>
                      /\ settled.ledger.side = left.side
                      /\ settled.ledger.entry = left.entry
                 /\ settled.ledger.quantity = 0 =>
                      /\ settled.ledger.side = "none" /\ settled.ledger.entry = 0
                      /\ settled.ledger.isolated = 0
                 /\ settled.ledger.cash + settled.ledger.fees
                      >= ledger.cash + ledger.fees
      BY <1>2, <1>3, <3>2, <3>7 DEF Exited
    <3> QED
      BY <3>4, <3>6, <3>7
  <2> QED
    BY <1>3, <2>1, <2>2
<1>5. left.quantity \in Nat
  BY <1>2, <1>3
<1> HIDE DEF settled, h, left, capped
<1>6. CASE Fail("negative collateral")
  BY <1>6, FailStep DEF Failures
<1>7. CASE settled.error # "none" /\ Fail(settled.error)
  BY <1>4, <1>7, FailStep
<1>8. CASE /\ settled.error = "none" /\ left.quantity > 0
           /\ Leave(left, mandatory, settled.ledger, h)
  <2>1. /\ Sound(settled.ledger, h) /\ settled.ledger.quantity = left.quantity
        /\ settled.ledger.side = left.side /\ settled.ledger.entry = left.entry
        /\ settled.ledger.cash + settled.ledger.fees >= ledger.cash + ledger.fees
    BY <1>4, <1>8
  <2> QED
    BY <1>2, <1>8, <2>1, LeaveStep
<1>9. CASE /\ settled.error = "none" /\ ~(left.quantity > 0)
           /\ Close(request.reason, capped)
           /\ ledger' = settled.ledger /\ history' = h /\ UNCHANGED failure
  <2>1. /\ Sound(ledger', history') /\ ledger'.quantity = 0
        /\ ledger'.side = "none" /\ ledger'.entry = 0 /\ ledger'.isolated = 0
        /\ ledger'.cash + ledger'.fees >= ledger.cash + ledger.fees
    BY <1>4, <1>5, <1>9
  <2>2. /\ state' \in {"Flat", "Liquidated"} /\ active' = NoPosition
        /\ request' = NoRequest
    BY <1>9 DEF Close
  <2>3. SettlementTypeOK'
    BY <1>9, <2>1, <2>2, SettlementAssumption
       DEF IInv, SettlementTypeOK, Sound, NoPosition, NoRequest, Positions,
           Requests, Sides, Reasons, SettlementAssumption
  <2>4. SamePosition' /\ FlatIsFree'
    BY <2>1, <2>2 DEF SamePosition, FlatIsFree, Held, NoPosition
  <2> QED
    BY <2>1, <2>3, <2>4 DEF IInv, CashKept
<1> QED
  BY <1>1, <1>6, <1>7, <1>8, <1>9, Zenon

LEMMA StutterStep ==
  ASSUME IInv, UNCHANGED vars
  PROVE  IInv' /\ CashKept
<1>1. ledger.cash + ledger.fees \in Int
  BY DEF IInv, SettlementTypeOK, Accounts
<1> QED
  BY <1>1 DEF vars, IInv, SettlementTypeOK, SamePosition, FlatIsFree, Held, Sound,
              CashKept

LEMMA NextIInv ==
  ASSUME IInv, [Next]_vars
  PROVE  IInv' /\ CashKept
<1>1. ASSUME NEW side \in {"Long", "Short"}, NEW walk \in Walks(Lots, side),
             Enter(side, walk)
      PROVE  IInv' /\ CashKept
  BY <1>1, EnterStep
<1>2. ASSUME NEW mark \in Prices, NEW reason \in {"none", "Strategy"},
             ObserveMark(mark, reason)
      PROVE  IInv' /\ CashKept
  BY <1>2, ObserveMarkStep
<1>3. ASSUME NEW mark \in Prices, NEW rate \in Rates, ApplyFunding(mark, rate)
      PROVE  IInv' /\ CashKept
  BY <1>3, ApplyFundingStep
<1>4. CASE AdvanceTime
  BY <1>4, AdvanceTimeStep
<1>5. CASE NormalWalk
  BY <1>5, ExecuteExitStep DEF NormalWalk, Held
<1>6. CASE ExpiredWalk
  BY <1>6, ExecuteExitStep DEF ExpiredWalk, Held
<1>7. CASE MandatoryWalk
  BY <1>7, ExecuteExitStep DEF MandatoryWalk, Held
<1>8. CASE UNCHANGED vars
  BY <1>8, StutterStep
<1> QED
  BY <1>1, <1>2, <1>3, <1>4, <1>5, <1>6, <1>7, <1>8 DEF Next

----------------------------------------------------------------------------
(* The theorems *)

(* Every reachable state is typed, broker and ledger hold the same position,
   a flat one costs nothing, and the account is sound. *)
THEOREM Inductive == Spec => []IInv
<1>1. Init => IInv
  BY InitIInv
<1>2. IInv /\ [Next]_vars => IInv'
  BY NextIInv
<1> QED
  BY <1>1, <1>2, PTL DEF Spec

(* Broker, ledger and errors keep their types; free cash and the totals are
   never negative. *)
THEOREM SettlementTypeCorrect == Spec => []SettlementTypeOK
<1>1. IInv => SettlementTypeOK
  BY DEF IInv
<1> QED
  BY <1>1, Inductive, PTL

(* No digit of the account is made or lost by any sequence of entries, partial
   exits, fundings, caps and forfeits, whatever the rounding. *)
THEOREM MoneyConserved == Spec => []MoneyIsConserved
<1>1. IInv => MoneyIsConserved
  BY DEF IInv, Sound, MoneyIsConserved
<1> QED
  BY <1>1, Inductive, PTL

(* The cashflow the breakers judge a trade by is the change of free cash it
   made. *)
THEOREM TradesJudged == Spec => []TradesAreJudgedByCash
<1>1. IInv => TradesAreJudgedByCash
  BY DEF IInv, Sound, TradesAreJudgedByCash
<1> QED
  BY <1>1, Inductive, PTL

(* Broker and ledger always hold the same side, size and entry price. *)
THEOREM PositionsAgree == Spec => []SamePosition
<1>1. IInv => SamePosition
  BY DEF IInv
<1> QED
  BY <1>1, Inductive, PTL

(* While a position is held nothing but the fee of its fills takes free cash. *)
THEOREM CashIsolated == Spec => CashIsIsolated
<1>1. IInv /\ [Next]_vars =>
        [ledger.quantity > 0 =>
           ledger'.cash + ledger'.fees >= ledger.cash + ledger.fees]_vars
  BY NextIInv DEF CashKept
<1> QED
  BY <1>1, Inductive, PTL DEF Spec, CashIsIsolated

----------------------------------------------------------------------------
(* The two collaterals: rounding *)

(* Rounding is off by half a digit at most. *)
LEMMA RoundError ==
  ASSUME NEW a \in Int, NEW b \in Nat \ {0}
  PROVE  \E e \in Int : /\ b * Quotient(a, b) = a + e
                        /\ 2 * e <= b /\ -b <= 2 * e
<1>1. /\ a \div b \in Int /\ a % b \in 0 .. b - 1
      /\ a = b * (a \div b) + (a % b)
  OBVIOUS
<1> DEFINE q == a \div b
           r == a % b
<1>2. CASE 2 * r > b \/ (2 * r = b /\ q % 2 = 1)
  <2>1. Quotient(a, b) = q + 1
    BY <1>2 DEF Quotient
  <2> HIDE DEF q, r
  <2>2. b * (q + 1) = b * q + b
    BY <1>1 DEF q
  <2>3. /\ b * Quotient(a, b) = a + (b - r) /\ b - r \in Int
        /\ 2 * (b - r) <= b /\ -b <= 2 * (b - r)
    BY <1>1, <1>2, <2>1, <2>2 DEF q, r
  <2> QED
    BY <2>3
<1>3. CASE ~(2 * r > b \/ (2 * r = b /\ q % 2 = 1))
  <2>1. Quotient(a, b) = q
    BY <1>3 DEF Quotient
  <2> HIDE DEF q, r
  <2>2. /\ b * Quotient(a, b) = a + (-r) /\ -r \in Int
        /\ 2 * (-r) <= b /\ -b <= 2 * (-r)
    BY <1>1, <1>3, <2>1 DEF q, r
  <2> QED
    BY <2>2
<1> QED
  BY <1>2, <1>3

(* A part rounded down or up is a part still. *)
LEMMA RoundWithin ==
  ASSUME NEW a \in Int, NEW b \in Nat \ {0}, NEW k \in Nat
  PROVE  /\ a >= 0 /\ a <= k * b => Quotient(a, b) \in 0 .. k
         /\ a <= 0 /\ a >= -(k * b) => Quotient(a, b) \in -k .. 0
<1>1. PICK e \in Int : /\ b * Quotient(a, b) = a + e /\ 2 * e <= b /\ -b <= 2 * e
  BY RoundError
<1> DEFINE Q == Quotient(a, b)
<1>2. Q \in Int
  BY QuotientType
<1>3. b * Q = a + e
  BY <1>1
<1> HIDE DEF Q
<1>4. ASSUME a >= 0, a <= k * b PROVE Q \in 0 .. k
  <2>1. ASSUME Q >= k + 1 PROVE FALSE
    <3>1. b * Q >= b * (k + 1)
      BY <1>2, <2>1, Z3
    <3>2. b * (k + 1) = k * b + b
      OBVIOUS
    <3>3. b * Q \in Int /\ k * b \in Int
      BY <1>2
    <3> QED
      BY <1>1, <1>3, <1>4, <3>1, <3>2, <3>3
  <2>2. ASSUME Q <= -1 PROVE FALSE
    <3>1. b * Q <= -b
      BY <1>2, <2>2, Z3
    <3> QED
      BY <1>1, <1>3, <1>4, <3>1
  <2> QED
    BY <1>2, <2>1, <2>2
<1>5. ASSUME a <= 0, a >= -(k * b) PROVE Q \in -k .. 0
  <2>1. ASSUME Q <= -k - 1 PROVE FALSE
    <3>1. b * Q <= b * (-k - 1)
      BY <1>2, <2>1, Z3
    <3>2. b * (-k - 1) = -(k * b) - b
      OBVIOUS
    <3>3. b * Q \in Int /\ k * b \in Int
      BY <1>2
    <3> QED
      BY <1>1, <1>3, <1>5, <3>1, <3>2, <3>3
  <2>2. ASSUME Q >= 1 PROVE FALSE
    <3>1. b * Q >= b
      BY <1>2, <2>2, Z3
    <3> QED
      BY <1>1, <1>3, <1>5, <3>1
  <2> QED
    BY <1>2, <2>1, <2>2
<1> QED
  BY <1>4, <1>5 DEF Q

(* The same part of two collaterals, divided in the broker's way and in the
   ledger's, leaves them hardly further apart. *)
LEMMA PartsApart ==
  ASSUME NEW S \in Nat \ {0}, NEW q \in Nat \ {0}, NEW n \in 0 .. q,
         NEW C \in Int, NEW I \in Int, NEW D \in Nat, NEW drift \in Nat,
         NEW fr \in Int, NEW aC \in Int, NEW aI \in Int,
         NEW e1 \in Int, NEW e2 \in Int, NEW e3 \in Int,
         q * aC = C * n + e1, q * fr = n * S + e2, S * aI = I * fr + e3,
         2 * e1 <= q, -q <= 2 * e1, 2 * e2 <= q, -q <= 2 * e2,
         2 * e3 <= S, -S <= 2 * e3,
         C - I <= D, -D <= C - I,
         I <= 2 * S * (drift - 1), -(2 * S * (drift - 1)) <= I
  PROVE  /\ (C - aC) - (I - aI) <= D + drift
         /\ -(D + drift) <= (C - aC) - (I - aI)
<1> DEFINE X == (C - aC) - (I - aI)
           K == C - I
           M == q * S
           bound == D + drift
<1>1. /\ M \in Nat \ {0} /\ X \in Int /\ K \in Int /\ bound \in Nat
  <2>1. q * S > 0 /\ q * S \in Nat
    OBVIOUS
  <2> QED
    BY <2>1
<1>2. M * aC = S * (C * n) + S * e1
  <2>1. M * aC = S * (q * aC)
    OBVIOUS
  <2>2. S * (C * n + e1) = S * (C * n) + S * e1
    OBVIOUS
  <2> QED
    BY <2>1, <2>2
<1>3. M * aI = S * (I * n) + I * e2 + q * e3
  <2>1. M * aI = q * (S * aI)
    OBVIOUS
  <2>2. q * (I * fr + e3) = I * (q * fr) + q * e3
    OBVIOUS
  <2>3. I * (n * S + e2) = S * (I * n) + I * e2
    OBVIOUS
  <2> QED
    BY <2>1, <2>2, <2>3
<1>4. M * X = (S * (q - n)) * K - S * e1 + I * e2 + q * e3
  <2>1. M * X = M * K - M * aC + M * aI
    OBVIOUS
  <2>2. (S * (q - n)) * K = M * K - S * (C * n) + S * (I * n)
    OBVIOUS
  <2> HIDE DEF M, X, K
  <2>3. /\ M * K \in Int /\ S * (C * n) \in Int /\ S * (I * n) \in Int
        /\ S * e1 \in Int /\ I * e2 \in Int /\ q * e3 \in Int
    BY <1>1
  <2> QED
    BY <1>2, <1>3, <2>1, <2>2, <2>3
<1> HIDE DEF X, K
<1>5. (S * (q - n)) * K <= M * D /\ -(M * D) <= (S * (q - n)) * K
  <2> DEFINE w == S * (q - n)
  <2>1. w \in Nat /\ w <= M
    <3>1. w = M - S * n
      OBVIOUS
    <3>2. S * n \in Nat /\ S * n <= M
      <4>1. S * (q - n) \in Nat
        OBVIOUS
      <4> QED
        BY <1>1, <3>1, <4>1
    <3> QED
      BY <1>1, <3>1, <3>2
  <2>2. K <= D /\ -D <= K
    BY DEF K
  <2> HIDE DEF w, M
  <2>3. w * K <= w * D /\ -(w * D) <= w * K
    BY <1>1, <2>1, <2>2, Z3
  <2>4. w * D <= M * D
    BY <1>1, <2>1, Z3
  <2>5. w * K \in Int /\ w * D \in Int /\ M * D \in Int
    BY <1>1, <2>1
  <2>6. w * K <= M * D /\ -(M * D) <= w * K
    BY <2>3, <2>4, <2>5
  <2> QED
    BY <2>6 DEF w
<1>6. 2 * (S * e1) <= M /\ -M <= 2 * (S * e1)
  <2>1. S * (2 * e1) <= S * q /\ S * (-q) <= S * (2 * e1)
    BY Z3
  <2>2. S * (2 * e1) = 2 * (S * e1) /\ S * q = M /\ S * (-q) = -M
    OBVIOUS
  <2> QED
    BY <2>1, <2>2
<1>7. 2 * (q * e3) <= M /\ -M <= 2 * (q * e3)
  <2>1. q * (2 * e3) <= q * S /\ q * (-S) <= q * (2 * e3)
    BY Z3
  <2>2. q * (2 * e3) = 2 * (q * e3) /\ q * (-S) = -M
    OBVIOUS
  <2> QED
    BY <2>1, <2>2
<1>8. I * e2 <= M * (drift - 1) /\ -(M * (drift - 1)) <= I * e2
  <2> DEFINE J == S * (drift - 1)
  <2>1. J \in Int /\ I <= 2 * J /\ -(2 * J) <= I
    <3>1. 2 * S * (drift - 1) = 2 * (S * (drift - 1))
      OBVIOUS
    <3> QED
      BY <3>1
  <2>2. M * (drift - 1) = q * J
    OBVIOUS
  <2> HIDE DEF J
  <2>3. J >= 0
    BY <2>1
  <2>4. 2 * (I * e2) <= 2 * (q * J) /\ -(2 * (q * J)) <= 2 * (I * e2)
    <3>1. CASE e2 >= 0
      <4>1. I * e2 <= (2 * J) * e2 /\ -((2 * J) * e2) <= I * e2
        BY <2>1, <3>1, Z3
      <4>2. J * (2 * e2) <= J * q
        BY <2>1, <2>3, Z3
      <4>3. /\ (2 * J) * e2 = J * (2 * e2) /\ J * q = q * J
            /\ J * q \in Nat /\ I * e2 \in Int /\ J * (2 * e2) \in Int
        BY <2>1, <2>3
      <4> QED
        BY <4>1, <4>2, <4>3
    <3>2. CASE e2 < 0
      <4>1. I * (-e2) <= (2 * J) * (-e2) /\ -((2 * J) * (-e2)) <= I * (-e2)
        BY <2>1, <3>2, Z3
      <4>2. J * (2 * (-e2)) <= J * q
        BY <2>1, <2>3, Z3
      <4>3. /\ (2 * J) * (-e2) = J * (2 * (-e2)) /\ J * q = q * J
            /\ J * q \in Nat /\ I * (-e2) \in Int /\ J * (2 * (-e2)) \in Int
            /\ I * (-e2) = -(I * e2) /\ I * e2 \in Int
        BY <2>1, <2>3
      <4> QED
        BY <4>1, <4>2, <4>3
    <3> QED
      BY <3>1, <3>2
  <2>5. I * e2 \in Int /\ q * J \in Int
    BY <2>1
  <2> QED
    BY <2>2, <2>4, <2>5
<1>9. M * bound = M * D + M * (drift - 1) + M
  OBVIOUS
<1>10. /\ S * e1 \in Int /\ I * e2 \in Int /\ q * e3 \in Int /\ M * D \in Int
       /\ M * (drift - 1) \in Int /\ (S * (q - n)) * K \in Int
  BY <1>1
<1> HIDE DEF M
<1>11. M * X <= M * bound /\ -(M * bound) <= M * X
  <2>1. M \in Int /\ M * X \in Int /\ M * bound \in Int
    BY <1>1
  <2> HIDE DEF bound
  <2> QED
    BY <1>4, <1>5, <1>6, <1>7, <1>8, <1>9, <1>10, <2>1
<1> HIDE DEF bound
<1>12. X <= bound
  <2>1. ASSUME X >= bound + 1 PROVE FALSE
    <3>1. M * X >= M * (bound + 1)
      BY <1>1, <2>1, Z3
    <3>2. M * (bound + 1) = M * bound + M /\ M * bound \in Int /\ M * X \in Int
      BY <1>1
    <3> QED
      BY <1>1, <1>11, <3>1, <3>2
  <2> QED
    BY <1>1, <2>1
<1>13. -bound <= X
  <2>1. ASSUME X <= -bound - 1 PROVE FALSE
    <3>1. M * X <= M * (-bound - 1)
      BY <1>1, <2>1, Z3
    <3>2. M * (-bound - 1) = -(M * bound) - M /\ M * bound \in Int /\ M * X \in Int
      BY <1>1
    <3> QED
      BY <1>1, <1>11, <3>1, <3>2
  <2> QED
    BY <1>1, <2>1
<1> QED
  BY <1>12, <1>13 DEF X, bound

(* How far two integers are apart. *)
LEMMA DistanceType ==
  ASSUME NEW a \in Int, NEW b \in Int
  PROVE  /\ Distance(a, b) \in Nat /\ a - b <= Distance(a, b)
         /\ -Distance(a, b) <= a - b
         /\ \A k \in Nat : a - b <= k /\ -k <= a - b => Distance(a, b) <= k
BY DEF Distance

(* A loss beyond the part that covers it is taken from the rest: that brings
   the residuals no further apart than the wholes or the rests were. *)
LEMMA ResidualsApart ==
  ASSUME NEW C \in Int, NEW I \in Int, NEW aC \in Int, NEW aI \in Int,
         NEW g \in Int, NEW D \in Nat, NEW drift \in Nat,
         C - I <= D, -D <= C - I,
         (C - aC) - (I - aI) <= D + drift, -(D + drift) <= (C - aC) - (I - aI)
  PROVE  Distance(C - aC + Min0(aC + g), I - aI + Min0(aI + g)) <= D + drift
<1> DEFINE RC == C - aC + Min0(aC + g)
           RI == I - aI + Min0(aI + g)
<1>1. RC \in Int /\ RI \in Int
  BY DEF Min0
<1>2. RC - RI <= D + drift /\ -(D + drift) <= RC - RI
  BY DEF Min0
<1>3. D + drift \in Nat
  OBVIOUS
<1> HIDE DEF RC, RI
<1>4. Distance(RC, RI) <= D + drift
  BY <1>1, <1>2, <1>3, DistanceType
<1> QED
  BY <1>4 DEF RC, RI

(* What two residuals differ by is in the collaterals or in the losses nobody
   is charged for. *)
LEMMA CapSplits ==
  ASSUME NEW RC \in Int, NEW RI \in Int
  PROVE  /\ Max0(RC) \in Nat /\ Max0(-RC) \in Nat
         /\ Max0(RI) \in Nat /\ Max0(-RI) \in Nat
         /\ Distance(Max0(RC), Max0(RI)) + Distance(Max0(-RC), Max0(-RI))
              = Distance(RC, RI)
BY DEF Max0, Distance

----------------------------------------------------------------------------
(* The two collaterals: the inductive invariant *)

\* The widest an entry's margin and one funding of a position are.
Bounds(Margin, Funding) ==
  /\ \A side \in {"Long", "Short"} : \A walk \in Walks(Lots, side) :
       walk.filled > 0 => Quotient(Vwap(walk) * walk.filled, Leverage) <= Margin
  /\ \A n \in 0 .. Lots, price \in Prices, rate \in Rates :
       /\ Quotient(n * price * rate, 10000) <= Funding
       /\ Quotient(n * price * rate, 10000) >= -Funding

(* Drift is wide enough: for the margins of an entry, whose values differ by
   half a digit a lot, and for the part of a collateral the ledger takes, whose
   fraction is rounded before it is multiplied. *)
DriftCovers(Margin, Funding) ==
  /\ Bounds(Margin, Funding)
  /\ 2 * Scale * (Drift - 1) >= Margin + MaxFundings * Funding
  /\ 2 * Drift >= 2 + Lots

\* What the losses nobody was charged for and the collaterals may part by.
Allowed ==
  IF Held THEN ((history.trades - 1) * Lots + history.fills) * Drift
          ELSE history.trades * Lots * Drift

\* A fill for every lot and one for the entry, and Drift digits a fill.
AgreeInv(Margin, Funding) ==
  /\ Held => /\ history.trades >= 1
             /\ history.fills >= 1 /\ history.fills + active.quantity <= Lots + 1
             /\ Distance(active.collateral, ledger.isolated) <= history.fills * Drift
  /\ ~Held => active.collateral = 0
  /\ Distance(history.uncharged, history.spared)
       + Distance(active.collateral, ledger.isolated) <= Allowed
  /\ history.fundings <= MaxFundings
  /\ Distance(ledger.isolated, 0) <= Margin + history.fundings * Funding

(* A collateral within its bound is one the rounding of a fraction moves by
   less than Drift. *)
LEMMA IsolatedBound ==
  ASSUME Drift \in Nat, NEW Margin \in Nat, NEW Funding \in Nat,
         DriftCovers(Margin, Funding), IInv, AgreeInv(Margin, Funding)
  PROVE  /\ ledger.isolated <= 2 * Scale * (Drift - 1)
         /\ -(2 * Scale * (Drift - 1)) <= ledger.isolated
<1>1. /\ ledger.isolated \in Int /\ history.fundings \in Nat /\ MaxFundings \in Nat
      /\ Scale \in Nat
  BY SettlementAssumption
     DEF IInv, SettlementTypeOK, Accounts, Histories, SettlementAssumption
<1>2. /\ Distance(ledger.isolated, 0) <= Margin + history.fundings * Funding
      /\ history.fundings <= MaxFundings
  BY DEF AgreeInv
<1> DEFINE room == MaxFundings - history.fundings
<1>3. history.fundings * Funding <= MaxFundings * Funding
  <2>1. MaxFundings * Funding = history.fundings * Funding + room * Funding
    BY <1>1
  <2>2. room * Funding \in Nat /\ history.fundings * Funding \in Nat
    BY <1>1, <1>2
  <2> QED
    BY <2>1, <2>2
<1>4. 2 * Scale * (Drift - 1) >= Margin + MaxFundings * Funding
  BY DEF DriftCovers
<1>5. /\ history.fundings * Funding \in Int /\ MaxFundings * Funding \in Int
      /\ 2 * Scale * (Drift - 1) \in Int
  BY <1>1
<1>6. /\ Distance(ledger.isolated, 0) \in Nat
      /\ ledger.isolated - 0 <= Distance(ledger.isolated, 0)
      /\ -Distance(ledger.isolated, 0) <= ledger.isolated - 0
  BY <1>1 DEF Distance
<1> QED
  BY <1>1, <1>2, <1>3, <1>4, <1>5, <1>6

(* What a fill leaves of the two collaterals. *)
LEMMA FillAgrees ==
  ASSUME Drift \in Nat, NEW Margin \in Nat, NEW Funding \in Nat,
         DriftCovers(Margin, Funding), IInv, AgreeInv(Margin, Funding), Held,
         NEW walk \in ExitWalks, walk.filled > 0
  PROVE  LET RC == Residual(active, walk)
             RI == Settled(ledger, walk).residual
             D  == Distance(active.collateral, ledger.isolated)
         IN  /\ RC \in Int /\ RI \in Int
             /\ Distance(RC, RI) <= D + Drift
             /\ walk.filled = active.quantity =>
                  RC <= 0 /\ RI <= 0 /\ Distance(RC, RI) <= D
             /\ Distance(Max0(RI), 0) <= Distance(ledger.isolated, 0)
<1> DEFINE q  == active.quantity
           n  == walk.filled
           C  == active.collateral
           I  == ledger.isolated
           D  == Distance(C, I)
           fr == Quotient(n * Scale, q)
           aC == Quotient(C * n, q)
           aI == Quotient(I * fr, Scale)
           g  == Gain(active, Vwap(walk), n)
           RC == Residual(active, walk)
           RI == Settled(ledger, walk).residual
<1>1. /\ q \in Nat \ {0} /\ C \in Int /\ I \in Int /\ Scale \in Nat \ {0}
      /\ active.entry \in Nat /\ ledger.quantity = q /\ ledger.entry = active.entry
      /\ ledger.side = active.side
  BY SettlementAssumption
     DEF IInv, SettlementTypeOK, SamePosition, Positions, Accounts,
         SettlementAssumption
<1>2. n \in 1 .. q /\ n \in 0 .. q /\ n \in Nat /\ Vwap(walk) \in Nat
  <2>1. n \in 0 .. q
    BY <1>1, WalkType DEF ExitWalks
  <2>2. Vwap(walk) \in Nat
    BY <1>1, VwapType DEF ExitWalks
  <2> QED
    BY <1>1, <2>1, <2>2
<1>3. g \in Int /\ D \in Nat /\ C - I <= D /\ -D <= C - I
  BY <1>1, <1>2, GainType, DistanceType
<1>4. RC = C - aC + Min0(aC + g)
  BY DEF Residual
<1>5. RI = I - aI + Min0(aI + g)
  <2>1. Gain(ledger, Vwap(walk), n) = g
    BY <1>1 DEF Gain
  <2>2. Product(I, fr) = aI
    BY DEF Product
  <2> QED
    BY <1>1, <2>1, <2>2 DEF Settled
<1>6. fr \in Int /\ \E e \in Int : /\ q * fr = n * Scale + e
                                  /\ 2 * e <= q /\ -q <= 2 * e
  <2>1. n * Scale \in Int
    BY <1>1, <1>2
  <2> QED
    BY <1>1, <2>1, RoundError, QuotientType
<1>7. aC \in Int /\ \E e \in Int : /\ q * aC = C * n + e
                                  /\ 2 * e <= q /\ -q <= 2 * e
  <2>1. C * n \in Int
    BY <1>1, <1>2
  <2> QED
    BY <1>1, <2>1, RoundError, QuotientType
<1>8. aI \in Int /\ \E e \in Int : /\ Scale * aI = I * fr + e
                                  /\ 2 * e <= Scale /\ -Scale <= 2 * e
  <2> HIDE DEF fr
  <2>1. I * fr \in Int
    BY <1>1, <1>6
  <2> QED
    BY <1>1, <2>1, RoundError, QuotientType
<1>9. fr \in 0 .. Scale
  <2>1. n * Scale \in Int /\ n * Scale >= 0 /\ n * Scale <= Scale * q
    <3>1. Scale * q = n * Scale + (q - n) * Scale
      BY <1>1, <1>2
    <3>2. n * Scale \in Nat /\ (q - n) * Scale \in Nat
      BY <1>1, <1>2
    <3> QED
      BY <3>1, <3>2
  <2> QED
    BY <1>1, <2>1, RoundWithin
<1>10. n = q => aC = C /\ aI = I
  <2>1. Quotient(C * q, q) = C
    BY <1>1, QuotientOfWhole, Zenon
  <2>2. Quotient(q * Scale, q) = Scale
    <3> Scale \in Int
      BY <1>1
    <3> QED
      BY <1>1, QuotientOfWhole, Zenon
  <2>3. Quotient(I * Scale, Scale) = I
    BY <1>1, QuotientOfWhole, Zenon
  <2> QED
    BY <2>1, <2>2, <2>3
<1>11. /\ I >= 0 => aI \in 0 .. I
       /\ I <= 0 => aI \in I .. 0
  <2> HIDE DEF fr
  <2>1. CASE I >= 0
    <3>1. I \in Nat /\ I * fr \in Int /\ I * fr >= 0 /\ I * fr <= I * Scale
      <4>1. I * Scale = I * fr + I * (Scale - fr)
        BY <1>1, <1>9
      <4>2. I * fr \in Nat /\ I * (Scale - fr) \in Nat
        BY <1>1, <1>9, <2>1
      <4> QED
        BY <1>1, <2>1, <4>1, <4>2
    <3>2. aI \in 0 .. I
      BY <1>1, <3>1, RoundWithin
    <3> QED
      BY <1>1, <2>1, <3>2
  <2>2. CASE I <= 0
    <3> DEFINE J == -I
    <3>1. J \in Nat /\ I * fr \in Int /\ I * fr <= 0 /\ I * fr >= -(J * Scale)
      <4>1. I * fr = -(J * fr) /\ J * Scale = J * fr + J * (Scale - fr)
        BY <1>1, <1>9
      <4>2. J * fr \in Nat /\ J * (Scale - fr) \in Nat
        BY <1>1, <1>9, <2>2
      <4> HIDE DEF J
      <4>3. J \in Nat
        BY <1>1, <2>2 DEF J
      <4> QED
        BY <1>1, <2>2, <4>1, <4>2, <4>3
    <3> HIDE DEF J
    <3>2. aI \in -J .. 0
      BY <1>1, <3>1, RoundWithin
    <3> QED
      BY <1>1, <2>2, <3>2 DEF J
  <2> QED
    BY <1>1, <2>1, <2>2
<1>12. (C - aC) - (I - aI) <= D + Drift /\ -(D + Drift) <= (C - aC) - (I - aI)
  <2>1. PICK e1 \in Int : q * aC = C * n + e1 /\ 2 * e1 <= q /\ -q <= 2 * e1
    BY <1>7
  <2>2. PICK e2 \in Int : q * fr = n * Scale + e2 /\ 2 * e2 <= q /\ -q <= 2 * e2
    BY <1>6
  <2>3. PICK e3 \in Int : /\ Scale * aI = I * fr + e3
                          /\ 2 * e3 <= Scale /\ -Scale <= 2 * e3
    BY <1>8
  <2>4. I <= 2 * Scale * (Drift - 1) /\ -(2 * Scale * (Drift - 1)) <= I
    BY IsolatedBound
  <2> HIDE DEF q, n, C, I, D, fr, aC, aI
  <2>5. /\ q \in Nat \ {0} /\ n \in 0 .. q /\ C \in Int /\ I \in Int /\ D \in Nat
        /\ fr \in Int /\ aC \in Int /\ aI \in Int /\ Scale \in Nat \ {0}
    BY <1>1, <1>2, <1>3, <1>6, <1>7, <1>8
  <2> QED
    BY <1>3, <2>1, <2>2, <2>3, <2>4, <2>5, PartsApart, Zenon
<1> HIDE DEF q, n, C, I, D, fr, aC, aI, g, RC, RI
<1>13. RC \in Int /\ RI \in Int
  BY <1>1, <1>3, <1>4, <1>5, <1>7, <1>8 DEF Min0
<1>14. Distance(RC, RI) <= D + Drift
  BY <1>1, <1>3, <1>4, <1>5, <1>7, <1>8, <1>12, ResidualsApart
<1>15. n = q => RC <= 0 /\ RI <= 0 /\ Distance(RC, RI) <= D
  <2> SUFFICES ASSUME n = q PROVE RC <= 0 /\ RI <= 0 /\ Distance(RC, RI) <= D
    OBVIOUS
  <2>1. RC = Min0(C + g) /\ RI = Min0(I + g)
    BY <1>1, <1>3, <1>4, <1>5, <1>10 DEF Min0
  <2>2. RC - RI <= D /\ -D <= RC - RI /\ RC <= 0 /\ RI <= 0
    BY <1>1, <1>3, <2>1 DEF Min0
  <2> QED
    BY <1>3, <1>13, <2>2, DistanceType
<1>16. Distance(Max0(RI), 0) <= Distance(I, 0)
  BY <1>1, <1>3, <1>5, <1>8, <1>11 DEF Distance, Max0, Min0
<1> QED
  BY <1>13, <1>14, <1>15, <1>16 DEF q, n, C, I, D, RC, RI

(* Without a position there is nothing to part. *)
LEMMA AgreeInit ==
  ASSUME Drift \in Nat, NEW Margin \in Nat, NEW Funding \in Nat, Init
  PROVE  AgreeInv(Margin, Funding)
<1>1. /\ ~Held /\ active.collateral = 0 /\ ledger.isolated = 0
      /\ history.fundings = 0 /\ history.uncharged = 0 /\ history.spared = 0
      /\ history.trades = 0
  BY DEF Init, Held, NoPosition, NoHistory
<1>2. Distance(0, 0) = 0
  BY DEF Distance
<1>3. 0 * Lots * Drift = 0 /\ Margin + 0 * Funding = Margin /\ 0 <= MaxFundings
  BY SettlementAssumption DEF SettlementAssumption
<1> QED
  BY <1>1, <1>2, <1>3 DEF AgreeInv, Allowed

(* Nothing that leaves both positions and the history alone parts them. *)
LEMMA AgreeUntouched ==
  ASSUME NEW Margin, NEW Funding, AgreeInv(Margin, Funding),
         UNCHANGED <<active, ledger, history>>, Held' = Held
  PROVE  AgreeInv(Margin, Funding)'
BY DEF AgreeInv, Allowed

\* What the fills of a trade may part the two accounts by, and those of all.
LEMMA AllowedSteps ==
  ASSUME Drift \in Nat, Lots \in Nat, NEW trades \in Nat, NEW fills \in Nat
  PROVE  /\ trades * Lots * Drift \in Nat
         /\ ((trades - 1) * Lots + fills) * Drift \in Int
         /\ ((trades - 1) * Lots + (fills + 1)) * Drift
              = ((trades - 1) * Lots + fills) * Drift + Drift
         /\ (((trades + 1) - 1) * Lots + 1) * Drift = trades * Lots * Drift + Drift
         /\ fills <= Lots =>
              ((trades - 1) * Lots + fills) * Drift <= trades * Lots * Drift
<1>1. trades * Lots * Drift \in Nat
  OBVIOUS
<1> DEFINE P == (trades - 1) * Lots
<1>2. P \in Int /\ trades * Lots = P + Lots
  OBVIOUS
<1> HIDE DEF P
<1>3. (P + (fills + 1)) * Drift = (P + fills) * Drift + Drift
  BY <1>2
<1>4. fills <= Lots => (P + fills) * Drift <= (P + Lots) * Drift
  <2> SUFFICES ASSUME fills <= Lots PROVE (P + fills) * Drift <= (P + Lots) * Drift
    OBVIOUS
  <2>1. (P + Lots) * Drift = (P + fills) * Drift + (Lots - fills) * Drift
    BY <1>2
  <2>2. (Lots - fills) * Drift \in Nat /\ (P + fills) * Drift \in Int
    BY <1>2
  <2> QED
    BY <2>1, <2>2
<1>5. (P + fills) * Drift \in Int
  BY <1>2
<1>6. (((trades + 1) - 1) * Lots + 1) * Drift = trades * Lots * Drift + Drift
  OBVIOUS
<1>7. (P + Lots) * Drift = trades * Lots * Drift
  BY <1>2
<1> QED
  BY <1>1, <1>3, <1>4, <1>5, <1>6, <1>7 DEF P

(* Funding is charged to both. *)
LEMMA AgreeFunding ==
  ASSUME Drift \in Nat, NEW Margin \in Nat, NEW Funding \in Nat,
         DriftCovers(Margin, Funding), IInv, AgreeInv(Margin, Funding),
         NEW mark \in Prices, NEW rate \in Rates, ApplyFunding(mark, rate)
  PROVE  AgreeInv(Margin, Funding)'
<1> DEFINE part   == Quotient(active.quantity * mark * rate, 10000)
           amount == Sign(active.side) * part
           funded == [active EXCEPT !.collateral = @ - amount]
           new    == [ledger EXCEPT !.isolated = @ - amount,
                        !.paid = @ + Max0(amount), !.received = @ - Min0(amount)]
           booked == ApplyFundingTo(ledger, amount)
<1>1. /\ active.quantity \in 0 .. Lots /\ active.collateral \in Int
      /\ ledger.isolated \in Int /\ history \in Histories /\ active \in Positions
      /\ ledger \in Accounts
  BY DEF IInv, SettlementTypeOK, Positions, Accounts
<1>2. part \in Int /\ part <= Funding /\ part >= -Funding
  <2>1. active.quantity * mark * rate \in Int
    BY <1>1, SettlementAssumption DEF SettlementAssumption
  <2>2. part \in Int
    BY <2>1, QuotientType
  <2> QED
    BY <1>1, <2>2 DEF DriftCovers, Bounds
<1>3. amount \in Int /\ amount <= Funding /\ -Funding <= amount
  BY <1>2 DEF Sign
<1>4. /\ Held /\ history.fundings < MaxFundings
      /\ IF booked.error # "none" THEN Fail(booked.error)
         ELSE /\ active' = funded
              /\ ledger' = booked.ledger
              /\ IF Liquidates(funded, mark) THEN StartMandatory("Liquidation", mark)
                   ELSE UNCHANGED <<state, request>>
              /\ history' = [history EXCEPT !.fundings = @ + 1]
              /\ UNCHANGED failure
  BY DEF ApplyFunding
<1> HIDE DEF amount, part
<1>5. booked = Accept(new)
  BY DEF ApplyFundingTo
<1>6. booked.ledger = new
  BY <1>5, AcceptedOnly
<1>7. CASE booked.error # "none"
  BY <1>4, <1>7, AgreeUntouched DEF Fail, Held
<1>8. CASE booked.error = "none"
  <2>1. /\ active' = funded /\ ledger' = new
        /\ history' = [history EXCEPT !.fundings = @ + 1]
    BY <1>4, <1>6, <1>8
  <2>2. Held'
    <3>1. StartMandatory("Liquidation", mark) => state' = "MandatoryExit"
      BY DEF StartMandatory
    <3> QED
      BY <1>4, <1>8, <3>1 DEF Held
  <2>3. /\ active'.collateral = active.collateral - amount
        /\ active'.quantity = active.quantity
        /\ ledger'.isolated = ledger.isolated - amount
        /\ history'.fundings = history.fundings + 1
        /\ history'.trades = history.trades /\ history'.fills = history.fills
        /\ history'.uncharged = history.uncharged
        /\ history'.spared = history.spared
    BY <1>1, <2>1 DEF Positions, Accounts, Histories
  <2>4. Distance(active'.collateral, ledger'.isolated)
          = Distance(active.collateral, ledger.isolated)
    BY <1>1, <1>3, <2>3 DEF Distance
  <2>5. /\ history.trades >= 1
        /\ history.fills >= 1 /\ history.fills + active.quantity <= Lots + 1
        /\ Distance(active.collateral, ledger.isolated) <= history.fills * Drift
        /\ Distance(history.uncharged, history.spared)
             + Distance(active.collateral, ledger.isolated)
             <= ((history.trades - 1) * Lots + history.fills) * Drift
        /\ Distance(ledger.isolated, 0) <= Margin + history.fundings * Funding
    BY <1>4 DEF AgreeInv, Allowed
  <2>6. history'.fundings <= MaxFundings
    BY <1>1, <1>4, <2>3, SettlementAssumption DEF Histories, SettlementAssumption
  <2>7. Distance(ledger'.isolated, 0) <= Margin + history'.fundings * Funding
    <3>1. history.fundings \in Nat
      BY <1>1 DEF Histories
    <3>2. (history.fundings + 1) * Funding = history.fundings * Funding + Funding
      BY <3>1
    <3>3. history.fundings * Funding \in Nat
      BY <3>1
    <3>4. Distance(ledger.isolated - amount, 0)
            <= Distance(ledger.isolated, 0) + Funding
      BY <1>1, <1>3 DEF Distance
    <3>5. Distance(ledger.isolated, 0) \in Int
      BY <1>1 DEF Distance
    <3>6. Distance(ledger.isolated - amount, 0) \in Int
      BY <1>1, <1>3 DEF Distance
    <3> QED
      BY <2>3, <2>5, <3>2, <3>3, <3>4, <3>5, <3>6
  <2>8. Allowed' = ((history.trades - 1) * Lots + history.fills) * Drift
    BY <2>2, <2>3 DEF Allowed
  <2> QED
    BY <2>2, <2>3, <2>4, <2>5, <2>6, <2>7, <2>8 DEF AgreeInv
<1> QED
  BY <1>7, <1>8

(* The margin of an entry is divided from its value by the broker and from its
   rounded price by the ledger. *)
LEMMA MarginsAgree ==
  ASSUME Drift \in Nat, NEW Margin \in Nat, NEW Funding \in Nat,
         DriftCovers(Margin, Funding), NEW side \in {"Long", "Short"},
         NEW walk \in Walks(Lots, side), walk.filled > 0
  PROVE  LET C == Quotient(walk.value, Leverage)
             I == Quotient(Vwap(walk) * walk.filled, Leverage)
         IN  /\ C \in Nat /\ I \in Nat /\ I <= Margin
             /\ Distance(C, I) <= Drift /\ walk.filled \in 1 .. Lots
<1> DEFINE n == walk.filled
           v == walk.value
           p == Vwap(walk)
           C == Quotient(v, Leverage)
           I == Quotient(p * n, Leverage)
<1>1. /\ n \in 1 .. Lots /\ v \in Nat /\ Lots \in Nat /\ n \in Nat \ {0}
      /\ Leverage \in Nat \ {0}
  BY WalkType, SettlementAssumption DEF SettlementAssumption
<1>2. p \in Nat
  BY <1>1, VwapType
<1>3. I <= Margin
  BY DEF DriftCovers, Bounds
<1>4a. p = Quotient(v, n)
  BY DEF Vwap
<1> HIDE DEF n, v, p
<1>4. PICK e \in Int : n * p = v + e /\ 2 * e <= n /\ -n <= 2 * e
  <2>1. v \in Int
    BY <1>1
  <2>2. \E e \in Int : /\ n * Quotient(v, n) = v + e
                       /\ 2 * e <= n /\ -n <= 2 * e
    BY <1>1, <2>1, RoundError
  <2> QED
    BY <1>4a, <2>2
<1>5. C \in Nat /\ \E f \in Int : /\ Leverage * C = v + f
                              /\ 2 * f <= Leverage /\ -Leverage <= 2 * f
  <2>1. v \in Int /\ v >= 0
    BY <1>1
  <2> QED
    BY <1>1, <2>1, RoundError, QuotientType
<1>6. I \in Nat /\ \E f \in Int : /\ Leverage * I = p * n + f
                              /\ 2 * f <= Leverage /\ -Leverage <= 2 * f
  <2>1. p * n \in Int /\ p * n >= 0
    BY <1>1, <1>2
  <2> QED
    BY <1>1, <2>1, RoundError, QuotientType
<1>7. PICK f1 \in Int : /\ Leverage * C = v + f1
                        /\ 2 * f1 <= Leverage /\ -Leverage <= 2 * f1
  BY <1>5
<1>8. PICK f2 \in Int : /\ Leverage * I = p * n + f2
                        /\ 2 * f2 <= Leverage /\ -Leverage <= 2 * f2
  BY <1>6
<1> HIDE DEF C, I
<1>9. 2 * (Leverage * (C - I)) <= 2 * Leverage + n
      /\ -(2 * Leverage + n) <= 2 * (Leverage * (C - I))
  <2>1. Leverage * (C - I) = Leverage * C - Leverage * I /\ p * n = n * p
    BY <1>1, <1>2, <1>5, <1>6
  <2>2. Leverage * C \in Int /\ Leverage * I \in Int /\ n * p \in Int
    BY <1>1, <1>2, <1>5, <1>6
  <2> QED
    BY <1>1, <1>4, <1>7, <1>8, <2>1, <2>2
<1>10. 2 * Drift >= 2 + n
  BY <1>1 DEF DriftCovers
<1>11. Leverage * (2 * Drift - 2) >= n
  <2>1. Leverage * (2 * Drift - 2) >= Leverage * n
    BY <1>1, <1>10, Z3
  <2>2. Leverage * n >= n
    BY <1>1, Z3
  <2> QED
    BY <1>1, <2>1, <2>2
<1>12. 2 * (Leverage * (C - I)) <= 2 * (Leverage * Drift)
       /\ -(2 * (Leverage * Drift)) <= 2 * (Leverage * (C - I))
  <2>1. Leverage * (2 * Drift - 2) = 2 * (Leverage * Drift) - 2 * Leverage
    BY <1>1
  <2>2. Leverage * Drift \in Int /\ Leverage * (C - I) \in Int
    BY <1>1, <1>5, <1>6
  <2> QED
    BY <1>1, <1>9, <1>11, <2>1, <2>2
<1>13. C - I <= Drift /\ -Drift <= C - I
  <2>1. ASSUME C - I >= Drift + 1 PROVE FALSE
    <3>1. Leverage * (C - I) >= Leverage * (Drift + 1)
      BY <1>1, <1>5, <1>6, <2>1, Z3
    <3>2. /\ Leverage * (Drift + 1) = Leverage * Drift + Leverage
          /\ Leverage * Drift \in Int /\ Leverage * (C - I) \in Int
      BY <1>1, <1>5, <1>6
    <3> QED
      BY <1>1, <1>12, <3>1, <3>2
  <2>2. ASSUME C - I <= -Drift - 1 PROVE FALSE
    <3>1. Leverage * (C - I) <= Leverage * (-Drift - 1)
      BY <1>1, <1>5, <1>6, <2>2, Z3
    <3>2. /\ Leverage * (-Drift - 1) = -(Leverage * Drift) - Leverage
          /\ Leverage * Drift \in Int /\ Leverage * (C - I) \in Int
      BY <1>1, <1>5, <1>6
    <3> QED
      BY <1>1, <1>12, <3>1, <3>2
  <2> QED
    BY <1>5, <1>6, <2>1, <2>2
<1>14. Distance(C, I) <= Drift
  BY <1>5, <1>6, <1>13, DistanceType
<1> QED
  BY <1>1, <1>3, <1>5, <1>6, <1>14 DEF C, I, n, v, p

(* An entry is the first fill of its trade. *)
LEMMA AgreeEnter ==
  ASSUME Drift \in Nat, NEW Margin \in Nat, NEW Funding \in Nat,
         DriftCovers(Margin, Funding), IInv, AgreeInv(Margin, Funding),
         NEW side \in {"Long", "Short"}, NEW walk \in Walks(Lots, side),
         Enter(side, walk)
  PROVE  AgreeInv(Margin, Funding)'
<1> DEFINE stake == Opened(side, walk)
           opened == OpenPosition(side, walk)
           C == Quotient(walk.value, Leverage)
           I == Quotient(Vwap(walk) * walk.filled, Leverage)
           fee == FeeOf(walk.value)
           new == [ledger EXCEPT
             !.cash = @ - I - fee, !.isolated = I,
             !.side = side, !.quantity = walk.filled, !.entry = Vwap(walk),
             !.cashflow = -(I + fee), !.fees = @ + fee]
<1>1. /\ state = "Flat" /\ walk.filled > 0
      /\ IF opened.error # "none" THEN Fail(opened.error)
         ELSE /\ active' = stake
              /\ ledger' = opened.ledger
              /\ IF walk.value < MinimumNotional
                   THEN StartMandatory("Dust", stake.entry)
                 ELSE IF Liquidates(stake, stake.entry)
                   THEN StartMandatory("Liquidation", stake.entry)
                 ELSE state' = "Open" /\ UNCHANGED request
              /\ history' = [history EXCEPT !.trades = @ + 1, !.fills = 1,
                                            !.cashBefore = ledger.cash]
              /\ UNCHANGED failure
  BY DEF Enter
<1>2. /\ C \in Nat /\ I \in Nat /\ I <= Margin
      /\ Distance(C, I) <= Drift /\ walk.filled \in 1 .. Lots
  BY <1>1, MarginsAgree
<1>3. opened = IF ledger.cash < I + fee THEN Refuse("insufficient cash")
               ELSE Accept(new)
  BY DEF OpenPosition
<1>4. stake.collateral = C /\ stake.quantity = walk.filled
  BY DEF Opened
<1>5. history \in Histories /\ ledger \in Accounts /\ Lots \in Nat
  BY SettlementAssumption DEF IInv, SettlementTypeOK, SettlementAssumption
<1> HIDE DEF stake, opened, C, I, fee
<1>6. CASE opened.error # "none"
  BY <1>1, <1>6, AgreeUntouched DEF Fail, Held
<1>7. CASE opened.error = "none"
  <2>1. opened.ledger = new
    <3>1. Refuse("insufficient cash").error # "none"
      BY DEF Refuse
    <3>2. Accept(new).ledger = new
      BY AcceptedOnly
    <3> QED
      BY <1>3, <1>7, <3>1, <3>2
  <2>2. /\ active' = stake /\ ledger' = new
        /\ history' = [history EXCEPT !.trades = @ + 1, !.fills = 1,
                                      !.cashBefore = ledger.cash]
    BY <1>1, <1>7, <2>1
  <2>3. Held'
    <3>1. \A reason, mark : StartMandatory(reason, mark) => state' = "MandatoryExit"
      BY DEF StartMandatory
    <3> QED
      BY <1>1, <1>7, <3>1 DEF Held
  <2>4. /\ active'.collateral = C /\ active'.quantity = walk.filled
        /\ ledger'.isolated = I
        /\ history'.trades = history.trades + 1 /\ history'.fills = 1
        /\ history'.fundings = history.fundings
        /\ history'.uncharged = history.uncharged
        /\ history'.spared = history.spared
    BY <1>4, <1>5, <2>2 DEF Accounts, Histories
  <2> DEFINE U == Distance(history.uncharged, history.spared)
             D == Distance(C, I)
             D0 == Distance(active.collateral, ledger.isolated)
  <2>5. /\ history.trades \in Nat /\ history.fundings \in Nat
        /\ U \in Nat /\ D \in Nat /\ D0 \in Nat
    <3>1. active.collateral \in Int /\ ledger.isolated \in Int
      BY DEF IInv, SettlementTypeOK, Positions, Accounts
    <3>2. /\ history.trades \in Nat /\ history.fundings \in Nat
          /\ history.uncharged \in Nat /\ history.spared \in Nat
      BY <1>5 DEF Histories
    <3>3. U \in Nat /\ D \in Nat /\ D0 \in Nat
      BY <1>2, <3>1, <3>2 DEF Distance
    <3> QED
      BY <3>2, <3>3
  <2>6. U + D0 <= history.trades * Lots * Drift
    BY <1>1 DEF AgreeInv, Allowed, Held
  <2>7. Allowed' = (((history.trades + 1) - 1) * Lots + 1) * Drift
    BY <2>3, <2>4 DEF Allowed
  <2>8. /\ (((history.trades + 1) - 1) * Lots + 1) * Drift
             = history.trades * Lots * Drift + Drift
        /\ history.trades * Lots * Drift \in Nat
    BY <1>5, <2>5, AllowedSteps
  <2>9. history.fundings <= MaxFundings
    BY DEF AgreeInv
  <2>10. Distance(I, 0) <= Margin + history.fundings * Funding
    <3>1. history.fundings * Funding \in Nat
      BY <2>5
    <3> QED
      BY <1>2, <3>1 DEF Distance
  <2> HIDE DEF U, D, D0
  <2>11. U + D <= Allowed'
    BY <1>2, <2>5, <2>6, <2>7, <2>8 DEF D
  <2>12. 1 * Drift = Drift
    OBVIOUS
  <2>13. history.trades + 1 >= 1 /\ 1 + walk.filled <= Lots + 1
    BY <1>2, <1>5, <2>5
  <2> QED
    BY <1>2, <2>3, <2>4, <2>9, <2>10, <2>11, <2>12, <2>13 DEF AgreeInv, U, D
<1> QED
  BY <1>6, <1>7

(* What a fill does to the two accounts, before the rest may be given up. *)
Parted(Margin, Funding, stake, l, h) ==
  /\ h.trades = history.trades /\ h.fundings = history.fundings
  /\ h.uncharged \in Nat /\ h.spared \in Nat /\ h.fills \in Nat
  /\ h.fills >= 1
  /\ stake.quantity > 0 => h.fills + stake.quantity <= Lots + 1
  /\ stake.collateral \in Int /\ l.isolated \in Int
  /\ Distance(l.isolated, 0) <= Margin + history.fundings * Funding
  /\ stake.quantity > 0 =>
       /\ Distance(stake.collateral, l.isolated) <= h.fills * Drift
       /\ Distance(h.uncharged, h.spared)
            + Distance(stake.collateral, l.isolated)
            <= ((h.trades - 1) * Lots + h.fills) * Drift
  /\ Distance(h.uncharged, h.spared) <= h.trades * Lots * Drift

(* A fill adds at most Drift, and the last one of a position nothing. *)
LEMMA AgreeFill ==
  ASSUME Drift \in Nat, NEW Margin \in Nat, NEW Funding \in Nat,
         DriftCovers(Margin, Funding), IInv, AgreeInv(Margin, Funding), Held,
         NEW walk \in ExitWalks, walk.filled > 0,
         NEW forfeit, SettleExit(walk, forfeit).error = "none",
         NEW h, h = [history EXCEPT
                !.fills = @ + 1,
                !.uncharged = @ + (IF Caps(active, walk)
                                     THEN -Residual(active, walk) ELSE 0),
                !.spared = @ + Max0(-Settled(ledger, walk).residual)]
  PROVE  /\ Parted(Margin, Funding, Reduced(active, walk),
                   SettleExit(walk, forfeit).ledger, h)
         /\ h.fills >= 1
<1> DEFINE RC == Residual(active, walk)
           RI == Settled(ledger, walk).residual
           D  == Distance(active.collateral, ledger.isolated)
           U  == Distance(history.uncharged, history.spared)
           left == Reduced(active, walk)
           l  == SettleExit(walk, forfeit).ledger
           P  == ((history.trades - 1) * Lots + history.fills) * Drift
<1>1. /\ RC \in Int /\ RI \in Int
      /\ Distance(RC, RI) <= D + Drift
      /\ walk.filled = active.quantity => RC <= 0 /\ RI <= 0 /\ Distance(RC, RI) <= D
      /\ Distance(Max0(RI), 0) <= Distance(ledger.isolated, 0)
  BY FillAgrees
<1>2. /\ history \in Histories /\ ledger \in Accounts /\ active \in Positions
      /\ active.quantity = ledger.quantity /\ active.quantity \in Nat \ {0}
      /\ Lots \in Nat
  BY SettlementAssumption
     DEF IInv, SettlementTypeOK, SamePosition, Positions, Accounts,
         SettlementAssumption
<1>3. /\ walk.filled \in 1 .. active.quantity
  <2>1. walk.filled \in 0 .. active.quantity
    BY <1>2, WalkType DEF ExitWalks
  <2> QED
    BY <1>2, <2>1
<1>4. /\ left.collateral = Max0(RC) /\ left.quantity = active.quantity - walk.filled
  <2>1. left = [active EXCEPT !.quantity = @ - walk.filled, !.collateral = Max0(RC)]
    BY <1>3 DEF Reduced
  <2> QED
    BY <1>2, <2>1 DEF Positions
<1>5. l.isolated = IF ledger.quantity - walk.filled = 0 THEN 0 ELSE Max0(RI)
  <2> DEFINE s    == Settled(ledger, walk)
             fee  == FeeOf(walk.value)
             rest == ledger.quantity - walk.filled
             due  == IF s.residual < 0 THEN Max0(ledger.isolated) ELSE None
             new  == [ledger EXCEPT
               !.cash = @ + s.released - fee,
               !.isolated = IF rest = 0 THEN 0 ELSE Max0(s.residual),
               !.quantity = rest,
               !.side = IF rest = 0 THEN "none" ELSE @,
               !.entry = IF rest = 0 THEN 0 ELSE @,
               !.cashflow = @ + s.released - fee,
               !.realized = @ + s.gross,
               !.fees = @ + fee]
  <2>1. SettleExit(walk, forfeit) =
          IF due # None /\ forfeit = None THEN Refuse("capped liquidation required")
          ELSE IF due # forfeit THEN Refuse("invalid forfeit")
          ELSE IF ledger.cash + s.released - fee < 0 THEN Refuse("insufficient cash")
          ELSE Accept(new)
    BY DEF SettleExit
  <2> HIDE DEF s, fee, due
  <2>2. /\ Refuse("capped liquidation required").error # "none"
        /\ Refuse("invalid forfeit").error # "none"
        /\ Refuse("insufficient cash").error # "none"
    BY DEF Refuse
  <2>3. new.isolated = IF rest = 0 THEN 0 ELSE Max0(s.residual)
    BY <1>2 DEF Accounts
  <2> HIDE DEF new, rest
  <2>4. l = new
    <3>1. Accept(new).ledger = new
      BY AcceptedOnly
    <3> QED
      BY <2>1, <2>2, <3>1
  <2> QED
    BY <2>3, <2>4 DEF s, rest
<1>6. Caps(active, walk) <=> RC < 0
  BY DEF Caps
<1>7. /\ history.fills \in Nat /\ history.uncharged \in Nat /\ history.spared \in Nat
      /\ history.trades \in Nat /\ history.fundings \in Nat
  BY <1>2 DEF Histories
<1>8. /\ active.collateral \in Int /\ ledger.isolated \in Int
  BY <1>2 DEF Positions, Accounts
<1> HIDE DEF RC, RI, left, l
<1>9. /\ Max0(RC) \in Nat /\ Max0(-RC) \in Nat /\ Max0(RI) \in Nat /\ Max0(-RI) \in Nat
      /\ Distance(Max0(RC), Max0(RI)) + Distance(Max0(-RC), Max0(-RI))
           = Distance(RC, RI)
  BY <1>1, CapSplits
<1>10. /\ h.fills = history.fills + 1 /\ h.trades = history.trades
       /\ h.fundings = history.fundings
       /\ h.uncharged = history.uncharged + Max0(-RC)
       /\ h.spared = history.spared + Max0(-RI)
  <2>1. (IF Caps(active, walk) THEN -RC ELSE 0) = Max0(-RC)
    BY <1>1, <1>6 DEF Max0
  <2>2. h = [history EXCEPT !.fills = @ + 1, !.uncharged = @ + Max0(-RC),
                            !.spared = @ + Max0(-RI)]
    BY <2>1 DEF RC, RI
  <2> QED
    BY <1>2, <2>2 DEF Histories
<1>11. /\ D \in Nat /\ U \in Nat
       /\ Distance(Max0(RC), Max0(RI)) \in Nat
       /\ Distance(Max0(-RC), Max0(-RI)) \in Nat
       /\ Distance(RC, RI) \in Nat
       /\ Distance(h.uncharged, h.spared) \in Nat
       /\ Distance(h.uncharged, h.spared) <= U + Distance(Max0(-RC), Max0(-RI))
  BY <1>1, <1>7, <1>8, <1>9, <1>10 DEF Distance
<1>12. /\ history.trades >= 1 /\ history.fills >= 1
       /\ D <= history.fills * Drift /\ U + D <= P
       /\ Distance(ledger.isolated, 0) <= Margin + history.fundings * Funding
  BY DEF AgreeInv, Allowed
<1>12a. history.fills + active.quantity <= Lots + 1
  BY DEF AgreeInv
<1>12b. history.fills <= Lots
  BY <1>2, <1>7, <1>12a
<1>13. /\ ((history.trades - 1) * Lots + (history.fills + 1)) * Drift = P + Drift
       /\ P \in Int /\ history.trades * Lots * Drift \in Nat
       /\ P <= history.trades * Lots * Drift
  BY <1>2, <1>7, <1>12b, AllowedSteps
<1>14. history.fills + 1 <= Lots =>
         P + Drift <= history.trades * Lots * Drift
  <2>1. /\ history.fills + 1 \in Nat
        /\ history.fills + 1 <= Lots =>
             ((history.trades - 1) * Lots + (history.fills + 1)) * Drift
               <= history.trades * Lots * Drift
    BY <1>2, <1>7, AllowedSteps
  <2> QED
    BY <1>13, <2>1
<1>15. (history.fills + 1) * Drift = history.fills * Drift + Drift
  BY <1>7
<1>16. history.fills * Drift \in Int
  BY <1>7
<1> HIDE DEF D, U, P
<1>17. Distance(l.isolated, 0) <= Margin + history.fundings * Funding
  <2>1. l.isolated = 0 \/ l.isolated = Max0(RI)
    BY <1>5
  <2>2. /\ Distance(0, 0) = 0 /\ Distance(ledger.isolated, 0) \in Nat
        /\ Distance(Max0(RI), 0) \in Nat /\ history.fundings * Funding \in Nat
    BY <1>7, <1>8, <1>9 DEF Distance
  <2> QED
    BY <1>1, <1>12, <2>1, <2>2
<1>18. ASSUME left.quantity > 0
       PROVE  /\ h.fills + left.quantity <= Lots + 1
              /\ Distance(left.collateral, l.isolated) <= h.fills * Drift
              /\ Distance(h.uncharged, h.spared)
                   + Distance(left.collateral, l.isolated)
                   <= ((h.trades - 1) * Lots + h.fills) * Drift
              /\ Distance(h.uncharged, h.spared) <= h.trades * Lots * Drift
  <2>1. l.isolated = Max0(RI)
    BY <1>2, <1>3, <1>4, <1>5, <1>18
  <2>2. h.fills + left.quantity <= Lots + 1 /\ history.fills + 1 <= Lots
    BY <1>2, <1>3, <1>4, <1>7, <1>10, <1>12a, <1>18
  <2>3. Distance(left.collateral, l.isolated) <= h.fills * Drift
    BY <1>1, <1>4, <1>9, <1>10, <1>11, <1>12, <1>15, <1>16, <2>1
  <2>4. Distance(h.uncharged, h.spared) + Distance(left.collateral, l.isolated)
          <= P + Drift
    BY <1>1, <1>4, <1>9, <1>11, <1>12, <1>13, <2>1
  <2>5. Distance(left.collateral, l.isolated) \in Nat
    BY <1>4, <1>11, <2>1
  <2>6. Distance(h.uncharged, h.spared) <= h.trades * Lots * Drift
    BY <1>10, <1>11, <1>13, <1>14, <2>2, <2>4, <2>5
  <2> QED
    BY <1>10, <1>13, <2>2, <2>3, <2>4, <2>6
<1>19. ASSUME ~(left.quantity > 0)
       PROVE  Distance(h.uncharged, h.spared) <= h.trades * Lots * Drift
  <2>1. walk.filled = active.quantity
    BY <1>2, <1>3, <1>4, <1>19
  <2> QED
    BY <1>1, <1>9, <1>10, <1>11, <1>12, <1>13, <2>1
<1>20. left.collateral \in Int /\ l.isolated \in Int
  BY <1>4, <1>5, <1>9
<1>21. h.fills \in Nat /\ h.uncharged \in Nat /\ h.spared \in Nat /\ h.fills >= 1
  BY <1>7, <1>9, <1>10
<1> QED
  BY <1>10, <1>17, <1>18, <1>19, <1>20, <1>21 DEF Parted, left, l

(* A book that fills nothing leaves both accounts as they were. *)
LEMMA AgreeUnfilled ==
  ASSUME Drift \in Nat, NEW Margin \in Nat, NEW Funding \in Nat,
         IInv, AgreeInv(Margin, Funding), Held
  PROVE  Parted(Margin, Funding, active, ledger, history)
<1>1. /\ history \in Histories /\ ledger \in Accounts /\ active \in Positions
      /\ active.quantity \in Nat \ {0} /\ Lots \in Nat
  BY SettlementAssumption
     DEF IInv, SettlementTypeOK, SamePosition, Positions, Accounts,
         SettlementAssumption
<1>2. /\ history.fills \in Nat /\ history.uncharged \in Nat /\ history.spared \in Nat
      /\ history.trades \in Nat /\ active.collateral \in Int
      /\ ledger.isolated \in Int
  BY <1>1 DEF Histories, Positions, Accounts
<1>3. /\ history.fills >= 1 /\ history.fills + active.quantity <= Lots + 1
      /\ Distance(active.collateral, ledger.isolated) <= history.fills * Drift
      /\ Distance(history.uncharged, history.spared)
           + Distance(active.collateral, ledger.isolated)
           <= ((history.trades - 1) * Lots + history.fills) * Drift
      /\ Distance(ledger.isolated, 0) <= Margin + history.fundings * Funding
  BY DEF AgreeInv, Allowed
<1>4. history.fills + active.quantity <= Lots + 1
  BY DEF AgreeInv
<1>5. history.fills <= Lots
  BY <1>1, <1>2, <1>4
<1>6. /\ ((history.trades - 1) * Lots + history.fills) * Drift
           <= history.trades * Lots * Drift
      /\ ((history.trades - 1) * Lots + history.fills) * Drift \in Int
      /\ history.trades * Lots * Drift \in Nat
  BY <1>1, <1>2, <1>5, AllowedSteps
<1>7. /\ Distance(history.uncharged, history.spared) \in Nat
      /\ Distance(active.collateral, ledger.isolated) \in Nat
  BY <1>2 DEF Distance
<1>8. Distance(history.uncharged, history.spared) <= history.trades * Lots * Drift
  BY <1>3, <1>6, <1>7
<1> QED
  BY <1>2, <1>3, <1>8 DEF Parted

(* What a walk leaves open keeps what it parted; what it gives up parts nothing. *)
LEMMA AgreeLeave ==
  ASSUME Drift \in Nat, NEW Margin \in Nat, NEW Funding \in Nat,
         IInv, AgreeInv(Margin, Funding), Held, NEW mandatory \in BOOLEAN,
         NEW stake, NEW l \in Accounts, NEW h \in Histories,
         stake.quantity > 0, Parted(Margin, Funding, stake, l, h),
         Leave(stake, mandatory, l, h)
  PROVE  AgreeInv(Margin, Funding)'
<1> DEFINE mark       == request.mark
           liquidated == Liquidates(stake, mark)
           next       == IF ~liquidated THEN request
                         ELSE IF mandatory
                                THEN Escalated([reason |-> "Liquidation",
                                                mark |-> mark])
                                ELSE [reason |-> "Liquidation", mark |-> mark]
           forfeit    == Max0(ReferenceEquity(stake, mark))
           settled    == SettleCappedLiquidation(l, forfeit)
           new == [l EXCEPT !.isolated = 0, !.quantity = 0, !.side = "none",
                            !.entry = 0]
<1>1. \/ Fail(settled.error)
      \/ /\ settled.error = "none"
         /\ Close("Liquidation", FALSE)
         /\ ledger' = settled.ledger
         /\ history' = [h EXCEPT !.seized = @ + l.isolated]
      \/ /\ state' = IF liquidated \/ mandatory THEN "MandatoryExit"
                                                ELSE "NormalExit"
         /\ active' = stake /\ request' = next /\ ledger' = l
         /\ history' = h
  BY DEF Leave
<1>2. settled = IF forfeit > Max0(l.isolated) THEN Refuse("excess forfeit")
                ELSE Accept(new)
  BY DEF SettleCappedLiquidation
<1> HIDE DEF forfeit, next, settled, liquidated
<1>3. history.trades >= 1 /\ history.fundings <= MaxFundings
  BY DEF AgreeInv
<1>4. CASE Fail(settled.error)
  BY <1>4, AgreeUntouched DEF Fail, Held
<1>5. CASE /\ settled.error = "none"
           /\ Close("Liquidation", FALSE)
           /\ ledger' = settled.ledger
           /\ history' = [h EXCEPT !.seized = @ + l.isolated]
  <2>1. ledger' = new
    <3>1. Refuse("excess forfeit").error # "none"
      BY DEF Refuse
    <3>2. Accept(new).ledger = new
      BY AcceptedOnly
    <3> QED
      BY <1>2, <1>5, <3>1, <3>2
  <2>2. /\ ~Held' /\ active'.collateral = 0 /\ ledger'.isolated = 0
        /\ history'.trades = history.trades /\ history'.fundings = history.fundings
        /\ history'.uncharged = h.uncharged /\ history'.spared = h.spared
    BY <1>5, <2>1 DEF Close, Held, NoPosition, Accounts, Histories, Parted
  <2>3. /\ Distance(h.uncharged, h.spared) <= history.trades * Lots * Drift
        /\ Distance(h.uncharged, h.spared) \in Nat
        /\ Distance(0, 0) = 0
    <3>1. h.uncharged \in Nat /\ h.spared \in Nat
      BY DEF Parted
    <3> QED
      BY <3>1 DEF Parted, Distance
  <2>4. 0 <= Margin + history.fundings * Funding
    <3>1. history.fundings \in Nat
      BY DEF IInv, SettlementTypeOK, Histories
    <3>2. history.fundings * Funding \in Nat
      BY <3>1
    <3> QED
      BY <3>2
  <2>5. Allowed' = history.trades * Lots * Drift
    BY <2>2 DEF Allowed
  <2>6. Distance(h.uncharged, h.spared) + 0 = Distance(h.uncharged, h.spared)
    BY <2>3
  <2> QED
    BY <1>3, <2>2, <2>3, <2>4, <2>5, <2>6 DEF AgreeInv
<1>6. CASE /\ state' = IF liquidated \/ mandatory THEN "MandatoryExit"
                                                  ELSE "NormalExit"
           /\ active' = stake /\ request' = next /\ ledger' = l
           /\ history' = h
  <2>1. Held'
    BY <1>6 DEF Held
  <2>2. Allowed' = ((h.trades - 1) * Lots + h.fills) * Drift
    BY <1>6, <2>1 DEF Allowed
  <2> QED
    BY <1>3, <1>6, <2>1, <2>2 DEF AgreeInv, Parted
<1> QED
  BY <1>1, <1>4, <1>5, <1>6

(* Every walk of an exit keeps the two accounts together. *)
LEMMA AgreeExit ==
  ASSUME Drift \in Nat, NEW Margin \in Nat, NEW Funding \in Nat,
         DriftCovers(Margin, Funding), IInv, AgreeInv(Margin, Funding), Held,
         NEW walk \in ExitWalks, NEW mandatory \in BOOLEAN,
         ExecuteExit(walk, mandatory)
  PROVE  AgreeInv(Margin, Funding)'
<1> DEFINE capped   == Caps(active, walk)
           left     == Reduced(active, walk)
           forfeit  == IF capped THEN active.collateral ELSE None
           settled  == IF walk.filled = 0 THEN Accept(ledger)
                       ELSE SettleExit(walk, forfeit)
           loss     == IF capped THEN -Residual(active, walk) ELSE 0
           spared   == Max0(-Settled(ledger, walk).residual)
           h == IF walk.filled = 0 THEN history
                ELSE [history EXCEPT !.fills = @ + 1, !.uncharged = @ + loss,
                                     !.spared = @ + spared]
<1>1. IF capped /\ active.collateral < 0 THEN Fail("negative collateral")
      ELSE IF settled.error # "none" THEN Fail(settled.error)
      ELSE IF left.quantity > 0 THEN Leave(left, mandatory, settled.ledger, h)
      ELSE /\ Close(request.reason, capped)
           /\ ledger' = settled.ledger
           /\ history' = h
           /\ UNCHANGED failure
  BY DEF ExecuteExit
<1>2. /\ ledger \in Accounts /\ history \in Histories /\ active \in Positions
      /\ ledger.quantity \in Nat \ {0}
      /\ active.quantity = ledger.quantity
      /\ walk \in Walks(ledger.quantity, Opposite(active.side))
      /\ walk.filled \in 0 .. ledger.quantity
  <2>1. ledger.quantity \in Nat \ {0}
    BY SettlementAssumption
       DEF IInv, SettlementTypeOK, SamePosition, Accounts, SettlementAssumption
  <2> QED
    BY <2>1, WalkType DEF IInv, SettlementTypeOK, SamePosition, ExitWalks
<1>3. ASSUME settled.error = "none"
      PROVE  /\ Parted(Margin, Funding, left, settled.ledger, h)
             /\ settled.ledger \in Accounts /\ h \in Histories
             /\ settled.ledger.quantity = left.quantity
             /\ settled.ledger.quantity = 0 => settled.ledger.isolated = 0
  <2>1. CASE walk.filled = 0
    <3>1. settled = Accept(ledger) /\ h = history /\ left = active
      BY <2>1 DEF Reduced
    <3>2. settled.ledger = ledger
      BY <3>1, AcceptedOnly
    <3> QED
      BY <1>2, <3>1, <3>2, AgreeUnfilled
  <2>2. CASE walk.filled > 0
    <3>1. /\ settled = SettleExit(walk, forfeit)
          /\ h = [history EXCEPT !.fills = @ + 1, !.uncharged = @ + loss,
                                 !.spared = @ + spared]
      BY <1>2, <2>2
    <3>2. /\ loss \in Nat /\ left.quantity = active.quantity - walk.filled
      BY ReducedType
    <3>3. spared \in Nat /\ Exited(settled.ledger, walk.filled, spared)
      <4> HIDE DEF forfeit
      <4> QED
        BY <1>2, <1>3, <2>2, <3>1, ExitBalance
    <3>4. Parted(Margin, Funding, left, settled.ledger, h)
      <4> HIDE DEF forfeit, h
      <4>1. SettleExit(walk, forfeit).error = "none"
        BY <1>3, <3>1
      <4>2. Parted(Margin, Funding, left, SettleExit(walk, forfeit).ledger, h)
        BY <2>2, <3>1, <4>1, AgreeFill
      <4> QED
        BY <3>1, <4>2
    <3>5. h \in Histories
      <4> HIDE DEF loss, spared, h
      <4>1. /\ history.fills + 1 \in Nat /\ history.uncharged + loss \in Nat
            /\ history.spared + spared \in Nat
        BY <1>2, <3>2, <3>3 DEF Histories
      <4> QED
        BY <1>2, <3>1, <4>1 DEF Histories
    <3> HIDE DEF settled, h, left, spared
    <3> QED
      BY <1>2, <3>2, <3>3, <3>4, <3>5 DEF Exited
  <2> QED
    BY <1>2, <2>1, <2>2
<1>4. left.quantity \in Nat
  BY <1>2, ReducedType
<1> HIDE DEF settled, h, left, capped
<1>5. CASE Fail("negative collateral")
  BY <1>5, AgreeUntouched DEF Fail, Held
<1>6. CASE Fail(settled.error)
  BY <1>6, AgreeUntouched DEF Fail, Held
<1>7. CASE /\ settled.error = "none" /\ left.quantity > 0
           /\ Leave(left, mandatory, settled.ledger, h)
  BY <1>3, <1>7, AgreeLeave
<1>8. CASE /\ settled.error = "none" /\ ~(left.quantity > 0)
           /\ Close(request.reason, capped)
           /\ ledger' = settled.ledger /\ history' = h /\ UNCHANGED failure
  <2>1. /\ ~Held' /\ active'.collateral = 0
    BY <1>8 DEF Close, Held, NoPosition
  <2>2. ledger'.isolated = 0 /\ Parted(Margin, Funding, left, settled.ledger, h)
    BY <1>3, <1>4, <1>8
  <2>3. /\ h.trades = history.trades /\ h.fundings = history.fundings
        /\ h.uncharged \in Nat /\ h.spared \in Nat
        /\ Distance(h.uncharged, h.spared) <= h.trades * Lots * Drift
    BY <2>2 DEF Parted
  <2>4. Allowed' = h.trades * Lots * Drift
    BY <1>8, <2>1 DEF Allowed
  <2>5. Distance(h.uncharged, h.spared) \in Nat /\ Distance(0, 0) = 0
    BY <2>3 DEF Distance
  <2>6. 0 <= Margin + history.fundings * Funding
    <3>1. history.fundings \in Nat
      BY <1>2 DEF Histories
    <3>2. history.fundings * Funding \in Nat
      BY <3>1
    <3> QED
      BY <3>2
  <2>7. Distance(h.uncharged, h.spared) + 0 = Distance(h.uncharged, h.spared)
    BY <2>5
  <2>8. history.fundings <= MaxFundings
    BY DEF AgreeInv
  <2> QED
    BY <1>8, <2>1, <2>2, <2>3, <2>4, <2>5, <2>6, <2>7, <2>8 DEF AgreeInv
<1> QED
  BY <1>1, <1>5, <1>6, <1>7, <1>8, Zenon

(* The invariant of the two accounts is inductive. *)
LEMMA AgreeNext ==
  ASSUME Drift \in Nat, NEW Margin \in Nat, NEW Funding \in Nat,
         DriftCovers(Margin, Funding), IInv, AgreeInv(Margin, Funding),
         [Next]_vars
  PROVE  AgreeInv(Margin, Funding)'
<1>1. ASSUME NEW side \in {"Long", "Short"}, NEW walk \in Walks(Lots, side),
             Enter(side, walk)
      PROVE  AgreeInv(Margin, Funding)'
  BY <1>1, AgreeEnter
<1>2. ASSUME NEW mark \in Prices, NEW reason \in {"none", "Strategy"},
             ObserveMark(mark, reason)
      PROVE  AgreeInv(Margin, Funding)'
  <2>1. Held /\ Held' /\ UNCHANGED <<active, ledger, history>>
    <3>1. \A r, m : StartMandatory(r, m) => state' = "MandatoryExit"
      BY DEF StartMandatory
    <3> QED
      BY <1>2, <3>1 DEF ObserveMark, Held
  <2> QED
    BY <2>1, AgreeUntouched
<1>3. ASSUME NEW mark \in Prices, NEW rate \in Rates, ApplyFunding(mark, rate)
      PROVE  AgreeInv(Margin, Funding)'
  BY <1>3, AgreeFunding
<1>4. CASE AdvanceTime
  BY <1>4, AgreeUntouched DEF AdvanceTime, Held
<1>5. CASE NormalWalk
  BY <1>5, AgreeExit DEF NormalWalk, Held
<1>6. CASE ExpiredWalk
  BY <1>6, AgreeExit DEF ExpiredWalk, Held
<1>7. CASE MandatoryWalk
  BY <1>7, AgreeExit DEF MandatoryWalk, Held
<1>8. CASE UNCHANGED vars
  BY <1>8, AgreeUntouched DEF vars, Held
<1> QED
  BY <1>1, <1>2, <1>3, <1>4, <1>5, <1>6, <1>7, <1>8 DEF Next

(* Broker and ledger agree to within Drift digits a fill, for every Drift that
   covers the margins and fundings the prices and rates allow. *)
THEOREM AccountsAgree ==
  ASSUME Drift \in Nat, NEW Margin \in Nat, NEW Funding \in Nat,
         DriftCovers(Margin, Funding)
  PROVE  Spec => []BrokerAndLedgerAgree
<1>1. Init => AgreeInv(Margin, Funding)
  BY AgreeInit
<1>2. IInv /\ AgreeInv(Margin, Funding) /\ [Next]_vars => AgreeInv(Margin, Funding)'
  BY AgreeNext
<1>3. IInv /\ AgreeInv(Margin, Funding) => BrokerAndLedgerAgree
  <2> SUFFICES ASSUME IInv, AgreeInv(Margin, Funding) PROVE BrokerAndLedgerAgree
    OBVIOUS
  <2>1. SamePosition /\ history \in Histories /\ FlatIsFree
    BY DEF IInv, SettlementTypeOK
  <2>2. CASE Held
    <3>1. Parted(Margin, Funding, active, ledger, history)
      BY <2>2, AgreeUnfilled
    <3>2. Distance(active.collateral, ledger.isolated) <= history.fills * Drift
      BY <2>2 DEF AgreeInv
    <3> QED
      BY <2>1, <3>1, <3>2 DEF Parted, BrokerAndLedgerAgree
  <2>3. CASE ~Held
    <3>1. active.collateral = 0 /\ ledger.isolated = 0
      BY <2>1, <2>3, SettlementAssumption
         DEF AgreeInv, SamePosition, FlatIsFree, IInv, SettlementTypeOK, Accounts,
             SettlementAssumption
    <3>2. /\ history.fills \in Nat /\ history.uncharged \in Nat
          /\ history.spared \in Nat
      BY <2>1 DEF Histories
    <3>3. Distance(0, 0) = 0 /\ history.fills * Drift \in Nat
      BY <3>2 DEF Distance
    <3>4. Distance(history.uncharged, history.spared) + 0
            <= history.trades * Lots * Drift
      BY <2>3, <3>1, <3>3 DEF AgreeInv, Allowed
    <3>5. Distance(history.uncharged, history.spared) + 0
            = Distance(history.uncharged, history.spared)
      BY <3>2 DEF Distance
    <3> QED
      BY <2>1, <3>1, <3>3, <3>4, <3>5 DEF BrokerAndLedgerAgree
  <2> QED
    BY <2>2, <2>3
<1> QED
  BY <1>1, <1>2, <1>3, Inductive, PTL DEF Spec
=============================================================================
