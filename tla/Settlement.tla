----------------------------- MODULE Settlement -----------------------------
(***************************************************************************)
(* The money of one position: the isolated collateral the paper broker     *)
(* keeps (ActivePosition), the cash and collateral the ledger keeps        *)
(* (LedgerState), and the engine that hands every broker record to the     *)
(* ledger (apply_broker_transition).  The two keep the same account with   *)
(* arithmetic of their own, and a record the ledger refuses ends the       *)
(* engine.  When a mark, a book or a tick is admitted, and in which band   *)
(* an exit walks, is the subject of Broker.                                *)
(*                                                                         *)
(* Amounts and prices are decimals with a fixed number of digits: integers *)
(* in units of 1 / Scale.  A quotient is rounded to the last digit, sums   *)
(* and whole multiples are exact.  Quantities are whole lots.              *)
(***************************************************************************)
EXTENDS Integers

CONSTANTS
  Lots,              \* quantity of an approved order
  Initial,           \* INITIAL_EQUITY
  Scale,             \* one over the last digit of a decimal
  Leverage,          \* of the approved order
  FeeRate,           \* taker fee of protocol and builder, per ten thousand
  MaintenanceRate,   \* of the only maintenance tier, per ten thousand
  MinimumNotional,   \* BrokerConfig::minimum_notional
  Prices,            \* prices of marks and book levels
  Rates,             \* funding rates, per ten thousand
  StopDistance, TargetDistance,   \* of an order from its entry price
  MaxTrades, MaxFundings          \* bounds of the environment

ASSUME SettlementAssumption ==
  /\ Lots \in Nat \ {0} /\ Initial \in Nat
  /\ Scale \in Nat \ {0} /\ Leverage \in Nat \ {0}
  /\ FeeRate \in Nat /\ MaintenanceRate \in Nat /\ MinimumNotional \in Nat
  /\ Prices \subseteq Nat /\ Rates \subseteq Int
  /\ \A price \in Prices : price > Scale   \* a unit below it is a price
  /\ StopDistance \in Nat /\ TargetDistance \in Nat
  /\ MaxTrades \in Nat /\ MaxFundings \in Nat

VARIABLES
  state,     \* PaperBroker.state; an entry is queued and filled in one step
  active,    \* PaperBroker.position
  request,   \* the normal or mandatory exit in force, with its mark
  ledger,    \* LedgerState
  failure,   \* the error that ended the engine, or "none"
  history    \* what the properties compare the account with

vars == <<state, active, request, ledger, failure, history>>

NoPosition == [side |-> "none", quantity |-> 0, entry |-> 0, collateral |-> 0]
NoRequest  == [reason |-> "none", mark |-> 0]
None == -1

----------------------------------------------------------------------------
(* Decimals                                                                *)

\* Division rounds to the nearest digit, and to the even one of two.
Quotient(a, b) ==
  LET q == a \div b
      r == a % b
  IN  IF 2 * r > b \/ (2 * r = b /\ q % 2 = 1) THEN q + 1 ELSE q

Product(a, b) == Quotient(a * b, Scale)
Min0(a) == IF a < 0 THEN a ELSE 0
Max0(a) == IF a > 0 THEN a ELSE 0

FeeOf(value) == Quotient(value * FeeRate, 10000)

\* Of a position, and of the taker who buys into it.
Sign(side) == IF side = "Long" THEN 1 ELSE -1
Opposite(side) == IF side = "Long" THEN "Short" ELSE "Long"

(* What a walk takes from the visible levels: all lots at one price, or the
   last of them one unit of price worse for the taker. *)
Walks(lots, side) ==
  {[filled |-> n, value |-> n * price] : n \in 0 .. lots, price \in Prices}
    \cup {[filled |-> n, value |-> n * price + Sign(side) * Scale] :
            n \in 2 .. lots, price \in Prices}
Vwap(walk) == Quotient(walk.value, walk.filled)

Gain(position, price, lots) ==
  Sign(position.side) * (price - position.entry) * lots

----------------------------------------------------------------------------
(* The broker's position                                                   *)

ReferenceEquity(position, mark) ==
  position.collateral + Gain(position, mark, position.quantity)

MaintenanceMargin(position, mark) ==
  Quotient(position.quantity * mark * MaintenanceRate, 10000)

(* The mark is at or beyond the price at which the equity is what maintenance
   asks for: in one tier, the equity at the mark is at most the maintenance
   margin at the mark.  A long whose equity covers it whole has no such price,
   which counts as beyond it. *)
Liquidates(position, mark) ==
  \/ ReferenceEquity(position, mark) <= MaintenanceMargin(position, mark)
  \/ /\ position.side = "Long"
     /\ ReferenceEquity(position, mark) >= position.quantity * mark

NeedsBackstop(position, mark) ==
  ReferenceEquity(position, mark)
    < Quotient(2 * MaintenanceMargin(position, mark), 3)

Opened(side, walk) ==
  [side |-> side, quantity |-> walk.filled, entry |-> Vwap(walk),
   collateral |-> Quotient(walk.value, Leverage)]

\* The collateral behind the lots that remain, before any cap.
Residual(position, walk) ==
  LET allocated == Quotient(position.collateral * walk.filled, position.quantity)
      realized  == Gain(position, Vwap(walk), walk.filled)
  IN  position.collateral - allocated + Min0(allocated + realized)

\* settle_partial_exit: a loss beyond the collateral is capped.
Caps(position, walk) == walk.filled > 0 /\ Residual(position, walk) < 0

\* The loss of the lots sold is not kept.
ReducedVariant(position, walk) ==
  [position EXCEPT
     !.quantity = @ - walk.filled,
     !.collateral = @ - Quotient(@ * walk.filled, position.quantity)]

Reduced(position, walk) ==
  IF walk.filled = 0 THEN position
  ELSE [position EXCEPT
          !.quantity = @ - walk.filled,
          !.collateral = Max0(Residual(position, walk))]

Severity(reason) ==
  CASE reason = "Liquidation" -> 3
    [] reason = "Stop" -> 2
    [] reason = "Dust" -> 1
    [] OTHER -> 0

\* start_mandatory: a cause replaces one in force only when it is worse.
Escalated(new) ==
  IF state = "MandatoryExit" /\ Severity(new.reason) <= Severity(request.reason)
    THEN request ELSE new

----------------------------------------------------------------------------
(* The ledger                                                              *)

\* A transition the ledger accepts, or the error it refuses it with.
Accept(l) == [error |-> IF l.cash + l.isolated < 0 THEN "negative equity"
                                                   ELSE "none",
              ledger |-> l]
Refuse(error) == [error |-> error, ledger |-> ledger]

\* The fee is not part of the trade.
OpenPositionVariant(side, walk) ==
  LET margin == Quotient(Vwap(walk) * walk.filled, Leverage)
      fee    == FeeOf(walk.value)
  IN  Accept([ledger EXCEPT
        !.cash = @ - margin - fee, !.isolated = margin,
        !.side = side, !.quantity = walk.filled, !.entry = Vwap(walk),
        !.cashflow = -margin, !.fees = @ + fee])

OpenPosition(side, walk) ==
  LET margin == Quotient(Vwap(walk) * walk.filled, Leverage)
      fee    == FeeOf(walk.value)
  IN  IF ledger.cash < margin + fee THEN Refuse("insufficient cash")
      ELSE Accept([ledger EXCEPT
             !.cash = @ - margin - fee, !.isolated = margin,
             !.side = side, !.quantity = walk.filled, !.entry = Vwap(walk),
             !.cashflow = -(margin + fee), !.fees = @ + fee])

ApplyFundingTo(l, amount) ==
  Accept([l EXCEPT !.isolated = @ - amount,
                   !.paid = @ + Max0(amount), !.received = @ - Min0(amount)])

\* A loss beyond the part is taken from free cash.
SettledVariant(l, walk) ==
  LET fraction  == Quotient(walk.filled * Scale, l.quantity)
      allocated == Product(l.isolated, fraction)
      gross     == Gain(l, Vwap(walk), walk.filled)
  IN  [released |-> allocated + gross, residual |-> l.isolated - allocated,
       gross |-> gross]

(* settle_exit: the part of the collateral that belongs to the fill is
   released with its gain or loss; a loss beyond it is taken from the rest,
   and one beyond the rest needs the broker's forfeit. *)
Settled(l, walk) ==
  LET fraction  == Quotient(walk.filled * Scale, l.quantity)
      allocated == Product(l.isolated, fraction)
      gross     == Gain(l, Vwap(walk), walk.filled)
  IN  [released |-> Max0(allocated + gross),
       residual |-> l.isolated - allocated + Min0(allocated + gross),
       gross |-> gross]

\* A capped loss stays in the collateral.
SettleExitVariant(walk, forfeit) ==
  LET s    == Settled(ledger, walk)
      fee  == FeeOf(walk.value)
      left == ledger.quantity - walk.filled
  IN  Accept([ledger EXCEPT
        !.cash = @ + s.released - fee,
        !.isolated = IF left = 0 THEN 0 ELSE s.residual,
        !.quantity = left,
        !.side = IF left = 0 THEN "none" ELSE @,
        !.entry = IF left = 0 THEN 0 ELSE @,
        !.cashflow = @ + s.released - fee,
        !.realized = @ + s.gross,
        !.fees = @ + fee])

SettleExit(walk, forfeit) ==
  LET s    == Settled(ledger, walk)
      fee  == FeeOf(walk.value)
      left == ledger.quantity - walk.filled
      due  == IF s.residual < 0 THEN Max0(ledger.isolated) ELSE None
  IN  IF due # None /\ forfeit = None THEN Refuse("capped liquidation required")
      ELSE IF due # forfeit THEN Refuse("invalid forfeit")
      ELSE IF ledger.cash + s.released - fee < 0 THEN Refuse("insufficient cash")
      ELSE Accept([ledger EXCEPT
             !.cash = @ + s.released - fee,
             !.isolated = IF left = 0 THEN 0 ELSE Max0(s.residual),
             !.quantity = left,
             !.side = IF left = 0 THEN "none" ELSE @,
             !.entry = IF left = 0 THEN 0 ELSE @,
             !.cashflow = @ + s.released - fee,
             !.realized = @ + s.gross,
             !.fees = @ + fee])

SettleCappedLiquidation(l, forfeit) ==
  IF forfeit > Max0(l.isolated) THEN Refuse("excess forfeit")
  ELSE Accept([l EXCEPT !.isolated = 0, !.quantity = 0, !.side = "none",
                        !.entry = 0])

----------------------------------------------------------------------------
(* The engine                                                              *)

NoHistory == [trades |-> 0, fundings |-> 0, fills |-> 0, cashBefore |-> Initial,
              uncharged |-> 0, spared |-> 0, seized |-> 0]

Init ==
  /\ state = "Flat" /\ active = NoPosition /\ request = NoRequest
  /\ ledger = [cash |-> Initial, isolated |-> 0, side |-> "none",
               quantity |-> 0, entry |-> 0, cashflow |-> 0, realized |-> 0,
               fees |-> 0, paid |-> 0, received |-> 0]
  /\ failure = "none" /\ history = NoHistory

Running == failure = "none"
Held == state \in {"Open", "NormalExit", "MandatoryExit"}

\* An error of the broker or the ledger gives up the engine's state.
Fail(cause) ==
  /\ failure' = cause
  /\ UNCHANGED <<state, active, request, ledger, history>>

StartMandatory(reason, mark) ==
  /\ state' = "MandatoryExit"
  /\ request' = Escalated([reason |-> reason, mark |-> mark])

(* apply_entry_arbitration and the first later book: execute_entry.  A walk
   that fills nothing cancels the order. *)
Enter(side, walk) ==
  LET position == Opened(side, walk)
      opened   == OpenPosition(side, walk)
  IN  /\ Running /\ state = "Flat" /\ history.trades < MaxTrades
      /\ walk.filled > 0
      /\ IF opened.error # "none" THEN Fail(opened.error)
         ELSE /\ active' = position
              /\ ledger' = opened.ledger
              /\ IF walk.value < MinimumNotional
                   THEN StartMandatory("Dust", position.entry)
                 ELSE IF Liquidates(position, position.entry)
                   THEN StartMandatory("Liquidation", position.entry)
                 ELSE state' = "Open" /\ UNCHANGED request
              /\ history' = [history EXCEPT !.trades = @ + 1, !.fills = 1,
                                            !.cashBefore = ledger.cash]
              /\ UNCHANGED failure

MarkedReason(mark) ==
  LET distance == Sign(active.side) * (mark - active.entry)
  IN  CASE Liquidates(active, mark) -> "Liquidation"
        [] ~Liquidates(active, mark) /\ -distance >= StopDistance -> "Stop"
        [] ~Liquidates(active, mark) /\ -distance < StopDistance
             /\ state = "Open" /\ distance >= TargetDistance -> "TakeProfit"
        [] OTHER -> "none"

(* observe_mark and, when the mark leaves the position open, the exit a
   strategy asked for at it (apply_exit_request). *)
ObserveMark(mark, reason) ==
  LET cause == IF MarkedReason(mark) = "none" THEN reason ELSE MarkedReason(mark)
  IN  /\ Running /\ Held
      /\ MarkedReason(mark) # "none" \/ (reason # "none" /\ state = "Open")
      /\ IF Severity(cause) > 0 THEN StartMandatory(cause, mark)
           ELSE /\ state' = "NormalExit"
                /\ request' = [reason |-> cause, mark |-> mark]
      /\ UNCHANGED <<active, ledger, failure, history>>

(* apply_funding of the broker, then of the ledger. *)
ApplyFunding(mark, rate) ==
  LET amount == Sign(active.side)
                  * Quotient(active.quantity * mark * rate, 10000)
      funded == [active EXCEPT !.collateral = @ - amount]
      booked == ApplyFundingTo(ledger, amount)
  IN  /\ Running /\ Held /\ history.fundings < MaxFundings
      /\ IF booked.error # "none" THEN Fail(booked.error)
         ELSE /\ active' = funded
              /\ ledger' = booked.ledger
              /\ IF Liquidates(funded, mark) THEN StartMandatory("Liquidation", mark)
                   ELSE UNCHANGED <<state, request>>
              /\ history' = [history EXCEPT !.fundings = @ + 1]
              /\ UNCHANGED failure

\* advance_time: an expired normal exit turns mandatory.
AdvanceTime ==
  /\ Running /\ state = "NormalExit"
  /\ state' = "MandatoryExit"
  /\ UNCHANGED <<active, request, ledger, failure, history>>

Close(reason, capped) ==
  /\ state' = IF reason = "Liquidation" \/ capped THEN "Liquidated" ELSE "Flat"
  /\ active' = NoPosition /\ request' = NoRequest

(* What a walk leaves open.  Below its margin it is to be liquidated; a
   liquidation that already walked and leaves too little behind it gives the
   rest up (needs_backstop, settle_capped_liquidation). *)
Leave(position, mandatory, l, h) ==
  LET mark       == request.mark
      liquidated == Liquidates(position, mark)
      new        == [reason |-> "Liquidation", mark |-> mark]
      next       == IF ~liquidated THEN request
                    ELSE IF mandatory THEN Escalated(new) ELSE new
      forfeit    == Max0(ReferenceEquity(position, mark))
      settled    == SettleCappedLiquidation(l, forfeit)
  IN  IF mandatory /\ request.reason = "Liquidation"
           /\ NeedsBackstop(position, mark)
      THEN IF settled.error # "none" THEN Fail(settled.error)
           ELSE /\ Close("Liquidation", FALSE)
                /\ ledger' = settled.ledger
                /\ history' = [h EXCEPT !.seized = @ + l.isolated]
                /\ UNCHANGED failure
      ELSE /\ state' = IF liquidated \/ mandatory THEN "MandatoryExit"
                                                ELSE "NormalExit"
           /\ active' = position /\ request' = next /\ ledger' = l
           /\ history' = h
           /\ UNCHANGED failure

(* execute_exit, and the engine's pairing of the fill with the loss the broker
   reports beside it. *)
ExecuteExit(walk, mandatory) ==
  LET capped   == Caps(active, walk)
      left     == Reduced(active, walk)
      settled  == IF walk.filled = 0 THEN Accept(ledger)
                  ELSE SettleExit(walk, IF capped THEN active.collateral ELSE None)
      loss     == IF capped THEN -Residual(active, walk) ELSE 0
      residual == Settled(ledger, walk).residual
      h == IF walk.filled = 0 THEN history
           ELSE [history EXCEPT !.fills = @ + 1, !.uncharged = @ + loss,
                                !.spared = @ + Max0(-residual)]
  IN  IF capped /\ active.collateral < 0 THEN Fail("negative collateral")
      ELSE IF settled.error # "none" THEN Fail(settled.error)
      ELSE IF left.quantity > 0 THEN Leave(left, mandatory, settled.ledger, h)
      ELSE /\ Close(request.reason, capped)
           /\ ledger' = settled.ledger
           /\ history' = h
           /\ UNCHANGED failure

\* What a book may sell or buy back of the lots that are left.
ExitWalks == Walks(active.quantity, Opposite(active.side))

NormalWalk ==
  /\ Running /\ state = "NormalExit"
  /\ \E walk \in ExitWalks : ExecuteExit(walk, FALSE)

\* A book behind the grace of a normal exit walks it as a mandatory one.
ExpiredWalk ==
  /\ Running /\ state = "NormalExit"
  /\ \E walk \in ExitWalks : ExecuteExit(walk, TRUE)

MandatoryWalk ==
  /\ Running /\ state = "MandatoryExit"
  /\ \E walk \in ExitWalks : ExecuteExit(walk, TRUE)

Next ==
  \/ \E side \in {"Long", "Short"} : \E walk \in Walks(Lots, side) :
       Enter(side, walk)
  \/ \E mark \in Prices, reason \in {"none", "Strategy"} : ObserveMark(mark, reason)
  \/ \E mark \in Prices, rate \in Rates : ApplyFunding(mark, rate)
  \/ AdvanceTime
  \/ NormalWalk
  \/ ExpiredWalk
  \/ MandatoryWalk

Spec == Init /\ [][Next]_vars
=============================================================================
