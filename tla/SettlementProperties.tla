------------------------ MODULE SettlementProperties ------------------------
(***************************************************************************)
(* What broker and ledger promise about the money of a position.           *)
(***************************************************************************)
EXTENDS Settlement

CONSTANT Drift   \* digits one fill may part the two collaterals by

\* Funding at five per cent of the notional, paid or received.
BothWays == {-500, 500}

Reasons == {"none", "Strategy", "TakeProfit", "Stop", "Dust", "Liquidation"}
Sides == {"none", "Long", "Short"}
Failures == {"none", "insufficient cash", "negative equity",
             "negative collateral", "invalid forfeit", "excess forfeit",
             "capped liquidation required"}

Positions == [side : Sides, quantity : 0 .. Lots, entry : Nat, collateral : Int]
Requests == [reason : Reasons, mark : Nat]
Accounts == [cash : Nat, isolated : Int, side : Sides, quantity : 0 .. Lots,
             entry : Nat, cashflow : Int, realized : Int, fees : Nat,
             paid : Nat, received : Nat]
Histories == [trades : Nat, fundings : Nat, fills : Nat, cashBefore : Nat,
              uncharged : Nat, spared : Nat, seized : Int]

(* The types of PaperBroker, LedgerState and the errors that end the engine;
   free cash and the totals are never negative (Usdc). *)
SettlementTypeOK ==
  /\ state \in {"Flat", "Open", "NormalExit", "MandatoryExit", "Liquidated"}
  /\ active \in Positions /\ request \in Requests /\ ledger \in Accounts
  /\ failure \in Failures /\ history \in Histories

(* Nothing is made or lost: cash and collateral are what the ledger opened
   with and its running totals, up to the losses a liquidation spared it and
   the collateral one took, over any fills, fundings and roundings
   (open_position, apply_funding, settle_exit, settle_capped_liquidation). *)
MoneyIsConserved ==
  ledger.cash + ledger.isolated =
    Initial + ledger.realized - ledger.fees - ledger.paid + ledger.received
      + history.spared - history.seized

(* A position is isolated: while it is held no mark, funding, loss or
   liquidation takes free cash, and a fill takes at most its fee
   (settle_exit: "never free cash"). *)
CashIsIsolated ==
  [][ledger.quantity > 0 =>
       ledger'.cash + ledger'.fees >= ledger.cash + ledger.fees]_vars

(* The trade the breakers count as a win or a loss is the change of free cash
   since before its entry, however many fills, fundings and forfeits it took
   (trade_cashflow, record_closed_trade). *)
TradesAreJudgedByCash ==
  history.trades > 0 => ledger.cashflow = ledger.cash - history.cashBefore

Distance(a, b) == IF a > b THEN a - b ELSE b - a

(* Broker and ledger hold the same position. *)
SamePosition ==
  /\ Held <=> ledger.quantity > 0
  /\ active.side = ledger.side /\ active.quantity = ledger.quantity
  /\ active.entry = ledger.entry

(* Two accounts, one position: broker and ledger agree on its side, size and
   entry, and their collaterals part by no more than the digits their two
   ways of dividing it may differ in, over any sequence of fills and fundings
   (settle_partial_exit, settle_exit). *)
BrokerAndLedgerAgree ==
  /\ SamePosition
  /\ Distance(active.collateral, ledger.isolated) <= history.fills * Drift
  /\ Distance(history.uncharged, history.spared) <= history.trades * Lots * Drift
=============================================================================
