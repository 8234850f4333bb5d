\* Two positions of three lots; two prices a stop, a target or a liquidation apart.
SPECIFICATION Spec
CONSTANTS
  Lots = 3
  Initial = 10000
  Scale = 100
  Leverage = 5
  FeeRate = 100
  MaintenanceRate = 500
  MinimumNotional = 2050
  Prices = {1600, 2010}
  Rates <- BothWays
  StopDistance = 300
  TargetDistance = 5
  MaxTrades = 2
  MaxFundings = 1
  Drift = 4
\* The engine ends with an error, and trades are bounded.
CHECK_DEADLOCK FALSE
INVARIANTS
  MoneyIsConserved
  TradesAreJudgedByCash
  BrokerAndLedgerAgree
PROPERTIES
  CashIsIsolated
