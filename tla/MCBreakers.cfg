CONSTANTS
  InitialEquity = 200
  Equities = {0, 184, 197, 200, 204}
  Day = 2
  DaysPerWeek = 2
  FirstWeekday = 1
  Cooldown = 3
  MaxEntries = 2
  LossLimit = 2
  MaxTime = 6
  Reconciles = TRUE
SPECIFICATION BreakersSpec
INVARIANTS LossesAreCounted
PROPERTIES BudgetsNeverRefill CooldownHonoured
CHECK_DEADLOCK FALSE
