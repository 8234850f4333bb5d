SPECIFICATION Spec
CONSTANTS
  Markets = {1, 2, 3}
  TradeableLimit = 2
  WarmLimit = 3
  Bar = 2
  Candidates <- Looks
  Edges = {3, 6}
  Costs = {2, 4}
  MaxApprovals = 2
  MaxTime = 16
  MaxSignals = 3
INVARIANTS
  BestEdgeWins
  ApprovalsEndWithTheArbitration
PROPERTY EntriesAreRankedAndFit
CHECK_DEADLOCK FALSE
