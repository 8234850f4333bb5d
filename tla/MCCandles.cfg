SPECIFICATION Spec
SYMMETRY Symmetry
CONSTANTS
  Short = 1
  Hour = 2
  Markets = {A, B}
  Ids = {1, 2, 3}
  Times = {0, 1, 2}
  Receipts = {0}
  Prices = {1, 2}
  FinalizedHorizon = 1
  MaxPending = 2
  MaxGaps = 1
INVARIANTS
  CandlesAreTheirTrades
  NoCandleOverAGap
PROPERTIES
  ReturnedOnceAndForAll
