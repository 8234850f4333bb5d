CONSTANTS
  Markets = {sol}
  BatchCapacity = 2
  MaxAge = 1
  Bar = 1
  Latencies = {1, 2, 4}
  FundingTimes = {0}
  CaptureTimes = {2, 3, 5}
  MaxGaps = 2
  MaxTime = 7
  MaxStarts = 3
SPECIFICATION Spec
INVARIANTS SourceBeforeJournal NothingLostOrTwice ExecutedOnEvidence
PROPERTIES RestoredIsLived OrderlyStopsRestart ImplementsDurableLedger
CHECK_DEADLOCK FALSE
