CONSTANTS
  Markets = {m1, m2}
  Scopes = {{}, {m1}, {m1, m2}}
  MaxRetries = 1
  BatchCapacity = 2
  OutCapacity = 2
  MaxAge = 1
  Delayed = {m2}
  MaxLatency = 2
  Bar = 2
  MaxTime = 5
  MaxEpoch = 2
SPECIFICATION Spec
INVARIANT PendingGapsAreFenced
PROPERTIES GapsCloseOnTheirOwnEvidence ExecutionIsFencedAndOrdered EpochsRestart
CHECK_DEADLOCK FALSE
