SPECIFICATION FairSpec
CONSTANTS
  Short = 1
  Hour = 2
  Markets = {A, B}
  ChannelCapacity = 1
  ResultCapacity = 1
  PendingCapacity = 1
  QueueCapacity = 2
  RetainedTrades = 1
  Traded = {A}
  VenueForgets = TRUE
  MaxTime = 2
  MaxTrades = 2
  MaxRequests = 2
  MaxEpochs = 2
INVARIANTS
  RecoveryTypeOK
  AnswersFollowRequests
  EvidenceIsKept
  FinalBarsStayFinal
PROPERTIES
  LoneRequestsAreAnswered
CHECK_DEADLOCK FALSE
