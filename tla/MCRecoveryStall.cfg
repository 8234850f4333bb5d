SPECIFICATION FairSpec
CONSTANTS
  Short = 1
  Hour = 2
  Markets = {A}
  ChannelCapacity = 1
  ResultCapacity = 1
  PendingCapacity = 1
  QueueCapacity = 2
  RetainedTrades = 1
  Traded = {A}
  VenueForgets = FALSE
  MaxTime = 2
  MaxTrades = 1
  MaxRequests = 2
  MaxEpochs = 1
PROPERTIES
  EveryRequestIsAnswered
CHECK_DEADLOCK FALSE
