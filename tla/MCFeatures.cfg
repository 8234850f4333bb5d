SPECIFICATION Spec
CONSTANTS
  Short = 2
  Hour = 4
  Micro = 1
  Markets = {1}
  Kinds = {"trade", "context", "bbo", "candle"}
  Ids = {1, 2}
  PointIds = {1}
  Times = {0, 1, 2, 4}
  Receipts = {1, 2, 4}
  EventLimit <- FewOfEach
  EventHorizon = 1
  AggregateLimit = 2
  CandleLimit <- OneBar
  CandleHorizon = 1
  SampleLimit <- OneBar
  Lookback = 1
  MaxMarkets = 1
  TradeHorizon = 1
  MaxPending = 2
  MaxEvents = 4
  Digest <- SomeDigest
INVARIANTS
  FeaturesTypeOK
  TradeWindowsAreExact
  PointsAreLatestOrPruned
  SamplesAreLatest
  ForgottenStaysOut
PROPERTIES
  LaterNeverChangesADecision
CHECK_DEADLOCK FALSE
