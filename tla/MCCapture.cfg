SPECIFICATION FairCaptureSpec
CONSTANTS
  VenueMarkets = {1, 2, 3, 4}
  MaxVolume = 2
  MaxBatch = 2
  ScopeLimit = 3
  RequestCapacity = 1
  ResultCapacity = 1
  MaxFaults = 2
CHECK_DEADLOCK FALSE
INVARIANTS
  SingleFlight
PROPERTIES
  EveryMarketIsStored
