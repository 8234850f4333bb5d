CONSTANTS
  OrderQuantity = 2
  MinimumNotional = 2
  MaximumBookAge = 1
  NormalExitGrace = 2
  AsOfDelays = {0, 1}
  SpreadBands = {0, 5}
  EventIds = {0, 1}
  MaxTime = 4
SPECIFICATION Spec
PROPERTIES MandatoryNeverDowngraded
  EveryFillOnItsOwnLaterBook GraceNeverRestarted ImplementsLifecycle
