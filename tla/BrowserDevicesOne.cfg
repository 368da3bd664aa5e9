SPECIFICATION Spec
CONSTANTS
  MaxClicks = 2
  MaxLosses = 2
  MaxDrops = 1
  AutoConnect = TRUE
CHECK_DEADLOCK FALSE
INVARIANTS
  AttemptsAreBounded
  IdentityOfThisConnection
  ShownDisconnectedIsClosed
PROPERTIES
  ManualDisconnectHolds
