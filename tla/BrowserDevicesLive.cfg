SPECIFICATION FairSpec
CONSTANTS
  MaxClicks = 1
  MaxLosses = 1
  MaxDrops = 1
  AutoConnect = TRUE
CHECK_DEADLOCK FALSE
PROPERTIES
  ConnectingEnds
  LossNoticed
  LostDeviceRetried
