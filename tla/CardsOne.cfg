CONSTANTS
  Supplies = {"d1", "d2"}
  Switchable = {"d1"}
  Queued = {"d1"}
  Presets = {{"A", "B"}, {"B"}}
  Slots = {"1:LOW", "1:HIGH"}
  Values = {"x", "y"}
  MaxWire = 2
  MaxTrips = 1
SPECIFICATION Spec
INVARIANTS
  LoadingEnds
  ShownIsDevice
  NothingTwice
CHECK_DEADLOCK FALSE
