SPECIFICATION MCSpec
CONSTANTS
  Tasks = {"t1", "t2"}
  Submitted = "t1"
  Past = {"COMPLETED"}
  EndStates = {"COMPLETED"}
  MaxPrompts = 0
  MaxLog = 2
  MaxShown = 1
  Tabs = {"logs"}
  MaxPages = 2
CONSTRAINT WireBound
INVARIANTS
  ConsoleIsFaithful
  SettledIsStored
  DashboardIsSound
  ChartsAreFaithful
  SavedSettingsRun
  PollingIsSound
PROPERTIES
  OperatorIsObeyed
CHECK_DEADLOCK FALSE
