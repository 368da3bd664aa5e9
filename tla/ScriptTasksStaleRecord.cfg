CONSTANTS
  Tasks = {t1}
  PoolSize = 1
  QueueCapacity = 1
  MaxResults = 1
  ListLimit = 3
  MaxCompleted = 1
  MaxInputs = 1
  MaxCrashes = 0
  MaxFaults = 0
SPECIFICATION SafetySpec
PROPERTIES
  TerminalRecordKept
CHECK_DEADLOCK FALSE
