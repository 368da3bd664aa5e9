CONSTANTS
  Tasks = {t1, t2, t3}
  PoolSize = 1
  QueueCapacity = 1
  MaxResults = 1
  ListLimit = 3
  MaxCompleted = 1
  MaxInputs = 0
  MaxCrashes = 0
  MaxFaults = 0
SPECIFICATION SafetySpec
INVARIANTS
  ActiveRecordIsExplained
PROPERTIES
  RetentionKeepsRecent
CONSTRAINTS
  OneSubmission
  QuietScripts
  AtMostOneCancel
  NothingEvicted
SYMMETRY TaskSymmetry
CHECK_DEADLOCK FALSE
