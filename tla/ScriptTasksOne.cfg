CONSTANTS
  Tasks = {t1}
  PoolSize = 1
  QueueCapacity = 1
  MaxResults = 1
  ListLimit = 3
  MaxCompleted = 1
  MaxInputs = 2
  MaxCrashes = 1
  MaxFaults = 1
SPECIFICATION Spec
INVARIANTS
  TypeOK
  EndsOnce
  OutcomeIsKept
  InputIsSound
  ActiveRecordIsExplained
PROPERTIES
  RunnerKeepsContract
  AcceptedTaskEnds
  InterruptedTaskRecovered
CHECK_DEADLOCK FALSE
