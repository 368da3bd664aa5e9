SPECIFICATION BackendSpec
CONSTANTS
  Points = 2
  Runs = 2
  Faults = 2
  Block = 2
  Scripts = {"voltage", "current", "accuracy", "sweep", "curve", "dump",
             "read", "ask", "sample", "watch", "operator", "melody"}
  MaxId = 1
  Texts = {"A", "B", "1"}
  Reads <- ReadsOne
  Targets = {"usb", "tcp"}
  Workers = {"w1", "w2"}
  MaxEdits = 3
  RegistryCrashes = 1
  Replies <- FourReplies
  Threshold = 2
  MaxSends = 4
  StoredScripts = {"s1", "s2"}
  MaxVersion = 3
  MaxFaults = 2
  CatalogueCrashes = 1
  Tasks = {"r1", "r2"}
  MaxResults = 1
  ListLimit = 2
  MaxLists = 2
  ResultCrashes = 2
  Versions = {"v1", "v2"}
  Ports = {"p1", "p2"}
  MaxRuns = 3
INVARIANTS
  RegistryIsSound
  RepliesAreOwn
  DiskIsConsistent
  MeasurementsAreTrue
  OffWhenTouched
CHECK_DEADLOCK FALSE
