CONSTANTS
  Publishers = {p1}
  Subscribers = {s1}
  Threads = {w1, w2}
  QueueCapacity = 1
  ReplayCapacity = 2
  SubscriberCapacity = 2
  MaxEvents = 3
  MaxStreams = 1
  Impatient = {s1}
SPECIFICATION SafetySpec
INVARIANTS
  InOrder
CHECK_DEADLOCK FALSE
