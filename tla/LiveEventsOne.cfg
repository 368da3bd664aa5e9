CONSTANTS
  Publishers = {p1, p2}
  Subscribers = {s1}
  Threads = {w1, w2}
  QueueCapacity = 1
  ReplayCapacity = 2
  SubscriberCapacity = 1
  MaxEvents = 2
  MaxStreams = 2
  Impatient = {s1}
SPECIFICATION Spec
INVARIANTS
  NoGap
  DeliveryIsSound
PROPERTIES
  OpenSubscriptionCompletes
CHECK_DEADLOCK FALSE
