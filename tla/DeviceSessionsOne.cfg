CONSTANTS
  Callers = {c1, c2}
  Managers = {m1}
  MaxRequests = 2
  MaxSessions = 3
SPECIFICATION Spec
INVARIANTS
  OwnReply
  SessionsAreSound
  StaysDisconnected
  ShutSessionIsSilent
PROPERTIES
  RequestEnds
CHECK_DEADLOCK FALSE
