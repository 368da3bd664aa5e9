CONSTANTS
  Callers = {c1, c2}
  Managers = {m1, m2}
  MaxRequests = 3
  MaxSessions = 2
SPECIFICATION SafetySpec
INVARIANTS
  OwnReply
CHECK_DEADLOCK FALSE
