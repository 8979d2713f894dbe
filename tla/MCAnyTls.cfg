SPECIFICATION FairAnySpec
CONSTANTS
  Callers = {c1, c2}
  MaxSessions = 2
  MaxStreams = 2
  MaxOpens = 2
  MinIdle = 1
INVARIANTS
  AnyTypeOK
  OneUser
  ClosedSessionIsEmpty
PROPERTIES
  DeadSessionFreesStreams
CHECK_DEADLOCK FALSE
