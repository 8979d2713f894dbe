SPECIFICATION FairNetSpec
CONSTANTS
  Conns = {c1}
  MaxUnits = 3
  AppQueue = 1
  SocketBuf = 2
INVARIANTS
  NetTypeOK
  NothingLost
PROPERTIES
  OpenIsAnswered
  GoneIsFreed
CHECK_DEADLOCK FALSE
