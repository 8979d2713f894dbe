SPECIFICATION FairCoreSpec
CONSTANTS
  Starters = {t1, t2}
  Stoppers = {s1, s2}
  NoSession = none
INVARIANTS
  CoreTypeOK
  OneSession
  ReadyIsSomeones
  EmitsWhileAlive
PROPERTIES
  StopHonoured
  ImplementsSlot
CHECK_DEADLOCK FALSE
