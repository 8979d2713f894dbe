SPECIFICATION FairServiceSpec
CONSTANTS
  Preferences <- MCPreferences
  MaxSessions = 2
  MaxIntents = 3
  MaxRestarts = 1
INVARIANTS
  ServiceTypeOK
  ConnectedIsSomeones
PROPERTIES
  LatchSettles
  UnsealedDropComesBack
CHECK_DEADLOCK FALSE
