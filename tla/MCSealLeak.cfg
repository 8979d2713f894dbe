SPECIFICATION ServiceSpec
CONSTANTS
  Preferences <- MCPreferences
  MaxSessions = 2
  MaxIntents = 2
  MaxRestarts = 1
INVARIANT
  BackoffSealed
CHECK_DEADLOCK FALSE
