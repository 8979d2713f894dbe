SPECIFICATION FairServiceSpec
CONSTANTS
  Preferences <- MCPreferences
  MaxSessions = 2
  MaxIntents = 2
  MaxRestarts = 1
PROPERTY
  StaysOff
CHECK_DEADLOCK FALSE
