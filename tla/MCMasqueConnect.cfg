SPECIFICATION FairMasqueSpec
CONSTANTS
  MaxCandidates = 3
  MaxSessions = 2
INVARIANTS
  MasqueTypeOK
  RefusalsBounded
  FailsOnlyRefused
PROPERTIES
  PinnedSecondChance
  H3Recovers
CHECK_DEADLOCK FALSE
