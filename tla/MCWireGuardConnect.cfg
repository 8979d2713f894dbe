SPECIFICATION FairWgSpec
CONSTANTS
  Peers = {p1, p2}
  NoPeer = NoPeer
  MaxCandidates = 2
  MaxSessions = 2
  Rungs = 3
INVARIANTS
  WgTypeOK
  RestsAfterTwo
  HintIsProven
PROPERTIES
  WgServesAgain
CHECK_DEADLOCK FALSE
