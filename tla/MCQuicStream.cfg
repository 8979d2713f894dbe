SPECIFICATION FairQuicSpec
CONSTANTS
  MaxBytes = 3
  MaxFrame = 2
  MaxFlight = 2
  MaxFaults = 2
  Window = 2
  MaxWindow = 4
INVARIANTS
  QuicTypeOK
  HonestPeersAgree
  NoByteForgotten
  CreditReturns
PROPERTIES
  ImplementsByteStream
  DataArrives
CHECK_DEADLOCK FALSE
