CONSTANTS
  Period = 1
  Window = 2
  SettleDelay = 0
  Skew = 0
  QuoteMaxAge = 1
  RefreshAfter = 1
  ProbeEvery = 1
  CandleMaxAge = 1
  MaxNow = 3
  MaxFaults = 1
SPECIFICATION FairSpec
INVARIANTS
  TypeOK
  HolesWereMissed
  MarkedWasScanned
  RememberedRowIsStored
PROPERTIES
  ScansMoveForward
  ClosesAreScanned
CHECK_DEADLOCK FALSE
