CONSTANTS
  RiskMaxAge = 1
  SnapshotInterval = 2
  HeartbeatMaxAge = 1
  NewsRefresh = 1
  NewsMaxAge = 2
  TickLength = 1
  DailyLossLimit = 1
  Environments <- OneByOne
  MaxLoss = 1
  MaxFaults = 2
SPECIFICATION FairSpec
INVARIANTS
  TypeOK
PROPERTIES
  EntriesFollowATick
  EntriesRespectDrawdown
  EntriesAvoidNews
  ReadyAgain
CHECK_DEADLOCK FALSE
