CONSTANTS
  RiskMaxAge = 1
  SnapshotInterval = 2
  HeartbeatMaxAge = 1
  NewsRefresh = 1
  NewsMaxAge = 2
  TickLength = 1
  DailyLossLimit = 1
  Environments <- OnlyLosses
  MaxLoss = 1
  MaxFaults = 0
SPECIFICATION Spec
PROPERTIES
  DailyLossStopsEntries
CHECK_DEADLOCK FALSE
