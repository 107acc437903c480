CONSTANTS
  gold = gold
  euro = euro
  Symbols = {gold, euro}
  Timeframes = 1
  QuoteMaxAge = 3
  Cycle = 3
  RefreshTimeout = 1
  MaxFailures = 3
  Delay <- Doubling
  MaxDelay = 3
  SourceAges = {2}
  Confused = {gold}
  Recoverable = {"Biquote"}
SPECIFICATION FairSpec
INVARIANTS
  TypeOK
PROPERTIES
  HealthLasts
  PublishedIsFetched
  RefreshEnds
  FallbackRecovers
CHECK_DEADLOCK FALSE
