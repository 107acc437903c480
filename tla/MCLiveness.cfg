CONSTANTS
  buy = buy
  again = again
  sell = sell
  Grid = 1
  Tolerance = 0
  MinimumCandles = 100
  Orders = {buy}
  Plan <- OneOrder
  SlippagePrice = 1
  CommissionPerLot = 1
  MinimumLot = 1
  FillPercent = 50
  BreakEvenOffset = 0
  FillLatency = 0
  Bids = {9, 17}
  Spread = 1
  ExpiresAfter = 1
  QuoteMaxAge = 1
  RiskMaxAge = 1
  RiskCaps = {4}
  SwapRate = 0
  SwapUnit = 1
  QuoteAges = {0}
  BodyDelays = {0}
  MaxRequests = 2
  MaxClock = 2
  MaxSetbacks = 1
  MaxFaults = 1
SPECIFICATION FairSpec
PROPERTIES
  WorkingOrdersEnd
  PaperOffCancels
CHECK_DEADLOCK FALSE
