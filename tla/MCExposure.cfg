CONSTANTS
  buy = buy
  again = again
  sell = sell
  Grid = 1
  Tolerance = 0
  MinimumCandles = 100
  Orders = {buy, again, sell}
  Plan <- ThreeOrders
  SlippagePrice = 1
  CommissionPerLot = 1
  MinimumLot = 1
  FillPercent = 50
  BreakEvenOffset = 0
  FillLatency = 0
  Bids = {1, 22}
  Spread = 1
  ExpiresAfter = 2
  QuoteMaxAge = 1
  RiskMaxAge = 2
  RiskCaps = {8}
  SwapRate = 1
  SwapUnit = 1
  QuoteAges = {0}
  BodyDelays = {0}
  MaxRequests = 1
  MaxClock = 2
  MaxSetbacks = 0
  MaxFaults = 1
SPECIFICATION Spec
INVARIANTS
  BooksAgree
  OneExposurePerSide
PROPERTIES
  OnlyStagingAddsRisk
CHECK_DEADLOCK FALSE
