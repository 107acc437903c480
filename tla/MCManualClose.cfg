CONSTANTS
  buy = buy
  again = again
  sell = sell
  Grid = 1
  Tolerance = 0
  MinimumCandles = 100
  Orders = {buy}
  Plan <- OneOrder
  SlippagePrice = 1
  CommissionPerLot = 1
  MinimumLot = 1
  FillPercent = 50
  BreakEvenOffset = 0
  FillLatency = 0
  Bids = {7, 9, 17}
  Spread = 1
  ExpiresAfter = 2
  QuoteMaxAge = 1
  RiskMaxAge = 2
  RiskCaps = {4}
  SwapRate = 1
  SwapUnit = 1
  QuoteAges = {0}
  BodyDelays = {0, 1}
  MaxRequests = 2
  MaxClock = 2
  MaxSetbacks = 0
  MaxFaults = 0
SPECIFICATION Spec
INVARIANTS
  RealizedMatchesLedger
CHECK_DEADLOCK FALSE
