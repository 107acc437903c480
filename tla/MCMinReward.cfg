CONSTANTS
  Grid = 3
  Tolerance = 6
  MinimumCandles = 100
SPECIFICATION Spec
INVARIANTS
  TwoRIsEnough
CHECK_DEADLOCK FALSE
