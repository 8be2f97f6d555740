\* The composite strategy, beside a graph that is not read to the end.
CONSTANTS
  StackCap = 4
  FastPeriod = 2
  SlowPeriod = 4
  Lookback = 2
  Window = 3
  Weights <- MCWeights
  Threshold = 3
  Cooldown = 3
  MaxPosition = 1
  PositionDelta = 1
  Sources <- OneSource
  TickPrices <- CalmPrices
  FixedTicks = 7
SPECIFICATION Spec
INVARIANT SameSideSpaced
CHECK_DEADLOCK FALSE
