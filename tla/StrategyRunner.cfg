\* Short windows, so that they fill and roll.  A stack of four cells: Deep needs
\* five.  A run ends when the ticks do.
CONSTANTS
  StackCap = 4
  FastPeriod = 2
  SlowPeriod = 4
  Lookback = 2
  Window = 3
  Weights <- MCWeights
  Threshold = 3
  Cooldown = 3
  MaxPosition = 1
  PositionDelta = 1
  Sources <- MCSources
  TickPrices <- MCPrices
  FixedTicks = 9
SPECIFICATION Spec
INVARIANTS TypeOK AcceptsWellFormed ProgramBalanced RunsTheGraph SignalsExact CooldownKept WantedIsTraded
CHECK_DEADLOCK FALSE
