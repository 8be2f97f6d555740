CONSTANTS
  OrderIds = {1, 2, 11, 12, 13, 14, 15, 16}
  SynIds = {11, 12, 13, 14, 15, 16}
  TrackedIds = {1, 2}
  MinPrice = 0
  MaxPrice = 3
  MaxQty = 2
  None = None
  Capacity = 2
  Quotes <- MCQuotes
  QuoteSizes = {1}
  CrossSizes = {1}
  PrimeRounds = 1
  MaxRounds = 2
  MarketNotify = FALSE
  Settings <- PassiveTwo
  MaxPosition = 2
  OrderQty = 2
  PositionDelta = 2
SPECIFICATION Spec
INVARIANT TerminalIsFinal
