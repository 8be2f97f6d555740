CONSTANTS
  OrderIds = {1, 2, 11, 12, 13, 14, 15, 16}
  SynIds = {11, 12, 13, 14, 15, 16}
  MinPrice = 1
  MaxPrice = 3
  MaxQty = 2
  None = None
  Capacity = 1
  Quotes <- MCQuotes
  QuoteSizes = {1}
  CrossSizes = {1}
  PrimeRounds = 1
  MaxRounds = 2
  MarketNotify = FALSE
  MaxCommands = 2
  OrderQtys = {2}
SPECIFICATION Spec
INVARIANTS TypeOK LiveExact TopIsCurrent ReportsComplete ExecutedWithinOrdered
PROPERTIES CommandsHandled
