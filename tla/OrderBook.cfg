\* Four orders: two that queue at one price, one at the next, and the taker that
\* walks them.  No symmetry: the refinement and the termination of submit are
\* checked with their fairness.
CONSTANTS
  OrderIds = {o1, o2, o3, o4}
  MinPrice = 1
  MaxPrice = 2
  MaxQty = 2
  None = None
SPECIFICATION BookSpec
INVARIANTS BookTypeOK BookUncrossed LocateExact NoEmptyLevels CachedSizeExact FillsAccount SubmitInProgress
PROPERTIES QueuePosition SubmitReturns ImplementsPriceTimePriority
