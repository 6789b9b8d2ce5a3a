CONSTANTS
  CustomersNum = 2
  Demand <- MCDemand
  Cost <- MCCost
  MaxEmptyRoutes = 1
  FullCircleReversals = FALSE
  MaxLiveRoutes = 2
SPECIFICATION BoundedCopySpec
VIEW View
INVARIANTS CostsExact CumulativeLoadsExact
PROPERTY RefinesCopies
