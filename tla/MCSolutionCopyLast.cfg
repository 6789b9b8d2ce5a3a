CONSTANTS
  CustomersNum = 2
  Demand <- MCDemand
  Cost <- MCCost
  MaxEmptyRoutes = 1
  FullCircleReversals = FALSE
  MaxLiveRoutes = 3
SPECIFICATION BoundedCopySpec
PROPERTY CopiesEveryRoute
