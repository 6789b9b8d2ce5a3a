CONSTANTS
  CustomersNum = 2
  Demand <- MCDemand
  Cost <- MCCost
  MaxEmptyRoutes = 1
  FullCircleReversals = TRUE
  MaxLiveRoutes = 3
SPECIFICATION Spec
INVARIANT CostsExact
