CONSTANTS
  CustomersNum = 4
  Demand <- MCDemand
  Cost <- MCCost
  MaxEmptyRoutes = 1
  FullCircleReversals = FALSE
  MaxLiveRoutes = 2
SPECIFICATION BoundedSpec
VIEW View
INVARIANTS RouteRings LoadsExact CostsExact
PROPERTIES RefinesTours EditsAsCalled
