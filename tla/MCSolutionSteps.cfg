CONSTANTS
  CustomersNum = 2
  Demand <- MCDemand
  Cost <- MCZeroCost
  MaxEmptyRoutes = 1
  FullCircleReversals = TRUE
  MaxLiveRoutes = 3
SPECIFICATION BoundedStepsSpec
VIEW StepsView
INVARIANTS TypeOK RouteRings CumulativeLoadsExact
PROPERTIES RefinesTours ChangesTracked
