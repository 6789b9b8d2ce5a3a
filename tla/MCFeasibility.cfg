CONSTANTS
  CustomersNum = 3
  Demand <- MCDemand
  Cost <- MCCost
  MaxEmptyRoutes = 2
  FullCircleReversals = FALSE
  MaxLiveRoutes = 4
  VehicleCapacity = 4
SPECIFICATION Spec
VIEW View
INVARIANTS LeftoversReset RouteListSound PoolSuffices VerdictExact
