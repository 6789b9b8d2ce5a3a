CONSTANTS
  CustomersNum = 2
  Demand <- MCDemand
  Cost <- MCCost
  MaxEmptyRoutes = 1
  FullCircleReversals = FALSE
  MaxLiveRoutes = 3
  VehicleCapacity = 2
SPECIFICATION Spec
INVARIANT AcceptedRespectsCapacity
