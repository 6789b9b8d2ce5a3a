CONSTANTS
  CustomersNum = 2
  Demand <- MCDemand
  Cost <- MCZeroCost
  MaxEmptyRoutes = 1
  FullCircleReversals = FALSE
  MaxLiveRoutes = 3
SPECIFICATION Spec
PROPERTY ChangesComplete
