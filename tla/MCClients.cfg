CONSTANTS
  CustomersNum = 5
  Demand <- MCDemand
  Cost <- MCCost
  MaxEmptyRoutes = 0
  FullCircleReversals = FALSE
  VehicleCapacity = 6
  Neighbors <- MCNeighbors
  NeighborsNum = 2
  Lambda = 1
  SolutionFiles <- MCSolutionFiles
  MaxCalls = 3
SPECIFICATION ClientsSpec
INVARIANTS CapacityRespected EveryoneServed ResultAccepted NothingLeftToMerge CumulativeLoadsExact LoadedAsWritten
PROPERTY CallsReturn
CHECK_DEADLOCK FALSE
