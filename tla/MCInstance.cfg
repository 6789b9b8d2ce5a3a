SPECIFICATION FairSpec
CONSTANTS
  Files <- MCFiles
  PointerBytes = 8
  ElementBytes = 4
  MaxCalls = 2
INVARIANTS TypeOK ReadAsWritten IntactAccepted InstanceSound ReverseInverse
PROPERTY ConstructorReturns
CHECK_DEADLOCK FALSE
