SPECIFICATION FairSpec
CONSTANTS
  Files <- MCLongFiles
  PointerBytes = 8
  ElementBytes = 4
  MaxCalls = 0
INVARIANT ReadAsWritten
CHECK_DEADLOCK FALSE
