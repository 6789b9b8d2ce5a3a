CONSTANTS
  Objects = {a, b}
  Capacity = 3
  Items = {1, 2, 3}
  Initializers <- MCInitializers
SPECIFICATION Spec
INVARIANT TypeOK
PROPERTY RefinesValueStack
