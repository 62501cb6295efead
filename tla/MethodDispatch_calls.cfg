SPECIFICATION FairSpec
CONSTANTS
  d1 = d1
  d2 = d2
  d3 = d3
  Classes = {d1, d2, d3}
  Order <- MCOrder
  Methods = {m1, m2}
  Object = Object
  None = None
  MaxDepth = 4
  MaxCalls = 2
INVARIANTS VirtualNearest NoNullCall BaseFromOwnClass
PROPERTY LookupEnds
CHECK_DEADLOCK FALSE
