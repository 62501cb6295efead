SPECIFICATION FairSpec
CONSTANTS
  h1 = h1
  h2 = h2
  h3 = h3
  untyped = untyped
  tnum = tnum
  s1 = s1
  s2 = s2
  x = x
  m = m
  Types = {h1, h2, h3}
  Order <- MCOrder
  Attributes = {x}
  Methods = {m}
  Signatures = {s1, s2}
  ParamLists <- MCParamLists
  Blank = untyped
  Object = Object
  Illegal = Illegal
  None = None
  Programs <- MCPrograms
INVARIANTS HierarchyGrounded CyclesCutOnce MethodsResolve AttributesNearest SignaturesKept AcceptedIsLegal
PROPERTY Completes
CHECK_DEADLOCK FALSE
