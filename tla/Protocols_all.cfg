SPECIFICATION Spec
CONSTANT Sources <- MCSources
INVARIANTS
  ConformsIsLargest
  CommonAncestorBounds
CHECK_DEADLOCK FALSE
