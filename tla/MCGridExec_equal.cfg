SPECIFICATION Spec
CONSTANTS
  Workers = {w1, w2}
  MaxExtent = 4
  Dims = {2}
  Inputs <- MCInputs
  LaunchBound = 4
  Required = TRUE
INVARIANT ValidWorkDiv
CHECK_DEADLOCK FALSE
