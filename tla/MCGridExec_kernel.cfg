SPECIFICATION Spec
CONSTANTS
  Workers = {w1, w2}
  MaxExtent = 4
  Dims = {1, 2, 3}
  Inputs <- MCInputs
  LaunchBound = 4
  Required = FALSE
INVARIANTS ValidWorkDiv EveryElementOnce
CHECK_DEADLOCK FALSE
