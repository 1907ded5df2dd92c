SPECIFICATION FairSpec
CONSTANTS
  Workers = {w1, w2}
  Blocks = 1
  a = a
  b = b
  Vars = {a, b}
  Kernels <- MCKernels
  None = None
PROPERTIES AlwaysCompletes
CHECK_DEADLOCK FALSE
