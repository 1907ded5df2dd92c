SPECIFICATION FairSpec
CONSTANTS
  Workers = {w1, w2, w3}
  Blocks = 2
  a = a
  b = b
  Vars = {a, b}
  Kernels <- MCKernels
  None = None
INVARIANTS OwnIndex NoRaceOnAccelerator NoRaceOnSharedMem SharedVarsAgree BlocksEndTogether
PROPERTIES KernelCompletes
CHECK_DEADLOCK FALSE
