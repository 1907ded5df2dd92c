SPECIFICATION PhiloxSpec
CONSTANTS
  Base = 4
  Inputs <- MCInputs
  MaxDraws = 72
INVARIANTS Consecutive SubsequencesAreDisjoint
CHECK_DEADLOCK FALSE
