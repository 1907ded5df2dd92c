SPECIFICATION PhiloxSpec
CONSTANTS
  Base = 4
  Inputs <- WithOffset
  MaxDraws = 20
INVARIANT OffsetSkipsNumbers
CHECK_DEADLOCK FALSE
