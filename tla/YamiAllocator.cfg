SPECIFICATION Spec
CONSTANTS
  AreaSize = 36
  HeaderSize = 5
  SmallestSplit = 8
  Requests = {1, 5}
CHECK_DEADLOCK FALSE
INVARIANTS OnlyFreeOnList
