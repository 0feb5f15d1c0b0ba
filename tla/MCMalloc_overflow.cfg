SPECIFICATION Spec
CONSTANTS
  HeaderSize = 2
  HeapStarts = {1}
  Sizes = {0, 1, 3, 15}
  SIZE_MAX = 15
  MaxBreak = 14
  SbrkLimit = 14
INVARIANT MinimumSize
CHECK_DEADLOCK FALSE
