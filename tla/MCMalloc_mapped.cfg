SPECIFICATION Spec
CONSTANTS
  HeaderSize = 2
  HeapStarts = {1}
  Sizes = {0, 1, 3}
  SIZE_MAX = 15
  MaxBreak = 14
  SbrkLimit = 8
INVARIANT HeldMapped
CHECK_DEADLOCK FALSE
