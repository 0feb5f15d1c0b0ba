SPECIFICATION TestSpec
CONSTANTS
  HeaderSize = 40
  HeapStarts = {1, 16, 4096}
  Sizes = {0, 1, 40, 80}
  SIZE_MAX = 65535
  MaxBreak = 5000
  SbrkLimit = 5000
INVARIANT AsAsserted
PROPERTY Exits
CHECK_DEADLOCK FALSE
