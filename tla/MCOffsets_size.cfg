SPECIFICATION Spec
CONSTANTS
  MaxOffset = 4
  DataBytes = 3
  RandomOffset = 7
INVARIANT SizeAsExplained
CHECK_DEADLOCK FALSE
