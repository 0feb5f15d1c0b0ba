SPECIFICATION Spec
CONSTANTS
  MaxInput = 4
  BUFFER_SZ = 2
  Broken = {TRUE}
PROPERTY ReadErrorEnds
CHECK_DEADLOCK FALSE
