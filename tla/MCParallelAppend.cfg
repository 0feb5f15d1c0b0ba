SPECIFICATION Spec
CONSTANTS
  Procs = {p1, p2, p3}
  Old = Old
  OldBytes = 1
  NumBytes = 2
INVARIANTS NothingLost OldThenInOrder AtLeastEachShare
PROPERTY AllEnd
CHECK_DEADLOCK FALSE
