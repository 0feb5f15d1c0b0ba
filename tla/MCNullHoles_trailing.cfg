SPECIFICATION Spec
CONSTANTS
  Content = {"a", "b", "null"}
  MaxSize = 5
  BUFFER_SZ = 3
INVARIANT ReadsTheSame
CHECK_DEADLOCK FALSE
