SPECIFICATION Spec
CONSTANTS
  Chars = {x, y}
  SSIZE_MAX = 3
  UIO_MAXIOV = 2
  MaxIovs = 1
  MaxLen = 5
INVARIANT RefusedExactly
CHECK_DEADLOCK FALSE
