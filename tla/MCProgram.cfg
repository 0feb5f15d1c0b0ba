SPECIFICATION Spec
CONSTANTS
  MaxInput = 4
  BUFFER_SZ = 2
  Broken = {FALSE}
  Content = {"a", "b", "null"}
  MaxSize = 4
  Growth = 1
  Procs = {p1, p2}
  MaxBytes = 4
  ZeroWrites = FALSE
  MaxOffset = 4
  DataBytes = 3
  RandomOffset = 7
  Chars = {x, y}
  SSIZE_MAX = 3
  UIO_MAXIOV = 2
  MaxIovs = 3
  MaxLen = 2
  INT_MAX = 7
  LONG_MAX = 31
  Q1_MAX_NUM_ALLOCS = 4
  Typed <- TypedNumbers
  NotNumber = NotNumber
  UserNames = {root, daemon, other}
  BadNames = {null}
  MaxUsers = 3
  TypedPrefixes = {"", "chpt", "chapter"}
  Args = {"-a", "path", "long", "5", "0"}
  LongArgs = {"long"}
  NumberArgs = {"5"}
  ZeroArgs = {"0"}
  MaxArgs = 3
  Errnos = {0, 2, 5}
  MaxPrints = 2
  MaxCalls = 2
  MaxFd = 9
  Files = {std, tmp}
  Std = std
  Tmp = tmp
  Names = {SHELL, MY_SWEET, MY_NOT_SO_SWEET, OLDPWD, somevariable}
  Values = {empty, bin_sh, eKlkl, FortyTwo}
  Empty = empty
  Unset = Unset
  NoName = NoName
  MaxInherited = 2
  SHELL = SHELL
  MY_SWEET = MY_SWEET
  MY_NOT_SO_SWEET = MY_NOT_SO_SWEET
  OLDPWD = OLDPWD
  somevariable = somevariable
  bin_sh = bin_sh
  eKlkl = eKlkl
  FortyTwo = FortyTwo
INVARIANTS
  TypeOK TeeOutputs SparseCopied NullsAreHoles DeliveredOnce FilesAsWritten
  GatheredAndScattered RangeFreed UsersFound DispatchedAsTyped MessagesInOrder
  TestsPassAsStarted
PROPERTY Ends
CHECK_DEADLOCK FALSE
