SPECIFICATION Spec
CONSTANTS
  Names = {a, b, c}
  Values = {empty, v}
  Empty = empty
  Unset = Unset
  NoName = NoName
  MaxInherited = 3
PROPERTIES ContractSpec EntriesKept
CHECK_DEADLOCK FALSE
