SPECIFICATION Spec
CONSTANTS
  MaxFd = 3
  Files = {f1, f2, f3}
INVARIANT RacedOnly
PROPERTIES OthersKept ContractSpec
CHECK_DEADLOCK FALSE
