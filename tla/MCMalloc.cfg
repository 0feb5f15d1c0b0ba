SPECIFICATION Spec
CONSTANTS
  HeaderSize = 2
  HeapStarts = {1}
  Sizes = {0, 1, 3}
  SIZE_MAX = 15
  MaxBreak = 16
  SbrkLimit = 8
INVARIANTS TypeOK Tiling MinimumSize Coalesced HeldUsable NeighbourLinks FreeListSorted LastAllocExact SearchInv WalkInv
PROPERTIES WritesOnlyHeaders FirstFitSpec ContractSpec CallsReturn
CHECK_DEADLOCK FALSE
