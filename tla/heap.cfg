CONSTANTS
  PAGE_SIZE = 80
  HEADER_SIZE = 16
  RESERVED = 1
  TOTAL = 4
  MAPPED = 3
  Requests <- MCRequests
SPECIFICATION FairSpec
INVARIANTS TypeOK Tiled UsedIffOwned Aligned CopyFits
PROPERTIES NoBlockMissed CoalescedOnReturn CallReturns ImplementsAllocator
