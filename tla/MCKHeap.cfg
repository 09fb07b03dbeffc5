SPECIFICATION Spec
CONSTANTS
  KHEAP_BASE = 8
  KHEAP_SIZE = 48
  HDR_SIZE = 3
  KHEAP_ALIGN = 2
  KHEAP_MIN_SPLIT = 8
  META_SIZE = 2
  U32 = 128
  Sizes = {0, 1, 6, 15}
  AlignedSizes <- SomeAligned
  ReallocAligned = FALSE
  MaxLive = 3
INVARIANTS
  BlocksOK
  Coalesced
  LiveInBlock
  Reclaimed
