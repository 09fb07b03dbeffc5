SPECIFICATION Spec
CONSTANTS
  DTB_MAX_NODES = 5
  DTB_MAX_PROPS = 12
  MEMORY_MAX = 3
  W = 10400
  PAGE_WORDS = 100
  HEADER_SIZE = 10
  FIRST_STACK = 4
  NODE_POOL = 5
  PROP_POOL = 6
  EARLY_HEAP_SIZE = 12
  Blobs <- MCBlobs
  Around <- MCAround
  BaseName <- MCBaseName
  MemoryNames <- MCMemoryNames
  SECTION = 8
  KERNEL_SEC = 8
  DEVICE_SEC = 12
  ADDR_PAGES = 104
  TEXT_END = 1
  TT_END = 2
  BSS_END = 3
  EARLY_PAGES = 1
  KHEAP_PAGES = 16
  FB_PAGES = 13
  PAGES_PER_BITMAP = 64
  INIT_PAGES = 1
  MaxUser = 4
CHECK_DEADLOCK FALSE
INVARIANT
  DocImageNotManaged
