SPECIFICATION FairSpec
CONSTANTS
  SECTOR = 8
  FileLists <- MCFileLists
  Capacity = 24
  SlotTypes <- MCSlotTypes
  IDX = 4
  NAME_BUF = 4
  KNAME = 3
  Words <- MCWords
  UserSectors = {15, 22}
  UserCounts = {0, 2}
  MaxDepth = 3
  VAs = {0, 1, 2, 3, 4, 5, 6, 7}
CHECK_DEADLOCK FALSE
INVARIANTS
  RequestOK
  HeapBalanced
  DirectoryExact
  LoadedExact
PROPERTIES
  PromptReturns
