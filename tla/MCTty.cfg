SPECIFICATION FairSpec
CONSTANTS
  LINE_BUF_SIZE = 4
  U32 = 8
  Keys <- AllKeys
  Ops <- AllOps
  MaxArgs = {2, 5}
  MaxTyped = 6
  MaxCalls = 2
INVARIANTS
  TypeOK
  InOrder
  CleanLines
PROPERTIES
  NewlineWakes
CHECK_DEADLOCK FALSE
