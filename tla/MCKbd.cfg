SPECIFICATION FairSpec
CONSTANTS
  QUEUE_SIZE = 2
  QUEUE_NUM_MAX = 3
  U16 = 4
  Kinds <- AllKinds
  MaxEvents = 6
INVARIANTS
  QueueOK
  CharsExact
PROPERTIES
  Drains
CHECK_DEADLOCK FALSE
