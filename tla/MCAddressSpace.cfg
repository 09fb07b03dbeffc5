SPECIFICATION Spec
CHECK_DEADLOCK FALSE
CONSTANTS
  Procs = {1, 2}
  Frames <- SomeFrames
  Objs <- SomeObjs
  Boots <- SomeBoots
  PROC_VA_MB = 2
  L2_ENTRIES = 2
  StackPages <- Stack
  Images <- AllImages
  Vals = {0, 1}
  ImageVal = 1
  MaxDirty = 1
INVARIANTS
  Accounted
PROPERTIES
  Private
  ForkCopies
  FailureHarmless
