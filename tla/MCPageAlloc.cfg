SPECIFICATION PagesSpec
CONSTANTS
  TotalPages = 8
  BitmapRange = {2}
  HeapRange = {3}
  Handles = {h1, h2, h3}
  RunLengths = {0, 1, 2, 4}
  Aligned <- FittingAligned
SYMMETRY HandleSymmetry
INVARIANTS
  PagesOK
  InsideRam
PROPERTIES
  OomIsReal
