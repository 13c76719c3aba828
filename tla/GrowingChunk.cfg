SPECIFICATION Spec
CONSTANTS
  Pointers <- MCPointers
  Requests <- SmallRequests
  ClassPointers <- MCSpecial
  Segments = 2
  SegmentWords = 9
  BigSize = 4
  HugeSize = 5
  StickyCount = 3
  ActiveContext = 2
  InitialClass = 1
  ContextLength = 1
  MayCollect = TRUE
  ChunksPlain = FALSE
  MaxFreeWords = 12
INVARIANTS
  HeapTiled
