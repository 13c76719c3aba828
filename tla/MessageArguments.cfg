SPECIFICATION MessageSpec
CONSTANTS
  Pointers <- MCPointers
  Requests <- OneRequest
  ClassPointers <- MCSpecial
  Segments = 2
  SegmentWords = 8
  BigSize = 4
  HugeSize = 6
  StickyCount = 3
  ActiveContext = 2
  InitialClass = 1
  ContextLength = 2
  MayCollect = TRUE
  ChunksPlain = TRUE
  MaxFreeWords = 10
INVARIANTS
  NoDangling
