SPECIFICATION Spec
CONSTANTS
  Oops <- MCOops
  SegmentWords = 21
  BigSize = 4
  HugeSize = 5
  StickyCount = 3
  MethodClass = 10
  NonPointer = 99
  Starts <- MCStarts
INVARIANTS
  HeapRecoverable AgreesWithObjectMemory
PROPERTY
  WalkEnds
