SPECIFICATION Spec
CONSTANTS
  Names = {img, new, u}
  ImageNames = {img, new}
  BootName = img
  UserNames = {u}
  PosixFiles = {p}
  Bytes = {4}
  MAX_OPEN_FILES = 1
  PageSize = 4
  MaxPages = 1
  CardPages = 13
  NoFile = NoFile
  NO_FIL = NO_FIL
  NilPointer = NilPointer
  Undefined = Undefined
  ObjectTableSize = 12
  HeapSegmentCount = 2
  HeapSpaceStop = 8
  HugeSize = 5
  BigSize = 4
  NonPointer = 99
  Memories <- MCMemories
  BootModes = {1, 2}
  BufferSize = 24
  BuiltInLength = 10
INVARIANTS
  SavedImageLoads NoHalfImage LoadTilesHeap
