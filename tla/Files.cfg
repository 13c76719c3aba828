SPECIFICATION FilesSpec
CONSTANTS
  Names = {u, v, w}
  UserNames = {u, v, w}
  PosixFiles = {p, q, r}
  Bytes = {1}
  MAX_OPEN_FILES = 2
  PageSize = 1
  MaxPages = 2
  CardPages = 3
  NoFile = NoFile
  NO_FIL = NO_FIL
  NilPointer = NilPointer
  Undefined = Undefined
INVARIANTS
  HandlesOwned FoundUnlessFull
PROPERTY
  RenameKeepsFile
SYMMETRY Alike
