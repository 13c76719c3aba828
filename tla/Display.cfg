\* forms of 7 by 3 and 4 by 2 pixels on a screen of 10 by 5
SPECIFICATION Spec
INVARIANTS DrawnAsAsked CopiesReachScreen
CONSTANTS
    W = 3
    NilPointer = NilPointer
    Wide = Wide
    Small = Small
    Forms <- MCForms
    InitialForms <- MCInitialForms
    AllRequests <- MCAllRequests
    Requests <- MCRequests
    Scans <- MCScans
    Extents <- MCExtents
    Cursors <- MCCursors
    MousePositions <- MCMousePositions
    MaxEvents = 6
    XTable <- MCXTable
    StopCharacters = {3}
    SnapshotHeight = 1
    ScreenWidth = 10
    ScreenHeight = 5
\* Events are bounded, so the system stops.
CHECK_DEADLOCK FALSE
