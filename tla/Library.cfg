CONSTANTS
    COLS = 8
    OFFSET = 4
    MaxFrame = 4
    MemSize = 12
    MaxNumber = 40
    NameLen = 3
    MaxLine = 5
    MaxFile = 7
    BUFSIZE = 4
    NEWLINE = 10
    Text = {97, 98}
    NULL = NULL
SPECIFICATION Spec
INVARIANTS
    LibraryExact
    ArgsArrive
    GrepFinds
    FramesMerged
CHECK_DEADLOCK FALSE
