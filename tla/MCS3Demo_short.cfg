CONSTANTS
    Paths <- MCPaths
    BufSize = 2
    ObjSizes <- MCObjSizes
    WriteMb = 2
    Faults = FALSE
    ShortReads = TRUE
SPECIFICATION Spec
INVARIANT EofCheckHolds
CHECK_DEADLOCK FALSE
