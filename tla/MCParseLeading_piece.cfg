CONSTANTS
    N32 <- MCN32
    N64 <- MCN64
    Pieces <- MCPieces
    Tails <- MCTailsDigit
    Deflt = Deflt
    NotRun = NotRun
SPECIFICATION Spec
INVARIANT ReadsOnlyThePiece
CHECK_DEADLOCK FALSE
