CONSTANTS
    W <- MCW
    Inputs <- MCInputs
    Bases <- MCBases
    NotRun = NotRun
SPECIFICATION Spec
INVARIANTS
    ParseMatchesStrtol
CHECK_DEADLOCK FALSE
