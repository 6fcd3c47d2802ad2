CONSTANTS
    W <- MCW
    S <- MCS
    NotRun = NotRun
SPECIFICATION Spec
CHECK_DEADLOCK FALSE
INVARIANT RoundTripInverse
