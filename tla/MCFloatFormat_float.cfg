CONSTANTS
    DoubleBits = 11
    FloatBits = 14
    Binades <- MCBinades
    NotRun = NotRun
SPECIFICATION Spec
INVARIANT FloatRoundTrips
CHECK_DEADLOCK FALSE
