CONSTANTS
    NotRun = NotRun
    Deflt = Deflt
    NUL = NUL
    Null = Null
    Caller = Caller
    ERANGE = ERANGE
SPECIFICATION Spec
INVARIANTS
    CommasMatchReference
    BufferFits
    TableIndexInRange
    WritesDecimal
    NoSignedOverflow
    ParseMatchesReference
    ComparatorIsStrictWeakOrder
    EqualityMeansSameNumbers
    LongWidthsAgree
    CountsByBaseAndSuffix
    GetReadsWholeObject
    EofCheckHolds
    SafeStrtoAcceptsNumbers
    ParseLeadingDoubleOwnErrno
    DoubleRoundTrips
PROPERTY GetEnds
CHECK_DEADLOCK FALSE
