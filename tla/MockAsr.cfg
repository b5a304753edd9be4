SPECIFICATION Spec
CONSTANTS
    r1 = r1
    r2 = r2
    None = None
    Sessions <- TwoSessions
    Readers = {r1, r2}
    Provider = "mock"
    Segmented = FALSE
    ClosesStream = FALSE
    SilenceLimit = 1
    Capacity = 1
    ErrCapacity = 1
    MaxFrames <- TwoAndOne
    MaxResults = 0
INVARIANTS
    TypeOK
    NoOrphan
    NeverPanics
PROPERTIES
    FeedsResults
    ReaderReturns
    ForwarderEnds
CHECK_DEADLOCK FALSE
