SPECIFICATION Spec
CONSTANTS
    r1 = r1
    r2 = r2
    None = None
    Sessions <- TwoSessions
    Readers = {r1}
    Provider = "aliyun"
    Segmented = TRUE
    ClosesStream = TRUE
    SilenceLimit = 1
    Capacity = 1
    ErrCapacity = 1
    MaxFrames <- ThreeFrames
    MaxResults = 2
INVARIANTS
    AllReleased
PROPERTIES
    FeedsResults
CHECK_DEADLOCK FALSE
