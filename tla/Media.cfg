SPECIFICATION MediaSpec
CONSTANTS
    Samples <- EverySample
    MaxPackets = 4
    MaxSize = 5
    t1 = t1
    t2 = t2
    k1 = k1
    k2 = k2
    Callers <- Tracks
    Closers <- Streams
    MaxChunks = 3
    Nobody = Nobody
INVARIANTS
    NeverMisused
    NothingLeaked
    MuLawWithinHalfStep
    OrderIsKept
    Seamless
CHECK_DEADLOCK FALSE
