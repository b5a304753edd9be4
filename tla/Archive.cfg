SPECIFICATION Spec
CONSTANTS
    c1 = c1
    c2 = c2
    i1 = i1
    i2 = i2
    None = None
    Calls <- TwoCalls
    Ids <- TwoIds
    Dumped <- LongCall
    Recognised <- LongCall
    MaxCommands <- OneLong
    MaxEvents <- TwoEvents
    MaxLost = 1
INVARIANTS
    DumpIsTranscript
    RecordSurvives
SYMMETRY Symmetry
CHECK_DEADLOCK FALSE
