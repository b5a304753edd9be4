SPECIFICATION Spec
CONSTANTS
    End = End
    Lengths <- MCLengths
    PreRoll = 40
    SilencePadding = 60
    TailPadding = 160
    MaxSegment = 1000
    MaxFrames = 11
INVARIANTS
    TypeOK
    GateIsFollowed
    SegmentIsCut
PROPERTIES
    FeedsUtterances
CHECK_DEADLOCK FALSE
