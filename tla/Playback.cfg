SPECIFICATION Spec
CONSTANTS
    NumCommands = 2
    Capacity = 1
    MaxChunks <- ThreeAndOne
INVARIANTS
    TypeOK
    SuccessIsComplete
PROPERTIES
    CommandAnswered
    StreamReleased
CHECK_DEADLOCK FALSE
