SPECIFICATION ClientSpec
CONSTANTS
    NumCommands = 1
    Capacity = 1
    MaxChunks <- TwoChunks
PROPERTY InterruptNamesTrack
CHECK_DEADLOCK FALSE
