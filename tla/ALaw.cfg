SPECIFICATION CodecSpec
CONSTANTS
    Samples <- EverySample
    MaxPackets = 0
    MaxSize = 0
INVARIANT ALawWithinStep
CHECK_DEADLOCK FALSE
