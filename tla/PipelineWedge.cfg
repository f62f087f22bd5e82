SPECIFICATION AnsweringSpec
CONSTANTS
    ChannelCap = 3
    MaxSegments = 2
    MinSegments = 1
    SegFrames = 2
    MaxChunk = 2
    MaxFrames = 6
PROPERTIES
    StopAlwaysReturns
CHECK_DEADLOCK FALSE
