SPECIFICATION FairSpec
CONSTANTS
    ChannelCap = 3
    MaxSegments = 3
    MinSegments = 2
    SegFrames = 3
    MaxChunk = 5
    MaxFrames = 20
INVARIANTS
    TypeOK
    AudioKept
    BufferKept
PROPERTIES
    StaysServable
    ImplementsLife
    StopReturnsUnlessStuck
    EndedStreamDrains
CHECK_DEADLOCK FALSE
