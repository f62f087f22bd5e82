SPECIFICATION LifetimesFairSpec
CONSTANTS
    MaxSegments = 3
    SegFrames = 94
    Samples = 16
    SampleRate = 735
    Clock = 1500
    SegmentDuration = 3000
    MinSegments = 1
    MaxFrames = 600
    Settings <- LifetimesSettings
    PipeCap = 2
    ChannelCap = 2
    MaxWritten = 6
    Subnet <- LifetimesSubnets
    Private <- LifetimesPrivate
    Default = "lan"
    Hosts = 2
    Routes <- LifetimesRoutes
    NoAddress = NoAddress
    MaxThreads = 3
    MaxTuners = 2
INVARIANTS
    LifetimesTypeOK
    PlaylistsTrue
    ListeningBounded
    ChildManaged
    FirstFound
    NoneMissed
PROPERTIES
    ListenersKept
    ListenersServed
    StopEnds
    AudioFlows
    SearchEnds
CHECK_DEADLOCK FALSE
