SPECIFICATION HangingSpec
CONSTANTS
    ch1 = ch1
    ch2 = ch2
    c1 = c1
    c2 = c2
    Channel <- TwoChannels
    Client <- OneClient
    Session <- TwoSessions
    Monitor = Monitor
    None = None
    RequestKind <- StreamKinds
    GracePeriod = 0
    MonitorPeriod = 0
    MaxPolls = 1
    MinSegments = 1
    MaxTouches = 1
PROPERTIES
    ChannelsIndependent
