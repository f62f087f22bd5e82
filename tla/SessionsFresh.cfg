SPECIFICATION Spec
CONSTANTS
    ch1 = ch1
    ch2 = ch2
    c1 = c1
    c2 = c2
    Channel <- OneChannel
    Client <- OneClient
    Session <- TwoSessions
    Monitor = Monitor
    None = None
    RequestKind <- StreamKinds
    GracePeriod = 1
    MonitorPeriod = 0
    MaxPolls = 1
    MinSegments = 1
    MaxTouches = 1
PROPERTIES
    FreshNotRemoved
