SPECIFICATION FairSpec
CONSTANTS
    ch1 = ch1
    ch2 = ch2
    c1 = c1
    c2 = c2
    Channel <- OneChannel
    Client <- TwoClients
    Session <- TwoSessions
    Monitor = Monitor
    None = None
    RequestKind <- LookupAndArt
    GracePeriod = 0
    MonitorPeriod = 1
    MaxPolls = 1
    MinSegments = 1
    MaxTouches = 1
PROPERTIES
    RequestsAnswered
    IdleReaped
