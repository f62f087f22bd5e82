SPECIFICATION Spec
SYMMETRY ClientSymmetry
CONSTANTS
    ch1 = ch1
    ch2 = ch2
    c1 = c1
    c2 = c2
    Channel <- OneChannel
    Client <- TwoClients
    Session <- ThreeSessions
    Monitor = Monitor
    None = None
    RequestKind <- AllKinds
    GracePeriod = 1
    MonitorPeriod = 0
    MaxPolls = 1
    MinSegments = 1
    MaxTouches = 1
INVARIANTS
    TypeOK
    OneRunningPerChannel
PROPERTIES
    SessionsLive
