SPECIFICATION Spec
SYMMETRY BothSymmetries
CONSTANTS
    ch1 = ch1
    ch2 = ch2
    c1 = c1
    c2 = c2
    Channel <- TwoChannels
    Client <- TwoClients
    Session <- ThreeSessions
    Monitor = Monitor
    None = None
    RequestKind <- StreamKinds
    GracePeriod = 0
    MonitorPeriod = 0
    MaxPolls = 1
    MinSegments = 0
    MaxTouches = 1
INVARIANTS
    NoTunerLeak
PROPERTIES
    VerdictSticks
