CONSTANTS
    r1 = r1
    r2 = r2
    c1 = c1
    c2 = c2
    None = None
    Robots = {r1}
    Clients = {c1}
    RobotOf <- OneClientEach
    Overlap = FALSE
    MaxTime = 6
    TicksPerSecond = 2
    Threshold = 4
    StatusTTL = 5
    Hour = 3
    MaxTwice = 1
SPECIFICATION FairUptimeSpec
INVARIANTS
    Accounted
    OnlineOnlyWhileReporting
PROPERTIES
    BufferDrains
