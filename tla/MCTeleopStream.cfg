CONSTANTS
    v1 = v1
    v2 = v2
    g1 = g1
    g2 = g2
    t1 = t1
    t2 = t2
    None = None
    Viewers = {v1, v2}
    Loops = {g1, g2}
    Subscribers = {g1, g2}
    Tasks = {t1, t2}
    TaskAt <- OtherTask
    MaxWrites = 1
    SubBuffer = 2
SPECIFICATION FairStreamSpec
INVARIANTS
    QuietRoomIsCurrent
PROPERTIES
    TeleopReachesPages
