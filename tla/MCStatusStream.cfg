CONSTANTS
    v1 = v1
    v2 = v2
    g1 = g1
    g2 = g2
    None = None
    Viewers = {v1, v2}
    Loops = {g1, g2}
    Subscribers = {g1, g2}
    MaxWrites = 2
    Tabs = {v1}
    MaxErrors = 1
SPECIFICATION FairStatusSpec
INVARIANTS
    OneLoop
PROPERTIES
    StatusReachesPages
