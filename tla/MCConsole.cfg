CONSTANTS
    n1 = n1
    n2 = n2
    Clients = {c1, c2}
    Labels = {a1, a2}
    Contents = {x}
    MaxVersions = 2
    MaxSubTasks = 3
    MaxRows = 4
    People = {c1, c2}
    Names = {n1, n2}
    Tags = {t1}
    Files <- ImportedFiles
    Serial = TRUE
    MaxTasks = 3
    Keys = {k1}
    Admins = {c1}
    Calls = {c1, c2}
    Interval = 3
    Timeout = 1
    Delay = 1
    Expiries = {2}
    MaxTime = 5
    Subscribers = {p1, l1}
    Lists = {l1}
    MaxWrites = 3
    None = None
    Robots = {r1, r2}
    Versions = {v1}
    MaxEpisodes = 2
    Times = {1, 11}
    Hours = 2
    HourLength = 6
    Second = 2
    MaxRuns = 2
    MaxEdits = 1
SPECIFICATION ConsoleSpec
INVARIANTS
    OneImportedTaskPerName
    TagsAsLastSet
    LastUsedFresh
    WaitingPageIsCurrent
    ClosedPageIsFinal
    SettledIsExact
    HoursAddUp
PROPERTIES
    PlacesStayDistinct
    ApprovedListFrozen
    RecordedSubTasksStay
    RevokedForGood
    LastUsedNeverBack
