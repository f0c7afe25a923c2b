CONSTANTS
    r1 = r1
    r2 = r2
    a1 = a1
    a2 = a2
    o = o
    None = None
    Robots = {r1}
    Clients = {a1, a2, o}
    RobotOf <- OneRobot
    Issues <- ApiIssues
    Overlap = TRUE
    MaxEpisodes = 2
    MaxExecutions = 0
    SubTasks = {}
    VersionTarget = 2
    Versions = {v1}
    Tasks = {t1}
SPECIFICATION Spec
INVARIANTS
    RecordingImpliesBusy
