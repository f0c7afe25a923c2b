CONSTANTS
    r1 = r1
    r2 = r2
    a1 = a1
    a2 = a2
    o = o
    None = None
    Robots = {r1}
    Clients = {a1, o}
    RobotOf <- OneRobot
    Issues <- WorkIssues
    Overlap = FALSE
    MaxEpisodes = 1
    MaxExecutions = 2
    SubTasks = {s1, s2}
    VersionTarget = 2
    Versions = {v1}
    Tasks = {t1}
SPECIFICATION Spec
PROPERTIES
    CompletedWorkStays
