CONSTANTS
    r1 = r1
    r2 = r2
    a1 = a1
    a2 = a2
    o = o
    None = None
    Robots = {r1}
    Clients = {a1}
    RobotOf <- OneRobot
    Issues <- TaskEditIssues
    Overlap = FALSE
    MaxEpisodes = 2
    MaxExecutions = 0
    SubTasks = {}
    VersionTarget = 1
    Versions = {v1, v2}
    Tasks = {t1}
SPECIFICATION Spec
PROPERTIES
    TaskStatusIsProgress
    CanceledTaskReturnsToProgress
