CONSTANTS
    c1 = c1
    c2 = c2
    c3 = c3
    Clients = {c1, c2}
    Labels = {l1}
    Contents = {x, y}
    MaxVersions = 1
    MaxSubTasks = 1
    MaxRows = 1
SPECIFICATION Spec
PROPERTIES
    ApprovedIsLocked
