SPECIFICATION Spec
CONSTANTS
    Ttl = 2
    Grace = 0
    Process = {p1, p2}
    Repo = {r1}
    Action = {a1}
    MaxTasks = 2
    MaxHeads = 2
    MaxTime = 2
    MaxFaults = 1
    MaxCommands = 2
    RowHeads = TRUE
    Idless = FALSE
CHECK_DEADLOCK FALSE
SYMMETRY Symmetry
INVARIANT TypeOK
PROPERTY GuardKept
PROPERTY NoDuplicateStart
