SPECIFICATION Spec
CONSTANTS
    NJobs = 2
    Prio = {0, 1, 2}
    Default = 1
    MaxPrio = 2
    User = {"owner", "guest"}
    Plans <- PlansGhost
INVARIANTS RefusedNotQueued NoneLost
CHECK_DEADLOCK FALSE
