SPECIFICATION Spec
CONSTANTS
    NJobs = 2
    Prio = {0, 1, 2}
    Default = 1
    MaxPrio = 2
    User = {"owner", "guest"}
    Plans <- PlansOverlap
INVARIANT NoDangling
CHECK_DEADLOCK FALSE
