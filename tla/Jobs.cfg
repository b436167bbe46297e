SPECIFICATION FairSpec
CONSTANTS
    NJobs = 2
    Prio = {0, 1, 2}
    Default = 1
    MaxPrio = 2
    User = {"owner", "guest"}
    Plans <- PlansApart
INVARIANTS QueueOrder AcceptedIsKept RefusedLeavesNothing MemoryMatchesKvs
PROPERTIES Answered
CHECK_DEADLOCK FALSE
