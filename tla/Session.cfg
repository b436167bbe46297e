CONSTANTS
    Rank = {0, 1, 2, 3}
    Parent <- MCParent
    Plans <- MCPlans
    MaxSignal = 1
SPECIFICATION FairSpec
INVARIANTS
    WiredFirst ExitCode OneShutdown
PROPERTIES
    AllStop
CHECK_DEADLOCK FALSE
