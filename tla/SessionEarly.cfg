CONSTANTS
    Rank = {0, 1, 2}
    Parent <- MCParent
    Plans <- MCPlans
    MaxSignal = 1
SPECIFICATION FairSpec
PROPERTIES
    EarlyStop
CHECK_DEADLOCK FALSE
