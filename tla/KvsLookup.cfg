CONSTANTS
    Lookup = {1}
    Requests <- MCRequests
    Object <- MCObject
    Roots <- MCRoots
    Kept = {"q"}
    CycleLimit = 3
    MaxChange = 2
    MaxFail = 1
    MaxDrop = 1
SPECIFICATION FairSpec
INVARIANTS
    Snapshot
PROPERTIES
    Answered
CHECK_DEADLOCK FALSE
