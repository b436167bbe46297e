CONSTANTS
    Lookup = {1}
    Requests <- LinkRequests
    Object <- MCObject
    Roots <- MCRoots
    Kept = {}
    CycleLimit = 10
    MaxChange = 0
    MaxFail = 0
    MaxDrop = 0
SPECIFICATION Spec
INVARIANTS
    Independent
CHECK_DEADLOCK FALSE
