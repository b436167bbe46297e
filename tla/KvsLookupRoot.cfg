CONSTANTS
    Lookup = {1}
    Requests <- RootRequests
    Object <- MCObject
    Roots <- MCRoots
    Kept = {"q"}
    CycleLimit = 10
    MaxChange = 0
    MaxFail = 0
    MaxDrop = 0
SPECIFICATION Spec
INVARIANTS
    Defined
CHECK_DEADLOCK FALSE
