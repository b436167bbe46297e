CONSTANTS
    c0 = c0
    c1 = c1
    c2 = c2
    Module = sqlite
    Parent <- MCParent
    Rank = {0}
    Client = {c0}
    Blob = {"x"}
    Huge = {}
    Limit = 2
    Ops <- AllOps
    MaxReq = 1
    MaxFail = 0
    MaxUnload = 0
SPECIFICATION FairSpec
PROPERTIES
    Duplicated
CHECK_DEADLOCK FALSE
