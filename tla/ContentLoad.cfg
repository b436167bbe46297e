CONSTANTS
    c0 = c0
    c1 = c1
    c2 = c2
    Module = sqlite
    Parent <- MCParent
    Rank = {0, 1}
    Client = {c0, c1}
    Blob = {"x", "y"}
    Huge = {}
    Limit = 1
    Ops <- AllOps
    MaxReq = 3
    MaxFail = 1
    MaxUnload = 0
SPECIFICATION FairSpec
INVARIANTS
    Accounting
PROPERTIES
    Answered FlushDurable
CHECK_DEADLOCK FALSE
