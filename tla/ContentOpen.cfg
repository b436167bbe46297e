CONSTANTS
    c0 = c0
    c1 = c1
    c2 = c2
    Module = sqlite
    Parent <- MCParent
    Rank = {0, 1}
    Client = {c0, c1}
    Blob = {"x"}
    Huge = {}
    Limit = 2
    Ops <- AllOps
    MaxReq = 3
    MaxFail = 0
    MaxUnload = 1
SPECIFICATION Spec
INVARIANTS
    NoAbort StoreLoadable NoneLost
CHECK_DEADLOCK FALSE
