CONSTANTS
    c0 = c0
    c1 = c1
    c2 = c2
    Module = sqlite
    Parent <- MCParent
    Rank = {0, 1, 2}
    Client = {c0, c1, c2}
    Blob = {"x", "z"}
    Huge = {"z"}
    Limit = 2
    Ops <- ChainOps
    MaxReq = 3
    MaxFail = 0
    MaxUnload = 1
SPECIFICATION Spec
INVARIANTS
    StoreHeld OneRequest
CHECK_DEADLOCK FALSE
