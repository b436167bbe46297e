CONSTANTS
    Namespace = {"primary", "ns"}
    Primary = "primary"
    Txn = {"t1", "t2"}
    Name <- MCName
    Data <- MCData
    Large <- MCLarge
    NsOf <- SameNsOf
    OpsOf <- SameOps
    NoMerge = {}
    MergeOn = TRUE
    InitDir <- MCInitDir
    MaxFail = 0
    MaxFault = 0
SPECIFICATION Spec
INVARIANTS
    PublishedStored
CHECK_DEADLOCK FALSE
