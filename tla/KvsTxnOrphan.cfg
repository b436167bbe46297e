CONSTANTS
    Namespace = {"primary"}
    Primary = "primary"
    Txn = {"t1"}
    Name <- MCName
    Data <- MCData
    Large <- MCLarge
    NsOf <- AppendNsOf
    OpsOf <- AppendBadOps
    NoMerge = {}
    MergeOn = TRUE
    InitDir <- AppendInit
    MaxFail = 0
    MaxFault = 0
SPECIFICATION Spec
INVARIANTS
    DirtyOwned
CHECK_DEADLOCK FALSE
