CONSTANTS
    Namespace = {"primary"}
    Primary = "primary"
    Txn = {"t1"}
    Name <- MCName
    Data <- MCData
    Large <- MCLarge
    NsOf <- AppendNsOf
    OpsOf <- AppendOps
    NoMerge = {}
    MergeOn = TRUE
    InitDir <- AppendInit
    MaxFail = 0
    MaxFault = 0
SPECIFICATION Spec
INVARIANTS
    Serial
CHECK_DEADLOCK FALSE
