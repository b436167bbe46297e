CONSTANTS
    Namespace = {"primary", "ns"}
    Primary = "primary"
    Txn = {"t1", "t2"}
    Name <- MCName
    Data <- MCData
    Large <- MCLarge
    NsOf <- TwoNsOf
    OpsOf <- TwoOps
    NoMerge = {}
    MergeOn = TRUE
    InitDir <- AppendInit
    MaxFail = 1
    MaxFault = 0
SPECIFICATION Spec
INVARIANTS
    IInv NoLostWakeup DirtyListPrivate
CHECK_DEADLOCK FALSE
