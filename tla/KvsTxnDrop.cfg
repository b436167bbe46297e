CONSTANTS
    Namespace = {"primary"}
    Primary = "primary"
    Txn = {"t1"}
    Name <- MCName
    Data <- MCData
    Large <- MCLarge
    NsOf <- AppendNsOf
    OpsOf <- PutOps
    NoMerge = {}
    MergeOn = TRUE
    InitDir <- MCInitDir
    MaxFail = 0
    MaxFault = 0
SPECIFICATION Spec
INVARIANTS
    RootEntryCached
CHECK_DEADLOCK FALSE
