CONSTANTS
    Namespace = {"primary", "ns"}
    Primary = "primary"
    Txn = {"t1", "t2"}
    Name <- MCName
    Data <- MCData
    Large <- MCLarge
    NsOf <- GoneNsOf
    OpsOf <- GoneOps
    NoMerge = {}
    MergeOn = TRUE
    InitDir <- MCInitDir
    MaxFail = 1
    MaxFault = 0
SPECIFICATION FairSpec
INVARIANTS
    AnsweredOnce
PROPERTIES
    RemovedIsFrozen Answered
CHECK_DEADLOCK FALSE
