CONSTANTS
    Namespace = {"primary"}
    Primary = "primary"
    Txn = {"t1", "t2", "t3"}
    Name <- MCName
    Data <- MCData
    Large <- MCLarge
    NsOf <- OneNsOf
    OpsOf <- OneOps
    NoMerge = {}
    MergeOn = TRUE
    InitDir <- MCInitDir
    MaxFail = 1
    MaxFault = 1
SPECIFICATION Spec
INVARIANTS
    DirtyOwned
    PublishedStored CommitOrder Serial
CHECK_DEADLOCK FALSE
