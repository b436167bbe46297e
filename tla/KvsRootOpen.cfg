SPECIFICATION Spec
CONSTANTS
    Rank <- Chain
    Up <- UpChain
    Req <- Requests
    At <- AtRank
    Kind <- KindOf
    Name <- NameOf
    NProcs <- Procs
    Version <- VersionOf
    Plans <- PlansStall
    MaxLife = 1
INVARIANT EventuallyConsistent
PROPERTY Monotonic
CHECK_DEADLOCK FALSE
