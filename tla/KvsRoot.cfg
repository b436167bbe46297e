SPECIFICATION FairSpec
CONSTANTS
    Rank <- Chain
    Up <- UpChain
    Req <- Requests
    At <- AtRank
    Kind <- KindOf
    Name <- NameOf
    NProcs <- Procs
    Version <- VersionOf
    Plans <- PlansAll
    MaxLife = 1
INVARIANTS AnswerTruth AnsweredOnce ReadYourWrites
PROPERTIES Completes
CHECK_DEADLOCK FALSE
