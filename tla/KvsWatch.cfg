SPECIFICATION FairSpec
CONSTANTS
    Watcher = {"w1", "w2"}
    Sender <- BothOwn
    Plans <- PlansAll
INVARIANTS CommitOrder LastValueSent EachCommitSent NoLeak
PROPERTIES Ends Answered
CHECK_DEADLOCK FALSE
