SPECIFICATION Spec
CONSTANTS
    Watcher = {"w1", "w2"}
    Sender <- BothOwn
    Plans <- PlansAll
INVARIANTS AssertHolds SentOnce
CHECK_DEADLOCK FALSE
