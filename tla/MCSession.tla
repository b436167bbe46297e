----------------------------- MODULE MCSession -----------------------------
(* Small instances of Session: a chain of three brokers and a broker beside  *)
(* it.                                                                       *)
EXTENDS Session

MCParent == [r \in Rank \ {0} |-> IF r = 3 THEN 0 ELSE r - 1]
MCPlans == {[mode |-> "normal", limit |-> TRUE], [mode |-> "none", limit |-> FALSE]}
=============================================================================
