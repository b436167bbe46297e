----------------------------- MODULE MCKvsRoot -----------------------------
(* Instances of KvsRoot: a chain of three ranks. *)
EXTENDS KvsRoot

Chain == {0, 1, 2}
UpChain == [r \in {1, 2} |-> r - 1]

(* Commits, a fence of two, and syncs; the digit is the rank asked. *)
Requests == {"c0", "c1", "c2", "f0", "f1", "f2", "s1", "s2"}
AtRank == [q \in Requests |-> CASE q \in {"c0", "f0"} -> 0
                                [] q \in {"c1", "f1", "s1"} -> 1
                                [] q \in {"c2", "f2", "s2"} -> 2]
KindOf == [q \in Requests |-> CASE q \in {"c0", "c1", "c2"} -> "commit"
                                [] q \in {"f0", "f1", "f2"} -> "fence"
                                [] q \in {"s1", "s2"} -> "sync"]
NameOf == [q \in Requests |-> IF KindOf[q] = "fence" THEN "f" ELSE q]
Procs == [n \in {NameOf[q] : q \in Requests} |-> IF n = "f" THEN 2 ELSE 1]
VersionOf == [q \in Requests |-> 1]

Plan(S, removes_, ages_) == [reqs |-> S, removes |-> removes_, ages |-> ages_]

(* A fence and a removal; a fence with one client too many; a commit from  *)
(* the end of the chain with a removal and a drop for age; two commits and *)
(* a sync; a commit, a sync and a removal.                                 *)
PlansAll == {Plan({"f0", "f1"}, 1, 0), Plan({"f0", "f1", "f2"}, 0, 0),
             Plan({"c2"}, 1, 1), Plan({"c0", "c2", "s2"}, 0, 0),
             Plan({"c1", "s1"}, 1, 0)}
(* Two requests of the lowest rank stall for the root while a commit is    *)
(* made on rank 0.                                                         *)
PlansStall == {Plan({"c0", "c2", "s2"}, 0, 0)}

=============================================================================
