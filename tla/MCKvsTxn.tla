------------------------------ MODULE MCKvsTxn ------------------------------
(* Small instances of KvsTxn: a cold cache, a root with one subdirectory, and *)
(* transactions chosen so that they miss, merge, fail and collide.          *)
EXTENDS KvsTxn

Seqs == INSTANCE SequencesExt

op(a, d, n, v) == [act |-> a, dir |-> d, name |-> n, data |-> v]

MCName == {"a", "d"}
MCData == {"x", "L"}
MCLarge == {"L"}
(* d.a = x *)
MCInitDir == [EmptyDir EXCEPT !["d"] = DirRef([EmptyDir EXCEPT !["a"] = Val("x")])]

(* One namespace: a commit that must load d, one that stores a long value,   *)
(* one that fails. *)
OneNsOf == [t \in {"t1", "t2", "t3"} |-> "primary"]
OneOps == [t1 |-> <<op("unlink", "d", "a", "x"), op("put", "d", "d", "x")>>,
           t2 |-> <<op("put", "d", "d", "L")>>,
           t3 |-> <<op("put", "a", "d", "x"), op("bad", ".", "a", "x")>>]

(* Two namespaces that need and store the same objects; appending to a saves *)
(* its values at once, before d is loaded.                                  *)
TwoNsOf == [t1 |-> "primary", t2 |-> "ns"]
TwoOps == [t1 |-> <<op("put", "d", "d", "x")>>,
           t2 |-> <<op("append", ".", "a", "L"), op("put", "d", "d", "x")>>]

(* A namespace that is removed with transactions queued, merged or blocked. *)
GoneNsOf == [t \in {"t1", "t2"} |-> "ns"]
GoneOps == [t1 |-> <<op("put", "d", "d", "x")>>, t2 |-> <<op("put", ".", "a", "L")>>]

(* The values of d.a and a are kept in the directories; appending to a does   *)
(* not need d, and setting d.d does.                                        *)
AppendInit == [MCInitDir EXCEPT !["a"] = Val("x")]
AppendOps == [t1 |-> <<op("append", ".", "a", "L"), op("put", "d", "d", "x")>>]
AppendBadOps == [t1 |-> <<op("append", ".", "a", "L"), op("bad", ".", "a", "x")>>]
PutOps == [t1 |-> <<op("put", "d", "d", "x")>>]
AppendNsOf == [t1 |-> "primary"]
SameNsOf == [t1 |-> "primary", t2 |-> "ns"]
SameOps == [t1 |-> <<op("put", ".", "a", "L")>>, t2 |-> <<op("put", ".", "a", "L")>>]

(* What a published root should be: the operations of its transactions,      *)
(* applied once each, in order, to the root before it, with every object at *)
(* hand.                                                                    *)
ApplyAll(f, ops) ==
    Unroll(Seqs!FoldLeft(LAMBDA g, o : LinkDirent(g, o, Blob).dir, f, ops))
OpsIn(names) == Seqs!FlattenSeq([i \in DOMAIN names |-> OpsOf[names[i]]])
RootBefore(i) ==
    LET prev == {j \in 1..(i - 1) : events[j].ns = events[i].ns
                                      /\ events[j].err = "ok"}
    IN IF events[i].seq = 1 THEN EmptyDir
       ELSE IF prev = {} THEN InitDir ELSE events[Seqs!Max(prev)].ref

(* Commits are atomic and serial: every published root is the one before it  *)
(* with the operations of the published transactions applied exactly once   *)
(* and in order, whatever stalls, retries and merging came between.         *)
Serial ==
    \A i \in DOMAIN events : events[i].err = "ok" =>
        events[i].ref = ApplyAll(RootBefore(i), OpsIn(events[i].names))
=============================================================================
