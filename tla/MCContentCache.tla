--------------------------- MODULE MCContentCache ---------------------------
(* Small instances of ContentCache: a chain of ranks, a client on each. *)
EXTENDS ContentCache

CONSTANTS c0, c1, c2

MCParent == [n \in (Rank \ {0}) \cup Client \cup {Module} |->
               IF n = c2 THEN 2 ELSE IF n = c1 THEN 1
               ELSE IF n \in Rank THEN n - 1 ELSE 0]
About(op, B) == {Req(op, b) : b \in B}
AllOps == [c \in Client |-> About("load", Blob) \cup About("store", Blob)
                              \cup About("flush", {NoBlob})]
(* On a chain the first ranks store and flush, the last one loads too. *)
ChainOps == [c \in Client |-> IF c = c0 THEN About("flush", {NoBlob})
                              ELSE IF c = c1 THEN About("store", Blob)
                              ELSE About("load", {"x"}) \cup About("store", {"x"})]
=============================================================================
