----------------------------- MODULE MCBarrier -----------------------------
(* Barrier on small trees of brokers, for TLC.                             *)
EXTENDS Barrier

CONSTANTS c1, c2, c3

(* Rank 1 below rank 0, rank 2 below rank 1. *)
MCChain == [r \in 1 .. 2 |-> r - 1]

(* One client on each rank. *)
MCSpread == [c \in {c1, c2, c3} |-> CASE c = c1 -> 0 [] c = c2 -> 1 [] c = c3 -> 2]

(* All clients below rank 0, so that rank 1 may see all of them. *)
MCBelow == [c \in {c1, c2, c3} |-> IF c = c1 THEN 1 ELSE 2]

MCPlacements == {MCSpread, MCBelow}
=============================================================================
