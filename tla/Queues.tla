------------------------------- MODULE Queues -------------------------------
(***************************************************************************)
(* What is in a queue, and what the counts in queues and tables add up to. *)
(* A sum is the number of the pairs <<x, k>> with k among the first f[x]   *)
(* numbers, so that the theorems on the size of finite sets apply to it.   *)
(***************************************************************************)
EXTENDS Integers, Sequences, FiniteSets

(* A message is in a queue, and not more than once. *)
In(m, q) == \E i \in DOMAIN q : q[i] = m
Once(m, q) == \A i, j \in DOMAIN q : q[i] = m /\ q[j] = m => i = j

(* Of the queues Q of the members of D, the one of d loses its head, or    *)
(* gets x at its end, and becomes that of P.                               *)
Takes(D, S, Q, P, d) ==
    /\ Q \in [D -> Seq(S)] /\ d \in D /\ Q[d] # <<>>
    /\ P = [Q EXCEPT ![d] = Tail(@)]
Puts(D, S, Q, P, d, x) ==
    /\ Q \in [D -> Seq(S)] /\ d \in D /\ x \in S
    /\ P = [Q EXCEPT ![d] = Append(@, x)]

(* What then is in the queues. *)
Taken(D, S, Q, P, d) ==
    /\ P \in [D -> Seq(S)] /\ Head(Q[d]) \in S /\ In(Head(Q[d]), Q[d])
    /\ P[d] = Tail(Q[d]) /\ \A k \in D : k # d => P[k] = Q[k]
    /\ \A k \in D : \A m :
         /\ In(m, P[k]) => In(m, Q[k])
         /\ In(m, Q[k]) => In(m, P[k]) \/ (k = d /\ m = Head(Q[d]))
         /\ Once(m, Q[k]) => Once(m, P[k])
    /\ Once(Head(Q[d]), Q[d]) => ~In(Head(Q[d]), P[d])
PutIn(D, S, Q, P, d, x) ==
    /\ P \in [D -> Seq(S)]
    /\ P[d] = Append(Q[d], x) /\ \A k \in D : k # d => P[k] = Q[k]
    /\ \A k \in D : \A m :
         /\ In(m, P[k]) <=> In(m, Q[k]) \/ (k = d /\ m = x)
         /\ Once(m, Q[k]) /\ (m # x \/ ~In(m, Q[k])) => Once(m, P[k])

(* The sum of a function with natural values. *)
Units(f) == UNION {{x} \X (1 .. f[x]) : x \in DOMAIN f}
Sum(f) == Cardinality(Units(f))

(* g is f, a function on the finite set D, with one more summand at d. *)
Grows(D, f, g, d) ==
    /\ IsFiniteSet(D) /\ f \in [D -> Nat] /\ d \notin D
    /\ g \in [D \cup {d} -> Nat] /\ \A x \in D : g[x] = f[x]

(* g is f, a function on the finite set D, changed at d, or at d and e. *)
Changes(D, f, g, d) ==
    /\ IsFiniteSet(D) /\ f \in [D -> Nat] /\ g \in [D -> Nat]
    /\ d \in D /\ \A x \in D \ {d} : g[x] = f[x]
ChangesTwo(D, f, g, d, e) ==
    /\ IsFiniteSet(D) /\ f \in [D -> Nat] /\ g \in [D -> Nat]
    /\ d \in D /\ e \in D /\ d # e /\ \A x \in D \ {d, e} : g[x] = f[x]
=============================================================================
