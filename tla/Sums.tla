-------------------------------- MODULE Sums --------------------------------
(***************************************************************************)
(* What is in a queue after a message is taken from it or put into it, and *)
(* what sums of the counts in queues and tables come to when one or two of *)
(* them change.                                                            *)
(***************************************************************************)
EXTENDS Queues, FiniteSetTheorems, TLAPS

USE ZenonT(60)

(* The length and the members of a sequence. *)
LEMMA LengthIs ==
    ASSUME NEW S, NEW q \in Seq(S)
    PROVE  /\ Len(q) \in Nat /\ DOMAIN q = 1 .. Len(q) /\ q \in [1 .. Len(q) -> S]
           /\ \A i \in 1 .. Len(q) : q[i] \in S
  BY SMTT(60)

(* What appending does. *)
LEMMA AppendIs ==
    ASSUME NEW S, NEW q \in Seq(S), NEW x \in S
    PROVE  /\ Append(q, x) \in Seq(S) /\ Append(q, x) # <<>>
           /\ Len(Append(q, x)) = Len(q) + 1 /\ Append(q, x)[Len(q) + 1] = x
           /\ \A i \in 1 .. Len(q) : Append(q, x)[i] = q[i]
  BY SMTT(60)

(* What taking the head does. *)
LEMMA TailIs ==
    ASSUME NEW S, NEW q \in Seq(S), q # <<>>
    PROVE  /\ Head(q) \in S /\ Tail(q) \in Seq(S) /\ Len(Tail(q)) = Len(q) - 1
           /\ \A i \in 1 .. Len(Tail(q)) : Tail(q)[i] = q[i + 1]
  BY SMTT(60)

(* Nothing is in the empty queue. *)
LEMMA InEmpty == ASSUME NEW m PROVE ~In(m, <<>>) /\ Once(m, <<>>)
  <1>1. DOMAIN <<>> = {}
    BY SMTT(60)
  <1> QED BY <1>1 DEF In, Once

(* What is in a queue after a message was appended. *)
LEMMA InAppend ==
    ASSUME NEW S, NEW q \in Seq(S), NEW x \in S, NEW m
    PROVE  /\ In(m, Append(q, x)) <=> In(m, q) \/ m = x
           /\ Once(m, q) /\ ~(In(m, q) /\ m = x) => Once(m, Append(q, x))
  <1> DEFINE t == Append(q, x)
             n == Len(q)
  <1>1. /\ n \in Nat /\ DOMAIN q = 1 .. n /\ DOMAIN t = 1 .. n + 1
        /\ t[n + 1] = x /\ \A i \in 1 .. n : t[i] = q[i]
    <2>1. /\ t \in Seq(S) /\ Len(t) = n + 1 /\ t[n + 1] = x
          /\ \A i \in 1 .. n : t[i] = q[i]
      BY SMTT(60), AppendIs
    <2>2. n \in Nat /\ DOMAIN q = 1 .. n
      BY LengthIs
    <2> HIDE DEF t
    <2> QED BY <2>1, <2>2, LengthIs
  <1>2. 1 .. n + 1 = (1 .. n) \cup {n + 1} /\ n + 1 \notin 1 .. n
    BY SMTT(60), <1>1
  <1> HIDE DEF t, n
  <1>3. In(m, t) <=> In(m, q) \/ m = x
    BY <1>1, <1>2 DEF In
  <1>4. Once(m, q) /\ ~(In(m, q) /\ m = x) => Once(m, t)
    BY SMTT(60), <1>1, <1>2 DEF In, Once
  <1> QED BY <1>3, <1>4 DEF t

(* What is in a queue after its head was taken. *)
LEMMA InTail ==
    ASSUME NEW S, NEW q \in Seq(S), q # <<>>, NEW m
    PROVE  /\ In(Head(q), q)
           /\ In(m, Tail(q)) => In(m, q)
           /\ In(m, q) => In(m, Tail(q)) \/ m = Head(q)
           /\ Once(m, q) => Once(m, Tail(q)) /\ (m = Head(q) => ~In(m, Tail(q)))
  <1> DEFINE t == Tail(q)
             n == Len(t)
  <1>1. /\ n \in Nat /\ DOMAIN t = 1 .. n /\ DOMAIN q = 1 .. n + 1
        /\ q[1] = Head(q) /\ \A i \in 1 .. n : t[i] = q[i + 1]
    <2>1. t \in Seq(S) /\ n = Len(q) - 1 /\ \A i \in 1 .. n : t[i] = q[i + 1]
      BY TailIs
    <2>2. DOMAIN q = 1 .. Len(q) /\ Len(q) \in Nat
      BY LengthIs
    <2>3. q[1] = Head(q)
      BY SMTT(60)
    <2> HIDE DEF t
    <2>4. n \in Nat /\ DOMAIN t = 1 .. n
      BY <2>1, LengthIs
    <2> HIDE DEF n
    <2>5. n + 1 = Len(q)
      BY SMTT(60), <2>1, <2>2, <2>4
    <2> QED BY <2>1, <2>2, <2>3, <2>4, <2>5
  <1> HIDE DEF t, n
  <1>2. /\ 1 \in 1 .. n + 1 /\ \A i \in 1 .. n : i + 1 \in 1 .. n + 1 /\ i + 1 # 1
        /\ \A i \in 1 .. n + 1 : i = 1 \/ \E j \in 1 .. n : i = j + 1
        /\ \A i, j \in 1 .. n : i + 1 = j + 1 => i = j
    <2>1. \A i \in 1 .. n + 1 : i # 1 => i - 1 \in 1 .. n /\ i = (i - 1) + 1
      BY SMTT(60), <1>1
    <2>2. \A i \in 1 .. n + 1 : i = 1 \/ \E j \in 1 .. n : i = j + 1
      BY <2>1
    <2>3. /\ 1 \in 1 .. n + 1 /\ \A i \in 1 .. n : i + 1 \in 1 .. n + 1 /\ i + 1 # 1
          /\ \A i, j \in 1 .. n : i + 1 = j + 1 => i = j
      BY SMTT(60), <1>1
    <2> QED BY <2>2, <2>3
  <1>3. In(Head(q), q)
    BY <1>1, <1>2 DEF In
  <1>4. ASSUME In(m, t) PROVE In(m, q)
    <2>1. PICK i \in 1 .. n : t[i] = m
      BY <1>1, <1>4 DEF In
    <2>2. i + 1 \in DOMAIN q /\ q[i + 1] = m
      BY <1>1, <1>2, <2>1
    <2> QED BY <2>2 DEF In
  <1>5. ASSUME In(m, q) PROVE In(m, t) \/ m = Head(q)
    <2>1. PICK i \in 1 .. n + 1 : q[i] = m
      BY <1>1, <1>5 DEF In
    <2>2. CASE i = 1
      BY <1>1, <2>1, <2>2
    <2>3. ASSUME NEW j \in 1 .. n, i = j + 1 PROVE In(m, t)
      BY <1>1, <2>1, <2>3 DEF In
    <2> QED BY <1>2, <2>2, <2>3
  <1>6. ASSUME Once(m, q) PROVE Once(m, t)
    <2> SUFFICES ASSUME NEW i \in 1 .. n, NEW j \in 1 .. n, t[i] = m, t[j] = m PROVE i = j
      BY <1>1 DEF Once
    <2>1. i + 1 \in DOMAIN q /\ j + 1 \in DOMAIN q /\ q[i + 1] = m /\ q[j + 1] = m
      BY <1>1, <1>2
    <2>2. i + 1 = j + 1
      BY <1>6, <2>1 DEF Once
    <2> QED BY <1>2, <2>2
  <1>7. ASSUME Once(m, q), m = Head(q), In(m, t) PROVE FALSE
    <2>1. PICK i \in 1 .. n : t[i] = m
      BY <1>1, <1>7 DEF In
    <2>2. i + 1 \in DOMAIN q /\ 1 \in DOMAIN q /\ q[i + 1] = m /\ q[1] = m /\ i + 1 # 1
      BY <1>1, <1>2, <1>7, <2>1
    <2> QED BY <1>7, <2>2 DEF Once
  <1> QED BY <1>3, <1>4, <1>5, <1>6, <1>7 DEF t

(* A queue with nothing, or with one message, appended to it. *)
LEMMA ConcatOne ==
    ASSUME NEW S, NEW q \in Seq(S), NEW x \in S
    PROVE  q \o <<>> = q /\ q \o <<x>> = Append(q, x)
  BY SMTT(60)

(* What is in the queues when one of them loses its head. *)
LEMMA TakeFrom ==
    ASSUME NEW D, NEW S, NEW Q, NEW P, NEW d, Takes(D, S, Q, P, d)
    PROVE  Taken(D, S, Q, P, d)
  <1> USE DEF Takes
  <1>1. Q[d] \in Seq(S) /\ Q[d] # <<>> /\ P = [Q EXCEPT ![d] = Tail(Q[d])]
    OBVIOUS
  <1>2. Head(Q[d]) \in S /\ Tail(Q[d]) \in Seq(S)
    BY <1>1, TailIs
  <1>3. /\ P \in [D -> Seq(S)] /\ P[d] = Tail(Q[d])
        /\ \A k \in D : k # d => P[k] = Q[k]
    BY <1>1, <1>2
  <1>4. \A m : /\ In(Head(Q[d]), Q[d])
               /\ In(m, P[d]) => In(m, Q[d])
               /\ In(m, Q[d]) => In(m, P[d]) \/ m = Head(Q[d])
               /\ Once(m, Q[d]) => Once(m, P[d]) /\ (m = Head(Q[d]) => ~In(m, P[d]))
    <2>1. ASSUME NEW m
          PROVE  /\ In(Head(Q[d]), Q[d])
                 /\ In(m, Tail(Q[d])) => In(m, Q[d])
                 /\ In(m, Q[d]) => In(m, Tail(Q[d])) \/ m = Head(Q[d])
                 /\ Once(m, Q[d]) => Once(m, Tail(Q[d])) /\ (m = Head(Q[d]) => ~In(m, Tail(Q[d])))
      BY <1>1, InTail
    <2> QED BY <1>3, <2>1
  <1> QED BY <1>2, <1>3, <1>4 DEF Taken

(* What is in the queues when one of them gets a message. *)
LEMMA PutInto ==
    ASSUME NEW D, NEW S, NEW Q, NEW P, NEW d, NEW x, Puts(D, S, Q, P, d, x)
    PROVE  PutIn(D, S, Q, P, d, x)
  <1> USE DEF Puts
  <1>1. Q[d] \in Seq(S) /\ x \in S /\ P = [Q EXCEPT ![d] = Append(Q[d], x)]
    OBVIOUS
  <1>2. Append(Q[d], x) \in Seq(S)
    BY <1>1, AppendIs
  <1>3. /\ P \in [D -> Seq(S)] /\ P[d] = Append(Q[d], x)
        /\ \A k \in D : k # d => P[k] = Q[k]
    BY <1>1, <1>2
  <1>4. \A m : /\ In(m, P[d]) <=> In(m, Q[d]) \/ m = x
               /\ Once(m, Q[d]) /\ ~(In(m, Q[d]) /\ m = x) => Once(m, P[d])
    <2>1. ASSUME NEW m
          PROVE  /\ In(m, Append(Q[d], x)) <=> In(m, Q[d]) \/ m = x
                 /\ Once(m, Q[d]) /\ ~(In(m, Q[d]) /\ m = x) => Once(m, Append(Q[d], x))
      BY <1>1, InAppend
    <2> QED BY <1>3, <2>1
  <1> QED BY <1>3, <1>4 DEF PutIn

(* A set of natural numbers has a least one. *)
LEMMA Least ==
    ASSUME NEW T \in SUBSET Nat, T # {}
    PROVE  \E x \in T : \A y \in T : ~(y < x)
  <1> DEFINE R == OpToRel(<, Nat)
  <1>1. IsWellFoundedOn(R, Nat)
    BY NatLessThanWellFounded
  <1>2. \A x, y \in Nat : <<y, x>> \in R <=> y < x
    BY SMTT(60) DEF OpToRel
  <1> HIDE DEF R
  <1>3. \E x \in T : \A y \in T : ~(<<y, x>> \in R)
    BY <1>1, WFMin
  <1> QED BY <1>2, <1>3

(* One summand. *)
LEMMA OneSummand ==
    ASSUME NEW x, NEW n \in Nat
    PROVE  IsFiniteSet({x} \X (1 .. n)) /\ Cardinality({x} \X (1 .. n)) = n
  <1>1. IsFiniteSet({x}) /\ Cardinality({x}) = 1
    BY FS_Singleton
  <1>2. IsFiniteSet(1 .. n) /\ Cardinality(1 .. n) = n
    BY SMTT(60), FS_Interval
  <1>3. /\ IsFiniteSet({x} \X (1 .. n))
        /\ Cardinality({x} \X (1 .. n)) = Cardinality({x}) * Cardinality(1 .. n)
    BY <1>1, <1>2, FS_Product
  <1> QED BY SMTT(60), <1>1, <1>2, <1>3

(* The pairs of a function. *)
LEMMA UnitsOf ==
    ASSUME NEW D, NEW f \in [D -> Nat], NEW u
    PROVE  u \in Units(f) <=> \E x \in D : u \in {x} \X (1 .. f[x])
  BY DEF Units

(* The pairs of a function on a finite set are finitely many. *)
LEMMA SumType ==
    ASSUME NEW D, IsFiniteSet(D), NEW f \in [D -> Nat]
    PROVE  IsFiniteSet(Units(f)) /\ Sum(f) \in Nat
  <1> DEFINE P == {{x} \X (1 .. f[x]) : x \in D}
             g == [x \in D |-> {x} \X (1 .. f[x])]
  <1>1. g \in Surjection(D, P)
    BY DEF Surjection
  <1>2. IsFiniteSet(P)
    <2> HIDE DEF g, P
    <2> QED BY <1>1, FS_Surjection
  <1>3. ASSUME NEW p \in P PROVE IsFiniteSet(p)
    <2>1. PICK x \in D : p = {x} \X (1 .. f[x])
      OBVIOUS
    <2>2. f[x] \in Nat
      OBVIOUS
    <2> QED BY <2>1, <2>2, OneSummand
  <1>4. Units(f) = UNION P
    BY DEF Units
  <1>5. IsFiniteSet(UNION P)
    <2> HIDE DEF P
    <2> QED BY <1>2, <1>3, FS_UNION
  <1> QED BY <1>4, <1>5, FS_CardinalityType DEF Sum

(* A summand that is added. *)
LEMMA SumExtend ==
    ASSUME NEW D, NEW f, NEW g, NEW d, Grows(D, f, g, d)
    PROVE  Sum(g) = Sum(f) + g[d]
  <1> USE DEF Grows
  <1> DEFINE A == Units(f)
             B == {d} \X (1 .. g[d])
  <1>1. g[d] \in Nat
    OBVIOUS
  <1>2. IsFiniteSet(A) /\ Cardinality(A) \in Nat
    BY SumType DEF Sum
  <1>3. IsFiniteSet(B) /\ Cardinality(B) = g[d]
    BY <1>1, OneSummand
  <1>4. Units(g) = A \cup B
    <2>1. ASSUME NEW u PROVE u \in Units(g) <=> u \in A \/ u \in B
      <3>1. u \in A <=> \E x \in D : u \in {x} \X (1 .. f[x])
        BY UnitsOf
      <3>2. u \in Units(g) <=> \E x \in D \cup {d} : u \in {x} \X (1 .. g[x])
        BY UnitsOf
      <3> QED BY <3>1, <3>2
    <2> QED BY <2>1
  <1>5. A \cap B = {}
    <2> SUFFICES ASSUME NEW u \in A, u \in B PROVE FALSE
      OBVIOUS
    <2>1. PICK x \in D : u \in {x} \X (1 .. f[x])
      BY UnitsOf
    <2>2. u[1] = x /\ u[1] = d
      BY <2>1
    <2> QED BY <2>2
  <1>6. Cardinality(A \cup B) = Cardinality(A) + Cardinality(B) - Cardinality({})
    <2> HIDE DEF A, B
    <2> QED BY SMTT(60), <1>2, <1>3, <1>5, FS_Union
  <1> QED BY SMTT(60), <1>1, <1>2, <1>3, <1>4, <1>6, FS_EmptySet DEF Sum

(* A summand that is changed. *)
LEMMA SumChange ==
    ASSUME NEW D, NEW f, NEW g, NEW d, Changes(D, f, g, d)
    PROVE  Sum(g) = Sum(f) - f[d] + g[d]
  <1> USE DEF Changes
  <1> DEFINE E == D \ {d}
             h == [x \in E |-> f[x]]
  <1>1. IsFiniteSet(E) /\ E \cup {d} = D /\ d \notin E
    BY FS_RemoveElement
  <1>2. h \in [E -> Nat] /\ \A x \in E : f[x] = h[x] /\ g[x] = h[x]
    OBVIOUS
  <1>3. Sum(f) = Sum(h) + f[d] /\ Sum(g) = Sum(h) + g[d]
    <2> HIDE DEF E, h
    <2>1. f \in [E \cup {d} -> Nat] /\ g \in [E \cup {d} -> Nat]
      BY <1>1
    <2>2. Grows(E, h, f, d) /\ Grows(E, h, g, d)
      BY <1>1, <1>2, <2>1 DEF Grows
    <2> QED BY SMTT(60), <2>2, SumExtend
  <1>4. Sum(h) \in Nat /\ f[d] \in Nat /\ g[d] \in Nat
    BY <1>1, <1>2, SumType
  <1> QED BY SMTT(60), <1>3, <1>4

(* Two summands that are changed. *)
LEMMA SumChangeTwo ==
    ASSUME NEW D, NEW f, NEW g, NEW d, NEW e, ChangesTwo(D, f, g, d, e)
    PROVE  Sum(g) = Sum(f) - f[d] - f[e] + g[d] + g[e]
  <1> USE DEF ChangesTwo
  <1> DEFINE h == [f EXCEPT ![d] = g[d]]
  <1>1. /\ h \in [D -> Nat] /\ h[d] = g[d] /\ h[e] = f[e]
        /\ \A x \in D \ {d} : h[x] = f[x]
        /\ \A x \in D \ {e} : g[x] = h[x]
    OBVIOUS
  <1> HIDE DEF h
  <1>2. Changes(D, f, h, d) /\ Changes(D, h, g, e)
    BY <1>1 DEF Changes
  <1>3. Sum(h) = Sum(f) - f[d] + h[d] /\ Sum(g) = Sum(h) - h[e] + g[e]
    BY SMTT(60), <1>2, SumChange
  <1>4. /\ Sum(f) \in Nat /\ Sum(h) \in Nat /\ f[d] \in Nat /\ f[e] \in Nat
        /\ g[d] \in Nat /\ g[e] \in Nat
    BY <1>1, SumType
  <1> QED BY SMTT(60), <1>1, <1>3, <1>4

(* A sum of nothing but zeros. *)
LEMMA SumZero ==
    ASSUME NEW D, NEW f \in [D -> Nat], \A x \in D : f[x] = 0
    PROVE  Sum(f) = 0
  <1>1. \A x \in D : 1 .. f[x] = {}
    BY SMTT(60)
  <1>2. ASSUME NEW u \in Units(f) PROVE FALSE
    <2>1. PICK x \in D : u \in {x} \X (1 .. f[x])
      BY UnitsOf
    <2> QED BY <1>1, <2>1
  <1>3. Units(f) = {}
    BY <1>2
  <1> QED BY <1>3, FS_EmptySet DEF Sum

(* No summand is larger than the sum. *)
LEMMA SumAtLeast ==
    ASSUME NEW D, IsFiniteSet(D), NEW f \in [D -> Nat], NEW d \in D
    PROVE  f[d] <= Sum(f)
  <1> DEFINE A == {d} \X (1 .. f[d])
  <1>1. f[d] \in Nat
    OBVIOUS
  <1>2. IsFiniteSet(Units(f)) /\ Cardinality(A) = f[d]
    BY <1>1, OneSummand, SumType
  <1>3. A \in SUBSET Units(f)
    BY DEF Units
  <1> HIDE DEF A
  <1>4. Cardinality(A) <= Cardinality(Units(f))
    BY <1>2, <1>3, FS_Subset
  <1> QED BY <1>2, <1>4 DEF Sum

(* A queue of numbers that grows at its end. *)
LEMMA SumAppend ==
    ASSUME NEW s \in Seq(Nat), NEW n \in Nat
    PROVE  Sum(Append(s, n)) = Sum(s) + n
  <1> DEFINE D == 1 .. Len(s)
             d == Len(s) + 1
             g == Append(s, n)
  <1>1. Len(s) \in Nat /\ s \in [D -> Nat]
    BY SMTT(60)
  <1>2. d \notin D /\ 1 .. d = D \cup {d}
    BY SMTT(60), <1>1
  <1>3. g \in [1 .. d -> Nat] /\ g[d] = n /\ \A x \in D : g[x] = s[x]
    <2>1. /\ g \in Seq(Nat) /\ Len(g) = d /\ g[d] = n
          /\ \A x \in D : g[x] = s[x]
      BY SMTT(60), AppendIs
    <2> HIDE DEF g, d
    <2> QED BY <2>1, LengthIs
  <1>4. IsFiniteSet(D)
    BY SMTT(60), <1>1, FS_Interval
  <1> HIDE DEF D, d, g
  <1>5. Sum(g) = Sum(s) + g[d]
    <2>1. g \in [D \cup {d} -> Nat]
      BY <1>2, <1>3
    <2>2. Grows(D, s, g, d)
      BY <1>1, <1>2, <1>3, <1>4, <2>1 DEF Grows
    <2> QED BY SMTT(60), <2>2, SumExtend
  <1> QED BY <1>3, <1>5 DEF g

(* A queue of numbers whose head is taken. *)
LEMMA SumTail ==
    ASSUME NEW s \in Seq(Nat), s # <<>>
    PROVE  Sum(Tail(s)) = Sum(s) - Head(s)
  <1> DEFINE t == Tail(s)
             N == Len(t)
             C == 2 .. N + 1
             h == [i \in C |-> s[i]]
             A == Units(t)
             B == Units(h)
             f == [u \in A |-> <<u[1] + 1, u[2]>>]
  <1>1. /\ N \in Nat /\ t \in [1 .. N -> Nat] /\ s \in [1 .. N + 1 -> Nat]
        /\ Head(s) = s[1] /\ \A i \in 1 .. N : t[i] = s[i + 1]
    <2>1. t \in Seq(Nat) /\ N = Len(s) - 1 /\ \A i \in 1 .. N : t[i] = s[i + 1]
      BY TailIs
    <2>2. s \in [1 .. Len(s) -> Nat] /\ Len(s) \in Nat
      BY LengthIs
    <2> HIDE DEF t
    <2>3. N \in Nat /\ t \in [1 .. N -> Nat]
      BY <2>1, LengthIs
    <2> HIDE DEF N
    <2>4. N + 1 = Len(s)
      BY SMTT(60), <2>1, <2>2, <2>3
    <2>5. Head(s) = s[1]
      BY SMTT(60)
    <2> QED BY <2>1, <2>2, <2>3, <2>4, <2>5
  <1>2. IsFiniteSet(1 .. N) /\ IsFiniteSet(C) /\ C \cup {1} = 1 .. N + 1 /\ 1 \notin C
    BY SMTT(60), <1>1, FS_Interval
  <1>3. h \in [C -> Nat] /\ \A i \in C : s[i] = h[i]
    BY SMTT(60), <1>1
  <1>4. Sum(s) = Sum(h) + s[1]
    <2> HIDE DEF C, h, N, t
    <2>1. s \in [C \cup {1} -> Nat]
      BY <1>1, <1>2
    <2>2. Grows(C, h, s, 1)
      BY <1>2, <1>3, <2>1 DEF Grows
    <2> QED BY SMTT(60), <2>2, SumExtend
  <1>5. \A u : u \in A <=> \E x \in 1 .. N : u \in {x} \X (1 .. t[x])
    <2> HIDE DEF N, t
    <2> QED BY <1>1, UnitsOf
  <1>6. \A u : u \in B <=> \E x \in C : u \in {x} \X (1 .. h[x])
    <2> HIDE DEF C, h
    <2> QED BY <1>3, UnitsOf
  <1>7. ASSUME NEW u \in A PROVE f[u] \in B
    <2>1. PICK x \in 1 .. N : u \in {x} \X (1 .. t[x])
      BY <1>5
    <2>2. x + 1 \in C /\ h[x + 1] = t[x] /\ u[1] = x
      BY SMTT(60), <1>1, <2>1
    <2>3. <<u[1] + 1, u[2]>> \in {x + 1} \X (1 .. h[x + 1])
      BY <2>1, <2>2
    <2> QED BY <1>6, <2>2, <2>3
  <1>8. ASSUME NEW v \in B PROVE \E u \in A : f[u] = v
    <2>1. PICK y \in C : v \in {y} \X (1 .. h[y])
      BY <1>6
    <2> DEFINE u == <<y - 1, v[2]>>
    <2>2. /\ y - 1 \in 1 .. N /\ t[y - 1] = h[y] /\ y - 1 + 1 = y
          /\ v = <<y, v[2]>> /\ v[2] \in 1 .. h[y]
      BY SMTT(60), <1>1, <2>1
    <2>3. u \in {y - 1} \X (1 .. t[y - 1])
      BY <2>2
    <2>4. u \in A
      BY <1>5, <2>2, <2>3
    <2>5. f[u] = <<y, v[2]>>
      BY <2>2, <2>4
    <2> QED BY <2>2, <2>4, <2>5
  <1>9. ASSUME NEW u \in A, NEW v \in A, f[u] = f[v] PROVE u = v
    <2>1. PICK x \in 1 .. N : u \in {x} \X (1 .. t[x])
      BY <1>5
    <2>2. PICK y \in 1 .. N : v \in {y} \X (1 .. t[y])
      BY <1>5
    <2>3. u = <<x, u[2]>> /\ v = <<y, v[2]>> /\ f[u] = <<x + 1, u[2]>> /\ f[v] = <<y + 1, v[2]>>
      BY SMTT(60), <2>1, <2>2
    <2>4. <<x + 1, u[2]>> = <<y + 1, v[2]>>
      BY <1>9, <2>3
    <2>5. x = y /\ u[2] = v[2]
      BY SMTT(60), <2>4
    <2> QED BY <2>3, <2>5
  <1>10. ExistsBijection(A, B)
    <2>1. f \in Injection(A, B)
      <3> HIDE DEF A, B
      <3> QED BY <1>7, <1>9 DEF Injection, IsInjective
    <2>2. f \in Surjection(A, B)
      <3> HIDE DEF A, B
      <3> QED BY <1>7, <1>8 DEF Surjection
    <2> QED BY <2>1, <2>2 DEF ExistsBijection, Bijection
  <1>11. Sum(h) = Sum(t) /\ Sum(t) \in Nat /\ s[1] \in Nat
    <2>1. IsFiniteSet(A) /\ Sum(t) \in Nat
      <3> HIDE DEF N, t
      <3> QED BY <1>1, <1>2, SumType
    <2>2. Cardinality(B) = Cardinality(A)
      <3> HIDE DEF A, B
      <3> QED BY <1>10, <2>1, FS_Bijection
    <2>3. s[1] \in Nat
      BY SMTT(60), <1>1
    <2> QED BY <2>1, <2>2, <2>3 DEF Sum
  <1> QED BY SMTT(60), <1>1, <1>4, <1>11
=============================================================================
