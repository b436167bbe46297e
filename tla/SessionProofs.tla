--------------------------- MODULE SessionProofs ----------------------------
(***************************************************************************)
(* Proofs about Session for every tree of brokers, every plan and every    *)
(* number of signals: the run levels start when all brokers have joined    *)
(* and are known, the exit code is the one that was asked for, and all     *)
(* brokers follow the same shutdown event.                                 *)
(***************************************************************************)
EXTENDS SessionSteps

USE ZenonT(60)

-----------------------------------------------------------------------------
(* Counting joins.                                                         *)

(* A join weighs its count, an event nothing. *)
LEMMA WeightType == ASSUME NEW m \in Message
    PROVE /\ Weight(m) \in Nat /\ (m \in Shutdowns => Weight(m) = 0)
          /\ m \in Joins => Weight(m) = m.n
          /\ m.t = "join" => Weight(m) > 0
  <1>1. 0 \in Nat
    BY SMTT(60)
  <1>2. CASE m \in Joins
    <2>1. m.n > 0 /\ m.n \in Nat /\ m.t = "join" /\ m \notin Shutdowns
      BY SMTT(60), <1>2, Kinds
    <2> QED BY <2>1 DEF Weight
  <1>3. CASE m \in Shutdowns
    <2>1. m.t = "shutdown" /\ m \notin Joins
      BY <1>3, Kinds
    <2> QED BY <1>1, <2>1 DEF Weight
  <1> QED BY <1>2, <1>3 DEF Message

(* The weights of a queue of messages. *)
LEMMA WeightsType ==
    ASSUME NEW q \in Seq(Message)
    PROVE  /\ Weights(q) \in Seq(Nat) /\ InQueue(q) \in Nat
           /\ Weights(q) \in [1 .. Len(q) -> Nat] /\ IsFiniteSet(1 .. Len(q)) /\ DOMAIN q = 1 .. Len(q)
  <1>1. Len(q) \in Nat /\ DOMAIN q = 1 .. Len(q) /\ \A i \in DOMAIN q : q[i] \in Message
    BY SMTT(60), LengthIs
  <1>2. \A i \in DOMAIN q : Weight(q[i]) \in Nat
    BY <1>1, WeightType
  <1>3. Weights(q) \in [1 .. Len(q) -> Nat]
    BY <1>1, <1>2 DEF Weights
  <1>4. IsFiniteSet(1 .. Len(q))
    BY SMTT(60), <1>1, FS_Interval
  <1> DEFINE s == Weights(q)
             n == Len(q)
  <1>5. n \in Nat /\ s \in [1 .. n -> Nat]
    BY <1>1, <1>3
  <1> HIDE DEF s, n
  <1>6. s \in Seq(Nat)
    BY SMTT(60), <1>5
  <1>7. Sum(s) \in Nat
    BY <1>3, <1>4, SumType DEF s
  <1> QED BY <1>1, <1>3, <1>4, <1>6, <1>7 DEF s, InQueue

(* The empty queue weighs nothing. *)
LEMMA WeightsEmpty == InQueue(<<>>) = 0
  <1>1. DOMAIN <<>> = {}
    BY SMTT(60)
  <1>2. Weights(<<>>) \in [{} -> Nat]
    BY <1>1 DEF Weights
  <1>3. Sum(Weights(<<>>)) = 0
    BY <1>2, SumZero
  <1> QED BY <1>3 DEF InQueue

(* A message that is appended brings its weight. *)
LEMMA WeightsAppend ==
    ASSUME NEW q \in Seq(Message), NEW x \in Message
    PROVE  InQueue(Append(q, x)) = InQueue(q) + Weight(x)
  <1>1. Weights(q) \in Seq(Nat) /\ Weight(x) \in Nat
    BY WeightsType, WeightType
  <1>2. Weights(Append(q, x)) = Append(Weights(q), Weight(x))
    BY SMTT(60) DEF Weights
  <1>3. Sum(Append(Weights(q), Weight(x))) = Sum(Weights(q)) + Weight(x)
    <2> DEFINE s == Weights(q)
               n == Weight(x)
    <2>1. s \in Seq(Nat) /\ n \in Nat
      BY <1>1
    <2> HIDE DEF s, n
    <2>2. Sum(Append(s, n)) = Sum(s) + n
      BY <2>1, SumAppend
    <2> QED BY <2>2 DEF s, n
  <1> QED BY <1>2, <1>3 DEF InQueue

(* A message that is taken takes its weight along. *)
LEMMA WeightsTail ==
    ASSUME NEW q \in Seq(Message), q # <<>>
    PROVE  InQueue(q) = InQueue(Tail(q)) + Weight(Head(q))
  <1> DEFINE s == Weights(q)
  <1>1. s \in Seq(Nat) /\ Sum(s) \in Nat
    BY WeightsType DEF InQueue
  <1>2. Weights(Tail(q)) = Tail(s) /\ s # <<>> /\ Head(s) = Weight(Head(q))
    BY SMTT(60) DEF Weights
  <1>3. Weight(Head(q)) \in Nat
    BY TailIs, WeightType
  <1>4. InQueue(q) = Sum(s) /\ InQueue(Tail(q)) = Sum(Weights(Tail(q)))
    BY DEF InQueue
  <1> HIDE DEF s
  <1>5. Sum(Tail(s)) = Sum(s) - Head(s)
    BY SMTT(60), <1>1, <1>2, SumTail
  <1> DEFINE a == Sum(s)
             b == Sum(Tail(s))
             c == Weight(Head(q))
  <1>6. a \in Nat /\ c \in Nat /\ b = a - c
    BY <1>1, <1>2, <1>3, <1>5
  <1>7. InQueue(q) = a /\ InQueue(Tail(q)) = b
    BY <1>2, <1>4
  <1> HIDE DEF a, b, c
  <1>8. a = b + c
    BY SMTT(60), <1>6
  <1> QED BY <1>7, <1>8 DEF c

(* A queue with a join has a weight. *)
LEMMA WeightsJoin ==
    ASSUME NEW q \in Seq(Message), HasJoin(q)
    PROVE  InQueue(q) > 0
  <1>1. PICK i \in DOMAIN q : q[i].t = "join"
    BY DEF HasJoin
  <1>2. q[i] \in Message /\ i \in 1 .. Len(q)
    BY LengthIs
  <1>3. Weights(q)[i] = Weight(q[i]) /\ Weight(q[i]) > 0 /\ Weight(q[i]) \in Nat
    BY <1>1, <1>2, WeightType DEF Weights
  <1>4. Weights(q)[i] <= InQueue(q) /\ InQueue(q) \in Nat
    BY <1>2, WeightsType, SumAtLeast DEF InQueue
  <1> QED BY SMTT(60), <1>3, <1>4

-----------------------------------------------------------------------------
(* What is counted at the brokers.                                         *)

At(S, r) == S.red[r].items + InQueue(S.up[r]) + InQueue(S.local[r])
Amount(S) == S.total + Sum(Pending(S))

(* What is counted at a broker is a number. *)
LEMMA AtType ==
    ASSUME NEW S \in States, NEW r \in Rank
    PROVE  /\ S.red[r].items \in Nat /\ InQueue(S.up[r]) \in Nat /\ InQueue(S.local[r]) \in Nat
           /\ At(S, r) \in Nat /\ Pending(S)[r] = At(S, r)
  <1>1. S.red[r].items \in Nat /\ S.up[r] \in Seq(Message) /\ S.local[r] \in Seq(Message)
    BY DEF States, Reduce
  <1>2. InQueue(S.up[r]) \in Nat /\ InQueue(S.local[r]) \in Nat
    BY <1>1, WeightsType
  <1>3. At(S, r) \in Nat
    BY SMTT(60), <1>1, <1>2 DEF At
  <1> QED BY <1>1, <1>2, <1>3 DEF Pending, At

(* So is the sum over the brokers. *)
LEMMA PendingType ==
    ASSUME NEW S \in States
    PROVE  Pending(S) \in [Rank -> Nat] /\ Sum(Pending(S)) \in Nat
  <1>1. \A r \in Rank : At(S, r) \in Nat
    BY AtType
  <1>2. Pending(S) = [r \in Rank |-> At(S, r)]
    BY DEF Pending, At
  <1>3. Pending(S) \in [Rank -> Nat]
    BY <1>1, <1>2
  <1> QED BY <1>3, SumType, SessionAssumption

(* What changes at one broker changes the sum. *)
LEMMA AmountChange ==
    ASSUME NEW S \in States, NEW T \in States, NEW r \in Rank,
           \A k \in Rank : k # r => At(T, k) = At(S, k)
    PROVE  /\ Sum(Pending(T)) = Sum(Pending(S)) - At(S, r) + At(T, r)
           /\ Sum(Pending(T)) \in Nat /\ Sum(Pending(S)) \in Nat
           /\ At(S, r) \in Nat /\ At(T, r) \in Nat /\ S.total \in Nat /\ T.total \in Nat
  <1>1. Changes(Rank, Pending(S), Pending(T), r)
    <2>1. \A x \in Rank \ {r} : Pending(T)[x] = Pending(S)[x]
      BY AtType
    <2> QED BY <2>1, PendingType, SessionAssumption DEF Changes
  <1>2. Sum(Pending(T)) = Sum(Pending(S)) - Pending(S)[r] + Pending(T)[r]
    <2> DEFINE f == Pending(S)
               g == Pending(T)
    <2>1. Changes(Rank, f, g, r)
      BY <1>1
    <2> HIDE DEF f, g
    <2>2. Sum(g) = Sum(f) - f[r] + g[r]
      BY SMTT(60), <2>1, SumChange
    <2> QED BY <2>2 DEF f, g
  <1>3. Pending(S)[r] = At(S, r) /\ Pending(T)[r] = At(T, r) /\ At(S, r) \in Nat /\ At(T, r) \in Nat
    BY AtType
  <1> QED BY <1>2, <1>3, PendingType DEF States

(* The amount is a matter of counts and queues. *)
LEMMA AmountSame ==
    ASSUME NEW S, NEW T, T.red = S.red, T.up = S.up, T.local = S.local, T.total = S.total
    PROVE  Amount(T) = Amount(S)
  BY DEF Amount, Pending

(* A message in a queue brings its weight, and takes it along. *)
LEMMA QueuePut ==
    ASSUME NEW Q \in [Rank -> Seq(Message)], NEW P, NEW r \in Rank, NEW m \in Message,
           PutIn(Rank, Message, Q, P, r, m)
    PROVE  /\ InQueue(P[r]) = InQueue(Q[r]) + Weight(m)
           /\ \A k \in Rank : k # r => P[k] = Q[k]
  <1>1. Q[r] \in Seq(Message) /\ P[r] = Append(Q[r], m) /\ \A k \in Rank : k # r => P[k] = Q[k]
    BY DEF PutIn
  <1>2. InQueue(Append(Q[r], m)) = InQueue(Q[r]) + Weight(m)
    BY <1>1, WeightsAppend
  <1> QED BY <1>1, <1>2

(* A message that leaves a queue takes its weight along. *)
LEMMA QueueTake ==
    ASSUME NEW Q \in [Rank -> Seq(Message)], NEW P, NEW r \in Rank, Q[r] # <<>>,
           Taken(Rank, Message, Q, P, r)
    PROVE  /\ InQueue(Q[r]) = InQueue(P[r]) + Weight(Head(Q[r]))
           /\ \A k \in Rank : k # r => P[k] = Q[k]
  <1>1. Q[r] \in Seq(Message) /\ P[r] = Tail(Q[r]) /\ \A k \in Rank : k # r => P[k] = Q[k]
    BY DEF Taken
  <1>2. InQueue(Q[r]) = InQueue(Tail(Q[r])) + Weight(Head(Q[r]))
    BY <1>1, WeightsTail
  <1> QED BY <1>1, <1>2

(* The amount grows by n at broker r. *)
LEMMA AmountUp ==
    ASSUME NEW S \in States, NEW T \in States, NEW r \in Rank, NEW n \in Nat,
           \A k \in Rank : k # r => At(T, k) = At(S, k),
           T.total + At(T, r) = S.total + At(S, r) + n
    PROVE  Amount(T) = Amount(S) + n /\ Amount(S) \in Nat
  <1> DEFINE a == Sum(Pending(S))
             b == Sum(Pending(T))
             x == At(S, r)
             y == At(T, r)
  <1>1. /\ b = a - x + y /\ b \in Nat /\ a \in Nat /\ x \in Nat /\ y \in Nat
        /\ S.total \in Nat /\ T.total \in Nat
    BY AmountChange
  <1>2. T.total + y = S.total + x + n /\ Amount(S) = S.total + a /\ Amount(T) = T.total + b
    BY DEF Amount
  <1> HIDE DEF a, b, x, y
  <1> QED BY SMTT(60), <1>1, <1>2

(* A message to the parent adds its weight. *)
LEMMA AmountPutUp ==
    ASSUME NEW S, NEW T, NEW r \in Rank, NEW m \in Message, SameRest(S, T), T.local = S.local,
           PutIn(Rank, Message, S.up, T.up, r, m)
    PROVE  Amount(T) = Amount(S) + Weight(m) /\ Amount(S) \in Nat
  <1>1. S \in States /\ T \in States /\ T.red = S.red /\ T.total = S.total
    BY DEF SameRest, SameCounts
  <1>2. S.up \in [Rank -> Seq(Message)] /\ S.total \in Nat
    BY <1>1 DEF States
  <1>3. /\ InQueue(T.up[r]) = InQueue(S.up[r]) + Weight(m) /\ Weight(m) \in Nat
        /\ \A k \in Rank : k # r => T.up[k] = S.up[k]
    <2> DEFINE Q == S.up
               P == T.up
    <2>1. Q \in [Rank -> Seq(Message)] /\ PutIn(Rank, Message, Q, P, r, m)
      BY <1>2
    <2> HIDE DEF Q, P
    <2>2. InQueue(P[r]) = InQueue(Q[r]) + Weight(m) /\ \A k \in Rank : k # r => P[k] = Q[k]
      BY <2>1, QueuePut
    <2> QED BY <2>2, WeightType DEF Q, P
  <1>4. \A k \in Rank : k # r => At(T, k) = At(S, k)
    BY <1>1, <1>3 DEF At
  <1>5. T.total + At(T, r) = S.total + At(S, r) + Weight(m)
    <2> DEFINE i == S.red[r].items
               u == InQueue(S.up[r])
               l == InQueue(S.local[r])
    <2>1. i \in Nat /\ u \in Nat /\ l \in Nat
      BY <1>1, AtType
    <2>2. At(S, r) = i + u + l /\ At(T, r) = i + (u + Weight(m)) + l
      BY <1>1, <1>3 DEF At
    <2> HIDE DEF i, u, l
    <2> QED BY SMTT(60), <1>1, <1>2, <1>3, <2>1, <2>2
  <1> QED BY <1>1, <1>3, <1>4, <1>5, AmountUp

(* A message to a handler adds its weight. *)
LEMMA AmountPutLocal ==
    ASSUME NEW S, NEW T, NEW r \in Rank, NEW m \in Message, SameRest(S, T), T.up = S.up,
           PutIn(Rank, Message, S.local, T.local, r, m)
    PROVE  Amount(T) = Amount(S) + Weight(m) /\ Amount(S) \in Nat
  <1>1. S \in States /\ T \in States /\ T.red = S.red /\ T.total = S.total
    BY DEF SameRest, SameCounts
  <1>2. S.local \in [Rank -> Seq(Message)] /\ S.total \in Nat
    BY <1>1 DEF States
  <1>3. /\ InQueue(T.local[r]) = InQueue(S.local[r]) + Weight(m) /\ Weight(m) \in Nat
        /\ \A k \in Rank : k # r => T.local[k] = S.local[k]
    <2> DEFINE Q == S.local
               P == T.local
    <2>1. Q \in [Rank -> Seq(Message)] /\ PutIn(Rank, Message, Q, P, r, m)
      BY <1>2
    <2> HIDE DEF Q, P
    <2>2. InQueue(P[r]) = InQueue(Q[r]) + Weight(m) /\ \A k \in Rank : k # r => P[k] = Q[k]
      BY <2>1, QueuePut
    <2> QED BY <2>2, WeightType DEF Q, P
  <1>4. \A k \in Rank : k # r => At(T, k) = At(S, k)
    BY <1>1, <1>3 DEF At
  <1>5. T.total + At(T, r) = S.total + At(S, r) + Weight(m)
    <2> DEFINE i == S.red[r].items
               u == InQueue(S.up[r])
               l == InQueue(S.local[r])
    <2>1. i \in Nat /\ u \in Nat /\ l \in Nat
      BY <1>1, AtType
    <2>2. At(S, r) = i + u + l /\ At(T, r) = i + u + (l + Weight(m))
      BY <1>1, <1>3 DEF At
    <2> HIDE DEF i, u, l
    <2> QED BY SMTT(60), <1>1, <1>2, <1>3, <2>1, <2>2
  <1> QED BY <1>1, <1>3, <1>4, <1>5, AmountUp

(* A message taken from a child takes its weight along. *)
LEMMA AmountTakeUp ==
    ASSUME NEW S, NEW T, NEW r \in Rank, TakesUp(S, T, r)
    PROVE  Amount(S) = Amount(T) + Weight(Head(S.up[r])) /\ Amount(T) \in Nat
  <1>1. /\ S \in States /\ T \in States /\ T.red = S.red /\ T.total = S.total /\ T.local = S.local
        /\ S.up[r] # <<>> /\ Taken(Rank, Message, S.up, T.up, r)
    BY DEF TakesUp, SameCounts
  <1>2. S.up \in [Rank -> Seq(Message)] /\ S.total \in Nat /\ Head(S.up[r]) \in Message
    BY <1>1 DEF States, Taken
  <1> DEFINE w == Weight(Head(S.up[r]))
  <1>3. /\ InQueue(S.up[r]) = InQueue(T.up[r]) + w /\ w \in Nat
        /\ \A k \in Rank : k # r => T.up[k] = S.up[k]
    <2> DEFINE Q == S.up
               P == T.up
    <2>1. Q \in [Rank -> Seq(Message)] /\ Q[r] # <<>> /\ Taken(Rank, Message, Q, P, r)
      BY <1>1, <1>2
    <2>2. w \in Nat
      BY <1>2, WeightType
    <2> HIDE DEF Q, P
    <2>3. InQueue(Q[r]) = InQueue(P[r]) + Weight(Head(Q[r])) /\ \A k \in Rank : k # r => P[k] = Q[k]
      BY <2>1, QueueTake
    <2> QED BY <2>2, <2>3 DEF Q, P
  <1> HIDE DEF w
  <1>4. \A k \in Rank : k # r => At(S, k) = At(T, k)
    BY <1>1, <1>3 DEF At
  <1>5. S.total + At(S, r) = T.total + At(T, r) + w
    <2> DEFINE i == S.red[r].items
               u == InQueue(T.up[r])
               l == InQueue(S.local[r])
    <2>1. i \in Nat /\ u \in Nat /\ l \in Nat
      BY <1>1, AtType
    <2>2. At(T, r) = i + u + l /\ At(S, r) = i + (u + w) + l
      BY <1>1, <1>3 DEF At
    <2> HIDE DEF i, u, l
    <2> QED BY SMTT(60), <1>1, <1>2, <1>3, <2>1, <2>2
  <1>6. Amount(S) = Amount(T) + w /\ Amount(T) \in Nat
    BY <1>1, <1>3, <1>4, <1>5, AmountUp
  <1> QED BY <1>6 DEF w

(* A message taken from the own queue takes its weight along. *)
LEMMA AmountTakeLocal ==
    ASSUME NEW S, NEW T, NEW r \in Rank, TakesLocal(S, T, r)
    PROVE  Amount(S) = Amount(T) + Weight(Head(S.local[r])) /\ Amount(T) \in Nat
  <1>1. /\ S \in States /\ T \in States /\ T.red = S.red /\ T.total = S.total /\ T.up = S.up
        /\ S.local[r] # <<>> /\ Taken(Rank, Message, S.local, T.local, r)
    BY DEF TakesLocal, SameRest, SameCounts
  <1>2. S.local \in [Rank -> Seq(Message)] /\ S.total \in Nat /\ Head(S.local[r]) \in Message
    BY <1>1 DEF States, Taken
  <1> DEFINE w == Weight(Head(S.local[r]))
  <1>3. /\ InQueue(S.local[r]) = InQueue(T.local[r]) + w /\ w \in Nat
        /\ \A k \in Rank : k # r => T.local[k] = S.local[k]
    <2> DEFINE Q == S.local
               P == T.local
    <2>1. Q \in [Rank -> Seq(Message)] /\ Q[r] # <<>> /\ Taken(Rank, Message, Q, P, r)
      BY <1>1, <1>2
    <2>2. w \in Nat
      BY <1>2, WeightType
    <2> HIDE DEF Q, P
    <2>3. InQueue(Q[r]) = InQueue(P[r]) + Weight(Head(Q[r])) /\ \A k \in Rank : k # r => P[k] = Q[k]
      BY <2>1, QueueTake
    <2> QED BY <2>2, <2>3 DEF Q, P
  <1> HIDE DEF w
  <1>4. \A k \in Rank : k # r => At(S, k) = At(T, k)
    BY <1>1, <1>3 DEF At
  <1>5. S.total + At(S, r) = T.total + At(T, r) + w
    <2> DEFINE i == S.red[r].items
               u == InQueue(S.up[r])
               l == InQueue(T.local[r])
    <2>1. i \in Nat /\ u \in Nat /\ l \in Nat
      BY <1>1, AtType
    <2>2. At(T, r) = i + u + l /\ At(S, r) = i + u + (l + w)
      BY <1>1, <1>3 DEF At
    <2> HIDE DEF i, u, l
    <2> QED BY SMTT(60), <1>1, <1>2, <1>3, <2>1, <2>2
  <1>6. Amount(S) = Amount(T) + w /\ Amount(T) \in Nat
    BY <1>1, <1>3, <1>4, <1>5, AmountUp
  <1> QED BY <1>6 DEF w

(* What a broker takes of its count is missing from the amount. *)
LEMMA AmountKeeps ==
    ASSUME NEW S \in States, NEW T \in States, NEW r \in Rank, NEW a \in Nat, NEW n \in Nat, Keeps(S, T, r, a, n)
    PROVE  Amount(T) + n = Amount(S) + a /\ Amount(T) \in Nat
  <1>1. /\ T.up = S.up /\ T.local = S.local /\ T.total = S.total
        /\ T.red[r].items + n = S.red[r].items + a
        /\ \A k \in Rank : k # r => T.red[k] = S.red[k]
    BY DEF Keeps, SameQueues
  <1>2. \A k \in Rank : k # r => At(T, k) = At(S, k)
    BY <1>1 DEF At
  <1> DEFINE i == S.red[r].items
             j == T.red[r].items
             u == InQueue(S.up[r])
             l == InQueue(S.local[r])
             x == At(S, r)
             y == At(T, r)
             f == Sum(Pending(S))
             g == Sum(Pending(T))
  <1>3. i \in Nat /\ j \in Nat /\ u \in Nat /\ l \in Nat
    BY AtType
  <1>4. x = i + u + l /\ y = j + u + l /\ j + n = i + a
    BY <1>1 DEF At
  <1>5. g = f - x + y /\ g \in Nat /\ f \in Nat /\ S.total \in Nat
    BY <1>2, AmountChange
  <1>6. Amount(S) = S.total + f /\ Amount(T) = S.total + g
    BY <1>1 DEF Amount
  <1> HIDE DEF i, j, u, l, x, y, f, g
  <1> QED BY SMTT(60), <1>3, <1>4, <1>5, <1>6

(* What a broker passes on is added to it. *)
LEMMA AmountFlushes ==
    ASSUME NEW S, NEW T, NEW r \in Rank, NEW n \in Nat \ {0}, Flushes(S, T, r, n)
    PROVE  Amount(T) = Amount(S) + n
  <1>1. CASE r = 0 /\ Totals(S, T, n)
    <2>1. /\ S \in States /\ T \in States /\ T.red = S.red /\ T.up = S.up /\ T.local = S.local
          /\ T.total = S.total + n
      BY <1>1 DEF Totals, SameQueues
    <2>2. \A k \in Rank : At(T, k) = At(S, k)
      BY <2>1 DEF At
    <2>3. T.total + At(T, r) = S.total + At(S, r) + n
      <3> DEFINE x == At(S, r)
      <3>1. x \in Nat /\ S.total \in Nat /\ At(T, r) = x
        BY <2>1, <2>2, AtType DEF States
      <3> HIDE DEF x
      <3>2. T.total + x = S.total + x + n
        BY SMTT(60), <2>1, <3>1
      <3> QED BY <3>1, <3>2 DEF x
    <2> QED BY <2>1, <2>2, <2>3, AmountUp
  <1>2. CASE /\ SameRest(S, T) /\ T.local = S.local
             /\ PutIn(Rank, Message, S.up, T.up, r, Join(n))
    <2>1. Join(n) \in Joins /\ Join(n).n = n
      BY DEF Join, Joins
    <2>2. Weight(Join(n)) = n /\ Join(n) \in Message
      BY <2>1, Kinds, WeightType
    <2>3. Amount(T) = Amount(S) + Weight(Join(n))
      BY <1>2, <2>2, AmountPutUp
    <2> QED BY <2>2, <2>3
  <1> QED BY <1>1, <1>2 DEF Flushes

(* A count of a that comes to a broker is kept or passed on. *)
LEMMA AmountReduces ==
    ASSUME NEW S \in States, NEW T, NEW r \in Rank, NEW a \in Nat, Reduces(S, T, r, a)
    PROVE  Amount(T) = Amount(S) + a
  <1>1. PICK M \in States, n \in Nat :
          /\ Keeps(S, M, r, a, n)
          /\ (n = 0 /\ T = M) \/ (n \in Nat \ {0} /\ Flushes(M, T, r, n))
    BY DEF Reduces
  <1>2. Amount(M) + n = Amount(S) + a /\ Amount(M) \in Nat
    BY <1>1, AmountKeeps
  <1>3. CASE n = 0 /\ T = M
    BY SMTT(60), <1>2, <1>3
  <1>4. CASE n \in Nat \ {0} /\ Flushes(M, T, r, n)
    <2>1. Amount(T) = Amount(M) + n
      BY <1>4, AmountFlushes
    <2> QED BY <1>2, <2>1
  <1> QED BY <1>1, <1>3, <1>4

(* At most all brokers are on. *)
LEMMA OnType ==
    ASSUME NEW R
    PROVE  /\ Cardinality(On(R)) \in Nat /\ Cardinality(Rank) \in Nat
           /\ Cardinality(On(R)) <= Cardinality(Rank)
           /\ Cardinality(On(R)) = Cardinality(Rank) => On(R) = Rank
  <1>1. On(R) \in SUBSET Rank
    BY DEF On
  <1> QED BY <1>1, SessionAssumption, FS_Subset, FS_CardinalityType

(* Counted in terms of the amount. *)
LEMMA CountedIs ==
    ASSUME NEW S, NEW R
    PROVE  Counted(S, R) <=> /\ Amount(S) = Cardinality(On(R))
                             /\ S.level > 0 => S.total = Cardinality(Rank)
  BY DEF Counted, Amount

(* A count that is kept or passed on is still counted once; the total is   *)
(* complete only once, from level 0.                                       *)
LEMMA CountedReduces ==
    ASSUME NEW S \in States, NEW T, NEW Q, NEW r \in Rank, NEW a \in Nat, Reduces(S, T, r, a),
           Amount(S) + a = Cardinality(On(Q)), S.level > 0 => S.total = Cardinality(Rank)
    PROVE  /\ Counted(T, Q)
           /\ T.total = Cardinality(Rank) /\ T.total # S.total => S.level = 0
  <1> DEFINE c == Cardinality(Rank)
             o == Cardinality(On(Q))
             g == Sum(Pending(T))
  <1>1. T \in States /\ ((T.total = S.total /\ T.level = S.level)
                         \/ (T.total > S.total /\ (T.total # c => T.level = S.level)))
    BY LevelReduces
  <1>2. Amount(T) = o
    BY AmountReduces
  <1>3. Amount(T) = T.total + g /\ g \in Nat
    BY <1>1, PendingType DEF Amount
  <1>4. o \in Nat /\ c \in Nat /\ o <= c
    BY OnType
  <1>5. T.total \in Nat /\ S.total \in Nat /\ S.level \in Nat /\ T.level \in Nat
    <2>1. S.level \in 0 .. 3 /\ T.level \in 0 .. 3 /\ T.total \in Nat /\ S.total \in Nat
      BY <1>1 DEF States
    <2> QED BY SMTT(60), <2>1
  <1> HIDE DEF o, g
  <1>6. /\ T.level > 0 => T.total = c
        /\ T.total = c /\ T.total # S.total => S.level = 0
    <2> HIDE DEF c
    <2>1. S.level > 0 => S.total = c
      BY DEF c
    <2>2. T.total <= c
      BY SMTT(60), <1>2, <1>3, <1>4, <1>5
    <2> QED BY SMTT(60), <1>1, <1>4, <1>5, <2>1, <2>2
  <1> QED BY <1>2, <1>6, CountedIs DEF o

(* When the levels have started everybody is on, and known. *)
LEMMA WiredUp ==
    ASSUME NEW S \in States, NEW R, Counted(S, R), Known(S, R), S.level > 0
    PROVE  Wired(S) /\ \A r \in Rank : R[r] # "off"
  <1> DEFINE f == Pending(S)
             c == Cardinality(Rank)
             o == Cardinality(On(R))
             g == Sum(f)
  <1>1. S.total = c /\ S.total + g = o /\ g \in Nat /\ S.total \in Nat
    BY PendingType DEF Counted, States
  <1>2. o \in Nat /\ c \in Nat /\ o <= c /\ (o = c => On(R) = Rank)
    BY OnType
  <1>3. g = 0 /\ o = c
    <2> HIDE DEF g, o, c
    <2> QED BY SMTT(60), <1>1, <1>2
  <1>4. On(R) = Rank
    BY <1>2, <1>3
  <1>5. \A r \in Rank : R[r] # "off"
    BY <1>4 DEF On
  <1>6. ASSUME NEW r \in Rank PROVE ~Sending(S, r)
    <2>1. f \in [Rank -> Nat] /\ f[r] = At(S, r)
      BY PendingType, AtType
    <2> HIDE DEF f
    <2>2. f[r] <= g
      BY <2>1, SumAtLeast, SessionAssumption
    <2> DEFINE i == S.red[r].items
               u == InQueue(S.up[r])
               l == InQueue(S.local[r])
    <2>3. i \in Nat /\ u \in Nat /\ l \in Nat /\ At(S, r) = i + u + l
      BY AtType DEF At
    <2>4. HasJoin(S.up[r]) => u > 0
      <3>1. S.up[r] \in Seq(Message)
        BY DEF States
      <3> QED BY <3>1, WeightsJoin
    <2>5. i + u + l <= 0
      BY <1>3, <2>1, <2>2, <2>3
    <2> HIDE DEF i, u, l
    <2>6. ~(i > 0) /\ ~(u > 0)
      BY SMTT(60), <2>3, <2>5
    <2> QED BY <2>4, <2>6 DEF Sending, i
  <1>7. Wired(S)
    BY <1>5, <1>6, KnownIs DEF Wired
  <1> QED BY <1>5, <1>7

(* Counted is about amount, total and level. *)
LEMMA CountedSame ==
    ASSUME NEW S, NEW T, NEW R, Counted(S, R), T.level > 0 => S.level > 0,
           T.total = S.total, Amount(T) = Amount(S)
    PROVE  Counted(T, R)
  BY CountedIs

(* Events count for nothing. *)
LEMMA CountedPosts ==
    ASSUME NEW S, NEW T, NEW R, NEW r \in Rank, NEW e \in Shutdowns, Counted(S, R), Posts(S, T, r, e)
    PROVE  Counted(T, R)
  <1>1. e \in Message /\ Weight(e) = 0
    BY Kinds, WeightType
  <1>2. SameRest(S, T)
    BY DEF Posts, Passes
  <1>3. Amount(T) = Amount(S) + Weight(e) /\ Amount(S) \in Nat
    <2>1. CASE r = 0 /\ Passes(S, T, 0, e)
      <3>1. T.up = S.up /\ PutIn(Rank, Message, S.local, T.local, 0, e) /\ 0 \in Rank
        BY <2>1 DEF Passes
      <3> QED BY <1>1, <1>2, <3>1, AmountPutLocal
    <2>2. CASE T.local = S.local /\ PutIn(Rank, Message, S.up, T.up, r, e)
      BY <1>1, <1>2, <2>2, AmountPutUp
    <2> QED BY <2>1, <2>2 DEF Posts
  <1>4. Amount(T) = Amount(S)
    <2> DEFINE a == Amount(S)
    <2>1. a \in Nat /\ Amount(T) = a + 0
      BY <1>1, <1>3
    <2> HIDE DEF a
    <2>2. Amount(T) = a
      BY SMTT(60), <2>1
    <2> QED BY <2>2 DEF a
  <1> QED BY <1>2, <1>4, CountedSame DEF SameRest, SameCounts, SameLevel

(* A message of a child is counted at the parent as it was on its way. *)
LEMMA CountedHears ==
    ASSUME NEW S \in States, NEW T, NEW R, NEW r \in Rank, r # 0, Hears(S, T, r), Counted(S, R)
    PROVE  Counted(T, R) /\ T.total = S.total
  <1> DEFINE p == Parent[r]
  <1>0. p \in Rank
    BY SessionAssumption
  <1>1. PICK M \in States, m \in Message :
          /\ TakesUp(S, M, r) /\ m = Head(S.up[r])
          /\ \/ m \in Joins /\ Enqueues(M, T, p, m)
             \/ m \in Shutdowns /\ Posts(M, T, p, m)
    BY DEF Hears
  <1> HIDE DEF p
  <1>2. M.level = S.level /\ M.total = S.total /\ T.level = M.level /\ T.total = M.total
    BY <1>1 DEF TakesUp, Enqueues, Posts, Passes, SameRest, SameCounts, SameLevel
  <1>3. Amount(S) = Amount(M) + Weight(m) /\ Amount(M) \in Nat
    BY <1>1, AmountTakeUp
  <1>4. CASE Enqueues(M, T, p, m)
    <2>1. Amount(T) = Amount(M) + Weight(m)
      <3>1. SameRest(M, T) /\ T.up = M.up /\ PutIn(Rank, Message, M.local, T.local, p, m)
        BY <1>4 DEF Enqueues
      <3> QED BY <1>0, <3>1, AmountPutLocal
    <2> QED BY <1>2, <1>3, <2>1, CountedSame
  <1>5. CASE m \in Shutdowns /\ Posts(M, T, p, m)
    <2>1. Amount(S) = Amount(M)
      <3> DEFINE a == Amount(M)
      <3>1. a \in Nat /\ Amount(S) = a + 0
        BY <1>3, <1>5, WeightType
      <3> HIDE DEF a
      <3>2. Amount(S) = a
        BY SMTT(60), <3>1
      <3> QED BY <3>2 DEF a
    <2>2. Counted(M, R)
      BY <1>2, <2>1, CountedSame
    <2> QED BY <1>0, <1>2, <1>5, <2>2, CountedPosts
  <1> QED BY <1>1, <1>4, <1>5

(* An event of the parent counts for nothing. *)
LEMMA CountedForwards ==
    ASSUME NEW S \in States, NEW T, NEW R, NEW r \in Rank, Forwards(S, T, r), Counted(S, R)
    PROVE  Counted(T, R) /\ T.total = S.total
  <1>1. PICK M \in States, e \in Shutdowns :
          TakesDown(S, M, r) /\ e = Head(S.down[r]) /\ Passes(M, T, r, e)
    BY DEF Forwards
  <1>2. SameRest(S, M) /\ M.up = S.up /\ M.local = S.local /\ SameRest(M, T) /\ T.up = M.up
    BY <1>1 DEF TakesDown, Passes
  <1>3. T.level = S.level /\ T.total = S.total /\ M.total = S.total /\ M.red = S.red
    BY <1>2 DEF SameRest, SameCounts, SameLevel
  <1>4. Amount(M) = Amount(S)
    BY <1>2, <1>3, AmountSame
  <1>5. PutIn(Rank, Message, M.local, T.local, r, e) /\ e \in Message /\ Weight(e) = 0
    BY <1>1, Kinds, WeightType DEF Passes
  <1>6. Amount(T) = Amount(M) + Weight(e) /\ Amount(M) \in Nat
    BY <1>2, <1>5, AmountPutLocal
  <1>7. Amount(T) = Amount(S)
    <2> DEFINE a == Amount(S)
    <2>1. Amount(T) = a + 0 /\ a \in Nat
      BY <1>4, <1>5, <1>6
    <2> HIDE DEF a
    <2>2. Amount(T) = a
      BY SMTT(60), <2>1
    <2> QED BY <2>2 DEF a
  <1> QED BY <1>3, <1>7, CountedSame

(* A join that is served is kept or passed on; an event counts for         *)
(* nothing.                                                                *)
LEMMA CountedServes ==
    ASSUME NEW S \in States, NEW T, NEW R, NEW r \in Rank, Serves(S, T, r), Counted(S, R)
    PROVE  Counted(T, R) /\ FromZero(S, T)
  <1>1. PICK M \in States, m \in Message :
          /\ TakesLocal(S, M, r) /\ m = Head(S.local[r])
          /\ \/ m \in Joins /\ Reduces(M, T, r, m.n)
             \/ m \in Shutdowns /\ Stops(M, T, r, m)
    BY DEF Serves
  <1>2. Amount(S) = Amount(M) + Weight(m) /\ Amount(M) \in Nat
    BY <1>1, AmountTakeLocal
  <1>3. M.level = S.level /\ M.total = S.total
    BY <1>1 DEF TakesLocal, SameRest, SameCounts, SameLevel
  <1>4. Amount(S) = Cardinality(On(R)) /\ (S.level > 0 => S.total = Cardinality(Rank))
    BY CountedIs
  <1>5. CASE m \in Joins /\ Reduces(M, T, r, m.n)
    <2> DEFINE a == m.n
    <2>1. a \in Nat /\ Weight(m) = a /\ Reduces(M, T, r, a)
      BY <1>5, Kinds, WeightType
    <2> HIDE DEF a
    <2>2. Amount(M) + a = Cardinality(On(R)) /\ (M.level > 0 => M.total = Cardinality(Rank))
      BY <1>2, <1>3, <1>4, <2>1
    <2>3. Counted(T, R) /\ (T.total = Cardinality(Rank) /\ T.total # M.total => M.level = 0)
      BY <2>1, <2>2, CountedReduces
    <2> QED BY <1>3, <2>3 DEF FromZero
  <1>6. CASE m \in Shutdowns /\ Stops(M, T, r, m)
    <2>1. T.level = M.level /\ T.red = M.red /\ T.total = M.total /\ T.up = M.up /\ T.local = M.local
      BY <1>6 DEF Stops, SameCounts, SameLevel
    <2>2. Amount(T) = Amount(M)
      BY <2>1, AmountSame
    <2>3. Amount(T) = Amount(S)
      <3> DEFINE a == Amount(M)
      <3>1. Amount(S) = a + 0 /\ a \in Nat
        BY <1>2, <1>6, WeightType
      <3> HIDE DEF a
      <3>2. Amount(S) = a
        BY SMTT(60), <3>1
      <3> QED BY <2>2, <3>2 DEF a
    <2> QED BY <1>3, <2>1, <2>3, CountedSame DEF FromZero
  <1> QED BY <1>1, <1>5, <1>6

(* The end of a script counts nobody. *)
LEMMA CountedEnds ==
    ASSUME NEW S, NEW T, NEW R, NEW l, NEW x, Ends(S, T, l, x), S.level = l, Counted(S, R)
    PROVE  Counted(T, R) /\ T.total = S.total /\ T.level = l
  <1>1. /\ T.total = S.total /\ T.red = S.red /\ T.up = S.up /\ T.local = S.local /\ T.level = l
    BY DEF Ends, SameQueues, SameCounts
  <1>2. Amount(T) = Amount(S)
    BY <1>1, AmountSame
  <1> QED BY <1>1, <1>2, CountedSame

(* A level that is raised counts nobody. *)
LEMMA CountedRaises ==
    ASSUME NEW S, NEW T, NEW R, NEW k, Raises(S, T, k), S.level > 0, Counted(S, R)
    PROVE  Counted(T, R) /\ T.total = S.total
  <1>1. T.total = S.total /\ T.red = S.red /\ T.up = S.up /\ T.local = S.local
    BY DEF Raises, SameQueues, SameCounts
  <1>2. Amount(T) = Amount(S)
    BY <1>1, AmountSame
  <1> QED BY <1>1, <1>2, CountedSame

(* A shutdown counts nobody. *)
LEMMA CountedArms ==
    ASSUME NEW S \in States, NEW T, NEW R, NEW r \in Rank, NEW code, NEW by,
           Arms(S, T, r, code, by), Counted(S, R)
    PROVE  Counted(T, R) /\ T.total = S.total /\ T.level = S.level
  <1>1. ASSUME NEW e \in Shutdowns, Posts(S, T, r, e)
        PROVE  Counted(T, R) /\ T.total = S.total /\ T.level = S.level
    BY <1>1, CountedPosts DEF Posts, Passes, SameRest, SameCounts, SameLevel
  <1> QED BY <1>1 DEF Arms

(* The end of a script and what it starts count nobody. *)
LEMMA CountedFinishes ==
    ASSUME NEW S, NEW T, NEW R, NEW l \in 1 .. 3, NEW code, Finishes(S, T, l, code), S.level = l,
           Counted(S, R)
    PROVE  Counted(T, R) /\ T.total = S.total
  <1>1. PICK M \in States :
          /\ Ends(S, M, l, code)
          /\ \/ l = 3 /\ T = M
             \/ l = 1 /\ code = "ok" /\ Raises(M, T, 2)
             \/ /\ l = 2 \/ (l = 1 /\ code # "ok")
                /\ \E N \in States : Arms(M, N, 0, code, l) /\ Raises(N, T, 3)
    BY DEF Finishes
  <1>2. Counted(M, R) /\ M.total = S.total /\ M.level = l
    BY <1>1, CountedEnds
  <1>3. M.level > 0
    BY SMTT(60), <1>2
  <1>4. ASSUME NEW N \in States, Arms(M, N, 0, code, l), Raises(N, T, 3)
        PROVE  Counted(T, R) /\ T.total = S.total
    <2>1. Counted(N, R) /\ N.total = M.total /\ N.level = M.level
      BY <1>2, <1>4, CountedArms, SessionAssumption
    <2>2. N.level > 0
      BY <1>3, <2>1
    <2>3. Counted(T, R) /\ T.total = N.total
      BY <1>4, <2>1, <2>2, CountedRaises
    <2> QED BY <1>2, <2>1, <2>3
  <1>5. CASE Raises(M, T, 2)
    <2>1. Counted(T, R) /\ T.total = M.total
      BY <1>2, <1>3, <1>5, CountedRaises
    <2> QED BY <1>2, <2>1
  <1> QED BY <1>1, <1>2, <1>4, <1>5

(* A broker that starts is counted once. *)
LEMMA CountedStart ==
    ASSUME TypeOK, Counted(State, run), NEW r \in Rank, Start(r)
    PROVE  Counted(State', run') /\ FromZero(State, State')
  <1> DEFINE S == State
             T == State'
             Q == [run EXCEPT ![r] = "on"]
  <1>0. 1 \in Nat
    BY SMTT(60)
  <1>1. S \in States /\ Reduces(S, T, r, 1) /\ run' = Q
    BY StateType, StartIs DEF Start
  <1>2. run[r] = "off" /\ Q[r] = "on" /\ \A k \in Rank : k # r => Q[k] = run[k]
    BY DEF Start, TypeOK
  <1> HIDE DEF Q, T, S
  <1>3. On(Q) = On(run) \cup {r} /\ r \notin On(run)
    BY <1>2 DEF On
  <1>4. IsFiniteSet(On(run))
    BY SessionAssumption, FS_Subset DEF On
  <1>5. Cardinality(On(run) \cup {r}) = Cardinality(On(run)) + 1
    BY <1>3, <1>4, FS_AddElement
  <1>6. Amount(S) = Cardinality(On(run)) /\ (S.level > 0 => S.total = Cardinality(Rank))
    BY CountedIs DEF S
  <1>7. Amount(S) + 1 = Cardinality(On(Q))
    BY <1>3, <1>5, <1>6
  <1>8. Counted(T, Q) /\ (T.total = Cardinality(Rank) /\ T.total # S.total => S.level = 0)
    BY <1>0, <1>1, <1>6, <1>7, CountedReduces
  <1> QED BY <1>1, <1>8 DEF S, T, FromZero

(* The timer of reduce.c passes on what was counted. *)
LEMMA CountedReduceTimer ==
    ASSUME TypeOK, Counted(State, run), NEW r \in Rank, ReduceTimer(r)
    PROVE  Counted(State', run') /\ FromZero(State, State')
  <1> DEFINE S == State
             T == State'
  <1>0. 0 \in Nat
    BY SMTT(60)
  <1>1. S \in States /\ Reduces(S, T, r, 0) /\ run' = run
    BY StateType, ReduceTimerIs DEF ReduceTimer
  <1>2. Amount(S) = Cardinality(On(run)) /\ (S.level > 0 => S.total = Cardinality(Rank))
    BY CountedIs
  <1> HIDE DEF T, S
  <1>3. Amount(S) + 0 = Cardinality(On(run))
    <2> DEFINE a == Amount(S)
               o == Cardinality(On(run))
    <2>1. a = o /\ o \in Nat
      BY <1>2, OnType
    <2> HIDE DEF a, o
    <2>2. a + 0 = o
      BY SMTT(60), <2>1
    <2> QED BY <2>2 DEF a, o
  <1>4. Counted(T, run) /\ (T.total = Cardinality(Rank) /\ T.total # S.total => S.level = 0)
    BY <1>0, <1>1, <1>2, <1>3, CountedReduces
  <1> QED BY <1>1, <1>4 DEF S, T, FromZero

(* Every step keeps the counts, and the total is complete once, at level   *)
(* 0.                                                                      *)
LEMMA CountedStep ==
    ASSUME TypeOK, Counted(State, run), Levels(State), Next
    PROVE  Counted(State', run') /\ FromZero(State, State')
  <1>0. State \in States
    BY StateType
  <1>1. ASSUME NEW r \in Rank, Start(r) PROVE Counted(State', run') /\ FromZero(State, State')
    BY <1>1, CountedStart
  <1>2. ASSUME NEW r \in Rank, ReduceTimer(r) PROVE Counted(State', run') /\ FromZero(State, State')
    BY <1>2, CountedReduceTimer
  <1>3. ASSUME NEW r \in Rank, ChildCb(r) PROVE Counted(State', run') /\ FromZero(State, State')
    <2>1. Hears(State, State', r) /\ r # 0 /\ run' = run
      BY <1>3, ChildCbIs DEF ChildCb
    <2>2. Counted(State', run) /\ State'.total = State.total
      BY <1>0, <2>1, CountedHears
    <2> QED BY <2>1, <2>2 DEF FromZero
  <1>4. ASSUME NEW r \in Rank, ParentCb(r) PROVE Counted(State', run') /\ FromZero(State, State')
    <2>1. Forwards(State, State', r) /\ run' = run
      BY <1>4, ParentCbIs DEF ParentCb
    <2>2. Counted(State', run) /\ State'.total = State.total
      BY <1>0, <2>1, CountedForwards
    <2> QED BY <2>1, <2>2 DEF FromZero
  <1>5. ASSUME NEW r \in Rank, Dispatch(r) PROVE Counted(State', run') /\ FromZero(State, State')
    <2>1. Serves(State, State', r) /\ run' = run
      BY <1>5, DispatchIs DEF Dispatch
    <2>2. Counted(State', run) /\ FromZero(State, State')
      BY <1>0, <2>1, CountedServes
    <2> QED BY <2>1, <2>2
  <1>6. ASSUME NEW r \in Rank, GraceTimer(r) PROVE Counted(State', run') /\ FromZero(State, State')
    <2>1. State' = State
      BY <1>6, GraceTimerIs
    <2>2. On(run') = On(run)
      BY <1>6 DEF GraceTimer, TypeOK, On
    <2>3. Counted(State, run')
      BY <2>2, CountedIs
    <2> QED BY <2>1, <2>3 DEF FromZero
  <1>7. ASSUME NEW r \in Rank, SignalCb(r) PROVE Counted(State', run') /\ FromZero(State, State')
    <2>1. Arms(State, State', r, "ok", 0) /\ run' = run
      BY <1>7, SignalCbIs DEF SignalCb
    <2>2. Counted(State', run) /\ State'.total = State.total
      BY <1>0, <2>1, CountedArms
    <2> QED BY <2>1, <2>2 DEF FromZero
  <1>8. ASSUME NEW l \in 1 .. 3, NEW code \in Codes, Completion(l, code)
        PROVE  Counted(State', run') /\ FromZero(State, State')
    <2>1. Finishes(State, State', l, code) /\ State.level = l /\ run' = run
      BY <1>8, CompletionIs DEF Completion, State
    <2>2. Counted(State', run) /\ State'.total = State.total
      BY <2>1, CountedFinishes
    <2> QED BY <2>1, <2>2 DEF FromZero
  <1>9. ASSUME RunlevelTimeout PROVE Counted(State', run') /\ FromZero(State, State')
    <2> DEFINE x == IF State.rc[2] = "run" THEN "killed" ELSE State.rc[2]
    <2>1. Ends(State, State', 2, x) /\ State.level = 2 /\ run' = run
      BY <1>9, RunlevelTimeoutIs DEF Levels, RunlevelTimeout, State
    <2> HIDE DEF x
    <2>2. Counted(State', run) /\ State'.total = State.total
      BY <2>1, CountedEnds
    <2> QED BY <2>1, <2>2 DEF FromZero
  <1> QED BY <1>1, <1>2, <1>3, <1>4, <1>5, <1>6, <1>7, <1>8, <1>9 DEF Next, Inside

(* At first nobody has started and nothing is counted. *)
LEMMA CountedInit ==
    ASSUME Init, State \in States
    PROVE  Counted(State, run)
  <1> DEFINE S == State
  <1>1. /\ \A r \in Rank : /\ S.red[r].items = 0 /\ S.up[r] = <<>> /\ S.local[r] = <<>>
                           /\ run[r] = "off"
        /\ S.total = 0 /\ S.level = 0 /\ S \in States
    BY DEF Init, State
  <1> HIDE DEF S
  <1>2. \A r \in Rank : At(S, r) = 0 + 0 + 0
    BY <1>1, WeightsEmpty DEF At
  <1>3. 0 + 0 + 0 = 0 /\ ~(0 > 0)
    BY SMTT(60)
  <1>4. \A r \in Rank : Pending(S)[r] = 0
    BY <1>1, <1>2, <1>3, AtType
  <1>5. Sum(Pending(S)) = 0
    BY <1>1, <1>4, PendingType, SumZero, SessionAssumption
  <1>6. On(run) = {}
    BY <1>1 DEF On
  <1>7. Cardinality({}) = 0
    BY FS_EmptySet
  <1>8. S.total + Sum(Pending(S)) = 0
    BY SMTT(60), <1>1, <1>5
  <1>9. Counted(S, run)
    BY <1>1, <1>3, <1>6, <1>7, <1>8 DEF Counted
  <1> QED BY <1>9 DEF S

(* The inductive invariant, and the theorems that follow from it. *)
LEMMA InvIs == Inv <=> TypeOK /\ Counted(State, run) /\ Rest(State, run) /\ Exits
  BY DEF Inv, Rest

(* The invariant holds initially. *)
LEMMA InvInit == Init => Inv
  <1> SUFFICES ASSUME Init PROVE Inv
    OBVIOUS
  <1>1. State \in States /\ Rest(State, run)
    BY RestInit
  <1> QED BY <1>1, TypesInit, CountedInit, InvIs

(* Every step keeps the invariant. *)
LEMMA InvStep == Inv /\ [Next]_vars => Inv'
  <1> SUFFICES ASSUME Inv, [Next]_vars PROVE Inv'
    OBVIOUS
  <1>0. TypeOK /\ Counted(State, run) /\ Rest(State, run) /\ Exits /\ State \in States
    BY InvIs, StateType
  <1>1. ASSUME Next PROVE Inv'
    <2>1. Counted(State', run') /\ FromZero(State, State')
      BY <1>0, <1>1, CountedStep DEF Rest
    <2>2. Started(State)
      BY <1>0, WiredUp DEF Rest, Started
    <2>3. Rest(State', run') /\ Stays(State, State')
      BY <1>0, <1>1, <2>1, <2>2, RestStep
    <2>4. State' \in States
      BY <2>3 DEF Stays
    <2>5. TypeOK' /\ Exits'
      BY <1>0, <1>1, <2>3, <2>4, TypesStep, ExitsStep
    <2> QED BY <2>1, <2>3, <2>5 DEF Inv, Rest
  <1> QED BY <1>1, InvStutter

(* The invariant holds throughout: every broker that has started is        *)
(* counted once, at a broker, on its way or in the total; a parent that    *)
(* has not heard from a child will; scripts run one after the other;       *)
(* shutdown events say the truth; and the first wired event comes first    *)
(* everywhere.                                                             *)
THEOREM Invariance == Spec => []Inv
  BY InvInit, InvStep, PTL DEF Spec

(* The run levels start when every broker has joined and is known to its   *)
(* parent, and neither runlevel_set_level() nor the assertion of           *)
(* completion_cb() fails: for every tree, every plan and any number of     *)
(* signals.                                                                *)
THEOREM Wiring == Spec => []WiredFirst
  <1>1. Inv => WiredFirst
    <2> SUFFICES ASSUME Inv PROVE WiredFirst
      OBVIOUS
    <2>1. State \in States /\ Counted(State, run) /\ Rest(State, run)
      BY StateType, InvIs
    <2>2. ~failed
      BY <2>1 DEF Rest, Levels, State
    <2>3. level > 0 => Wired(State) /\ \A r \in Rank : run[r] # "off"
      BY <2>1, WiredUp DEF Rest, State
    <2>4. Wired(State) => \A r \in Rank : r # 0 => r \in known[Parent[r]]
      BY DEF Wired, State
    <2> QED BY <2>2, <2>3, <2>4 DEF WiredFirst
  <1> QED BY <1>1, Invariance, PTL

(* The session's exit code is that of the initial program, or of rc1 when  *)
(* it failed, unless a signal came first.                                  *)
THEOREM Exiting == Spec => []ExitCode
  BY ExitCodeIs, Invariance, PTL

(* All brokers follow the same shutdown event once the session has been    *)
(* wired up.                                                               *)
THEOREM Following == Spec => []OneShutdown
  BY OneShutdownIs, Invariance, PTL
=============================================================================
