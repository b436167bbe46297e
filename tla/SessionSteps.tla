---------------------------- MODULE SessionSteps ----------------------------
(***************************************************************************)
(* What the handlers of a session do to its state, and why the parts of    *)
(* the invariant that need no counting are kept: the run levels, what      *)
(* shutdown events say and where they have come to, and whom the parents   *)
(* have heard from.  A handler is a step from a record S of the variables  *)
(* to a record T.                                                          *)
(***************************************************************************)
EXTENDS Session, Sums

(* The state that the handlers change, as a record. *)
Reduce == [items : Nat, count : Nat, flushed : BOOLEAN, armed : BOOLEAN]
Message == Joins \cup Shutdowns
Stopped == Codes \cup {"none", "run", "killed"}
States == [red : [Rank -> Reduce], up : [Rank -> Seq(Message)],
           down : [Rank -> Seq(Shutdowns)], local : [Rank -> Seq(Message)],
           known : [Rank -> SUBSET Rank], sd : [Rank -> Shutdowns \cup {NoTimer}],
           total : Nat, level : 0 .. 3, rc : [1 .. 3 -> Stopped],
           watch : BOOLEAN, failed : BOOLEAN]

(* The joins counted in a queue, and at a broker. *)
Weight(m) == IF m.t = "join" THEN m.n ELSE 0
Weights(q) == [i \in DOMAIN q |-> Weight(q[i])]
InQueue(q) == Sum(Weights(q))
Pending(S) == [r \in Rank |-> S.red[r].items + InQueue(S.up[r]) + InQueue(S.local[r])]
On(R) == {r \in Rank : R[r] # "off"}

(* Every broker that has started is counted once: at a broker, on its way, *)
(* or in the total.  The levels start when all are.                        *)
Counted(S, R) ==
    /\ S.total + Sum(Pending(S)) = Cardinality(On(R))
    /\ S.level > 0 => S.total = Cardinality(Rank)

(* A broker that its parent has not heard from has its count, or has sent  *)
(* it.  Only children are known.                                           *)
HasJoin(q) == \E i \in DOMAIN q : q[i].t = "join"
Known(S, R) ==
    /\ \A r \in Rank \ {0} :
         R[r] # "off" /\ r \notin S.known[Parent[r]] => S.red[r].items > 0 \/ HasJoin(S.up[r])
    /\ \A p \in Rank : \A c \in S.known[p] : c # 0 /\ Parent[c] = p

(* Scripts run at their level, one after the other. *)
Levels(S) ==
    /\ ~S.failed /\ (S.watch => S.level = 2)
    /\ \A l \in 1 .. 3 : /\ S.rc[l] \in {"run", "killed"} => S.level = l
                         /\ S.level < l => S.rc[l] = "none"
    /\ S.level = 2 => S.rc[1] \in {"ok", "none"}

(* A shutdown says why, and whether the session was wired up. *)
Truth(S, m) ==
    /\ m.wired => S.level > 0
    /\ \/ m.by = 0 /\ m.code = "ok"
       \/ m.by = 1 /\ m.code # "ok" /\ m.code = S.rc[1]
       \/ m.by = 2 /\ m.code = S.rc[2] /\ S.rc[1] \in {"ok", "none"}
Said(S, m) ==
    \E r \in Rank : \/ In(m, S.up[r]) \/ In(m, S.local[r]) \/ In(m, S.down[r])
                    \/ m = S.sd[r]
Truths(S) == \A m \in Shutdowns : Said(S, m) => Truth(S, m)

(* Where the first shutdown event has come to. *)
IsEvent(m) == m.t = "shutdown"
HasEvent(q) == \E i \in DOMAIN q : IsEvent(q[i])
FirstIs(q, e) == \E i \in DOMAIN q : /\ q[i] = e /\ IsEvent(e)
                                     /\ \A j \in DOMAIN q : j < i => ~IsEvent(q[j])
Seen(S, r) == S.sd[r] # NoTimer \/ HasEvent(S.local[r])
First(S, r, e) == IF S.sd[r] # NoTimer THEN S.sd[r] = e ELSE FirstIs(S.local[r], e)
Follows(S, r, e) == /\ Seen(S, r) => First(S, r, e)
                    /\ ~Seen(S, r) /\ S.down[r] # <<>> => Head(S.down[r]) = e
Reached(S, r) == Seen(S, r) \/ S.down[r] # <<>>
OneEvent(S) ==
    /\ S.down[0] = <<>>
    /\ ~Seen(S, 0) => \A r \in Rank : ~Seen(S, r) /\ S.down[r] = <<>>
    /\ \A e \in Shutdowns : Seen(S, 0) /\ First(S, 0, e) /\ e.wired =>
         /\ \A r \in Rank : Follows(S, r, e)
         /\ \A r \in Rank \ {0} : Seen(S, Parent[r]) => Reached(S, r)

(* Rank 0 exits with the code of the shutdown it follows. *)
Exits == run[0] = "stopped" => sd[0] # NoTimer /\ exitrc = sd[0].code

Inv == /\ TypeOK /\ Counted(State, run) /\ Known(State, run) /\ Levels(State)
       /\ Truths(State) /\ OneEvent(State) /\ Exits

USE ZenonT(60)

-----------------------------------------------------------------------------
(* What the handlers do.                                                   *)

(* Everything but the queues and the known children stays. *)
SameCounts(S, T) == T.red = S.red /\ T.total = S.total
SameLevel(S, T) ==
    T.level = S.level /\ T.rc = S.rc /\ T.watch = S.watch /\ T.failed = S.failed
SameRest(S, T) ==
    /\ S \in States /\ T \in States
    /\ SameCounts(S, T) /\ SameLevel(S, T) /\ T.sd = S.sd /\ T.known = S.known

(* Event e is passed by broker r to the children it knows and to itself;   *)
(* or sent by r.                                                           *)
Passes(S, T, r, e) ==
    /\ SameRest(S, T) /\ T.up = S.up
    /\ PutIn(Rank, Message, S.local, T.local, r, e)
    /\ \A c \in Rank :
         T.down[c] = IF c \in S.known[r] THEN Append(S.down[c], e) ELSE S.down[c]
Posts(S, T, r, e) ==
    \/ r = 0 /\ Passes(S, T, 0, e)
    \/ /\ r # 0 /\ SameRest(S, T) /\ T.local = S.local /\ T.down = S.down
       /\ PutIn(Rank, Message, S.up, T.up, r, e)
Arms(S, T, r, code, by) ==
    \/ S.sd[r] # NoTimer /\ T = S
    \/ \E e \in Shutdowns : /\ e.t = "shutdown" /\ e.code = code /\ e.by = by
                            /\ e.wired <=> S.level > 0
                            /\ Posts(S, T, r, e)

(* Only the run level changes, to l, or from 0 over 1 to 2. *)
LevelUp(S, T, l) ==
    /\ T.failed = S.failed /\ (T.level = l \/ (l = 1 /\ T.level = 2))
    /\ T.rc = S.rc \/ T.rc = [S.rc EXCEPT ![T.level] = "run"]
    /\ T.watch => T.level = 2 \/ S.watch
SameQueues(S, T) ==
    /\ S \in States /\ T \in States
    /\ T.sd = S.sd /\ T.known = S.known
    /\ T.up = S.up /\ T.down = S.down /\ T.local = S.local
Raises(S, T, l) == SameQueues(S, T) /\ SameCounts(S, T) /\ LevelUp(S, T, l)

(* Broker r passes a count of n on, or rank 0 adds it to the total. *)
Join(n) == [t |-> "join", n |-> n]
Totals(S, T, n) ==
    /\ SameQueues(S, T) /\ T.red = S.red /\ T.total = S.total + n
    /\ T.total # Cardinality(Rank) => SameLevel(S, T)
    /\ T.total = Cardinality(Rank) /\ S.level = 0 => LevelUp(S, T, 1)
Flushes(S, T, r, n) ==
    \/ r = 0 /\ Totals(S, T, n)
    \/ /\ r # 0 /\ SameRest(S, T) /\ T.local = S.local /\ T.down = S.down
       /\ PutIn(Rank, Message, S.up, T.up, r, Join(n))

(* Of its own count and a more, broker r takes n. *)
Keeps(S, T, r, a, n) ==
    /\ SameQueues(S, T) /\ SameLevel(S, T) /\ T.total = S.total
    /\ T.red[r].items + n = S.red[r].items + a
    /\ \A k \in Rank : k # r => T.red[k] = S.red[k]
Reduces(S, T, r, a) ==
    \E M \in States, n \in Nat :
      /\ Keeps(S, M, r, a, n)
      /\ (n = 0 /\ T = M) \/ (n \in Nat \ {0} /\ Flushes(M, T, r, n))

(* The record of the state has its type. *)
LEMMA StateType == TypeOK => State \in States
  BY DEF TypeOK, State, States, Reduce, Message, Stopped

(* A handler that ends in S makes S the next state. *)
LEMMA Becomes == ASSUME NEW S \in States, Become(S) PROVE State' = S
  BY SMTT(60) DEF Become, State, States

(* handle_event(): the event goes to the known children and to the own     *)
(* queue.                                                                  *)
LEMMA HandleEventIs ==
    ASSUME NEW S \in States, NEW r \in Rank, NEW e \in Shutdowns
    PROVE  Passes(S, HandleEvent(S, r, e), r, e)
  <1> DEFINE M == [c \in Rank |-> IF c \in S.known[r] THEN Append(S.down[c], e) ELSE S.down[c]]
             L == [S.local EXCEPT ![r] = Append(@, e)]
             T == [S EXCEPT !.down = M, !.local = L]
  <1>1. M \in [Rank -> Seq(Shutdowns)]
    BY SMTT(60) DEF States
  <1>2. PutIn(Rank, Message, S.local, L, r, e)
    <2>1. Puts(Rank, Message, S.local, L, r, e)
      BY DEF Puts, States, Message
    <2> HIDE DEF L
    <2> QED BY <2>1, PutInto
  <1>3. HandleEvent(S, r, e) = T
    BY DEF HandleEvent, Multicast, States
  <1>4. \A c \in Rank :
         M[c] = IF c \in S.known[r] THEN Append(S.down[c], e) ELSE S.down[c]
    OBVIOUS
  <1> HIDE DEF M, L
  <1>5. L \in [Rank -> Seq(Message)]
    BY <1>2 DEF PutIn
  <1>6. T \in States /\ SameRest(S, T) /\ T.up = S.up /\ T.local = L /\ T.down = M
    BY <1>1, <1>5 DEF States, SameRest, SameCounts, SameLevel
  <1> HIDE DEF T
  <1> QED BY <1>2, <1>3, <1>4, <1>6 DEF Passes

(* An event is published by rank 0, and sent up by the others. *)
LEMMA EventSendIs ==
    ASSUME NEW S \in States, NEW r \in Rank, NEW e \in Shutdowns
    PROVE  Posts(S, EventSend(S, r, e), r, e)
  <1>1. CASE r > 0
    <2> DEFINE U == [S.up EXCEPT ![r] = Append(@, e)]
               T == [S EXCEPT !.up = U]
    <2>1. PutIn(Rank, Message, S.up, U, r, e)
      <3>1. Puts(Rank, Message, S.up, U, r, e)
        BY DEF Puts, States, Message
      <3> HIDE DEF U
      <3> QED BY <3>1, PutInto
    <2>2. EventSend(S, r, e) = T
      BY <1>1 DEF EventSend, States
    <2> HIDE DEF U
    <2>3. U \in [Rank -> Seq(Message)]
      BY <2>1 DEF PutIn
    <2>4. SameRest(S, T) /\ T.up = U /\ T.local = S.local /\ T.down = S.down
      BY <2>3 DEF States, SameRest, SameCounts, SameLevel
    <2>5. r # 0
      BY SMTT(60), <1>1, SessionAssumption
    <2> QED BY <2>1, <2>2, <2>4, <2>5 DEF Posts
  <1>2. CASE ~(r > 0)
    <2>1. r = 0
      BY SMTT(60), <1>2, SessionAssumption
    <2> QED BY <1>2, <2>1, HandleEventIs DEF EventSend, Posts
  <1> QED BY <1>1, <1>2

(* shutdown_arm() sends one event, unless the timer is armed already. *)
LEMMA ShutdownArmIs ==
    ASSUME NEW S \in States, NEW r \in Rank, NEW code \in Codes, NEW by \in 0 .. 3
    PROVE  Arms(S, ShutdownArm(S, r, code, by), r, code, by)
  <1> DEFINE e == [t |-> "shutdown", code |-> code, by |-> by, wired |-> S.level > 0]
  <1>1. e \in Shutdowns
    BY SMTT(60) DEF Shutdowns
  <1>2. CASE S.sd[r] = NoTimer
    <2>1. ShutdownArm(S, r, code, by) = EventSend(S, r, e)
      BY <1>2 DEF ShutdownArm
    <2>2. e.t = "shutdown" /\ e.code = code /\ e.by = by /\ (e.wired <=> S.level > 0)
      OBVIOUS
    <2> HIDE DEF e
    <2> QED BY <1>1, <2>1, <2>2, EventSendIs DEF Arms
  <1>3. CASE S.sd[r] # NoTimer
    BY <1>3 DEF ShutdownArm, Arms
  <1> QED BY <1>2, <1>3

(* Entering a level starts its script, or skips it. *)
LEMMA EnteredIs ==
    ASSUME NEW S \in States, NEW l \in 1 .. 3, plan \in Plans
    PROVE  /\ Raises(S, Entered(S, l), l) /\ Entered(S, l).level = l
           /\ Skipped(l) => Entered(S, l).rc = S.rc
  <1> DEFINE T == [S EXCEPT !.level = l]
             U == [T EXCEPT !.rc = [S.rc EXCEPT ![l] = "run"], !.watch = l = 2 /\ plan.limit]
  <1>0. l \in 0 .. 3
    BY SMTT(60)
  <1>1. T \in States /\ Raises(S, T, l) /\ T.level = l /\ T.rc = S.rc
    BY <1>0 DEF States, Raises, LevelUp, SameQueues, SameCounts
  <1>2. [S.rc EXCEPT ![l] = "run"] \in [1 .. 3 -> Stopped]
    BY DEF States, Stopped
  <1>3. (l = 2 /\ plan.limit) \in BOOLEAN
    OBVIOUS
  <1>4. U \in States /\ Raises(S, U, l) /\ U.level = l
    BY <1>0, <1>2, <1>3 DEF States, Raises, LevelUp, SameQueues, SameCounts
  <1>5. Entered(S, l) = IF Skipped(l) THEN T ELSE U
    BY DEF Entered, StartSubprocess, States
  <1> HIDE DEF T, U
  <1> QED BY <1>1, <1>4, <1>5

(* runlevel_set_level() raises the level when it may. *)
LEMMA SetLevelIs ==
    ASSUME NEW S \in States, NEW l \in 1 .. 3, plan \in Plans, S.level < l
    PROVE  Raises(S, SetLevel(S, l), l)
  <1>1. ~(l <= S.level) /\ 1 \in 1 .. 3 /\ 2 \in 1 .. 3
    BY SMTT(60) DEF States
  <1>2. CASE l = 1 /\ Skipped(1)
    <2> DEFINE T == Entered(S, 1)
    <2>1. Raises(S, T, 1) /\ T.rc = S.rc
      BY <1>1, <1>2, EnteredIs
    <2>2. T \in States
      BY <2>1 DEF Raises, SameQueues
    <2>3. SetLevel(S, l) = Entered(T, 2)
      BY <1>1, <1>2 DEF SetLevel
    <2> HIDE DEF T
    <2>4. Raises(T, Entered(T, 2), 2) /\ Entered(T, 2).level = 2
      BY <1>1, <2>2, EnteredIs
    <2>5. Raises(S, Entered(T, 2), 1)
      BY <2>1, <2>4 DEF Raises, LevelUp, SameQueues, SameCounts
    <2> QED BY <1>2, <2>3, <2>5
  <1>3. CASE ~(l = 1 /\ Skipped(1))
    BY <1>1, <1>3, EnteredIs DEF SetLevel
  <1> QED BY <1>2, <1>3

(* hello_update() starts the levels when the total is complete. *)
LEMMA HelloUpdateIs ==
    ASSUME NEW S \in States, NEW n \in Nat, plan \in Plans
    PROVE  Totals(S, HelloUpdate([S EXCEPT !.total = @ + n]), n)
  <1> DEFINE M == [S EXCEPT !.total = S.total + n]
             T == HelloUpdate(M)
  <1>1. S.total + n \in Nat
    BY SMTT(60) DEF States
  <1>2. /\ M \in States /\ M.total = S.total + n /\ M.red = S.red
        /\ SameQueues(S, M) /\ SameLevel(S, M) /\ M.level = S.level
    BY <1>1 DEF States, SameQueues, SameLevel
  <1>0. [S EXCEPT !.total = @ + n] = M
    BY DEF States
  <1> HIDE DEF M
  <1>3. CASE M.total # Cardinality(Rank)
    <2>1. T = M
      BY <1>3 DEF HelloUpdate
    <2> QED BY <1>0, <1>2, <1>3, <2>1 DEF Totals
  <1>4. CASE M.total = Cardinality(Rank) /\ S.level = 0
    <2>1. M.level < 1 /\ 1 \in 1 .. 3
      BY SMTT(60), <1>2, <1>4
    <2>2. T = SetLevel(M, 1)
      BY <1>4 DEF HelloUpdate
    <2>3. Raises(M, T, 1)
      BY <1>2, <2>1, <2>2, SetLevelIs
    <2> HIDE DEF T
    <2>4. T.total = S.total + n /\ T.red = S.red
      BY <1>2, <2>3 DEF Raises, SameCounts
    <2>5. SameQueues(S, T)
      BY <1>2, <2>3 DEF Raises, SameQueues
    <2>6. LevelUp(S, T, 1)
      BY <1>2, <2>3 DEF Raises, LevelUp, SameLevel
    <2>7. T.total = Cardinality(Rank)
      BY <1>2, <1>4, <2>4
    <2> QED BY <1>0, <2>4, <2>5, <2>6, <2>7 DEF Totals, T
  <1>5. CASE M.total = Cardinality(Rank) /\ S.level # 0
    <2>1. 1 <= M.level
      BY SMTT(60), <1>2, <1>5 DEF States
    <2>2. T = [M EXCEPT !.failed = TRUE]
      BY <1>5, <2>1 DEF HelloUpdate, SetLevel
    <2>3. T \in States /\ SameQueues(M, T) /\ T.total = M.total /\ T.red = M.red
      BY <1>2, <2>2 DEF States, SameQueues
    <2> HIDE DEF T
    <2>4. SameQueues(S, T)
      BY <1>2, <2>3 DEF SameQueues
    <2> QED BY <1>0, <1>2, <1>5, <2>3, <2>4 DEF Totals, T
  <1> QED BY <1>3, <1>4, <1>5

(* r_forward() sends a count up, r_sink() adds it to the total. *)
LEMMA FlushIs ==
    ASSUME NEW S \in States, NEW r \in Rank, NEW n \in Nat \ {0}, plan \in Plans
    PROVE  Flushes(S, Flush(S, r, n), r, n)
  <1>1. CASE r > 0
    <2> DEFINE U == [S.up EXCEPT ![r] = Append(@, Join(n))]
               T == [S EXCEPT !.up = U]
    <2>0. Join(n) \in Message
      BY DEF Join, Message, Joins
    <2>1. PutIn(Rank, Message, S.up, U, r, Join(n))
      <3>1. Puts(Rank, Message, S.up, U, r, Join(n))
        BY <2>0 DEF Puts, States
      <3> HIDE DEF U
      <3> QED BY <3>1, PutInto
    <2>2. Flush(S, r, n) = T
      BY <1>1 DEF Flush, States, Join
    <2> HIDE DEF U
    <2>3. U \in [Rank -> Seq(Message)]
      BY <2>1 DEF PutIn
    <2>4. SameRest(S, T) /\ T.up = U /\ T.local = S.local /\ T.down = S.down
      BY <2>3 DEF States, SameRest, SameCounts, SameLevel
    <2>5. r # 0
      BY SMTT(60), <1>1, SessionAssumption
    <2> QED BY <2>1, <2>2, <2>4, <2>5 DEF Flushes
  <1>2. CASE ~(r > 0)
    <2>1. r = 0
      BY SMTT(60), <1>2, SessionAssumption
    <2> QED BY <1>2, <2>1, HelloUpdateIs DEF Flush, Flushes
  <1> QED BY <1>1, <1>2

(* Broker r's count becomes x. *)
Reduced(S, r, x) == [S EXCEPT !.red[r] = x]

(* Changing the items of one broker leaves everything else. *)
LEMMA KeepsIs ==
    ASSUME NEW S \in States, NEW r \in Rank, NEW x \in Reduce, NEW a \in Nat, NEW n \in Nat,
           x.items + n = S.red[r].items + a
    PROVE  Reduced(S, r, x) \in States /\ Keeps(S, Reduced(S, r, x), r, a, n)
  <1> DEFINE R == [S.red EXCEPT ![r] = x]
             T == [S EXCEPT !.red = R]
  <1>0. Reduced(S, r, x) = T
    BY DEF Reduced, States
  <1>1. R \in [Rank -> Reduce] /\ R[r] = x /\ \A k \in Rank : k # r => R[k] = S.red[k]
    BY DEF States
  <1> HIDE DEF R
  <1>2. T \in States /\ T.red = R
    BY <1>1 DEF States
  <1>3. SameQueues(S, T) /\ SameLevel(S, T) /\ T.total = S.total
    BY <1>2 DEF SameQueues, SameLevel, States
  <1> HIDE DEF T
  <1> QED BY <1>0, <1>1, <1>2, <1>3 DEF Keeps

(* flush_current() passes on what the broker has. *)
LEMMA FlushCurrentIs ==
    ASSUME NEW S \in States, NEW r \in Rank, plan \in Plans
    PROVE  Reduces(S, FlushCurrent(S, r), r, 0)
  <1> DEFINE y == S.red[r]
             n == y.items
             x == [y EXCEPT !.items = 0, !.armed = FALSE, !.flushed = TRUE]
             M == Reduced(S, r, x)
  <1>3. FlushCurrent(S, r) = IF n > 0 THEN Flush(M, r, n) ELSE M
    BY DEF FlushCurrent, Reduced
  <1>0. y \in Reduce
    BY DEF States
  <1>4. y.items = S.red[r].items
    OBVIOUS
  <1> HIDE DEF y
  <1>1. n \in Nat /\ x \in Reduce /\ x.items = 0
    BY <1>0 DEF Reduce
  <1>2. x.items + n = S.red[r].items + 0
    BY SMTT(60), <1>1, <1>4
  <1> HIDE DEF x, n
  <1>5. M \in States /\ Keeps(S, M, r, 0, n)
    <2>1. 0 \in Nat
      BY SMTT(60)
    <2> QED BY <1>1, <1>2, <2>1, KeepsIs
  <1> HIDE DEF M
  <1>6. CASE n = 0
    <2>1. ~(n > 0)
      BY SMTT(60), <1>6
    <2>2. FlushCurrent(S, r) = M
      BY <1>3, <2>1
    <2> QED BY <1>1, <1>5, <1>6, <2>2 DEF Reduces
  <1>7. CASE n # 0
    <2>1. n \in Nat \ {0} /\ n > 0
      BY SMTT(60), <1>1, <1>7
    <2>2. FlushCurrent(S, r) = Flush(M, r, n)
      BY <1>3, <2>1
    <2>3. Flushes(M, FlushCurrent(S, r), r, n)
      BY <1>5, <2>1, <2>2, FlushIs
    <2> QED BY <1>1, <1>5, <2>1, <2>3 DEF Reduces
  <1> QED BY <1>6, <1>7

(* Adding to the items and taking from them is one change. *)
LEMMA KeepsTwice ==
    ASSUME NEW S \in States, NEW M \in States, NEW T \in States, NEW r \in Rank, NEW a \in Nat,
           NEW n \in Nat, Keeps(S, M, r, a, 0), Keeps(M, T, r, 0, n)
    PROVE  Keeps(S, T, r, a, n)
  <1>1. SameQueues(S, T) /\ SameLevel(S, T) /\ T.total = S.total
    BY DEF Keeps, SameQueues, SameLevel
  <1>2. \A k \in Rank : k # r => T.red[k] = S.red[k]
    BY DEF Keeps
  <1>3. S.red[r].items \in Nat /\ M.red[r].items \in Nat /\ T.red[r].items \in Nat
    BY DEF States, Reduce
  <1>4. M.red[r].items + 0 = S.red[r].items + a /\ T.red[r].items + n = M.red[r].items + 0
    BY DEF Keeps
  <1>5. T.red[r].items + n = S.red[r].items + a
    BY SMTT(60), <1>3, <1>4
  <1> QED BY <1>1, <1>2, <1>5 DEF Keeps

(* flux_reduce_append(): the new count is kept or passed on, never both. *)
LEMMA ReduceAppendIs ==
    ASSUME NEW S \in States, NEW r \in Rank, NEW n \in Nat \ {0}, plan \in Plans
    PROVE  Reduces(S, ReduceAppend(S, r, n), r, n)
  <1> DEFINE w == S.red[r]
             i == w.items
             x == [w EXCEPT !.count = @ + n]
             y == [x EXCEPT !.items = @ + n]
             z == [y EXCEPT !.armed = TRUE]
             T == Reduced(S, r, x)
             U == Reduced(S, r, y)
             V == Reduced(S, r, z)
  <1>1. ReduceAppend(S, r, n) = IF x.flushed THEN Flush(T, r, n)
                                ELSE IF y.count >= Hwm(r) THEN FlushCurrent(U, r) ELSE V
    BY DEF ReduceAppend, Reduced
  <1>2. w \in Reduce /\ i = S.red[r].items
    BY DEF States
  <1> HIDE DEF w
  <1>3. n \in Nat /\ i \in Nat /\ w.count \in Nat
    BY <1>2 DEF Reduce
  <1>4. w.count + n \in Nat /\ i + n \in Nat /\ 0 \in Nat /\ i + n + 0 = i + n
    BY SMTT(60), <1>3
  <1>5. x \in Reduce /\ x.items = i
    BY <1>2, <1>4 DEF Reduce
  <1> HIDE DEF x
  <1>6. y \in Reduce /\ y.items = i + n
    BY <1>4, <1>5 DEF Reduce
  <1> HIDE DEF y
  <1>7. z \in Reduce /\ z.items = i + n
    BY <1>6 DEF Reduce
  <1> HIDE DEF z, i
  <1>8. T \in States /\ Keeps(S, T, r, n, n)
    BY <1>2, <1>3, <1>5, KeepsIs
  <1>9. U \in States /\ Keeps(S, U, r, n, 0)
    BY <1>2, <1>3, <1>4, <1>6, KeepsIs
  <1>10. V \in States /\ Keeps(S, V, r, n, 0)
    BY <1>2, <1>3, <1>4, <1>7, KeepsIs
  <1> HIDE DEF T, U, V
  <1>11. CASE x.flushed
    <2>1. Flushes(T, ReduceAppend(S, r, n), r, n)
      BY <1>1, <1>8, <1>11, FlushIs
    <2> QED BY <1>3, <1>8, <2>1 DEF Reduces
  <1>12. CASE ~x.flushed /\ y.count >= Hwm(r)
    <2>1. ReduceAppend(S, r, n) = FlushCurrent(U, r)
      BY <1>1, <1>12
    <2>2. Reduces(U, ReduceAppend(S, r, n), r, 0)
      BY <1>9, <2>1, FlushCurrentIs
    <2>3. PICK M \in States, k \in Nat :
            /\ Keeps(U, M, r, 0, k)
            /\ \/ k = 0 /\ ReduceAppend(S, r, n) = M
               \/ k \in Nat \ {0} /\ Flushes(M, ReduceAppend(S, r, n), r, k)
      BY <2>2 DEF Reduces
    <2>4. Keeps(S, M, r, n, k)
      BY <1>3, <1>9, <2>3, KeepsTwice
    <2> QED BY <2>3, <2>4 DEF Reduces
  <1>13. CASE ~x.flushed /\ ~(y.count >= Hwm(r))
    <2>1. ReduceAppend(S, r, n) = V
      BY <1>1, <1>13
    <2> QED BY <1>4, <1>10, <2>1 DEF Reduces
  <1> QED BY <1>11, <1>12, <1>13

-----------------------------------------------------------------------------
(* What the actions do.                                                    *)

(* A queue loses its head. *)
TakesUp(S, T, r) ==
    /\ S \in States /\ T \in States /\ SameCounts(S, T) /\ SameLevel(S, T)
    /\ T.sd = S.sd /\ T.down = S.down /\ T.local = S.local
    /\ r # 0 /\ S.up[r] # <<>> /\ Taken(Rank, Message, S.up, T.up, r)
    /\ T.known = [S.known EXCEPT ![Parent[r]] = @ \cup {r}]
TakesDown(S, T, r) ==
    /\ SameRest(S, T) /\ T.up = S.up /\ T.local = S.local
    /\ S.down[r] # <<>> /\ Taken(Rank, Shutdowns, S.down, T.down, r)
TakesLocal(S, T, r) ==
    /\ SameRest(S, T) /\ T.up = S.up /\ T.down = S.down
    /\ S.local[r] # <<>> /\ Taken(Rank, Message, S.local, T.local, r)

(* A join is queued for a handler; a broker stops; a script ends. *)
Enqueues(S, T, r, m) ==
    /\ SameRest(S, T) /\ T.up = S.up /\ T.down = S.down
    /\ PutIn(Rank, Message, S.local, T.local, r, m)
Stops(S, T, r, e) ==
    /\ S \in States /\ T \in States /\ SameCounts(S, T) /\ SameLevel(S, T)
    /\ T.known = S.known /\ T.up = S.up /\ T.down = S.down /\ T.local = S.local
    /\ \A k \in Rank : T.sd[k] = IF k = r /\ S.sd[r] = NoTimer THEN e ELSE S.sd[k]
Ends(S, T, l, x) ==
    /\ SameQueues(S, T) /\ SameCounts(S, T) /\ T.level = S.level /\ T.failed = S.failed
    /\ ~T.watch /\ T.rc = [S.rc EXCEPT ![l] = x]

(* What a message from a child, or a message of its own, does at a broker. *)
Hears(S, T, r) ==
    \E M \in States, m \in Message :
      /\ TakesUp(S, M, r) /\ m = Head(S.up[r])
      /\ \/ m \in Joins /\ Enqueues(M, T, Parent[r], m)
         \/ m \in Shutdowns /\ Posts(M, T, Parent[r], m)
Forwards(S, T, r) ==
    \E M \in States, e \in Shutdowns :
      TakesDown(S, M, r) /\ e = Head(S.down[r]) /\ Passes(M, T, r, e)
Serves(S, T, r) ==
    \E M \in States, m \in Message :
      /\ TakesLocal(S, M, r) /\ m = Head(S.local[r])
      /\ \/ m \in Joins /\ Reduces(M, T, r, m.n)
         \/ m \in Shutdowns /\ Stops(M, T, r, m)
Finishes(S, T, l, code) ==
    \E M \in States :
      /\ Ends(S, M, l, code)
      /\ \/ l = 3 /\ T = M
         \/ l = 1 /\ code = "ok" /\ Raises(M, T, 2)
         \/ /\ l = 2 \/ (l = 1 /\ code # "ok")
            /\ \E N \in States : Arms(M, N, 0, code, l) /\ Raises(N, T, 3)

(* Joins and shutdowns are told apart by their kind. *)
LEMMA Kinds ==
    /\ \A m \in Joins : m.t = "join" /\ m.n \in Nat \ {0} /\ m \notin Shutdowns /\ m \in Message
    /\ \A m \in Shutdowns : m.t = "shutdown" /\ m \notin Joins /\ m # NoTimer /\ m \in Message
    /\ NoTimer.t = "none"
  <1>1. \A m \in Joins : m.t = "join" /\ m.n \in Nat \ {0}
    BY DEF Joins
  <1>2. \A m \in Shutdowns : m.t = "shutdown"
    BY DEF Shutdowns
  <1>3. NoTimer.t = "none"
    BY DEF NoTimer
  <1> QED BY <1>1, <1>2, <1>3 DEF Message

(* A broker that starts brings a count of one. *)
LEMMA StartIs ==
    ASSUME TypeOK, NEW r \in Rank, Start(r) PROVE Reduces(State, State', r, 1)
  <1>1. 1 \in Nat \ {0}
    BY SMTT(60)
  <1>2. Reduces(State, ReduceAppend(State, r, 1), r, 1)
    BY <1>1, StateType, ReduceAppendIs DEF TypeOK
  <1>3. ReduceAppend(State, r, 1) \in States
    BY <1>2 DEF Reduces, Flushes, Totals, SameRest, SameQueues
  <1> QED BY <1>2, <1>3, Becomes DEF Start

(* The timer of reduce.c passes on what is there. *)
LEMMA ReduceTimerIs ==
    ASSUME TypeOK, NEW r \in Rank, ReduceTimer(r) PROVE Reduces(State, State', r, 0)
  <1>1. Reduces(State, FlushCurrent(State, r), r, 0)
    BY StateType, FlushCurrentIs DEF TypeOK
  <1>2. FlushCurrent(State, r) \in States
    BY <1>1 DEF Reduces, Flushes, Totals, SameRest, SameQueues
  <1> QED BY <1>1, <1>2, Becomes DEF ReduceTimer

(* child_cb() takes a message of a child and learns of the child. *)
LEMMA ChildCbIs ==
    ASSUME TypeOK, NEW r \in Rank, ChildCb(r) PROVE Hears(State, State', r)
  <1> DEFINE p == Parent[r]
             m == Head(up[r])
             U == [up EXCEPT ![r] = Tail(@)]
             K == [known EXCEPT ![p] = @ \cup {r}]
             M == [State EXCEPT !.up[r] = Tail(@), !.known[p] = @ \cup {r}]
             L == [local EXCEPT ![p] = Append(@, m)]
             N == [M EXCEPT !.local[p] = Append(@, m)]
  <1>0. r # 0 /\ p \in Rank /\ up[r] # <<>> /\ up \in [Rank -> Seq(Message)]
    BY SessionAssumption DEF ChildCb, TypeOK, Message
  <1>1. Taken(Rank, Message, up, U, r)
    <2>1. Takes(Rank, Message, up, U, r)
      BY <1>0 DEF Takes
    <2> HIDE DEF U
    <2> QED BY <2>1, TakeFrom
  <1>2. m \in Message /\ U \in [Rank -> Seq(Message)]
    <2> HIDE DEF U
    <2> QED BY <1>1 DEF Taken
  <1>3. K \in [Rank -> SUBSET Rank]
    BY <1>0 DEF TypeOK
  <1>4. M = [State EXCEPT !.up = U, !.known = K]
    BY DEF State
  <1>5. Become(IF m.t = "join" THEN N ELSE EventSend(M, p, m))
    BY DEF ChildCb
  <1> HIDE DEF U, K
  <1>6. /\ M \in States /\ M.up = U /\ M.known = K
        /\ SameCounts(State, M) /\ SameLevel(State, M)
        /\ M.sd = State.sd /\ M.down = State.down /\ M.local = State.local
    BY <1>2, <1>3, <1>4, StateType DEF States, SameCounts, SameLevel
  <1>7. State.up = up /\ State.known = known /\ State.local = local
    BY DEF State
  <1>N. N = [M EXCEPT !.local = [M.local EXCEPT ![p] = Append(@, m)]]
    BY <1>6 DEF States
  <1> HIDE DEF M
  <1>8. TakesUp(State, M, r)
    BY <1>0, <1>1, <1>6, <1>7, StateType DEF TakesUp, K
  <1>9. CASE m.t = "join"
    <2>1. m \in Joins
      BY <1>2, <1>9 DEF Message, Shutdowns
    <2>2. M.local = local
      BY <1>6, <1>7
    <2>3. PutIn(Rank, Message, local, L, p, m) /\ L \in [Rank -> Seq(Message)]
      <3>1. Puts(Rank, Message, local, L, p, m)
        BY <1>0, <1>2 DEF Puts, TypeOK, Message
      <3> HIDE DEF L
      <3>2. PutIn(Rank, Message, local, L, p, m)
        BY <3>1, PutInto
      <3> QED BY <3>2 DEF PutIn
    <2>4. N = [M EXCEPT !.local = L]
      BY <1>N, <2>2
    <2> HIDE DEF L, N
    <2>5. N \in States /\ SameRest(M, N) /\ N.up = M.up /\ N.down = M.down /\ N.local = L
      BY <1>6, <2>3, <2>4 DEF States, SameRest, SameCounts, SameLevel
    <2>6. Enqueues(M, N, p, m)
      BY <2>2, <2>3, <2>5 DEF Enqueues
    <2>7. State' = N
      BY <1>5, <1>9, <2>5, Becomes
    <2> QED BY <1>2, <1>6, <1>7, <1>8, <2>1, <2>6, <2>7 DEF Hears
  <1>10. CASE m.t # "join"
    <2>1. m \in Shutdowns
      BY <1>2, <1>10 DEF Message, Joins
    <2>2. Posts(M, EventSend(M, p, m), p, m)
      BY <1>0, <1>6, <2>1, EventSendIs
    <2>3. EventSend(M, p, m) \in States
      BY <2>2 DEF Posts, Passes, SameRest
    <2>4. State' = EventSend(M, p, m)
      BY <1>5, <1>10, <2>3, Becomes
    <2> QED BY <1>2, <1>6, <1>7, <1>8, <2>1, <2>2, <2>4 DEF Hears
  <1> QED BY <1>9, <1>10

(* parent_cb() takes an event and passes it on. *)
LEMMA ParentCbIs ==
    ASSUME TypeOK, NEW r \in Rank, ParentCb(r) PROVE Forwards(State, State', r)
  <1> DEFINE e == Head(down[r])
             D == [down EXCEPT ![r] = Tail(@)]
             M == [State EXCEPT !.down[r] = Tail(@)]
  <1>0. down[r] # <<>> /\ down \in [Rank -> Seq(Shutdowns)] /\ Become(HandleEvent(M, r, e))
    BY DEF ParentCb, TypeOK
  <1>1. Taken(Rank, Shutdowns, down, D, r)
    <2>1. Takes(Rank, Shutdowns, down, D, r)
      BY <1>0 DEF Takes
    <2> HIDE DEF D
    <2> QED BY <2>1, TakeFrom
  <1>2. M = [State EXCEPT !.down = D]
    BY DEF State
  <1> HIDE DEF D
  <1>3. e \in Shutdowns /\ D \in [Rank -> Seq(Shutdowns)]
    BY <1>1 DEF Taken
  <1>4. SameRest(State, M) /\ M.down = D /\ M.up = State.up /\ M.local = State.local
    BY <1>2, <1>3, StateType DEF States, SameRest, SameCounts, SameLevel
  <1>5. State.down = down
    BY DEF State
  <1> HIDE DEF M
  <1>6. TakesDown(State, M, r) /\ M \in States
    BY <1>0, <1>1, <1>4, <1>5 DEF TakesDown, SameRest
  <1>7. Passes(M, HandleEvent(M, r, e), r, e)
    BY <1>3, <1>6, HandleEventIs
  <1>8. State' = HandleEvent(M, r, e)
    BY <1>0, <1>7, Becomes DEF Passes, SameRest
  <1> QED BY <1>3, <1>5, <1>6, <1>7, <1>8 DEF Forwards

(* shutdown_handler() keeps the first event. *)
LEMMA ShutdownHandlerIs ==
    ASSUME NEW S \in States, NEW r \in Rank, NEW e \in Shutdowns
    PROVE  Stops(S, ShutdownHandler(S, r, e), r, e)
  <1> DEFINE D == [S.sd EXCEPT ![r] = e]
             T == [S EXCEPT !.sd = D]
  <1>1. D \in [Rank -> Shutdowns \cup {NoTimer}] /\ \A k \in Rank : D[k] = IF k = r THEN e ELSE S.sd[k]
    BY DEF States
  <1>2. ShutdownHandler(S, r, e) = IF S.sd[r] = NoTimer THEN T ELSE S
    BY DEF ShutdownHandler, States
  <1> HIDE DEF D
  <1>3. /\ T \in States /\ T.sd = D /\ SameCounts(S, T) /\ SameLevel(S, T) /\ T.known = S.known
        /\ T.up = S.up /\ T.down = S.down /\ T.local = S.local
    BY <1>1 DEF States, SameCounts, SameLevel
  <1> HIDE DEF T
  <1>4. CASE S.sd[r] = NoTimer
    <2>1. ShutdownHandler(S, r, e) = T
      BY <1>2, <1>4
    <2>2. \A k \in Rank : T.sd[k] = IF k = r /\ S.sd[r] = NoTimer THEN e ELSE S.sd[k]
      BY <1>1, <1>3, <1>4
    <2> QED BY <1>3, <2>1, <2>2 DEF Stops
  <1>5. CASE S.sd[r] # NoTimer
    BY <1>2, <1>5 DEF Stops, SameCounts, SameLevel
  <1> QED BY <1>4, <1>5

(* A broker serves the first message of its own queue. *)
LEMMA DispatchIs ==
    ASSUME TypeOK, NEW r \in Rank, Dispatch(r) PROVE Serves(State, State', r)
  <1> DEFINE m == Head(local[r])
             L == [local EXCEPT ![r] = Tail(@)]
             M == [State EXCEPT !.local[r] = Tail(@)]
  <1>0. /\ local[r] # <<>> /\ local \in [Rank -> Seq(Message)] /\ plan \in Plans
        /\ Become(IF m.t = "join" THEN JoinRequest(M, r, m) ELSE ShutdownHandler(M, r, m))
    BY DEF Dispatch, TypeOK, Message
  <1>1. Taken(Rank, Message, local, L, r)
    <2>1. Takes(Rank, Message, local, L, r)
      BY <1>0 DEF Takes
    <2> HIDE DEF L
    <2> QED BY <2>1, TakeFrom
  <1>2. M = [State EXCEPT !.local = L]
    BY DEF State
  <1> HIDE DEF L
  <1>3. m \in Message /\ L \in [Rank -> Seq(Message)]
    BY <1>1 DEF Taken
  <1>4. SameRest(State, M) /\ M.local = L /\ M.up = State.up /\ M.down = State.down
    BY <1>2, <1>3, StateType DEF States, SameRest, SameCounts, SameLevel
  <1>5. State.local = local
    BY DEF State
  <1> HIDE DEF M
  <1>6. TakesLocal(State, M, r) /\ M \in States
    BY <1>0, <1>1, <1>4, <1>5 DEF TakesLocal, SameRest
  <1>7. CASE m.t = "join"
    <2>1. m \in Joins /\ m.n \in Nat \ {0}
      BY <1>3, <1>7, Kinds DEF Message, Shutdowns
    <2>2. Reduces(M, JoinRequest(M, r, m), r, m.n)
      BY <1>0, <1>6, <2>1, ReduceAppendIs DEF JoinRequest
    <2>3. JoinRequest(M, r, m) \in States
      BY <2>2 DEF Reduces, Flushes, Totals, SameRest, SameQueues
    <2>4. State' = JoinRequest(M, r, m)
      BY <1>0, <1>7, <2>3, Becomes
    <2> QED BY <1>3, <1>5, <1>6, <2>1, <2>2, <2>4 DEF Serves
  <1>8. CASE m.t # "join"
    <2>1. m \in Shutdowns
      BY <1>3, <1>8 DEF Message, Joins
    <2>2. Stops(M, ShutdownHandler(M, r, m), r, m)
      BY <1>6, <2>1, ShutdownHandlerIs
    <2>3. State' = ShutdownHandler(M, r, m)
      BY <1>0, <1>8, <2>2, Becomes DEF Stops
    <2> QED BY <1>3, <1>5, <1>6, <2>1, <2>2, <2>3 DEF Serves
  <1> QED BY <1>7, <1>8

(* A signal asks for a shutdown with code 0. *)
LEMMA SignalCbIs ==
    ASSUME TypeOK, NEW r \in Rank, SignalCb(r) PROVE Arms(State, State', r, "ok", 0)
  <1> DEFINE T == ShutdownArm(State, r, "ok", 0)
  <1>1. "ok" \in Codes /\ 0 \in 0 .. 3
    BY SMTT(60) DEF Codes
  <1>2. Arms(State, T, r, "ok", 0)
    BY <1>1, StateType, ShutdownArmIs
  <1> HIDE DEF T
  <1>3. T \in States
    BY <1>2, StateType DEF Arms, Posts, Passes, SameRest
  <1> QED BY <1>2, <1>3, Becomes DEF SignalCb, T

(* The end of the grace period changes nothing of the state record. *)
LEMMA GraceTimerIs ==
    ASSUME TypeOK, NEW r \in Rank, GraceTimer(r) PROVE State' = State
  BY StateType, Becomes DEF GraceTimer

(* The end of a script changes its code and stops the timer. *)
LEMMA EndsIs ==
    ASSUME NEW S \in States, NEW l \in 1 .. 3, NEW x \in Stopped
    PROVE  Ends(S, [S EXCEPT !.rc[l] = x, !.watch = FALSE], l, x)
  <1> DEFINE C == [S.rc EXCEPT ![l] = x]
             T == [S EXCEPT !.rc = C, !.watch = FALSE]
  <1>1. C \in [1 .. 3 -> Stopped]
    BY DEF States
  <1>2. [S EXCEPT !.rc[l] = x, !.watch = FALSE] = T
    BY DEF States
  <1> HIDE DEF C
  <1>3. T \in States /\ T.rc = C /\ ~T.watch /\ T.level = S.level /\ T.failed = S.failed
    BY <1>1 DEF States
  <1>4. SameQueues(S, T) /\ SameCounts(S, T)
    BY <1>3 DEF SameQueues, SameCounts, States
  <1> HIDE DEF T
  <1> QED BY <1>2, <1>3, <1>4 DEF Ends, C

(* runlevel_timeout() kills the script of level 2. *)
LEMMA RunlevelTimeoutIs ==
    ASSUME TypeOK, Levels(State), RunlevelTimeout
    PROVE  Ends(State, State', 2, IF State.rc[2] = "run" THEN "killed" ELSE State.rc[2])
  <1> DEFINE x == IF State.rc[2] = "run" THEN "killed" ELSE State.rc[2]
             T == [State EXCEPT !.rc[2] = x, !.watch = FALSE]
  <1>0. State.watch = watch /\ State.level = level /\ State.rc = rc
    BY DEF State
  <1>1. level = 2 /\ 2 \in 1 .. 3
    <2>1. watch
      BY DEF RunlevelTimeout
    <2>2. level = 2
      BY <1>0, <2>1 DEF Levels
    <2> QED BY SMTT(60), <2>2
  <1>2. x \in Stopped
    BY <1>0, <1>1 DEF TypeOK, Stopped
  <1>3. Become(T)
    BY <1>1 DEF RunlevelTimeout
  <1> HIDE DEF x
  <1>4. Ends(State, T, 2, x)
    BY <1>1, <1>2, StateType, EndsIs
  <1> HIDE DEF T
  <1>5. T \in States
    BY <1>4 DEF Ends, SameQueues
  <1> QED BY <1>3, <1>4, <1>5, Becomes DEF x

(* completion_cb() runs for the current level, and starts the next. *)
LEMMA CompletionIs ==
    ASSUME TypeOK, Levels(State), NEW l \in 1 .. 3, NEW code \in Codes, Completion(l, code)
    PROVE  Finishes(State, State', l, code) /\ level = l
  <1> DEFINE M == [State EXCEPT !.rc[l] = code, !.watch = FALSE]
             N == ShutdownArm(M, 0, code, l)
  <1>0. level = l /\ code \in Stopped /\ plan \in Plans
    BY DEF Completion, Levels, State, Stopped, TypeOK
  <1>1. Become(RunlevelCb(M, l, code))
    BY <1>0 DEF Completion
  <1>2. Ends(State, M, l, code)
    BY <1>0, StateType, EndsIs
  <1>3. State.level = level
    BY DEF State
  <1> HIDE DEF M
  <1>4. M \in States /\ M.level = l
    BY <1>0, <1>2, <1>3 DEF Ends, SameQueues
  <1>5. CASE l = 3
    <2>1. RunlevelCb(M, 3, code) = M
      BY SMTT(60) DEF RunlevelCb
    <2> QED BY <1>0, <1>1, <1>2, <1>4, <1>5, <2>1, Becomes DEF Finishes
  <1>6. CASE l = 1 /\ code = "ok"
    <2>1. RunlevelCb(M, 1, "ok") = SetLevel(M, 2)
      BY SMTT(60) DEF RunlevelCb
    <2>2. M.level < 2 /\ 2 \in 1 .. 3
      BY SMTT(60), <1>4, <1>6
    <2>3. Raises(M, SetLevel(M, 2), 2)
      BY <1>0, <1>4, <2>2, SetLevelIs
    <2>4. State' = SetLevel(M, 2)
      BY <1>1, <1>6, <2>1, <2>3, Becomes DEF Raises, SameQueues
    <2> QED BY <1>0, <1>2, <1>4, <1>6, <2>3, <2>4 DEF Finishes
  <1>7. CASE l = 2 \/ (l = 1 /\ code # "ok")
    <2>1. RunlevelCb(M, l, code) = SetLevel(N, 3)
      BY SMTT(60), <1>7 DEF RunlevelCb
    <2>2. Arms(M, N, 0, code, l)
      <3>1. l \in 0 .. 3 /\ 0 \in Rank
        BY SMTT(60), SessionAssumption
      <3> QED BY <1>4, <3>1, ShutdownArmIs
    <2> HIDE DEF N
    <2>3. N \in States /\ N.level = l
      BY <1>4, <2>2 DEF Arms, Posts, Passes, SameRest, SameLevel
    <2>4. N.level < 3 /\ 3 \in 1 .. 3
      BY SMTT(60), <1>7, <2>3
    <2>5. Raises(N, SetLevel(N, 3), 3)
      BY <1>0, <2>3, <2>4, SetLevelIs
    <2>6. State' = SetLevel(N, 3)
      BY <1>1, <2>1, <2>5, Becomes DEF Raises, SameQueues
    <2> QED BY <1>0, <1>2, <1>4, <1>7, <2>2, <2>3, <2>5, <2>6 DEF Finishes
  <1>8. l = 1 \/ l = 2 \/ l = 3
    BY SMTT(60)
  <1> QED BY <1>5, <1>6, <1>7, <1>8

-----------------------------------------------------------------------------
(* Run levels.                                                             *)

(* Levels is about the levels only. *)
LEMMA LevelsSame ==
    ASSUME NEW S, NEW T, Levels(S), SameLevel(S, T) PROVE Levels(T)
  BY DEF Levels, SameLevel

(* A level is entered when the script before it has ended. *)
LEMMA LevelsRaise ==
    ASSUME NEW S \in States, NEW T \in States, NEW k \in 1 .. 3, Levels(S), LevelUp(S, T, k),
           S.level < k, ~S.watch, \A l \in 1 .. 3 : S.rc[l] \notin {"run", "killed"},
           T.level = 2 => S.rc[1] \in {"ok", "none"}
    PROVE  Levels(T)
  <1>1. S.level \in 0 .. 3 /\ T.level \in 0 .. 3 /\ S.rc \in [1 .. 3 -> Stopped]
    BY DEF States
  <1>2. T.level \in 1 .. 3 /\ S.level < T.level
    BY SMTT(60), <1>1 DEF LevelUp
  <1>3. ~T.failed /\ (T.watch => T.level = 2)
    BY DEF LevelUp, Levels
  <1>4. ASSUME NEW l \in 1 .. 3, l # T.level PROVE T.rc[l] = S.rc[l]
    BY <1>1, <1>2, <1>4 DEF LevelUp
  <1>5. ASSUME NEW l \in 1 .. 3
        PROVE  /\ T.rc[l] \in {"run", "killed"} => T.level = l
               /\ T.level < l => T.rc[l] = "none"
    <2>1. CASE l = T.level
      BY SMTT(60), <1>1, <2>1
    <2>2. CASE l # T.level
      <3>1. T.rc[l] \notin {"run", "killed"}
        BY <1>4, <2>2
      <3>2. T.level < l => S.level < l
        BY SMTT(60), <1>1, <1>2
      <3> QED BY <1>4, <2>2, <3>1, <3>2 DEF Levels
    <2> QED BY <2>1, <2>2
  <1>6. T.level = 2 => T.rc[1] \in {"ok", "none"}
    <2>1. 1 \in 1 .. 3 /\ 1 # 2
      BY SMTT(60)
    <2> QED BY <1>4, <2>1
  <1> QED BY <1>3, <1>5, <1>6 DEF Levels

(* The total starts the levels from level 0. *)
LEMMA LevelsTotals ==
    ASSUME NEW S, NEW T, NEW n, Levels(S), Totals(S, T, n),
           T.total = Cardinality(Rank) => S.level = 0
    PROVE  Levels(T)
  <1>1. CASE T.total # Cardinality(Rank)
    BY <1>1, LevelsSame DEF Totals
  <1>2. CASE T.total = Cardinality(Rank)
    <2>1. S.level = 0 /\ LevelUp(S, T, 1) /\ S \in States /\ T \in States
      BY <1>2 DEF Totals, SameQueues
    <2>2. S.level < 1 /\ 1 \in 1 .. 3 /\ S.level # 2 /\ \A l \in 1 .. 3 : S.level < l
      BY SMTT(60), <2>1
    <2>3. ~S.watch /\ \A l \in 1 .. 3 : S.rc[l] = "none"
      BY <2>2 DEF Levels
    <2> QED BY <2>1, <2>2, <2>3, LevelsRaise
  <1> QED BY <1>1, <1>2

(* So does a broker that passes on counts. *)
LEMMA LevelsReduces ==
    ASSUME NEW S, NEW T, NEW r, NEW a, Levels(S), Reduces(S, T, r, a),
           T.total = Cardinality(Rank) /\ T.total # S.total => S.level = 0
    PROVE  Levels(T)
  <1>1. PICK M \in States, n \in Nat :
          /\ Keeps(S, M, r, a, n)
          /\ (n = 0 /\ T = M) \/ (n \in Nat \ {0} /\ Flushes(M, T, r, n))
    BY DEF Reduces
  <1>2. Levels(M) /\ M.level = S.level /\ M.total = S.total
    BY <1>1, LevelsSame DEF Keeps, SameLevel
  <1>3. ASSUME n \in Nat \ {0}, Totals(M, T, n) PROVE Levels(T)
    <2>1. T.total = M.total + n /\ M.total \in Nat
      BY <1>3 DEF Totals, States
    <2>2. T.total # S.total
      BY SMTT(60), <1>2, <1>3, <2>1
    <2> QED BY <1>2, <1>3, <2>2, LevelsTotals
  <1> QED BY <1>1, <1>2, <1>3, LevelsSame DEF Flushes, SameRest

(* A script ends at its level. *)
LEMMA LevelsEnds ==
    ASSUME NEW S, NEW T, NEW l \in 1 .. 3, NEW x \in Stopped, Levels(S), Ends(S, T, l, x),
           S.level = l, x # "run"
    PROVE  Levels(T)
  <1>1. /\ S.rc \in [1 .. 3 -> Stopped] /\ T.rc[l] = x /\ T.level = l /\ ~T.failed /\ ~T.watch
        /\ \A k \in 1 .. 3 : k # l => T.rc[k] = S.rc[k]
    BY DEF Ends, SameQueues, States, Levels
  <1>2. ASSUME NEW k \in 1 .. 3
        PROVE  /\ T.rc[k] \in {"run", "killed"} => T.level = k
               /\ T.level < k => T.rc[k] = "none"
    <2>1. ~(l < l)
      BY SMTT(60)
    <2> QED BY <1>1, <2>1 DEF Levels
  <1>3. T.level = 2 => T.rc[1] \in {"ok", "none"}
    <2>1. 1 \in 1 .. 3 /\ 1 # 2
      BY SMTT(60)
    <2> QED BY <1>1, <2>1 DEF Levels
  <1> QED BY <1>1, <1>2, <1>3 DEF Levels

(* A shutdown leaves the levels alone. *)
LEMMA LevelsArms ==
    ASSUME NEW S, NEW T, NEW r, NEW code, NEW by, Arms(S, T, r, code, by)
    PROVE  SameLevel(S, T) /\ (S \in States => T \in States)
  BY DEF Arms, Posts, Passes, SameRest, SameLevel

(* After a script its successor is started. *)
LEMMA LevelsFinishes ==
    ASSUME NEW S, NEW T, NEW l \in 1 .. 3, NEW code \in Codes, Levels(S), S.level = l,
           Finishes(S, T, l, code)
    PROVE  Levels(T)
  <1>1. PICK M \in States :
          /\ Ends(S, M, l, code)
          /\ \/ l = 3 /\ T = M
             \/ l = 1 /\ code = "ok" /\ Raises(M, T, 2)
             \/ /\ l = 2 \/ (l = 1 /\ code # "ok")
                /\ \E N \in States : Arms(M, N, 0, code, l) /\ Raises(N, T, 3)
    BY DEF Finishes
  <1>2. code \in Stopped /\ code \notin {"run", "killed"}
    BY DEF Codes, Stopped
  <1>3. Levels(M) /\ M.level = l /\ ~M.watch /\ M.rc[l] = code
    <2>1. Levels(M)
      BY <1>1, <1>2, LevelsEnds
    <2> QED BY <1>1, <2>1 DEF Ends, SameQueues, States
  <1>4. \A k \in 1 .. 3 : M.rc[k] \notin {"run", "killed"}
    BY <1>2, <1>3 DEF Levels
  <1>5. CASE l = 3 /\ T = M
    BY <1>3, <1>5
  <1>6. CASE l = 1 /\ code = "ok" /\ Raises(M, T, 2)
    <2>1. M.level < 2 /\ 2 \in 1 .. 3
      BY SMTT(60), <1>3, <1>6
    <2>2. T \in States /\ LevelUp(M, T, 2) /\ M.rc[1] \in {"ok", "none"}
      BY <1>3, <1>6 DEF Raises, SameQueues
    <2> QED BY <1>3, <1>4, <2>1, <2>2, LevelsRaise
  <1>7. ASSUME l = 2 \/ l = 1, NEW N \in States, Arms(M, N, 0, code, l), Raises(N, T, 3)
        PROVE  Levels(T)
    <2>1. SameLevel(M, N)
      BY <1>7, LevelsArms
    <2>2. Levels(N) /\ N.level = l /\ ~N.watch /\ \A k \in 1 .. 3 : N.rc[k] \notin {"run", "killed"}
      BY <1>3, <1>4, <2>1, LevelsSame DEF SameLevel
    <2>3. N.level < 3 /\ 3 \in 1 .. 3
      BY SMTT(60), <1>7, <2>2
    <2>4. T \in States /\ LevelUp(N, T, 3) /\ T.level # 2
      <3>1. 3 # 2 /\ 3 # 1
        BY SMTT(60)
      <3> QED BY <1>7, <3>1 DEF Raises, SameQueues, LevelUp
    <2> QED BY <2>2, <2>3, <2>4, LevelsRaise
  <1> QED BY <1>1, <1>5, <1>6, <1>7

-----------------------------------------------------------------------------
(* What shutdown events say.                                               *)

(* A step that leaves the codes of finished scripts alone. *)
Later(S, T) ==
    /\ S.level > 0 => T.level > 0
    /\ S.rc[1] \in Codes => T.rc[1] = S.rc[1]
    /\ S.rc[2] \in Codes => /\ T.rc[2] = S.rc[2]
                            /\ S.rc[1] \in {"ok", "none"} => T.rc[1] = S.rc[1]

(* What an event says stays true. *)
LEMMA TruthLater ==
    ASSUME NEW S, NEW T, NEW m \in Shutdowns, Truth(S, m), Later(S, T)
    PROVE  Truth(T, m)
  <1>1. m.code \in Codes
    BY DEF Shutdowns
  <1> QED BY <1>1 DEF Truth, Later

(* A step that leaves the levels alone leaves the codes alone. *)
LEMMA LaterSame ==
    ASSUME NEW S, NEW T, SameLevel(S, T) PROVE Later(S, T)
  BY DEF SameLevel, Later

(* Two such steps are one. *)
LEMMA LaterTwice ==
    ASSUME NEW S, NEW T, NEW U, Later(S, T), Later(T, U)
    PROVE  Later(S, U)
  BY DEF Later

(* Entering a level leaves the codes of the levels before it alone. *)
LEMMA LaterRaise ==
    ASSUME NEW S \in States, NEW T \in States, NEW k \in 1 .. 3, Levels(S), LevelUp(S, T, k),
           S.level < k
    PROVE  Later(S, T)
  <1>1. S.level \in 0 .. 3 /\ T.level \in 0 .. 3 /\ S.rc \in [1 .. 3 -> Stopped]
    BY DEF States
  <1>2. T.level \in 1 .. 3 /\ S.level < T.level /\ T.level > 0
    BY SMTT(60), <1>1 DEF LevelUp
  <1>3. S.rc[T.level] = "none" /\ "none" \notin Codes
    BY <1>2 DEF Levels, Codes
  <1>4. ASSUME NEW l \in 1 .. 3, l # T.level PROVE T.rc[l] = S.rc[l]
    BY <1>1, <1>2, <1>4 DEF LevelUp
  <1>5. 1 \in 1 .. 3 /\ 2 \in 1 .. 3
    BY SMTT(60)
  <1>6. T.level = 1 => S.rc[2] = "none"
    <2>1. T.level = 1 => S.level < 2
      BY SMTT(60), <1>1, <1>2
    <2> QED BY <1>5, <2>1 DEF Levels
  <1>7. S.rc[1] \in Codes => T.rc[1] = S.rc[1]
    BY <1>3, <1>4, <1>5
  <1>8. S.rc[2] \in Codes => T.rc[2] = S.rc[2] /\ T.rc[1] = S.rc[1]
    BY <1>3, <1>4, <1>5, <1>6
  <1> QED BY <1>2, <1>7, <1>8 DEF Later

(* A script that ends had no code. *)
LEMMA LaterEnds ==
    ASSUME NEW S, NEW T, NEW l \in 1 .. 3, NEW x, Levels(S), Ends(S, T, l, x), S.level = l,
           x = S.rc[l] \/ S.rc[l] \notin Codes
    PROVE  Later(S, T)
  <1>1. /\ S.rc \in [1 .. 3 -> Stopped] /\ T.rc[l] = x /\ T.level = S.level
        /\ \A k \in 1 .. 3 : k # l => T.rc[k] = S.rc[k]
    BY DEF Ends, SameQueues, States
  <1>2. 1 \in 1 .. 3 /\ 2 \in 1 .. 3 /\ "none" \notin Codes
    BY SMTT(60) DEF Codes
  <1>3. \A k \in 1 .. 3 : S.rc[k] \in Codes => T.rc[k] = S.rc[k]
    BY <1>1
  <1>4. l = 1 => S.rc[2] = "none"
    <2>1. 1 < 2
      BY SMTT(60)
    <2> QED BY <1>2, <2>1 DEF Levels
  <1>5. S.rc[2] \in Codes => T.rc[1] = S.rc[1]
    BY <1>1, <1>2, <1>4
  <1> QED BY <1>1, <1>2, <1>3, <1>5 DEF Later

(* Counting leaves the codes alone. *)
LEMMA LaterReduces ==
    ASSUME NEW S, NEW T, NEW r, NEW a, Levels(S), Reduces(S, T, r, a),
           T.total = Cardinality(Rank) /\ T.total # S.total => S.level = 0
    PROVE  Later(S, T)
  <1>1. PICK M \in States, n \in Nat :
          /\ Keeps(S, M, r, a, n)
          /\ (n = 0 /\ T = M) \/ (n \in Nat \ {0} /\ Flushes(M, T, r, n))
    BY DEF Reduces
  <1>2. Levels(M) /\ Later(S, M) /\ M.level = S.level /\ M.total = S.total
    BY <1>1, LevelsSame, LaterSame DEF Keeps, SameLevel
  <1>3. ASSUME n \in Nat \ {0}, Totals(M, T, n) PROVE Later(M, T)
    <2>1. T.total = M.total + n /\ M.total \in Nat /\ T \in States
      BY <1>3 DEF Totals, States, SameQueues
    <2>2. T.total # S.total
      BY SMTT(60), <1>2, <1>3, <2>1
    <2>3. CASE T.total # Cardinality(Rank)
      BY <1>3, <2>3, LaterSame DEF Totals
    <2>4. CASE T.total = Cardinality(Rank)
      <3>1. M.level = 0 /\ LevelUp(M, T, 1)
        BY <1>2, <1>3, <2>2, <2>4 DEF Totals
      <3>2. M.level < 1 /\ 1 \in 1 .. 3
        BY SMTT(60), <3>1
      <3> QED BY <1>2, <2>1, <3>1, <3>2, LaterRaise
    <2> QED BY <2>3, <2>4
  <1>4. Later(M, T) \/ T = M
    BY <1>1, <1>3, LaterSame DEF Flushes, SameRest
  <1> QED BY <1>2, <1>4, LaterTwice

(* Events that a handler passes on have been said before. *)
LEMMA SaidReduces ==
    ASSUME NEW S, NEW T, NEW r \in Rank, NEW a, Reduces(S, T, r, a),
           NEW m \in Shutdowns, Said(T, m)
    PROVE  Said(S, m)
  <1>1. PICK M \in States, n \in Nat :
          /\ Keeps(S, M, r, a, n)
          /\ (n = 0 /\ T = M) \/ (n \in Nat \ {0} /\ Flushes(M, T, r, n))
    BY DEF Reduces
  <1>2. Said(M, m) => Said(S, m)
    BY <1>1 DEF Said, Keeps, SameQueues
  <1>3. ASSUME n \in Nat \ {0}, Flushes(M, T, r, n) PROVE Said(M, m)
    <2>1. m # Join(n)
      <3>1. Join(n).t = "join" /\ m.t = "shutdown"
        BY Kinds DEF Join
      <3> QED BY <3>1
    <2>2. CASE Totals(M, T, n)
      BY <2>2 DEF Said, Totals, SameQueues
    <2>3. CASE /\ SameRest(M, T) /\ T.local = M.local /\ T.down = M.down
               /\ PutIn(Rank, Message, M.up, T.up, r, Join(n))
      BY <2>1, <2>3 DEF Said, SameRest, PutIn
    <2> QED BY <1>3, <2>2, <2>3 DEF Flushes
  <1> QED BY <1>1, <1>2, <1>3

(* An event that is passed on is the only new one. *)
LEMMA SaidPasses ==
    ASSUME NEW S, NEW T, NEW r \in Rank, NEW e \in Shutdowns, Passes(S, T, r, e), NEW m, Said(T, m)
    PROVE  Said(S, m) \/ m = e
  <1>1. \A c \in Rank : In(m, T.down[c]) => In(m, S.down[c]) \/ m = e
    <2> SUFFICES ASSUME NEW c \in Rank, In(m, T.down[c]) PROVE In(m, S.down[c]) \/ m = e
      OBVIOUS
    <2>1. S.down[c] \in Seq(Shutdowns)
      BY DEF Passes, SameRest, States
    <2>2. T.down[c] = Append(S.down[c], e) \/ T.down[c] = S.down[c]
      BY DEF Passes
    <2>3. CASE T.down[c] = Append(S.down[c], e)
      <3>1. In(m, Append(S.down[c], e))
        BY <2>3
      <3> QED BY <2>1, <3>1, InAppend
    <2> QED BY <2>2, <2>3
  <1>2. \A c \in Rank : In(m, T.local[c]) => In(m, S.local[c]) \/ m = e
    BY DEF Passes, PutIn
  <1> QED BY <1>1, <1>2 DEF Said, Passes, SameRest

(* So is one that is sent. *)
LEMMA SaidPosts ==
    ASSUME NEW S, NEW T, NEW r \in Rank, NEW e \in Shutdowns, Posts(S, T, r, e), NEW m, Said(T, m)
    PROVE  Said(S, m) \/ m = e
  <1>1. CASE r = 0 /\ Passes(S, T, 0, e)
    BY <1>1, SaidPasses
  <1>2. CASE /\ SameRest(S, T) /\ T.local = S.local /\ T.down = S.down
             /\ PutIn(Rank, Message, S.up, T.up, r, e)
    BY <1>2 DEF Said, SameRest, PutIn
  <1> QED BY <1>1, <1>2 DEF Posts

(* An event of a child was there before. *)
LEMMA SaidHears ==
    ASSUME NEW S, NEW T, NEW r \in Rank, r # 0, Hears(S, T, r), NEW x \in Shutdowns, Said(T, x)
    PROVE  Said(S, x)
  <1>0. Parent[r] \in Rank
    BY SessionAssumption
  <1>1. PICK M \in States, m \in Message :
          /\ TakesUp(S, M, r) /\ m = Head(S.up[r])
          /\ \/ m \in Joins /\ Enqueues(M, T, Parent[r], m)
             \/ m \in Shutdowns /\ Posts(M, T, Parent[r], m)
    BY DEF Hears
  <1>2. Said(M, x) => Said(S, x)
    BY <1>1 DEF Said, TakesUp, Taken
  <1>3. Said(S, m)
    BY <1>1 DEF Said, TakesUp, Taken
  <1>4. ASSUME m \in Joins, Enqueues(M, T, Parent[r], m) PROVE Said(M, x)
    <2>1. x # m
      BY <1>4, Kinds
    <2> QED BY <1>4, <2>1 DEF Said, Enqueues, SameRest, PutIn
  <1>5. ASSUME m \in Shutdowns, Posts(M, T, Parent[r], m) PROVE Said(M, x) \/ x = m
    <2> DEFINE p == Parent[r]
    <2>1. p \in Rank /\ Posts(M, T, p, m)
      BY <1>0, <1>5
    <2> HIDE DEF p
    <2> QED BY <1>5, <2>1, SaidPosts
  <1>6. Said(M, x) \/ x = m
    BY <1>1, <1>4, <1>5
  <1>7. CASE x = m
    BY <1>3, <1>7
  <1> QED BY <1>2, <1>6, <1>7

(* An event of the parent was there before. *)
LEMMA SaidForwards ==
    ASSUME NEW S, NEW T, NEW r \in Rank, Forwards(S, T, r), NEW x \in Shutdowns, Said(T, x)
    PROVE  Said(S, x)
  <1>1. PICK M \in States, e \in Shutdowns :
          TakesDown(S, M, r) /\ e = Head(S.down[r]) /\ Passes(M, T, r, e)
    BY DEF Forwards
  <1>2. Said(M, x) => Said(S, x)
    BY <1>1 DEF Said, TakesDown, SameRest, Taken
  <1>3. Said(S, e)
    BY <1>1 DEF Said, TakesDown, Taken
  <1>4. Said(M, x) \/ x = e
    <2>1. Passes(M, T, r, e)
      BY <1>1
    <2> HIDE <1>1
    <2> QED BY <2>1, SaidPasses
  <1>5. CASE x = e
    BY <1>3, <1>5
  <1> QED BY <1>2, <1>4, <1>5

(* The event that arms the timer was in the queue. *)
LEMMA SaidServes ==
    ASSUME NEW S, NEW T, NEW r \in Rank, Serves(S, T, r), NEW x \in Shutdowns, Said(T, x)
    PROVE  Said(S, x)
  <1>1. PICK M \in States, m \in Message :
          /\ TakesLocal(S, M, r) /\ m = Head(S.local[r])
          /\ \/ m \in Joins /\ Reduces(M, T, r, m.n)
             \/ m \in Shutdowns /\ Stops(M, T, r, m)
    BY DEF Serves
  <1>2. Said(M, x) => Said(S, x)
    BY <1>1 DEF Said, TakesLocal, SameRest, Taken
  <1>3. Said(S, m)
    BY <1>1 DEF Said, TakesLocal, Taken
  <1>4. ASSUME Stops(M, T, r, m) PROVE Said(M, x) \/ x = m
    BY <1>4 DEF Said, Stops
  <1> QED BY <1>1, <1>2, <1>3, <1>4, SaidReduces

(* Events that were there, or are true, are true. *)
LEMMA TruthsFrom ==
    ASSUME NEW S, NEW T, Truths(S), Later(S, T),
           \A m \in Shutdowns : Said(T, m) => Said(S, m) \/ Truth(T, m)
    PROVE  Truths(T)
  BY TruthLater DEF Truths

-----------------------------------------------------------------------------
(* The first event of a queue.                                             *)

(* The first event of a queue is kept when messages are appended. *)
LEMMA EventAppend ==
    ASSUME NEW q \in Seq(Message), NEW m \in Message, NEW x
    PROVE  /\ HasEvent(Append(q, m)) <=> HasEvent(q) \/ IsEvent(m)
           /\ FirstIs(Append(q, m), x) <=> IF HasEvent(q) THEN FirstIs(q, x)
                                           ELSE x = m /\ IsEvent(m)
  <1> DEFINE n == Len(q)
             t == Append(q, m)
  <1>1. /\ n \in Nat /\ DOMAIN q = 1 .. n /\ DOMAIN t = 1 .. n + 1
        /\ t[n + 1] = m /\ \A i \in 1 .. n : t[i] = q[i]
    <2>1. t \in Seq(Message) /\ Len(t) = n + 1 /\ t[n + 1] = m /\ \A i \in 1 .. n : t[i] = q[i]
      BY SMTT(60), AppendIs
    <2>2. DOMAIN t = 1 .. Len(t) /\ n \in Nat /\ DOMAIN q = 1 .. n
      BY <2>1, LengthIs
    <2> QED BY <2>1, <2>2
  <1> HIDE DEF n, t
  <1>2. /\ \A i \in 1 .. n : i \in 1 .. n + 1 /\ i < n + 1 /\ ~(n + 1 < i)
        /\ \A i \in 1 .. n + 1 : i \in 1 .. n \/ i = n + 1
        /\ n + 1 \in 1 .. n + 1 /\ ~(n + 1 < n + 1)
    BY SMTT(60), <1>1
  <1>3. HasEvent(t) <=> HasEvent(q) \/ IsEvent(m)
    BY <1>1, <1>2 DEF HasEvent
  <1>4. ASSUME HasEvent(q) PROVE FirstIs(t, x) <=> FirstIs(q, x)
    <2>1. PICK j \in 1 .. n : IsEvent(q[j])
      BY <1>1, <1>4 DEF HasEvent
    <2>2. ASSUME FirstIs(q, x) PROVE FirstIs(t, x)
      BY <1>1, <1>2, <2>2 DEF FirstIs
    <2>3. ASSUME FirstIs(t, x) PROVE FirstIs(q, x)
      <3>1. PICK i \in 1 .. n + 1 : t[i] = x /\ IsEvent(x) /\ \A k \in 1 .. n + 1 : k < i => ~IsEvent(t[k])
        BY <1>1, <2>3 DEF FirstIs
      <3>2. i \in 1 .. n
        BY <1>1, <1>2, <2>1, <3>1
      <3> QED BY <1>1, <1>2, <3>1, <3>2 DEF FirstIs
    <2> QED BY <2>2, <2>3
  <1>5. ASSUME ~HasEvent(q) PROVE FirstIs(t, x) <=> x = m /\ IsEvent(m)
    <2>1. \A j \in 1 .. n : ~IsEvent(q[j]) /\ ~IsEvent(t[j])
      BY <1>1, <1>5 DEF HasEvent
    <2>2. ASSUME FirstIs(t, x) PROVE x = m /\ IsEvent(m)
      <3>1. PICK i \in 1 .. n + 1 : t[i] = x /\ IsEvent(x)
        BY <1>1, <2>2 DEF FirstIs
      <3>2. CASE i \in 1 .. n
        <4>1. ~IsEvent(t[i])
          BY <2>1, <3>2
        <4> QED BY <3>1, <4>1
      <3>3. CASE i = n + 1
        <4>1. t[i] = m
          BY <1>1, <3>3
        <4> QED BY <3>1, <4>1
      <3> QED BY <1>2, <3>2, <3>3
    <2>3. ASSUME IsEvent(m), x = m PROVE FirstIs(t, x)
      <3>1. t[n + 1] = x /\ IsEvent(x)
        BY <1>1, <2>3
      <3>2. \A j \in 1 .. n + 1 : j < n + 1 => ~IsEvent(t[j])
        BY <1>2, <2>1
      <3> QED BY <1>1, <1>2, <3>1, <3>2 DEF FirstIs
    <2> QED BY <2>2, <2>3
  <1> QED BY <1>3, <1>4, <1>5 DEF t

(* A request at the head of a queue hides no event; an event there is the  *)
(* first.                                                                  *)
LEMMA EventTail ==
    ASSUME NEW q \in Seq(Message), q # <<>>, NEW x
    PROVE  /\ ~IsEvent(Head(q)) => /\ HasEvent(Tail(q)) <=> HasEvent(q)
                                   /\ FirstIs(Tail(q), x) <=> FirstIs(q, x)
           /\ IsEvent(Head(q)) => HasEvent(q) /\ (FirstIs(q, x) <=> x = Head(q))
  <1> DEFINE t == Tail(q)
             n == Len(t)
  <1>1. /\ n \in Nat /\ DOMAIN t = 1 .. n /\ DOMAIN q = 1 .. n + 1
        /\ q[1] = Head(q) /\ \A i \in 1 .. n : t[i] = q[i + 1]
    <2>1. t \in Seq(Message) /\ n = Len(q) - 1 /\ \A i \in 1 .. n : t[i] = q[i + 1]
      BY TailIs
    <2>2. DOMAIN q = 1 .. Len(q) /\ Len(q) \in Nat
      BY LengthIs
    <2>3. DOMAIN t = 1 .. n /\ n \in Nat
      BY <2>1, LengthIs
    <2>4. n + 1 = Len(q)
      BY SMTT(60), <2>1, <2>2
    <2>5. q[1] = Head(q)
      BY SMTT(60)
    <2> QED BY <2>1, <2>2, <2>3, <2>4, <2>5
  <1>h. q[1] = Head(q)
    BY <1>1
  <1> HIDE DEF n, t
  <1>2. /\ 1 \in 1 .. n + 1 /\ \A i \in 1 .. n : i + 1 \in 1 .. n + 1 /\ 1 < i + 1
        /\ \A i \in 1 .. n + 1 : i = 1 \/ (i - 1 \in 1 .. n /\ (i - 1) + 1 = i)
        /\ \A i, j \in 1 .. n : j + 1 < i + 1 <=> j < i
        /\ \A j \in 1 .. n + 1 : ~(j < 1)
    BY SMTT(60), <1>1
  <1>3. ASSUME ~IsEvent(q[1]) PROVE HasEvent(t) <=> HasEvent(q)
    BY <1>1, <1>2, <1>3 DEF HasEvent
  <1>4. ASSUME ~IsEvent(q[1]), FirstIs(t, x) PROVE FirstIs(q, x)
    <2>1. PICK i \in 1 .. n : t[i] = x /\ IsEvent(x) /\ \A k \in 1 .. n : k < i => ~IsEvent(t[k])
      BY <1>1, <1>4 DEF FirstIs
    <2>2. ASSUME NEW j \in 1 .. n + 1, j < i + 1 PROVE ~IsEvent(q[j])
      <3>1. CASE j = 1
        BY <1>4, <3>1
      <3>2. CASE j # 1
        <4> DEFINE k == j - 1
        <4>1. k \in 1 .. n /\ k + 1 = j
          BY <1>2, <3>2
        <4> HIDE DEF k
        <4>2. k < i
          BY <1>2, <2>2, <4>1
        <4> QED BY <1>1, <2>1, <4>1, <4>2
      <3> QED BY <3>1, <3>2
    <2>3. i + 1 \in 1 .. n + 1 /\ q[i + 1] = x
      BY <1>1, <1>2, <2>1
    <2> QED BY <1>1, <2>1, <2>2, <2>3 DEF FirstIs
  <1>5. ASSUME ~IsEvent(q[1]), FirstIs(q, x) PROVE FirstIs(t, x)
    <2>1. PICK i \in 1 .. n + 1 : q[i] = x /\ IsEvent(x) /\ \A k \in 1 .. n + 1 : k < i => ~IsEvent(q[k])
      BY <1>1, <1>5 DEF FirstIs
    <2>2. i # 1
      BY <1>5, <2>1
    <2> DEFINE k == i - 1
    <2>3. k \in 1 .. n /\ k + 1 = i
      BY <1>2, <2>2
    <2> HIDE DEF k
    <2>4. t[k] = x
      BY <1>1, <2>1, <2>3
    <2>5. ASSUME NEW j \in 1 .. n, j < k PROVE ~IsEvent(t[j])
      BY <1>1, <1>2, <2>1, <2>3, <2>5
    <2> QED BY <1>1, <2>1, <2>3, <2>4, <2>5 DEF FirstIs
  <1>6. ASSUME IsEvent(q[1]) PROVE HasEvent(q) /\ (FirstIs(q, x) <=> x = q[1])
    <2>1. HasEvent(q)
      BY <1>1, <1>2, <1>6 DEF HasEvent
    <2>2. ASSUME FirstIs(q, x) PROVE x = q[1]
      <3>1. PICK i \in 1 .. n + 1 : q[i] = x /\ \A k \in 1 .. n + 1 : k < i => ~IsEvent(q[k])
        BY <1>1, <2>2 DEF FirstIs
      <3>2. i # 1 => 1 < i
        BY SMTT(60), <1>1
      <3> QED BY <1>2, <1>6, <3>1, <3>2
    <2>3. ASSUME x = q[1] PROVE FirstIs(q, x)
      BY <1>1, <1>2, <1>6, <2>3 DEF FirstIs
    <2> QED BY <2>1, <2>2, <2>3
  <1>7. (~IsEvent(q[1]) => (HasEvent(t) <=> HasEvent(q)) /\ (FirstIs(t, x) <=> FirstIs(q, x)))
    BY <1>3, <1>4, <1>5
  <1> QED BY <1>h, <1>6, <1>7 DEF t

-----------------------------------------------------------------------------
(* Where the first shutdown event has come to.                             *)

(* The head of a queue stays when a message is appended. *)
LEMMA HeadAppend ==
    ASSUME NEW S, NEW q \in Seq(S), NEW e \in S
    PROVE  /\ Append(q, e) # <<>>
           /\ q # <<>> => Head(Append(q, e)) = Head(q)
           /\ q = <<>> => Head(Append(q, e)) = e
  BY SMTT(60)

(* Broker r has the same first event, and the same events from its parent. *)
SameFirst(S, T, r) == (Seen(T, r) <=> Seen(S, r)) /\ \A x : First(T, r, x) <=> First(S, r, x)
SameView(S, T, r) == SameFirst(S, T, r) /\ T.down[r] = S.down[r]

(* OneEvent is about the first events and the events from parents. *)
LEMMA OneEventSame ==
    ASSUME NEW S, NEW T, OneEvent(S), \A r \in Rank : SameView(S, T, r)
    PROVE  OneEvent(T)
  <1>0. 0 \in Rank /\ \A r \in Rank \ {0} : Parent[r] \in Rank
    BY SessionAssumption
  <1>1. \A r \in Rank : /\ Seen(T, r) <=> Seen(S, r)
                        /\ T.down[r] = S.down[r]
                        /\ \A x : First(T, r, x) <=> First(S, r, x)
    BY DEF SameView, SameFirst
  <1>2. \A r \in Rank : \A e : Follows(S, r, e) => Follows(T, r, e)
    BY <1>1 DEF Follows
  <1>3. \A r \in Rank : Reached(S, r) => Reached(T, r)
    BY <1>1 DEF Reached
  <1>4. T.down[0] = <<>> /\ (~Seen(T, 0) => \A r \in Rank : ~Seen(T, r) /\ T.down[r] = <<>>)
    BY <1>0, <1>1 DEF OneEvent
  <1>5. ASSUME NEW e \in Shutdowns, Seen(T, 0), First(T, 0, e), e.wired
        PROVE  /\ \A r \in Rank : Follows(T, r, e)
               /\ \A r \in Rank \ {0} : Seen(T, Parent[r]) => Reached(T, r)
    <2>1. Seen(S, 0) /\ First(S, 0, e)
      BY <1>0, <1>1, <1>5
    <2>2. /\ \A r \in Rank : Follows(S, r, e)
          /\ \A r \in Rank \ {0} : Seen(S, Parent[r]) => Reached(S, r)
      BY <1>5, <2>1 DEF OneEvent
    <2> QED BY <1>0, <1>1, <1>2, <1>3, <2>2
  <1> QED BY <1>4, <1>5 DEF OneEvent

(* Views depend on the queues and the timer. *)
LEMMA ViewSame ==
    ASSUME NEW S, NEW T, NEW r, T.sd[r] = S.sd[r], T.local[r] = S.local[r]
    PROVE  SameFirst(S, T, r)
  BY DEF SameFirst, Seen, First

(* Steps that touch neither queues of events nor timers keep OneEvent. *)
LEMMA OneEventQuiet ==
    ASSUME NEW S, NEW T, OneEvent(S), T.sd = S.sd, T.local = S.local, T.down = S.down
    PROVE  OneEvent(T)
  <1>1. \A r \in Rank : SameView(S, T, r)
    BY ViewSame DEF SameView
  <1> QED BY <1>1, OneEventSame

(* Counting touches neither. *)
LEMMA OneEventReduces ==
    ASSUME NEW S, NEW T, NEW r, NEW a, Reduces(S, T, r, a), OneEvent(S)
    PROVE  OneEvent(T)
  <1>1. T.sd = S.sd /\ T.local = S.local /\ T.down = S.down
    BY DEF Reduces, Keeps, Flushes, Totals, SameQueues, SameRest
  <1> QED BY <1>1, OneEventQuiet

(* Event e at the end of the queue of broker r. *)
Queued(S, T, r, e) ==
    /\ \A k \in Rank : k # r => SameFirst(S, T, k)
    /\ Seen(T, r) /\ \A x : First(T, r, x) <=> IF Seen(S, r) THEN First(S, r, x) ELSE x = e

(* An event at the end of a queue is the first one when there was none. *)
LEMMA PassView ==
    ASSUME NEW S, NEW T, NEW r \in Rank, NEW e \in Message, S \in States, T.sd = S.sd,
           PutIn(Rank, Message, S.local, T.local, r, e)
    PROVE  /\ IsEvent(e) => Queued(S, T, r, e)
           /\ ~IsEvent(e) => \A k \in Rank : SameFirst(S, T, k)
  <1>1. \A k \in Rank : k # r => SameFirst(S, T, k)
    BY ViewSame DEF PutIn
  <1>2. T.local[r] = Append(S.local[r], e) /\ S.local[r] \in Seq(Message)
    BY DEF PutIn, States
  <1>3. /\ HasEvent(T.local[r]) <=> HasEvent(S.local[r]) \/ IsEvent(e)
        /\ \A x : FirstIs(T.local[r], x) <=> IF HasEvent(S.local[r]) THEN FirstIs(S.local[r], x)
                                             ELSE x = e /\ IsEvent(e)
    <2> DEFINE q == S.local[r]
    <2>1. q \in Seq(Message)
      BY <1>2
    <2> HIDE DEF q
    <2>2. ASSUME NEW x
          PROVE  /\ HasEvent(Append(q, e)) <=> HasEvent(q) \/ IsEvent(e)
                 /\ FirstIs(Append(q, e), x) <=> IF HasEvent(q) THEN FirstIs(q, x)
                                                 ELSE x = e /\ IsEvent(e)
      BY <2>1, EventAppend
    <2> QED BY <1>2, <2>2 DEF q
  <1>4. ~HasEvent(S.local[r]) => \A x : ~FirstIs(S.local[r], x)
    BY DEF HasEvent, FirstIs
  <1>5. IsEvent(e) => Seen(T, r)
    BY <1>3 DEF Seen
  <1>6. IsEvent(e) => \A x : First(T, r, x) <=> IF Seen(S, r) THEN First(S, r, x) ELSE x = e
    BY <1>3 DEF Seen, First
  <1>7. ~IsEvent(e) => SameFirst(S, T, r)
    <2>1. ~IsEvent(e) => \A x : FirstIs(T.local[r], x) <=> FirstIs(S.local[r], x)
      BY <1>3, <1>4
    <2>2. ~IsEvent(e) => (HasEvent(T.local[r]) <=> HasEvent(S.local[r]))
      BY <1>3
    <2> QED BY <2>1, <2>2 DEF SameFirst, Seen, First
  <1> QED BY <1>1, <1>5, <1>6, <1>7 DEF Queued

(* All children are known to their parents. *)
Wired(S) == \A r \in Rank \ {0} : r \in S.known[Parent[r]]

(* Only children are known. *)
Related(S) == \A p \in Rank : \A c \in S.known[p] : c # 0 /\ Parent[c] = p

(* Rank 0 publishes an event. *)
LEMMA OneEventPublish ==
    ASSUME NEW S, NEW T, NEW e \in Shutdowns, Passes(S, T, 0, e), OneEvent(S), Related(S),
           e.wired => Wired(S)
    PROVE  OneEvent(T)
  <1>0. 0 \in Rank /\ \A r \in Rank \ {0} : Parent[r] \in Rank
    BY SessionAssumption
  <1>1. /\ \A k \in Rank : k # 0 => SameFirst(S, T, k)
        /\ Seen(T, 0) /\ \A x : First(T, 0, x) <=> IF Seen(S, 0) THEN First(S, 0, x) ELSE x = e
    <2>1. e \in Message /\ IsEvent(e) /\ S \in States /\ T.sd = S.sd
      BY Kinds DEF IsEvent, Passes, SameRest
    <2>2. PutIn(Rank, Message, S.local, T.local, 0, e)
      BY DEF Passes
    <2>3. Queued(S, T, 0, e)
      BY <1>0, <2>1, <2>2, PassView
    <2> QED BY <2>3 DEF Queued
  <1>2. \A c \in Rank : /\ S.down[c] \in Seq(Shutdowns)
                        /\ T.down[c] = IF c \in S.known[0] THEN Append(S.down[c], e) ELSE S.down[c]
    BY DEF Passes, SameRest, States
  <1>3. \A c \in Rank : /\ S.down[c] # <<>> => T.down[c] # <<>> /\ Head(T.down[c]) = Head(S.down[c])
                        /\ S.down[c] = <<>> /\ c \in S.known[0] => T.down[c] # <<>> /\ Head(T.down[c]) = e
    <2>1. \A q \in Seq(Shutdowns) : /\ Append(q, e) # <<>>
                                    /\ q # <<>> => Head(Append(q, e)) = Head(q)
                                    /\ q = <<>> => Head(Append(q, e)) = e
      BY HeadAppend
    <2> QED BY <1>2, <2>1
  <1>4. \A c \in Rank : c \in S.known[0] => c # 0 /\ Parent[c] = 0
    BY <1>0 DEF Related
  <1>5. T.down[0] = <<>>
    BY <1>0, <1>2, <1>4 DEF OneEvent
  <1>6. \A k \in Rank : k # 0 => /\ Seen(T, k) <=> Seen(S, k)
                                 /\ \A x : First(T, k, x) <=> First(S, k, x)
    BY <1>1 DEF SameFirst
  <1>7. ASSUME NEW x \in Shutdowns, First(T, 0, x), x.wired, Seen(S, 0)
        PROVE  /\ \A r \in Rank : Follows(T, r, x)
               /\ \A r \in Rank \ {0} : Seen(T, Parent[r]) => Reached(T, r)
    <2>1. First(S, 0, x)
      BY <1>1, <1>7
    <2>2. /\ \A r \in Rank : Follows(S, r, x)
          /\ \A r \in Rank \ {0} : Seen(S, Parent[r]) => Reached(S, r)
      BY <1>7, <2>1 DEF OneEvent
    <2>3. ASSUME NEW r \in Rank \ {0}, Seen(T, Parent[r]) PROVE Reached(T, r)
      <3>1. Reached(S, r)
        BY <1>0, <1>6, <1>7, <2>2, <2>3
      <3> QED BY <1>3, <1>6, <3>1 DEF Reached
    <2>4. ASSUME NEW r \in Rank PROVE Follows(T, r, x)
      <3>1. CASE r = 0
        BY <1>1, <1>7, <3>1 DEF Follows
      <3>2. CASE r # 0 /\ Seen(S, r)
        BY <1>6, <2>2, <3>2 DEF Follows
      <3>3. CASE r # 0 /\ ~Seen(S, r) /\ S.down[r] # <<>>
        BY <1>3, <1>6, <2>2, <3>3 DEF Follows
      <3>4. CASE r # 0 /\ ~Seen(S, r) /\ S.down[r] = <<>>
        <4>1. r \notin S.known[0]
          BY <1>4, <1>7, <2>2, <3>4 DEF Reached
        <4> QED BY <1>2, <1>6, <3>4, <4>1 DEF Follows
      <3> QED BY <3>1, <3>2, <3>3, <3>4
    <2> QED BY <2>3, <2>4
  <1>8. ASSUME NEW x \in Shutdowns, First(T, 0, x), x.wired, ~Seen(S, 0)
        PROVE  /\ \A r \in Rank : Follows(T, r, x)
               /\ \A r \in Rank \ {0} : Seen(T, Parent[r]) => Reached(T, r)
    <2>1. x = e /\ Wired(S)
      BY <1>1, <1>8
    <2>2. \A r \in Rank : ~Seen(S, r) /\ S.down[r] = <<>>
      BY <1>8 DEF OneEvent
    <2>3. ASSUME NEW r \in Rank \ {0}, Seen(T, Parent[r]) PROVE Reached(T, r)
      <3>1. Parent[r] = 0
        BY <1>0, <1>6, <2>2, <2>3
      <3>2. r \in S.known[0]
        BY <2>1, <3>1 DEF Wired
      <3> QED BY <1>3, <2>2, <3>2 DEF Reached
    <2>4. ASSUME NEW r \in Rank PROVE Follows(T, r, x)
      <3>1. CASE r = 0
        BY <1>1, <1>8, <3>1 DEF Follows
      <3>2. CASE r # 0
        <4>1. ~Seen(T, r)
          BY <1>6, <2>2, <3>2
        <4>2. T.down[r] # <<>> => Head(T.down[r]) = x
          BY <1>2, <1>3, <2>1, <2>2
        <4> QED BY <4>1, <4>2 DEF Follows
      <3> QED BY <3>1, <3>2
    <2> QED BY <2>3, <2>4
  <1> QED BY <1>1, <1>5, <1>7, <1>8 DEF OneEvent

(* A broker passes an event from its parent on. *)
LEMMA OneEventForwards ==
    ASSUME NEW S, NEW T, NEW r \in Rank, Forwards(S, T, r), OneEvent(S), Related(S),
           \A x \in Shutdowns : Seen(S, 0) /\ First(S, 0, x) /\ x.wired => Wired(S)
    PROVE  OneEvent(T)
  <1>0. 0 \in Rank /\ \A k \in Rank \ {0} : Parent[k] \in Rank /\ Parent[k] # k
    BY SMTT(60), SessionAssumption
  <1>1. PICK M \in States, e \in Shutdowns :
          TakesDown(S, M, r) /\ e = Head(S.down[r]) /\ Passes(M, T, r, e)
    BY DEF Forwards
  <1>2. r # 0 /\ S.down[r] # <<>>
    BY <1>1 DEF OneEvent, TakesDown
  <1>3. /\ \A k \in Rank : k # r => SameFirst(S, T, k)
        /\ Seen(T, r) /\ \A x : First(T, r, x) <=> IF Seen(S, r) THEN First(S, r, x) ELSE x = e
    <2>1. e \in Message /\ IsEvent(e) /\ S \in States /\ T.sd = S.sd /\ M.local = S.local
      BY <1>1, Kinds DEF IsEvent, Passes, SameRest, TakesDown
    <2>2. PutIn(Rank, Message, S.local, T.local, r, e)
      <3>1. PutIn(Rank, Message, M.local, T.local, r, e)
        BY <1>1 DEF Passes
      <3> QED BY <2>1, <3>1
    <2>3. Queued(S, T, r, e)
      BY <2>1, <2>2, PassView
    <2> QED BY <2>3 DEF Queued
  <1>4. \A c \in Rank : c \in S.known[r] => c # 0 /\ Parent[c] = r /\ c # r
    BY <1>0 DEF Related
  <1>5. \A c \in Rank : c # r =>
          /\ S.down[c] \in Seq(Shutdowns)
          /\ T.down[c] = IF c \in S.known[r] THEN Append(S.down[c], e) ELSE S.down[c]
    <2>1. \A c \in Rank : S.down[c] \in Seq(Shutdowns)
      BY <1>1 DEF TakesDown, SameRest, States
    <2>2. M.known = S.known /\ \A c \in Rank : c # r => M.down[c] = S.down[c]
      BY <1>1 DEF TakesDown, SameRest, Taken
    <2>3. \A c \in Rank : T.down[c] = IF c \in M.known[r] THEN Append(M.down[c], e) ELSE M.down[c]
      BY <1>1 DEF Passes
    <2> QED BY <2>1, <2>2, <2>3
  <1>6. \A c \in Rank : c # r =>
          /\ S.down[c] # <<>> => T.down[c] # <<>> /\ Head(T.down[c]) = Head(S.down[c])
          /\ S.down[c] = <<>> /\ c \in S.known[r] => T.down[c] # <<>> /\ Head(T.down[c]) = e
    <2>1. \A q \in Seq(Shutdowns) : /\ Append(q, e) # <<>>
                                    /\ q # <<>> => Head(Append(q, e)) = Head(q)
                                    /\ q = <<>> => Head(Append(q, e)) = e
      BY HeadAppend
    <2> QED BY <1>5, <2>1
  <1>7. \A k \in Rank : k # r => /\ Seen(T, k) <=> Seen(S, k)
                                 /\ \A x : First(T, k, x) <=> First(S, k, x)
    BY <1>3 DEF SameFirst
  <1>8. T.down[0] = <<>>
    BY <1>0, <1>2, <1>4, <1>5 DEF OneEvent
  <1>9. Seen(T, 0) /\ Seen(S, 0)
    <2>1. Seen(S, 0)
      BY <1>2 DEF OneEvent
    <2> QED BY <1>0, <1>2, <1>7, <2>1
  <1>10. ASSUME NEW x \in Shutdowns, First(T, 0, x), x.wired
         PROVE  /\ \A k \in Rank : Follows(T, k, x)
                /\ \A k \in Rank \ {0} : Seen(T, Parent[k]) => Reached(T, k)
    <2>1. First(S, 0, x)
      BY <1>0, <1>2, <1>7, <1>10
    <2>2. /\ \A k \in Rank : Follows(S, k, x)
          /\ \A k \in Rank \ {0} : Seen(S, Parent[k]) => Reached(S, k)
      BY <1>9, <1>10, <2>1 DEF OneEvent
    <2>3. Wired(S)
      BY <1>9, <1>10, <2>1
    <2>4. ~Seen(S, r) => e = x
      BY <1>1, <1>2, <2>2 DEF Follows
    <2>5. ASSUME NEW k \in Rank \ {0}, Seen(T, Parent[k]) PROVE Reached(T, k)
      <3>1. CASE k = r
        BY <1>3, <3>1 DEF Reached
      <3>2. CASE k # r /\ Reached(S, k)
        BY <1>6, <1>7, <3>2 DEF Reached
      <3>3. CASE k # r /\ ~Reached(S, k)
        <4>1. Parent[k] = r
          BY <1>0, <1>7, <2>2, <2>5, <3>3
        <4>2. k \in S.known[r]
          BY <2>3, <4>1 DEF Wired
        <4> QED BY <1>6, <3>3, <4>2 DEF Reached
      <3> QED BY <3>1, <3>2, <3>3
    <2>6. ASSUME NEW k \in Rank PROVE Follows(T, k, x)
      <3>1. CASE k = r
        <4>1. First(T, r, x)
          BY <1>3, <2>2, <2>4 DEF Follows
        <4> QED BY <1>3, <3>1, <4>1 DEF Follows
      <3>2. CASE k # r /\ Seen(S, k)
        BY <1>7, <2>2, <3>2 DEF Follows
      <3>3. CASE k # r /\ ~Seen(S, k) /\ S.down[k] # <<>>
        BY <1>6, <1>7, <2>2, <3>3 DEF Follows
      <3>4. CASE k # r /\ ~Seen(S, k) /\ S.down[k] = <<>>
        <4>1. k \in S.known[r] => ~Seen(S, r)
          BY <1>4, <2>2, <3>4 DEF Reached
        <4>2. T.down[k] # <<>> => Head(T.down[k]) = x
          BY <1>5, <1>6, <2>4, <3>4, <4>1
        <4> QED BY <1>7, <3>4, <4>2 DEF Follows
      <3> QED BY <3>1, <3>2, <3>3, <3>4
    <2> QED BY <2>5, <2>6
  <1> QED BY <1>8, <1>9, <1>10 DEF OneEvent

(* Taking a message from a queue. *)
LEMMA OneEventServes ==
    ASSUME NEW S, NEW T, NEW r \in Rank, Serves(S, T, r), OneEvent(S)
    PROVE  OneEvent(T)
  <1>1. PICK M \in States, m \in Message :
          /\ TakesLocal(S, M, r) /\ m = Head(S.local[r])
          /\ \/ m \in Joins /\ Reduces(M, T, r, m.n)
             \/ m \in Shutdowns /\ Stops(M, T, r, m)
    BY DEF Serves
  <1>2. /\ S.local[r] \in Seq(Message) /\ S.local[r] # <<>> /\ M.local[r] = Tail(S.local[r])
        /\ M.sd = S.sd /\ M.down = S.down /\ \A k \in Rank : k # r => M.local[k] = S.local[k]
    BY <1>1 DEF TakesLocal, SameRest, Taken, States
  <1>3. /\ ~IsEvent(m) => /\ HasEvent(M.local[r]) <=> HasEvent(S.local[r])
                          /\ \A x : FirstIs(M.local[r], x) <=> FirstIs(S.local[r], x)
        /\ IsEvent(m) => HasEvent(S.local[r]) /\ \A x : FirstIs(S.local[r], x) <=> x = m
    <2> DEFINE q == S.local[r]
    <2>1. q \in Seq(Message) /\ q # <<>>
      BY <1>2
    <2>2. m = Head(q) /\ M.local[r] = Tail(q)
      BY <1>1, <1>2
    <2> HIDE DEF q
    <2>3. ASSUME NEW x
          PROVE  /\ ~IsEvent(Head(q)) => /\ HasEvent(Tail(q)) <=> HasEvent(q)
                                         /\ FirstIs(Tail(q), x) <=> FirstIs(q, x)
                 /\ IsEvent(Head(q)) => HasEvent(q) /\ (FirstIs(q, x) <=> x = Head(q))
      BY <2>1, EventTail
    <2> QED BY <2>2, <2>3 DEF q
  <1>4. CASE m \in Joins /\ Reduces(M, T, r, m.n)
    <2>1. ~IsEvent(m)
      BY <1>4, Kinds DEF IsEvent
    <2>2. SameFirst(S, M, r)
      BY <1>2, <1>3, <2>1 DEF SameFirst, Seen, First
    <2>3. \A k \in Rank : SameView(S, M, k)
      BY <1>2, <2>2, ViewSame DEF SameView
    <2>4. OneEvent(M)
      BY <2>3, OneEventSame
    <2> QED BY <1>4, <2>4, OneEventReduces
  <1>5. CASE m \in Shutdowns /\ Stops(M, T, r, m)
    <2>1. IsEvent(m) /\ m # NoTimer
      BY <1>5, Kinds DEF IsEvent
    <2>2. /\ T.down = S.down
          /\ \A k \in Rank : /\ T.local[k] = M.local[k]
                            /\ T.sd[k] = IF k = r /\ S.sd[r] = NoTimer THEN m ELSE S.sd[k]
      BY <1>2, <1>5 DEF Stops
    <2>3. T.sd[r] # NoTimer /\ T.sd[r] = IF S.sd[r] = NoTimer THEN m ELSE S.sd[r]
      BY <2>1, <2>2
    <2>4. SameFirst(S, T, r)
      BY <1>3, <2>1, <2>3 DEF SameFirst, Seen, First
    <2>5. \A k \in Rank : k # r => SameFirst(S, T, k)
      BY <1>2, <2>2, ViewSame
    <2>6. \A k \in Rank : SameView(S, T, k)
      BY <2>2, <2>4, <2>5 DEF SameView
    <2> QED BY <2>6, OneEventSame
  <1> QED BY <1>1, <1>4, <1>5

(* Sending an event keeps OneEvent. *)
LEMMA OneEventPosts ==
    ASSUME NEW S, NEW T, NEW r \in Rank, NEW e \in Shutdowns, Posts(S, T, r, e), OneEvent(S),
           Related(S), e.wired => Wired(S)
    PROVE  OneEvent(T)
  <1>1. CASE r = 0 /\ Passes(S, T, 0, e)
    BY <1>1, OneEventPublish
  <1>2. CASE T.local = S.local /\ T.down = S.down /\ SameRest(S, T)
    BY <1>2, OneEventQuiet DEF SameRest
  <1> QED BY <1>1, <1>2 DEF Posts

(* Taking a message of a child keeps OneEvent. *)
LEMMA OneEventHears ==
    ASSUME NEW S, NEW T, NEW r \in Rank, r # 0, Hears(S, T, r), OneEvent(S),
           Related(S), \A x \in Shutdowns : Said(S, x) /\ x.wired => Wired(S)
    PROVE  OneEvent(T)
  <1> DEFINE p == Parent[r]
  <1>0. p \in Rank
    BY SessionAssumption
  <1>1. PICK M \in States, m \in Message :
          /\ TakesUp(S, M, r) /\ m = Head(S.up[r])
          /\ \/ m \in Joins /\ Enqueues(M, T, p, m)
             \/ m \in Shutdowns /\ Posts(M, T, p, m)
    BY DEF Hears
  <1>2. OneEvent(M)
    <2>1. M.sd = S.sd /\ M.local = S.local /\ M.down = S.down
      BY <1>1 DEF TakesUp
    <2> QED BY <2>1, OneEventQuiet
  <1>3. \A k \in Rank : \A c : c \in M.known[k] <=> c \in S.known[k] \/ (k = p /\ c = r)
    <2>1. M.known = [S.known EXCEPT ![p] = @ \cup {r}] /\ S.known \in [Rank -> SUBSET Rank]
      BY <1>1 DEF TakesUp, States
    <2> HIDE DEF p
    <2> QED BY <2>1
  <1>4. Related(M) /\ (Wired(S) => Wired(M))
    <2>1. ASSUME NEW k \in Rank, NEW c \in M.known[k] PROVE c # 0 /\ Parent[c] = k
      <3>1. c \in S.known[k] \/ (k = p /\ c = r)
        BY <1>3
      <3>2. CASE c \in S.known[k]
        BY <3>2 DEF Related
      <3>3. CASE k = p /\ c = r
        BY <3>3
      <3> QED BY <3>1, <3>2, <3>3
    <2>2. \A k \in Rank \ {0} : Parent[k] \in Rank
      BY SessionAssumption
    <2> QED BY <1>3, <2>1, <2>2 DEF Wired, Related
  <1> HIDE DEF p
  <1>5. CASE m \in Joins /\ Enqueues(M, T, p, m)
    <2>1. ~IsEvent(m)
      BY <1>5, Kinds DEF IsEvent
    <2>2. T.sd = M.sd /\ T.down = M.down /\ PutIn(Rank, Message, M.local, T.local, p, m)
      BY <1>5 DEF Enqueues, SameRest
    <2>3. \A k \in Rank : SameFirst(M, T, k)
      BY <1>0, <2>1, <2>2, PassView
    <2>4. \A k \in Rank : SameView(M, T, k)
      BY <2>2, <2>3 DEF SameView
    <2> QED BY <1>2, <2>4, OneEventSame
  <1>6. CASE m \in Shutdowns /\ Posts(M, T, p, m)
    <2>1. Said(S, m)
      <3>1. In(Head(S.up[r]), S.up[r]) /\ m = Head(S.up[r])
        BY <1>1 DEF TakesUp, Taken
      <3>2. In(m, S.up[r])
        BY <3>1
      <3> QED BY <3>2 DEF Said
    <2>2. m.wired => Wired(M)
      BY <1>4, <1>6, <2>1
    <2> QED BY <1>0, <1>2, <1>4, <1>6, <2>2, OneEventPosts
  <1> QED BY <1>1, <1>5, <1>6

-----------------------------------------------------------------------------
(* Whom the parents have heard from.                                       *)

Sending(S, r) == S.red[r].items > 0 \/ HasJoin(S.up[r])

(* Known, with its parts named. *)
LEMMA KnownIs ==
    ASSUME NEW S, NEW R
    PROVE  Known(S, R) <=> /\ Related(S)
                           /\ \A r \in Rank \ {0} :
                                R[r] # "off" /\ r \notin S.known[Parent[r]] => Sending(S, r)
  BY DEF Known, Related, Sending

(* A queue has a join when one was appended, or was there. *)
LEMMA JoinAppend ==
    ASSUME NEW q \in Seq(Message), NEW m \in Message
    PROVE  HasJoin(Append(q, m)) <=> HasJoin(q) \/ m.t = "join"
  <1> DEFINE n == Len(q)
             t == Append(q, m)
  <1>1. /\ n \in Nat /\ DOMAIN q = 1 .. n /\ DOMAIN t = 1 .. n + 1
        /\ t[n + 1] = m /\ \A i \in 1 .. n : t[i] = q[i]
    <2>1. t \in Seq(Message) /\ Len(t) = n + 1 /\ t[n + 1] = m /\ \A i \in 1 .. n : t[i] = q[i]
      BY SMTT(60), AppendIs
    <2>2. DOMAIN t = 1 .. Len(t) /\ n \in Nat /\ DOMAIN q = 1 .. n
      BY <2>1, LengthIs
    <2> QED BY <2>1, <2>2
  <1> HIDE DEF n, t
  <1>2. /\ \A i \in 1 .. n : i \in 1 .. n + 1
        /\ \A i \in 1 .. n + 1 : i \in 1 .. n \/ i = n + 1
        /\ n + 1 \in 1 .. n + 1
    BY SMTT(60), <1>1
  <1>3. HasJoin(t) <=> HasJoin(q) \/ m.t = "join"
    BY <1>1, <1>2 DEF HasJoin
  <1> QED BY <1>3 DEF t

(* Nobody starts, and who is sending is still, unless it has been heard. *)
LEMMA KnownKept ==
    ASSUME NEW S, NEW T, NEW R, NEW Q, Known(S, R), Related(T),
           \A k \in Rank \ {0} : Q[k] # "off" => R[k] # "off",
           \A k \in Rank \ {0} : \/ k \in T.known[Parent[k]]
                                 \/ /\ k \notin S.known[Parent[k]]
                                    /\ Sending(S, k) => Sending(T, k)
    PROVE  Known(T, Q)
  BY KnownIs

(* Known is about the counts, the requests and the known children. *)
LEMMA KnownQuiet ==
    ASSUME NEW S, NEW T, NEW R, Known(S, R), T.known = S.known, T.red = S.red, T.up = S.up
    PROVE  Known(T, R)
  <1>1. \A k \in Rank : Sending(S, k) => Sending(T, k)
    BY DEF Sending
  <1>2. Related(T)
    BY KnownIs DEF Related
  <1> QED BY <1>1, <1>2, KnownKept

(* A broker that has counts keeps them, or sends them to its parent. *)
LEMMA KnownReduces ==
    ASSUME NEW S, NEW T, NEW R, NEW Q, NEW r \in Rank, NEW a \in Nat, Known(S, R), S \in States,
           Reduces(S, T, r, a), \A k \in Rank : k # r /\ Q[k] # "off" => R[k] # "off",
           Q[r] # "off" => R[r] # "off" \/ a > 0
    PROVE  Known(T, Q)
  <1>1. PICK M \in States, n \in Nat :
          /\ Keeps(S, M, r, a, n)
          /\ (n = 0 /\ T = M) \/ (n \in Nat \ {0} /\ Flushes(M, T, r, n))
    BY DEF Reduces
  <1>2. /\ M.known = S.known /\ M.up = S.up /\ \A k \in Rank : k # r => M.red[k] = S.red[k]
        /\ M.red[r].items + n = S.red[r].items + a
        /\ M.red[r].items \in Nat /\ S.red[r].items \in Nat
    BY <1>1 DEF Keeps, SameQueues, States, Reduce
  <1>3. /\ T.known = S.known /\ T.red = M.red
        /\ \A k \in Rank : k # r => T.up[k] = S.up[k]
    BY <1>1, <1>2 DEF Flushes, Totals, SameQueues, SameRest, SameCounts, PutIn
  <1>4. ASSUME r # 0, Sending(S, r) \/ a > 0 PROVE Sending(T, r)
    <2>1. CASE n = 0 /\ T = M
      <3>1. M.red[r].items > 0 \/ ~(S.red[r].items > 0 \/ a > 0)
        BY SMTT(60), <1>2, <2>1
      <3> QED BY <1>2, <1>4, <2>1, <3>1 DEF Sending
    <2>2. CASE n \in Nat \ {0} /\ Flushes(M, T, r, n)
      <3>1. PutIn(Rank, Message, M.up, T.up, r, Join(n))
        BY <1>4, <2>2 DEF Flushes
      <3>2. Join(n) \in Joins
        BY <2>2 DEF Join, Joins
      <3>3. T.up[r] = Append(M.up[r], Join(n)) /\ M.up[r] \in Seq(Message)
        BY <1>1, <3>1 DEF PutIn, States
      <3>4. HasJoin(Append(M.up[r], Join(n)))
        BY <3>2, <3>3, Kinds, JoinAppend
      <3> QED BY <3>3, <3>4 DEF Sending
    <2> QED BY <1>1, <2>1, <2>2
  <1>5. \A k \in Rank : k # r => (Sending(S, k) => Sending(T, k))
    BY <1>2, <1>3 DEF Sending
  <1>6. Related(T)
    BY <1>3, KnownIs DEF Related
  <1>7. ASSUME NEW k \in Rank \ {0}, Q[k] # "off", k \notin T.known[Parent[k]] PROVE Sending(T, k)
    <2>1. CASE k = r
      <3>1. Sending(S, r) \/ a > 0
        BY <1>3, <1>7, <2>1, KnownIs
      <3> QED BY <1>4, <2>1, <3>1
    <2>2. CASE k # r
      BY <1>3, <1>5, <1>7, <2>2, KnownIs
    <2> QED BY <2>1, <2>2
  <1> QED BY <1>6, <1>7, KnownIs

(* Events take no join away. *)
LEMMA KnownPosts ==
    ASSUME NEW S, NEW T, NEW R, NEW r \in Rank, NEW e \in Shutdowns, Known(S, R), Posts(S, T, r, e)
    PROVE  Known(T, R)
  <1>1. CASE r = 0 /\ Passes(S, T, 0, e)
    <2>1. T.known = S.known /\ T.red = S.red /\ T.up = S.up
      BY <1>1 DEF Passes, SameRest, SameCounts
    <2> QED BY <2>1, KnownQuiet
  <1>2. CASE SameRest(S, T) /\ PutIn(Rank, Message, S.up, T.up, r, e)
    <2>1. /\ T.up[r] = Append(S.up[r], e) /\ S.up[r] \in Seq(Message) /\ e \in Message
          /\ \A k \in Rank : k # r => T.up[k] = S.up[k]
      BY <1>2, Kinds DEF PutIn, SameRest, States
    <2>2. HasJoin(S.up[r]) => HasJoin(Append(S.up[r], e))
      BY <2>1, JoinAppend
    <2>3. T.red = S.red /\ T.known = S.known
      BY <1>2 DEF SameRest, SameCounts
    <2>4. \A k \in Rank : Sending(S, k) => Sending(T, k)
      BY <2>1, <2>2, <2>3 DEF Sending
    <2>5. Related(T)
      BY <2>3, KnownIs DEF Related
    <2> QED BY <2>3, <2>4, <2>5, KnownKept
  <1> QED BY <1>1, <1>2 DEF Posts

(* The child whose message is taken is known from then on. *)
LEMMA KnownHears ==
    ASSUME NEW S, NEW T, NEW R, NEW r \in Rank, r # 0, Hears(S, T, r), Known(S, R)
    PROVE  Known(T, R)
  <1> DEFINE p == Parent[r]
  <1>0. p \in Rank
    BY SessionAssumption
  <1>1. PICK M \in States, m \in Message :
          /\ TakesUp(S, M, r) /\ m = Head(S.up[r])
          /\ \/ m \in Joins /\ Enqueues(M, T, p, m)
             \/ m \in Shutdowns /\ Posts(M, T, p, m)
    BY DEF Hears
  <1>2. \A k \in Rank : \A c : c \in M.known[k] <=> c \in S.known[k] \/ (k = p /\ c = r)
    <2>1. M.known = [S.known EXCEPT ![p] = @ \cup {r}] /\ S.known \in [Rank -> SUBSET Rank]
      BY <1>1 DEF TakesUp, States
    <2> HIDE DEF p
    <2> QED BY <2>1
  <1>3. Related(M)
    <2>1. ASSUME NEW k \in Rank, NEW c \in M.known[k] PROVE c # 0 /\ Parent[c] = k
      <3>1. c \in S.known[k] \/ (k = p /\ c = r)
        BY <1>2
      <3>2. CASE c \in S.known[k]
        BY <3>2, KnownIs DEF Related
      <3>3. CASE k = p /\ c = r
        BY <3>3
      <3> QED BY <3>1, <3>2, <3>3
    <2> QED BY <2>1 DEF Related
  <1>4. M.red = S.red /\ \A k \in Rank : k # r => M.up[k] = S.up[k]
    BY <1>1 DEF TakesUp, SameCounts, Taken
  <1>5. Known(M, R)
    <2>1. \A k \in Rank \ {0} : Parent[k] \in Rank
      BY SessionAssumption
    <2>2. r \in M.known[Parent[r]]
      BY <1>0, <1>2
    <2>3. \A k \in Rank : k # r => (Sending(S, k) => Sending(M, k))
      BY <1>4 DEF Sending
    <2>4. \A k \in Rank \ {0} : k \in S.known[Parent[k]] => k \in M.known[Parent[k]]
      BY <1>2, <2>1
    <2> QED BY <1>3, <2>2, <2>3, <2>4, KnownKept
  <1> HIDE DEF p
  <1>6. CASE Enqueues(M, T, p, m)
    <2>1. T.known = M.known /\ T.red = M.red /\ T.up = M.up
      BY <1>6 DEF Enqueues, SameRest, SameCounts
    <2> QED BY <1>5, <2>1, KnownQuiet
  <1>7. CASE m \in Shutdowns /\ Posts(M, T, p, m)
    BY <1>0, <1>5, <1>7, KnownPosts
  <1> QED BY <1>1, <1>6, <1>7

-----------------------------------------------------------------------------
(* What holds of the state besides the counts is kept by every handler,    *)
(* when the run levels start only in a session that is wired up.           *)

Rest(S, R) == Known(S, R) /\ Levels(S) /\ Truths(S) /\ OneEvent(S)
Started(S) == S.level > 0 => Wired(S)
Stays(S, T) == T \in States /\ (S.sd[0] # NoTimer => T.sd[0] = S.sd[0])
FromZero(S, T) == T.total = Cardinality(Rank) /\ T.total # S.total => S.level = 0

(* Wired events come when everybody is known. *)
LEMMA SaidWired ==
    ASSUME NEW S \in States, NEW R, Rest(S, R), Started(S)
    PROVE  /\ \A x \in Shutdowns : Said(S, x) /\ x.wired => Wired(S)
           /\ \A x \in Shutdowns : Seen(S, 0) /\ First(S, 0, x) /\ x.wired => Wired(S)
           /\ Related(S) /\ OneEvent(S)
  <1>1. \A x \in Shutdowns : Said(S, x) /\ x.wired => Wired(S)
    BY DEF Rest, Started, Truths, Truth
  <1>2. \A x : Seen(S, 0) /\ First(S, 0, x) => Said(S, x)
    <2>1. 0 \in Rank
      BY SessionAssumption
    <2>2. \A x : FirstIs(S.local[0], x) => In(x, S.local[0])
      BY DEF FirstIs, In
    <2> QED BY <2>1, <2>2 DEF First, Said
  <1>3. Related(S) /\ OneEvent(S)
    BY KnownIs DEF Rest
  <1> QED BY <1>1, <1>2, <1>3

(* A true event may be sent. *)
LEMMA RestPosts ==
    ASSUME NEW S \in States, NEW T, NEW R, NEW r \in Rank, NEW e \in Shutdowns, Posts(S, T, r, e),
           Rest(S, R), Started(S), Truth(S, e)
    PROVE  Rest(T, R) /\ Stays(S, T)
  <1>1. Known(T, R)
    BY KnownPosts DEF Rest
  <1>2. SameRest(S, T)
    BY DEF Posts, Passes
  <1>3. SameLevel(S, T) /\ Stays(S, T)
    BY <1>2 DEF SameRest, Stays
  <1>4. Levels(T)
    BY <1>3, LevelsSame DEF Rest
  <1>5. Later(S, T)
    BY <1>3, LaterSame
  <1>6. Truths(T)
    <2>1. Truth(T, e)
      BY <1>5, TruthLater
    <2>2. ASSUME NEW m \in Shutdowns, Said(T, m) PROVE Said(S, m) \/ Truth(T, m)
      <3>1. Said(S, m) \/ m = e
        BY <2>2, SaidPosts
      <3>2. CASE m = e
        BY <2>1, <3>2
      <3> QED BY <3>1, <3>2
    <2> QED BY <1>5, <2>2, TruthsFrom DEF Rest
  <1>7. OneEvent(T)
    <2>1. e.wired => Wired(S)
      BY DEF Truth, Started
    <2>2. Related(S) /\ OneEvent(S)
      BY SaidWired
    <2> QED BY <2>1, <2>2, OneEventPosts
  <1> QED BY <1>1, <1>3, <1>4, <1>6, <1>7 DEF Rest

(* A shutdown with a reason that holds may be sent. *)
LEMMA RestArms ==
    ASSUME NEW S \in States, NEW T, NEW R, NEW r \in Rank, NEW code, NEW by,
           Arms(S, T, r, code, by), Rest(S, R), Started(S),
           \/ by = 0 /\ code = "ok"
           \/ by = 1 /\ code # "ok" /\ code = S.rc[1]
           \/ by = 2 /\ code = S.rc[2] /\ S.rc[1] \in {"ok", "none"}
    PROVE  Rest(T, R) /\ Stays(S, T)
  <1>1. CASE T = S
    BY <1>1 DEF Stays
  <1>2. ASSUME NEW e \in Shutdowns, e.code = code, e.by = by, e.wired <=> S.level > 0,
               Posts(S, T, r, e)
        PROVE  Rest(T, R) /\ Stays(S, T)
    <2>1. Truth(S, e)
      BY <1>2 DEF Truth
    <2> QED BY <1>2, <2>1, RestPosts
  <1> QED BY <1>1, <1>2 DEF Arms

(* A broker gets a count of a: of a join, or its own when it starts. *)
LEMMA RestReduces ==
    ASSUME NEW S \in States, NEW T, NEW R, NEW Q, NEW r \in Rank, NEW a \in Nat, Reduces(S, T, r, a),
           FromZero(S, T), Rest(S, R),
           \A k \in Rank : k # r /\ Q[k] # "off" => R[k] # "off",
           Q[r] # "off" => R[r] # "off" \/ a > 0
    PROVE  Rest(T, Q) /\ Stays(S, T)
  <1>1. Levels(T)
    BY LevelsReduces DEF Rest, FromZero
  <1>2. Later(S, T)
    BY LaterReduces DEF Rest, FromZero
  <1>3. Truths(T)
    BY <1>2, SaidReduces, TruthsFrom DEF Rest
  <1>4. OneEvent(T)
    BY OneEventReduces DEF Rest
  <1>5. Known(T, Q)
    BY KnownReduces DEF Rest
  <1>6. Stays(S, T)
    BY DEF Reduces, Keeps, Flushes, Totals, SameQueues, SameRest, Stays
  <1> QED BY <1>1, <1>3, <1>4, <1>5, <1>6 DEF Rest

(* A message of a child. *)
LEMMA RestHears ==
    ASSUME NEW S \in States, NEW T, NEW R, NEW r \in Rank, r # 0, Hears(S, T, r), Rest(S, R), Started(S)
    PROVE  Rest(T, R) /\ Stays(S, T)
  <1>1. SameLevel(S, T) /\ Stays(S, T)
    <2>1. PICK M \in States, m \in Message :
            /\ TakesUp(S, M, r)
            /\ Enqueues(M, T, Parent[r], m) \/ Posts(M, T, Parent[r], m)
      BY DEF Hears
    <2>2. /\ SameLevel(S, M) /\ M.sd = S.sd /\ SameLevel(M, T) /\ T.sd = M.sd /\ T \in States
      BY <2>1 DEF TakesUp, Enqueues, Posts, Passes, SameRest
    <2> QED BY <2>2 DEF SameLevel, Stays
  <1>2. Known(T, R) /\ Levels(T)
    BY <1>1, KnownHears, LevelsSame DEF Rest
  <1>3. Truths(T)
    BY <1>1, LaterSame, SaidHears, TruthsFrom DEF Rest
  <1>4. OneEvent(T)
    BY SaidWired, OneEventHears
  <1> QED BY <1>1, <1>2, <1>3, <1>4 DEF Rest

(* An event of the parent. *)
LEMMA RestForwards ==
    ASSUME NEW S \in States, NEW T, NEW R, NEW r \in Rank, Forwards(S, T, r), Rest(S, R), Started(S)
    PROVE  Rest(T, R) /\ Stays(S, T)
  <1>1. PICK M \in States, e \in Shutdowns :
          TakesDown(S, M, r) /\ e = Head(S.down[r]) /\ Passes(M, T, r, e)
    BY DEF Forwards
  <1>2. SameRest(S, M) /\ M.up = S.up /\ SameRest(M, T) /\ T.up = M.up
    BY <1>1 DEF TakesDown, Passes
  <1>3. SameLevel(S, T) /\ T.sd = S.sd /\ T.up = S.up /\ T.known = S.known /\ T.red = S.red /\ T \in States
    BY <1>2 DEF SameRest, SameCounts, SameLevel
  <1>4. Levels(T) /\ Stays(S, T)
    BY <1>3, LevelsSame DEF Rest, Stays
  <1>5. Known(T, R)
    BY <1>3, KnownQuiet DEF Rest
  <1>6. Truths(T)
    BY <1>3, LaterSame, SaidForwards, TruthsFrom DEF Rest
  <1>7. OneEvent(T)
    BY SaidWired, OneEventForwards
  <1> QED BY <1>4, <1>5, <1>6, <1>7 DEF Rest

(* A message of the own queue. *)
LEMMA RestServes ==
    ASSUME NEW S \in States, NEW T, NEW R, NEW r \in Rank, Serves(S, T, r), Rest(S, R), FromZero(S, T)
    PROVE  Rest(T, R) /\ Stays(S, T)
  <1>1. PICK M \in States, m \in Message :
          /\ TakesLocal(S, M, r) /\ m = Head(S.local[r])
          /\ \/ m \in Joins /\ Reduces(M, T, r, m.n)
             \/ m \in Shutdowns /\ Stops(M, T, r, m)
    BY DEF Serves
  <1>2. /\ SameLevel(S, M) /\ M.level = S.level /\ M.total = S.total /\ M.sd = S.sd /\ M.red = S.red
        /\ M.known = S.known /\ M.up = S.up
    BY <1>1 DEF TakesLocal, SameRest, SameCounts, SameLevel
  <1>3. Levels(M) /\ Later(S, M)
    BY <1>2, LevelsSame, LaterSame DEF Rest
  <1>4. Known(M, R)
    BY <1>2, KnownQuiet DEF Rest
  <1>5. OneEvent(T)
    BY OneEventServes DEF Rest
  <1>6. ASSUME Later(M, T) PROVE Truths(T)
    BY <1>3, <1>6, LaterTwice, SaidServes, TruthsFrom DEF Rest
  <1>7. CASE m \in Joins /\ Reduces(M, T, r, m.n)
    <2> DEFINE a == m.n
    <2>1. a \in Nat /\ Reduces(M, T, r, a)
      BY <1>7, Kinds
    <2> HIDE DEF a
    <2>2. T.total = Cardinality(Rank) /\ T.total # M.total => M.level = 0
      BY <1>2 DEF FromZero
    <2>3. Levels(T)
      BY <1>3, <2>1, <2>2, LevelsReduces
    <2>4. Later(M, T)
      BY <1>3, <2>1, <2>2, LaterReduces
    <2>5. Known(T, R)
      BY <1>4, <2>1, KnownReduces
    <2>6. Stays(S, T)
      BY <1>2, <2>1 DEF Reduces, Keeps, Flushes, Totals, SameQueues, SameRest, Stays
    <2> QED BY <1>5, <1>6, <2>3, <2>4, <2>5, <2>6 DEF Rest
  <1>8. CASE m \in Shutdowns /\ Stops(M, T, r, m)
    <2>1. SameLevel(M, T) /\ T.red = M.red /\ T.known = M.known /\ T.up = M.up /\ T \in States
      BY <1>8 DEF Stops, SameCounts
    <2>2. Levels(T) /\ Later(M, T)
      BY <1>3, <2>1, LevelsSame, LaterSame
    <2>3. Known(T, R)
      BY <1>4, <2>1, KnownQuiet
    <2>4. Stays(S, T)
      <3>1. 0 \in Rank
        BY SessionAssumption
      <3> QED BY <1>2, <1>8, <2>1, <3>1 DEF Stops, Stays
    <2> QED BY <1>5, <1>6, <2>2, <2>3, <2>4 DEF Rest
  <1> QED BY <1>1, <1>7, <1>8

(* Raising the level, or ending a script, moves no message. *)
LEMMA RestQuiet ==
    ASSUME NEW S, NEW T, NEW R, SameQueues(S, T), SameCounts(S, T), Rest(S, R), Levels(T), Later(S, T)
    PROVE  Rest(T, R) /\ Stays(S, T)
  <1>1. /\ T.sd = S.sd /\ T.known = S.known /\ T.up = S.up /\ T.down = S.down /\ T.local = S.local
        /\ T.red = S.red /\ T \in States
    BY DEF SameQueues, SameCounts
  <1>2. Known(T, R)
    BY <1>1, KnownQuiet DEF Rest
  <1>3. Truths(T)
    <2>1. \A m : Said(T, m) => Said(S, m)
      BY <1>1 DEF Said
    <2> QED BY <2>1, TruthsFrom DEF Rest
  <1>4. OneEvent(T)
    BY <1>1, OneEventQuiet DEF Rest
  <1> QED BY <1>1, <1>2, <1>3, <1>4 DEF Rest, Stays

(* The end of a script. *)
LEMMA RestEnds ==
    ASSUME NEW S, NEW T, NEW R, NEW l \in 1 .. 3, NEW x \in Stopped, Rest(S, R), Ends(S, T, l, x),
           S.level = l, x # "run", x = S.rc[l] \/ S.rc[l] \notin Codes
    PROVE  Rest(T, R) /\ Stays(S, T)
  <1>1. SameQueues(S, T) /\ SameCounts(S, T) /\ Levels(S)
    BY DEF Ends, Rest
  <1>2. Levels(T)
    BY <1>1, LevelsEnds
  <1>3. Later(S, T)
    BY <1>1, LaterEnds
  <1> QED BY <1>1, <1>2, <1>3, RestQuiet

(* The end of a script and what it starts. *)
LEMMA RestFinishes ==
    ASSUME NEW S, NEW T, NEW R, NEW l \in 1 .. 3, NEW code \in Codes, Rest(S, R), Started(S), S.level = l,
           S.rc[l] \notin Codes, Finishes(S, T, l, code)
    PROVE  Rest(T, R) /\ Stays(S, T)
  <1>1. PICK M \in States :
          /\ Ends(S, M, l, code)
          /\ \/ l = 3 /\ T = M
             \/ l = 1 /\ code = "ok" /\ Raises(M, T, 2)
             \/ /\ l = 2 \/ (l = 1 /\ code # "ok")
                /\ \E N \in States : Arms(M, N, 0, code, l) /\ Raises(N, T, 3)
    BY DEF Finishes
  <1>2. Rest(M, R) /\ Stays(S, M)
    <2>1. code \in Stopped /\ code # "run"
      BY DEF Codes, Stopped
    <2> QED BY <1>1, <2>1, RestEnds
  <1>3. M.level = l /\ M.rc[l] = code /\ Started(M)
    BY <1>1 DEF Ends, SameQueues, States, Started, Wired
  <1>4. Levels(T)
    BY LevelsFinishes DEF Rest
  <1>5. ASSUME NEW N \in States, NEW k \in 1 .. 3, Rest(N, R), Stays(S, N), N.level = l, Raises(N, T, k),
               N.level < k
        PROVE  Rest(T, R) /\ Stays(S, T)
    <2>1. SameQueues(N, T) /\ SameCounts(N, T) /\ LevelUp(N, T, k) /\ T \in States
      BY <1>5 DEF Raises, SameQueues
    <2>2. Later(N, T)
      BY <1>5, <2>1, LaterRaise DEF Rest
    <2>3. Rest(T, R) /\ Stays(N, T)
      BY <1>4, <1>5, <2>1, <2>2, RestQuiet
    <2> QED BY <1>5, <2>3 DEF Stays
  <1>6. CASE l = 1 /\ code = "ok" /\ Raises(M, T, 2)
    <2>1. M.level < 2 /\ 2 \in 1 .. 3
      BY SMTT(60), <1>3, <1>6
    <2> QED BY <1>2, <1>3, <1>5, <1>6, <2>1
  <1>7. ASSUME l = 2 \/ (l = 1 /\ code # "ok"), NEW N \in States, Arms(M, N, 0, code, l),
               Raises(N, T, 3)
        PROVE  Rest(T, R) /\ Stays(S, T)
    <2>0. 0 \in Rank
      BY SessionAssumption
    <2>1. N.level = l
      BY <1>3, <1>7, LevelsArms DEF SameLevel
    <2>2. N.level < 3 /\ 3 \in 1 .. 3
      BY SMTT(60), <1>7, <2>1
    <2>3. l = 2 => M.rc[1] \in {"ok", "none"}
      BY <1>2, <1>3 DEF Rest, Levels
    <2>4. Rest(N, R) /\ Stays(M, N)
      <3>1. \/ l = 1 /\ code # "ok" /\ code = M.rc[1]
            \/ l = 2 /\ code = M.rc[2] /\ M.rc[1] \in {"ok", "none"}
        BY <1>3, <1>7, <2>3
      <3> QED BY <1>2, <1>3, <1>7, <2>0, <3>1, RestArms
    <2>5. Stays(S, N)
      BY <1>2, <2>4 DEF Stays
    <2> QED BY <1>5, <1>7, <2>1, <2>2, <2>4, <2>5
  <1> QED BY <1>1, <1>2, <1>6, <1>7

(* Only who has started matters, not who has stopped. *)
LEMMA RestRun ==
    ASSUME NEW S, NEW R, NEW Q, Rest(S, R), \A k \in Rank : Q[k] # "off" <=> R[k] # "off"
    PROVE  Rest(S, Q)
  <1>1. Known(S, Q)
    BY KnownIs DEF Rest
  <1> QED BY <1>1 DEF Rest

(* Every step keeps what holds of the state, and rank 0 follows the event  *)
(* that it has started to follow.                                          *)
LEMMA RestStep ==
    ASSUME TypeOK, Rest(State, run), Started(State), FromZero(State, State'), Next
    PROVE  Rest(State', run') /\ Stays(State, State')
  <1>0. State \in States /\ 0 \in Nat /\ 1 \in Nat /\ 1 > 0
    BY SMTT(60), StateType
  <1>1. ASSUME NEW r \in Rank, Start(r) PROVE Rest(State', run') /\ Stays(State, State')
    <2> DEFINE Q == [run EXCEPT ![r] = "on"]
    <2>1. Reduces(State, State', r, 1) /\ run' = Q
      BY <1>1, StartIs DEF Start
    <2>2. \A k \in Rank : k # r /\ Q[k] # "off" => run[k] # "off"
      BY DEF TypeOK
    <2> HIDE DEF Q
    <2>3. Rest(State', Q) /\ Stays(State, State')
      BY <1>0, <2>1, <2>2, RestReduces
    <2> QED BY <2>1, <2>3
  <1>2. ASSUME NEW r \in Rank, ReduceTimer(r) PROVE Rest(State', run') /\ Stays(State, State')
    <2>1. Reduces(State, State', r, 0) /\ run' = run
      BY <1>2, ReduceTimerIs DEF ReduceTimer
    <2>2. Rest(State', run) /\ Stays(State, State')
      BY <1>0, <2>1, RestReduces
    <2> QED BY <2>1, <2>2
  <1>3. ASSUME NEW r \in Rank, ChildCb(r) PROVE Rest(State', run') /\ Stays(State, State')
    <2>1. Hears(State, State', r) /\ r # 0 /\ run' = run
      BY <1>3, ChildCbIs DEF ChildCb
    <2>2. Rest(State', run) /\ Stays(State, State')
      BY <1>0, <2>1, RestHears
    <2> QED BY <2>1, <2>2
  <1>4. ASSUME NEW r \in Rank, ParentCb(r) PROVE Rest(State', run') /\ Stays(State, State')
    <2>1. Forwards(State, State', r) /\ run' = run
      BY <1>4, ParentCbIs DEF ParentCb
    <2>2. Rest(State', run) /\ Stays(State, State')
      BY <1>0, <2>1, RestForwards
    <2> QED BY <2>1, <2>2
  <1>5. ASSUME NEW r \in Rank, Dispatch(r) PROVE Rest(State', run') /\ Stays(State, State')
    <2>1. Serves(State, State', r) /\ run' = run
      BY <1>5, DispatchIs DEF Dispatch
    <2>2. Rest(State', run) /\ Stays(State, State')
      BY <1>0, <2>1, RestServes
    <2> QED BY <2>1, <2>2
  <1>6. ASSUME NEW r \in Rank, GraceTimer(r) PROVE Rest(State', run') /\ Stays(State, State')
    <2>1. State' = State
      BY <1>6, GraceTimerIs
    <2>2. \A k \in Rank : run'[k] # "off" <=> run[k] # "off"
      BY <1>6 DEF GraceTimer, TypeOK
    <2>3. Rest(State, run')
      BY <2>2, RestRun
    <2> QED BY <1>0, <2>1, <2>3 DEF Stays
  <1>7. ASSUME NEW r \in Rank, SignalCb(r) PROVE Rest(State', run') /\ Stays(State, State')
    <2>1. Arms(State, State', r, "ok", 0) /\ run' = run
      BY <1>7, SignalCbIs DEF SignalCb
    <2>2. Rest(State', run) /\ Stays(State, State')
      BY <1>0, <2>1, RestArms
    <2> QED BY <2>1, <2>2
  <1>8. ASSUME NEW l \in 1 .. 3, NEW code \in Codes, Completion(l, code)
        PROVE  Rest(State', run') /\ Stays(State, State')
    <2>1. Finishes(State, State', l, code) /\ State.level = l /\ run' = run
      BY <1>8, CompletionIs DEF Rest, Completion, State
    <2>2. State.rc[l] \notin Codes
      BY <1>8 DEF Completion, State, Codes
    <2>3. Rest(State', run) /\ Stays(State, State')
      BY <2>1, <2>2, RestFinishes
    <2> QED BY <2>1, <2>3
  <1>9. ASSUME RunlevelTimeout PROVE Rest(State', run') /\ Stays(State, State')
    <2> DEFINE x == IF State.rc[2] = "run" THEN "killed" ELSE State.rc[2]
    <2>0. 2 \in 1 .. 3
      BY SMTT(60)
    <2>1. Ends(State, State', 2, x) /\ State.level = 2 /\ run' = run
      BY <1>9, RunlevelTimeoutIs DEF Rest, Levels, RunlevelTimeout, State
    <2>2. x \in Stopped /\ x # "run" /\ (x = State.rc[2] \/ State.rc[2] \notin Codes)
      BY <1>0, <2>0 DEF States, Stopped, Codes
    <2> HIDE DEF x
    <2>3. Rest(State', run) /\ Stays(State, State')
      BY <2>0, <2>1, <2>2, RestEnds
    <2> QED BY <2>1, <2>3
  <1> QED BY <1>1, <1>2, <1>3, <1>4, <1>5, <1>6, <1>7, <1>8, <1>9 DEF Next, Inside

(* The first state. *)
LEMMA RestInit == Init => State \in States /\ Rest(State, run)
  <1> SUFFICES ASSUME Init PROVE State \in States /\ Rest(State, run)
    OBVIOUS
  <1> DEFINE S == State
  <1>0. 0 \in Rank /\ 0 \in Nat /\ 0 \in 0 .. 3
    BY SMTT(60), SessionAssumption
  <1>1. /\ \A r \in Rank : /\ S.up[r] = <<>> /\ S.down[r] = <<>>
                           /\ S.local[r] = <<>> /\ S.known[r] = {} /\ S.sd[r] = NoTimer
                           /\ run[r] = "off"
        /\ S.level = 0 /\ ~S.watch /\ ~S.failed
        /\ \A l \in 1 .. 3 : S.rc[l] = "none"
    BY DEF Init, State
  <1>2. S \in States
    <2>1. <<>> \in Seq(Message) /\ <<>> \in Seq(Shutdowns)
      BY SMTT(60)
    <2>2. /\ red \in [Rank -> Reduce] /\ up \in [Rank -> Seq(Message)] /\ local = up
          /\ down \in [Rank -> Seq(Shutdowns)] /\ known \in [Rank -> SUBSET Rank]
          /\ sd \in [Rank -> Shutdowns \cup {NoTimer}] /\ total \in Nat /\ level \in 0 .. 3
          /\ rc \in [1 .. 3 -> Stopped] /\ watch \in BOOLEAN /\ failed \in BOOLEAN
      BY <1>0, <2>1 DEF Init, Reduce, Stopped
    <2>3. local \in [Rank -> Seq(Message)]
      BY <2>2
    <2> QED BY <2>2, <2>3 DEF State, States
  <1> HIDE DEF S
  <1>3. Known(S, run)
    BY <1>1 DEF Known
  <1>4. Levels(S)
    <2>1. 1 \in 1 .. 3
      BY SMTT(60)
    <2>2. \A l \in 1 .. 3 : S.rc[l] \notin {"run", "killed"}
      BY <1>1
    <2> QED BY <1>1, <2>1, <2>2 DEF Levels
  <1>5. Truths(S)
    <2>1. ASSUME NEW m \in Shutdowns PROVE ~Said(S, m)
      <3>1. \A r \in Rank : m # S.sd[r]
        BY <1>1, Kinds
      <3>2. \A r \in Rank : ~In(m, S.up[r]) /\ ~In(m, S.local[r]) /\ ~In(m, S.down[r])
        BY <1>1, InEmpty
      <3> QED BY <3>1, <3>2 DEF Said
    <2> QED BY <2>1 DEF Truths
  <1>6. OneEvent(S)
    <2>1. ~HasEvent(<<>>)
      <3>1. DOMAIN <<>> = {}
        BY SMTT(60)
      <3> QED BY <3>1 DEF HasEvent
    <2>2. \A r \in Rank : ~Seen(S, r)
      BY <1>1, <2>1 DEF Seen
    <2> QED BY <1>0, <1>1, <2>2 DEF OneEvent
  <1> QED BY <1>2, <1>3, <1>4, <1>5, <1>6 DEF Rest, S

(* A step keeps the types. *)
LEMMA TypesStep ==
    ASSUME TypeOK, Next, State' \in States
    PROVE  TypeOK'
  <1>1. /\ red' \in [Rank -> Reduce] /\ up' \in [Rank -> Seq(Message)]
        /\ local' \in [Rank -> Seq(Message)]
        /\ down' \in [Rank -> Seq(Shutdowns)] /\ known' \in [Rank -> SUBSET Rank]
        /\ sd' \in [Rank -> Shutdowns \cup {NoTimer}] /\ total' \in Nat /\ level' \in 0 .. 3
        /\ rc' \in [1 .. 3 -> Stopped] /\ watch' \in BOOLEAN /\ failed' \in BOOLEAN
    BY DEF State, States
  <1>2. plan' \in Plans
    BY DEF TypeOK, Next, Inside, Start, ReduceTimer, ChildCb, ParentCb, Dispatch, GraceTimer, SignalCb,
           Completion, RunlevelTimeout
  <1>3. run' \in [Rank -> {"off", "on", "stopped"}]
    BY DEF TypeOK, Next, Inside, Start, ReduceTimer, ChildCb, ParentCb, Dispatch, GraceTimer, SignalCb,
           Completion, RunlevelTimeout
  <1>4. exitrc' \in Codes
    <2>1. ASSUME NEW r \in Rank, GraceTimer(r) PROVE exitrc' \in Codes
      <3>1. r = 0 => sd[0].code \in Codes
        BY <2>1 DEF GraceTimer, TypeOK, Shutdowns
      <3> QED BY <2>1, <3>1 DEF GraceTimer, TypeOK
    <2> QED BY <2>1 DEF TypeOK, Next, Inside, Start, ReduceTimer, ChildCb, ParentCb, Dispatch, SignalCb,
           Completion, RunlevelTimeout
  <1>5. signals' \in 0 .. MaxSignal
    <2>1. ASSUME NEW r \in Rank, SignalCb(r) PROVE signals' \in 0 .. MaxSignal
      <3>1. signals' = signals + 1 /\ signals < MaxSignal /\ signals \in 0 .. MaxSignal
        BY <2>1 DEF SignalCb, TypeOK
      <3> QED BY SMTT(60), <3>1, SessionAssumption
    <2> QED BY <2>1 DEF TypeOK, Next, Inside, Start, ReduceTimer, ChildCb, ParentCb, Dispatch, GraceTimer,
           Completion, RunlevelTimeout
  <1> QED BY <1>1, <1>2, <1>3, <1>4, <1>5 DEF TypeOK, Reduce, Message, Stopped

(* Rank 0 keeps the exit code of the event it has followed. *)
LEMMA ExitsStep ==
    ASSUME TypeOK, Exits, Next, Stays(State, State')
    PROVE  Exits'
  <1> SUFFICES ASSUME run'[0] = "stopped" PROVE sd'[0] # NoTimer /\ exitrc' = sd'[0].code
    BY DEF Exits
  <1>0. 0 \in Rank
    BY SessionAssumption
  <1>1. sd[0] # NoTimer => sd'[0] = sd[0]
    BY DEF Stays, State
  <1>2. ASSUME NEW r \in Rank, GraceTimer(r) PROVE sd'[0] # NoTimer /\ exitrc' = sd'[0].code
    <2>1. CASE r = 0
      BY <1>1, <1>2, <2>1 DEF GraceTimer
    <2>2. CASE r # 0
      <3>1. run[0] = "stopped" /\ exitrc' = exitrc
        BY <1>0, <1>2, <2>2 DEF GraceTimer, TypeOK
      <3> QED BY <1>1, <3>1 DEF Exits
    <2> QED BY <2>1, <2>2
  <1>3. ASSUME NEW r \in Rank, Start(r) PROVE run[0] = "stopped" /\ exitrc' = exitrc
    <2>1. run' = [run EXCEPT ![r] = "on"] /\ exitrc' = exitrc
      BY <1>3 DEF Start
    <2> QED BY <1>0, <2>1 DEF TypeOK
  <1>4. ASSUME ~(\E r \in Rank : GraceTimer(r)) PROVE run[0] = "stopped" /\ exitrc' = exitrc
    BY <1>3, <1>4 DEF Next, Inside, ReduceTimer, ChildCb, ParentCb, Dispatch, SignalCb, Completion,
                      RunlevelTimeout
  <1>5. ASSUME ~(\E r \in Rank : GraceTimer(r)) PROVE sd'[0] # NoTimer /\ exitrc' = sd'[0].code
    BY <1>1, <1>4, <1>5 DEF Exits
  <1> QED BY <1>2, <1>5

(* The level changes only when the total does, to the number of brokers. *)
LEMMA LevelReduces ==
    ASSUME NEW S \in States, NEW T, NEW r \in Rank, NEW a \in Nat, Reduces(S, T, r, a)
    PROVE  /\ T \in States
           /\ \/ T.total = S.total /\ T.level = S.level
              \/ /\ T.total > S.total
                 /\ T.total # Cardinality(Rank) => T.level = S.level
  <1>1. PICK M \in States, n \in Nat :
          /\ Keeps(S, M, r, a, n)
          /\ (n = 0 /\ T = M) \/ (n \in Nat \ {0} /\ Flushes(M, T, r, n))
    BY DEF Reduces
  <1>2. M.total = S.total /\ M.level = S.level /\ M.total \in Nat
    BY <1>1 DEF Keeps, SameLevel, States
  <1>3. CASE n \in Nat \ {0} /\ Totals(M, T, n)
    <2>1. T.total = M.total + n /\ T \in States /\ (T.total # Cardinality(Rank) => T.level = M.level)
      BY <1>3 DEF Totals, SameLevel, SameQueues
    <2>2. T.total > S.total
      BY SMTT(60), <1>2, <1>3, <2>1
    <2> QED BY <1>2, <2>1, <2>2
  <1>4. CASE SameRest(M, T)
    BY <1>2, <1>4 DEF SameRest, SameCounts, SameLevel
  <1> QED BY <1>1, <1>2, <1>3, <1>4 DEF Flushes

(* The exit code of rank 0 is that of an event that says the truth. *)
LEMMA ExitCodeIs ==
    ASSUME Inv PROVE ExitCode
  <1> SUFFICES ASSUME run[0] = "stopped" PROVE ExitCode
    BY DEF ExitCode
  <1>0. 0 \in Rank
    BY SessionAssumption
  <1>1. sd[0] # NoTimer /\ exitrc = sd[0].code /\ sd[0] \in Shutdowns /\ Truths(State)
    BY <1>0 DEF Inv, Exits, TypeOK
  <1>2. Said(State, sd[0])
    BY <1>0 DEF Said, State
  <1>3. Truth(State, sd[0])
    BY <1>1, <1>2 DEF Truths
  <1>4. \/ sd[0].by = 0 /\ exitrc = "ok"
        \/ sd[0].by = 1 /\ exitrc # "ok" /\ exitrc = rc[1]
        \/ sd[0].by = 2 /\ exitrc = rc[2] /\ rc[1] \in {"ok", "none"}
    BY <1>1, <1>3 DEF Truth, State
  <1> QED BY SMTT(60), <1>4 DEF ExitCode

(* A broker that has followed an event has followed the first wired one. *)
LEMMA OneShutdownIs ==
    ASSUME Inv PROVE OneShutdown
  <1> SUFFICES ASSUME NEW r \in Rank, sd[0] # NoTimer, sd[r] # NoTimer, sd[0].wired
               PROVE  sd[r] = sd[0]
    BY DEF OneShutdown
  <1>0. 0 \in Rank /\ sd[0] \in Shutdowns
    BY SessionAssumption DEF Inv, TypeOK
  <1>1. OneEvent(State)
    BY DEF Inv
  <1>2. Seen(State, 0) /\ First(State, 0, sd[0]) /\ Seen(State, r)
    BY DEF Seen, First, State
  <1>3. Follows(State, r, sd[0])
    BY <1>0, <1>1, <1>2 DEF OneEvent
  <1>4. First(State, r, sd[0])
    BY <1>2, <1>3 DEF Follows
  <1> QED BY <1>4 DEF First, State

(* The first state has the types, and rank 0 has not exited. *)
LEMMA TypesInit ==
    ASSUME Init, State \in States
    PROVE  TypeOK /\ Exits
  <1>1. /\ red \in [Rank -> Reduce] /\ up \in [Rank -> Seq(Message)]
        /\ local \in [Rank -> Seq(Message)]
        /\ down \in [Rank -> Seq(Shutdowns)] /\ known \in [Rank -> SUBSET Rank]
        /\ sd \in [Rank -> Shutdowns \cup {NoTimer}] /\ total \in Nat /\ level \in 0 .. 3
        /\ rc \in [1 .. 3 -> Stopped] /\ watch \in BOOLEAN /\ failed \in BOOLEAN
    BY DEF State, States
  <1>2. plan \in Plans /\ run \in [Rank -> {"off", "on", "stopped"}] /\ exitrc \in Codes
    BY DEF Init, Codes
  <1>3. signals \in 0 .. MaxSignal
    BY SMTT(60), SessionAssumption DEF Init
  <1>4. 0 \in Rank
    BY SessionAssumption
  <1> QED BY <1>1, <1>2, <1>3, <1>4 DEF TypeOK, Reduce, Message, Stopped, Init, Exits

(* A step that changes nothing keeps the invariant. *)
LEMMA InvStutter ==
    ASSUME Inv, UNCHANGED vars PROVE Inv'
  <1>1. State' = State /\ run' = run
    BY DEF vars, State
  <1>2. TypeOK' /\ Exits'
    BY DEF vars, TypeOK, Exits, Inv
  <1> QED BY <1>1, <1>2 DEF Inv
=============================================================================
