--------------------------- MODULE BarrierProofs ----------------------------
(***************************************************************************)
(* Proofs about Barrier for every tree of brokers, every set of clients    *)
(* and every number of processes: a count below the root always has a      *)
(* timer that will pass it on; every entry is counted in one place; and    *)
(* while no client calls twice the modules keep the promise of             *)
(* flux_barrier as far as it says what may not happen.                     *)
(***************************************************************************)
EXTENDS Barrier, Sums

USE ZenonT(60)

-----------------------------------------------------------------------------
(* What the actions of Barrier do to the queues and to what the inductive  *)
(* invariant says, as far as it is not about sums.                         *)

Entry == [here : BOOLEAN, count : Nat, clients : SUBSET Client]

(* What the handlers build are messages. *)
LEMMA Messages ==
    /\ \A c \in Client : Enter(c) \in Message /\ Leave(c) \in Message
    /\ \A n \in Nat : EnterUp(n) \in Message
    /\ \A e \in {"0", "ECONNABORTED"} : Exit(e) \in Message
  BY SMTT(60) DEF Message, Enter, Leave, EnterUp, Exit

(* enter_request_cb() keeps the entry well formed and sends exit events. *)
LEMMA EntryType ==
    ASSUME NEW b \in Entry, NEW m \in Message
    PROVE  /\ Entered(b, m) \in Entry
           /\ Double(b, m) => /\ ExitEvents(b, m) = <<Exit("ECONNABORTED")>>
                              /\ Entered(b, m).count = b.count
                              /\ Entered(b, m).clients = b.clients
           /\ ~Double(b, m) =>
                /\ Entered(b, m).count = b.count + m.count
                /\ Entered(b, m).clients = b.clients \cup m.from
                /\ b.count + m.count = NProcs => ExitEvents(b, m) = <<Exit("0")>>
                /\ b.count + m.count # NProcs => ExitEvents(b, m) = <<>>
  <1>1. /\ m.count \in Nat /\ b.count \in Nat /\ m.from \in SUBSET Client
        /\ b.clients \in SUBSET Client
    BY DEF Message, Entry
  <1>2. b.count + m.count \in Nat
    BY SMTT(60), <1>1
  <1>3. Entered(b, m) \in Entry
    <2>1. CASE Double(b, m)
      BY <2>1 DEF Entered, Entry
    <2>2. CASE ~Double(b, m)
      BY <1>1, <1>2, <2>2 DEF Entered, Entry
    <2> QED BY <2>1, <2>2
  <1>4. Double(b, m) => /\ Entered(b, m).count = b.count
                        /\ Entered(b, m).clients = b.clients
    BY DEF Entered, Entry
  <1>5. ~Double(b, m) => /\ Entered(b, m).count = b.count + m.count
                         /\ Entered(b, m).clients = b.clients \cup m.from
    BY DEF Entered
  <1>6. Double(b, m) => ExitEvents(b, m) = <<Exit("ECONNABORTED")>>
    BY DEF ExitEvents
  <1>7. ~Double(b, m) =>
                /\ b.count + m.count = NProcs => ExitEvents(b, m) = <<Exit("0")>>
                /\ b.count + m.count # NProcs => ExitEvents(b, m) = <<>>
    BY DEF ExitEvents, CountReached
  <1> QED BY <1>3, <1>4, <1>5, <1>6, <1>7

(* The types of the state, one by one. *)
Typing ==
    /\ at \in Placements /\ barrier \in [Rank -> Entry] /\ armed \in [Rank -> BOOLEAN]
    /\ inq \in [Rank -> Seq(Message)] /\ up \in [Rank -> Seq(Message)]
    /\ down \in [Rank -> Seq(Message)]
    /\ call \in [Client -> {"none", "waiting", "0", "ECONNABORTED"}]
    /\ gone \subseteq Client /\ entered \subseteq Client
    /\ doubles \in Nat
LEMMA Typed == TypeOK => Typing /\ at \in [Client -> Rank]
  BY BarrierAssumption DEF TypeOK, Typing, Entry

(* The types hold at first. *)
LEMMA TypeInit == Init => TypeOK
  <1> SUFFICES ASSUME Init PROVE TypeOK
    OBVIOUS
  <1>1. 0 \in 0 .. MaxFault /\ <<>> \in Seq(Message) /\ 0 \in Nat
    BY SMTT(60), BarrierAssumption
  <1> QED BY <1>1 DEF Init, TypeOK, NoBarrier

(* What a handler does to the module's queue. *)
LEMMA TakeMessage ==
    ASSUME TypeOK, NEW r \in Rank, inq[r] # <<>>, Take(r)
    PROVE  Taken(Rank, Message, inq, inq', r)
  <1>1. Takes(Rank, Message, inq, inq', r)
    BY Typed DEF Typing, Take, Takes
  <1> QED BY <1>1, TakeFrom

(* What the handlers append to the module's upward queue. *)
LEMMA PutUp ==
    ASSUME TypeOK, NEW r \in Rank, NEW m \in Message, up' = [up EXCEPT ![r] = Append(@, m)]
    PROVE  PutIn(Rank, Message, up, up', r, m)
  <1>1. Puts(Rank, Message, up, up', r, m)
    BY Typed DEF Typing, Puts
  <1> QED BY <1>1, PutInto

(* The messages enter_request_cb() sends upward. *)
LEMMA EnterSends ==
    ASSUME TypeOK, NEW r \in Rank, EnterRequest(r)
    PROVE  LET b == barrier[r]
               m == Head(inq[r])
           IN  /\ Taken(Rank, Message, inq, inq', r) /\ b \in Entry /\ m \in Message
               /\ Double(b, m) => PutIn(Rank, Message, up, up', r, Exit("ECONNABORTED"))
               /\ ~Double(b, m) /\ b.count + m.count = NProcs
                    => PutIn(Rank, Message, up, up', r, Exit("0"))
               /\ ~Double(b, m) /\ b.count + m.count # NProcs => up' = up
               /\ barrier' = [barrier EXCEPT ![r] = Entered(b, m)]
  <1> DEFINE b == barrier[r]
             m == Head(inq[r])
  <1>1. Taken(Rank, Message, inq, inq', r)
    BY TakeMessage DEF EnterRequest
  <1>2. b \in Entry /\ m \in Message
    <2>1. barrier \in [Rank -> Entry]
      BY Typed DEF Typing
    <2>2. m \in Message
      BY <1>1 DEF Taken
    <2> QED BY <2>1, <2>2
  <1>3. /\ up' = [up EXCEPT ![r] = up[r] \o ExitEvents(b, m)]
        /\ barrier' = [barrier EXCEPT ![r] = Entered(b, m)]
    BY DEF EnterRequest
  <1>4. /\ up[r] \in Seq(Message) /\ Exit("ECONNABORTED") \in Message /\ Exit("0") \in Message
        /\ up = [up EXCEPT ![r] = up[r]]
    BY Typed, Messages DEF Typing
  <1> HIDE DEF b, m
  <1>5. ASSUME Double(b, m) PROVE PutIn(Rank, Message, up, up', r, Exit("ECONNABORTED"))
    <2>1. ExitEvents(b, m) = <<Exit("ECONNABORTED")>>
      BY <1>2, <1>5, EntryType
    <2>2. up[r] \o ExitEvents(b, m) = Append(up[r], Exit("ECONNABORTED"))
      BY <1>4, <2>1, ConcatOne
    <2> QED BY <1>3, <1>4, <2>2, PutUp
  <1>6. ASSUME ~Double(b, m), b.count + m.count = NProcs
        PROVE  PutIn(Rank, Message, up, up', r, Exit("0"))
    <2>1. ExitEvents(b, m) = <<Exit("0")>>
      BY <1>2, <1>6, EntryType
    <2>2. up[r] \o ExitEvents(b, m) = Append(up[r], Exit("0"))
      BY <1>4, <2>1, ConcatOne
    <2> QED BY <1>3, <1>4, <2>2, PutUp
  <1>7. ASSUME ~Double(b, m), b.count + m.count # NProcs PROVE up' = up
    <2>1. ExitEvents(b, m) = <<>>
      BY <1>2, <1>7, EntryType
    <2>2. up[r] \o ExitEvents(b, m) = up[r]
      BY <1>4, <2>1, ConcatOne
    <2> QED BY <1>3, <1>4, <2>2
  <1> QED BY <1>1, <1>2, <1>3, <1>5, <1>6, <1>7 DEF b, m

(* Every step keeps the types. *)
LEMMA TypeStep == TypeOK /\ [Next]_vars => TypeOK'
  <1> SUFFICES ASSUME TypeOK, [Next]_vars PROVE TypeOK'
    OBVIOUS
  <1> SUFFICES Typing'
    BY DEF TypeOK, Typing, Entry
  <1> USE DEF Typing
  <1>0. Typing /\ at \in [Client -> Rank]
    BY Typed DEF Typing
  <1>1. ASSUME NEW r \in Rank, EnterRequest(r) PROVE Typing'
    <2> DEFINE b == barrier[r]
               m == Head(inq[r])
    <2>1. /\ Taken(Rank, Message, inq, inq', r) /\ b \in Entry /\ m \in Message
          /\ \/ \E e \in {"0", "ECONNABORTED"} : PutIn(Rank, Message, up, up', r, Exit(e))
             \/ up' = up
          /\ barrier' = [barrier EXCEPT ![r] = Entered(b, m)]
      BY <1>1, EnterSends
    <2>2. inq' \in [Rank -> Seq(Message)]
      BY <2>1 DEF Taken
    <2>3. up' \in [Rank -> Seq(Message)]
      BY <1>0, <2>1 DEF PutIn
    <2>4. barrier' \in [Rank -> Entry]
      <3>1. Entered(b, m) \in Entry
        BY <2>1, EntryType
      <3> QED BY <1>0, <2>1, <3>1
    <2>5. armed' \in [Rank -> BOOLEAN]
      BY <1>0, <1>1 DEF EnterRequest
    <2> QED BY <1>0, <1>1, <2>2, <2>3, <2>4, <2>5 DEF EnterRequest
  <1>2. ASSUME NEW r \in Rank, DisconnectRequest(r) PROVE Typing'
    <2>1. Taken(Rank, Message, inq, inq', r)
      BY <1>2, TakeMessage DEF DisconnectRequest
    <2>2. inq' \in [Rank -> Seq(Message)]
      BY <2>1 DEF Taken
    <2>3. up' = up \/ up' = [up EXCEPT ![r] = Append(@, Exit("ECONNABORTED"))]
      BY <1>2 DEF DisconnectRequest
    <2>4. up' = up \/ PutIn(Rank, Message, up, up', r, Exit("ECONNABORTED"))
      BY <2>3, Messages, PutUp
    <2>5. up' \in [Rank -> Seq(Message)]
      BY <1>0, <2>4 DEF PutIn
    <2> QED BY <1>0, <1>2, <2>2, <2>5 DEF DisconnectRequest
  <1>3. ASSUME NEW r \in Rank, ExitEvent(r) PROVE Typing'
    <2>1. Taken(Rank, Message, inq, inq', r)
      BY <1>3, TakeMessage DEF ExitEvent
    <2>2. inq' \in [Rank -> Seq(Message)] /\ Head(inq[r]) \in Message
      BY <2>1 DEF Taken
    <2>3. Head(inq[r]).errnum \in {"0", "ECONNABORTED"}
      BY <2>2 DEF Message
    <2>4. call' \in [Client -> {"none", "waiting", "0", "ECONNABORTED"}]
      BY <1>0, <1>3, <2>3 DEF ExitEvent, Ended
    <2>5. NoBarrier \in Entry
      BY SMTT(60) DEF NoBarrier, Entry
    <2>6. barrier' \in [Rank -> Entry]
      BY <1>0, <1>3, <2>5 DEF ExitEvent
    <2> QED BY <1>0, <1>3, <2>2, <2>4, <2>6 DEF ExitEvent
  <1>4. ASSUME NEW r \in Rank, Timeout(r) PROVE Typing'
    <2>1. barrier[r].count \in Nat /\ Forwarded(barrier[r]) \in Entry
      <3>1. barrier[r] \in Entry /\ 0 \in Nat
        BY SMTT(60), <1>0
      <3> QED BY <3>1 DEF Forwarded, Entry
    <2>2. EnterUp(barrier[r].count) \in Message
      BY <2>1, Messages
    <2>3. Upward(r, barrier[r]) \in Seq(Message)
      BY <1>0, <2>2, AppendIs DEF Upward
    <2>4. up' \in [Rank -> Seq(Message)]
      BY <1>0, <1>4, <2>3 DEF Timeout
    <2>5. barrier' \in [Rank -> Entry] /\ armed' \in [Rank -> BOOLEAN]
      BY <1>0, <1>4, <2>1 DEF Timeout
    <2> QED BY <1>0, <1>4, <2>4, <2>5 DEF Timeout
  <1>5. ASSUME NEW r \in Rank, Route(r) PROVE Typing'
    <2> DEFINE m == Head(up[r])
               rest == [up EXCEPT ![r] = Tail(@)]
    <2>1. Taken(Rank, Message, up, rest, r)
      <3>1. Takes(Rank, Message, up, rest, r)
        BY <1>0, <1>5 DEF Route, Takes
      <3> QED BY <3>1, TakeFrom
    <2>2. m \in Message /\ rest \in [Rank -> Seq(Message)]
      BY <2>1 DEF Taken
    <2>3. \A q \in Seq(Message) : Append(q, m) \in Seq(Message)
      BY <2>2, AppendIs
    <2>4. CASE r = 0 /\ Publish(0, m) /\ up' = rest
      BY <1>0, <1>5, <2>2, <2>3, <2>4 DEF Route, Publish
    <2>5. CASE /\ r # 0 /\ up' = [rest EXCEPT ![Parent[r]] = Append(@, m)]
               /\ UNCHANGED <<inq, down>>
      <3>1. Parent[r] \in Rank
        BY <2>5, BarrierAssumption
      <3>2. up' \in [Rank -> Seq(Message)]
        BY <2>2, <2>3, <2>5, <3>1
      <3> QED BY <1>0, <1>5, <2>5, <3>2 DEF Route
    <2>6. CASE /\ r # 0 /\ inq' = [inq EXCEPT ![Parent[r]] = Append(@, m)]
               /\ up' = rest /\ UNCHANGED down
      <3>1. Parent[r] \in Rank
        BY <2>6, BarrierAssumption
      <3>2. inq' \in [Rank -> Seq(Message)]
        BY <1>0, <2>3, <2>6, <3>1
      <3> QED BY <1>0, <1>5, <2>2, <2>6, <3>2 DEF Route
    <2> QED BY <1>5, <2>4, <2>5, <2>6 DEF Route
  <1>6. ASSUME NEW r \in Rank, Deliver(r) PROVE Typing'
    <2> DEFINE m == Head(down[r])
    <2>1. m \in Message /\ Tail(down[r]) \in Seq(Message) /\ down[r] # <<>>
      BY <1>0, <1>6, TailIs DEF Deliver
    <2>2. \A q \in Seq(Message) : Append(q, m) \in Seq(Message)
      BY <2>1, AppendIs
    <2>3. inq' \in [Rank -> Seq(Message)]
      BY <1>0, <1>6, <2>2 DEF Deliver
    <2>4. down' \in [Rank -> Seq(Message)]
      BY SMTT(30), <1>0, <1>6, <2>1, <2>2 DEF Deliver
    <2> QED BY <1>0, <1>6, <2>3, <2>4 DEF Deliver
  <1>7. ASSUME NEW c \in Client, NEW m \in Message, Send(c, m)
        PROVE  inq' \in [Rank -> Seq(Message)]
    <2>1. Append(inq[at[c]], m) \in Seq(Message)
      BY <1>0, AppendIs
    <2> QED BY <1>0, <1>7, <2>1 DEF Send
  <1>8. ASSUME NEW c \in Client, ClientEnter(c) PROVE Typing'
    <2>1. inq' \in [Rank -> Seq(Message)]
      BY <1>7, <1>8, Messages DEF ClientEnter
    <2> QED BY <1>0, <1>8, <2>1 DEF ClientEnter
  <1>9. ASSUME NEW c \in Client, ClientAgain(c) PROVE Typing'
    <2>1. inq' \in [Rank -> Seq(Message)]
      BY <1>7, <1>9, Messages DEF ClientAgain
    <2>2. doubles' = doubles + 1
      BY <1>9 DEF ClientAgain
    <2>3. doubles' \in Nat
      BY SMTT(60), <1>0, <2>2
    <2> QED BY <1>0, <1>9, <2>1, <2>3 DEF ClientAgain
  <1>10. ASSUME NEW c \in Client, ClientGone(c) PROVE Typing'
    <2>1. inq' \in [Rank -> Seq(Message)]
      BY <1>7, <1>10, Messages DEF ClientGone
    <2> QED BY <1>0, <1>10, <2>1 DEF ClientGone
  <1>11. CASE UNCHANGED vars
    BY <1>0, <1>11 DEF vars
  <1> QED
    BY <1>1, <1>2, <1>3, <1>4, <1>5, <1>6, <1>8, <1>9, <1>10, <1>11 DEF Next, Module

(* Every step keeps a timer running where a count waits. *)
LEMMA MovesStep == TypeOK /\ CountMoves /\ [Next]_vars => CountMoves'
  <1> SUFFICES ASSUME TypeOK, CountMoves, [Next]_vars, NEW k \in Rank \ {0},
                      barrier'[k].count \notin {0, NProcs}
               PROVE  armed'[k]
    BY DEF CountMoves
  <1>0. /\ armed \in [Rank -> BOOLEAN]
        /\ barrier \in [Rank -> Entry]
    BY Typed DEF Typing
  <1>1. ASSUME NEW r \in Rank, EnterRequest(r) PROVE armed'[k]
    <2> DEFINE b == barrier[r]
               m == Head(inq[r])
    <2>1. /\ barrier' = [barrier EXCEPT ![r] = Entered(b, m)]
          /\ armed' = [armed EXCEPT ![r] = @ \/ (~Double(b, m) /\ Arms(r, Entered(b, m)))]
      BY <1>1 DEF EnterRequest
    <2>2. CASE k # r
      BY <1>0, <2>1, <2>2 DEF CountMoves
    <2>3. CASE k = r /\ Double(b, m)
      <3>1. barrier'[k].count = barrier[k].count
        BY <1>0, <2>1, <2>3 DEF Entered, Entry
      <3>2. armed[k]
        BY <3>1 DEF CountMoves
      <3> QED BY <1>0, <2>1, <2>3, <3>2
    <2>4. CASE k = r /\ ~Double(b, m)
      <3>1. Entered(b, m).count \notin {0, NProcs}
        BY <1>0, <2>1, <2>4
      <3>2. Arms(r, Entered(b, m))
        BY <2>4, <3>1 DEF Arms, CountReached
      <3> QED BY <1>0, <2>1, <2>4, <3>2
    <2> QED BY <2>2, <2>3, <2>4
  <1>2. ASSUME NEW r \in Rank, DisconnectRequest(r) PROVE armed'[k]
    BY <1>2 DEF DisconnectRequest, CountMoves
  <1>3. ASSUME NEW r \in Rank, ExitEvent(r) PROVE armed'[k]
    BY <1>0, <1>3 DEF ExitEvent, NoBarrier, CountMoves
  <1>4. ASSUME NEW r \in Rank, Timeout(r) PROVE armed'[k]
    <2>1. /\ barrier' = [barrier EXCEPT ![r] = Forwarded(barrier[r])]
          /\ armed' = [armed EXCEPT ![r] = FALSE]
      BY <1>4 DEF Timeout
    <2>2. Forwarded(barrier[r]).count = 0
      BY <1>0 DEF Forwarded, Entry
    <2>3. k # r
      BY <1>0, <2>1, <2>2
    <2> QED BY <1>0, <2>1, <2>3 DEF CountMoves
  <1>5. ASSUME UNCHANGED <<barrier, armed>> PROVE armed'[k]
    BY <1>5 DEF CountMoves
  <1>6. ASSUME NEW r \in Rank, Route(r) \/ Deliver(r) PROVE armed'[k]
    BY <1>5, <1>6 DEF Route, Deliver
  <1>7. ASSUME NEW c \in Client, ClientEnter(c) \/ ClientAgain(c) \/ ClientGone(c)
        PROVE  armed'[k]
    BY <1>5, <1>7 DEF ClientEnter, ClientAgain, ClientGone
  <1>8. CASE UNCHANGED vars
    BY <1>5, <1>8 DEF vars
  <1> QED
    BY <1>1, <1>2, <1>3, <1>4, <1>6, <1>7, <1>8 DEF Next, Module

-----------------------------------------------------------------------------
(* The inductive invariant.                                                *)

IsExit(m) == \E e \in {"0", "ECONNABORTED"} : m = Exit(e)
IsUpward(m) == \E n \in Nat \ {0} : m = EnterUp(n)
IsClients(m) == \E c \in Client : m = Enter(c) \/ m = Leave(c)

(* Where messages of each kind may be; rank 0 never passes a count on. *)
Shape ==
    /\ ~armed[0]
    /\ \A r \in Rank : \A m :
         /\ In(m, inq[r]) => IsExit(m) \/ IsUpward(m) \/ IsClients(m)
         /\ In(m, up[r]) => IsExit(m) \/ (r # 0 /\ IsUpward(m))
         /\ In(m, down[r]) => IsExit(m)

(* An exit event with errnum e is somewhere. *)
Sent(e) == \E r \in Rank : In(Exit(e), up[r]) \/ In(Exit(e), down[r]) \/ In(Exit(e), inq[r])

(* A client is in a barrier, or its request is on its way, only on its     *)
(* rank, while it waits, and not both; only clients that have disconnected *)
(* send the request to leave.                                              *)
Caller(c, r) ==
    /\ In(Enter(c), inq[r]) => /\ r = at[c] /\ call[c] = "waiting"
                               /\ c \notin barrier[r].clients
                               /\ Once(Enter(c), inq[r])
    /\ c \in barrier[r].clients => r = at[c] /\ call[c] = "waiting"
    /\ In(Leave(c), inq[r]) => c \in gone
Callers ==
    /\ entered = {c \in Client : call[c] # "none"}
    /\ \A c \in Client, r \in Rank : Caller(c, r)

(* No more is counted than clients have entered; an exit event has reason. *)
Bound ==
    /\ Sum(Load) <= Cardinality(entered)
    /\ Sent("0") => NProcs <= Cardinality(entered)
    /\ Sent("ECONNABORTED") => gone # {}

(* Some client is in the barrier of its rank. *)
Someone == \E c \in Client : c \in barrier[at[c]].clients
Passed == \E r \in Rank : \/ barrier[r].count > 0
                          \/ \E m : IsUpward(m) /\ (In(m, inq[r]) \/ In(m, up[r]))

(* Before the exit event everything is counted, and what has been counted  *)
(* stands for some client in a barrier.                                    *)
Early == ~ExitSent => Sum(Load) = Cardinality(entered) /\ (Passed => Someone)

(* The ranks on the way from the root to r. *)
Above(r) == {a \in Rank : \A S \in SUBSET Rank :
               r \in S /\ (\A k \in S \ {0} : Parent[k] \in S) => a \in S}

(* The exit event is still to come to rank r. *)
Coming(r) == \/ \E k \in Rank : In(Exit("0"), up[k])
             \/ In(Exit("0"), inq[r])
             \/ \E a \in Above(r) : In(Exit("0"), down[a])

Answered == \E c \in Client : call[c] \in {"0", "ECONNABORTED"}

(* Until it has answered someone it is still to come to someone. *)
Late == Sent("0") /\ ~Answered
          => \E c \in Client : c \in barrier[at[c]].clients /\ Coming(at[c])

Inv == /\ TypeOK /\ Shape
       /\ doubles = 0 => Callers /\ Bound
       /\ doubles = 0 /\ gone = {} => Early /\ Late

(* Messages of different kinds differ. *)
LEMMA Kinds ==
    /\ \A e : Exit(e).type = "exit" /\ Exit(e).count = 0 /\ Exit(e).errnum = e
    /\ \A n : EnterUp(n).type = "enter" /\ EnterUp(n).count = n /\ EnterUp(n).from = {}
    /\ \A c : /\ Enter(c).type = "enter" /\ Enter(c).count = 1 /\ Enter(c).from = {c}
              /\ Leave(c).type = "leave" /\ Leave(c).count = 0 /\ Leave(c).from = {c}
  BY DEF Exit, EnterUp, Enter, Leave

(* The same, of messages whose kind is known. *)
LEMMA KindOf ==
    ASSUME NEW m
    PROVE  /\ IsExit(m) => m \in Message /\ m.type = "exit" /\ m.count = 0
           /\ IsUpward(m) => /\ m \in Message /\ m.type = "enter" /\ m.from = {}
                             /\ m.count \in Nat \ {0}
           /\ IsClients(m) => m \in Message /\ m.type \in {"enter", "leave"}
           /\ IsExit(m) => ~IsUpward(m) /\ ~IsClients(m)
           /\ IsUpward(m) => ~IsClients(m)
  <1>1. ASSUME IsExit(m) PROVE m \in Message /\ m.type = "exit" /\ m.count = 0
    <2>1. PICK e \in {"0", "ECONNABORTED"} : m = Exit(e)
      BY <1>1 DEF IsExit
    <2> QED BY <2>1, Messages, Kinds
  <1>2. ASSUME IsUpward(m)
        PROVE  m \in Message /\ m.type = "enter" /\ m.from = {} /\ m.count \in Nat \ {0}
    <2>1. PICK n \in Nat \ {0} : m = EnterUp(n)
      BY <1>2 DEF IsUpward
    <2> QED BY <2>1, Messages, Kinds
  <1>3. ASSUME IsClients(m)
        PROVE  m \in Message /\ m.type \in {"enter", "leave"} /\ m.from # {}
    <2>1. PICK c \in Client : m = Enter(c) \/ m = Leave(c)
      BY <1>3 DEF IsClients
    <2>2. m \in Message
      BY <2>1, Messages
    <2>3. Enter(c).type = "enter" /\ Enter(c).from = {c}
      BY Kinds
    <2>4. Leave(c).type = "leave" /\ Leave(c).from = {c}
      BY Kinds
    <2> QED BY <2>1, <2>2, <2>3, <2>4
  <1>4. IsExit(m) => ~IsUpward(m) /\ ~IsClients(m)
    BY <1>1, <1>2, <1>3
  <1>5. IsUpward(m) => ~IsClients(m)
    BY <1>2, <1>3
  <1> QED BY <1>1, <1>2, <1>3, <1>4, <1>5

-----------------------------------------------------------------------------
(* What each action does to the queues.                                    *)

(* enter_request_cb() handles a count from below or the call of a client. *)
LEMMA EnterEffect ==
    ASSUME TypeOK, Shape, NEW r \in Rank, EnterRequest(r)
    PROVE  LET b == barrier[r]
               m == Head(inq[r])
           IN  /\ Taken(Rank, Message, inq, inq', r) /\ b \in Entry /\ m \in Message
               /\ In(m, inq[r])
               /\ IsUpward(m) \/ \E c \in Client : m = Enter(c)
  <1> DEFINE b == barrier[r]
             m == Head(inq[r])
  <1>1. Taken(Rank, Message, inq, inq', r) /\ b \in Entry /\ m \in Message
    BY EnterSends
  <1>2. In(m, inq[r])
    BY <1>1 DEF Taken
  <1>3. m.type = "enter"
    BY DEF EnterRequest
  <1>4. IsExit(m) \/ IsUpward(m) \/ IsClients(m)
    BY <1>2 DEF Shape
  <1>5. ~IsExit(m)
    BY <1>3, KindOf
  <1>6. IsUpward(m) \/ \E c \in Client : m = Enter(c)
    BY <1>3, <1>4, <1>5, Kinds DEF IsClients
  <1> QED BY <1>1, <1>2, <1>6

(* disconnect_request_cb() handles a client's request to leave. *)
LEMMA DisconnectEffect ==
    ASSUME TypeOK, Shape, NEW r \in Rank, DisconnectRequest(r)
    PROVE  LET m == Head(inq[r])
           IN  /\ Taken(Rank, Message, inq, inq', r) /\ In(m, inq[r]) /\ m \in Message
               /\ \E c \in Client : m = Leave(c)
               /\ up' = up \/ PutIn(Rank, Message, up, up', r, Exit("ECONNABORTED"))
  <1> DEFINE m == Head(inq[r])
  <1>1. Taken(Rank, Message, inq, inq', r)
    BY TakeMessage DEF DisconnectRequest
  <1>2. In(m, inq[r]) /\ m \in Message
    BY <1>1 DEF Taken
  <1>3. m.type = "leave"
    BY DEF DisconnectRequest
  <1>4. IsExit(m) \/ IsUpward(m) \/ IsClients(m)
    BY <1>2 DEF Shape
  <1>5. ~IsExit(m) /\ ~IsUpward(m)
    BY <1>3, KindOf
  <1>6. \E c \in Client : m = Leave(c)
    BY <1>3, <1>4, <1>5, Kinds DEF IsClients
  <1>7. up' = up \/ up' = [up EXCEPT ![r] = Append(@, Exit("ECONNABORTED"))]
    BY DEF DisconnectRequest
  <1>8. up' = up \/ PutIn(Rank, Message, up, up', r, Exit("ECONNABORTED"))
    BY <1>7, Messages, PutUp
  <1> QED BY <1>1, <1>2, <1>6, <1>8

(* exit_event_cb() handles an exit event. *)
LEMMA ExitEffect ==
    ASSUME TypeOK, Shape, NEW r \in Rank, ExitEvent(r)
    PROVE  LET m == Head(inq[r])
           IN  /\ Taken(Rank, Message, inq, inq', r) /\ In(m, inq[r])
               /\ \E e \in {"0", "ECONNABORTED"} : m = Exit(e)
  <1> DEFINE m == Head(inq[r])
  <1>1. Taken(Rank, Message, inq, inq', r)
    BY TakeMessage DEF ExitEvent
  <1>2. In(m, inq[r])
    BY <1>1 DEF Taken
  <1>3. m.type = "exit"
    BY DEF ExitEvent
  <1>4. IsExit(m) \/ IsUpward(m) \/ IsClients(m)
    BY <1>2 DEF Shape
  <1>5. ~IsUpward(m) /\ ~IsClients(m)
    BY <1>3, KindOf
  <1> QED BY <1>1, <1>2, <1>4, <1>5 DEF IsExit

(* timeout_cb() sends a count that is not zero, and never on rank 0. *)
LEMMA TimeoutEffect ==
    ASSUME TypeOK, Shape, NEW r \in Rank, Timeout(r)
    PROVE  LET n == barrier[r].count
           IN  /\ r # 0 /\ barrier[r] \in Entry /\ n \in Nat
               /\ n = 0 => up' = up
               /\ n # 0 => /\ IsUpward(EnterUp(n))
                           /\ PutIn(Rank, Message, up, up', r, EnterUp(n))
  <1> DEFINE n == barrier[r].count
  <1>1. r # 0
    BY DEF Timeout, Shape
  <1>2. barrier[r] \in Entry /\ n \in Nat /\ up \in [Rank -> Seq(Message)]
    BY Typed DEF Typing, Entry
  <1>3. n > 0 <=> n # 0
    BY SMTT(60), <1>2
  <1>4. up' = [up EXCEPT ![r] = IF n > 0 THEN Append(up[r], EnterUp(n)) ELSE up[r]]
    BY DEF Timeout, Upward
  <1> HIDE DEF n
  <1>5. n = 0 => up' = up
    BY <1>2, <1>3, <1>4
  <1>6. ASSUME n # 0
        PROVE  IsUpward(EnterUp(n)) /\ PutIn(Rank, Message, up, up', r, EnterUp(n))
    <2>1. IsUpward(EnterUp(n)) /\ EnterUp(n) \in Message
      BY <1>2, <1>6, Messages DEF IsUpward
    <2>2. up' = [up EXCEPT ![r] = Append(@, EnterUp(n))]
      BY <1>3, <1>4, <1>6
    <2> QED BY <2>1, <2>2, PutUp
  <1> QED BY <1>1, <1>2, <1>5, <1>6 DEF n

(* The events that brokers pass on to the brokers below r. *)
Casts(D, r, m) ==
    /\ D \in [Rank -> Seq(Message)]
    /\ \A k \in Rank : \A x :
         /\ In(x, D[k]) => In(x, down[k]) \/ (x = m /\ k \in Child(r))
         /\ In(x, down[k]) => In(x, D[k]) \/ (k = r /\ x = m)
         /\ k \in Child(r) => In(m, D[k])

(* A broker passes on what the module sends: an event to the module and    *)
(* the brokers below on rank 0, an event to the broker above, or a count   *)
(* to the module above.                                                    *)
LEMMA RouteEffect ==
    ASSUME TypeOK, Shape, NEW r \in Rank, Route(r)
    PROVE  LET m == Head(up[r])
           IN  /\ In(m, up[r]) /\ m \in Message
               /\ \/ /\ r = 0 /\ IsExit(m) /\ Taken(Rank, Message, up, up', r)
                     /\ PutIn(Rank, Message, inq, inq', 0, m) /\ Casts(down', 0, m)
                  \/ /\ r # 0 /\ IsExit(m) /\ UNCHANGED <<inq, down>>
                     /\ Parent[r] \in Rank
                     /\ \E u : /\ Taken(Rank, Message, up, u, r)
                               /\ PutIn(Rank, Message, u, up', Parent[r], m)
                  \/ /\ r # 0 /\ IsUpward(m) /\ UNCHANGED down
                     /\ Taken(Rank, Message, up, up', r) /\ Parent[r] \in Rank
                     /\ PutIn(Rank, Message, inq, inq', Parent[r], m)
  <1> DEFINE m == Head(up[r])
             rest == [up EXCEPT ![r] = Tail(@)]
  <1>0. /\ inq \in [Rank -> Seq(Message)] /\ up \in [Rank -> Seq(Message)]
        /\ down \in [Rank -> Seq(Message)]
    BY Typed DEF Typing
  <1>1. Taken(Rank, Message, up, rest, r)
    <2>1. Takes(Rank, Message, up, rest, r)
      BY <1>0 DEF Route, Takes
    <2> QED BY <2>1, TakeFrom
  <1>2. In(m, up[r]) /\ m \in Message /\ rest \in [Rank -> Seq(Message)]
    BY <1>1 DEF Taken
  <1>3. IsExit(m) \/ (r # 0 /\ IsUpward(m))
    BY <1>2 DEF Shape
  <1>4. IsExit(m) => m.type = "exit"
    BY KindOf
  <1>5. IsUpward(m) => m.type = "enter"
    BY KindOf
  <1>6. r # 0 => Parent[r] \in Rank
    BY BarrierAssumption
  <1>7. CASE r = 0 /\ Publish(0, m) /\ up' = rest
    <2>1. Puts(Rank, Message, inq, inq', 0, m)
      BY <1>0, <1>2, <1>7 DEF Publish, Puts
    <2>2. PutIn(Rank, Message, inq, inq', 0, m)
      BY <2>1, PutInto
    <2>3. ASSUME NEW k \in Rank, NEW x
          PROVE  In(x, Append(down[k], m)) <=> In(x, down[k]) \/ x = m
      BY <1>0, <1>2, InAppend
    <2>4. \A q \in Seq(Message) : Append(q, m) \in Seq(Message)
      BY <1>2, AppendIs
    <2>5. down' = [k \in Rank |-> IF k \in Child(0) THEN Append(down[k], m) ELSE down[k]]
      BY <1>7 DEF Publish
    <2>6. down' \in [Rank -> Seq(Message)]
      BY <1>0, <2>4, <2>5
    <2> HIDE DEF m, rest
    <2>7. Casts(down', 0, m)
      BY <2>3, <2>5, <2>6 DEF Casts
    <2>8. IsExit(m)
      BY <1>3, <1>7
    <2> QED BY <1>1, <1>2, <1>7, <2>2, <2>7, <2>8 DEF m
  <1>8. CASE /\ r # 0 /\ m.type = "exit" /\ up' = [rest EXCEPT ![Parent[r]] = Append(@, m)]
             /\ UNCHANGED <<inq, down>>
    <2>1. Puts(Rank, Message, rest, up', Parent[r], m)
      BY <1>2, <1>6, <1>8 DEF Puts
    <2>2. PutIn(Rank, Message, rest, up', Parent[r], m)
      BY <2>1, PutInto
    <2>3. IsExit(m)
      BY <1>3, <1>5, <1>8
    <2> QED BY <1>1, <1>2, <1>6, <1>8, <2>2, <2>3
  <1>9. CASE /\ r # 0 /\ m.type = "enter" /\ inq' = [inq EXCEPT ![Parent[r]] = Append(@, m)]
             /\ up' = rest /\ UNCHANGED down
    <2>1. Puts(Rank, Message, inq, inq', Parent[r], m)
      BY <1>0, <1>2, <1>6, <1>9 DEF Puts
    <2>2. PutIn(Rank, Message, inq, inq', Parent[r], m)
      BY <2>1, PutInto
    <2>3. IsUpward(m)
      BY <1>3, <1>4, <1>9
    <2> QED BY <1>1, <1>2, <1>6, <1>9, <2>2, <2>3
  <1> QED BY <1>7, <1>8, <1>9 DEF Route

(* An event from above goes to the module and to the brokers below. *)
LEMMA DeliverEffect ==
    ASSUME TypeOK, Shape, NEW r \in Rank, Deliver(r)
    PROVE  LET m == Head(down[r])
           IN  /\ In(m, down[r]) /\ IsExit(m)
               /\ PutIn(Rank, Message, inq, inq', r, m) /\ Casts(down', r, m)
  <1> DEFINE m == Head(down[r])
  <1>0. inq \in [Rank -> Seq(Message)] /\ down \in [Rank -> Seq(Message)] /\ down[r] # <<>>
    BY Typed DEF Typing, Deliver
  <1>1. m \in Message /\ Tail(down[r]) \in Seq(Message)
    BY <1>0, TailIs
  <1>2. /\ In(m, down[r])
        /\ \A x : In(x, Tail(down[r])) => In(x, down[r])
        /\ \A x : In(x, down[r]) => In(x, Tail(down[r])) \/ x = m
    BY <1>0, InTail
  <1>3. IsExit(m)
    BY <1>2 DEF Shape
  <1>4. PutIn(Rank, Message, inq, inq', r, m)
    <2>1. Puts(Rank, Message, inq, inq', r, m)
      BY <1>0, <1>1 DEF Deliver, Puts
    <2> QED BY <2>1, PutInto
  <1>5. ASSUME NEW k \in Rank, NEW x
        PROVE  In(x, Append(down[k], m)) <=> In(x, down[k]) \/ x = m
    BY <1>0, <1>1, InAppend
  <1>6. r \notin Child(r)
    <2>1. r # 0 => Parent[r] < r /\ r \in Nat
      BY BarrierAssumption
    <2>2. r # 0 => Parent[r] # r
      BY SMTT(60), <2>1
    <2> QED BY <2>2 DEF Child
  <1>7. \A q \in Seq(Message) : Append(q, m) \in Seq(Message)
    BY <1>1, AppendIs
  <1>8. /\ down' \in [Rank -> Seq(Message)]
        /\ down'[r] = Tail(down[r])
        /\ \A k \in Rank : k # r => down'[k] = IF k \in Child(r) THEN Append(down[k], m) ELSE down[k]
    <2>1. down' = [k \in Rank |-> CASE k = r -> Tail(down[k])
                                    [] k \in Child(r) -> Append(down[k], m)
                                    [] OTHER -> down[k]]
      BY DEF Deliver
    <2> HIDE DEF m
    <2>2. \A k \in Rank : k # r => down'[k] = IF k \in Child(r) THEN Append(down[k], m) ELSE down[k]
      BY <2>1
    <2>3. down'[r] = Tail(down[r])
      BY <1>6, <2>1
    <2>4. \A k \in Rank : down'[k] \in Seq(Message)
      BY <1>0, <1>1, <1>7, <2>2, <2>3
    <2>5. down' \in [Rank -> Seq(Message)]
      BY <2>1, <2>4
    <2> QED BY <2>2, <2>3, <2>5
  <1>9. Casts(down', r, m)
    <2> HIDE DEF m
    <2> QED BY <1>2, <1>5, <1>6, <1>8 DEF Casts
  <1> QED BY <1>2, <1>3, <1>4, <1>9

(* A client sends a request to the module of its rank. *)
LEMMA SendEffect ==
    ASSUME TypeOK, NEW c \in Client, NEW m \in Message, Send(c, m)
    PROVE  at[c] \in Rank /\ PutIn(Rank, Message, inq, inq', at[c], m)
  <1>1. at[c] \in Rank /\ inq \in [Rank -> Seq(Message)]
    BY Typed DEF Typing
  <1>2. Puts(Rank, Message, inq, inq', at[c], m)
    BY <1>1 DEF Send, Puts
  <1> QED BY <1>1, <1>2, PutInto

-----------------------------------------------------------------------------
(* Where messages are.                                                     *)

(* A step that brings no message where it does not belong. *)
Fits ==
    /\ \A k \in Rank : \A m :
         In(m, inq'[k]) => In(m, inq[k]) \/ IsExit(m) \/ IsUpward(m) \/ IsClients(m)
    /\ \A k \in Rank : \A m :
         In(m, up'[k]) => In(m, up[k]) \/ IsExit(m) \/ (k # 0 /\ IsUpward(m))
    /\ \A k \in Rank : \A m : In(m, down'[k]) => In(m, down[k]) \/ IsExit(m)

(* Such a step keeps the shape of the queues. *)
LEMMA ShapeFrom ==
    ASSUME Shape, Fits, ~armed'[0]
    PROVE  Shape'
  <1>1. ASSUME NEW r \in Rank, NEW m
        PROVE  /\ In(m, inq'[r]) => IsExit(m) \/ IsUpward(m) \/ IsClients(m)
               /\ In(m, up'[r]) => IsExit(m) \/ (r # 0 /\ IsUpward(m))
               /\ In(m, down'[r]) => IsExit(m)
    <2>1. /\ In(m, inq[r]) => IsExit(m) \/ IsUpward(m) \/ IsClients(m)
          /\ In(m, up[r]) => IsExit(m) \/ (r # 0 /\ IsUpward(m))
          /\ In(m, down[r]) => IsExit(m)
      BY DEF Shape
    <2>2. /\ In(m, inq'[r]) => In(m, inq[r]) \/ IsExit(m) \/ IsUpward(m) \/ IsClients(m)
          /\ In(m, up'[r]) => In(m, up[r]) \/ IsExit(m) \/ (r # 0 /\ IsUpward(m))
          /\ In(m, down'[r]) => In(m, down[r]) \/ IsExit(m)
      BY DEF Fits
    <2> QED BY <2>1, <2>2
  <1> QED BY <1>1 DEF Shape

(* Every action keeps it. *)
LEMMA ShapeStep == TypeOK /\ Shape /\ Next => Shape'
  <1> SUFFICES ASSUME TypeOK, Shape, Next PROVE Shape'
    OBVIOUS
  <1>0. /\ armed \in [Rank -> BOOLEAN] /\ ~armed[0] /\ 0 \in Rank
    BY Typed, BarrierAssumption DEF Typing, Shape
  <1>X. IsExit(Exit("0")) /\ IsExit(Exit("ECONNABORTED"))
    BY DEF IsExit
  <1>1. ASSUME NEW r \in Rank, EnterRequest(r) PROVE Shape'
    <2>1. Taken(Rank, Message, inq, inq', r)
      BY <1>1, EnterEffect
    <2>2. \/ up' = up \/ PutIn(Rank, Message, up, up', r, Exit("0"))
          \/ PutIn(Rank, Message, up, up', r, Exit("ECONNABORTED"))
      BY <1>1, EnterSends
    <2>3. down' = down
      BY <1>1 DEF EnterRequest
    <2>4. ~armed'[0]
      BY <1>0, <1>1 DEF EnterRequest, Arms
    <2>5. \A k \in Rank : \A m : In(m, up'[k]) => In(m, up[k]) \/ IsExit(m)
      BY <1>X, <2>2 DEF PutIn
    <2>6. \A k \in Rank : \A m : In(m, inq'[k]) => In(m, inq[k])
      BY <2>1 DEF Taken
    <2>7. Fits
      BY <2>3, <2>5, <2>6 DEF Fits
    <2> QED BY <1>0, <2>3, <2>4, <2>7, ShapeFrom
  <1>2. ASSUME NEW r \in Rank, DisconnectRequest(r) PROVE Shape'
    <2>1. Taken(Rank, Message, inq, inq', r)
      BY <1>2, DisconnectEffect
    <2>2. up' = up \/ PutIn(Rank, Message, up, up', r, Exit("ECONNABORTED"))
      BY <1>2, DisconnectEffect
    <2>3. down' = down /\ armed' = armed
      BY <1>2 DEF DisconnectRequest
    <2>5. \A k \in Rank : \A m : In(m, up'[k]) => In(m, up[k]) \/ IsExit(m)
      BY <1>X, <2>2 DEF PutIn
    <2>6. \A k \in Rank : \A m : In(m, inq'[k]) => In(m, inq[k])
      BY <2>1 DEF Taken
    <2>7. Fits
      BY <2>3, <2>5, <2>6 DEF Fits
    <2> QED BY <1>0, <2>3, <2>7, ShapeFrom
  <1>3. ASSUME NEW r \in Rank, ExitEvent(r) PROVE Shape'
    <2>1. Taken(Rank, Message, inq, inq', r)
      BY <1>3, ExitEffect
    <2>2. down' = down /\ up' = up /\ armed' = armed
      BY <1>3 DEF ExitEvent
    <2>3. \A k \in Rank : \A m : In(m, inq'[k]) => In(m, inq[k])
      BY <2>1 DEF Taken
    <2>4. Fits
      BY <2>2, <2>3 DEF Fits
    <2> QED BY <1>0, <2>2, <2>4, ShapeFrom
  <1>4. ASSUME NEW r \in Rank, Timeout(r) PROVE Shape'
    <2> DEFINE m == EnterUp(barrier[r].count)
    <2>1. /\ r # 0
          /\ up' = up \/ (IsUpward(m) /\ PutIn(Rank, Message, up, up', r, m))
      BY <1>4, TimeoutEffect
    <2>2. down' = down /\ inq' = inq
      BY <1>4 DEF Timeout
    <2>3. ~armed'[0]
      BY <1>0, <1>4, <2>1 DEF Timeout
    <2> HIDE DEF m
    <2>4. \A k \in Rank : \A x : In(x, up'[k]) => In(x, up[k]) \/ (k # 0 /\ IsUpward(x))
      BY <2>1 DEF PutIn
    <2>5. Fits
      BY <2>2, <2>4 DEF Fits
    <2> QED BY <2>3, <2>5, ShapeFrom
  <1>5. ASSUME NEW r \in Rank, Route(r) PROVE Shape'
    <2> DEFINE m == Head(up[r])
    <2>0. armed' = armed
      BY <1>5 DEF Route
    <2>1. CASE /\ r = 0 /\ IsExit(m) /\ Taken(Rank, Message, up, up', r)
               /\ PutIn(Rank, Message, inq, inq', 0, m) /\ Casts(down', 0, m)
      <3> HIDE DEF m
      <3>1. \A k \in Rank : \A x : In(x, up'[k]) => In(x, up[k])
        BY <2>1 DEF Taken
      <3>2. \A k \in Rank : \A x : In(x, inq'[k]) => In(x, inq[k]) \/ IsExit(x)
        BY <2>1 DEF PutIn
      <3>3. \A k \in Rank : \A x : In(x, down'[k]) => In(x, down[k]) \/ IsExit(x)
        BY <2>1 DEF Casts
      <3>4. Fits
        BY <3>1, <3>2, <3>3 DEF Fits
      <3> QED BY <1>0, <2>0, <3>4, ShapeFrom
    <2>2. ASSUME NEW u, r # 0, IsExit(m), UNCHANGED <<inq, down>>, Parent[r] \in Rank,
                 Taken(Rank, Message, up, u, r), PutIn(Rank, Message, u, up', Parent[r], m)
          PROVE  Shape'
      <3> HIDE DEF m
      <3>1. \A k \in Rank : \A x : In(x, u[k]) => In(x, up[k])
        BY <2>2 DEF Taken
      <3>2. \A k \in Rank : \A x : In(x, up'[k]) => In(x, u[k]) \/ IsExit(x)
        BY <2>2 DEF PutIn
      <3>3. Fits
        BY <2>2, <3>1, <3>2 DEF Fits
      <3> QED BY <1>0, <2>0, <3>3, ShapeFrom
    <2>3. CASE /\ r # 0 /\ IsUpward(m) /\ UNCHANGED down
               /\ Taken(Rank, Message, up, up', r) /\ Parent[r] \in Rank
               /\ PutIn(Rank, Message, inq, inq', Parent[r], m)
      <3> HIDE DEF m
      <3>1. \A k \in Rank : \A x : In(x, up'[k]) => In(x, up[k])
        BY <2>3 DEF Taken
      <3>2. \A k \in Rank : \A x : In(x, inq'[k]) => In(x, inq[k]) \/ IsUpward(x)
        BY <2>3 DEF PutIn
      <3>3. Fits
        BY <2>3, <3>1, <3>2 DEF Fits
      <3> QED BY <1>0, <2>0, <3>3, ShapeFrom
    <2> QED BY <1>5, <2>1, <2>2, <2>3, RouteEffect
  <1>6. ASSUME NEW r \in Rank, Deliver(r) PROVE Shape'
    <2> DEFINE m == Head(down[r])
    <2>1. IsExit(m) /\ PutIn(Rank, Message, inq, inq', r, m) /\ Casts(down', r, m)
      BY <1>6, DeliverEffect
    <2>2. up' = up /\ armed' = armed
      BY <1>6 DEF Deliver
    <2> HIDE DEF m
    <2>3. \A k \in Rank : \A x : In(x, inq'[k]) => In(x, inq[k]) \/ IsExit(x)
      BY <2>1 DEF PutIn
    <2>4. \A k \in Rank : \A x : In(x, down'[k]) => In(x, down[k]) \/ IsExit(x)
      BY <2>1 DEF Casts
    <2>5. Fits
      BY <2>2, <2>3, <2>4 DEF Fits
    <2> QED BY <1>0, <2>2, <2>5, ShapeFrom
  <1>7. ASSUME NEW c \in Client, NEW m \in Message, IsClients(m), Send(c, m),
               UNCHANGED <<armed, up, down>>
        PROVE  Shape'
    <2>1. PutIn(Rank, Message, inq, inq', at[c], m)
      BY <1>7, SendEffect
    <2>2. \A k \in Rank : \A x : In(x, inq'[k]) => In(x, inq[k]) \/ IsClients(x)
      BY <1>7, <2>1 DEF PutIn
    <2>3. Fits
      BY <1>7, <2>2 DEF Fits
    <2> QED BY <1>0, <1>7, <2>3, ShapeFrom
  <1>8. ASSUME NEW c \in Client, ClientEnter(c) \/ ClientAgain(c) \/ ClientGone(c)
        PROVE  Shape'
    <2>1. /\ Enter(c) \in Message /\ IsClients(Enter(c))
          /\ Leave(c) \in Message /\ IsClients(Leave(c))
      BY Messages DEF IsClients
    <2> QED BY <1>7, <1>8, <2>1 DEF ClientEnter, ClientAgain, ClientGone
  <1> QED BY <1>1, <1>2, <1>3, <1>4, <1>5, <1>6, <1>8 DEF Next, Module

-----------------------------------------------------------------------------
(* Who is in a barrier.                                                    *)

(* Requests of clients are none of the messages modules send. *)
LEMMA NotSent ==
    ASSUME NEW m, IsExit(m) \/ IsUpward(m), NEW c \in Client
    PROVE  Enter(c) # m /\ Leave(c) # m
  <1>1. IsClients(Enter(c)) /\ IsClients(Leave(c))
    BY DEF IsClients
  <1> QED BY <1>1, KindOf

(* Requests of different clients differ, and from one to leave. *)
LEMMA RequestsDiffer ==
    ASSUME NEW c, NEW d
    PROVE  Enter(c) # Leave(d) /\ (Enter(c) = Enter(d) => c = d) /\ (Leave(c) = Leave(d) => c = d)
  <1>1. Enter(c).type = "enter" /\ Leave(d).type = "leave"
    BY Kinds
  <1>2. /\ Enter(c).from = {c} /\ Enter(d).from = {d}
        /\ Leave(c).from = {c} /\ Leave(d).from = {d}
    BY Kinds
  <1> QED BY <1>1, <1>2

(* While nobody calls twice an entry is never refused. *)
LEMMA SingleEnter ==
    ASSUME TypeOK, Shape, Callers, NEW r \in Rank, EnterRequest(r)
    PROVE  LET b == barrier[r]
               m == Head(inq[r])
           IN  /\ ~Double(b, m) /\ b \in Entry /\ m \in Message
               /\ barrier' \in [Rank -> Entry]
               /\ barrier'[r].count = b.count + m.count
               /\ barrier'[r].clients = b.clients \cup m.from
               /\ \A k \in Rank : k # r => barrier'[k] = barrier[k]
               /\ b.count + m.count = NProcs => PutIn(Rank, Message, up, up', r, Exit("0"))
               /\ b.count + m.count # NProcs => up' = up
  <1> DEFINE b == barrier[r]
             m == Head(inq[r])
  <1>1. b \in Entry /\ m \in Message /\ In(m, inq[r]) /\ barrier \in [Rank -> Entry]
    BY EnterEffect, Typed DEF Typing
  <1>2. IsUpward(m) \/ \E c \in Client : m = Enter(c)
    BY EnterEffect
  <1>3. ~Double(b, m)
    <2>1. CASE IsUpward(m)
      <3>1. m.from = {}
        BY <2>1, KindOf
      <3> QED BY <3>1 DEF Double
    <2>2. ASSUME NEW c \in Client, m = Enter(c) PROVE ~Double(b, m)
      <3>1. c \notin b.clients
        BY <1>1, <2>2 DEF Callers, Caller
      <3>2. Enter(c).from = {c}
        BY Kinds
      <3> QED BY <2>2, <3>1, <3>2 DEF Double
    <2> QED BY <1>2, <2>1, <2>2
  <1>4. barrier' = [barrier EXCEPT ![r] = Entered(b, m)]
    BY EnterSends
  <1>5. /\ Entered(b, m) \in Entry /\ Entered(b, m).count = b.count + m.count
        /\ Entered(b, m).clients = b.clients \cup m.from
    <2> HIDE DEF b, m
    <2> QED BY <1>1, <1>3, EntryType
  <1>6. b.count + m.count = NProcs => PutIn(Rank, Message, up, up', r, Exit("0"))
    BY <1>3, EnterSends
  <1>7. b.count + m.count # NProcs => up' = up
    BY <1>3, EnterSends
  <1>8. /\ barrier' \in [Rank -> Entry] /\ barrier'[r] = Entered(b, m)
        /\ \A k \in Rank : k # r => barrier'[k] = barrier[k]
    <2> HIDE DEF b, m
    <2> QED BY <1>1, <1>4, <1>5
  <1> QED BY <1>1, <1>3, <1>5, <1>6, <1>7, <1>8

(* A step that changes neither who waits nor who is in a barrier. *)
Quiet ==
    /\ UNCHANGED <<at, call, entered>> /\ gone \subseteq gone'
    /\ \A k \in Rank : barrier'[k].clients = barrier[k].clients
    /\ \A c \in Client, k \in Rank :
         /\ In(Enter(c), inq'[k]) => In(Enter(c), inq[k])
         /\ In(Enter(c), inq[k]) /\ Once(Enter(c), inq[k]) => Once(Enter(c), inq'[k])
         /\ In(Leave(c), inq'[k]) => In(Leave(c), inq[k]) \/ c \in gone'

(* Such a step keeps the callers. *)
LEMMA CallersFrom == ASSUME Callers, Quiet PROVE Callers'
  <1>1. ASSUME NEW c \in Client, NEW k \in Rank PROVE Caller(c, k)'
    <2>1. Caller(c, k)
      BY DEF Callers
    <2>2. /\ at' = at /\ call' = call /\ gone \subseteq gone'
          /\ barrier'[k].clients = barrier[k].clients
          /\ In(Enter(c), inq'[k]) => In(Enter(c), inq[k])
          /\ In(Enter(c), inq[k]) /\ Once(Enter(c), inq[k]) => Once(Enter(c), inq'[k])
          /\ In(Leave(c), inq'[k]) => In(Leave(c), inq[k]) \/ c \in gone'
      BY DEF Quiet
    <2> QED BY <2>1, <2>2 DEF Caller
  <1>2. entered' = {c \in Client : call'[c] # "none"}
    BY DEF Callers, Quiet
  <1> QED BY <1>1, <1>2 DEF Callers

(* What a module takes from its queue brings nothing. *)
LEMMA TakenQuiet ==
    ASSUME NEW r, Taken(Rank, Message, inq, inq', r), NEW c \in Client, NEW k \in Rank
    PROVE  /\ In(Enter(c), inq'[k]) => In(Enter(c), inq[k])
           /\ In(Leave(c), inq'[k]) => In(Leave(c), inq[k])
           /\ Once(Enter(c), inq[k]) => Once(Enter(c), inq'[k])
  BY DEF Taken

(* Nor does what a broker delivers to a module. *)
LEMMA PutQuiet ==
    ASSUME NEW r, NEW m, PutIn(Rank, Message, inq, inq', r, m), IsExit(m) \/ IsUpward(m),
           NEW c \in Client, NEW k \in Rank
    PROVE  /\ In(Enter(c), inq'[k]) => In(Enter(c), inq[k])
           /\ In(Leave(c), inq'[k]) => In(Leave(c), inq[k])
           /\ Once(Enter(c), inq[k]) => Once(Enter(c), inq'[k])
  <1>1. Enter(c) # m /\ Leave(c) # m
    BY NotSent
  <1> QED BY <1>1 DEF PutIn

(* Every action keeps the callers while nobody calls twice. *)
LEMMA CallersStep == TypeOK /\ Shape /\ Callers /\ Next /\ doubles' = 0 => Callers'
  <1> SUFFICES ASSUME TypeOK, Shape, Callers, Next, doubles' = 0 PROVE Callers'
    OBVIOUS
  <1>0. /\ entered = {c \in Client : call[c] # "none"}
        /\ \A c \in Client, k \in Rank : Caller(c, k)
        /\ call \in [Client -> {"none", "waiting", "0", "ECONNABORTED"}]
        /\ barrier \in [Rank -> Entry]
    BY Typed DEF Typing, Callers
  <1>1. ASSUME NEW r \in Rank, EnterRequest(r) PROVE Callers'
    <2> DEFINE m == Head(inq[r])
    <2>1. /\ barrier'[r].clients = barrier[r].clients \cup m.from
          /\ \A k \in Rank : k # r => barrier'[k] = barrier[k]
      BY <1>1, SingleEnter
    <2>2. Taken(Rank, Message, inq, inq', r) /\ In(m, inq[r])
      BY <1>1, EnterEffect
    <2>3. UNCHANGED <<at, call, entered, gone>>
      BY <1>1 DEF EnterRequest
    <2>4. CASE IsUpward(m)
      <3>1. m.from = {}
        BY <2>4, KindOf
      <3>2. \A k \in Rank : barrier'[k].clients = barrier[k].clients
        BY <2>1, <3>1
      <3>3. Quiet
        BY <2>2, <2>3, <3>2, TakenQuiet DEF Quiet
      <3> QED BY <3>3, CallersFrom
    <2>5. ASSUME NEW d \in Client, m = Enter(d) PROVE Callers'
      <3>0. Enter(d).from = {d}
        BY Kinds
      <3>1. m.from = {d}
        BY <2>5, <3>0
      <3>2. r = at[d] /\ call[d] = "waiting" /\ Once(Enter(d), inq[r])
        <4>1. Caller(d, r) /\ In(Enter(d), inq[r])
          BY <1>0, <2>2, <2>5
        <4> QED BY <4>1 DEF Caller
      <3>3. ~In(Enter(d), inq'[r])
        BY <2>2, <2>5, <3>2 DEF Taken
      <3>4. ASSUME NEW c \in Client, NEW k \in Rank PROVE Caller(c, k)'
        <4>1. Caller(c, k) /\ Caller(d, k)
          BY <1>0
        <4>2. /\ In(Enter(c), inq'[k]) => In(Enter(c), inq[k])
              /\ In(Leave(c), inq'[k]) => In(Leave(c), inq[k])
              /\ Once(Enter(c), inq[k]) => Once(Enter(c), inq'[k])
          BY <2>2, TakenQuiet
        <4>3. c \in barrier'[k].clients => c \in barrier[k].clients \/ (c = d /\ k = r)
          BY <2>1, <3>1
        <4>4. CASE c = d /\ k = r
          BY <2>3, <3>2, <3>3, <4>1, <4>2, <4>4 DEF Caller
        <4>5. CASE ~(c = d /\ k = r)
          BY <2>3, <4>1, <4>2, <4>3, <4>5 DEF Caller
        <4> QED BY <4>4, <4>5
      <3>5. entered' = {c \in Client : call'[c] # "none"}
        BY <1>0, <2>3
      <3> QED BY <3>4, <3>5 DEF Callers
    <2> QED BY <1>1, <2>4, <2>5, EnterEffect
  <1>2. ASSUME NEW r \in Rank, DisconnectRequest(r) PROVE Callers'
    <2>1. Taken(Rank, Message, inq, inq', r)
      BY <1>2, DisconnectEffect
    <2>2. UNCHANGED <<at, call, entered, gone, barrier>>
      BY <1>2 DEF DisconnectRequest
    <2>3. Quiet
      BY <2>1, <2>2, TakenQuiet DEF Quiet
    <2> QED BY <2>3, CallersFrom
  <1>3. ASSUME NEW r \in Rank, ExitEvent(r) PROVE Callers'
    <2> DEFINE e == Head(inq[r]).errnum
    <2>1. Taken(Rank, Message, inq, inq', r)
      BY <1>3, ExitEffect
    <2>2. e \in {"0", "ECONNABORTED"}
      <3>1. PICK x \in {"0", "ECONNABORTED"} : Head(inq[r]) = Exit(x)
        BY <1>3, ExitEffect
      <3>2. Exit(x).errnum = x
        BY Kinds
      <3> QED BY <3>1, <3>2
    <2>3. /\ barrier'[r].clients = {}
          /\ \A k \in Rank : k # r => barrier'[k] = barrier[k]
      BY <1>0, <1>3 DEF ExitEvent, NoBarrier
    <2>4. UNCHANGED <<at, entered, gone>> /\ call' = Ended(barrier[r], e)
      BY <1>3 DEF ExitEvent
    <2> HIDE DEF e
    <2>5. \A c \in Client : call'[c] = IF c \in barrier[r].clients \ gone THEN e ELSE call[c]
      BY <2>4 DEF Ended
    <2>6. ASSUME NEW c \in Client, NEW k \in Rank PROVE Caller(c, k)'
      <3>1. Caller(c, k) /\ Caller(c, r)
        BY <1>0
      <3>2. /\ In(Enter(c), inq'[k]) => In(Enter(c), inq[k])
            /\ In(Leave(c), inq'[k]) => In(Leave(c), inq[k])
            /\ Once(Enter(c), inq[k]) => Once(Enter(c), inq'[k])
        BY <2>1, TakenQuiet
      <3>3. c \in barrier'[k].clients => k # r /\ c \in barrier[k].clients
        BY <2>3
      <3>4. c \in barrier[r].clients => r = at[c]
        BY <3>1 DEF Caller
      <3>5. c \notin barrier[r].clients => call'[c] = call[c]
        BY <2>5
      <3>6. In(Enter(c), inq'[k]) => c \notin barrier[r].clients
        BY <3>1, <3>2, <3>4 DEF Caller
      <3>7. c \in barrier'[k].clients => c \notin barrier[r].clients
        BY <3>1, <3>3, <3>4 DEF Caller
      <3> QED BY <2>4, <3>1, <3>2, <3>3, <3>5, <3>6, <3>7 DEF Caller
    <2>7. \A c \in Client : call'[c] # "none" <=> call[c] # "none"
      <3>1. \A c \in Client : c \in barrier[r].clients => call[c] = "waiting"
        BY <1>0 DEF Caller
      <3>2. e # "none"
        BY <2>2
      <3> QED BY <2>5, <3>1, <3>2
    <2> QED BY <1>0, <2>4, <2>6, <2>7 DEF Callers
  <1>4. ASSUME NEW r \in Rank, Timeout(r) PROVE Callers'
    <2>1. barrier' = [barrier EXCEPT ![r] = [barrier[r] EXCEPT !.count = 0]]
      BY <1>4 DEF Timeout, Forwarded
    <2>2. \A k \in Rank : barrier'[k].clients = barrier[k].clients
      BY <1>0, <2>1 DEF Entry
    <2>3. UNCHANGED <<at, call, entered, gone, inq>>
      BY <1>4 DEF Timeout
    <2>4. Quiet
      BY <2>2, <2>3 DEF Quiet
    <2> QED BY <2>4, CallersFrom
  <1>5. ASSUME NEW r \in Rank, Route(r) PROVE Callers'
    <2> DEFINE m == Head(up[r])
    <2>1. UNCHANGED <<at, call, entered, gone, barrier>>
      BY <1>5 DEF Route
    <2>2. \/ inq' = inq
          \/ /\ IsExit(m) \/ IsUpward(m)
             /\ \E k \in Rank : PutIn(Rank, Message, inq, inq', k, m)
      BY <1>5, RouteEffect
    <2> HIDE DEF m
    <2>3. CASE inq' = inq
      BY <2>1, <2>3, CallersFrom DEF Quiet
    <2>4. ASSUME IsExit(m) \/ IsUpward(m), NEW k \in Rank,
                 PutIn(Rank, Message, inq, inq', k, m)
          PROVE  Callers'
      <3>1. Quiet
        BY <2>1, <2>4, PutQuiet DEF Quiet
      <3> QED BY <3>1, CallersFrom
    <2> QED BY <2>2, <2>3, <2>4
  <1>6. ASSUME NEW r \in Rank, Deliver(r) PROVE Callers'
    <2> DEFINE m == Head(down[r])
    <2>1. UNCHANGED <<at, call, entered, gone, barrier>>
      BY <1>6 DEF Deliver
    <2>2. IsExit(m) /\ PutIn(Rank, Message, inq, inq', r, m)
      BY <1>6, DeliverEffect
    <2> HIDE DEF m
    <2>3. Quiet
      BY <2>1, <2>2, PutQuiet DEF Quiet
    <2> QED BY <2>3, CallersFrom
  <1>7. ASSUME NEW d \in Client, ClientEnter(d) PROVE Callers'
    <2>1. PutIn(Rank, Message, inq, inq', at[d], Enter(d))
      BY <1>7, Messages, SendEffect DEF ClientEnter
    <2>2. /\ UNCHANGED <<at, gone, barrier>> /\ call[d] = "none"
          /\ call' = [call EXCEPT ![d] = "waiting"] /\ entered' = entered \cup {d}
      BY <1>7 DEF ClientEnter
    <2>3. ASSUME NEW c \in Client, NEW k \in Rank PROVE Caller(c, k)'
      <3>1. Caller(c, k)
        BY <1>0
      <3>2. Leave(c) # Enter(d) /\ (Enter(c) = Enter(d) => c = d)
        BY RequestsDiffer
      <3>3. CASE c # d
        <4>1. call'[c] = call[c]
          BY <1>0, <2>2, <3>3
        <4>2. /\ In(Enter(c), inq'[k]) => In(Enter(c), inq[k])
              /\ In(Leave(c), inq'[k]) => In(Leave(c), inq[k])
              /\ Once(Enter(c), inq[k]) => Once(Enter(c), inq'[k])
          BY <2>1, <3>2, <3>3 DEF PutIn
        <4> QED BY <2>2, <3>1, <4>1, <4>2 DEF Caller
      <3>4. CASE c = d
        <4>1. call'[c] = "waiting" /\ call[c] # "waiting"
          BY <1>0, <2>2, <3>4
        <4>2. ~In(Enter(c), inq[k]) /\ c \notin barrier[k].clients
          BY <3>1, <4>1 DEF Caller
        <4>3. Once(Enter(c), inq[k])
          BY <4>2 DEF In, Once
        <4>4. /\ In(Enter(c), inq'[k]) => k = at[c]
              /\ In(Leave(c), inq'[k]) => In(Leave(c), inq[k])
              /\ Once(Enter(c), inq'[k])
          BY <2>1, <3>2, <3>4, <4>2, <4>3 DEF PutIn
        <4> QED BY <2>2, <3>1, <4>1, <4>2, <4>4 DEF Caller
      <3> QED BY <3>3, <3>4
    <2>4. entered' = {c \in Client : call'[c] # "none"}
      BY <1>0, <2>2
    <2> QED BY <2>3, <2>4 DEF Callers
  <1>8. ASSUME NEW d \in Client, ClientAgain(d) PROVE FALSE
    <2>1. doubles \in Nat /\ doubles' = doubles + 1
      BY <1>8, Typed DEF Typing, ClientAgain
    <2> QED BY SMTT(60), <2>1
  <1>9. ASSUME NEW d \in Client, ClientGone(d) PROVE Callers'
    <2>1. PutIn(Rank, Message, inq, inq', at[d], Leave(d))
      BY <1>9, Messages, SendEffect DEF ClientGone
    <2>2. UNCHANGED <<at, call, entered, barrier>> /\ gone' = gone \cup {d}
      BY <1>9 DEF ClientGone
    <2>3. ASSUME NEW c \in Client, NEW k \in Rank
          PROVE  /\ In(Enter(c), inq'[k]) => In(Enter(c), inq[k])
                 /\ Once(Enter(c), inq[k]) => Once(Enter(c), inq'[k])
                 /\ In(Leave(c), inq'[k]) => In(Leave(c), inq[k]) \/ c \in gone'
      <3>1. Enter(c) # Leave(d) /\ (Leave(c) = Leave(d) => c = d)
        BY RequestsDiffer
      <3> QED BY <2>1, <2>2, <3>1 DEF PutIn
    <2>4. Quiet
      BY <2>2, <2>3 DEF Quiet
    <2> QED BY <2>4, CallersFrom
  <1> QED BY <1>1, <1>2, <1>3, <1>4, <1>5, <1>6, <1>7, <1>8, <1>9 DEF Next, Module

-----------------------------------------------------------------------------
(* Why an exit event is sent.                                              *)

(* Exit events with different errors differ. *)
LEMMA ExitsDiffer == ASSUME NEW e, NEW f, Exit(e) = Exit(f) PROVE e = f
  <1>1. Exit(e).errnum = e /\ Exit(f).errnum = f
    BY Kinds
  <1> QED BY <1>1

(* A step of which every exit event in a queue was in a queue before. *)
Old == \A k \in Rank, e \in {"0", "ECONNABORTED"} :
         In(Exit(e), up'[k]) \/ In(Exit(e), down'[k]) \/ In(Exit(e), inq'[k]) => Sent(e)

(* Only an entry that completes the count and a client that has left give  *)
(* rise to an exit event.                                                  *)
LEMMA SentStep ==
    ASSUME TypeOK, Shape, Callers, Next
    PROVE  \/ \A e \in {"0", "ECONNABORTED"} : Sent(e)' => Sent(e)
           \/ /\ Sent("ECONNABORTED")' => Sent("ECONNABORTED")
              /\ \E r \in Rank : /\ EnterRequest(r)
                                 /\ barrier[r].count + Head(inq[r]).count = NProcs
                                 /\ PutIn(Rank, Message, up, up', r, Exit("0"))
           \/ /\ Sent("0")' => Sent("0")
              /\ \E r \in Rank : DisconnectRequest(r)
  <1>0. \A e \in {"0", "ECONNABORTED"}, k \in Rank :
          In(Exit(e), up[k]) \/ In(Exit(e), down[k]) \/ In(Exit(e), inq[k]) => Sent(e)
    BY DEF Sent
  <1>O. ASSUME Old PROVE \A e \in {"0", "ECONNABORTED"} : Sent(e)' => Sent(e)
    BY <1>O DEF Old, Sent
  <1>1. ASSUME NEW r \in Rank, EnterRequest(r), up' = up PROVE Old
    <2>1. \A k \in Rank, x \in {Exit("0"), Exit("ECONNABORTED")} : In(x, inq'[k]) => In(x, inq[k])
      BY <1>1, EnterEffect DEF Taken
    <2>2. down' = down
      BY <1>1 DEF EnterRequest
    <2> QED BY <1>0, <1>1, <2>1, <2>2 DEF Old
  <1>2. ASSUME NEW r \in Rank, EnterRequest(r), PutIn(Rank, Message, up, up', r, Exit("0"))
        PROVE  Sent("ECONNABORTED")' => Sent("ECONNABORTED")
    <2> DEFINE x == Exit("ECONNABORTED")
    <2>1. \A k \in Rank : In(x, inq'[k]) => In(x, inq[k])
      BY <1>2, EnterEffect DEF Taken
    <2>2. down' = down
      BY <1>2 DEF EnterRequest
    <2>3. x # Exit("0")
      BY ExitsDiffer
    <2> HIDE DEF x
    <2>4. \A k \in Rank : In(x, up'[k]) => In(x, up[k])
      BY <1>2, <2>3 DEF PutIn
    <2> QED BY <2>1, <2>2, <2>4 DEF Sent, x
  <1>3. ASSUME NEW r \in Rank, DisconnectRequest(r) PROVE Sent("0")' => Sent("0")
    <2> DEFINE x == Exit("0")
    <2>1. \A k \in Rank : In(x, inq'[k]) => In(x, inq[k])
      BY <1>3, DisconnectEffect DEF Taken
    <2>2. down' = down
      BY <1>3 DEF DisconnectRequest
    <2>3. x # Exit("ECONNABORTED")
      BY ExitsDiffer
    <2>4. up' = up \/ PutIn(Rank, Message, up, up', r, Exit("ECONNABORTED"))
      BY <1>3, DisconnectEffect
    <2> HIDE DEF x
    <2>5. \A k \in Rank : In(x, up'[k]) => In(x, up[k])
      BY <2>3, <2>4 DEF PutIn
    <2> QED BY <2>1, <2>2, <2>5 DEF Sent, x
  <1>4. ASSUME NEW r \in Rank, ExitEvent(r) PROVE Old
    <2>1. \A k \in Rank : \A x : In(x, inq'[k]) => In(x, inq[k])
      BY <1>4, ExitEffect DEF Taken
    <2>2. up' = up /\ down' = down
      BY <1>4 DEF ExitEvent
    <2> QED BY <1>0, <2>1, <2>2 DEF Old
  <1>5. ASSUME NEW r \in Rank, Timeout(r) PROVE Old
    <2> DEFINE m == EnterUp(barrier[r].count)
    <2>1. up' = up \/ (IsUpward(m) /\ PutIn(Rank, Message, up, up', r, m))
      BY <1>5, TimeoutEffect
    <2>2. inq' = inq /\ down' = down
      BY <1>5 DEF Timeout
    <2> HIDE DEF m
    <2>3. \A e \in {"0", "ECONNABORTED"} : IsUpward(m) => m # Exit(e)
      BY KindOf DEF IsExit
    <2>4. \A k \in Rank, e \in {"0", "ECONNABORTED"} : In(Exit(e), up'[k]) => In(Exit(e), up[k])
      BY <2>1, <2>3 DEF PutIn
    <2> QED BY <1>0, <2>2, <2>4 DEF Old
  <1>6. ASSUME NEW r \in Rank, Route(r) PROVE Old
    <2> DEFINE m == Head(up[r])
    <2>0. In(m, up[r])
      BY <1>6, RouteEffect
    <2>1. CASE /\ Taken(Rank, Message, up, up', r)
               /\ PutIn(Rank, Message, inq, inq', 0, m) /\ Casts(down', 0, m)
      <3> HIDE DEF m
      <3>1. \A k \in Rank : \A x : In(x, up'[k]) => In(x, up[k])
        BY <2>1 DEF Taken
      <3>2. \A k \in Rank : \A x : In(x, inq'[k]) => In(x, inq[k]) \/ x = m
        BY <2>1 DEF PutIn
      <3>3. \A k \in Rank : \A x : In(x, down'[k]) => In(x, down[k]) \/ x = m
        <4>1. ASSUME NEW k \in Rank, NEW x, In(x, down'[k])
              PROVE  In(x, down[k]) \/ x = m
          BY SMTT(60), <2>1, <4>1 DEF Casts
        <4> QED BY <4>1
      <3> QED BY <1>0, <2>0, <3>1, <3>2, <3>3 DEF Old
    <2>2. ASSUME NEW u, UNCHANGED <<inq, down>>,
                 Taken(Rank, Message, up, u, r), PutIn(Rank, Message, u, up', Parent[r], m)
          PROVE  Old
      <3> HIDE DEF m
      <3>1. \A k \in Rank : \A x : In(x, u[k]) => In(x, up[k])
        BY <2>2 DEF Taken
      <3>2. \A k \in Rank : \A x : In(x, up'[k]) => In(x, u[k]) \/ x = m
        BY <2>2 DEF PutIn
      <3> QED BY <1>0, <2>0, <2>2, <3>1, <3>2 DEF Old
    <2>3. CASE /\ UNCHANGED down /\ Taken(Rank, Message, up, up', r)
               /\ PutIn(Rank, Message, inq, inq', Parent[r], m)
      <3> HIDE DEF m
      <3>1. \A k \in Rank : \A x : In(x, up'[k]) => In(x, up[k])
        BY <2>3 DEF Taken
      <3>2. \A k \in Rank : \A x : In(x, inq'[k]) => In(x, inq[k]) \/ x = m
        BY <2>3 DEF PutIn
      <3> QED BY <1>0, <2>0, <2>3, <3>1, <3>2 DEF Old
    <2> QED BY <1>6, <2>1, <2>2, <2>3, RouteEffect
  <1>7. ASSUME NEW r \in Rank, Deliver(r) PROVE Old
    <2> DEFINE m == Head(down[r])
    <2>1. In(m, down[r]) /\ PutIn(Rank, Message, inq, inq', r, m) /\ Casts(down', r, m)
      BY <1>7, DeliverEffect
    <2>2. up' = up
      BY <1>7 DEF Deliver
    <2> HIDE DEF m
    <2>3. \A k \in Rank : \A x : In(x, inq'[k]) => In(x, inq[k]) \/ x = m
      BY <2>1 DEF PutIn
    <2>4. \A k \in Rank : \A x : In(x, down'[k]) => In(x, down[k]) \/ x = m
      <3>1. ASSUME NEW k \in Rank, NEW x, In(x, down'[k])
            PROVE  In(x, down[k]) \/ x = m
        BY SMTT(60), <2>1, <3>1 DEF Casts
      <3> QED BY <3>1
    <2> QED BY <1>0, <2>1, <2>2, <2>3, <2>4 DEF Old
  <1>8. ASSUME NEW c \in Client, NEW m \in {Enter(c), Leave(c)}, Send(c, m), UNCHANGED <<up, down>>
        PROVE  Old
    <2>1. m \in Message
      BY Messages
    <2>2. PutIn(Rank, Message, inq, inq', at[c], m)
      BY <1>8, <2>1, SendEffect
    <2>3. \A e \in {"0", "ECONNABORTED"} : m # Exit(e)
      BY NotSent DEF IsExit
    <2>4. \A k \in Rank, e \in {"0", "ECONNABORTED"} : In(Exit(e), inq'[k]) => In(Exit(e), inq[k])
      BY <2>2, <2>3 DEF PutIn
    <2> QED BY <1>0, <1>8, <2>4 DEF Old
  <1>9. ASSUME NEW c \in Client, ClientEnter(c) \/ ClientAgain(c) \/ ClientGone(c) PROVE Old
    BY <1>8, <1>9 DEF ClientEnter, ClientAgain, ClientGone
  <1>10. CASE \E r \in Rank : EnterRequest(r)
    <2>1. PICK r \in Rank : EnterRequest(r)
      BY <1>10
    <2>2. CASE barrier[r].count + Head(inq[r]).count = NProcs
      <3>1. PutIn(Rank, Message, up, up', r, Exit("0"))
        BY <2>1, <2>2, SingleEnter
      <3> QED BY <1>2, <2>1, <2>2, <3>1
    <2>3. CASE barrier[r].count + Head(inq[r]).count # NProcs
      <3>1. up' = up
        BY <2>1, <2>3, SingleEnter
      <3> QED BY <1>O, <1>1, <2>1, <3>1
    <2> QED BY <2>2, <2>3
  <1>11. CASE \E r \in Rank : DisconnectRequest(r)
    BY <1>3, <1>11
  <1>12. CASE ~(\E r \in Rank : EnterRequest(r)) /\ ~(\E r \in Rank : DisconnectRequest(r))
    <2>1. Old
      BY <1>4, <1>5, <1>6, <1>7, <1>9, <1>12 DEF Next, Module
    <2> QED BY <1>O, <2>1
  <1> QED BY <1>10, <1>11, <1>12

(* Clients that have gone do not come back. *)
LEMMA GoneStays == Next => gone \subseteq gone'
  BY DEF Next, Module, EnterRequest, DisconnectRequest, ExitEvent, Timeout, Route, Deliver,
         ClientEnter, ClientAgain, ClientGone

-----------------------------------------------------------------------------
(* The exit event reaches someone.                                         *)

(* The ranks above r: r itself, those above each of them, and the root. *)
LEMMA AboveSelf ==
    ASSUME NEW r \in Rank
    PROVE  /\ r \in Above(r) /\ Above(r) \subseteq Rank
           /\ \A k \in Above(r) \ {0} : Parent[k] \in Above(r)
  <1>1. \A k \in Rank \ {0} : Parent[k] \in Rank
    BY BarrierAssumption
  <1> QED BY <1>1 DEF Above

LEMMA AboveNext ==
    ASSUME NEW r \in Rank, NEW a \in Above(r), a # r
    PROVE  \E k \in Child(a) : k \in Above(r)
  <1> SUFFICES ASSUME \A k \in Child(a) : k \notin Above(r) PROVE FALSE
    OBVIOUS
  <1> DEFINE S == Above(r) \ {a}
  <1>1. S \in SUBSET Rank /\ r \in S
    BY AboveSelf
  <1>2. ASSUME NEW k \in S \ {0} PROVE Parent[k] \in S
    <2>1. Parent[k] \in Above(r) /\ k \in Rank
      BY AboveSelf
    <2>2. k \notin Child(a)
      OBVIOUS
    <2>3. Parent[k] # a
      BY <2>1, <2>2 DEF Child
    <2> QED BY <2>1, <2>3
  <1>3. a \in S
    <2> HIDE DEF S
    <2> QED BY <1>1, <1>2 DEF Above
  <1> QED BY <1>3

(* What is on its way to r still is: no exit event is lost, and the way up *)
(* to the root and down again is not left.                                 *)
Onward(r) ==
    /\ \A k \in Rank : In(Exit("0"), up[k]) => In(Exit("0"), up'[k]) \/ Coming(r)'
    /\ In(Exit("0"), inq[r]) => In(Exit("0"), inq'[r]) \/ Coming(r)'
    /\ \A k \in Above(r) : In(Exit("0"), down[k]) => In(Exit("0"), down'[k]) \/ Coming(r)'
LEMMA OnwardComing == ASSUME NEW r \in Rank, Coming(r), Onward(r) PROVE Coming(r)'
  <1>1. ASSUME NEW k \in Rank, In(Exit("0"), up[k]) PROVE Coming(r)'
    BY <1>1 DEF Onward, Coming
  <1>2. ASSUME In(Exit("0"), inq[r]) PROVE Coming(r)'
    BY <1>2 DEF Onward, Coming
  <1>3. ASSUME NEW a \in Above(r), In(Exit("0"), down[a]) PROVE Coming(r)'
    <2>1. In(Exit("0"), down'[a]) => Coming(r)'
      BY DEF Coming, Above
    <2> QED BY <1>3, <2>1 DEF Onward
  <1> QED BY <1>1, <1>2, <1>3 DEF Coming

(* An event that is passed on from a rank above r is to come to r. *)
LEMMA CastComing ==
    ASSUME NEW r \in Rank, NEW a \in Above(r), a = r => In(Exit("0"), inq'[r]),
           \A k \in Child(a) : In(Exit("0"), down'[k])
    PROVE  Coming(r)'
  <1>1. CASE a = r
    BY <1>1 DEF Coming
  <1>2. CASE a # r
    <2>1. PICK k \in Child(a) : k \in Above(r)
      BY <1>2, AboveNext
    <2>2. In(Exit("0"), down'[k])
      BY <2>1
    <2> QED BY <2>1, <2>2 DEF Coming, Above
  <1> QED BY <1>1, <1>2

(* A client in a barrier that the exit event is to come to stays in it and *)
(* the event is still to come, until it is answered.                       *)
LEMMA ComingStep ==
    ASSUME TypeOK, Shape, Callers, Next, doubles' = 0, gone = {},
           NEW c \in Client, NEW a \in Rank, 0 \in Above(a), c \in barrier[a].clients, Coming(a)
    PROVE  Answered' \/ (c \in barrier'[a].clients /\ Coming(a)')
  <1> DEFINE X == Exit("0")
  <1>0. barrier \in [Rank -> Entry]
    BY Typed DEF Typing
  <1>X. IsExit(X)
    BY DEF IsExit
  <1>D. X = Exit("0")
    OBVIOUS
  <1> HIDE DEF X
  <1>F. Onward(a) <=>
          /\ \A k \in Rank : In(X, up[k]) => In(X, up'[k]) \/ Coming(a)'
          /\ In(X, inq[a]) => In(X, inq'[a]) \/ Coming(a)'
          /\ \A k \in Above(a) : In(X, down[k]) => In(X, down'[k]) \/ Coming(a)'
    BY <1>D DEF Onward
  <1>G. \A k \in Rank : In(X, up'[k]) => Coming(a)'
    BY <1>D DEF Coming
  <1>S. Onward(a) => Coming(a)'
    BY <1>0, <1>D, OnwardComing
  <1>A. Above(a) \subseteq Rank
    BY <1>0, AboveSelf
  <1>1. ASSUME NEW r \in Rank, EnterRequest(r) PROVE c \in barrier'[a].clients /\ Coming(a)'
    <2>1. c \in barrier'[a].clients
      <3>1. /\ barrier'[r].clients = barrier[r].clients \cup Head(inq[r]).from
            /\ \A k \in Rank : k # r => barrier'[k] = barrier[k]
        BY <1>1, SingleEnter
      <3> QED BY <1>0, <3>1
    <2>2. Head(inq[r]) # X
      BY <1>1, <1>X, KindOf DEF EnterRequest
    <2>3. In(X, inq[a]) => In(X, inq'[a])
      BY <1>0, <1>1, <2>2, EnterEffect DEF Taken
    <2>4. up' = up \/ PutIn(Rank, Message, up, up', r, Exit("0"))
      BY <1>1, SingleEnter
    <2>5. \A k \in Rank : In(X, up[k]) => In(X, up'[k])
      BY <2>4 DEF PutIn
    <2>6. down' = down
      BY <1>1 DEF EnterRequest
    <2> QED BY <1>F, <1>S, <2>1, <2>3, <2>5, <2>6
  <1>2. ASSUME NEW r \in Rank, DisconnectRequest(r) PROVE c \in barrier'[a].clients /\ Coming(a)'
    <2>1. barrier' = barrier /\ down' = down
      BY <1>2 DEF DisconnectRequest
    <2>2. Head(inq[r]) # X
      BY <1>2, <1>X, KindOf DEF DisconnectRequest
    <2>3. In(X, inq[a]) => In(X, inq'[a])
      BY <1>0, <1>2, <2>2, DisconnectEffect DEF Taken
    <2>4. up' = up \/ PutIn(Rank, Message, up, up', r, Exit("ECONNABORTED"))
      BY <1>2, DisconnectEffect
    <2>5. \A k \in Rank : In(X, up[k]) => In(X, up'[k])
      BY <2>4 DEF PutIn
    <2> QED BY <1>0, <1>F, <1>S, <2>1, <2>3, <2>5
  <1>3. ASSUME NEW r \in Rank, ExitEvent(r)
        PROVE  Answered' \/ (c \in barrier'[a].clients /\ Coming(a)')
    <2> DEFINE e == Head(inq[r]).errnum
    <2>1. CASE r = a
      <3>1. e \in {"0", "ECONNABORTED"}
        <4>1. PICK x \in {"0", "ECONNABORTED"} : Head(inq[r]) = Exit(x)
          BY <1>3, ExitEffect
        <4>2. Exit(x).errnum = x
          BY Kinds
        <4> QED BY <4>1, <4>2
      <3>2. call' = Ended(barrier[r], e)
        BY <1>3 DEF ExitEvent
      <3> HIDE DEF e
      <3>3. call'[c] = e
        BY <1>0, <2>1, <3>2 DEF Ended
      <3> QED BY <3>1, <3>3 DEF Answered
    <2>2. CASE r # a
      <3>1. c \in barrier'[a].clients
        BY <1>0, <1>3, <2>2 DEF ExitEvent
      <3>2. In(X, inq[a]) => In(X, inq'[a])
        BY <1>0, <1>3, <2>2, ExitEffect DEF Taken
      <3>3. up' = up /\ down' = down
        BY <1>3 DEF ExitEvent
      <3> QED BY <1>F, <1>S, <3>1, <3>2, <3>3
    <2> QED BY <2>1, <2>2
  <1>4. ASSUME NEW r \in Rank, Timeout(r) PROVE c \in barrier'[a].clients /\ Coming(a)'
    <2>1. barrier' = [barrier EXCEPT ![r] = [barrier[r] EXCEPT !.count = 0]]
      BY <1>4 DEF Timeout, Forwarded
    <2>2. c \in barrier'[a].clients
      BY <1>0, <2>1 DEF Entry
    <2>3. up' = up \/ PutIn(Rank, Message, up, up', r, EnterUp(barrier[r].count))
      BY <1>4, TimeoutEffect
    <2>4. \A k \in Rank : In(X, up[k]) => In(X, up'[k])
      BY <2>3 DEF PutIn
    <2>5. inq' = inq /\ down' = down
      BY <1>4 DEF Timeout
    <2> QED BY <1>F, <1>S, <2>2, <2>4, <2>5
  <1>5. ASSUME NEW r \in Rank, Route(r) PROVE c \in barrier'[a].clients /\ Coming(a)'
    <2> DEFINE m == Head(up[r])
    <2>0. barrier' = barrier
      BY <1>5 DEF Route
    <2>1. ASSUME r = 0, Taken(Rank, Message, up, up', r),
                 PutIn(Rank, Message, inq, inq', 0, m), Casts(down', 0, m)
          PROVE  Coming(a)'
      <3> HIDE DEF m
      <3>1. CASE m = X
        <4>1. a = 0 => In(X, inq'[a])
          BY <1>0, <2>1, <3>1 DEF PutIn
        <4>2. \A k \in Child(0) : In(X, down'[k])
          BY <2>1, <3>1 DEF Casts, Child
        <4> QED BY <1>0, <1>D, <4>1, <4>2, CastComing
      <3>2. CASE m # X
        <4>1. \A k \in Rank : In(X, up[k]) => In(X, up'[k])
          BY <2>1, <3>2 DEF Taken, m
        <4>2. In(X, inq[a]) => In(X, inq'[a])
          BY <1>0, <2>1 DEF PutIn
        <4>3. \A k \in Rank : In(X, down[k]) => In(X, down'[k])
          BY SMTT(60), <2>1, <3>2 DEF Casts
        <4> QED BY <1>A, <1>F, <1>S, <4>1, <4>2, <4>3
      <3> QED BY <3>1, <3>2
    <2>2. ASSUME NEW u, UNCHANGED <<inq, down>>, Parent[r] \in Rank,
                 Taken(Rank, Message, up, u, r), PutIn(Rank, Message, u, up', Parent[r], m)
          PROVE  Coming(a)'
      <3>1. \A k \in Rank : In(X, up[k]) => In(X, u[k]) \/ X = m
        BY <2>2 DEF Taken
      <3> HIDE DEF m
      <3>2. \A k \in Rank : In(X, u[k]) => In(X, up'[k])
        BY <2>2 DEF PutIn
      <3>3. X = m => In(X, up'[Parent[r]])
        BY <2>2 DEF PutIn
      <3> QED BY <1>F, <1>G, <1>S, <2>2, <3>1, <3>2, <3>3
    <2>3. ASSUME UNCHANGED down, Taken(Rank, Message, up, up', r), IsUpward(m),
                 PutIn(Rank, Message, inq, inq', Parent[r], m)
          PROVE  Coming(a)'
      <3>1. X # m
        BY <1>X, <2>3, KindOf
      <3>2. \A k \in Rank : In(X, up[k]) => In(X, up'[k])
        BY <2>3, <3>1 DEF Taken
      <3> HIDE DEF m
      <3>3. In(X, inq[a]) => In(X, inq'[a])
        BY <1>0, <2>3 DEF PutIn
      <3> QED BY <1>F, <1>S, <2>3, <3>2, <3>3
    <2>4. Coming(a)'
      BY <1>5, <2>1, <2>2, <2>3, RouteEffect
    <2> QED BY <1>0, <2>0, <2>4
  <1>6. ASSUME NEW r \in Rank, Deliver(r) PROVE c \in barrier'[a].clients /\ Coming(a)'
    <2> DEFINE m == Head(down[r])
    <2>1. PutIn(Rank, Message, inq, inq', r, m) /\ Casts(down', r, m)
      BY <1>6, DeliverEffect
    <2>2. barrier' = barrier /\ up' = up
      BY <1>6 DEF Deliver
    <2> HIDE DEF m
    <2>3. In(X, inq[a]) => In(X, inq'[a])
      BY <1>0, <2>1 DEF PutIn
    <2>4. ASSUME NEW k \in Above(a), In(X, down[k]) PROVE In(X, down'[k]) \/ Coming(a)'
      <3>1. CASE k = r /\ m = X
        <4>1. k = a => In(X, inq'[a])
          BY <1>0, <2>1, <3>1 DEF PutIn
        <4>2. \A j \in Child(k) : In(X, down'[j])
          BY <2>1, <3>1 DEF Casts, Child
        <4> QED BY <1>0, <1>D, <4>1, <4>2, CastComing
      <3>2. CASE ~(k = r /\ m = X)
        BY SMTT(60), <1>A, <2>1, <2>4, <3>2 DEF Casts
      <3> QED BY <3>1, <3>2
    <2>5. Coming(a)'
      BY <1>F, <1>S, <2>2, <2>3, <2>4
    <2> QED BY <1>0, <2>2, <2>5
  <1>7. ASSUME NEW d \in Client, NEW m \in Message, Send(d, m), UNCHANGED <<barrier, up, down>>
        PROVE  c \in barrier'[a].clients /\ Coming(a)'
    <2>1. PutIn(Rank, Message, inq, inq', at[d], m)
      BY <1>7, SendEffect
    <2>2. In(X, inq[a]) => In(X, inq'[a])
      BY <1>0, <2>1 DEF PutIn
    <2>3. Coming(a)'
      BY <1>7, <1>F, <1>S, <2>2
    <2> QED BY <1>0, <1>7, <2>3
  <1>8. ASSUME NEW d \in Client, ClientEnter(d) \/ ClientAgain(d) \/ ClientGone(d)
        PROVE  c \in barrier'[a].clients /\ Coming(a)'
    BY <1>7, <1>8, Messages DEF ClientEnter, ClientAgain, ClientGone
  <1> QED BY <1>1, <1>2, <1>3, <1>4, <1>5, <1>6, <1>8 DEF Next, Module

-----------------------------------------------------------------------------
(* Before and after the exit event.                                        *)

(* The exit event has been sent if it is in a queue or has been answered. *)
LEMMA ExitSentIs ==
    Shape => (ExitSent <=> Sent("0") \/ Sent("ECONNABORTED") \/ Answered)
  <1> SUFFICES ASSUME Shape PROVE ExitSent <=> Sent("0") \/ Sent("ECONNABORTED") \/ Answered
    OBVIOUS
  <1>1. ASSUME NEW k \in Rank, NEW m, In(m, up[k]) \/ In(m, down[k]) \/ In(m, inq[k])
        PROVE  m.type = "exit" <=> IsExit(m)
    <2>1. IsExit(m) \/ IsUpward(m) \/ IsClients(m)
      BY <1>1 DEF Shape
    <2> QED BY <2>1, KindOf
  <1>2. \A q : (\E i \in DOMAIN q : q[i].type = "exit") <=> \E m : In(m, q) /\ m.type = "exit"
    BY DEF In
  <1>3. ExitSent <=> \/ \E k \in Rank : \E m : /\ m.type = "exit"
                                               /\ In(m, up[k]) \/ In(m, down[k]) \/ In(m, inq[k])
                     \/ Answered
    BY <1>2 DEF ExitSent, Answered
  <1>4. (Sent("0") \/ Sent("ECONNABORTED")) <=>
          \E k \in Rank : \E m : IsExit(m) /\ (In(m, up[k]) \/ In(m, down[k]) \/ In(m, inq[k]))
    BY DEF Sent, IsExit
  <1> QED BY <1>1, <1>3, <1>4
LEMMA ExitSentIsAfter ==
    (Shape => (ExitSent <=> Sent("0") \/ Sent("ECONNABORTED") \/ Answered))'
  BY ExitSentIs, PTL

(* An answer is not taken back. *)
LEMMA AnsweredStays == TypeOK /\ Callers /\ Next /\ Answered => Answered'
  <1> SUFFICES ASSUME TypeOK, Callers, Next, Answered PROVE Answered'
    OBVIOUS
  <1>1. PICK c \in Client : call[c] \in {"0", "ECONNABORTED"}
    BY DEF Answered
  <1>2. call \in [Client -> {"none", "waiting", "0", "ECONNABORTED"}]
    BY Typed DEF Typing
  <1>3. ASSUME NEW r \in Rank, ExitEvent(r) PROVE call'[c] = call[c]
    <2>1. c \notin barrier[r].clients
      BY <1>1 DEF Callers, Caller
    <2> QED BY <1>3, <2>1 DEF ExitEvent, Ended
  <1>4. ASSUME NEW d \in Client, ClientEnter(d) PROVE call'[c] = call[c]
    <2>1. d # c
      BY <1>1, <1>4 DEF ClientEnter
    <2> QED BY <1>2, <1>4, <2>1 DEF ClientEnter
  <1>5. call'[c] = call[c]
    BY <1>3, <1>4 DEF Next, Module, EnterRequest, DisconnectRequest, Timeout, Route, Deliver,
                      ClientAgain, ClientGone
  <1> QED BY <1>1, <1>5 DEF Answered

(* Clients stay in the barrier of their rank until the exit event. *)
LEMMA SomeoneStays ==
    ASSUME TypeOK, Shape, Callers, Next, \A r \in Rank : ~ExitEvent(r), Someone
    PROVE  Someone'
  <1>1. PICK c \in Client : c \in barrier[at[c]].clients
    BY DEF Someone
  <1>2. at[c] \in Rank /\ barrier \in [Rank -> Entry]
    BY Typed DEF Typing
  <1>3. at' = at
    BY DEF Next, Module, EnterRequest, DisconnectRequest, ExitEvent, Timeout, Route, Deliver,
           ClientEnter, ClientAgain, ClientGone
  <1>4. ASSUME NEW r \in Rank, EnterRequest(r) PROVE c \in barrier'[at[c]].clients
    <2>1. /\ barrier'[r].clients = barrier[r].clients \cup Head(inq[r]).from
          /\ \A k \in Rank : k # r => barrier'[k] = barrier[k]
      BY <1>4, SingleEnter
    <2> QED BY <1>1, <1>2, <2>1
  <1>5. ASSUME NEW r \in Rank, Timeout(r) PROVE c \in barrier'[at[c]].clients
    <2>1. barrier' = [barrier EXCEPT ![r] = [barrier[r] EXCEPT !.count = 0]]
      BY <1>5 DEF Timeout, Forwarded
    <2> QED BY <1>1, <1>2, <2>1 DEF Entry
  <1>6. c \in barrier'[at[c]].clients
    <2>1. \/ \E r \in Rank : EnterRequest(r) \/ Timeout(r)
          \/ barrier' = barrier
      BY DEF Next, Module, DisconnectRequest, Route, Deliver, ClientEnter, ClientAgain, ClientGone
    <2> QED BY <1>1, <1>4, <1>5, <2>1
  <1> QED BY <1>3, <1>6 DEF Someone

(* The client whose entry is handled is in the barrier of its rank; a      *)
(* count from below was there before.                                      *)
LEMMA EnterSomeone ==
    ASSUME TypeOK, Shape, Callers, NEW r \in Rank, EnterRequest(r)
    PROVE  Passed \/ Someone'
  <1> DEFINE m == Head(inq[r])
  <1>1. In(m, inq[r])
    BY EnterEffect
  <1>2. ASSUME NEW d \in Client, m = Enter(d) PROVE Someone'
    <2>1. Caller(d, r)
      BY DEF Callers
    <2>2. r = at[d]
      BY <1>1, <1>2, <2>1 DEF Caller
    <2>3. barrier'[r].clients = barrier[r].clients \cup m.from
      BY SingleEnter
    <2>4. Enter(d).from = {d}
      BY Kinds
    <2>5. at' = at
      BY DEF EnterRequest
    <2> HIDE DEF m
    <2> QED BY <1>2, <2>2, <2>3, <2>4, <2>5 DEF Someone
  <1>3. IsUpward(m) => Passed
    BY <1>1 DEF Passed
  <1> QED BY <1>2, <1>3, EnterEffect

(* A step with no count from below that was not there. *)
Nothing ==
    \A k \in Rank : /\ barrier'[k].count > 0 => barrier[k].count > 0
                    /\ \A x : IsUpward(x) => /\ In(x, inq'[k]) => In(x, inq[k])
                                             /\ In(x, up'[k]) => In(x, up[k])
LEMMA NothingPassed == ASSUME Nothing, Passed' PROVE Passed
  <1>1. PICK k \in Rank : \/ barrier'[k].count > 0
                          \/ \E m : IsUpward(m) /\ (In(m, inq'[k]) \/ In(m, up'[k]))
    BY DEF Passed
  <1>2. \/ barrier[k].count > 0
        \/ \E m : IsUpward(m) /\ (In(m, inq[k]) \/ In(m, up[k]))
    BY <1>1 DEF Nothing
  <1> QED BY <1>2 DEF Passed

(* What is passed on was counted before, or a client has just entered. *)
LEMMA PassedStep ==
    ASSUME TypeOK, Shape, Callers, Next, \A r \in Rank : ~ExitEvent(r), Passed'
    PROVE  Passed \/ Someone'
  <1>0. /\ \A e \in {"0", "ECONNABORTED"} : ~IsUpward(Exit(e))
        /\ \A c \in Client : ~IsUpward(Enter(c)) /\ ~IsUpward(Leave(c))
    <2>1. \A e \in {"0", "ECONNABORTED"} : IsExit(Exit(e))
      BY DEF IsExit
    <2>2. \A c \in Client : IsClients(Enter(c)) /\ IsClients(Leave(c))
      BY DEF IsClients
    <2> QED BY <2>1, <2>2, KindOf
  <1>N. \A k \in Rank : barrier[k] \in Entry /\ barrier[k].count \in Nat
    BY Typed DEF Typing, Entry
  <1>2. ASSUME NEW r \in Rank, DisconnectRequest(r) PROVE Nothing
    <2>1. barrier' = barrier
      BY <1>2 DEF DisconnectRequest
    <2>2. \A k \in Rank : \A x : In(x, inq'[k]) => In(x, inq[k])
      BY <1>2, DisconnectEffect DEF Taken
    <2>3. up' = up \/ PutIn(Rank, Message, up, up', r, Exit("ECONNABORTED"))
      BY <1>2, DisconnectEffect
    <2>4. \A k \in Rank : \A x : IsUpward(x) /\ In(x, up'[k]) => In(x, up[k])
      BY <1>0, <2>3 DEF PutIn
    <2> QED BY <2>1, <2>2, <2>4 DEF Nothing
  <1>3. ASSUME NEW r \in Rank, Timeout(r) PROVE Passed \/ Nothing
    <2>1. CASE barrier[r].count # 0
      <3>1. barrier[r].count > 0
        BY SMTT(60), <1>N, <2>1
      <3> QED BY <3>1 DEF Passed
    <2>2. CASE barrier[r].count = 0
      <3>1. up' = up
        BY <1>3, <2>2, TimeoutEffect
      <3>2. inq' = inq
        BY <1>3 DEF Timeout
      <3>3. barrier' = [barrier EXCEPT ![r] = [barrier[r] EXCEPT !.count = 0]]
        BY <1>3 DEF Timeout, Forwarded
      <3>4. \A k \in Rank : barrier'[k].count = barrier[k].count
        BY <1>N, <2>2, <3>3, Typed DEF Typing, Entry
      <3> QED BY <3>1, <3>2, <3>4 DEF Nothing
    <2> QED BY <2>1, <2>2
  <1>4. ASSUME NEW r \in Rank, Route(r) PROVE Passed \/ Nothing
    <2> DEFINE m == Head(up[r])
    <2>0. barrier' = barrier /\ In(m, up[r])
      BY <1>4, RouteEffect DEF Route
    <2>1. CASE IsUpward(m)
      BY <2>0, <2>1 DEF Passed
    <2>2. CASE ~IsUpward(m)
      <3>1. ASSUME Taken(Rank, Message, up, up', r), PutIn(Rank, Message, inq, inq', 0, m)
            PROVE  Nothing
        <4>1. \A k \in Rank : \A x : In(x, up'[k]) => In(x, up[k])
          BY <3>1 DEF Taken
        <4> HIDE DEF m
        <4>2. \A k \in Rank : \A x : IsUpward(x) /\ In(x, inq'[k]) => In(x, inq[k])
          BY <2>2, <3>1 DEF PutIn
        <4> QED BY <2>0, <4>1, <4>2 DEF Nothing
      <3>2. ASSUME NEW u, inq' = inq, Taken(Rank, Message, up, u, r),
                   PutIn(Rank, Message, u, up', Parent[r], m)
            PROVE  Nothing
        <4>1. \A k \in Rank : \A x : In(x, u[k]) => In(x, up[k])
          BY <3>2 DEF Taken
        <4> HIDE DEF m
        <4>2. \A k \in Rank : \A x : IsUpward(x) /\ In(x, up'[k]) => In(x, u[k])
          BY <2>2, <3>2 DEF PutIn
        <4> QED BY <2>0, <3>2, <4>1, <4>2 DEF Nothing
      <3> QED BY <1>4, <2>2, <3>1, <3>2, RouteEffect
    <2> QED BY <2>1, <2>2
  <1>5. ASSUME NEW r \in Rank, Deliver(r) PROVE Nothing
    <2> DEFINE m == Head(down[r])
    <2>1. PutIn(Rank, Message, inq, inq', r, m) /\ IsExit(m)
      BY <1>5, DeliverEffect
    <2>2. barrier' = barrier /\ up' = up
      BY <1>5 DEF Deliver
    <2> HIDE DEF m
    <2>3. ~IsUpward(m)
      BY <2>1, KindOf
    <2>4. \A k \in Rank : \A x : IsUpward(x) /\ In(x, inq'[k]) => In(x, inq[k])
      BY <2>1, <2>3 DEF PutIn
    <2> QED BY <2>2, <2>4 DEF Nothing
  <1>6. ASSUME NEW c \in Client, NEW m \in {Enter(c), Leave(c)}, Send(c, m),
               UNCHANGED <<barrier, up>>
        PROVE  Nothing
    <2>1. m \in Message /\ ~IsUpward(m)
      BY <1>0, Messages
    <2>2. PutIn(Rank, Message, inq, inq', at[c], m)
      BY <1>6, <2>1, SendEffect
    <2>3. \A k \in Rank : \A x : IsUpward(x) /\ In(x, inq'[k]) => In(x, inq[k])
      BY <2>1, <2>2 DEF PutIn
    <2> QED BY <1>6, <2>3 DEF Nothing
  <1>7. ASSUME NEW c \in Client, ClientEnter(c) \/ ClientAgain(c) \/ ClientGone(c) PROVE Nothing
    BY <1>6, <1>7 DEF ClientEnter, ClientAgain, ClientGone
  <1>8. Passed \/ Someone' \/ Nothing
    BY <1>2, <1>3, <1>4, <1>5, <1>7, EnterSomeone DEF Next, Module
  <1> QED BY <1>8, NothingPassed

(* Without a fault the exit event reaches someone; and as long as it has   *)
(* not been sent, a count that was passed on has left a client behind.     *)
LEMMA LateStep ==
    ASSUME TypeOK, TypeOK', Shape, Shape', Callers, Bound, Bound', Early, Late, Next,
           doubles' = 0, gone' = {}, \A r \in Rank : 0 \in Above(r)
    PROVE  /\ Late' /\ (ExitSent => ExitSent')
           /\ ~ExitSent' => (\A k \in Rank : ~ExitEvent(k)) /\ (Passed' => Someone')
  <1>0. gone = {}
    BY GoneStays
  <1>1. /\ ~Sent("ECONNABORTED") /\ ~Sent("ECONNABORTED")'
        /\ ExitSent <=> Sent("0") \/ Answered
        /\ ExitSent' <=> Sent("0")' \/ Answered'
    <2>1. ~Sent("ECONNABORTED") /\ ~Sent("ECONNABORTED")'
      BY <1>0 DEF Bound
    <2> QED BY <2>1, ExitSentIs, ExitSentIsAfter
  <1>2. at' = at /\ at \in [Client -> Rank]
    BY Typed DEF Next, Module, EnterRequest, DisconnectRequest, ExitEvent, Timeout, Route, Deliver,
           ClientEnter, ClientAgain, ClientGone
  <1>3. ASSUME Sent("0"), ~Answered
        PROVE  \/ Answered'
               \/ /\ Sent("0")'
                  /\ \E c \in Client : c \in barrier'[at'[c]].clients /\ Coming(at[c])'
    <2>1. PICK c \in Client : c \in barrier[at[c]].clients /\ Coming(at[c])
      BY <1>3 DEF Late
    <2>2. PICK a \in Rank : a = at[c]
      BY <1>2
    <2>3. c \in barrier[a].clients /\ Coming(a)
      BY <2>1, <2>2
    <2>4. Answered' \/ (c \in barrier'[a].clients /\ Coming(a)')
      BY <1>0, <2>3, ComingStep
    <2>5. Coming(a)' => Sent("0")'
      BY AboveSelf DEF Coming, Sent, Above
    <2>6. at'[c] = a
      BY <1>2, <2>2
    <2>7. Coming(a)' => Coming(at[c])'
      BY <2>6 DEF Coming, Above
    <2> QED BY <2>4, <2>5, <2>6, <2>7
  <1>4. ExitSent => ExitSent'
    BY <1>1, <1>3, AnsweredStays
  <1>5. Late'
    <2> SUFFICES ASSUME Sent("0")', ~Answered'
                 PROVE  \E c \in Client : c \in barrier'[at'[c]].clients /\ Coming(at[c])'
      BY DEF Late
    <2>1. ~Answered
      BY AnsweredStays
    <2>2. CASE Sent("0")
      BY <1>3, <2>1, <2>2
    <2>3. CASE ~Sent("0")
      <3>1. PICK r \in Rank : EnterRequest(r) /\ PutIn(Rank, Message, up, up', r, Exit("0"))
        BY <2>3, SentStep
      <3>2. In(Exit("0"), up'[r])
        BY <3>1 DEF PutIn
      <3>3. \A c \in Client : Coming(at[c])'
        BY <3>2 DEF Coming
      <3>4. Someone'
        <4>1. ~ExitSent
          BY <1>1, <2>1, <2>3
        <4>2. Passed => Someone
          BY <4>1 DEF Early
        <4>3. \A k \in Rank : ~ExitEvent(k)
          <5> SUFFICES ASSUME NEW k \in Rank, ExitEvent(k) PROVE FALSE
            OBVIOUS
          <5>1. PICK e \in {"0", "ECONNABORTED"} : In(Exit(e), inq[k])
            BY ExitEffect
          <5>2. Sent(e)
            BY <5>1 DEF Sent
          <5> QED BY <1>1, <2>3, <5>2
        <4> QED BY <3>1, <4>2, <4>3, EnterSomeone, SomeoneStays
      <3> QED BY <3>3, <3>4 DEF Someone
    <2> QED BY <2>2, <2>3
  <1>6. ASSUME ~ExitSent'
        PROVE  (\A k \in Rank : ~ExitEvent(k)) /\ (Passed' => Someone')
    <2>1. ~ExitSent /\ ~Sent("0")
      BY <1>1, <1>4, <1>6
    <2>2. Passed => Someone
      BY <2>1 DEF Early
    <2>3. ASSUME NEW k \in Rank, ExitEvent(k) PROVE FALSE
      <3>1. PICK e \in {"0", "ECONNABORTED"} : In(Exit(e), inq[k])
        BY <2>3, ExitEffect
      <3>2. Sent(e)
        BY <3>1 DEF Sent
      <3> QED BY <1>1, <2>1, <3>2
    <2>4. Passed' => Someone'
      BY <2>2, <2>3, PassedStep, SomeoneStays
    <2> QED BY <2>3, <2>4
  <1> QED BY <1>4, <1>5, <1>6

(* Stuttering keeps the invariant. *)
LEMMA InvStutter == Inv /\ UNCHANGED vars => Inv'
  <1> SUFFICES ASSUME Inv, UNCHANGED vars PROVE Inv'
    OBVIOUS
  <1> USE DEF vars
  <1>1. TypeOK' = TypeOK /\ Shape' = Shape
    BY DEF TypeOK, Shape
  <1>2. Callers' = Callers
    BY DEF Callers, Caller
  <1>3. Load' = Load
    BY DEF Load
  <1>4. Bound' = Bound
    BY <1>3 DEF Bound, Sent
  <1>5. Early' = Early
    BY <1>3 DEF Early, ExitSent, Passed, Someone
  <1>6. Late' = Late
    BY DEF Late, Sent, Answered, Coming, Above
  <1> QED BY <1>1, <1>2, <1>4, <1>5, <1>6 DEF Inv

(* Second calls are not taken back. *)
LEMMA DoublesStay == TypeOK /\ Next /\ doubles' = 0 => doubles = 0
  <1> SUFFICES ASSUME TypeOK, Next, doubles' = 0 PROVE doubles = 0
    OBVIOUS
  <1>1. doubles' = doubles \/ doubles' = doubles + 1
    BY DEF Next, Module, EnterRequest, DisconnectRequest, ExitEvent, Timeout, Route, Deliver,
           ClientEnter, ClientAgain, ClientGone
  <1>2. doubles \in Nat
    BY Typed DEF Typing
  <1> QED BY SMTT(60), <1>1, <1>2

(* A client waits as long as it is in a barrier; an exit event with        *)
(* success means that enough clients have called, and one with an error    *)
(* that a client has gone.                                                 *)
LEMMA AnswerKept ==
    ASSUME TypeOK, Shape, Callers, Bound, NEW r \in Rank, ExitEvent(r), doubles = 0,
           Cardinality(entered) \in Nat
    PROVE  Promise!Next \/ UNCHANGED Promise!vars
  <1> DEFINE C == barrier[r].clients \ gone
  <1>1. PICK e \in {"0", "ECONNABORTED"} : Head(inq[r]) = Exit(e) /\ In(Exit(e), inq[r])
    BY ExitEffect
  <1>2. Exit(e).errnum = e
    BY Kinds
  <1>3. call' = [c \in Client |-> IF c \in C THEN e ELSE call[c]]
    BY <1>1, <1>2 DEF ExitEvent, Ended
  <1>4. gone' = gone /\ doubles' = doubles /\ Sent(e)
    BY <1>1 DEF ExitEvent, Sent
  <1>5. C \in SUBSET Client /\ \A c \in C : call[c] = "waiting"
    <2>1. barrier[r].clients \in SUBSET Client
      BY Typed DEF Typing, Entry
    <2> QED BY <2>1 DEF Callers, Caller
  <1> HIDE DEF C
  <1>6. CASE C = {}
    <2>1. call \in [Client -> {"none", "waiting", "0", "ECONNABORTED"}]
      BY Typed DEF Typing
    <2>2. call' = call
      BY <1>3, <1>6, <2>1
    <2> QED BY <1>4, <2>2 DEF Promise!vars
  <1>7. CASE C # {}
    <2>1. Promise!Answer(C, e)
      BY <1>3, <1>4, <1>5, <1>7 DEF Promise!Answer
    <2>2. CASE e = "0"
      <3>1. Cardinality({c \in Client : call[c] # "none"}) >= NProcs
        <4>1. NProcs <= Cardinality(entered) /\ NProcs \in Nat
          BY <1>4, <2>2, BarrierAssumption DEF Bound
        <4>2. entered = {c \in Client : call[c] # "none"}
          BY DEF Callers
        <4>3. Cardinality(entered) >= NProcs
          BY SMTT(60), <4>1
        <4> QED BY <4>2, <4>3
      <3>2. Promise!Full
        <4>1. \A S : Promise!Cardinality(S) = Cardinality(S)
          BY DEF Promise!Cardinality, Cardinality
        <4> QED BY <3>1, <4>1 DEF Promise!Full
      <3>3. Promise!Release(C)
        BY <2>1, <2>2, <3>2 DEF Promise!Release
      <3> QED BY <1>5, <3>3 DEF Promise!Next
    <2>3. CASE e = "ECONNABORTED"
      <3>1. gone # {}
        BY <1>4, <2>3 DEF Bound
      <3>2. Promise!Abort(C)
        BY <2>1, <2>3, <3>1 DEF Promise!Abort
      <3> QED BY <1>5, <3>2 DEF Promise!Next
    <2> QED BY <2>2, <2>3
  <1> QED BY <1>6, <1>7

-----------------------------------------------------------------------------
(* The invariant that adds the counts up, and the theorems *)
(* The counts of a queue of messages. *)
LEMMA Counts ==
    ASSUME NEW q \in Seq(Message)
    PROVE  /\ [i \in DOMAIN q |-> q[i].count] \in Seq(Nat)
           /\ InFlight(q) \in Nat
  <1> DEFINE s == [i \in DOMAIN q |-> q[i].count]
  <1>1. Len(q) \in Nat /\ DOMAIN q = 1 .. Len(q) /\ \A i \in DOMAIN q : q[i] \in Message
    BY SMTT(60), LengthIs
  <1>2. s \in [1 .. Len(q) -> Nat] /\ IsFiniteSet(1 .. Len(q))
    BY SMTT(60), <1>1, FS_Interval DEF Message
  <1>3. s \in Seq(Nat)
    BY SMTT(60), <1>1, <1>2
  <1> HIDE DEF s
  <1>4. Sum(s) \in Nat
    BY <1>2, SumType
  <1> QED BY <1>3, <1>4 DEF s, InFlight

(* The counts of the empty queue. *)
LEMMA CountsEmpty == InFlight(<<>>) = 0
  <1> DEFINE s == [i \in DOMAIN <<>> |-> <<>>[i].count]
  <1>1. DOMAIN <<>> = {}
    BY SMTT(60)
  <1>2. s \in [{} -> Nat]
    BY <1>1
  <1>3. Sum(s) = 0
    BY <1>2, SumZero
  <1> QED BY <1>3 DEF InFlight

(* A message that is appended brings its count. *)
LEMMA CountsAppend ==
    ASSUME NEW q \in Seq(Message), NEW x \in Message
    PROVE  InFlight(Append(q, x)) = InFlight(q) + x.count
  <1> DEFINE s == [i \in DOMAIN q |-> q[i].count]
             t == [i \in DOMAIN Append(q, x) |-> Append(q, x)[i].count]
  <1>1. s \in Seq(Nat) /\ x.count \in Nat
    BY Counts DEF Message
  <1>2. t = Append(s, x.count)
    BY SMTT(60)
  <1>3. Sum(Append(s, x.count)) = Sum(s) + x.count
    <2> HIDE DEF s
    <2> QED BY SMTT(60), <1>1, SumAppend
  <1> QED BY <1>2, <1>3 DEF InFlight

(* A message that is taken takes its count along. *)
LEMMA CountsTail ==
    ASSUME NEW q \in Seq(Message), q # <<>>
    PROVE  InFlight(Tail(q)) = InFlight(q) - Head(q).count
  <1> DEFINE s == [i \in DOMAIN q |-> q[i].count]
             t == [i \in DOMAIN Tail(q) |-> Tail(q)[i].count]
  <1>1. s \in Seq(Nat)
    BY Counts
  <1>2. t = Tail(s) /\ s # <<>> /\ Head(s) = Head(q).count
    BY SMTT(60)
  <1>3. Sum(Tail(s)) = Sum(s) - Head(s)
    <2> HIDE DEF s
    <2> QED BY SMTT(60), <1>1, <1>2, SumTail
  <1>4. InFlight(Tail(q)) = Sum(t) /\ InFlight(q) = Sum(s)
    BY DEF InFlight
  <1> HIDE DEF s, t
  <1> QED BY SMTT(60), <1>2, <1>3, <1>4

-----------------------------------------------------------------------------
(* What is counted.                                                        *)

Queue == [Rank -> Seq(Message)]

(* The queue of r in Q has n more, or n less, in flight in P. *)
Weighs(Q, P) == \A k \in Rank : InFlight(Q[k]) \in Nat /\ InFlight(P[k]) \in Nat
Lighter(Q, P, r, n) ==
    /\ Weighs(Q, P) /\ n \in Nat /\ InFlight(P[r]) = InFlight(Q[r]) - n
    /\ \A k \in Rank : k # r => InFlight(P[k]) = InFlight(Q[k])
Heavier(Q, P, r, n) ==
    /\ Weighs(Q, P) /\ n \in Nat /\ InFlight(P[r]) = InFlight(Q[r]) + n
    /\ \A k \in Rank : k # r => InFlight(P[k]) = InFlight(Q[k])

(* Two tables of queues have counts. *)
LEMMA Weighed == ASSUME NEW Q \in Queue, NEW P \in Queue PROVE Weighs(Q, P)
  <1>1. ASSUME NEW k \in Rank PROVE Q[k] \in Seq(Message) /\ P[k] \in Seq(Message)
    BY DEF Queue
  <1>2. ASSUME NEW k \in Rank PROVE InFlight(Q[k]) \in Nat /\ InFlight(P[k]) \in Nat
    BY <1>1, Counts
  <1> QED BY <1>2 DEF Weighs

(* A queue that loses its head. *)
LEMMA TakenCounts ==
    ASSUME NEW Q \in Queue, NEW P, NEW r \in Rank, Q[r] # <<>>, Taken(Rank, Message, Q, P, r)
    PROVE  Lighter(Q, P, r, Head(Q[r]).count)
  <1>1. /\ P \in Queue /\ Q[r] \in Seq(Message) /\ Head(Q[r]) \in Message
        /\ P[r] = Tail(Q[r]) /\ \A k \in Rank : k # r => P[k] = Q[k]
    BY DEF Queue, Taken
  <1>2. InFlight(Tail(Q[r])) = InFlight(Q[r]) - Head(Q[r]).count
    BY SMTT(60), <1>1, CountsTail
  <1>3. Weighs(Q, P) /\ Head(Q[r]).count \in Nat
    BY <1>1, Weighed DEF Message
  <1>4. InFlight(P[r]) = InFlight(Q[r]) - Head(Q[r]).count
    BY <1>1, <1>2
  <1>5. \A k \in Rank : k # r => InFlight(P[k]) = InFlight(Q[k])
    BY <1>1
  <1> QED BY <1>3, <1>4, <1>5 DEF Lighter

(* A queue that gets a message. *)
LEMMA PutCounts ==
    ASSUME NEW Q \in Queue, NEW P, NEW r \in Rank, NEW m \in Message,
           PutIn(Rank, Message, Q, P, r, m)
    PROVE  Heavier(Q, P, r, m.count)
  <1>1. /\ P \in Queue /\ Q[r] \in Seq(Message)
        /\ P[r] = Append(Q[r], m) /\ \A k \in Rank : k # r => P[k] = Q[k]
    BY DEF Queue, PutIn
  <1>2. InFlight(Append(Q[r], m)) = InFlight(Q[r]) + m.count
    BY SMTT(60), <1>1, CountsAppend
  <1>3. Weighs(Q, P) /\ m.count \in Nat
    BY <1>1, Weighed DEF Message
  <1>4. InFlight(P[r]) = InFlight(Q[r]) + m.count
    BY <1>1, <1>2
  <1>5. \A k \in Rank : k # r => InFlight(P[k]) = InFlight(Q[k])
    BY <1>1
  <1> QED BY <1>3, <1>4, <1>5 DEF Heavier

(* The counts of the ranks are numbers. *)
Total(a, b, c) == a + b + c
Loaded(B, I, U, L) ==
    /\ L \in [Rank -> Nat]
    /\ \A k \in Rank : /\ L[k] = Total(B[k].count, InFlight(I[k]), InFlight(U[k]))
                       /\ B[k].count \in Nat
                       /\ InFlight(I[k]) \in Nat /\ InFlight(U[k]) \in Nat
LEMMA LoadOf ==
    ASSUME NEW B \in [Rank -> Entry], NEW I \in Queue, NEW U \in Queue, NEW L,
           L = [r \in Rank |-> B[r].count + InFlight(I[r]) + InFlight(U[r])]
    PROVE  Loaded(B, I, U, L)
  <1>1. Weighs(I, U) /\ \A k \in Rank : B[k].count \in Nat
    BY Weighed DEF Entry
  <1>2. \A k \in Rank : B[k].count + InFlight(I[k]) + InFlight(U[k]) \in Nat
    BY SMTT(60), <1>1 DEF Weighs
  <1>3. L \in [Rank -> Nat]
    BY <1>2
  <1>4. \A k \in Rank : L[k] = Total(B[k].count, InFlight(I[k]), InFlight(U[k]))
    BY DEF Total
  <1> QED BY <1>1, <1>3, <1>4 DEF Weighs, Loaded

LEMMA LoadBefore == TypeOK => Loaded(barrier, inq, up, Load)
  <1> SUFFICES ASSUME TypeOK PROVE Loaded(barrier, inq, up, Load)
    OBVIOUS
  <1>1. barrier \in [Rank -> Entry] /\ inq \in Queue /\ up \in Queue
    BY Typed DEF Typing, Queue
  <1>2. Load = [r \in Rank |-> barrier[r].count + InFlight(inq[r]) + InFlight(up[r])]
    BY DEF Load
  <1> QED BY <1>1, <1>2, LoadOf

LEMMA LoadAfter == TypeOK' => Loaded(barrier', inq', up', Load')
  <1> SUFFICES ASSUME TypeOK' PROVE Loaded(barrier', inq', up', Load')
    OBVIOUS
  <1>1. barrier' \in [Rank -> Entry] /\ inq' \in Queue /\ up' \in Queue
    BY DEF TypeOK, Queue, Entry
  <1>2. Load' = [r \in Rank |-> barrier'[r].count + InFlight(inq'[r]) + InFlight(up'[r])]
    BY DEF Load
  <1> QED BY <1>1, <1>2, LoadOf

(* A step that counts nothing anew. *)
LEMMA LoadSame ==
    ASSUME TypeOK, TypeOK',
           \A k \in Rank : barrier'[k].count + InFlight(inq'[k]) + InFlight(up'[k])
                             = barrier[k].count + InFlight(inq[k]) + InFlight(up[k])
    PROVE  Sum(Load') = Sum(Load)
  <1>1. Load' = Load
    BY DEF Load
  <1> QED BY <1>1

(* Requests and events are counted as they should be; only a call adds to  *)
(* what is counted, and only the exit event takes from it.                 *)
LEMMA Counting ==
    ASSUME TypeOK, TypeOK', Shape, Callers, Next, doubles' = 0
    PROVE  \/ Sum(Load') = Sum(Load) /\ entered' = entered
           \/ /\ Sum(Load') <= Sum(Load) /\ entered' = entered
              /\ \E r \in Rank : ExitEvent(r)
           \/ \E c \in Client : /\ ClientEnter(c) /\ Sum(Load') = Sum(Load) + 1
                                /\ Cardinality(entered') = Cardinality(entered) + 1
  <1>0. /\ inq \in Queue /\ up \in Queue /\ inq' \in Queue /\ up' \in Queue
        /\ barrier \in [Rank -> Entry]
        /\ Loaded(barrier, inq, up, Load) /\ Loaded(barrier', inq', up', Load')
        /\ Weighs(inq, inq') /\ Weighs(up, up')
    <2>1. inq' \in Queue /\ up' \in Queue
      BY DEF TypeOK, Queue
    <2> QED BY <2>1, Typed, LoadBefore, LoadAfter, Weighed DEF Typing, Queue
  <1>C. /\ \A k \in Rank : barrier[k].count \in Nat /\ barrier'[k].count \in Nat
        /\ IsFiniteSet(Rank)
    BY <1>0, BarrierAssumption DEF Loaded
  <1>L. ASSUME NEW k \in Rank
        PROVE  /\ Load[k] = Total(barrier[k].count, InFlight(inq[k]), InFlight(up[k]))
               /\ Load'[k] = Total(barrier'[k].count, InFlight(inq'[k]), InFlight(up'[k]))
               /\ barrier[k].count \in Nat /\ InFlight(inq[k]) \in Nat
               /\ InFlight(up[k]) \in Nat /\ Load[k] \in Nat /\ Load'[k] \in Nat
    BY <1>0 DEF Loaded
  <1>1. ASSUME NEW r \in Rank, EnterRequest(r)
        PROVE  Sum(Load') = Sum(Load) /\ entered' = entered
    <2> DEFINE m == Head(inq[r])
    <2>1. /\ barrier'[r].count = barrier[r].count + m.count
          /\ \A k \in Rank : k # r => barrier'[k] = barrier[k]
      BY <1>1, SingleEnter
    <2>2. Lighter(inq, inq', r, m.count)
      BY <1>0, <1>1, EnterEffect, TakenCounts DEF EnterRequest
    <2>3. \A k \in Rank : InFlight(up'[k]) = InFlight(up[k])
      <3>1. up' = up \/ PutIn(Rank, Message, up, up', r, Exit("0"))
        BY <1>1, SingleEnter
      <3>2. ASSUME PutIn(Rank, Message, up, up', r, Exit("0"))
            PROVE  Heavier(up, up', r, Exit("0").count)
        BY <1>0, <3>2, Messages, PutCounts
      <3>3. Exit("0").count = 0
        BY Kinds
      <3>4. ASSUME Heavier(up, up', r, 0)
            PROVE  \A k \in Rank : InFlight(up'[k]) = InFlight(up[k])
        BY SMTT(60), <3>4 DEF Heavier, Weighs
      <3> QED BY <3>1, <3>2, <3>3, <3>4
    <2> HIDE DEF m
    <2>4. ASSUME NEW k \in Rank
          PROVE  barrier'[k].count + InFlight(inq'[k]) + InFlight(up'[k])
                   = barrier[k].count + InFlight(inq[k]) + InFlight(up[k])
      <3>1. CASE k = r
        BY SMTT(60), <1>C, <1>0, <2>1, <2>2, <2>3, <3>1 DEF Lighter, Weighs
      <3>2. CASE k # r
        BY <2>1, <2>2, <2>3, <3>2 DEF Lighter
      <3> QED BY <3>1, <3>2
    <2> QED BY <1>1, <2>4, LoadSame DEF EnterRequest
  <1>2. ASSUME NEW r \in Rank, DisconnectRequest(r)
        PROVE  Sum(Load') = Sum(Load) /\ entered' = entered
    <2>1. UNCHANGED <<barrier, entered>> /\ inq[r] # <<>>
      BY <1>2 DEF DisconnectRequest
    <2>2. Lighter(inq, inq', r, 0)
      <3>1. PICK c \in Client : Head(inq[r]) = Leave(c)
        BY <1>2, DisconnectEffect
      <3>2. Leave(c).count = 0
        BY Kinds
      <3>3. Lighter(inq, inq', r, Head(inq[r]).count)
        BY <1>0, <1>2, <2>1, DisconnectEffect, TakenCounts
      <3> QED BY <3>1, <3>2, <3>3
    <2>3. up' = up \/ Heavier(up, up', r, 0)
      <3>1. up' = up \/ PutIn(Rank, Message, up, up', r, Exit("ECONNABORTED"))
        BY <1>2, DisconnectEffect
      <3>2. Exit("ECONNABORTED").count = 0 /\ Exit("ECONNABORTED") \in Message
        BY Kinds, Messages
      <3> QED BY <1>0, <3>1, <3>2, PutCounts
    <2>4. \A k \in Rank : InFlight(up'[k]) = InFlight(up[k])
      BY SMTT(60), <2>3 DEF Heavier, Weighs
    <2>5. \A k \in Rank : InFlight(inq'[k]) = InFlight(inq[k])
      BY SMTT(60), <2>2 DEF Lighter, Weighs
    <2> QED BY <2>1, <2>4, <2>5, LoadSame
  <1>3. ASSUME NEW r \in Rank, ExitEvent(r)
        PROVE  Sum(Load') <= Sum(Load) /\ entered' = entered
    <2>1. UNCHANGED <<up, entered>> /\ inq[r] # <<>>
      BY <1>3 DEF ExitEvent
    <2>2. Lighter(inq, inq', r, 0)
      <3>1. PICK e \in {"0", "ECONNABORTED"} : Head(inq[r]) = Exit(e)
        BY <1>3, ExitEffect
      <3>2. Exit(e).count = 0
        BY Kinds
      <3>3. Lighter(inq, inq', r, Head(inq[r]).count)
        BY <1>0, <1>3, <2>1, ExitEffect, TakenCounts
      <3> QED BY <3>1, <3>2, <3>3
    <2>3. barrier'[r].count = 0 /\ \A k \in Rank : k # r => barrier'[k] = barrier[k]
      BY <1>0, <1>3 DEF ExitEvent, NoBarrier
    <2>4. \A k \in Rank \ {r} : Load'[k] = Load[k]
      <3> SUFFICES ASSUME NEW k \in Rank, k # r PROVE Load'[k] = Load[k]
        OBVIOUS
      <3>1. InFlight(inq'[k]) = InFlight(inq[k]) /\ barrier'[k] = barrier[k]
        BY <2>2, <2>3 DEF Lighter
      <3> QED BY <1>L, <2>1, <3>1
    <2>5. Changes(Rank, Load, Load', r)
      BY <1>0, <1>C, <2>4 DEF Changes, Loaded
    <2>6. Sum(Load') = Sum(Load) - Load[r] + Load'[r]
      BY SMTT(60), <2>5, SumChange
    <2>7. Load'[r] <= Load[r] /\ Load[r] \in Nat /\ Load'[r] \in Nat
      <3>1. InFlight(inq'[r]) = InFlight(inq[r]) - 0
        BY <2>2 DEF Lighter
      <3>2. /\ Load[r] = Total(barrier[r].count, InFlight(inq[r]), InFlight(up[r]))
            /\ Load'[r] = Total(0, InFlight(inq'[r]), InFlight(up[r]))
            /\ barrier[r].count \in Nat /\ InFlight(inq[r]) \in Nat
            /\ InFlight(up[r]) \in Nat /\ Load[r] \in Nat /\ Load'[r] \in Nat
        BY <1>L, <2>1, <2>3
      <3> QED BY SMTT(60), <3>1, <3>2 DEF Total
    <2>8. Sum(Load) \in Nat
      BY <1>0, <1>C, SumType DEF Loaded
    <2> HIDE <2>5
    <2> QED BY SMTT(60), <2>1, <2>6, <2>7, <2>8
  <1>4. ASSUME NEW r \in Rank, Timeout(r)
        PROVE  Sum(Load') = Sum(Load) /\ entered' = entered
    <2> DEFINE n == barrier[r].count
    <2>1. UNCHANGED <<inq, entered>>
      BY <1>4 DEF Timeout
    <2>2. barrier' = [barrier EXCEPT ![r] = [barrier[r] EXCEPT !.count = 0]]
      BY <1>4 DEF Timeout, Forwarded
    <2>3. barrier'[r].count = 0 /\ \A k \in Rank : k # r => barrier'[k] = barrier[k]
      BY <1>0, <2>2 DEF Entry
    <2>4. /\ InFlight(up'[r]) = InFlight(up[r]) + n
          /\ \A k \in Rank : k # r => InFlight(up'[k]) = InFlight(up[k])
      <3>1. CASE n = 0
        <4>1. up' = up
          BY <1>4, <3>1, TimeoutEffect
        <4> QED BY SMTT(60), <1>0, <3>1, <4>1 DEF Weighs
      <3>2. CASE n # 0
        <4>1. PutIn(Rank, Message, up, up', r, EnterUp(n)) /\ EnterUp(n) \in Message
          BY <1>C, <1>4, <3>2, TimeoutEffect, Messages
        <4>2. Heavier(up, up', r, EnterUp(n).count)
          BY <1>0, <4>1, PutCounts
        <4>3. EnterUp(n).count = n
          BY Kinds
        <4> QED BY <4>2, <4>3 DEF Heavier
      <3> QED BY <3>1, <3>2
    <2> HIDE DEF n
    <2>5. ASSUME NEW k \in Rank
          PROVE  barrier'[k].count + InFlight(inq'[k]) + InFlight(up'[k])
                   = barrier[k].count + InFlight(inq[k]) + InFlight(up[k])
      <3>1. CASE k = r
        BY SMTT(60), <1>C, <1>0, <2>1, <2>3, <2>4, <3>1 DEF Weighs, n
      <3>2. CASE k # r
        BY <2>1, <2>3, <2>4, <3>2
      <3> QED BY <3>1, <3>2
    <2> QED BY <2>1, <2>5, LoadSame
  <1>5. ASSUME NEW r \in Rank, Route(r)
        PROVE  Sum(Load') = Sum(Load) /\ entered' = entered
    <2> DEFINE m == Head(up[r])
    <2>0. UNCHANGED <<barrier, entered>> /\ up[r] # <<>>
      BY <1>5 DEF Route
    <2>1. CASE /\ r = 0 /\ IsExit(m) /\ Taken(Rank, Message, up, up', r)
               /\ PutIn(Rank, Message, inq, inq', 0, m)
      <3>1. m.count = 0 /\ m \in Message
        BY <2>1, KindOf
      <3>2. Lighter(up, up', r, m.count)
        BY <1>0, <2>0, <2>1, TakenCounts
      <3> HIDE DEF m
      <3>3. Heavier(inq, inq', r, m.count)
        BY <1>0, <2>1, <3>1, PutCounts
      <3>4. \A k \in Rank : InFlight(up'[k]) = InFlight(up[k])
        BY SMTT(60), <3>1, <3>2 DEF Lighter, Weighs
      <3>5. \A k \in Rank : InFlight(inq'[k]) = InFlight(inq[k])
        BY SMTT(60), <3>1, <3>3 DEF Heavier, Weighs
      <3> QED BY <2>0, <3>4, <3>5, LoadSame
    <2>2. ASSUME NEW u, IsExit(m), UNCHANGED inq, Parent[r] \in Rank,
                 Taken(Rank, Message, up, u, r), PutIn(Rank, Message, u, up', Parent[r], m)
          PROVE  Sum(Load') = Sum(Load) /\ entered' = entered
      <3>1. m.count = 0 /\ m \in Message
        BY <2>2, KindOf
      <3>2. Lighter(up, u, r, m.count) /\ u \in Queue
        BY <1>0, <2>0, <2>2, TakenCounts DEF Taken, Queue
      <3> HIDE DEF m
      <3>3. Heavier(u, up', Parent[r], m.count)
        BY <2>2, <3>1, <3>2, PutCounts
      <3>4. \A k \in Rank : InFlight(u[k]) = InFlight(up[k])
        BY SMTT(60), <3>1, <3>2 DEF Lighter, Weighs
      <3>5. \A k \in Rank : InFlight(up'[k]) = InFlight(u[k])
        BY SMTT(60), <3>1, <3>3 DEF Heavier, Weighs
      <3> QED BY <2>0, <2>2, <3>4, <3>5, LoadSame
    <2>3. CASE /\ r # 0 /\ IsUpward(m)
               /\ Taken(Rank, Message, up, up', r) /\ Parent[r] \in Rank
               /\ PutIn(Rank, Message, inq, inq', Parent[r], m)
      <3> DEFINE p == Parent[r]
      <3>1. m \in Message
        BY <2>3, KindOf
      <3>2. Lighter(up, up', r, m.count)
        BY <1>0, <2>0, <2>3, TakenCounts
      <3> HIDE DEF m
      <3>3. Heavier(inq, inq', p, m.count)
        BY <1>0, <2>3, <3>1, PutCounts
      <3>4. p \in Rank /\ p # r
        <4>1. p < r /\ r \in Nat
          BY <2>3, BarrierAssumption
        <4>2. p # r
          BY SMTT(60), <4>1
        <4> QED BY <2>3, <4>2
      <3> HIDE DEF p
      <3>5. \A k \in Rank \ {r, p} : Load'[k] = Load[k]
        <4> SUFFICES ASSUME NEW k \in Rank, k # r, k # p PROVE Load'[k] = Load[k]
          OBVIOUS
        <4>1. InFlight(inq'[k]) = InFlight(inq[k]) /\ InFlight(up'[k]) = InFlight(up[k])
          BY <3>2, <3>3 DEF Lighter, Heavier
        <4> QED BY <1>L, <2>0, <4>1
      <3>6. Load'[r] = Load[r] - m.count /\ Load'[p] = Load[p] + m.count
        <4>1. InFlight(inq'[r]) = InFlight(inq[r]) /\ InFlight(up'[p]) = InFlight(up[p])
          BY <3>2, <3>3, <3>4 DEF Lighter, Heavier
        <4>2. /\ InFlight(inq'[p]) = InFlight(inq[p]) + m.count /\ m.count \in Nat
              /\ InFlight(up'[r]) = InFlight(up[r]) - m.count
          BY <3>2, <3>3 DEF Lighter, Heavier
        <4>3. /\ Load[r] = Total(barrier[r].count, InFlight(inq[r]), InFlight(up[r]))
              /\ Load'[r] = Total(barrier[r].count, InFlight(inq[r]), InFlight(up'[r]))
              /\ barrier[r].count \in Nat /\ InFlight(inq[r]) \in Nat /\ InFlight(up[r]) \in Nat
          BY <1>L, <2>0, <4>1
        <4>4. /\ Load[p] = Total(barrier[p].count, InFlight(inq[p]), InFlight(up[p]))
              /\ Load'[p] = Total(barrier[p].count, InFlight(inq'[p]), InFlight(up[p]))
              /\ barrier[p].count \in Nat /\ InFlight(inq[p]) \in Nat /\ InFlight(up[p]) \in Nat
          BY <1>L, <2>0, <3>4, <4>1
        <4> QED BY SMTT(60), <4>2, <4>3, <4>4 DEF Total
      <3>7. ChangesTwo(Rank, Load, Load', r, p)
        BY <1>0, <1>C, <3>4, <3>5 DEF ChangesTwo, Loaded
      <3>8. Sum(Load') = Sum(Load) - Load[r] - Load[p] + Load'[r] + Load'[p]
        BY SMTT(60), <3>7, SumChangeTwo
      <3>9. Sum(Load) \in Nat /\ Load[r] \in Nat /\ Load[p] \in Nat /\ m.count \in Nat
        BY <1>0, <1>C, <3>2, <3>4, SumType DEF Loaded, Lighter
      <3> QED BY SMTT(60), <2>0, <3>6, <3>8, <3>9
    <2> QED BY <1>5, <2>1, <2>2, <2>3, RouteEffect
  <1>6. ASSUME NEW r \in Rank, Deliver(r)
        PROVE  Sum(Load') = Sum(Load) /\ entered' = entered
    <2> DEFINE m == Head(down[r])
    <2>1. UNCHANGED <<barrier, entered, up>>
      BY <1>6 DEF Deliver
    <2>2. IsExit(m) /\ PutIn(Rank, Message, inq, inq', r, m)
      BY <1>6, DeliverEffect
    <2> HIDE DEF m
    <2>3. m.count = 0 /\ m \in Message
      BY <2>2, KindOf
    <2>4. Heavier(inq, inq', r, m.count)
      BY <1>0, <2>2, <2>3, PutCounts
    <2>5. \A k \in Rank : InFlight(inq'[k]) = InFlight(inq[k])
      BY SMTT(60), <2>3, <2>4 DEF Heavier, Weighs
    <2> QED BY <2>1, <2>5, LoadSame
  <1>7. ASSUME NEW c \in Client, ClientEnter(c)
        PROVE  Sum(Load') = Sum(Load) + 1 /\ Cardinality(entered') = Cardinality(entered) + 1
    <2> DEFINE r == at[c]
    <2>1. r \in Rank /\ PutIn(Rank, Message, inq, inq', r, Enter(c))
      BY <1>7, Messages, SendEffect DEF ClientEnter
    <2>2. UNCHANGED <<barrier, up>> /\ entered' = entered \cup {c} /\ call[c] = "none"
      BY <1>7 DEF ClientEnter
    <2>3. Cardinality(entered') = Cardinality(entered) + 1
      <3>1. c \notin entered
        BY <2>2 DEF Callers
      <3>2. IsFiniteSet(entered)
        BY Typed, BarrierAssumption, FS_Subset DEF Typing
      <3> QED BY SMTT(60), <2>2, <3>1, <3>2, FS_AddElement
    <2> HIDE DEF r
    <2>4. Heavier(inq, inq', r, 1)
      <3>1. Enter(c) \in Message /\ Enter(c).count = 1
        BY Kinds, Messages
      <3> QED BY <1>0, <2>1, <3>1, PutCounts
    <2>5. \A k \in Rank \ {r} : Load'[k] = Load[k]
      <3> SUFFICES ASSUME NEW k \in Rank, k # r PROVE Load'[k] = Load[k]
        OBVIOUS
      <3>1. InFlight(inq'[k]) = InFlight(inq[k])
        BY <2>4 DEF Heavier
      <3> QED BY <1>L, <2>2, <3>1
    <2>6. Load'[r] = Load[r] + 1
      <3>1. InFlight(inq'[r]) = InFlight(inq[r]) + 1
        BY <2>4 DEF Heavier
      <3>2. /\ Load[r] = Total(barrier[r].count, InFlight(inq[r]), InFlight(up[r]))
            /\ Load'[r] = Total(barrier[r].count, InFlight(inq'[r]), InFlight(up[r]))
            /\ barrier[r].count \in Nat /\ InFlight(inq[r]) \in Nat /\ InFlight(up[r]) \in Nat
        BY <1>L, <2>1, <2>2
      <3> QED BY SMTT(60), <3>1, <3>2 DEF Total
    <2>7. Changes(Rank, Load, Load', r)
      BY <1>0, <1>C, <2>1, <2>5 DEF Changes, Loaded
    <2>8. Sum(Load') = Sum(Load) - Load[r] + Load'[r]
      BY SMTT(60), <2>7, SumChange
    <2>9. Sum(Load) \in Nat /\ Load[r] \in Nat
      BY <1>0, <1>C, <2>1, SumType DEF Loaded
    <2> QED BY SMTT(60), <2>3, <2>6, <2>8, <2>9
  <1>8. ASSUME NEW d \in Client, ClientAgain(d) PROVE FALSE
    <2>1. doubles \in Nat /\ doubles' = doubles + 1
      BY <1>8, Typed DEF Typing, ClientAgain
    <2> QED BY SMTT(60), <2>1
  <1>9. ASSUME NEW c \in Client, ClientGone(c)
        PROVE  Sum(Load') = Sum(Load) /\ entered' = entered
    <2>1. at[c] \in Rank /\ PutIn(Rank, Message, inq, inq', at[c], Leave(c))
      BY <1>9, Messages, SendEffect DEF ClientGone
    <2>2. UNCHANGED <<barrier, entered, up>>
      BY <1>9 DEF ClientGone
    <2>3. Leave(c) \in Message /\ Leave(c).count = 0
      BY Kinds, Messages
    <2>4. Heavier(inq, inq', at[c], Leave(c).count)
      BY <1>0, <2>1, <2>3, PutCounts
    <2>5. \A k \in Rank : InFlight(inq'[k]) = InFlight(inq[k])
      BY SMTT(60), <2>3, <2>4 DEF Heavier, Weighs
    <2> QED BY <2>2, <2>5, LoadSame
  <1> QED BY <1>1, <1>2, <1>3, <1>4, <1>5, <1>6, <1>7, <1>8, <1>9 DEF Next, Module

(* Every action keeps the bound while nobody calls twice. *)
LEMMA BoundStep ==
    ASSUME TypeOK, TypeOK', Shape, Callers, Bound, Next, doubles' = 0
    PROVE  Bound'
  <1> DEFINE N == Cardinality(entered)
             M == Cardinality(entered')
  <1>0. IsFiniteSet(entered) /\ IsFiniteSet(entered')
    <2>1. entered \subseteq Client /\ entered' \subseteq Client
      BY DEF TypeOK
    <2> QED BY <2>1, BarrierAssumption, FS_Subset
  <1>1. N \in Nat /\ M \in Nat
    BY <1>0, FS_CardinalityType
  <1>2. /\ Sum(Load) \in Nat /\ Sum(Load') \in Nat
        /\ Loaded(barrier, inq, up, Load) /\ IsFiniteSet(Rank)
    BY LoadBefore, LoadAfter, SumType, BarrierAssumption DEF Loaded
  <1>3. /\ Sum(Load) <= N
        /\ Sent("0") => NProcs <= N
        /\ Sent("ECONNABORTED") => gone # {}
    BY DEF Bound
  <1>4. N <= M /\ Sum(Load') <= M
    <2> HIDE DEF N, M
    <2>1. ASSUME NEW c \in Client, Sum(Load') = Sum(Load) + 1, M = N + 1
          PROVE  N <= M /\ Sum(Load') <= M
      BY SMTT(60), <1>1, <1>2, <1>3, <2>1
    <2>2. ASSUME Sum(Load') = Sum(Load) \/ Sum(Load') <= Sum(Load), M = N
          PROVE  N <= M /\ Sum(Load') <= M
      BY SMTT(60), <1>1, <1>2, <1>3, <2>2
    <2> QED BY <2>1, <2>2, Counting DEF N, M
  <1>5. ASSUME NEW r \in Rank, EnterRequest(r), barrier[r].count + Head(inq[r]).count = NProcs
        PROVE  NProcs <= N
    <2> DEFINE n == Head(inq[r]).count
    <2>1. Lighter(inq, inq', r, n)
      BY <1>5, EnterEffect, TakenCounts, Typed DEF EnterRequest, Typing, Queue
    <2>2. /\ InFlight(inq'[r]) \in Nat /\ InFlight(inq[r]) \in Nat /\ n \in Nat
          /\ InFlight(inq'[r]) = InFlight(inq[r]) - n
      BY <2>1 DEF Lighter, Weighs
    <2>3. /\ Load[r] = Total(barrier[r].count, InFlight(inq[r]), InFlight(up[r]))
          /\ barrier[r].count \in Nat /\ InFlight(up[r]) \in Nat /\ Load \in [Rank -> Nat]
      BY <1>2 DEF Loaded
    <2>4. Load[r] <= Sum(Load)
      BY <1>2, <2>3, SumAtLeast
    <2> HIDE DEF n, N
    <2>5. barrier[r].count + n = NProcs
      BY <1>5 DEF n
    <2> QED BY SMTT(60), <1>1, <1>2, <1>3, <2>2, <2>3, <2>4, <2>5 DEF Total
  <1>6. Sent("0")' => NProcs <= M
    <2> HIDE DEF N, M
    <2>1. Sent("0")' => NProcs <= N
      BY <1>3, <1>5, SentStep
    <2>2. NProcs \in Nat
      BY BarrierAssumption
    <2> QED BY SMTT(60), <1>1, <1>4, <2>1, <2>2
  <1>7. Sent("ECONNABORTED")' => gone' # {}
    <2>1. ASSUME NEW r \in Rank, DisconnectRequest(r) PROVE gone # {}
      <3>1. PICK c \in Client : Head(inq[r]) = Leave(c) /\ In(Head(inq[r]), inq[r])
        BY <2>1, DisconnectEffect
      <3>2. Caller(c, r)
        BY DEF Callers
      <3> QED BY <3>1, <3>2 DEF Caller
    <2>2. Sent("ECONNABORTED")' => gone # {}
      BY <1>3, <2>1, SentStep
    <2> QED BY <2>2, GoneStays
  <1> QED BY <1>4, <1>6, <1>7 DEF Bound

(* The root is above every rank. *)
LEMMA AboveRoot == ASSUME NEW r \in Rank PROVE 0 \in Above(r)
  <1>1. ASSUME NEW S \in SUBSET Rank, r \in S, \A k \in S \ {0} : Parent[k] \in S
        PROVE  0 \in S
    <2>1. S \in SUBSET Nat /\ S # {}
      BY <1>1, BarrierAssumption
    <2>2. PICK x \in S : \A y \in S : ~(y < x)
      BY <2>1, Least
    <2>3. x # 0 => Parent[x] \in S /\ Parent[x] < x
      BY <1>1, BarrierAssumption
    <2> QED BY <2>2, <2>3
  <1> QED BY <1>1, BarrierAssumption DEF Above

(* Without a fault everything is counted up to the exit event. *)
LEMMA EarlyStep ==
    ASSUME TypeOK, TypeOK', Shape, Callers, Early, Next, doubles' = 0,
           ExitSent => ExitSent',
           ~ExitSent' => (\A k \in Rank : ~ExitEvent(k)) /\ (Passed' => Someone')
    PROVE  Early'
  <1> SUFFICES ASSUME ~ExitSent'
               PROVE  Sum(Load') = Cardinality(entered') /\ (Passed' => Someone')
    BY DEF Early
  <1>1. Sum(Load) = Cardinality(entered)
    BY DEF Early
  <1>2. CASE Sum(Load') = Sum(Load) /\ entered' = entered
    BY <1>1, <1>2
  <1>3. CASE Sum(Load') = Sum(Load) + 1 /\ Cardinality(entered') = Cardinality(entered) + 1
    BY <1>1, <1>3
  <1> QED BY <1>2, <1>3, Counting

-----------------------------------------------------------------------------
(* The theorems.                                                           *)

(* The invariant holds at first, when all queues are empty. *)
LEMMA InvInit == Init => Inv
  <1> SUFFICES ASSUME Init PROVE Inv
    OBVIOUS
  <1>0. TypeOK
    BY TypeInit
  <1>1. /\ \A k \in Rank : inq[k] = <<>> /\ up[k] = <<>> /\ down[k] = <<>>
        /\ \A k \in Rank : barrier[k].count = 0 /\ barrier[k].clients = {} /\ ~armed[k]
        /\ \A c \in Client : call[c] = "none"
        /\ entered = {} /\ 0 \in Rank
    BY BarrierAssumption DEF Init, NoBarrier
  <1>2. \A k \in Rank : \A m : ~In(m, inq[k]) /\ ~In(m, up[k]) /\ ~In(m, down[k])
    BY <1>1, InEmpty
  <1>3. Shape
    BY <1>1, <1>2 DEF Shape
  <1>4. \A e : ~Sent(e)
    BY <1>2 DEF Sent
  <1>5. Callers
    BY <1>1, <1>2 DEF Callers, Caller
  <1>6. Sum(Load) = 0
    <2>1. Loaded(barrier, inq, up, Load)
      BY <1>0, LoadBefore
    <2>2. ASSUME NEW k \in Rank PROVE Load[k] = 0
      <3>1. Load[k] = Total(barrier[k].count, InFlight(inq[k]), InFlight(up[k]))
        BY <2>1 DEF Loaded
      <3>2. Load[k] = Total(0, 0, 0)
        BY <1>1, <3>1, CountsEmpty
      <3> QED BY SMTT(60), <3>2 DEF Total
    <2> QED BY <2>1, <2>2, SumZero DEF Loaded
  <1>7. Cardinality(entered) = 0
    BY <1>1, FS_EmptySet
  <1>8. Bound
    <2>1. 0 <= 0
      BY SMTT(60)
    <2> QED BY <1>4, <1>6, <1>7, <2>1 DEF Bound
  <1>9. ~Passed
    <2>1. ~(0 > 0)
      BY SMTT(60)
    <2> QED BY <1>1, <1>2, <2>1 DEF Passed
  <1>10. Early /\ Late
    BY <1>4, <1>6, <1>7, <1>9 DEF Early, Late
  <1> QED BY <1>0, <1>3, <1>5, <1>8, <1>10 DEF Inv

(* Every step keeps the invariant. *)
LEMMA InvStep == Inv /\ [Next]_vars => Inv'
  <1> SUFFICES ASSUME Inv, Next PROVE Inv'
    BY InvStutter
  <1>1. TypeOK /\ TypeOK' /\ Shape
    BY TypeStep DEF Inv
  <1>2. Shape'
    BY <1>1, ShapeStep
  <1>3. ASSUME doubles' = 0 PROVE Callers /\ Callers' /\ Bound /\ Bound'
    <2>1. doubles = 0
      BY <1>1, <1>3, DoublesStay
    <2>2. Callers /\ Bound
      BY <2>1 DEF Inv
    <2> QED BY <1>1, <1>3, <2>2, CallersStep, BoundStep
  <1>4. ASSUME doubles' = 0, gone' = {} PROVE Early' /\ Late'
    <2>1. doubles = 0 /\ gone = {}
      BY <1>1, <1>4, DoublesStay, GoneStays
    <2>2. Early /\ Late
      BY <2>1 DEF Inv
    <2>3. /\ Late' /\ (ExitSent => ExitSent')
          /\ ~ExitSent' => (\A k \in Rank : ~ExitEvent(k)) /\ (Passed' => Someone')
      BY <1>1, <1>2, <1>3, <1>4, <2>2, AboveRoot, LateStep
    <2> QED BY <1>1, <1>2, <1>3, <1>4, <2>2, <2>3, EarlyStep
  <1> QED BY <1>1, <1>2, <1>3, <1>4 DEF Inv

(* The invariant of the barrier. *)
THEOREM Invariance == Spec => []Inv
  BY InvInit, InvStep, PTL DEF Spec

(* Every entry is counted in one place until the barrier ends: timeout_cb, *)
(* enter_request_cb and the brokers together lose no count and repeat none. *)
THEOREM Counted == Spec => []CountedOnce
  <1>1. Inv => CountedOnce
    BY DEF Inv, Early, CountedOnce
  <1> QED BY <1>1, Invariance, PTL

-----------------------------------------------------------------------------
(* The promise of flux_barrier.                                            *)

(* No client has called twice. *)
Single == doubles = 0

(* Every step of the modules, brokers and clients is one that the promise  *)
(* allows, or none.                                                        *)
LEMMA PromiseStep == Inv /\ Single /\ [Next]_vars => [Promise!Next]_(Promise!vars)
  <1> SUFFICES ASSUME Inv, Single, [Next]_vars
               PROVE  Promise!Next \/ UNCHANGED Promise!vars
    OBVIOUS
  <1>1. TypeOK /\ Shape /\ Callers /\ Bound /\ doubles = 0
    BY DEF Inv, Single
  <1>2. ASSUME NEW r \in Rank, ExitEvent(r) PROVE Promise!Next \/ UNCHANGED Promise!vars
    <2>1. Cardinality(entered) \in Nat
      BY <1>1, Typed, BarrierAssumption, FS_Subset, FS_CardinalityType DEF Typing
    <2> QED BY <1>1, <1>2, <2>1, AnswerKept
  <1>3. ASSUME NEW c \in Client, ClientEnter(c) PROVE Promise!Next
    <2>1. Promise!Call(c)
      BY <1>3 DEF ClientEnter, Promise!Call
    <2> QED BY <2>1 DEF Promise!Next
  <1>4. ASSUME NEW c \in Client, ClientGone(c) PROVE Promise!Next
    <2>1. Promise!Fault
      BY <1>4 DEF ClientGone, Promise!Fault
    <2> QED BY <2>1 DEF Promise!Next
  <1>5. ASSUME NEW c \in Client, ClientAgain(c) PROVE Promise!Next
    <2>1. UNCHANGED <<call, gone>> /\ doubles' = doubles + 1
      BY <1>5 DEF ClientAgain
    <2>2. doubles' > 0
      BY SMTT(60), <1>1, <2>1
    <2>3. Promise!Fault
      BY <2>1, <2>2 DEF Promise!Fault
    <2> QED BY <2>3 DEF Promise!Next
  <1>6. ASSUME UNCHANGED <<call, gone, doubles>> PROVE UNCHANGED Promise!vars
    BY <1>6 DEF Promise!vars
  <1> QED BY <1>2, <1>3, <1>4, <1>5, <1>6
          DEF vars, Next, Module, EnterRequest, DisconnectRequest, Timeout, Route, Deliver

(* While no client calls twice, the modules and brokers do only what       *)
(* flux_barrier promises: they answer those who wait, with success only    *)
(* when NProcs clients have called, with ECONNABORTED only after a client  *)
(* has gone.                                                               *)
THEOREM PromiseSafety ==
    ASSUME "double" \notin Faults
    PROVE  Spec => Promise!Init /\ [][Promise!Next]_(Promise!vars)
  <1>1. Init => Promise!Init /\ Single
    BY SMTT(60) DEF Init, Promise!Init, Single
  <1>2. Single /\ [Next]_vars => Single'
    BY DEF Single, vars, Next, Module, EnterRequest, DisconnectRequest, ExitEvent, Timeout, Route,
           Deliver, ClientEnter, ClientAgain, ClientGone, MayFail
  <1> QED BY <1>1, <1>2, PromiseStep, Invariance, PTL DEF Spec

(* enter_request_cb() and timeout_cb() together never leave a count on a   *)
(* rank below the root without a timer to pass it on.                      *)
THEOREM Moves == Spec => []CountMoves
  <1>1. Init => CountMoves
    BY SMTT(60) DEF Init, CountMoves, NoBarrier
  <1> QED
    BY <1>1, TypeInit, TypeStep, MovesStep, PTL DEF Spec

(* The state of the modules, brokers and clients keeps its types. *)
THEOREM Types == Spec => []TypeOK
  BY TypeInit, TypeStep, PTL DEF Spec
=============================================================================
