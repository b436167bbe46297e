------------------------------ MODULE Barrier ------------------------------
(***************************************************************************)
(* The barrier module (modules/barrier/barrier.c), one instance on each    *)
(* broker, with the way its messages travel: counts go up the tree of      *)
(* brokers as requests, the exit event goes up to rank 0 and is published  *)
(* from there to every rank (broker/broker.c).                             *)
(*                                                                         *)
(* One barrier name is modelled, since barrier.h asks for names that are   *)
(* unique in the session, and every client enters it at most once unless   *)
(* it makes the mistake of entering twice.                                 *)
(***************************************************************************)
EXTENDS Integers, Sequences, FiniteSets, Queues

CONSTANTS
    Rank,       \* the brokers' ranks, 0 is the root
    Parent,     \* Parent[r] is the broker above r, for r # 0
    Client,     \* the processes that call flux_barrier
    Placements, \* the ways to connect the clients to ranks
    NProcs,     \* the nprocs argument they all give
    Faults,     \* what clients may do wrong: a subset of {"gone", "double"}
    MaxFault    \* bound: how many times clients do so

ASSUME BarrierAssumption ==
    /\ 0 \in Rank /\ Rank \subseteq Nat
    /\ IsFiniteSet(Rank) /\ IsFiniteSet(Client)
    /\ \A r \in Rank \ {0} : Parent[r] \in Rank /\ Parent[r] < r
    /\ Placements \subseteq [Client -> Rank]
    /\ NProcs \in Nat \ {0} /\ MaxFault \in Nat

VARIABLES
    at,         \* at[c]: the rank client c is connected to, never changed
    barrier,    \* barrier[r]: the entry of ctx->barriers on rank r
    armed,      \* armed[r]: ctx->timer_armed
    inq,        \* inq[r]: messages on their way to the module on rank r
    up,         \* up[r]: messages from rank r to its parent's broker
    down,       \* down[r]: events from the parent's broker to rank r
    call,       \* call[c]: how far client c's call of flux_barrier is
    gone,       \* clients that have disconnected
    doubles,    \* second calls made so far
    entered     \* history: clients that have called flux_barrier

vars == <<at, barrier, armed, inq, up, down, call, gone, doubles, entered>>

NoBarrier == [here |-> FALSE, count |-> 0, clients |-> {}]

Enter(c)     == [type |-> "enter", from |-> {c}, count |-> 1, errnum |-> "0"]
EnterUp(n)   == [type |-> "enter", from |-> {},  count |-> n, errnum |-> "0"]
Exit(e)      == [type |-> "exit",  from |-> {},  count |-> 0, errnum |-> e]
Leave(c)     == [type |-> "leave", from |-> {c}, count |-> 0, errnum |-> "0"]

Message == [type : {"enter", "exit", "leave"}, from : SUBSET Client,
            count : Nat, errnum : {"0", "ECONNABORTED"}]

TypeOK ==
    /\ at \in Placements
    /\ barrier \in [Rank -> [here : BOOLEAN, count : Nat, clients : SUBSET Client]]
    /\ armed \in [Rank -> BOOLEAN]
    /\ inq \in [Rank -> Seq(Message)]
    /\ up \in [Rank -> Seq(Message)]
    /\ down \in [Rank -> Seq(Message)]
    /\ call \in [Client -> {"none", "waiting", "0", "ECONNABORTED"}]
    /\ gone \subseteq Client /\ entered \subseteq Client
    /\ doubles \in Nat

Init ==
    /\ at \in Placements
    /\ barrier = [r \in Rank |-> NoBarrier]
    /\ armed = [r \in Rank |-> FALSE]
    /\ inq = [r \in Rank |-> <<>>]
    /\ up = [r \in Rank |-> <<>>]
    /\ down = [r \in Rank |-> <<>>]
    /\ call = [c \in Client |-> "none"]
    /\ gone = {} /\ doubles = 0 /\ entered = {}

-----------------------------------------------------------------------------
(* Plausible slips in the code, each the mutated form of a definition.     *)

ForwardedKept(b) == b
ArmsNever(r, b) == FALSE

-----------------------------------------------------------------------------
(* The parts of the handlers.                                              *)

(* The brokers events are forwarded to (overlay_mcast_child). *)
Child(r) == {k \in Rank \ {0} : Parent[k] = r}

(* `b->count == b->nprocs` *)
CountReached(n) == n = NProcs

(* A client already in b->clients: barrier_add_client fails, EEXIST. *)
Double(b, m) == m.from \cap b.clients # {}

(* The entry after a request; a second entry of a client is not counted. *)
Entered(b, m) ==
    IF Double(b, m) THEN [b EXCEPT !.here = TRUE]
    ELSE [here |-> TRUE, count |-> b.count + m.count, clients |-> b.clients \cup m.from]

(* A slip: the exit event is sent one entry early. *)
ExitEventsEarly(b, m) ==
    IF Double(b, m) THEN <<Exit("ECONNABORTED")>>
    ELSE IF CountReached(b.count + m.count + 1) THEN <<Exit("0")>> ELSE <<>>

(* The exit event an entry gives rise to, if any. *)
ExitEvents(b, m) ==
    IF Double(b, m) THEN <<Exit("ECONNABORTED")>>
    ELSE IF CountReached(b.count + m.count) THEN <<Exit("0")>> ELSE <<>>

(* Whether an entry starts the timer that passes the count upstream. *)
Arms(r, b) == r # 0 /\ ~CountReached(b.count)

(* The entry after its count has been passed upstream. *)
Forwarded(b) == [b EXCEPT !.count = 0]

(* What timeout_cb sends upstream. *)
Upward(r, b) == IF b.count > 0 THEN Append(up[r], EnterUp(b.count)) ELSE up[r]

(* The answers the exit event gives to the clients of a barrier. *)
Ended(b, e) == [c \in Client |-> IF c \in b.clients \ gone THEN e ELSE call[c]]

-----------------------------------------------------------------------------
(* The module's handlers on rank r.                                        *)

Take(r) == inq' = [inq EXCEPT ![r] = Tail(@)]

(* enter_request_cb *)
EnterRequest(r) ==
    /\ inq[r] # <<>> /\ Head(inq[r]).type = "enter"
    /\ Take(r)
    /\ LET m == Head(inq[r])
           b == barrier[r]
       IN  /\ barrier' = [barrier EXCEPT ![r] = Entered(b, m)]
           /\ up' = [up EXCEPT ![r] = @ \o ExitEvents(b, m)]
           /\ armed' = [armed EXCEPT ![r] =
                          @ \/ (~Double(b, m) /\ Arms(r, Entered(b, m)))]
    /\ UNCHANGED <<at, down, call, gone, doubles, entered>>

(* disconnect_request_cb *)
DisconnectRequest(r) ==
    /\ inq[r] # <<>> /\ Head(inq[r]).type = "leave"
    /\ Take(r)
    /\ up' = IF Double(barrier[r], Head(inq[r]))
             THEN [up EXCEPT ![r] = Append(@, Exit("ECONNABORTED"))] ELSE up
    /\ UNCHANGED <<at, barrier, armed, down, call, gone, doubles, entered>>

(* exit_event_cb *)
ExitEvent(r) ==
    /\ inq[r] # <<>> /\ Head(inq[r]).type = "exit"
    /\ Take(r)
    /\ call' = Ended(barrier[r], Head(inq[r]).errnum)
    /\ barrier' = [barrier EXCEPT ![r] = NoBarrier]
    /\ UNCHANGED <<at, armed, up, down, gone, doubles, entered>>

(* timeout_cb *)
Timeout(r) ==
    /\ armed[r]
    /\ armed' = [armed EXCEPT ![r] = FALSE]
    /\ up' = [up EXCEPT ![r] = Upward(r, barrier[r])]
    /\ barrier' = [barrier EXCEPT ![r] = Forwarded(@)]
    /\ UNCHANGED <<at, inq, down, call, gone, doubles, entered>>

-----------------------------------------------------------------------------
(* The brokers.                                                            *)

(* handle_event: to the children's brokers, then to the local module. *)
Publish(r, m) ==
    /\ inq' = [inq EXCEPT ![r] = Append(@, m)]
    /\ down' = [k \in Rank |-> IF k \in Child(r) THEN Append(down[k], m) ELSE down[k]]

(* A message from the module on rank r reaches the next broker: a request  *)
(* the module on the parent's rank, an event the next hop to rank 0.       *)
Route(r) ==
    /\ up[r] # <<>>
    /\ LET m == Head(up[r])
           rest == [up EXCEPT ![r] = Tail(@)]
       IN  \/ /\ r = 0
              /\ Publish(0, m) /\ up' = rest
           \/ /\ r # 0 /\ m.type = "exit"
              /\ up' = [rest EXCEPT ![Parent[r]] = Append(@, m)]
              /\ UNCHANGED <<inq, down>>
           \/ /\ r # 0 /\ m.type = "enter"
              /\ inq' = [inq EXCEPT ![Parent[r]] = Append(@, m)]
              /\ up' = rest /\ UNCHANGED down
    /\ UNCHANGED <<at, barrier, armed, call, gone, doubles, entered>>

(* parent_cb: an event arrives from the parent. *)
Deliver(r) ==
    /\ down[r] # <<>>
    /\ LET m == Head(down[r])
       IN  /\ inq' = [inq EXCEPT ![r] = Append(@, m)]
           /\ down' = [k \in Rank |-> CASE k = r -> Tail(down[k])
                                        [] k \in Child(r) -> Append(down[k], m)
                                        [] OTHER -> down[k]]
    /\ UNCHANGED <<at, barrier, armed, up, call, gone, doubles, entered>>

-----------------------------------------------------------------------------
(* The clients.                                                            *)

Send(c, m) == inq' = [inq EXCEPT ![at[c]] = Append(@, m)]

(* flux_barrier *)
ClientEnter(c) ==
    /\ call[c] = "none"
    /\ call' = [call EXCEPT ![c] = "waiting"]
    /\ entered' = entered \cup {c}
    /\ Send(c, Enter(c))
    /\ UNCHANGED <<at, barrier, armed, up, down, gone, doubles>>

MayFail(f) == f \in Faults /\ doubles + Cardinality(gone) < MaxFault

(* A client that waits calls flux_barrier again with the same name. *)
ClientAgain(c) ==
    /\ call[c] = "waiting" /\ c \notin gone /\ MayFail("double")
    /\ doubles' = doubles + 1
    /\ Send(c, Enter(c))
    /\ UNCHANGED <<at, barrier, armed, up, down, call, gone, entered>>

(* A client that waits dies; its connector sends the disconnect request. *)
ClientGone(c) ==
    /\ call[c] = "waiting" /\ c \notin gone /\ MayFail("gone")
    /\ gone' = gone \cup {c}
    /\ Send(c, Leave(c))
    /\ UNCHANGED <<at, barrier, armed, up, down, call, doubles, entered>>

Module(r) == EnterRequest(r) \/ DisconnectRequest(r) \/ ExitEvent(r)

Next ==
    \/ \E r \in Rank : Module(r) \/ Timeout(r) \/ Route(r) \/ Deliver(r)
    \/ \E c \in Client : ClientEnter(c) \/ ClientAgain(c) \/ ClientGone(c)

Spec == Init /\ [][Next]_vars

(* A reactor serves every message and every timer that fires; clients may  *)
(* stop at will.                                                           *)
Fairness == \A r \in Rank :
    /\ WF_vars(Module(r)) /\ WF_vars(Timeout(r))
    /\ WF_vars(Route(r)) /\ WF_vars(Deliver(r))

FairSpec == Spec /\ Fairness

-----------------------------------------------------------------------------
(* Properties.                                                             *)

Promise == INSTANCE BarrierSpec WITH fault <- (gone # {} \/ doubles > 0)

(* The modules and brokers together keep the promise of flux_barrier:      *)
(* success only after nprocs clients have called, however the counts were  *)
(* batched on their way up; ECONNABORTED only after a fault; and without   *)
(* one, an answer to every caller of a full barrier.                       *)
KeepsPromise == Promise!Spec

InFlight(q) == Sum([i \in DOMAIN q |-> q[i].count])

(* What is counted on rank r or leaves it. *)
Load == [r \in Rank |-> barrier[r].count + InFlight(inq[r]) + InFlight(up[r])]

ExitSent ==
    \/ \E r \in Rank : \E i \in DOMAIN up[r] : up[r][i].type = "exit"
    \/ \E r \in Rank : \E i \in DOMAIN down[r] : down[r][i].type = "exit"
    \/ \E r \in Rank : \E i \in DOMAIN inq[r] : inq[r][i].type = "exit"
    \/ \E c \in Client : call[c] \in {"0", "ECONNABORTED"}

(* Until the barrier ends or is aborted, every entry is counted in just    *)
(* one place: in a request on its way, or by the barrier on one rank.      *)
(* timeout_cb must neither lose nor repeat a count it passes upstream.     *)
CountedOnce ==
    (doubles = 0 /\ gone = {} /\ ~ExitSent) => Cardinality(entered) = Sum(Load)

(* A count below the root never waits without a timer to pass it on.       *)
CountMoves ==
    \A r \in Rank \ {0} : barrier[r].count \notin {0, NProcs} => armed[r]

(* "abort any pending barriers it was participating in" (barrier.c,        *)
(* disconnect_request_cb): a barrier is aborted as a whole, no client gets *)
(* success where another one has been told ECONNABORTED.                   *)
AbortsWhole ==
    \A c, d \in Client : ~(call[c] = "0" /\ call[d] = "ECONNABORTED")
=============================================================================
