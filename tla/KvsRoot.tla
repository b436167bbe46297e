------------------------------ MODULE KvsRoot ------------------------------
(***************************************************************************)
(* One namespace of the KVS across the ranks: how the followers learn its  *)
(* root and keep up with it, how commits and fences reach rank 0 and are   *)
(* answered, and how the namespace comes and goes (modules/kvs/kvs.c,      *)
(* treq.c, kvsroot.c).  What rank 0 does with a complete transaction is    *)
(* the subject of KvsTxn and is one step here, CommitReady.                *)
(*                                                                         *)
(* Messages: a module has one FIFO of input.  Requests travel up the tree  *)
(* of brokers, responses and events travel down it over the same sockets.  *)
(* The brokers pass events on without waiting for the modules, and give    *)
(* them only to modules that have subscribed.                              *)
(***************************************************************************)
EXTENDS Integers, Sequences, FiniteSets, SequencesExt

CONSTANTS
    Rank,       \* the brokers' ranks, 0 is the root of the tree
    Up,         \* Up[r] is the rank above r, for r # 0
    Req,        \* the requests of clients
    At,         \* At[q]: the rank request q is sent to
    Kind,       \* Kind[q]: "commit", "fence" or "sync"
    Name,       \* Name[q]: the name of its transaction
    NProcs,     \* NProcs[n]: the nprocs of transaction n
    Version,    \* Version[q]: the rootseq a sync waits for
    Plans,      \* what may be asked of the system, see PlanAssumption
    MaxLife     \* bound: times the namespace is created

Names == {Name[q] : q \in {p \in Req : Kind[p] # "sync"}}

ASSUME TreeAssumption ==
    /\ 0 \in Rank /\ Rank \subseteq Nat
    /\ \A r \in Rank \ {0} : Up[r] \in Rank /\ Up[r] < r
ASSUME RequestAssumption ==
    /\ At \in [Req -> Rank] /\ Kind \in [Req -> {"commit", "fence", "sync"}]
    /\ \A q \in Req : NProcs[Name[q]] \in Nat \ {0} /\ Version[q] \in Nat
(* A plan has the requests clients may make, and bounds on the times the   *)
(* namespace is removed and dropped by a follower for its age.             *)
ASSUME PlanAssumption ==
    \A p \in Plans : p.reqs \subseteq Req /\ p.removes \in Nat /\ p.ages \in Nat

VARIABLES
    root,       \* root[r]: struct kvsroot; life tells its incarnations apart
    sub,        \* sub[r]: the events of the namespace the module gets
    treq,       \* treq[r][n]: the treq_t of name n in root->trm
    watch,      \* watch[r]: the sync requests in root->watchlist
    ready,      \* rank 0: the transactions in root->ktm, in order
    inq,        \* inq[r]: messages for the module on rank r
    up,         \* up[r]: messages from rank r to the broker above
    down,       \* down[r]: messages from the broker above to rank r
    plan,       \* the plan, chosen at the start
    sent,       \* the requests made so far
    answers,    \* answers[q]: the responses request q got, in order
    log,        \* history: the roots published by rank 0
    removes, ages   \* how much of the bounds is used

vars == <<root, sub, treq, watch, ready, inq, up, down, plan, sent, answers,
          log, removes, ages>>
bounds == <<plan, removes, ages>>

NoRoot == [here |-> FALSE, remove |-> FALSE, life |-> 0, seq |-> 0]
NoTreq == [count |-> 0, processed |-> FALSE, reqs |-> {}]
Errnum == {"ok", "EINVAL", "ENOTSUP", "EOVERFLOW"}

TypeOK ==
    /\ root \in [Rank -> [here : BOOLEAN, remove : BOOLEAN,
                          life : 0 .. MaxLife, seq : Nat]]
    /\ sub \in [Rank -> {"none", "removed", "all"}]
    /\ \A r \in Rank : \A n \in Names :
         /\ treq[r][n].count \in 0 .. NProcs[n]
         /\ treq[r][n].processed \in BOOLEAN /\ treq[r][n].reqs \subseteq Req
    /\ watch \in [Rank -> SUBSET Req] /\ sent \subseteq Req
    /\ ready \in Seq(Names)
    /\ answers \in [Req -> Seq(Errnum)]

Init ==
    /\ root = [r \in Rank |-> NoRoot]
    /\ sub = [r \in Rank |-> "none"]
    /\ treq = [r \in Rank |-> [n \in Names |-> NoTreq]]
    /\ watch = [r \in Rank |-> {}]
    /\ ready = <<>>
    /\ inq = [r \in Rank |-> <<>>] /\ up = inq /\ down = inq
    /\ plan \in Plans /\ sent = {} /\ answers = [q \in Req |-> <<>>] /\ log = <<>>
    /\ removes = 0 /\ ages = 0

-----------------------------------------------------------------------------
(* Slips the properties are to notice, as mutated forms of definitions.    *)

(* The error number is lost before the event is packed. *)
ErrorEventNone(N, e) == [t |-> "error", names |-> N, err |-> "ok"]
(* The error topic is left out of the subscription. *)
HearsNoError(r, m) ==
    (sub[r] = "all" /\ m.t # "error") \/ (sub[r] = "removed" /\ m.t = "removed")
(* setroot() skips the next root. *)
NewerNot(r, s) == s = 0 \/ s > root[r].seq + 1
(* A transaction that was answered is not removed. *)
ClearedNot(tr, r, N) == tr

-----------------------------------------------------------------------------
(* Messages *)

Request(q) == [t |-> "request", q |-> q]
(* kvs.getroot from rank r, on behalf of the stalled message m. *)
Getroot(r, m) == [t |-> "getroot", from |-> r, msg |-> m]
(* The response to it. *)
RootIs(m, e, x) == [t |-> "rootis", msg |-> m, err |-> e, life |-> x.life, seq |-> x.seq]
(* kvs.relaycommit and kvs.relayfence *)
Relay(q) == [t |-> "relay", q |-> q]
SetrootEvent(N, x) == [t |-> "setroot", names |-> N, life |-> x.life, seq |-> x.seq]
ErrorEvent(N, e) == [t |-> "error", names |-> N, err |-> e]
RemovedEvent == [t |-> "removed"]

Child(r) == {k \in Rank \ {0} : Up[k] = r}

(* module_event_mcast(): the module gets the events it has subscribed to. *)
Hears(r, m) == sub[r] = "all" \/ (sub[r] = "removed" /\ m.t = "removed")

(* handle_event() on rank r, given the input queues iq and links dn. *)
Heard(iq, r, m) == IF Hears(r, m) THEN [iq EXCEPT ![r] = Append(@, m)] ELSE iq
Cast(dn, r, m) == [k \in Rank |-> IF k \in Child(r) THEN Append(dn[k], m) ELSE dn[k]]

-----------------------------------------------------------------------------
(* Parts of the handlers *)

(* kvsroot_mgr_lookup_root_safe() *)
Usable(r) == root[r].here /\ ~root[r].remove

(* The condition of setroot(). *)
Newer(r, s) == s = 0 \/ s > root[r].seq

(* The sync requests that setroot() answers by running the watchlist. *)
Synced(r, s) == IF Newer(r, s) THEN {q \in watch[r] : Version[q] <= s} ELSE {}

(* treq_add_request_ops(): EOVERFLOW when the count is complete. *)
HasRoom(n, c) == c < NProcs[n]

(* treq_count_reached() once an entry has been added to count c. *)
Reached(n, c) == c + 1 = NProcs[n]

(* The requests finalize_transaction_bynames() answers. *)
Waiting(r, N) == UNION {treq[r][n].reqs : n \in N}
Cleared(tr, r, N) ==
    [tr EXCEPT ![r] = [n \in Names |-> IF n \in N THEN NoTreq ELSE @[n]]]

(* The answers after e to the requests in S and "ok" to those in T. *)
Respond(S, e, T) ==
    answers' = [q \in Req |-> answers[q] \o (IF q \in S THEN <<e>> ELSE <<>>)
                                         \o (IF q \in T THEN <<"ok">> ELSE <<>>)]

(* The transactions start_root_remove() ends on rank r. *)
Unfinished(r) == {n \in Names : ~treq[r][n].processed}

(* start_root_remove(): the watchers find no root, which is an error on     *)
(* rank 0 and a reason to ask upstream elsewhere; the transactions that are *)
(* not in the ready queue fail.                                             *)
StartRootRemove(r) ==
    /\ root' = [root EXCEPT ![r].remove = TRUE]
    /\ watch' = [watch EXCEPT ![r] = {}]
    /\ treq' = Cleared(treq, r, Unfinished(r))
    /\ Respond(Waiting(r, Unfinished(r)) \cup (IF r = 0 THEN watch[r] ELSE {}),
               "ENOTSUP", {})
    /\ up' = IF r = 0 THEN up ELSE
               [up EXCEPT ![r] = @ \o SetToSeq({Getroot(r, Request(q)) : q \in watch[r]})]

(* A complete entry on rank 0: kvstxn_mgr_add_transaction(). *)
Enqueue(n) == ready' = Append(ready, n)

(* An entry of transaction n on rank 0, with requests S to remember. *)
Count(n, S) ==
    LET tr == treq[0][n] done == Reached(n, tr.count) IN
    /\ treq' = [treq EXCEPT ![0][n] = [count |-> tr.count + 1,
                     processed |-> tr.processed \/ done, reqs |-> tr.reqs \cup S]]
    /\ IF done THEN Enqueue(n) ELSE UNCHANGED ready

-----------------------------------------------------------------------------
(* The module's handlers.  Gets(r, t) takes a message of type t.            *)

Msg(r) == Head(inq[r])
Gets(r, t) == inq[r] # <<>> /\ Msg(r).t = t
Rest(r) == [inq EXCEPT ![r] = Tail(@)]
Take(r) == inq' = Rest(r)

(* getroot() when there is no usable root: an error on rank 0, elsewhere   *)
(* the message stalls while the rank above is asked.                       *)
NoUsableRoot(r) ==
    /\ ~Usable(r) /\ Take(r)
    /\ \/ /\ r # 0
          /\ up' = [up EXCEPT ![r] = Append(@, Getroot(r, Msg(r)))]
          /\ UNCHANGED <<answers, down>>
       \/ /\ r = 0 /\ Msg(r).t = "request"
          /\ Respond({Msg(r).q}, "ENOTSUP", {}) /\ UNCHANGED <<up, down>>
       \/ /\ r = 0 /\ Msg(r).t = "getroot"
          /\ down' = [down EXCEPT ![Msg(r).from] =
                        Append(@, RootIs(Msg(r).msg, "ENOTSUP", NoRoot))]
          /\ UNCHANGED <<up, answers>>
    /\ UNCHANGED <<root, sub, treq, watch, ready, sent, log, bounds>>

(* commit_request_cb() *)
CommitRequest(r) ==
    /\ Gets(r, "request") /\ Kind[Msg(r).q] = "commit" /\ Usable(r) /\ Take(r)
    /\ LET q == Msg(r).q n == Name[q] IN
         /\ treq' = [treq EXCEPT ![r][n] = [count |-> 0, processed |-> r = 0,
                                            reqs |-> {q}]]
         /\ IF r = 0 THEN Enqueue(n) /\ UNCHANGED up
            ELSE up' = [up EXCEPT ![r] = Append(@, Relay(q))] /\ UNCHANGED ready
    /\ UNCHANGED <<root, sub, watch, down, sent, answers, log, bounds>>

(* fence_request_cb().  A request too many is answered with an error, and  *)
(* remembered all the same.                                                *)
FenceRequest(r) ==
    /\ Gets(r, "request") /\ Kind[Msg(r).q] = "fence" /\ Usable(r) /\ Take(r)
    /\ LET q == Msg(r).q n == Name[q]
           keep == treq' = [treq EXCEPT ![r][n].reqs = @ \cup {q}]
       IN \/ /\ r # 0 /\ keep
             /\ up' = [up EXCEPT ![r] = Append(@, Relay(q))]
             /\ UNCHANGED <<ready, answers>>
          \/ /\ r = 0 /\ HasRoom(n, treq[0][n].count)
             /\ Count(n, {q}) /\ UNCHANGED <<up, answers>>
          \/ /\ r = 0 /\ ~HasRoom(n, treq[0][n].count) /\ keep
             /\ Respond({q}, "EOVERFLOW", {}) /\ UNCHANGED <<up, ready>>
    /\ UNCHANGED <<root, sub, watch, down, sent, log, bounds>>

(* relaycommit_request_cb() and relayfence_request_cb() on rank 0. *)
RelayRequest ==
    /\ Gets(0, "relay")
    /\ LET q == Msg(0).q n == Name[q]
           fail(e) == /\ inq' = Heard(Rest(0), 0, ErrorEvent({n}, e))
                      /\ down' = Cast(down, 0, ErrorEvent({n}, e))
                      /\ UNCHANGED <<treq, ready>>
       IN \/ ~Usable(0) /\ fail("ENOTSUP")
          \/ /\ Usable(0) /\ Kind[q] = "commit"
             /\ Take(0) /\ Enqueue(n) /\ UNCHANGED <<treq, down>>
          \/ /\ Usable(0) /\ Kind[q] = "fence" /\ HasRoom(n, treq[0][n].count)
             /\ Take(0) /\ Count(n, {}) /\ UNCHANGED down
          \/ /\ Usable(0) /\ Kind[q] = "fence" /\ ~HasRoom(n, treq[0][n].count)
             /\ fail("EOVERFLOW")
    /\ UNCHANGED <<root, sub, watch, up, sent, answers, log, bounds>>

(* sync_request_cb() *)
SyncRequest(r) ==
    /\ Gets(r, "request") /\ Kind[Msg(r).q] = "sync" /\ Usable(r) /\ Take(r)
    /\ LET q == Msg(r).q IN
         IF root[r].seq < Version[q]
         THEN watch' = [watch EXCEPT ![r] = @ \cup {q}] /\ UNCHANGED answers
         ELSE Respond({}, "ok", {q}) /\ UNCHANGED watch
    /\ UNCHANGED <<root, sub, treq, ready, up, down, sent, log, bounds>>

(* getroot_request_cb() *)
GetrootRequest(r) ==
    /\ Gets(r, "getroot") /\ Usable(r) /\ Take(r)
    /\ down' = [down EXCEPT ![Msg(r).from] =
                  Append(@, RootIs(Msg(r).msg, "ok", root[r]))]
    /\ UNCHANGED <<root, sub, treq, watch, ready, up, sent, answers, log, bounds>>

(* getroot_completion() with an error: the stalled message gets it. *)
GetrootError(r) ==
    /\ Gets(r, "rootis") /\ Msg(r).err # "ok" /\ Take(r)
    /\ LET m == Msg(r).msg IN
         IF m.t = "request"
         THEN Respond({m.q}, Msg(r).err, {}) /\ UNCHANGED down
         ELSE /\ down' = [down EXCEPT ![m.from] =
                            Append(@, RootIs(m.msg, Msg(r).err, NoRoot))]
              /\ UNCHANGED answers
    /\ UNCHANGED <<root, sub, treq, watch, ready, up, sent, log, bounds>>

(* getroot_completion(): the root is created unless another response has   *)
(* done so, and the stalled message is handled again, before all others.   *)
GetrootCompletion(r) ==
    /\ Gets(r, "rootis") /\ Msg(r).err = "ok"
    /\ LET m == Msg(r)
           set == IF ~root[r].here \/ (~root[r].remove /\ Newer(r, m.seq))
                  THEN [here |-> TRUE, remove |-> FALSE, life |-> m.life, seq |-> m.seq]
                  ELSE root[r]
           synced == IF root[r].remove THEN {} ELSE Synced(r, m.seq)
       IN /\ root' = [root EXCEPT ![r] = set]
          /\ sub' = [sub EXCEPT ![r] = IF root[r].here THEN @ ELSE "all"]
          /\ inq' = [inq EXCEPT ![r] = <<m.msg>> \o Tail(@)]
          /\ watch' = [watch EXCEPT ![r] = @ \ synced]
          /\ Respond({}, "ok", synced)
    /\ UNCHANGED <<treq, ready, up, down, sent, log, bounds>>

(* setroot_event_cb() *)
SetrootEventCb(r) ==
    /\ Gets(r, "setroot") /\ Take(r)
    /\ LET m == Msg(r)
           synced == IF root[r].remove THEN {} ELSE Synced(r, m.seq)
       IN IF ~root[r].here THEN UNCHANGED <<root, treq, watch, answers>>
          ELSE /\ Respond(Waiting(r, m.names),
                          IF root[r].remove THEN "ENOTSUP" ELSE "ok", synced)
               /\ treq' = Cleared(treq, r, m.names)
               /\ watch' = [watch EXCEPT ![r] = @ \ synced]
               /\ root' = IF root[r].remove \/ ~Newer(r, m.seq) THEN root
                          ELSE [root EXCEPT ![r].life = m.life, ![r].seq = m.seq]
    /\ UNCHANGED <<sub, ready, up, down, sent, log, bounds>>

(* error_event_cb() *)
ErrorEventCb(r) ==
    /\ Gets(r, "error") /\ Take(r)
    /\ IF ~root[r].here THEN UNCHANGED <<treq, answers>>
       ELSE /\ Respond(Waiting(r, Msg(r).names), Msg(r).err, {})
            /\ treq' = Cleared(treq, r, Msg(r).names)
    /\ UNCHANGED <<root, sub, watch, ready, up, down, sent, log, bounds>>

(* namespace_removed_event_cb() *)
RemovedEventCb(r) ==
    /\ Gets(r, "removed") /\ Take(r)
    /\ IF Usable(r) THEN StartRootRemove(r)
       ELSE UNCHANGED <<root, watch, treq, answers, up>>
    /\ UNCHANGED <<sub, ready, down, sent, log, bounds>>

-----------------------------------------------------------------------------
(* Rank 0 and the heartbeat *)

(* kvstxn_mgr_remove_transaction(), of k transactions that were merged. *)
Done(k) == SubSeq(ready, k + 1, Len(ready))

(* What becomes of the first k transactions: they fail if the namespace is *)
(* being removed; else one alone may fail, while merged ones that fail are *)
(* tried again one at a time.                                              *)
Outcome(k) == IF root[0].remove THEN {"ENOTSUP"}
              ELSE {"ok"} \cup (IF k = 1 THEN {"EINVAL"} ELSE {})

(* kvstxn_apply(), as far as this module sees it: the first transactions   *)
(* of the queue, merged, become a new root, or fail.                       *)
CommitReady ==
    /\ ready # <<>>
    /\ \E k \in 1 .. Len(ready) : \E e \in Outcome(k) :
         LET N == {ready[i] : i \in 1 .. k}
             x == [root[0] EXCEPT !.seq = @ + 1]
             m == IF e = "ok" THEN SetrootEvent(N, x) ELSE ErrorEvent(N, e)
             synced == IF e = "ok" THEN Synced(0, x.seq) ELSE {}
         IN /\ ready' = Done(k)
            /\ inq' = Heard(inq, 0, m) /\ down' = Cast(down, 0, m)
            /\ root' = IF e = "ok" THEN [root EXCEPT ![0] = x] ELSE root
            /\ log' = IF e = "ok" THEN Append(log, m) ELSE log
            /\ watch' = [watch EXCEPT ![0] = @ \ synced]
            /\ Respond({}, "ok", synced)
    /\ UNCHANGED <<sub, treq, up, sent, bounds>>

(* namespace_remove_request_cb() *)
NamespaceRemove ==
    /\ Usable(0) /\ removes < plan.removes /\ removes' = removes + 1
    /\ inq' = Heard(inq, 0, RemovedEvent) /\ down' = Cast(down, 0, RemovedEvent)
    /\ StartRootRemove(0)
    /\ UNCHANGED <<sub, ready, plan, sent, log, ages>>

(* namespace_create_request_cb() *)
NamespaceCreate ==
    /\ ~root[0].here /\ removes < MaxLife
    /\ root' = [root EXCEPT ![0] = [here |-> TRUE, remove |-> FALSE,
                                    life |-> removes + 1, seq |-> 0]]
    /\ sub' = [sub EXCEPT ![0] = "all"]
    /\ UNCHANGED <<treq, watch, ready, inq, up, down, sent, answers, log, bounds>>

NoWork(r) == /\ watch[r] = {} /\ \A n \in Names : treq[r][n] = NoTreq
             /\ r = 0 => ready = <<>>

(* heartbeat_root_cb(): a root marked for removal goes when nothing is     *)
(* left to be done for it.  The subscription to its removal stays.         *)
HeartbeatRemove(r) ==
    /\ root[r].remove /\ NoWork(r)
    /\ root' = [root EXCEPT ![r] = NoRoot]
    /\ sub' = [sub EXCEPT ![r] = "removed"]
    /\ UNCHANGED <<treq, watch, ready, inq, up, down, sent, answers, log, bounds>>

(* heartbeat_root_cb(): a follower gives up a root that is not in use. *)
HeartbeatAge(r) ==
    /\ r # 0 /\ Usable(r) /\ NoWork(r) /\ ages < plan.ages /\ ages' = ages + 1
    /\ root' = [root EXCEPT ![r].remove = TRUE]
    /\ UNCHANGED <<sub, treq, watch, ready, inq, up, down, sent, answers, log,
                   plan, removes>>

-----------------------------------------------------------------------------
(* Brokers and clients *)

(* A request goes one rank up; a relayed one is for the module on rank 0. *)
RouteUp(r) ==
    /\ r # 0 /\ up[r] # <<>>
    /\ LET m == Head(up[r]) rest == [up EXCEPT ![r] = Tail(@)] IN
         IF m.t = "getroot" \/ Up[r] = 0
         THEN inq' = [inq EXCEPT ![Up[r]] = Append(@, m)] /\ up' = rest
         ELSE up' = [rest EXCEPT ![Up[r]] = Append(@, m)] /\ UNCHANGED inq
    /\ UNCHANGED <<root, sub, treq, watch, ready, down, sent, answers, log, bounds>>

(* parent_cb(): a response for this rank, or an event for all below. *)
RouteDown(r) ==
    /\ down[r] # <<>>
    /\ LET m == Head(down[r]) rest == [down EXCEPT ![r] = Tail(@)] IN
         IF m.t = "rootis"
         THEN inq' = [inq EXCEPT ![r] = Append(@, m)] /\ down' = rest
         ELSE inq' = Heard(inq, r, m) /\ down' = Cast(rest, r, m)
    /\ UNCHANGED <<root, sub, treq, watch, ready, up, sent, answers, log, bounds>>

Send(q) ==
    /\ q \in plan.reqs \ sent /\ sent' = sent \cup {q}
    /\ inq' = [inq EXCEPT ![At[q]] = Append(@, Request(q))]
    /\ UNCHANGED <<root, sub, treq, watch, ready, up, down, answers, log, bounds>>

Module(r) ==
    \/ (Gets(r, "request") \/ Gets(r, "getroot")) /\ NoUsableRoot(r)
    \/ CommitRequest(r) \/ FenceRequest(r) \/ SyncRequest(r)
    \/ GetrootRequest(r) \/ GetrootError(r) \/ GetrootCompletion(r)
    \/ SetrootEventCb(r) \/ ErrorEventCb(r) \/ RemovedEventCb(r)
    \/ r = 0 /\ RelayRequest

Next ==
    \/ \E r \in Rank : \/ Module(r) \/ RouteUp(r) \/ RouteDown(r)
                       \/ HeartbeatRemove(r) \/ HeartbeatAge(r)
    \/ CommitReady \/ NamespaceRemove \/ NamespaceCreate
    \/ \E q \in Req : Send(q)

Spec == Init /\ [][Next]_vars

(* The reactors serve their messages, the commit pipeline its queue, and   *)
(* heartbeats come for ever; clients and administrators may do nothing.    *)
Fairness ==
    /\ \A r \in Rank : /\ WF_vars(Module(r)) /\ WF_vars(RouteUp(r))
                       /\ WF_vars(RouteDown(r)) /\ WF_vars(HeartbeatRemove(r))
    /\ WF_vars(CommitReady)

FairSpec == Spec /\ Fairness

-----------------------------------------------------------------------------
(* Properties *)

Members(n) == {q \in Req : Kind[q] # "sync" /\ Name[q] = n}
(* A fence that more clients enter than it was declared for. *)
Crowded(n) == Cardinality(Members(n) \cap plan.reqs) > NProcs[n]
Committed(n) == \E i \in DOMAIN log : n \in log[i].names
Got(q, e) == \E i \in DOMAIN answers[q] : answers[q][i] = e
Writes == {q \in Req : Kind[q] # "sync" /\ ~Crowded(Name[q])}

(* The answer to a commit or fence tells what became of it: success only   *)
(* if rank 0 has published a root with its changes, failure only if it has *)
(* not or the namespace has been removed.                                  *)
AnswerTruth ==
    \A q \in Writes : /\ Got(q, "ok") => Committed(Name[q])
                      /\ Got(q, "EINVAL") => ~Committed(Name[q])
                      /\ Got(q, "ENOTSUP") => ~Committed(Name[q]) \/ removes > 0

(* A request is answered at most once, although the removal of the         *)
(* namespace, the setroot event and the error event each answer it.        *)
AnsweredOnce == \A q \in Req : (q \in Writes \/ Kind[q] = "sync") => Len(answers[q]) <= 1

(* The same without the exception. *)
Monotonic ==
    [][\A r \in Rank : root[r].here /\ root'[r].here /\ root'[r].life = root[r].life
         => root'[r].seq >= root[r].seq]_vars

(* A client that is told that its commit succeeded finds it in the root of *)
(* the rank it asked, unless the rank has gone back to the first root or   *)
(* has given up the namespace for its age since.                           *)
ReadYourWrites ==
    \A q \in Writes : Got(q, "ok") /\ Usable(At[q]) /\ ages = 0
      => \/ root[At[q]].seq = 0
         \/ \E i \in DOMAIN log : /\ Name[q] \in log[i].names
                                  /\ log[i].seq <= root[At[q]].seq

(* When nothing is left to be done or delivered, all ranks that have the   *)
(* namespace have the root of rank 0.                                      *)
Quiet == ready = <<>> /\ \A r \in Rank : inq[r] \o up[r] \o down[r] = <<>>
EventuallyConsistent ==
    Quiet => \A r \in Rank : Usable(r) => Usable(0) /\ root[r].seq = root[0].seq

(* A commit is answered, and so is a fence once all have entered it,       *)
(* unless one of them was refused.                                         *)
Completes ==
    \A q \in Req : Kind[q] # "sync" =>
      (/\ q \in sent /\ ~Crowded(Name[q])
       /\ Cardinality(Members(Name[q]) \cap sent) = NProcs[Name[q]])
      ~> \E p \in Members(Name[q]) : Got(p, "ENOTSUP") \/ answers[q] # <<>>

=============================================================================
