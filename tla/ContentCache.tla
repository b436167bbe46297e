---------------------------- MODULE ContentCache ----------------------------
(***************************************************************************)
(* The content service: src/broker/content-cache.c on every rank, and its  *)
(* backing store on rank 0, src/modules/content-sqlite/content-sqlite.c.    *)
(*                                                                         *)
(* The caches form a tree.  Rank > 0 writes through: a store is answered   *)
(* when the parent has answered.  Rank 0 writes back: it answers at once,  *)
(* and copies dirty entries to the backing store, if there is one, at most *)
(* Limit at a time.  The backing store can be unloaded: it then returns    *)
(* all it holds to the cache.                                              *)
(*                                                                         *)
(* A handler runs to its end without interruption, so it is one action.    *)
(* Requests and answers between two nodes keep their order.  A blobref is  *)
(* represented by the blob it is the hash of.                              *)
(***************************************************************************)
EXTENDS Integers, Sequences, FiniteSets

CONSTANTS
    Rank,           \* brokers; 0 is the root of the tree
    Client,         \* users of the service
    Module,         \* content-sqlite
    Parent,         \* Parent[n]: the rank that client or rank n sends to
    Blob,
    Huge,           \* the blobs larger than content.blob-size-limit
    Limit,          \* content.flush-batch-limit
    Ops,            \* Ops[c]: the requests that client c makes
    MaxReq,         \* bound: requests made by clients
    MaxFail,        \* bound: errors of the backing store
    MaxUnload       \* bound: times the backing store is unloaded

Node == Rank \cup Client \cup {Module}
NoBlob == "-"

ASSUME TreeAssumption ==
    /\ 0 \in Rank /\ Rank \subseteq Nat /\ Rank \cap (Client \cup {Module}) = {}
    /\ Module \notin Client
    /\ Parent \in [(Rank \ {0}) \cup Client \cup {Module} -> Rank]
    /\ Parent[Module] = 0 /\ \A r \in Rank \ {0} : Parent[r] < r
ASSUME BlobAssumption == IsFiniteSet(Blob) /\ Huge \subseteq Blob /\ NoBlob \notin Blob
ASSUME OpsAssumption == Ops \in [Client -> SUBSET ([op : {"load", "store"}, b : Blob]
                                                   \cup [op : {"flush"}, b : {NoBlob}])]
ASSUME LimitAssumption ==
    Limit \in Nat \ {0} /\ MaxReq \in Nat /\ MaxFail \in Nat /\ MaxUnload \in Nat

VARIABLES
    cache,          \* cache[r]: struct content_cache of rank r
    backing,        \* cache->backing of rank 0
    up,             \* up[n]: requests on their way from n to Parent[n]
                    \*   (up[0]: to the backing store)
    down,           \* down[n]: answers on their way to n
    waiting,        \* clients (and the module) with a request outstanding
    reqs,           \* requests made by clients so far
    mod,            \* the backing store module: where it is in its life
    db,             \* the blobs in its database
    dump,           \* what it has still to return to the cache
    closing,        \* ctx->broker_shutdown: it knows that the session ends
    fails, unloads,
    lost,           \* the requests that rank 0 sent it and it took with it
    acked,          \* blobs whose store was answered with success to a client
    discarded,      \* blobs that a failed load removed although they were valid
    aborted         \* an entry was freed with a request deferred, which an
                    \*   assertion forbids, or pending, which comes back to it

modVars == <<mod, db, dump, closing, fails, unloads, lost>>
vars == <<cache, backing, up, down, waiting, reqs, modVars, acked, discarded, aborted>>

Errnum == {"ok", "ENOENT", "ENOSYS", "EIO", "EFBIG"}
Req(op, b) == [op |-> op, b |-> b]
Rsp(op, b, e) == [op |-> op, b |-> b, err |-> e]

(* struct content_cache and its entries.  An entry is in the cache when it is *)
(* in present; the other sets are its flags and its two request lists.      *)
Cache == [present : SUBSET Blob, valid : SUBSET Blob, dirty : SUBSET Blob,
          loading : SUBSET Blob,            \* load_pending
          storing : SUBSET Blob,            \* store_pending
          loadReq : SUBSET (Node \X Blob), storeReq : SUBSET (Node \X Blob),
          flushReq : SUBSET Node,
          acct : Nat,                       \* acct_dirty
          batch : Nat]                      \* flush_batch_count
EmptyCache == [present |-> {}, valid |-> {}, dirty |-> {}, loading |-> {},
               storing |-> {}, loadReq |-> {}, storeReq |-> {},
               flushReq |-> {}, acct |-> 0, batch |-> 0]

Life == {"out", "loading", "up", "stopping", "dumping", "drained"}
Request == [op : {"load", "store"}, b : Blob]
             \cup [op : {"flush", "on", "off"}, b : {NoBlob}]
Response == [op : {"load", "store"}, b : Blob, err : Errnum]
              \cup [op : {"flush", "on", "off"}, b : {NoBlob}, err : Errnum]

TypeOK ==
    /\ cache \in [Rank -> Cache] /\ backing \in BOOLEAN
    /\ up \in [Node -> Seq(Request)] /\ down \in [Node -> Seq(Response)]
    /\ waiting \subseteq Client \cup {Module} /\ reqs \in 0..MaxReq
    /\ mod \in Life /\ db \subseteq Blob /\ dump \subseteq Blob
    /\ closing \in BOOLEAN /\ fails \in 0..MaxFail /\ unloads \in 0..MaxUnload
    /\ lost \subseteq Request
    /\ acked \subseteq Blob /\ discarded \subseteq Blob /\ aborted \in BOOLEAN

Init ==
    /\ cache = [r \in Rank |-> EmptyCache] /\ backing = FALSE
    /\ up = [n \in Node |-> <<>>] /\ down = [n \in Node |-> <<>>]
    /\ waiting = {} /\ reqs = 0
    /\ mod = "out" /\ db = {} /\ dump = {} /\ closing = FALSE
    /\ fails = 0 /\ unloads = 0 /\ lost = {}
    /\ acked = {} /\ discarded = {} /\ aborted = FALSE

----------------------------------------------------------------------------
(* Messages *)

(* The service content-backing has a module, if only one about to exit. *)
Registered == mod \in {"up", "stopping", "dumping", "drained"}
(* An RPC can be sent upstream.  On rank 0 flux_send() fails at once with     *)
(* ENOSYS when there is no service; elsewhere the parent takes all requests. *)
Connected(r) == r > 0 \/ Registered

(* Rank r sends requests rq upstream and answers ans[n] to each node n; U and *)
(* D are the queues without the message being handled.                      *)
Post(U, D, r, rq, ans) ==
    LET done == {n \in Client \cup {Module} : ans[n] # <<>>} IN
    /\ up' = [n \in Node |-> IF n = r THEN U[n] \o rq ELSE U[n]]
    /\ down' = [n \in Node |-> D[n] \o ans[n]]
    /\ waiting' = waiting \ done
    /\ acked' = acked \cup {b \in Blob : \E n \in done \ {Module} :
                  \E i \in DOMAIN ans[n] : ans[n][i] = Rsp("store", b, "ok")}

(* respond_requests_raw(): the same answer to all nodes of N. *)
Answers(N, m) == [n \in Node |-> IF n \in N THEN <<m>> ELSE <<>>]
Both(a, c) == [n \in Node |-> a[n] \o c[n]]
Silence == Answers({}, {})
Waiters(S, b) == {n \in Node : <<n, b>> \in S}

(* Rank r takes the next request of n, or its own next answer. *)
Asks(r, n, op) ==
    /\ ~aborted /\ n \in DOMAIN Parent /\ Parent[n] = r
    /\ up[n] # <<>> /\ Head(up[n]).op = op
Hears(r, op) == ~aborted /\ down[r] # <<>> /\ Head(down[r]).op = op
Taken(q, n) == [q EXCEPT ![n] = Tail(@)]

----------------------------------------------------------------------------
(* Mutants: plausible bugs, to see that the properties notice them *)

(* A second request for an entry that has one pending. *)
StoreAgain(k, r, b) == r = 0 => k.batch < Limit
(* An entry stored while the backing store is unloaded stays clean. *)
RedirtyNone(k, r, b) == k
(* Dirty entries are removed without a look at the account. *)
RemovedUncounted(k, B) ==
    [k EXCEPT !.present = @ \ B, !.valid = @ \ B, !.dirty = @ \ B]
(* An entry whose store failed is taken for stored. *)
StoredAlways(k, b, e) ==
    LET k1 == [k EXCEPT !.storing = @ \ {b}, !.batch = @ - 1]
    IN IF b \in k.dirty THEN [k1 EXCEPT !.dirty = @ \ {b}, !.acct = @ - 1] ELSE k1
(* The low water mark is compared with <, not <=. *)
ResumeBelow(k, r) == k.acct # k.batch /\ k.batch < Limit \div 2

----------------------------------------------------------------------------
(* Entries *)

(* cache_load(): send a request, unless one is pending. *)
Loads(k, b) == b \notin k.loading
(* cache_store(): the same, within the limit on rank 0. *)
Stores(k, r, b) == b \notin k.storing /\ (r = 0 => k.batch < Limit)
Storing(k, B, count) == [k EXCEPT !.storing = @ \cup B, !.batch = @ + count]

(* cache_flush(): the entries it sends, in the order of a hash table; it      *)
(* fails when it has some to send and cannot.                               *)
Flushable(k) == k.acct # k.batch /\ k.batch < Limit
FlushFails(k, r) == Flushable(k) /\ ~Connected(r)
FlushSeqs(k, r) ==
    LET D == k.dirty \ k.storing
        room == Limit - k.batch
        count == IF Cardinality(D) < room THEN Cardinality(D) ELSE room
    IN IF ~Flushable(k) \/ ~Connected(r) THEN {<<>>}
       ELSE {s \in [1..count -> D] : \A i, j \in 1..count : s[i] = s[j] => i = j}
Flushing(k, s) == Storing(k, {s[i] : i \in DOMAIN s}, Len(s))
StoreReqs(s) == [i \in DOMAIN s |-> Req("store", s[i])]

(* A store makes an entry valid and dirty. *)
Filled(k, b) ==
    IF b \in k.valid THEN k
    ELSE [k EXCEPT !.present = @ \cup {b}, !.valid = @ \cup {b},
                   !.loadReq = @ \ (Node \X {b}),
                   !.dirty = @ \cup {b}, !.acct = @ + 1]
(* "When a backing store module is unloaded, it will clear cache->backing     *)
(* then attempt to store all its blobs."                                    *)
Redirtied(k, r, b) ==
    IF b \notin k.dirty /\ r = 0 /\ ~backing
    THEN [k EXCEPT !.dirty = @ \cup {b}, !.acct = @ + 1] ELSE k
(* cache_store_continuation(): a success makes the entry clean. *)
Stored(k, b, e) ==
    LET k1 == [k EXCEPT !.storing = @ \ {b}, !.batch = @ - 1]
    IN IF e = "ok" /\ b \in k.dirty
       THEN [k1 EXCEPT !.dirty = @ \ {b}, !.acct = @ - 1] ELSE k1
(* remove_entry() *)
Removed(k, B) ==
    [k EXCEPT !.present = @ \ B, !.valid = @ \ B, !.dirty = @ \ B,
              !.acct = @ - Cardinality(B \cap k.dirty)]
(* "... can be dropped without data loss" *)
Droppable(k) == k.valid \ k.dirty

----------------------------------------------------------------------------
(* Handlers of content-cache.c *)

Become(r, k) == cache' = [cache EXCEPT ![r] = k]
Rest == UNCHANGED <<backing, reqs, modVars, discarded, aborted>>

(* content_load_request() *)
LoadRequest(r, n) ==
    LET k == cache[r]
        b == Head(up[n]).b
        U == Taken(up, n)
        reply(e) == Post(U, down, r, <<>>, Answers({n}, Rsp("load", b, e)))
    IN
    /\ Asks(r, n, "load")
    /\ IF b \in k.valid THEN reply("ok") /\ UNCHANGED cache
       ELSE IF b \notin k.present /\ r = 0 /\ ~backing
       THEN reply("ENOENT") /\ UNCHANGED cache
       ELSE IF Loads(k, b) /\ ~Connected(r)
       THEN reply("ENOENT") /\ Become(r, [k EXCEPT !.present = @ \cup {b}])
       ELSE /\ Become(r, [k EXCEPT !.present = @ \cup {b}, !.loading = @ \cup {b},
                                   !.loadReq = @ \cup {<<n, b>>}])
            /\ Post(U, down, r, IF Loads(k, b) THEN <<Req("load", b)>> ELSE <<>>,
                    Silence)
    /\ Rest

(* content_store_request() *)
StoreRequest(r, n) ==
    LET b == Head(up[n]).b
        U == Taken(up, n)
        k == cache[r]
        k1 == Filled(k, b)
        store == b \in k1.dirty /\ (r > 0 \/ backing) /\ Stores(k1, r, b)
        send == store /\ Connected(r)
        err == IF store /\ ~send THEN "ENOSYS" ELSE "ok"
        k2 == IF send THEN Storing(k1, {b}, 1) ELSE k1
        wait == r > 0 /\ b \in k1.dirty
        loaded == Answers(Waiters(k.loadReq \ k1.loadReq, b), Rsp("load", b, "ok"))
    IN
    /\ Asks(r, n, "store")
    /\ IF b \in Huge
       THEN /\ Post(U, down, r, <<>>, Answers({n}, Rsp("store", b, "EFBIG")))
            /\ UNCHANGED cache
       ELSE /\ Become(r, IF wait THEN [k2 EXCEPT !.storeReq = @ \cup {<<n, b>>}]
                         ELSE Redirtied(k2, r, b))
            /\ Post(U, down, r, IF send THEN <<Req("store", b)>> ELSE <<>>,
                    IF wait THEN loaded
                    ELSE Both(loaded, Answers({n}, Rsp("store", b, err))))
    /\ Rest

(* cache_entry_destroy(): the entries of B are freed.  It asserts that they  *)
(* have no request deferred; and a request pending would come back to them. *)
Free(k, B) ==
    aborted' = \/ B \cap (k.loading \cup k.storing) # {}
               \/ (Node \X B) \cap (k.loadReq \cup k.storeReq) # {}

(* cache_load_continuation() *)
LoadResponse(r) ==
    LET m == Head(down[r])
        e == IF m.err = "ENOSYS" /\ r = 0 THEN "ENOENT" ELSE m.err
        k == [cache[r] EXCEPT !.loading = @ \ {m.b},
                              !.loadReq = @ \ (Node \X {m.b})]
    IN
    /\ Hears(r, "load")
    /\ Post(up, Taken(down, r), r, <<>>,
            Answers(Waiters(cache[r].loadReq, m.b), Rsp("load", m.b, e)))
    /\ IF e = "ok"
       THEN /\ Become(r, [k EXCEPT !.valid = @ \cup {m.b}])
            /\ UNCHANGED <<discarded, aborted>>
       ELSE /\ Become(r, Removed(k, {m.b})) /\ Free(k, {m.b})
            /\ discarded' = discarded \cup ({m.b} \cap k.valid)
    /\ UNCHANGED <<backing, reqs, modVars>>

(* flush_respond() *)
FlushErr(k, r) ==
    IF k.acct = 0 THEN "ok" ELSE IF r = 0 /\ ~backing THEN "ENOSYS" ELSE "EIO"
FlushDone(k, r) == k.acct = 0 \/ (r = 0 /\ ~backing)
Resume(k, r) == k.acct # k.batch /\ k.batch <= Limit \div 2

(* cache_store_continuation() *)
StoreResponse(r) ==
    LET m == Head(down[r])
        D == Taken(down, r)
        k0 == cache[r]
        k == [Stored(k0, m.b, m.err) EXCEPT !.storeReq = @ \ (Node \X {m.b})]
        stored == Answers(Waiters(k0.storeReq, m.b), Rsp("store", m.b, m.err))
    IN
    /\ Hears(r, "store")
    /\ IF FlushDone(k, r)
       THEN /\ Become(r, [k EXCEPT !.flushReq = {}])
            /\ Post(up, D, r, <<>>, Both(stored,
                    Answers(k.flushReq, Rsp("flush", NoBlob, FlushErr(k, r)))))
       ELSE \E s \in IF Resume(k, r) THEN FlushSeqs(k, r) ELSE {<<>>} :
            Become(r, Flushing(k, s)) /\ Post(up, D, r, StoreReqs(s), stored)
    /\ Rest

(* content_flush_request() *)
FlushRequest(r, n) ==
    LET k == cache[r]
        U == Taken(up, n)
    IN
    /\ Asks(r, n, "flush")
    /\ IF k.acct = 0
       THEN /\ Post(U, down, r, <<>>, Answers({n}, Rsp("flush", NoBlob, "ok")))
            /\ UNCHANGED cache
       ELSE IF FlushFails(k, r)
       THEN /\ Post(U, down, r, <<>>, Answers({n}, Rsp("flush", NoBlob, "ENOSYS")))
            /\ UNCHANGED cache
       ELSE \E s \in FlushSeqs(k, r) :
            /\ Become(r, [Flushing(k, s) EXCEPT !.flushReq = @ \cup {n}])
            /\ Post(U, down, r, StoreReqs(s), Silence)
    /\ Rest

(* content_backing_request().  The answers of a module to earlier requests,   *)
(* and those of one that has exited, are ahead of it.                       *)
BackingRequest ==
    LET op == Head(up[Module]).op
        U == Taken(up, Module)
        ack == Answers({Module}, Rsp(op, NoBlob, "ok"))
    IN
    /\ down[0] = <<>>
    /\ \/ /\ Asks(0, Module, "on") /\ backing' = TRUE
          /\ \E s \in FlushSeqs(cache[0], 0) :
               Become(0, Flushing(cache[0], s)) /\ Post(U, down, 0, StoreReqs(s), ack)
       \/ /\ Asks(0, Module, "off") /\ backing' = FALSE
          /\ Post(U, down, 0, <<>>, ack) /\ UNCHANGED cache
    /\ UNCHANGED <<reqs, modVars, discarded, aborted>>

(* content_dropcache_request(): all entries that can go; heartbeat_event()    *)
(* with cache_purge(): some of them, one at a time here.                    *)
Drop(r) ==
    LET k == cache[r] IN
    /\ ~aborted /\ Droppable(k) # {}
    /\ \E B \in {Droppable(k)} \cup {{b} : b \in Droppable(k)} :
         Become(r, Removed(k, B)) /\ Free(k, B)
    /\ UNCHANGED <<backing, up, down, waiting, reqs, modVars, acked, discarded>>

----------------------------------------------------------------------------
(* Clients, and the module content-sqlite *)

(* n sends a request and waits for the answer. *)
Send(n, m) ==
    /\ n \notin waiting /\ waiting' = waiting \cup {n}
    /\ up' = [up EXCEPT ![n] = Append(@, m)]
    /\ down' = [down EXCEPT ![n] = <<>>]
    /\ UNCHANGED <<cache, backing, acked, discarded, aborted>>

ClientSend(c) ==
    /\ ~aborted /\ reqs < MaxReq /\ reqs' = reqs + 1
    /\ \E m \in Ops[c] : Send(c, m)
    /\ UNCHANGED modVars

ModGoes(from, to) == ~aborted /\ mod = from /\ mod' = to
Quiet == UNCHANGED <<cache, backing, waiting, reqs, acked, discarded, aborted>>

(* mod_main(): the cache is told of the backing store before the service      *)
(* content-backing is registered.  Nothing is loaded in a session that ends. *)
ModLoad == /\ ModGoes("out", "loading") /\ ~closing /\ Send(Module, Req("on", NoBlob))
           /\ UNCHANGED <<reqs, db, dump, closing, fails, unloads, lost>>
ModRegister == /\ ModGoes("loading", "up") /\ Module \notin waiting
               /\ Quiet /\ UNCHANGED <<up, down, db, dump, closing, fails, unloads, lost>>

(* load_cb(), store_cb() *)
ModServe ==
    LET m == Head(up[0])
        reply(e) == down' = [down EXCEPT ![0] = Append(@, Rsp(m.op, m.b, e))]
    IN
    /\ ModGoes("up", "up") /\ up[0] # <<>> /\ up' = Taken(up, 0)
    /\ \/ /\ m.op = "load" /\ reply(IF m.b \in db THEN "ok" ELSE "ENOENT")
          /\ UNCHANGED <<db, fails>>
       \/ m.op = "store" /\ reply("ok") /\ db' = db \cup {m.b} /\ UNCHANGED fails
       \/ /\ fails < MaxFail /\ fails' = fails + 1 /\ reply("EIO")
          /\ UNCHANGED db
    /\ Quiet /\ UNCHANGED <<dump, closing, unloads, lost>>

(* broker_shutdown_cb(), of a module that is to be unloaded. *)
ModClosing == /\ ModGoes("up", "up") /\ unloads < MaxUnload /\ ~closing /\ closing' = TRUE
              /\ Quiet /\ UNCHANGED <<up, down, db, dump, fails, unloads, lost>>

(* shutdown_cb(): tell the cache, then return to it all that the database     *)
(* holds, one blob at a time; or nothing, when the session ends.            *)
ModStop == /\ ModGoes("up", "stopping") /\ Send(Module, Req("off", NoBlob))
           /\ unloads < MaxUnload /\ unloads' = unloads + 1
           /\ UNCHANGED <<reqs, db, dump, closing, fails, lost>>
ModDump ==
    \/ /\ ModGoes("stopping", "dumping") /\ Module \notin waiting
       /\ dump' = IF closing THEN {} ELSE db
       /\ Quiet /\ UNCHANGED <<up, down, db, closing, fails, unloads, lost>>
    \/ /\ ModGoes("dumping", "dumping")
       /\ \E b \in dump : dump' = dump \ {b} /\ Send(Module, Req("store", b))
       /\ UNCHANGED <<reqs, db, closing, fails, unloads, lost>>

(* module_thread() after mod_main(): requests not handled are answered with  *)
(* ENOSYS; then the broker removes the service and the socket.              *)
ModDrain ==
    /\ ModGoes("dumping", "drained") /\ Module \notin waiting /\ dump = {}
    /\ down' = [down EXCEPT ![0] = @ \o
                  [i \in DOMAIN up[0] |-> Rsp(up[0][i].op, up[0][i].b, "ENOSYS")]]
    /\ up' = [up EXCEPT ![0] = <<>>]
    /\ Quiet /\ UNCHANGED <<db, dump, closing, fails, unloads, lost>>
ModExit == /\ ModGoes("drained", "out") /\ up' = [up EXCEPT ![0] = <<>>]
           /\ lost' = lost \cup {up[0][i] : i \in DOMAIN up[0]}
           /\ Quiet /\ UNCHANGED <<down, db, dump, closing, fails, unloads>>

Handle(r) ==
    \/ \E n \in Node : LoadRequest(r, n) \/ StoreRequest(r, n) \/ FlushRequest(r, n)
    \/ LoadResponse(r) \/ StoreResponse(r)
ModRun == ModRegister \/ ModServe \/ ModDump \/ ModDrain \/ ModExit

Next ==
    \/ \E c \in Client : ClientSend(c)
    \/ \E r \in Rank : Handle(r) \/ Drop(r)
    \/ BackingRequest \/ ModLoad \/ ModClosing \/ ModStop \/ ModRun

Spec == Init /\ [][Next]_vars

(* The reactors of the brokers and of the module run; brokers take turns      *)
(* between what the tree and the module send them.  This is weak fairness of *)
(* the handlers of rank r for what n sends, of its continuations, and of the *)
(* module, with what enables them spelt out.                                *)
Calls(n) == ~aborted /\ up[n] # <<>> /\ (Head(up[n]).op \in {"on", "off"} => down[0] = <<>>)
Hearing(r) == ~aborted /\ down[r] # <<>>
Running == ~aborted /\ IF mod = "up" THEN up[0] # <<>> ELSE mod # "out" /\ Module \notin waiting
Taking(n) == up[n] # <<>> /\ up'[n] = Tail(up[n])
Heard(r) == down[r] # <<>> /\ down'[r] = Tail(down[r])
Fairness ==
    /\ []<>~Running \/ []<><<ModRun>>_vars
    /\ \A r \in Rank : []<>~Hearing(r) \/ []<><<Heard(r)>>_vars
    /\ \A n \in DOMAIN Parent : []<>~Calls(n) \/ []<><<Taking(n)>>_vars
FairSpec == Spec /\ Fairness

----------------------------------------------------------------------------
(* Properties *)

(* The counters that cache_flush() and cache_store_continuation() subtract,  *)
(* as unsigned numbers, count what they should: acct_dirty the dirty        *)
(* entries, flush_batch_count those being stored, which are among them.     *)
Accounting ==
    ~aborted => \A r \in Rank : LET k == cache[r] IN
        /\ k.acct = Cardinality(k.dirty) /\ k.batch = Cardinality(k.storing)
        /\ k.storing \subseteq k.dirty /\ k.dirty \subseteq k.valid
        /\ r = 0 => k.batch <= Limit

Count(q, op, b) == Cardinality({i \in DOMAIN q : q[i].op = op /\ q[i].b = b})
Deferred(n, op, b) ==
    IF n = 0 THEN 0 ELSE LET k == cache[Parent[n]] IN
    IF \/ op = "load" /\ <<n, b>> \in k.loadReq
       \/ op = "store" /\ <<n, b>> \in k.storeReq
       \/ op = "flush" /\ b = NoBlob /\ n \in k.flushReq THEN 1 ELSE 0
InFlight(n, op, b) == Count(up[n], op, b) + Deferred(n, op, b)

Lost(r, op, b) == IF r = 0 /\ Req(op, b) \in lost THEN 1 ELSE 0

(* "At most a single request is sent per cache entry": an entry whose load    *)
(* or store is pending has exactly one request on its way up, deferred at    *)
(* the parent, answered and on its way down, or taken along by a module that *)
(* exited; another entry has none.                                          *)
OneRequest ==
    ~aborted => \A r \in Rank, b \in Blob : LET k == cache[r] IN
        /\ InFlight(r, "load", b) + Count(down[r], "load", b) + Lost(r, "load", b)
             = IF b \in k.loading THEN 1 ELSE 0
        /\ InFlight(r, "store", b) + Count(down[r], "store", b) + Lost(r, "store", b)
             = IF b \in k.storing THEN 1 ELSE 0

(* What the backing store holds and will give back. *)
Backed == IF mod \in {"loading", "up", "stopping"} THEN db
          ELSE dump \cup {up[Module][i].b : i \in DOMAIN up[Module]}
Held == cache[0].valid \cup Backed
(* What a rank between the root and another rank has still to store: it       *)
(* answers the loads of the ranks below it already.                         *)
Inner == {Parent[r] : r \in Rank \ {0}} \ {0}
Climbing == UNION {cache[s].dirty : s \in Inner}

(* "after a store RPC returns, the entry may be loaded from any rank": rank 0 *)
(* or its backing store has it, whatever was dropped, failed or unloaded;    *)
(* or it is on its way there from a rank that was quicker to serve it than   *)
(* to store it; or the failure of a load that was pending removed it, which  *)
(* cache_load_continuation() does without a look.                           *)
StoreHeld == ~aborted /\ ~closing => acked \subseteq Held \cup Climbing \cup discarded

(* A flush of rank 0 that succeeds has everything that was stored so far, and *)
(* has arrived, in the database.                                            *)
FlushDurable ==
    [][\A c \in Client : Parent[c] = 0 /\ ~closing /\ down[c] = <<>>
         /\ down'[c] = <<Rsp("flush", NoBlob, "ok")>>
           => acked \subseteq db \cup Climbing \cup discarded]_vars

(* The same without exceptions: the code does not promise it. *)
StoreLoadable == ~aborted /\ ~closing => acked \subseteq Held
(* No request is lost when the backing store is unloaded.  *)
NoneLost == lost = {}
(* "entries are asynchronously duplicated on the backing store" when it is     *)
(* loaded: then, if nobody stores or flushes, rank 0 has no dirty entries.  *)
Duplicated == (mod = "up") ~> (cache[0].dirty = {} \/ mod # "up" \/ aborted)

(* cache_entry_destroy() asserts that no request is deferred on the entry. *)
NoAbort == ~aborted

(* Every request of a client is answered, unless a module that exited took a   *)
(* request of rank 0 with it.                                               *)
Answered == \A c \in Client :
    c \in waiting ~> (c \notin waiting \/ lost # {} \/ aborted)
=============================================================================
