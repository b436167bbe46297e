------------------------------- MODULE KvsTxn -------------------------------
(***************************************************************************)
(* The commit pipeline of the kvs module on rank 0, the only rank that     *)
(* writes: src/modules/kvs/{kvstxn,cache,waitqueue,kvs}.c.                  *)
(*                                                                         *)
(* Every namespace has a queue of ready transactions (kvstxn_mgr->ready).  *)
(* A reactor check callback takes the head of each queue, merges it with   *)
(* its successors, and runs kvstxn_apply() on it: load the root, apply the *)
(* operations to a private copy, store the changed objects in the cache,   *)
(* flush them to the content service, publish the new root.  A transaction *)
(* that misses an object, or that has objects to flush, is left blocked    *)
(* and its callback is run again when the last answer arrives.             *)
(*                                                                         *)
(* The reactor runs one callback at a time.  A callback is modelled as a   *)
(* sequence of small steps driven by "stack", the calls in progress; a new *)
(* callback starts only when the stack is empty.  The stack is a stack     *)
(* because cache_entry_set_raw() runs the waiters of an entry on the spot: *)
(* the transaction of one namespace then runs inside that of another.      *)
(*                                                                         *)
(* Allocation failures are not modelled.                                   *)
(***************************************************************************)
EXTENDS KvsTxnApply

CONSTANTS
    NsOf,           \* NsOf[t]: the namespace of transaction t
    OpsOf,          \* OpsOf[t]: its operations, in order
    NoMerge,        \* the transactions sent with FLUX_KVS_NO_MERGE
    InitDir         \* the root directory of every namespace at the start

ASSUME TxnAssumption == /\ NsOf \in [Txn -> Namespace]
                        /\ \A t \in Txn : OpsOf[t] \in Seq(Op)
                        /\ NoMerge \subseteq Txn /\ MergeOn \in BOOLEAN
ASSUME InitDirAssumption == InitDir \in Dir

(* The state after mod_main(): store_initial_rootdir() has stored the empty *)
(* directory.  InitDir stands for what an earlier run of commits left in    *)
(* the content store; the cache starts cold.                                *)
Init ==
    /\ root = [n \in Namespace |-> [ref |-> InitDir, life |-> "live",
                                  seq |-> IF InitDir = EmptyDir THEN 0 ELSE 1]]
    /\ ready = [n \in Namespace |-> <<>>]
    /\ present = {} /\ valid = {} /\ dirty = {}
    /\ waits = [n \in Namespace |-> {}]
    /\ loading = {} /\ storing = {}
    /\ stored = {DirBlob(EmptyDir)} \cup Reach(InitDir)
    /\ stack = <<>> /\ sent = <<>> /\ events = <<>>
    /\ fails = 0 /\ faults = 0 /\ aborted = FALSE

----------------------------------------------------------------------------
(* Requests *)

(* commit_request_cb(), relaycommit_request_cb(), and relayfence_request_cb() *)
(* when the last of its parts arrives: kvstxn_mgr_add_transaction().        *)
Submit(t) ==
    LET n == NsOf[t] IN
    /\ Idle /\ \A i \in DOMAIN sent : sent[i] # t
    /\ sent' = Append(sent, t)
    /\ IF root[n].life = "live"
       THEN /\ ready' = [ready EXCEPT ![n] = Append(@,
                             Create(<<t>>, OpsOf[t], t \in NoMerge, FALSE))]
            /\ UNCHANGED events
       ELSE /\ events' = Append(events, [ns |-> n, names |-> <<t>>,
                   err |-> "ENOTSUP", seq |-> root[n].seq, ref |-> root[n].ref])
            /\ UNCHANGED ready
    /\ UNCHANGED <<root, cacheVars, waits, rpcVars, stack, aborted>>

(* namespace_remove() and start_root_remove(). *)
NamespaceRemove(n) ==
    /\ Idle /\ n # Primary /\ root[n].life = "live"
    /\ root' = [root EXCEPT ![n].life = "remove"]
    /\ UNCHANGED <<ready, cacheVars, waits, rpcVars, stack, sent, events, aborted>>

(* namespace_create(). *)
NamespaceCreate(n) ==
    /\ Idle /\ root[n].life = "gone"
    /\ root' = [root EXCEPT ![n] = [ref |-> EmptyDir, seq |-> 0, life |-> "live"]]
    /\ UNCHANGED <<ready, cacheVars, waits, rpcVars, stack, sent, events, aborted>>

(* cache_expire_entries(): only valid, clean entries go. *)
Expire(S) ==
    /\ S \subseteq valid \ dirty
    /\ present' = present \ S /\ valid' = valid \ S
    /\ UNCHANGED <<ready, dirty, waits, rpcVars, stack, sent, events, aborted>>

(* dropcache_request_cb(), dropcache_event_cb(). *)
DropCache == Idle /\ Expire(valid \ dirty) /\ UNCHANGED root

(* heartbeat_cb().  A removed namespace goes once its last transaction is    *)
(* gone, and its last treq_t with it (the requests of that treq_t are        *)
(* outside this module: C is any of the namespaces that may go).  An entry  *)
(* that no call looked up for max_lastuse_age heartbeats goes; at most one  *)
(* at a time here.  The roots have just been touched, so they stay.         *)
Heartbeat ==
    /\ Idle
    /\ \E C \in SUBSET {n \in Namespace : root[n].life = "remove"
                                            /\ ready[n] = <<>>} :
         root' = [n \in Namespace |-> IF n \in C
                    THEN [root[n] EXCEPT !.life = "gone"] ELSE root[n]]
    /\ \E S \in {{}} \cup {{b} : b \in valid \ dirty} :
         /\ \A n \in Namespace : root'[n].life # "gone"
                                   => DirBlob(root[n].ref) \notin S
         /\ Expire(S)

(* load() on behalf of lookup_request_cb(): a concurrent reader faults in an *)
(* object of the current root.                                              *)
LookupLoad(n) ==
    /\ Idle /\ root[n].life = "live" /\ faults < MaxFault
    /\ \E b \in Reach(root[n].ref) \ present :
         /\ present' = present \cup {b} /\ loading' = loading \cup {b}
    /\ faults' = faults + 1
    /\ UNCHANGED <<root, ready, valid, dirty, waits, storing, stored, fails,
                   stack, sent, events, aborted>>

----------------------------------------------------------------------------
(* Answers of the content service, in any order *)

(* The waiters of b get error e (kvstxn_wait_error_cb()). *)
SetAux(b, e) ==
    [n \in Namespace |-> IF b \in waits[n]
       THEN <<[kt(n) EXCEPT !.aux = e]>> \o Tail(ready[n]) ELSE ready[n]]

(* content_load_completion(): cache_entry_set_raw() leaves a valid entry     *)
(* alone.                                                                   *)
LoadOk(b) ==
    /\ Idle /\ b \in loading /\ b \in stored
    /\ loading' = loading \ {b}
    /\ IF b \in present \ valid
       THEN valid' = valid \cup {b} /\ Wake(b)
       ELSE UNCHANGED <<valid, waits, stack>>
    /\ UNCHANGED <<root, ready, present, dirty, storing, stored, fails, faults,
                   sent, events, aborted>>

(* The same with an error: content_load_cache_entry_error() runs the         *)
(* waiters and removes the entry, unless it is in use.                      *)
LoadError(b) ==
    /\ Idle /\ b \in loading
    /\ loading' = loading \ {b}
    /\ \/ b \notin stored /\ UNCHANGED fails
       \/ b \in stored /\ fails < MaxFail /\ fails' = fails + 1
    /\ IF b \in present \ valid
       THEN ready' = SetAux(b, "EIO") /\ Wake(b)
       ELSE UNCHANGED <<ready, waits, stack>>
    /\ IF b \notin dirty
       THEN present' = present \ {b} /\ valid' = valid \ {b}
       ELSE UNCHANGED <<present, valid>>
    /\ UNCHANGED <<root, dirty, storing, stored, faults, sent, events, aborted>>

(* content_store_completion(): the entry is clean, its waiters run. *)
StoreOk(b) ==
    /\ Idle /\ b \in storing
    /\ storing' = storing \ {b} /\ stored' = stored \cup {b}
    /\ IF b \in present
       THEN dirty' = dirty \ {b} /\ Wake(b)
       ELSE UNCHANGED <<dirty, waits, stack>>
    /\ UNCHANGED <<root, ready, present, valid, loading, fails, faults, sent,
                   events, aborted>>

(* The same with an error: the waiters fail and the entry is removed, "as    *)
(* future loads/stores may believe content is ok".                          *)
StoreError(b) ==
    /\ Idle /\ b \in storing /\ fails < MaxFail
    /\ storing' = storing \ {b} /\ fails' = fails + 1
    /\ IF b \in present
       THEN /\ ready' = SetAux(b, "EIO") /\ Wake(b)
            /\ present' = present \ {b} /\ valid' = valid \ {b}
            /\ dirty' = dirty \ {b}
       ELSE UNCHANGED <<ready, waits, stack, cacheVars>>
    /\ UNCHANGED <<root, loading, stored, faults, sent, events, aborted>>

Next ==
    \/ \E t \in Txn : Submit(t)
    \/ \E n \in Namespace :
         \/ NamespaceRemove(n) \/ NamespaceCreate(n) \/ LookupLoad(n)
         \/ CheckRoot(n) \/ Merge(n) \/ Apply(n) \/ ApplyOp(n)
         \/ StoreObj(n) \/ Flush(n) \/ Finish(n)
    \/ CheckCb \/ DropCache \/ Heartbeat
    \/ \E b \in loading : LoadOk(b) \/ LoadError(b)
    \/ \E b \in storing : StoreOk(b) \/ StoreError(b)

Spec == Init /\ [][Next]_vars

(* The reactor serves its ready transactions and the calls it has begun, and *)
(* the content service answers every request.                               *)
Fairness ==
    /\ WF_vars(CheckCb)
    /\ \A n \in Namespace : WF_vars(\/ CheckRoot(n) \/ Merge(n) \/ Apply(n)
         \/ ApplyOp(n) \/ StoreObj(n) \/ Flush(n) \/ Finish(n))
    /\ WF_vars(\E b \in loading : LoadOk(b) \/ LoadError(b))
    /\ WF_vars(\E b \in storing : StoreOk(b) \/ StoreError(b))
FairSpec == Spec /\ Fairness

----------------------------------------------------------------------------
(* Properties *)

(* No lost wakeup: a blocked transaction waits for objects whose request is  *)
(* in flight, so that the answer will call it back (kvs.c "stall"), unless  *)
(* that call is in progress already.                                        *)
NoLostWakeup ==
    \A n \in Namespace :
        /\ \A b \in waits[n] : \/ b \in loading \cap (present \ valid)
                               \/ b \in storing \cap dirty
        /\ waits[n] # {} => n \in Heads /\ kt(n).blocked
        /\ n \in Heads /\ kt(n).blocked => waits[n] # {} \/ OnStack(n)

(* Every dirty entry is on its way to the content service, or on the list   *)
(* of a transaction that will flush it or clean it up.  Dirty entries never *)
(* expire, and store_cache() takes them for stored.                         *)
DirtyOwned ==
    \A b \in dirty : b \in storing \/ \E n \in Heads : b \in kt(n).dlist

(* Flush before publish: all that a published root refers to is in the      *)
(* content store ("we don't proceed until they are completed").             *)
PublishedStored ==
    \A n \in Namespace : root[n].life # "gone" => Reach(root[n].ref) \subseteq stored

(* setroot_event_send() finds the new root directory in the cache. *)
RootEntryCached ==
    \A n \in Namespace : In("finish", n) => DirBlob(Unroll(kt(n).cpy)) \in valid

Answers(t) == {i \in DOMAIN events :
                 \E j \in DOMAIN events[i].names : events[i].names[j] = t}
Queued(t) == {i \in DOMAIN ready[NsOf[t]] : /\ ~ready[NsOf[t]][i].merged
                                            /\ ready[NsOf[t]][i].names = <<t>>}

(* A transaction is neither lost nor answered twice, across merging and      *)
(* fallback: it is in its queue once, or one event names it, never both.    *)
AnsweredOnce ==
    \A t \in Txn : Cardinality(Answers(t)) + Cardinality(Queued(t)) =
                     IF \E i \in DOMAIN sent : sent[i] = t THEN 1 ELSE 0

Before(t, u) == \E i, j \in DOMAIN sent : i < j /\ sent[i] = t /\ sent[j] = u
NameAt(e, t) == \E i \in DOMAIN e.names : e.names[i] = t

(* The commits of a namespace take effect in the order of submission: merging *)
(* only takes adjacent transactions ("it can create undesireable out of     *)
(* order scenarios").                                                       *)
CommitOrder ==
    \A i, j \in DOMAIN events :
        i < j /\ events[i].ns = events[j].ns
              /\ events[i].err = "ok" /\ events[j].err = "ok"
        => \A t, u \in Txn : NameAt(events[i], t) /\ NameAt(events[j], u)
                               => Before(t, u)

(* Once a namespace is marked for removal its root stays as it was: the      *)
(* transactions still queued, in whatever state, fail with ENOTSUP.         *)
RemovedIsFrozen ==
    [][\A n \in Namespace : root[n].life = "remove" =>
         /\ root'[n].ref = root[n].ref /\ root'[n].life # "live"
         /\ \A i \in DOMAIN events' \ DOMAIN events :
              events'[i].ns = n => events'[i].err = "ENOTSUP"]_vars

(* Every transaction is answered in the end. *)
Answered ==
    \A t \in Txn : (\E i \in DOMAIN sent : sent[i] = t)
                     ~> (Answers(t) # {} \/ aborted)
=============================================================================
