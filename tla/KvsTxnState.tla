---------------------------- MODULE KvsTxnState -----------------------------
(***************************************************************************)
(* The state of the commit pipeline (kvstxn_mgr_t, kvstxn_t, the cache and *)
(* its wait queues) and the primitives its callbacks are made of: calls,   *)
(* waiters, and the end of a transaction.                                  *)
(***************************************************************************)
EXTENDS KvsTree, FiniteSets

CONSTANTS
    Namespace,      \* the namespaces, all sharing one cache
    Primary,        \* the one that is never removed
    Txn,            \* commits and completed fences, by name (treq_t.name)
    MaxFail,        \* bound: failed requests to the content service
    MaxFault        \* bound: cache faults of concurrent lookups

ASSUME NamespaceAssumption == Primary \in Namespace /\ IsFiniteSet(Namespace)
ASSUME BoundAssumption == MaxFail \in Nat /\ MaxFault \in Nat

----------------------------------------------------------------------------
VARIABLES
    root,       \* kvsroot_t: ref, seq and life ("live", "remove", "gone")
    ready,      \* kvstxn_mgr->ready, of each namespace
    present,    \* the cache: the objects that have an entry,
    valid,      \*   the entries that hold their data (entry->valid),
    dirty,      \*   and those not yet known to be stored (entry->dirty)
    waits,      \* the entries on whose queues the namespace's wait_t is
    loading,    \* content.load requests in flight
    storing,    \* content.store requests in flight
    stored,     \* what the content service holds
    stack,      \* the calls in progress, innermost first
    sent,       \* the transactions submitted so far, in order
    events,     \* the kvs.setroot and kvs.error events published, in order
    fails, faults,  \* how much of the two bounds is used
    aborted     \* an assertion of the module failed

cacheVars == <<present, valid, dirty>>
rpcVars == <<loading, storing, stored, fails, faults>>
vars == <<root, ready, cacheVars, waits, rpcVars, stack, sent, events, aborted>>

(* kvstxn_t.  "names" are the requests it stands for, "cpy" is rootcpy, "i"  *)
(* the next operation of a pass over ops, "missing" the missing_refs_list,  *)
(* "dlist" the dirty_cache_entries_list, "tostore" what is left to unroll.  *)
TxnState == {"INIT", "LOAD_ROOT", "APPLY_OPS", "STORE", "PRE_FINISHED"}
Errnum == {"ok", "EINVAL", "EISDIR", "EIO", "ENOTSUP"}
OpIndex == Nat \ {0}
Kvstxn == [names : Seq(Txn), ops : Seq(Op), nomerge : BOOLEAN,
           merged : BOOLEAN, comp : BOOLEAN, blocked : BOOLEAN,
           state : TxnState, aux : Errnum, cpy : WorkDir, i : OpIndex,
           missing : SUBSET Blob, dlist : SUBSET Blob, tostore : SUBSET Blob]

Create(names, ops, nomerge, merged) ==
    [names |-> names, ops |-> ops, nomerge |-> nomerge, merged |-> merged,
     comp |-> FALSE, blocked |-> FALSE, state |-> "INIT", aux |-> "ok",
     cpy |-> EmptyDir, i |-> 1, missing |-> {}, dlist |-> {}, tostore |-> {}]

Call == [f : {"check", "merge", "apply", "op", "store", "flush", "finish"},
         ns : Namespace]
Event == [ns : Namespace, names : Seq(Txn), err : Errnum, seq : Nat, ref : Dir]

RootType == [Namespace -> [ref : Dir, seq : Nat,
                           life : {"live", "remove", "gone"}]]
ReadyType == [Namespace -> Seq(Kvstxn)]

QueueType ==
    /\ ready \in ReadyType
    /\ waits \in [Namespace -> SUBSET Blob]
    /\ stack \in Seq(Call)
CacheType ==
    /\ present \subseteq Blob /\ valid \subseteq present /\ dirty \subseteq valid
    /\ loading \subseteq Blob /\ storing \subseteq Blob /\ stored \subseteq Blob
LogType ==
    /\ root \in RootType /\ sent \in Seq(Txn) /\ events \in Seq(Event)
    /\ fails \in 0..MaxFail /\ faults \in 0..MaxFault /\ aborted \in BOOLEAN
TypeOK == QueueType /\ CacheType /\ LogType

----------------------------------------------------------------------------
(* The transaction at the head of a namespace's queue: the only one that is  *)
(* ever processed, and the one the namespace's wait_t refers to.            *)
kt(n) == Head(ready[n])
WithHead(n, k) == [ready EXCEPT ![n] = <<k>> \o Tail(@)]
Frame(f, n) == [f |-> f, ns |-> n]
Become(f) == stack' = <<Frame(f, Head(stack).ns)>> \o Tail(stack)
Return == stack' = Tail(stack)

(* The reactor is in call f of namespace n. *)
In(f, n) == ~aborted /\ stack # <<>> /\ Head(stack) = Frame(f, n)
(* The reactor is free to run another callback. *)
Idle == ~aborted /\ stack = <<>>

(* The sequences that list a finite set, each element once, in any order. *)
Orders(S) ==
    {s \in UNION {[1..c -> S] : c \in 0..Cardinality(Namespace)} :
       \A x \in S : \E i \in DOMAIN s :
           s[i] = x /\ \A j \in DOMAIN s : s[j] = x => j = i}

----------------------------------------------------------------------------
(* Mutants: plausible bugs, to see that the properties notice them *)

(* The usecount of a waiter drops, but its callback is not called. *)
WakeNobody(b) ==
    /\ waits' = [n \in Namespace |-> waits[n] \ {b}]
    /\ UNCHANGED stack
(* Only the first waiter of the queue is run. *)
WakeFirst(b) ==
    LET woken == {n \in Namespace : waits[n] = {b}} IN
    /\ waits' = [n \in Namespace |-> waits[n] \ {b}]
    /\ \E n \in woken \cup {Primary} :
         stack' = IF n \in woken THEN <<Frame("apply", n)>> \o stack ELSE stack
(* A waiter is run by the first answer, not by the last. *)
WakeEarly(b) ==
    LET woken == {n \in Namespace : b \in waits[n]} IN
    /\ waits' = [n \in Namespace |-> IF n \in woken THEN {} ELSE waits[n]]
    /\ \E s \in Orders(woken) :
         stack' = [i \in DOMAIN s |-> Frame("apply", s[i])] \o stack
(* ... or puts them at the end of the queue. *)
RemoveRequeue(q, c, fallback) ==
    LET free(k) == [k EXCEPT !.comp = FALSE, !.nomerge = TRUE]
        comps == SelectSeq(Tail(q), LAMBDA k : k.comp)
        rest == SelectSeq(Tail(q), LAMBDA k : ~k.comp)
    IN rest \o (IF fallback THEN [i \in DOMAIN comps |-> free(comps[i])] ELSE <<>>)
(* Fallback without a look at the KVSTXN_MERGED flag. *)
FallbackAlways(k, e) == e # "ENOTSUP"

----------------------------------------------------------------------------
(* wait_runqueue() for the waiters of entry b: those that wait for nothing   *)
(* else are called, before the call in progress goes on.                    *)
Wake(b) ==
    /\ waits' = [n \in Namespace |-> waits[n] \ {b}]
    /\ \E s \in Orders({n \in Namespace : waits[n] = {b}}) :
         stack' = [i \in DOMAIN s |-> Frame("apply", s[i])] \o stack

----------------------------------------------------------------------------
(* The end of a transaction: the label "done" of kvstxn_apply() *)

(* kvstxn_mgr_remove_transaction(): the head goes; the transactions merged   *)
(* into it go with it, or, on fallback, become transactions of their own    *)
(* that are not merged again.                                               *)
Leading(q) == {c \in 0..(Len(q) - 1) :
                 /\ \A j \in 2..(c + 1) : q[j].comp
                 /\ c + 2 <= Len(q) => ~q[c + 2].comp}
RemoveHead(q, c, fallback) ==
    LET rest == Tail(q) IN
    IF ~Head(q).merged THEN rest
    ELSE IF fallback THEN [i \in DOMAIN rest |-> IF i <= c
                             THEN [rest[i] EXCEPT !.comp = FALSE, !.nomerge = TRUE]
                             ELSE rest[i]]
    ELSE SubSeq(rest, c + 1, Len(rest))
Remove(n, fallback) ==
    \E c \in Leading(ready[n]) :
        ready' = [ready EXCEPT ![n] = RemoveHead(@, c, fallback)]

(* kvstxn_fallback_mergeable(), but for the errors kvstxn_apply() rules out. *)
Fallback(k, e) == k.merged /\ e # "ENOTSUP"

(* The transaction failed with e: error_event_send(), unless it falls back. *)
Fail(n, e) ==
    LET k == kt(n) IN
    /\ Remove(n, Fallback(k, e))
    /\ events' = IF Fallback(k, e) THEN events
                 ELSE Append(events, [ns |-> n, names |-> k.names, err |-> e,
                                      seq |-> root[n].seq, ref |-> root[n].ref])
    /\ Return

----------------------------------------------------------------------------
Heads == {n \in Namespace : ready[n] # <<>>}
OnStack(n) == \E i \in DOMAIN stack : stack[i].ns = n

(* What kvstxn_cache_cb() and kvstxn_cleanup_dirty_cache_entry() assert of   *)
(* the dirty list: its entries are valid and dirty, and nobody else flushes *)
(* them or waits for them.                                                  *)
DirtyListPrivate ==
    \A n \in Heads :
        /\ kt(n).dlist \subseteq dirty \ storing
        /\ \A m \in Namespace : kt(n).dlist \cap waits[m] = {}
        /\ \A m \in Heads \ {n} : kt(n).dlist \cap kt(m).dlist = {}

----------------------------------------------------------------------------
(* The inductive invariant.  NoLostWakeup and DirtyListPrivate speak of the  *)
(* head of a queue, the cache and the requests in flight; a step keeps them  *)
(* because of how the stack, the queues and the cache fit together.         *)

Running == {n \in Namespace : \E i \in DOMAIN stack :
                                stack[i].f # "check" /\ stack[i].ns = n}

(* A transaction on which nothing has been done. *)
Fresh(k) == ~k.blocked /\ k.dlist = {} /\ k.missing = {}

(* Calls of the check callback wait below the transaction that runs, which   *)
(* is there once ...                                                        *)
StackOrder ==
    /\ \A i, j \in DOMAIN stack :
         i < j /\ stack[i].f = "check" => stack[j].f = "check"
    /\ \A i, j \in DOMAIN stack :
         stack[i].f # "check" /\ stack[j].f # "check"
           /\ stack[i].ns = stack[j].ns => i = j

(* ... has a queue, and waits for nothing. *)
RunInv(n) == n \in Running => ready[n] # <<>> /\ waits[n] = {}

(* What a transaction waits for: a directory being loaded, or an entry being *)
(* flushed.                                                                 *)
WaitInv(n) ==
    /\ \A b \in waits[n] : \/ b \in present \ valid /\ b.k = "dir"
                           \/ b \in storing
    /\ waits[n] # {} => ready[n] # <<>> /\ kt(n).blocked

(* The head of the queue of n: behind it nothing has been started; it is     *)
(* blocked only while it waits or runs, and started only when it is blocked *)
(* or runs; it knows missing objects only while it applies operations.      *)
HeadInv(n) == ready[n] # <<>> =>
    /\ \A i \in 2..Len(ready[n]) : Fresh(ready[n][i])
    /\ kt(n).blocked => waits[n] # {} \/ n \in Running
    /\ ~kt(n).blocked /\ n \notin Running => Fresh(kt(n))
    /\ kt(n).missing # {} =>
         /\ stack # <<>> /\ Head(stack) = Frame("op", n)
         /\ \A b \in kt(n).missing : b \notin valid /\ b.k = "dir"

(* An entry without data is being loaded, what is being flushed is dirty. *)
CacheInv == present \ valid \subseteq loading /\ storing \subseteq dirty

IInv == /\ TypeOK /\ StackOrder /\ CacheInv /\ DirtyListPrivate
        /\ \A n \in Namespace : RunInv(n) /\ WaitInv(n) /\ HeadInv(n)
=============================================================================
