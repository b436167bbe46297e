---------------------------- MODULE KvsTxnApply -----------------------------
(***************************************************************************)
(* How the check callback and the wake-ups run a transaction: the merge of *)
(* ready transactions and kvstxn_apply(), step by step.                    *)
(***************************************************************************)
EXTENDS KvsTxnState

CONSTANT MergeOn    \* the module's transaction-merge option

----------------------------------------------------------------------------
(* Mutants: plausible bugs, to see that the properties notice them *)

(* Its operations go before those of the earlier ones. *)
AbsorbBefore(q, j) ==
    LET head == [q[1] EXCEPT !.names = @ \o q[j].names, !.ops = q[j].ops \o @]
    IN [i \in DOMAIN q |-> IF i = 1 THEN head
                           ELSE [q[i] EXCEPT !.comp = @ \/ i = j]]
(* A namespace is checked for removal only before the first operation. *)
RemovedAtStart(n) == root[n].life = "remove" /\ kt(n).state = "INIT"
(* The entries that were sent stay on the dirty list. *)
FlushStallKeep(k, e) == [k EXCEPT !.blocked = TRUE, !.aux = e]
(* The entries that were not sent stay in the cache. *)
CleanupNothing(S) == UNCHANGED cacheVars

----------------------------------------------------------------------------
(* transaction_check_cb(), which transaction_prep_cb() provokes: visit every *)
(* namespace, in the order of a hash table.                                 *)
Ready(n) == ready[n] # <<>> /\ ~kt(n).blocked
CheckCb ==
    /\ Idle
    /\ \E n \in Namespace : Ready(n)
    /\ \E s \in Orders({n \in Namespace : root[n].life # "gone"}) :
         stack' = [i \in DOMAIN s |-> Frame("check", s[i])]
    /\ UNCHANGED <<root, ready, cacheVars, waits, rpcVars, sent, events, aborted>>

(* kvstxn_check_root_cb(), up to the loop that merges. *)
Mergeable(q) == /\ MergeOn /\ Len(q) > 1
                /\ q[1].aux = "ok"
                /\ q[1].state \in {"INIT", "LOAD_ROOT", "APPLY_OPS"}
                /\ ~q[1].merged /\ ~q[1].nomerge /\ ~q[2].nomerge
CheckRoot(n) ==
    /\ In("check", n)
    /\ IF ~Ready(n)
       THEN Return /\ UNCHANGED ready
       ELSE IF Mergeable(ready[n])
       THEN /\ ready' = [ready EXCEPT ![n] =
                           <<Create(<<>>, <<>>, FALSE, TRUE)>> \o @]
            /\ Become("merge")
       ELSE Become("apply") /\ UNCHANGED ready
    /\ UNCHANGED <<root, cacheVars, waits, rpcVars, sent, events, aborted>>

(* kvstxn_mgr_merge_ready_transactions(): one turn of the loop takes in the  *)
(* next transaction, as long as it is mergeable.                            *)
Absorb(q, j) ==
    LET head == [q[1] EXCEPT !.names = @ \o q[j].names, !.ops = @ \o q[j].ops]
        comp == [q[j] EXCEPT !.comp = TRUE]
    IN [i \in DOMAIN q |-> IF i = 1 THEN head ELSE IF i = j THEN comp ELSE q[i]]
Merge(n) ==
    LET q == ready[n]
        j == Len(q[1].names) + 2
    IN
    /\ In("merge", n)
    /\ IF j <= Len(q) /\ ~q[j].nomerge
       THEN ready' = [ready EXCEPT ![n] = Absorb(q, j)] /\ UNCHANGED stack
       ELSE Become("apply") /\ UNCHANGED ready
    /\ UNCHANGED <<root, cacheVars, waits, rpcVars, sent, events, aborted>>

(* kvstxn_iter_missing_refs() with load(): the transaction blocks on every   *)
(* missing object, and a request is sent for those that have no entry.  A   *)
(* request that cannot be sent ends the loop, but the transaction still     *)
(* waits for those already sent.                                            *)
LoadStall(k, e) == [k EXCEPT !.blocked = TRUE, !.missing = {}, !.aux = e]
LoadMissing(n, k) ==
    LET block(S, e) ==
          /\ waits' = [waits EXCEPT ![n] = S]
          /\ present' = present \cup S
          /\ loading' = loading \cup (S \ present)
          /\ ready' = WithHead(n, LoadStall(k, e))
          /\ Return /\ UNCHANGED events
    IN
    \/ block(k.missing, "ok") /\ UNCHANGED fails
    \/ /\ fails < MaxFail /\ fails' = fails + 1
       /\ \E S \in SUBSET k.missing :
            /\ k.missing \ (S \cup present) # {}
            /\ \/ S # {} /\ block(S, "EIO")
               \/ S = {} /\ Fail(n, "EIO") /\ UNCHANGED <<waits, present, loading>>

(* kvstxn_apply() and the head of kvstxn_process(): a removed namespace and  *)
(* the error of an awaited request end the transaction; otherwise it resumes *)
(* where it was.  LOAD_ROOT copies the root directory.                      *)
Removed(n) == root[n].life = "remove"
Apply(n) ==
    LET k == kt(n)
        goto(st, f) == /\ ready' = WithHead(n, st) /\ Become(f)
                       /\ UNCHANGED <<waits, present, loading, fails, events>>
    IN
    /\ In("apply", n)
    /\ IF Removed(n)
       THEN Fail(n, "ENOTSUP") /\ UNCHANGED <<waits, present, loading, fails>>
       ELSE IF k.aux # "ok"
       THEN Fail(n, k.aux) /\ UNCHANGED <<waits, present, loading, fails>>
       ELSE CASE k.state \in {"INIT", "LOAD_ROOT"} ->
                   IF DirBlob(root[n].ref) \in valid
                   THEN goto([k EXCEPT !.state = "APPLY_OPS", !.i = 1,
                                       !.cpy = root[n].ref], "op")
                   ELSE LoadMissing(n, [k EXCEPT !.state = "LOAD_ROOT",
                                          !.missing = {DirBlob(root[n].ref)}])
              [] k.state = "APPLY_OPS" -> goto([k EXCEPT !.i = 1], "op")
              [] OTHER -> goto(k, "flush")
    /\ UNCHANGED <<root, valid, dirty, storing, stored, faults, sent, aborted>>

(* The loop of APPLY_OPS: apply operation i, or, past the last one, stall on *)
(* the missing objects or go on to STORE.  Appending stores values in the   *)
(* cache at once (kvstxn_val_data_to_cache(), store_cache()).  An error     *)
(* forgets the missing objects and ends the transaction.                    *)
ApplyOp(n) ==
    LET k == kt(n)
        r == LinkDirent(k.cpy, k.ops[k.i], valid)
        raws == {Raw(x) : x \in r.raws} \ valid
    IN
    /\ In("op", n)
    /\ IF k.i > Len(k.ops)
       THEN /\ IF k.missing # {}
               THEN LoadMissing(n, k)
               ELSE /\ ready' = WithHead(n, [k EXCEPT !.state = "STORE",
                                              !.tostore = Unrolled(k.cpy)])
                    /\ Become("store")
                    /\ UNCHANGED <<waits, present, loading, fails, events>>
            /\ UNCHANGED <<valid, dirty>>
       ELSE /\ UNCHANGED <<waits, loading, fails>>
            /\ IF r.err \in {"EINVAL", "EISDIR"}
               THEN Fail(n, r.err) /\ UNCHANGED cacheVars
               ELSE /\ present' = present \cup raws
                    /\ valid' = valid \cup raws
                    /\ dirty' = dirty \cup raws
                    /\ ready' = WithHead(n, [k EXCEPT !.i = @ + 1,
                         !.cpy = r.dir, !.dlist = @ \cup raws,
                         !.missing = IF r.err = "missing"
                           THEN @ \cup {DirBlob(k.cpy[k.ops[k.i].dir].sub)}
                           ELSE @])
                    /\ UNCHANGED <<events, stack>>
    /\ UNCHANGED <<root, storing, stored, faults, sent, aborted>>

(* STORE: store_cache() for each unrolled object, the new root last.  An     *)
(* entry that is valid already is left as it is; one that is not becomes    *)
(* valid, which runs its waiters there and then, and dirty.                 *)
StoreObj(n) ==
    LET k == kt(n)
        newroot == DirBlob(Unroll(k.cpy))
    IN
    /\ In("store", n)
    /\ \/ /\ k.tostore = {}
          /\ ready' = WithHead(n, [k EXCEPT !.state = "PRE_FINISHED"])
          /\ Become("flush")
          /\ UNCHANGED <<cacheVars, waits>>
       \/ \E b \in k.tostore :
            /\ b = newroot => k.tostore = {newroot}
            /\ IF b \in valid
               THEN /\ ready' = WithHead(n, [k EXCEPT !.tostore = @ \ {b}])
                    /\ UNCHANGED <<cacheVars, waits, stack>>
               ELSE /\ ready' = WithHead(n, [k EXCEPT !.tostore = @ \ {b},
                                                      !.dlist = @ \cup {b}])
                    /\ present' = present \cup {b}
                    /\ valid' = valid \cup {b}
                    /\ dirty' = dirty \cup {b}
                    /\ Wake(b)
    /\ UNCHANGED <<root, rpcVars, sent, events, aborted>>

(* PRE_FINISHED: kvstxn_iter_dirty_cache_entries() with kvstxn_cache_cb():   *)
(* flush the dirty list and block, or finish when there is none.  When a    *)
(* request cannot be sent, kvstxn_cleanup_dirty_cache_entry() takes it and  *)
(* the ones not reached out of the cache again.                             *)
FlushStall(k, e) == [k EXCEPT !.blocked = TRUE, !.dlist = {}, !.aux = e]
Cleanup(S) == present' = present \ S /\ valid' = valid \ S /\ dirty' = dirty \ S
Flush(n) ==
    LET k == kt(n)
        block(S, e) ==
          /\ waits' = [waits EXCEPT ![n] = S]
          /\ storing' = storing \cup S
          /\ ready' = WithHead(n, FlushStall(k, e))
          /\ Return /\ UNCHANGED events
    IN
    /\ In("flush", n)
    /\ \/ /\ k.dlist = {} /\ Become("finish")
          /\ UNCHANGED <<ready, cacheVars, waits, storing, fails, events>>
       \/ /\ k.dlist # {} /\ block(k.dlist, "ok")
          /\ UNCHANGED <<cacheVars, fails>>
       \/ /\ fails < MaxFail /\ fails' = fails + 1
          /\ \E S \in SUBSET k.dlist :
               /\ S # k.dlist /\ Cleanup(k.dlist \ S)
               /\ \/ S # {} /\ block(S, "EIO")
                  \/ S = {} /\ Fail(n, "EIO") /\ UNCHANGED <<waits, storing>>
    /\ UNCHANGED <<root, loading, stored, faults, sent, aborted>>

(* It succeeded: setroot() and setroot_event_send(), which asserts that the  *)
(* new root directory is in the cache.                                      *)
Finish(n) ==
    LET k == kt(n)
        new == Unroll(k.cpy)
    IN
    /\ In("finish", n)
    /\ IF DirBlob(new) \in valid
       THEN /\ root' = [root EXCEPT ![n] = [@ EXCEPT !.ref = new,
                                                 !.seq = root[n].seq + 1]]
            /\ events' = Append(events, [ns |-> n, names |-> k.names,
                            err |-> "ok", seq |-> root[n].seq + 1, ref |-> new])
            /\ Remove(n, FALSE)
            /\ Return
            /\ UNCHANGED aborted
       ELSE aborted' = TRUE /\ UNCHANGED <<root, ready, events, stack>>
    /\ UNCHANGED <<cacheVars, waits, rpcVars, sent>>
=============================================================================
