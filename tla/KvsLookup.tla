----------------------------- MODULE KvsLookup -----------------------------
(* kvs.lookup on a rank other than 0: the walk of a path through directories *)
(* and symbolic links (lookup.c), which stalls on objects that are not       *)
(* cached and on namespaces whose root is not known and is taken up again    *)
(* when the answer comes (kvs.c), while commits, removals and the expiry of  *)
(* the cache go on.                                                          *)
EXTENDS Naturals, Sequences, SequencesExt

CONSTANTS
    Lookup,      \* requests under way at the same time
    Requests,    \* what is asked for: [ns, path, flags, root]
    Object,      \* [ref -> [t |-> "dir", e |-> [name -> dirent]] or [t |-> "raw"]]
    Roots,       \* [namespace -> the refs of its successive roots]
    Kept,        \* namespaces known here from the start and never removed
    CycleLimit,  \* SYMLINK_CYCLE_LIMIT
    MaxChange,   \* bound: commits, removals, creations and timeouts of namespaces
    MaxFail,     \* bound: loads that fail
    MaxDrop      \* bound: expiries

VARIABLES
    lk,          \* lk[x]: struct lookup, and what it waits for
    valid,       \* refs of the valid cache entries
    loading,     \* refs of the entries that wait for a content.load
    here,        \* here[n]: struct kvsroot on this rank
    cur,         \* cur[n]: which root n has on rank 0; 0 when there is none
    rm,          \* namespaces whose removed event is on its way
    seen,        \* history: the roots namespaces had here since x began, or
                 \* began again, "" while they were not known or removed
    left         \* what is left of the bounds

vars == <<lk, valid, loading, here, cur, rm, seen, left>>

Namespace == DOMAIN Roots
Ref == DOMAIN Object
Absent == [st |-> "absent", seq |-> 0, ref |-> ""]
Live(n, v) == [st |-> "live", seq |-> v - 1, ref |-> Roots[n][v]]
None == [t |-> "none"]
Err(e) == [t |-> "err", e |-> e]
DirRef(r) == [t |-> "dirref", ref |-> r]

Only(S) == CHOOSE s \in S : TRUE

(* levels: struct walk_level, innermost first; from: what holds the memory   *)
(* of the dirent, a cache entry or the level itself.                         *)
Fresh(q) == [st |-> "new", req |-> q, root |-> q.root, levels |-> <<>>, wd |-> None,
             from |-> "own", need |-> {}, ns |-> "", aux |-> "", stale |-> FALSE, res |-> None]
Idle == [st |-> "idle"]

TypeOK ==
    /\ \A x \in Lookup : lk[x].st \in {"idle", "refs", "getroot", "done", "undef"}
    /\ \A x \in Lookup : lk[x].st = "refs" => lk[x].need # {} /\ lk[x].need \subseteq loading
    /\ valid \subseteq Ref /\ loading \subseteq Ref /\ valid \cap loading = {}
    /\ \A n \in Namespace : /\ cur[n] \in 0 .. Len(Roots[n])
                            /\ here[n].st \in {"absent", "live", "removed"}
                            /\ here[n].ref \in Ref \cup {""}
    /\ rm \subseteq Namespace

Init ==
    /\ lk = [x \in Lookup |-> Idle] /\ seen = [x \in Lookup |-> {}]
    /\ valid = {} /\ loading = {}
    /\ cur = [n \in Namespace |-> 1] /\ rm = {}
    /\ here \in {h \in [Namespace -> {Absent} \cup {Live(n, 1) : n \in Namespace}] :
                    \A n \in Namespace : h[n] = Live(n, 1) \/ (n \notin Kept /\ h[n] = Absent)}
    /\ left = [change |-> MaxChange, fail |-> MaxFail, drop |-> MaxDrop]

-----------------------------------------------------------------------------
(* Slips that a change to the code could make; the mutants use them.         *)
UnwindOne(ls) ==
    LET d == Head(Tail(ls))
    IN <<[d EXCEPT !.dirent = Head(ls).dirent, !.from = Head(ls).from, !.comps = Tail(@)]>>
         \o Tail(Tail(ls))

-----------------------------------------------------------------------------
(* The walk.  Every operator maps a lookup, with the roots H known here and  *)
(* the valid entries V, to the lookup it becomes; st says how it ends.       *)

Fail(l, e) == [l EXCEPT !.st = "done", !.res = Err(e)]
Finish(l, d) == [l EXCEPT !.st = "done", !.res = d]
Stall(l, refs) == [l EXCEPT !.st = "refs", !.need = refs]
NeedNamespace(l, n) == [l EXCEPT !.st = "getroot", !.ns = n]

Level(root, path, depth) ==
    [depth |-> depth, root |-> root, dirent |-> DirRef(root), from |-> "own", comps |-> path]

StillValid(l, H) == l.req.root # "" \/ H[l.req.ns].st = "live"

(* The links in a path are followed, that at its end unless the caller wants *)
(* the link itself.                                                          *)
Follow(l, c) == Len(c) > 1 \/ l.req.flags \cap {"READLINK", "TREEOBJ"} = {}

RECURSIVE Unwind(_)
Unwind(ls) ==
    LET up == Head(Tail(ls))
        n == [up EXCEPT !.dirent = Head(ls).dirent, !.from = Head(ls).from]
        rest == Tail(Tail(ls))
    IN IF n.depth > 0 /\ Len(n.comps) = 1 THEN Unwind(<<n>> \o rest)
       ELSE <<[n EXCEPT !.comps = Tail(@)]>> \o rest

(* The innermost level has come to dirent d, held by from: the next          *)
(* component, or, at the end of a link, back to the levels above.            *)
Advance(l, d, from) ==
    LET wl == [Head(l.levels) EXCEPT !.dirent = d, !.from = from]
        ls == <<wl>> \o Tail(l.levels)
    IN IF wl.depth > 0 /\ Len(wl.comps) = 1
       THEN IF from = "own" THEN [l EXCEPT !.st = "undef"]  \* freed with its level
            ELSE [l EXCEPT !.levels = Unwind(ls)]
       ELSE [l EXCEPT !.levels = <<[wl EXCEPT !.comps = Tail(@)]>> \o Tail(ls)]

WalkSymlink(l, d, from, H) ==
    LET wl == Head(l.levels)
        root == IF d.ns = "" THEN wl.root ELSE H[d.ns].ref
    IN IF ~Follow(l, wl.comps) THEN Advance(l, d, from)
       ELSE IF wl.depth = CycleLimit THEN Fail(l, "ELOOP")
       ELSE IF d.ns # "" /\ H[d.ns].st = "absent" THEN NeedNamespace(l, d.ns)
       ELSE IF d.path = <<>> THEN Advance(l, DirRef(root), "own")
       ELSE [l EXCEPT !.levels = <<Level(root, d.path, wl.depth + 1),
                                   [wl EXCEPT !.dirent = d, !.from = from]>> \o Tail(@)]

WalkStep(l, H, V) ==
    LET wl == Head(l.levels)
        d == wl.dirent
        name == Head(wl.comps)
        e == Object[d.ref].e
    IN IF d.t \in {"val", "valref"} THEN Finish(l, None)
       ELSE IF d.t # "dirref" THEN Fail(l, "ENOTRECOVERABLE")
       ELSE IF d.ref \notin V THEN Stall(l, {d.ref})
       ELSE IF Object[d.ref].t # "dir"
            THEN Fail(l, IF wl.depth = 0 /\ wl.from = "own" THEN "EINVAL" ELSE "ENOTRECOVERABLE")
       ELSE IF name \notin DOMAIN e THEN Finish(l, None)
       ELSE IF e[name].t = "symlink" THEN WalkSymlink(l, e[name], d.ref, H)
       ELSE Advance(l, e[name], d.ref)

RECURSIVE Walk(_, _, _)
Walk(l, H, V) ==
    IF l.st # "walk" THEN l
    ELSE IF Head(l.levels).comps = <<>>
         THEN [l EXCEPT !.st = "value", !.wd = Head(l.levels).dirent, !.from = Head(l.levels).from]
         ELSE Only({Walk(m, H, V) : m \in {WalkStep(l, H, V)}})

Missing(refs, V) == ToSet(refs) \ V
Directory(l, ref, V) ==
    IF ref \notin V THEN Stall(l, {ref})
    ELSE IF Object[ref].t # "dir" THEN Fail(l, "ENOTRECOVERABLE")
    ELSE Finish(l, Object[ref])
Value(l, V) ==
    LET d == l.wd
        f == l.req.flags
    IN IF "TREEOBJ" \in f THEN Finish(l, d)
       ELSE IF d.t # "symlink" /\ "READLINK" \in f THEN Fail(l, "EINVAL")
       ELSE IF d.t = "symlink" /\ "READLINK" \notin f THEN Fail(l, "EPROTO")
       ELSE CASE d.t = "dirref" /\ f = {} -> Fail(l, "EISDIR")
              [] d.t = "dirref" /\ f = {"READDIR"} -> Directory(l, d.ref, V)
              [] d.t # "dirref" /\ "READDIR" \in f -> Fail(l, "ENOTDIR")
              [] d.t = "valref" /\ f = {} ->
                   IF Missing(d.refs, V) # {} THEN Stall(l, Missing(d.refs, V))
                   ELSE Finish(l, [t |-> "val", v |-> [i \in DOMAIN d.refs |-> Object[d.refs[i]].v]])
              [] OTHER -> Finish(l, d)

(* The path "." *)
RootItself(l, V) ==
    IF "TREEOBJ" \in l.req.flags THEN Finish(l, DirRef(l.root))
    ELSE IF "READDIR" \notin l.req.flags THEN Fail(l, "EISDIR")
    ELSE IF l.root \in V /\ Object[l.root].t = "raw" THEN Fail(l, "EINVAL")
    ELSE Directory(l, l.root, V)

(* lookup(): from the beginning, or from where it stalled. *)
CheckNamespace(l, H) ==
    IF l.root # "" THEN l
    ELSE IF H[l.req.ns].st # "live" THEN NeedNamespace(l, l.req.ns)
    ELSE [l EXCEPT !.root = H[l.req.ns].ref]
Begin(l, H, V) ==
    LET r == CheckNamespace(l, H)
    IN IF r.st = "getroot" THEN r
       ELSE IF r.req.path = <<>> THEN RootItself(r, V)
       ELSE LET w == Walk([r EXCEPT !.st = "walk", !.levels = <<Level(r.root, r.req.path, 0)>>], H, V)
            IN IF w.st = "value" THEN Value(w, V) ELSE w
Resume(l, H, V) ==
    IF l.aux # "" THEN Fail(l, l.aux)
    ELSE IF ~StillValid(l, H) THEN Fail(l, "ENOTSUP")
    ELSE IF l.stale THEN [l EXCEPT !.st = "undef"]
    ELSE IF l.wd # None THEN Value(l, V)
    ELSE IF l.levels = <<>> THEN RootItself(l, V)
    ELSE LET w == Walk([l EXCEPT !.st = "walk", !.need = {}], H, V)
         IN IF w.st = "value" THEN Value(w, V) ELSE w

-----------------------------------------------------------------------------
Shown(n, root) == {<<n, root.ref>>} \cup (IF root.st = "live" THEN {} ELSE {<<n, "">>})

(* lookup_common(): a missing object is asked for unless it is on its way.   *)
Put(new, H) ==
    /\ lk' = new
    /\ loading' = (loading \ valid') \cup UNION {new[x].need : x \in {y \in Lookup : new[y].st = "refs"}}
    /\ seen' = [x \in Lookup |->
                 LET now == UNION {Shown(n, H[n]) : n \in Namespace}
                 IN IF lk[x].st \in {"idle", "getroot"} THEN now ELSE seen[x] \cup now]

LookupRequest(x, q) ==
    /\ lk[x].st = "idle"
    /\ valid' = valid
    /\ Put([lk EXCEPT ![x] = Begin(Fresh(q), here, valid)], here)
    /\ UNCHANGED <<here, cur, rm, left>>

(* The answer to a content.load: every lookup that waited for nothing else   *)
(* is taken up within the same callback.                                     *)
LoadOk(r) ==
    /\ r \in loading
    /\ valid' = valid \cup {r}
    /\ Put([x \in Lookup |->
              IF lk[x].st = "refs" /\ r \in lk[x].need
              THEN LET l == [lk[x] EXCEPT !.need = @ \ {r}]
                   IN IF l.need = {} THEN Resume(l, here, valid') ELSE l
              ELSE lk[x]], here)
    /\ UNCHANGED <<here, cur, rm, left>>
LoadErrorQuiet(r) ==
    /\ r \in loading /\ left.fail > 0
    /\ loading' = loading \ {r}
    /\ left' = [left EXCEPT !.fail = @ - 1]
    /\ UNCHANGED <<lk, valid, here, cur, rm, seen>>
LoadError(r) ==
    /\ r \in loading /\ left.fail > 0
    /\ valid' = valid
    /\ lk' = [x \in Lookup |->
                IF lk[x].st = "refs" /\ r \in lk[x].need
                THEN LET l == [lk[x] EXCEPT !.need = @ \ {r}, !.aux = "EIO"]
                     IN IF l.need = {} THEN Resume(l, here, valid) ELSE l
                ELSE lk[x]]
    /\ loading' = loading \ {r}
    /\ left' = [left EXCEPT !.fail = @ - 1]
    /\ UNCHANGED <<here, cur, rm, seen>>

Setroot(root, ref, seq) ==
    IF seq = 0 \/ seq > root.seq THEN [root EXCEPT !.ref = ref, !.seq = seq] ELSE root

(* The answer to a kvs.getroot for the namespace lk[x].ns.  It is filed      *)
(* under the namespace that the waiting request names.  The copy of the      *)
(* request that is put back in the queue does not carry the lookup: it       *)
(* begins again.                                                             *)
GetrootCompletion(x) ==
    LET got == lk[x].ns
        n == lk[x].req.ns
        root == Live(got, cur[got])
        H == [here EXCEPT ![n] = IF @.st = "absent" THEN root
                                 ELSE IF @.st = "removed" THEN @
                                 ELSE Setroot(@, root.ref, root.seq)]
    IN /\ lk[x].st = "getroot"
       /\ valid' = valid
       /\ IF cur[got] = 0
          THEN /\ here' = here /\ Put([lk EXCEPT ![x] = Fail(@, "ENOTSUP")], here)
          ELSE /\ here' = H /\ Put([lk EXCEPT ![x] = Begin(Fresh(@.req), H, valid)], H)
       /\ UNCHANGED <<cur, rm, left>>

(* dropcache, and the expiry of entries that have not been used for a while; *)
(* a lookup may still hold on to a part of such an entry.                    *)
Holds(l) == IF l.wd # None THEN l.from
            ELSE IF l.levels # <<>> THEN Head(l.levels).from ELSE "own"
Expire(R) ==
    /\ left.drop > 0 /\ R # {}
    /\ valid' = valid \ R
    /\ lk' = [x \in Lookup |-> IF lk[x].st = "refs" /\ Holds(lk[x]) \in R
                               THEN [lk[x] EXCEPT !.stale = TRUE] ELSE lk[x]]
    /\ left' = [left EXCEPT !.drop = @ - 1]
    /\ UNCHANGED <<loading, here, cur, rm, seen>>

(* Rank 0 commits to, removes and creates namespaces; the events follow.     *)
Change(n, v) ==
    /\ left.change > 0 /\ left' = [left EXCEPT !.change = @ - 1]
    /\ cur' = [cur EXCEPT ![n] = v]
    /\ UNCHANGED <<lk, valid, loading, here, seen>>
Commit(n) == cur[n] \in 1 .. Len(Roots[n]) - 1 /\ Change(n, cur[n] + 1) /\ rm' = rm
NamespaceRemove(n) == cur[n] > 0 /\ n \notin Kept /\ Change(n, 0) /\ rm' = rm \cup {n}
NamespaceCreate(n) == cur[n] = 0 /\ Change(n, 1) /\ rm' = rm
SetrootEvent(n) ==
    LET ref == Roots[n][cur[n]]
    IN /\ here[n].st = "live" /\ n \notin rm /\ cur[n] > here[n].seq + 1
       /\ here' = [here EXCEPT ![n] = Setroot(@, ref, cur[n] - 1)]
       /\ valid' \in {valid, valid \cup ({ref} \ loading)}  \* the event may bring the object
       /\ Put(lk, here')
       /\ UNCHANGED <<cur, rm, left>>
StartRootRemove(root) == IF root.st = "live" THEN [root EXCEPT !.st = "removed"] ELSE root
RemovedEvent(n) ==
    /\ n \in rm /\ rm' = rm \ {n}
    /\ here' = [here EXCEPT ![n] = StartRootRemove(@)]
    /\ UNCHANGED <<lk, valid, loading, cur, seen, left>>

(* heartbeat_root_cb(): what was removed is freed; a namespace other than    *)
(* the primary one that has not changed for a while is given up.             *)
HeartbeatRemoved(n) ==
    /\ here[n].st = "removed"
    /\ here' = [here EXCEPT ![n] = Absent]
    /\ UNCHANGED <<lk, valid, loading, cur, rm, seen, left>>
HeartbeatAged(n) ==
    /\ here[n].st = "live" /\ n \notin Kept /\ left.change > 0
    /\ here' = [here EXCEPT ![n] = StartRootRemove(@)]
    /\ left' = [left EXCEPT !.change = @ - 1]
    /\ UNCHANGED <<lk, valid, loading, cur, rm, seen>>

Next == \/ \E x \in Lookup : GetrootCompletion(x) \/ \E q \in Requests : LookupRequest(x, q)
        \/ \E r \in loading : LoadOk(r) \/ LoadError(r)
        \/ \E R \in {valid} \cup {{r} : r \in valid} : Expire(R)
        \/ \E n \in Namespace : Commit(n) \/ NamespaceRemove(n) \/ NamespaceCreate(n)
        \/ \E n \in Namespace : SetrootEvent(n) \/ RemovedEvent(n) \/ HeartbeatRemoved(n) \/ HeartbeatAged(n)
Spec == Init /\ [][Next]_vars

(* Loads and getroot requests are answered, and heartbeats go on.  The first *)
(* is weak fairness of loads in a form that TLC evaluates faster: only       *)
(* LoadOk and LoadError end a load.  An object is asked for again only after *)
(* it expired or failed to load, which the bounds limit: so fairness of      *)
(* loads is fairness of each load.                                           *)
LoadAnswered == \E r \in loading : r \notin loading'
FairSpec == /\ Spec
            /\ []<>(loading = {}) \/ []<><<LoadAnswered>>_vars
            /\ \A x \in Lookup : WF_vars(GetrootCompletion(x))
            /\ \A n \in Namespace : WF_vars(HeartbeatRemoved(n))

-----------------------------------------------------------------------------
(* What a path means: a definition by recursion, with every object at hand.  *)
(* R gives the root of the other namespaces.                                 *)
RECURSIVE Resolve(_, _, _, _, _, _)
Resolve(root, d, c, depth, follow, R) ==
    IF c = <<>> \/ d.t = "err" THEN d
    ELSE IF d.t # "dirref" THEN None
    ELSE IF Object[d.ref].t # "dir" THEN Err("EINVAL")
    ELSE IF Head(c) \notin DOMAIN Object[d.ref].e THEN None
    ELSE LET e == Object[d.ref].e[Head(c)]
             r == IF e.t = "symlink" /\ e.ns # "" THEN R[e.ns] ELSE root
             to == IF depth = CycleLimit THEN Err("ELOOP")
                   ELSE Resolve(r, DirRef(r), e.path, depth + 1, TRUE, R)
         IN IF e.t = "symlink" /\ (follow \/ Len(c) > 1)
            THEN Only({Resolve(root, m, Tail(c), depth, follow, R) : m \in {to}})
            ELSE Resolve(root, e, Tail(c), depth, follow, R)

Meaning(l, R) ==
    LET q == l.req
        d == Resolve(l.root, DirRef(l.root), q.path, 0, q.flags \cap {"READLINK", "TREEOBJ"} = {}, R)
    IN IF q.path = <<>> THEN RootItself(l, Ref).res
       ELSE IF d.t \in {"none", "err"} THEN d
       ELSE Value([l EXCEPT !.wd = d], Ref).res

RootChoices(x) ==
    LET Seen(n) == {r \in Ref : <<n, r>> \in seen[x]}
    IN {R \in [Namespace -> UNION {Seen(n) : n \in Namespace} \cup {""}] :
          \A n \in Namespace : IF Seen(n) = {} THEN R[n] = "" ELSE R[n] \in Seen(n)}

(* A lookup reads one version of its namespace, however often it stalls and  *)
(* whatever is committed meanwhile: its answer is what the path means at one *)
(* root that its namespace has had here since the request came, where links  *)
(* lead to roots that the other namespaces had while it ran.  A namespace    *)
(* that is removed, or given up, and comes back between two stalls makes no  *)
(* difference.  The request fails with ENOTSUP only when a namespace was not *)
(* there at some time since it began, and with EIO only after a load failed. *)
Snapshot ==
    \A x \in Lookup : lk[x].st = "done" =>
        \/ lk[x].res = Err("ENOTSUP") /\ \E n \in Namespace : <<n, "">> \in seen[x]
        \/ lk[x].res = Err("EIO") /\ lk[x].aux = "EIO"
        \/ /\ lk[x].req.root = "" => <<lk[x].req.ns, lk[x].root>> \in seen[x]
           /\ \E R \in RootChoices(x) : lk[x].res = Meaning(lk[x], R)

(* The directory entry at which a stalled lookup goes on is still in memory. *)
Defined == \A x \in Lookup : lk[x].st # "undef"

(* "Within a namespace, users can get/put KVS values completely independent  *)
(* of other KVS namespaces" (flux_kvs_namespace_create(3)): the root this    *)
(* rank has for a namespace is one that this namespace has had.              *)
Independent == \A n \in Namespace : here[n].ref \in ToSet(Roots[n]) \cup {""}

(* Every lookup is answered. *)
Answered == \A x \in Lookup : (lk[x].st \in {"refs", "getroot"}) ~> (lk[x].st \in {"done", "undef"})
=============================================================================
