----------------------------- MODULE KvsWatch ------------------------------
(***************************************************************************)
(* The kvs-watch module (modules/kvs-watch/kvs-watch.c) of one rank: it    *)
(* turns setroot, namespace-created and namespace-removed events into      *)
(* lookups of the keys being watched, and the answers to those lookups     *)
(* into responses to the watchers.                                         *)
(*                                                                         *)
(* One namespace and one key are watched.  What happens to the namespace   *)
(* is a history, a sequence of entries the module hears of one by one.  A  *)
(* root is named by its position in the history.  The kvs module of the    *)
(* rank gets each event no later than kvs-watch does, and publishes or     *)
(* hears of a root before it answers from it: so a request sent after      *)
(* entry p is answered from a position between p and the entry that        *)
(* kvs-watch has reached when the answer is handled.                       *)
(***************************************************************************)
EXTENDS Integers, Sequences, FiniteSets, FiniteSetsExt, SequencesExt

CONSTANTS
    Watcher,    \* lookup requests with FLUX_KVS_WATCH or FLUX_KVS_WAITCREATE
    Sender,     \* Sender[x]: the client that made request x
    Plans       \* scenarios: [hist |-> a history, flags |-> the flags of each
                \* request, none for a request that is not made]

(* An entry says whether its commit names the key and the key's value      *)
(* after it, "none" when the key does not exist.                           *)
Entry == [t : {"created", "setroot", "removed"}, key : BOOLEAN, val : STRING]
Flag == {"WATCH", "WAITCREATE", "FULL", "UNIQ", "GUEST"}

ASSUME KvsWatchAssumption ==
    \A p \in Plans : /\ p.hist \in Seq(Entry)
                     /\ p.flags \in [Watcher -> SUBSET Flag]

VARIABLES
    hist, flags,  \* the scenario, never changed
    pos,        \* entries of the history that kvs-watch has heard or missed
    ns,         \* the entry of ctx->namespaces
    list,       \* ns->watchers
    w,          \* w[x]: the struct watcher of request x
    resp,       \* resp[x]: the responses the requester of x has been sent
    failed      \* the assertion in watcher_respond() has failed

vars == <<hist, flags, pos, ns, list, w, resp, failed>>

Born(p) == Max({0} \cup {i \in 1 .. p : hist[i].t = "created"})
ExistsAt(p) == Born(p) > 0 /\ \A i \in Born(p) .. p : hist[i].t # "removed"
SeqAt(p) == Cardinality({i \in Born(p) .. p : hist[i].t = "setroot"})

NoRpc == -1
NoNamespace == [here |-> FALSE, commit |-> 0, keys |-> FALSE, fatal |-> FALSE,
                errnum |-> FALSE, getroot |-> NoRpc]
NoWatcher == [st |-> "new", rootseq |-> -1, cancelled |-> FALSE, mute |-> FALSE,
              responded |-> FALSE, finished |-> FALSE, sent |-> FALSE,
              initseq |-> 0, prev |-> "none", lookups |-> <<>>]
NoAnswer == [e |-> "none", at |-> 0]

Errno == {"ENODATA", "ENOTSUP", "ENOENT", "EPERM"}
Answer == [e : {"none", "ok", "ENOENT", "ENOTSUP"}, at : Nat]
TypeOK ==
    /\ [hist |-> hist, flags |-> flags] \in Plans
    /\ pos \in 0 .. Len(hist)
    /\ ns \in [here : BOOLEAN, commit : 0 .. pos, keys : BOOLEAN, fatal : BOOLEAN,
               errnum : BOOLEAN, getroot : {NoRpc} \cup 0 .. pos]
    /\ list \in Seq(Watcher) /\ IsInjective(list)
    /\ \A x \in Watcher :
         /\ w[x].st \in {"new", "live", "gone"}
         /\ w[x].st = "live" <=> x \in Range(list)
         /\ w[x].rootseq \in -1 .. Len(hist)
         /\ w[x].lookups \in Seq([init : BOOLEAN, at : 0 .. pos, ans : Answer])
    /\ \A x \in Watcher : resp[x] \in Seq([e : Errno \cup {"ok"}, at : 0 .. pos])
    /\ failed \in BOOLEAN

Init ==
    /\ \E p \in Plans : hist = p.hist /\ flags = p.flags
    /\ pos = 0 /\ ns = NoNamespace /\ list = <<>> /\ failed = FALSE
    /\ w = [x \in Watcher |-> NoWatcher]
    /\ resp = [x \in Watcher |-> <<>>]

(* The state of the module as one value, which the handlers transform. *)
State == [pos |-> pos, ns |-> ns, list |-> list, w |-> w, resp |-> resp,
          failed |-> failed]
Become(S) ==
    /\ \E T \in {S} : /\ pos' = T.pos /\ ns' = T.ns /\ list' = T.list
                      /\ w' = T.w /\ resp' = T.resp /\ failed' = T.failed
    /\ UNCHANGED <<hist, flags>>
Over(op(_, _), S, xs) == FoldLeft(op, S, xs)

-----------------------------------------------------------------------------
(* Plausible slips in the code, each the mutated form of a definition.     *)

CleanupKeeps(S, x) ==
    IF S.w[x].lookups # <<>> THEN S
    ELSE [S EXCEPT !.list = SelectSeq(@, LAMBDA y : y # x), !.w[x].st = "gone"]
SameAny(S, x, v) == S.w[x].responded
TossedNever(S, x, p) == FALSE
ComparesAll(x) == TRUE
WatcherCancelLate(S, x, mute) ==
    [S EXCEPT !.w[x].cancelled = TRUE, !.w[x].mute = mute]
NamespaceMonitorNoRpc(S) == [S EXCEPT !.ns.here = TRUE]

-----------------------------------------------------------------------------
Respond(S, x, e, p) == [S EXCEPT !.resp[x] = Append(@, [e |-> e, at |-> p])]

Cleanup(S, x) ==
    LET T == IF S.w[x].lookups # <<>> THEN S
             ELSE [S EXCEPT !.list = SelectSeq(@, LAMBDA y : y # x),
                            !.w[x].st = "gone"]
    IN IF T.list = <<>> /\ T.ns.getroot = NoRpc
       THEN [T EXCEPT !.ns = NoNamespace] ELSE T

(* The error path of watcher_respond() and handle_lookup_response(). *)
Finish(S, x, e) ==
    LET T == [S EXCEPT !.w[x].finished = TRUE]
    IN IF T.w[x].mute THEN T ELSE Respond(T, x, e, 0)

ArrayMatch(S, x) == S.ns.keys /\ hist[S.ns.commit].key

(* lookupat() and process_lookup_response(): the first lookup is of the    *)
(* current root, each later one of the root just heard of.                 *)
ProcessLookup(S, x) ==
    LET l == [init |-> ~S.w[x].sent, ans |-> NoAnswer,
              at |-> IF S.w[x].sent THEN S.ns.commit ELSE S.pos]
    IN [S EXCEPT !.w[x].lookups = Append(@, l), !.w[x].sent = TRUE,
                 !.w[x].rootseq = SeqAt(S.ns.commit)]

(* A watcher that may wait for the namespace to be created. *)
WaitsForNs(S, x) == "WAITCREATE" \in flags[x] /\ ~S.w[x].responded

WatcherRespond(S, x) ==
    IF S.failed THEN S
    ELSE IF S.w[x].finished THEN Cleanup(S, x)
    ELSE IF S.w[x].cancelled THEN Cleanup(Finish(S, x, "ENODATA"), x)
    ELSE IF S.ns.fatal THEN Cleanup(Finish(S, x, "ENOTSUP"), x)
    ELSE IF S.ns.errnum
         THEN IF WaitsForNs(S, x) THEN [S EXCEPT !.ns.errnum = FALSE]
              ELSE Cleanup(Finish(S, x, "ENOTSUP"), x)
    ELSE IF S.ns.commit = 0 THEN [S EXCEPT !.failed = TRUE]
    ELSE IF SeqAt(S.ns.commit) <= S.w[x].rootseq THEN S
    ELSE IF "GUEST" \in flags[x] THEN Cleanup(Finish(S, x, "EPERM"), x)
    ELSE IF S.w[x].rootseq = -1 \/ "FULL" \in flags[x] \/ ArrayMatch(S, x)
         THEN ProcessLookup(S, x)
    ELSE S

WatcherRespondNs(S) == Over(WatcherRespond, S, S.list)

WatcherCancel(S, x, mute) ==
    WatcherRespond([S EXCEPT !.w[x].cancelled = TRUE, !.w[x].mute = mute], x)

-----------------------------------------------------------------------------
(* Requests of clients. *)

NamespaceMonitor(S) ==
    IF S.ns.here THEN S
    ELSE [S EXCEPT !.ns = [NoNamespace EXCEPT !.here = TRUE, !.getroot = S.pos]]

LookupCb(x) ==
    /\ ~failed /\ w[x].st = "new" /\ flags[x] # {}
    /\ LET S == NamespaceMonitor(State)
           T == [S EXCEPT !.list = Append(@, x), !.w[x].st = "live"]
       IN Become(IF T.ns.commit # 0 THEN WatcherRespond(T, x) ELSE T)

CancelCb(x) ==
    /\ ~failed /\ w[x].st = "live" /\ ~w[x].cancelled
    /\ Become(WatcherCancel(State, x, FALSE))

DisconnectCb(c) ==
    LET Mine == SelectSeq(list, LAMBDA x : Sender[x] = c)
    IN /\ ~failed /\ \E x \in Range(Mine) : ~w[x].mute
       /\ Become(Over(LAMBDA S, x : WatcherCancel(S, x, TRUE), State, Mine))

-----------------------------------------------------------------------------
(* Events.  The module is subscribed as long as it has the namespace.      *)

RemovedCb(S) == WatcherRespondNs([S EXCEPT !.ns.fatal = TRUE])

CreatedCb(S) ==
    IF S.ns.commit # 0 THEN S
    ELSE WatcherRespondNs([S EXCEPT !.ns.commit = S.pos, !.ns.keys = FALSE])

SetrootCb(S) ==
    IF S.ns.commit # 0 /\ SeqAt(S.pos) <= SeqAt(S.ns.commit) THEN S
    ELSE WatcherRespondNs([S EXCEPT !.ns.commit = S.pos, !.ns.keys = TRUE])

Event ==
    /\ ~failed /\ pos < Len(hist)
    /\ LET S == [State EXCEPT !.pos = @ + 1]
       IN Become(IF ~ns.here THEN S
                 ELSE CASE hist[S.pos].t = "removed" -> RemovedCb(S)
                        [] hist[S.pos].t = "created" -> CreatedCb(S)
                        [] hist[S.pos].t = "setroot" -> SetrootCb(S))

-----------------------------------------------------------------------------
(* Answers of the kvs module. *)

GetrootContinuation(r) ==
    LET S == [State EXCEPT !.ns.getroot = NoRpc]
    IN /\ ~failed /\ ns.getroot # NoRpc /\ r \in ns.getroot .. pos
       /\ Become(IF list = <<>> THEN [S EXCEPT !.ns = NoNamespace]
                 ELSE IF ns.commit # 0 THEN S
                 ELSE IF ~ExistsAt(r) THEN WatcherRespondNs([S EXCEPT !.ns.errnum = TRUE])
                 ELSE WatcherRespondNs([S EXCEPT !.ns.commit = r, !.ns.keys = FALSE]))

(* kvs.lookup-plus.  The first lookup is of whatever root the kvs module   *)
(* has.  The others name their root; a lookup that had to wait for content *)
(* fails when the namespace has been removed meanwhile.                    *)
LookupPlus(l, r) ==
    IF ~ExistsAt(r) THEN [e |-> "ENOTSUP", at |-> 0]
    ELSE LET p == IF l.init THEN r ELSE l.at
         IN [e |-> IF hist[p].val = "none" THEN "ENOENT" ELSE "ok", at |-> p]

(* The kvs module answers lookups in any order. *)
LookupAnswer(x, i, r) ==
    LET l == w[x].lookups[i]
    IN /\ ~failed /\ l.ans = NoAnswer /\ r \in l.at .. pos
       /\ Become([State EXCEPT !.w[x].lookups[i].ans = LookupPlus(l, r)])

Compares(x) == flags[x] \cap {"FULL", "UNIQ"} # {}
Same(S, x, v) == S.w[x].responded /\ S.w[x].prev = v
Tossed(S, x, p) == SeqAt(p) < S.w[x].initseq
WaitsForKey(S, x) == "WAITCREATE" \in flags[x] /\ ~S.w[x].responded

Value(S, x, p) ==
    [Respond(S, x, "ok", p) EXCEPT !.w[x].responded = TRUE,
                                   !.w[x].prev = IF Compares(x) THEN hist[p].val ELSE @]

HandleInitial(S, x, a) ==
    CASE a.e = "ENOENT" /\ WaitsForKey(S, x) -> [S EXCEPT !.w[x].initseq = SeqAt(a.at)]
      [] a.e = "ok" -> [Value(S, x, a.at) EXCEPT !.w[x].initseq = SeqAt(a.at)]
      [] OTHER -> Finish(S, x, a.e)

HandleLater(S, x, a) ==
    IF a.e # "ok" THEN Finish(S, x, a.e)
    ELSE IF Tossed(S, x, a.at) \/ S.w[x].mute \/ (Compares(x) /\ Same(S, x, hist[a.at].val))
         THEN S
    ELSE Value(S, x, a.at)

(* One turn of the loop of lookup_continuation(). *)
HandleOne(S, x, l) ==
    LET T == IF S.w[x].finished THEN S
             ELSE IF l.init THEN HandleInitial(S, x, l.ans) ELSE HandleLater(S, x, l.ans)
    IN [T EXCEPT !.w[x].finished = @ \/ (/\ T.w[x].responded
                                         /\ "WAITCREATE" \in flags[x]
                                         /\ "WATCH" \notin flags[x])]

(* How many lookups at the head of the list are answered. *)
Ready(q) == Max({n \in 0 .. Len(q) : \A i \in 1 .. n : q[i].ans # NoAnswer})

LookupContinuation(x) ==
    LET q == w[x].lookups
        n == Ready(q)
        S == [State EXCEPT !.w[x].lookups = SubSeq(q, n + 1, Len(q))]
        T == FoldLeft(LAMBDA A, l : HandleOne(A, x, l), S, SubSeq(q, 1, n))
    IN /\ ~failed /\ n > 0
       /\ Become(IF T.w[x].finished THEN Cleanup(T, x) ELSE T)

-----------------------------------------------------------------------------
Position == 0 .. pos

Client ==
    \/ \E x \in Watcher : LookupCb(x) \/ CancelCb(x)
    \/ \E c \in Range(Sender) : DisconnectCb(c)

Inside ==
    \/ Event
    \/ \E r \in Position : GetrootContinuation(r)
    \/ \E x \in Watcher : LookupContinuation(x)
    \/ \E x \in Watcher : \E i \in DOMAIN w[x].lookups, r \in Position : LookupAnswer(x, i, r)

Next == Client \/ Inside

Spec == Init /\ [][Next]_vars

(* Events are delivered, and the kvs module answers every request: weak    *)
(* fairness of Inside, in a form that TLC evaluates faster.  Busy is       *)
(* ENABLED Inside.  A client makes, cancels and drops a request at most    *)
(* once, so a behaviour that never stops takes infinitely many steps of    *)
(* Inside; none of its steps can be repeated for ever, so fairness of the  *)
(* disjunction is fairness of each disjunct.                               *)
Busy ==
    /\ ~failed
    /\ pos < Len(hist) \/ ns.getroot # NoRpc \/ \E x \in Watcher : w[x].lookups # <<>>
FairSpec == Spec /\ ([]<>~Busy \/ []<><<TRUE>>_vars)

-----------------------------------------------------------------------------
Values(x) == SelectSeq(resp[x], LAMBDA m : m.e = "ok")
Settled == pos = Len(hist) /\ ns.getroot = NoRpc /\ \A x \in Watcher : w[x].lookups = <<>>
Watching(x) ==
    /\ w[x].st = "live" /\ w[x].responded /\ "WATCH" \in flags[x]
    /\ ~w[x].cancelled

OnlyNew(x) == flags[x] \cap {"FULL", "UNIQ"} # {}

(* The values a watcher is sent are in the order of the commits, although  *)
(* the kvs module answers the lookups out of order.                        *)
CommitOrder ==
    \A x \in Watcher : \A i, j \in DOMAIN Values(x) : i < j => Values(x)[i].at <= Values(x)[j].at

(* When all events are heard and all lookups answered, a watcher has been  *)
(* sent the present value of the key.                                      *)
LastValueSent ==
    Settled => \A x \in Watcher : Watching(x) /\ ~failed
                 => hist[Last(Values(x)).at].val = hist[Len(hist)].val

(* Then a watcher has been sent the value of each commit that named the    *)
(* key since its first response, unless it asked for changes only.         *)
EachCommitSent ==
    Settled => \A x \in Watcher : Watching(x) /\ ~failed /\ ~OnlyNew(x)
                 => \A p \in Values(x)[1].at .. pos :
                      hist[p].key => \E i \in DOMAIN Values(x) : Values(x)[i].at = p

(* The module keeps a namespace, and its subscriptions, no longer than it  *)
(* has watchers of it or waits for its root.                               *)
NoLeak == ns.here => list # <<>> \/ ns.getroot # NoRpc

(* The comment in watcher_respond(): "This assert is safe". *)
AssertHolds == ~failed

(* "After the initial response, continue to send responses to the lookup   *)
(* request each time key is mentioned verbatim in a committed              *)
(* transaction": one response for a commit, not two.                       *)
SentOnce ==
    \A x \in Watcher : \A i, j \in DOMAIN Values(x) : i # j => Values(x)[i].at # Values(x)[j].at

(* A watcher that has been cancelled, or whose namespace has been removed  *)
(* after its root was known, comes to an end.                              *)
Ends ==
    \A x \in Watcher : (w[x].st = "live" /\ (w[x].cancelled \/ (ns.fatal /\ ns.commit # 0)))
                       ~> (w[x].st = "gone" \/ failed)

(* A request is answered, or waits for a namespace or a key that does not  *)
(* exist.                                                                  *)
Answered ==
    \A x \in Watcher : (w[x].st = "live")
      ~> (\/ resp[x] # <<>> \/ w[x].mute \/ failed
          \/ ~ExistsAt(pos) \/ hist[pos].val = "none")

=============================================================================
