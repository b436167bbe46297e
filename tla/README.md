# TLA+ verification of flux-core

Flux-core is the core of a resource manager: a tree of *brokers* that pass
messages, load *modules* and offer them services. The largest module, `kvs`, is a
distributed key-value store with a single writer. This directory holds TLA+
models of the parts of the system where concurrency, caching and failure make
the code hard to test, the TLC runs that check them on small instances, and
proofs, checked by TLAPS, of some of the properties that matter most.

Paths below are relative to `src/` of the repository (`modules/kvs/kvs.c` is
`src/modules/kvs/kvs.c`). `PROJECT.json` maps every definition to the lines it
models and lists the runs, the hazards and the theorems.

## The system and its parts

A session is a tree of brokers (rank 0 is the root). Requests travel up the
tree, responses and events come down it. A module is a thread with one reactor:
it runs one callback at a time, so that interleaving happens between callbacks,
between modules and between ranks, and a callback that must wait keeps its state
in a structure and returns.

| Part | Code | Module | What is hard |
|---|---|---|---|
| KVS commit pipeline (rank 0) | `modules/kvs/kvstxn.c`, `kvs.c`, `cache.c`, `waitqueue.c` | `KvsTree`, `KvsTxnState`, `KvsTxnApply`, `KvsTxn` | stalls and replays, callbacks inside callbacks, a cache shared by namespaces, failures half way |
| KVS roots, commits and fences on all ranks | `modules/kvs/kvs.c`, `treq.c`, `kvsroot.c` | `KvsRoot` | events and responses out of order, namespaces that go and come back |
| KVS lookup | `modules/kvs/lookup.c`, `kvs.c` | `KvsLookup` | a recursive walk that is suspended anywhere while the data changes |
| KVS watch | `modules/kvs-watch/kvs-watch.c` | `KvsWatch` | lookups answered out of order, errors, cancels, end of life |
| Content cache and its backing store | `broker/content-cache.c`, `modules/content-sqlite/content-sqlite.c` | `ContentCache` | write-back, partial failure, a store that is unloaded and reloaded |
| Barrier | `modules/barrier/barrier.c`, `common/libflux/barrier.c` | `Barrier`, `BarrierSpec` | counts batched on timers, clients that die |
| Job submission and queue | `modules/job-ingest`, `modules/job-manager` | `Jobs` | batches, commits that fail, requests that overlap, a restart |
| Session life | `broker/hello.c`, `reduce.c`, `runlevel.c`, `shutdown.c`, `overlay.c`, `broker.c` | `Session` | brokers that join in any order, signals at any moment |

How they interact: clients commit to and look up in `kvs` (KvsRoot, KvsLookup);
a complete transaction goes through the pipeline on rank 0 (KvsTxn, one step of
KvsRoot), which loads and stores objects through the content cache (ContentCache,
seen by KvsTxn and KvsLookup as a service that answers or fails) and publishes a
setroot event that moves the roots of the other ranks and drives kvs-watch
(KvsWatch). Job submission (Jobs) uses the KVS as a store of ordered
transactions. The path of messages over the broker tree is part of Barrier,
KvsRoot, ContentCache and Session.

## Modules and their correspondence to the code

**KvsTree** has tree objects and what a transaction does to them
(`kvstxn_link_dirent`, `kvstxn_append`, `kvstxn_unroll`) as operators. Objects are
content addressed: a reference is represented by the object itself.

**KvsTxnState, KvsTxnApply, KvsTxn.** State: the queue of each namespace
(`ready`, records of the fields of `kvstxn_t`), the cache (`present`, `valid`,
`dirty`), the wait queues (`waits`), content requests in flight (`loading`,
`storing`), what the content service holds (`stored`), the published events, and
`stack`, the calls in progress. The stack is there because setting the data of a
cache entry runs its waiters on the spot: the transaction of one namespace runs
inside that of another. Actions: `Submit`; `CheckCb`, `CheckRoot`, `Merge`,
`Apply`, `ApplyOp`, `StoreObj`, `Flush`, `Finish`, which are the stages of
`transaction_check_cb` and `kvstxn_apply`; the answers of the content service,
`LoadOk`, `LoadError`, `StoreOk`, `StoreError`; `NamespaceRemove`,
`NamespaceCreate`; `LookupLoad` (a lookup that faults in an object),
`DropCache` and `Heartbeat` (expiry, collection of removed namespaces). Stages of
one callback are steps that nothing else interrupts, as the stack is not empty.

**KvsRoot** has, for each rank, the root, the event subscriptions, the pending
transactions by name (`treq`), the sync waiters and a FIFO of messages. `Module(r)`
handles the next message with the whole of its handler (commit, fence, relay,
getroot with its answer and replays, setroot, error and removed events, sync);
`RouteUp`, `RouteDown` are the brokers; `HeartbeatRemove`, `HeartbeatAge` the
heartbeat; `CommitReady` stands for the pipeline.

**KvsLookup** has `lk[x]` for `struct lookup` (walk levels, current dirent, what is
missing), the cache, the roots this rank knows (`here`) and those of rank 0
(`cur`). `LookupRequest` and the replays run the walk of `lookup.c` until it ends
or stalls; `LoadOk`, `LoadError`, `GetrootCompletion` continue it; `Commit`,
`NamespaceRemove` and `NamespaceCreate` on rank 0, `SetrootEvent`, `RemovedEvent`,
`HeartbeatRemoved`, `HeartbeatAged` and `Expire` are what happens meanwhile. `Resolve` is the reference: what a path means, by
recursion, with every object at hand.

**KvsWatch** has the `namespace` and `watcher` structures of one rank, the lookups
in flight and the responses sent; a scenario is a history of the namespace that
the module hears of entry by entry, and may miss while it is not subscribed.

**ContentCache** has a `struct content_cache` per rank, queues between nodes, the
database of content-sqlite and the module's life; `Handle(r)` takes the next
message of a broker with the whole of its handler, `Drop(r)` is dropcache and
purge. `ModLoad`, `ModClosing` (the shutdown event), `ModStop` and `ModRun` are the
module: it tells the cache that it is there, registers the service, serves, and when
it is unloaded returns its blobs, answers what is left in its queue and exits.
`Connected`: while the service is not registered, rank 0 cannot send to it, and
`flux_content_load` and `flux_content_store` fail on the spot (`broker_send` returns
the error, `broker.c:1934`); every caller has its own way out. Three histories serve
the properties: `lost`, the requests that reached the module after it had answered its
queue and before the broker removed its service; `discarded`, the valid entries that a
failed load removed; `acked`, the stores that clients know to have succeeded.

**Barrier** has the entry of `ctx->barriers` and the timer of each rank, the
queues, and the calls of clients. **BarrierSpec** is what `flux_barrier` promises:
a call returns success once NProcs processes have called; an error only follows a
fault; without faults every caller of a full barrier is released.

**Jobs** has the batch and the flights of job-ingest, the KVS directory of each job,
the transactions of both modules and job-manager's queue; a job-manager can be
unloaded and loaded again, and then reads its queue from the KVS. It leaves in three
steps: `Unload` (mod_main returns), `ThreadEnds` (its thread has answered the requests
in its queue with ENOSYS) and `ServiceRemoved` (the broker has heard of it); a batch
announced between the last two is lost, and its submitters are never answered.

**Session** has, for each broker, its event loop, its `flux_reduce`, the children
it knows and its shutdown timer, and on rank 0 the run levels and the exit code.

Every module starts with a section of *mutants* or defines them beside the
operator they replace: versions of an operator with a plausible slip, with which
TLC must find the property violated. They are never used by a specification.

## Runs

Each passing run lists its properties; `PROJECT.json` pairs every property with a
mutant of the code that it catches. Every module also has a type invariant,
`TypeOK`, which holds in the same instances; it is part of the inductive invariants
and proved for the commit pipeline, the content cache, the barrier and the session.

| Run | Instance | What it shows |
|---|---|---|
| `kvstxn_one` | one namespace, three commits (one fails), a failed content request, a cache fault, cache drops | `Serial`: every published root is the one before it with the operations of its transactions applied once, in order, whatever was merged, stalled, replayed or given up. `CommitOrder`: in the order of submission. `PublishedStored`: a root is published when all it refers to is stored. `DirtyOwned`: a dirty entry always has someone to flush or remove it |
| `kvstxn_two` | two namespaces that load and store the same objects | `NoLostWakeup`: a blocked transaction waits for an answer still to come. `DirtyListPrivate`: no entry is on two dirty lists or flushed twice. `IInv`: the invariant of the proof |
| `kvstxn_gone` | a namespace removed, collected and created again with commits queued, merged or blocked | `AnsweredOnce`, `RemovedIsFrozen`, and under fairness `Answered` |
| `kvs_root` | a chain of three ranks; five scenarios of commits, a fence, syncs, removal, ageing | `AnswerTruth`: an answer tells what became of the commit. `AnsweredOnce`, although setroot, error and removed events and failed getroots all answer. `ReadYourWrites`: success means that the rank asked has the change. `Completes`: every commit and every full fence is answered |
| `kvs_watch` | ten scenarios of flags and histories | `CommitOrder`, `LastValueSent`, `EachCommitSent`: values come in the order of commits, though lookups are answered out of order, and none is missing. `NoLeak`, `Ends`, `Answered`: watches end, are freed, and are answered first |
| `lookup` | every path of up to two components over values, directories, links and cycles, with every flag | `Snapshot`: a lookup, however often it stalls, returns what the path means at one root that its namespace has had since the request came, also when the namespace is removed and comes back between two stalls ("Small chance root removed, then re-inserted", `lookup.c:787`); it fails with ENOTSUP only when a namespace was not there. `Answered` |
| `content_load` | two ranks, a client on each, batch limit 1, a backing store that comes at any moment and fails once | `Accounting`: `acct_dirty` and `flush_batch_count`, subtracted as unsigned numbers, are what they should count. `FlushDurable`: a flush of rank 0 that succeeds has all that was acknowledged in the database, but what is still on its way up from a rank between, or a failed load removed. `Answered` under fairness, before the backing store is registered too |
| `content_store` | a chain of three ranks; loads, stores of a blob and of one too large, flushes, drops, an unload and the end of the session | `StoreHeld`: what was acknowledged is held by rank 0 or the backing store, with the same two exceptions, whatever is dropped or unloaded. `OneRequest`: a pending entry has one message somewhere on its way, or lost with the module, and no other entry has any |
| `barrier` | a chain of three brokers, three clients in two placements, one fault | `CountedOnce`: no entry is lost or counted twice on its way up. `CountMoves`: no count waits without a timer. `KeepsPromise`: the modules and brokers together refine `BarrierSpec`, its fairness included |
| `jobs` | two jobs, changes of priority, a purge, a failed commit, a manager unloaded and loaded again | `QueueOrder`; `AcceptedIsKept`, also through a restart; `RefusedLeavesNothing`: a failed commit or the cleanup of a refused batch leaves no job in the KVS, unless the cleanup itself fails; `MemoryMatchesKvs`; and under fairness `Answered`, for every job whose announcement is not lost with an exiting manager |
| `session` | four brokers in a tree, one signal | `WiredFirst`: level 1 starts once, when all brokers can be reached. `OneShutdown`: all follow the same shutdown event. `ExitCode`: which program's code the session returns. `AllStop` under fairness |
| `lookup_foreign` | a link into a namespace this rank does not know | violated, see below |

In all runs deadlock is allowed: clients and administrators may stop asking, and
then nothing is left to do. That nothing stops halfway is said by the liveness
properties instead.

### Bounds

Bounds are CONSTANTS (`Max...`) or the scenarios of `Plans`, from which Init
chooses one. They are the smallest at which the interesting cases happen: two
transactions to merge and a third to fail behind them; two namespaces to share an
object and call back into each other; a chain of three ranks, so that a middle
rank both relays and is relayed to; three entries of a barrier, so that a middle
rank sums; two jobs to be out of order; one fault of each kind, so that each error
path is taken at each moment. `CycleLimit` is 3 in `lookup` instead of the code's
10, which shortens cycles of links and nothing else. No scenario of `kvs_watch` has two
WAITCREATE watchers together with a removal. In `kvstxn_two` no transaction happens
to run inside another's callback while that one still has objects to store; the proofs
cover it. The number of requests is
bounded; orders of delivery, moments of failure and of heartbeats are not.

### Fairness

Every fairness condition is weak and is of one of these kinds: a reactor that has
a message, a timer that is due or a callback under way serves it (a libev reactor
serves all its ready watchers in each turn); the content service, the KVS or the
subprocess at the other end answers, with success or with an error; heartbeats go
on. Clients, commits, signals, removals and failures are never fair. In `KvsWatch`,
`KvsLookup` and `ContentCache` the condition is written out without ENABLED, which TLC evaluates much
faster; the comments there say why it is the same.

### What disagrees with the code's own words

`lookup_foreign` checks "Within a namespace, users can get/put KVS values
completely independent of other KVS namespaces" (`doc/man3/flux_kvs_namespace_create.adoc`).
When a link leads into a namespace the rank does not know, `getroot_completion`
(`modules/kvs/kvs.c:346`) takes the namespace from the lookup that waits, not from
the getroot request it answers, and gives the wrong namespace the new root.

The configurations below are not among the runs; each is run by hand
(`tlc -config X.cfg MC...`) and TLC finds its property violated. Where a passing
run checks the same property, its instance avoids the case, and says so here.

| Configuration | Property | What TLC shows |
|---|---|---|
| `KvsTxnDrop` | RootEntryCached | `setroot_event_send` asserts "root entry is always in cache on rank 0" (`kvs.c:889`): a dropcache while the other objects of the transaction are being stored removes it |
| `KvsTxnFlush` | PublishedStored | a second namespace that commits the same object publishes before the first one's store of it is answered (`kvstxn.c:303`). `kvstxn_one` has one namespace |
| `KvsTxnOrphan` | DirtyOwned | an append, then an operation that fails: the appended values stay dirty and nobody flushes them (`kvstxn.c:958`). In `kvstxn_one` no append comes before a failure |
| `KvsTxnReplay` | Serial | an append, then an operation that stalls: the replay appends again (`kvstxn.c:932`; "This function is idempotent", `kvs.c:1002`). No append in `kvstxn_one` |
| `KvsRootOpen`, with `-continue` | EventuallyConsistent | a follower subscribes to setroot events after it has the answer to getroot, and misses a commit between the two (`kvs.c:374`) |
| `KvsRootOpen`, with `-continue` | Monotonic | a second getroot answer with sequence number 0 takes a rank back (`kvs.c:320`). `ReadYourWrites` excepts this case |
| `KvsLookupChain` | Snapshot | READLINK or TREEOBJ through a chain of links in the middle of a path ends in ENOTRECOVERABLE (`lookup.c:294`). `lookup` asks for chains without these flags |
| `KvsLookupRoot` | Defined | a chain of links that ends at the root goes on from a freed dirent. Not asked for in `lookup` |
| `KvsLookupExpire` | Defined | a cache entry expires while a stalled lookup points into it. In `lookup` such a lookup ends as "undef", and Snapshot and Answered make no claim about it |
| `KvsWatchOpen`, with `-continue` | AssertHolds | "This assert is safe" (`kvs-watch.c:584`): two WAITCREATE watchers of a missing namespace. `Ends` and `Answered` except it |
| `KvsWatchOpen`, with `-continue` | SentOnce | one commit is sent twice when the first lookup is answered from a root the module has heard of (`kvs-watch.c:392`) |
| `ContentOpen`, with `-continue` | NoAbort | a load that fails after a store of the same blob removes the entry with the store deferred on it (assertion at `content-cache.c:162`). The other properties claim nothing after it |
| `ContentOpen`, with `-continue` | StoreLoadable | the same with a load that is queued at the backing store when that is unloaded, and no store deferred: the acknowledged blob is gone. `StoreHeld` excepts it (`discarded`) |
| `ContentOpen`, with `-continue` | NoneLost | a request routed to a module that has left its reactor is never answered (`broker/module.c:153`). `OneRequest` counts it as lost, `Answered` excepts it |
| `ContentDeep` | StoreLoadable | "after a store RPC returns, the entry may be loaded from any rank": a rank in the middle of the tree answers a load from an entry it has not stored yet (`content-cache.c:389`), the loading rank takes it for clean and acknowledges a store of it at once. `StoreHeld` and `FlushDurable` except it (`Climbing`) |
| `ContentEarly` | Duplicated | "entries are asynchronously duplicated on the backing store": content-sqlite tells the cache of itself before it registers its service (`content-sqlite.c:533`), so the flush that this starts sends nothing, and what was stored before stays dirty until something else flushes it |
| `BarrierAbort` | AbortsWhole | a client gone while the exit event is on its way: some callers get success, others ECONNABORTED |
| `JobsDangling` | NoDangling | a purge frees a job whose change of priority is under way (`priority.c:97`). In `jobs` the requests about one job do not overlap |
| `JobsGhost`, with `-continue` | RefusedNotQueued | a manager loaded while a refused batch is being unlinked keeps its jobs |
| `JobsGhost`, with `-continue` | NoneLost | an announcement that reaches a manager after it has drained its queue is never answered (`broker/module.c:153`). `Answered` excepts its jobs |
| `SessionEarly` | EarlyStop | a signal before wire-up: the shutdown event does not reach brokers that join later. `AllStop` excepts it |

## Proofs

All proofs are checked by TLAPS 1.4.5 with Z3, Zenon and LS4, for every value of
the constants that satisfies the ASSUMEs of the modules.

**Commit pipeline** (`KvsTxnProofs`; assumptions: the transactions, names, values and
initial directory are of their types, the set of namespaces is finite). Theorems:

- `Invariance`: Spec => []IInv, and from it
- `TypeCorrect`: Spec => []TypeOK;
- `Wakeup`: Spec => []NoLostWakeup;
- `DirtyPrivate`: Spec => []DirtyListPrivate, which contains the assertions of
  `kvstxn_cache_cb` and of the clean-up of dirty entries;
- `Frozen`: Spec => RemovedIsFrozen, the action property about removed namespaces.

None of the properties is inductive. In the middle of a callback a transaction is
neither blocked nor idle, and other transactions may run inside it. `IInv`
(`KvsTxnState`) therefore adds: the order of the calls in progress, with each
namespace running at most once (`StackOrder`); what the transaction at the head of
a queue may have, by whether it runs, waits or has not begun (`HeadInv`, `RunInv`);
that a wait is for an entry whose request is in flight (`WaitInv`); and that an
entry without data is being loaded, and what is being stored is dirty
(`CacheInv`). Init implies IInv, each action preserves it (one lemma per action,
after facts about sequences and calls, and about what a change of one namespace, of
the stack or of the cache leaves true), and IInv implies the properties. TLC checks
IInv in `kvstxn_two`.

`Frozen` needs one more invariant, `Tested`: a call past the test at the head of
`kvstxn_apply` is of a namespace that is not marked for removal. It is kept because
a namespace is only marked between callbacks, so the mark cannot appear between the
test and `setroot`, however many transactions `cache_entry_set_raw` runs in
between; a transaction that blocks leaves the stack and is tested again when it is
called back.

**Content cache** (`ContentSteps` with the handlers of requests, `ContentAnswers` with
those of answers, `ContentProofs` with the rest and the theorems; assumptions: a tree in
which a parent's rank is lower, a finite set of blobs, a positive batch limit; clients
load, store or flush). For every tree, any clients, blobs and requests, and any number of
failures and unloads:

- `CountersRight`: Spec => []Accounting, and `TypeCorrect`: Spec => []TypeOK;
- `SingleRequest`: Spec => []OneRequest;
- `StoresHeld`: Spec => []StoreHeld, and `FlushesDurable`: Spec => FlushDurable.

The inductive invariant `Inv` (theorem `Invariance`) has four parts. `Routes`: requests
are deferred only for children. `Counted`: the counters of one cache. `Singles`: the
messages about a blob that a rank has sent or is to receive, with those deferred at its
parent and those lost, are one when the load or store is pending and none otherwise.
`Living`: where content-sqlite is in its life, against what the cache knows and what the
module has asked; in it, the blobs answered with success are in the database, and nothing
too large for a blob is dirty on rank 0, so the blobs returned at an unload are accepted.
StoreHeld and FlushDurable need `Kept` (theorem `KeptAlways`) besides, which holds until
the session ends: what is clean on rank 0 is in the database or on its way back from it,
and what is clean on another rank, or in an answer of success to it, is `Good` there: held
by rank 0 or its store, removed by a failed load, or dirty on an inner rank of a
lower number. The inner ranks are needed because a rank serves a load from an entry it has not
yet stored, which makes the entry clean one level down before it is stored one level up.
A rank drops only what is clean, and `content_flush_request` on rank 0 succeeds only
when nothing is dirty.

A handler is a lemma: it takes a message, puts messages into queues and changes one
cache, so that both sides of `Singles` move by the same amount (`Balanced`); what the
operations on one cache do, and what a queue counts, are lemmas of their own. The laws
of counting (`Laws`) are a hypothesis of these lemmas and proved in `ContentProofs` from
the theorems on finite sets: the messages of a queue are counted as a set of places, so
that no induction over the queue is needed. TLC has checked Inv and Kept on instances
like those of `content_load` (with an unload) and `content_store`.

**Queues and sums** (`Queues`, `Sums`). `Sums` has what is in a queue after a message
is taken from it or put into it, and what a sum of counts over a finite set becomes
when one or two of them change; `Queues` defines the notions. A sum is defined as the number of pairs
<<x, k>> with k in 1 .. f[x]: its laws then follow from those of finite sets, without
an induction over data.

**Barrier** (`BarrierProofs`; assumptions: finite sets of ranks and clients, a tree in
which a parent's rank is lower, NProcs > 0). Theorems:

- `Counted`: Spec => []CountedOnce, on every tree, for every placement of the clients;
- `PromiseSafety`: when no client enters twice, every step is a step of BarrierSpec
  or a stutter: the safety part of `KeepsPromise`;
- `Moves`: Spec => []CountMoves, and `Types`: Spec => []TypeOK.

`CountedOnce` and the refinement are consequences of `Inv`, proved as `Invariance`. It says what messages can be where (`Shape`); that a client's request is
in one queue or in one barrier, of its own rank, while it waits (`Callers`); that no
more is counted than clients have entered, and exit events have their reason
(`Bound`); that until an exit event is sent everything is counted and stands for a
client in some barrier (`Early`); and that a success event, until it has answered
somebody, is on its way to somebody (`Late`). The last two are needed because
`ExitSent` may not become false again: an exit event that reached nobody would leave
a barrier with its counts lost. `PromiseSafety` leaves out a client that enters twice
(`Faults` without "double"); TLC checks `KeepsPromise` with it. CountMoves is inductive
relative to TypeOK: `enter_request_cb` arms the timer with the count, and `timeout_cb`
clears both.

**Session** (`SessionSteps`, `SessionProofs`; assumptions: a finite set of ranks, a tree
in which a parent's rank is lower). For every tree, every plan of run levels and any
number of signals:

- `Wiring`: Spec => []WiredFirst;
- `Exiting`: Spec => []ExitCode;
- `Following`: Spec => []OneShutdown.

The inductive invariant `Inv` (theorem `Invariance`) has a part for each. `Counted`: the
total of rank 0 and the counts in reductions and messages add up to the brokers that
have started, and a level above 0 means that the total is all of them. `Known`: a
broker its parent has not heard from still has its count, or a join on its way; with
`Counted` this gives WiredFirst, as nothing is on its way once the total is complete.
`Levels`: scripts run at their level, one after the other. `Truths`: each shutdown event
says why it was published, and this stays true. `OneEvent`: once rank 0 has seen an
event of a wired session, that event is the first on every rank and in every queue
down the tree, and has reached every child of a broker that has seen it. `Exits`: rank
0 leaves with the code of the event it follows. `SessionSteps` shows first what each
handler does to the record of the state, as a relation between two records, and then
that the relations keep each part; `SessionProofs` has the sums and the theorems. TLC
has checked Inv on the instance of `session`.

**Only model-checked**: all liveness properties and the fairness of `KeepsPromise`, which
are out of the prover's reach; the lookup, whose walk and reference are recursive;
the invariants of KvsWatch and Jobs, whose handlers fold over and filter lists, so that
what they compute needs induction over data; those of KvsRoot, whose getroot messages
nest one another; `Serial`, `CommitOrder` and `AnsweredOnce` of KvsTxn, for the same
reason (a root is a fold over transactions, and the queue a merge of them);
`PublishedStored` and `DirtyOwned`, which hold in the instances of `kvstxn_one` and not in
general; `StoreLoadable`, `NoneLost`, `Duplicated` and `NoAbort` of ContentCache, which the
code does not keep.

## Not modelled, and why

The map covers about 8,200 of the repository's 113,000 lines of source. The rest is
mostly code without the kind of state a model checker helps with:

- command line tools, Lua and Python bindings, the wreck launcher, process
  management, connectors, PMI wire protocol, boot, SQL: I/O and user interface;
- third-party libraries kept in the tree (libev, liblsd, libtomlc99 and others);
- encodings and containers (RFC 11 objects, blobrefs, idsets, JSON, attributes):
  pure data with unit tests; where a model needs one it is an abstract value;
- futures, RPC matchtags and message dispatch: local to one reactor; the models
  rely on one callback at a time and FIFO delivery between two nodes;
- aggregator and cron: the first forwards sums on timers as barrier and hello do,
  the second keeps timers of one rank;
- log, attr, exec, ping, rusage services: local tables.

Within what is modelled: allocation failures, logging, statistics and access
control are left out, apart from the roles of users in Jobs and of guests in
KvsWatch; a fence request whose flags or number of processes differ from those of the
first is not made (EINVAL in `kvs.c:2238`); KvsLookup has no namespace prefixes of keys
(`lookup.c:554`) and no load request that cannot be sent (`kvs.c:1481`); KvsTree has directories of two levels without links; KvsRoot and
KvsWatch have one namespace and KvsWatch one key; events are not lost between
brokers (a gap in their sequence numbers is only logged by `broker.c`).
