------------------------------- MODULE Jobs --------------------------------
(***************************************************************************)
(* The path of a job from submission to the queue: the job-ingest module   *)
(* (modules/job-ingest/job-ingest.c), which collects requests in batches,  *)
(* commits them to the KVS and announces them, and the job-manager module  *)
(* (modules/job-manager), which keeps the queue, and rebuilds it from the  *)
(* KVS when it is loaded again.                                            *)
(*                                                                         *)
(* Jobs are numbered in the order of their ids.  The KVS applies the       *)
(* transactions of each module in the order they were sent.                *)
(***************************************************************************)
EXTENDS Integers, Sequences, FiniteSets, FiniteSetsExt, SequencesExt

CONSTANTS
    NJobs,      \* bound: jobs submitted
    Prio,       \* the priorities that requests ask for
    Default,    \* FLUX_JOB_PRIORITY_DEFAULT
    MaxPrio,    \* FLUX_JOB_PRIORITY_MAX
    User,       \* requesters: "owner" or "guest"
    Plans       \* scenarios: bounds [requests, purges, fails, restarts],
                \* and overlap: whether requests may be about jobs not yet
                \* accepted, and whether a job may be purged, or the manager
                \* unloaded, while a request is under way

Job == 1 .. NJobs
Module == {"ingest", "manager"}

ASSUME JobsAssumption ==
    /\ NJobs \in Nat /\ Default \in Nat /\ MaxPrio \in Nat
    /\ Prio \subseteq Int /\ User \subseteq {"owner", "guest"}

VARIABLES
    left,       \* what is left of the scenario's bounds
    next,       \* the id of the next job
    spec,       \* spec[j]: the priority job j was submitted with
    answer,     \* answer[j]: what the submitter of j was answered
    batch,      \* ctx->batch of job-ingest, <<>> for NULL
    flight,     \* batches that have been flushed, by their first job
    announced,  \* announcements on their way to job-manager, by first job
    kvs,        \* kvs[j]: the directory of job j under job.active
    txns,       \* txns[m]: transactions of module m not applied yet
    mgr,        \* job-manager: "off", "starting", "running", "draining" when
                \* mod_main() has returned, "exited" when its thread has ended
    map,        \* restart_from_kvs(): jobs listed and not yet visited
    queue,      \* active_jobs_list
    prio,       \* prio[j]: the priority in the struct job of a queued job
    obj,        \* obj[j]: how many struct jobs there have been for j
    inst,       \* how often job-manager has been loaded
    done,       \* answers of the KVS that job-manager has yet to handle
    broken,     \* a continuation has used a job that was freed
    purged,     \* history: jobs that the KVS has unlinked for a purge
    uncleaned   \* history: jobs whose cleanup the KVS has failed to commit

vars == <<left, next, spec, answer, batch, flight, announced, kvs, txns, mgr,
          map, queue, prio, obj, inst, done, broken, purged, uncleaned>>

histVars == <<purged, uncleaned>>
ingestVars == <<batch, flight, announced, answer, next, spec>>
managerVars == <<mgr, map, queue, prio, obj, inst, done, broken>>

NoDir == [dir |-> "none", prio |-> 0]
Txn(kind, js, j, p) ==
    [kind |-> kind, jobs |-> js, job |-> j, prio |-> p, obj |-> obj[j], inst |-> inst]

Flight == [jobs : Seq(Job), at : {"commit", "committed", "failed", "announced",
                                  "accepted", "refused", "lost"}]
TypeOK ==
    /\ next \in 1 .. NJobs + 1
    /\ answer \in [Job -> {"none", "ok", "error"}]
    /\ batch \in Seq(Job)
    /\ DOMAIN flight \subseteq Job /\ Range(flight) \subseteq Flight
    /\ announced \subseteq DOMAIN flight
    /\ kvs \in [Job -> [dir : {"none", "partial", "full"}, prio : Prio \cup {0}]]
    /\ mgr \in {"off", "starting", "running", "draining", "exited"} /\ map \subseteq Job
    /\ queue \in Seq(Job) /\ IsInjective(queue)
    /\ \A i \in DOMAIN queue : prio[queue[i]] \in 0 .. MaxPrio
    /\ purged \subseteq Job /\ uncleaned \subseteq Job /\ broken \in BOOLEAN

Init ==
    /\ left \in Plans
    /\ next = 1 /\ batch = <<>> /\ flight = <<>> /\ announced = {}
    /\ spec = [j \in Job |-> 0] /\ answer = [j \in Job |-> "none"]
    /\ kvs = [j \in Job |-> NoDir] /\ txns = [m \in Module |-> <<>>]
    /\ mgr = "running" /\ map = {} /\ queue = <<>> /\ done = <<>>
    /\ prio = [j \in Job |-> 0] /\ obj = [j \in Job |-> 0]
    /\ inst = 1 /\ broken = FALSE /\ purged = {} /\ uncleaned = {}

-----------------------------------------------------------------------------
(* Plausible slips in the code, each the mutated form of a definition.     *)

BatchCleanupNone(f) == txns
SucceededAlways(d) == TRUE
PresentNone == {}
ReorderEarly(j, p) == prio' = [prio EXCEPT ![j] = p] /\ UNCHANGED queue
BatchRespondFirst(f, a) == [answer EXCEPT ![f] = a]

-----------------------------------------------------------------------------
(* job-ingest. *)

Valid(p, u) == p \in 0 .. MaxPrio /\ (u = "owner" \/ p <= Default)

(* submit_cb(): a valid job joins the batch, and the first one starts the  *)
(* timer.                                                                  *)
Submit(p, u) ==
    /\ next <= NJobs /\ next' = next + 1
    /\ spec' = [spec EXCEPT ![next] = p]
    /\ IF Valid(p, u) THEN /\ batch' = Append(batch, next) /\ UNCHANGED answer
       ELSE answer' = [answer EXCEPT ![next] = "error"] /\ UNCHANGED batch
    /\ UNCHANGED <<left, flight, announced, kvs, txns, histVars, managerVars>>

(* The timer expires: the batch is handed to the KVS, and the next job     *)
(* starts a new one.                                                       *)
BatchFlush ==
    /\ batch # <<>> /\ batch' = <<>>
    /\ flight' = (Head(batch) :> [jobs |-> batch, at |-> "commit"]) @@ flight
    /\ txns' = [txns EXCEPT !["ingest"] = Append(@, Txn("put", batch, Head(batch), 0))]
    /\ UNCHANGED <<left, next, spec, answer, announced, kvs, histVars, managerVars>>

BatchRespond(f, a) ==
    [j \in Job |-> IF j \in Range(flight[f].jobs) THEN a ELSE answer[j]]
BatchDestroy(f) == [g \in DOMAIN flight \ {f} |-> flight[g]]
BatchCleanup(f) ==
    [txns EXCEPT !["ingest"] = Append(@, Txn("clean", flight[f].jobs, f, 0))]

BatchFlushContinuation(f) ==
    \/ /\ flight[f].at = "committed"
       /\ flight' = [flight EXCEPT ![f].at = "announced"]
       /\ announced' = announced \cup {f}
       /\ UNCHANGED <<left, next, spec, answer, batch, kvs, txns, histVars, managerVars>>
    \/ /\ flight[f].at = "failed"
       /\ answer' = BatchRespond(f, "error") /\ flight' = BatchDestroy(f)
       /\ UNCHANGED <<left, next, spec, batch, announced, kvs, txns, histVars, managerVars>>

BatchAnnounceContinuation(f) ==
    /\ \/ flight[f].at = "accepted" /\ answer' = BatchRespond(f, "ok") /\ UNCHANGED txns
       \/ flight[f].at = "refused" /\ answer' = BatchRespond(f, "error")
          /\ txns' = BatchCleanup(f)
    /\ flight' = BatchDestroy(f)
    /\ UNCHANGED <<left, next, spec, batch, announced, kvs, histVars, managerVars>>

-----------------------------------------------------------------------------
(* The KVS: the first transaction of a module is applied, or fails.        *)

Applied(t) ==
    [j \in Job |->
      CASE t.kind = "put" /\ j \in Range(t.jobs) -> [dir |-> "full", prio |-> spec[j]]
        [] t.kind = "clean" /\ j \in Range(t.jobs) -> NoDir
        [] t.kind = "purge" /\ j = t.job -> NoDir
        [] t.kind = "priority" /\ j = t.job ->
             [dir |-> IF kvs[j].dir = "none" THEN "partial" ELSE kvs[j].dir, prio |-> t.prio]
        [] OTHER -> kvs[j]]

KvsCommit(m, ok) ==
    LET t == Head(txns[m])
    IN /\ txns[m] # <<>> /\ txns' = [txns EXCEPT ![m] = Tail(@)]
       /\ IF ok THEN kvs' = Applied(t) /\ UNCHANGED left
          ELSE left.fails > 0 /\ left' = [left EXCEPT !.fails = @ - 1] /\ UNCHANGED kvs
       /\ purged' = IF ok /\ t.kind = "purge" THEN purged \cup {t.job} ELSE purged
       /\ uncleaned' = IF ~ok /\ t.kind = "clean" THEN uncleaned \cup Range(t.jobs)
                       ELSE uncleaned
       /\ flight' = IF t.kind # "put" THEN flight
                    ELSE [flight EXCEPT ![t.job].at = IF ok THEN "committed" ELSE "failed"]
       /\ done' = IF m = "manager" /\ mgr = "running" /\ t.inst = inst
                  THEN Append(done, [t |-> t, ok |-> ok])
                  ELSE done
       /\ UNCHANGED <<next, spec, answer, batch, announced, mgr, map, queue, prio, obj,
                      inst, broken>>

-----------------------------------------------------------------------------
(* The queue of job-manager: by priority, then by id.                      *)

Before(q, j, P) == {i \in DOMAIN q : P[q[i]] > P[j] \/ (P[q[i]] = P[j] /\ q[i] < j)}
Inserted(q, j, P) == LET n == Cardinality(Before(q, j, P))
                     IN SubSeq(q, 1, n) \o <<j>> \o SubSeq(q, n + 1, Len(q))

NewJob(j) == j \notin Range(queue)

(* queue_insert() of a list of jobs; those queued already are left alone.  *)
InsertAll(js) ==
    LET new == SelectSeq(js, NewJob)
        P == [j \in Job |-> IF j \in Range(new) THEN spec[j] ELSE prio[j]]
    IN /\ prio' = P
       /\ queue' = FoldLeft(LAMBDA q, j : Inserted(q, j, P), queue, new)
       /\ obj' = [j \in Job |-> obj[j] + (IF j \in Range(new) THEN 1 ELSE 0)]

(* The announcement reaches job-manager; without one the broker, or the    *)
(* module on its way out, answers ENOSYS.  While the module starts its     *)
(* requests wait.  One that is passed on to a module that has drained its  *)
(* queue is never read.                                                    *)
ManagerSubmit(f) ==
    /\ f \in announced /\ announced' = announced \ {f}
    /\ \/ /\ mgr = "running" /\ InsertAll(flight[f].jobs)
          /\ flight' = [flight EXCEPT ![f].at = "accepted"]
       \/ /\ mgr \in {"off", "draining", "exited"}
          /\ flight' = [flight EXCEPT ![f].at = IF mgr = "exited" THEN "lost" ELSE "refused"]
          /\ UNCHANGED <<prio, queue, obj>>
    /\ UNCHANGED <<left, next, spec, answer, batch, kvs, txns, mgr, map, inst, done,
                   broken, histVars>>

Pending(j, kinds) ==
    \/ \E i \in DOMAIN txns["manager"] : txns["manager"][i].job = j
                                         /\ txns["manager"][i].kind \in kinds
    \/ \E i \in DOMAIN done : done[i].t.job = j /\ done[i].t.kind \in kinds

(* priority_handle_request() and purge_handle_request(), for a job in the  *)
(* queue.                                                                  *)
Permitted(u, j, p) == u = "owner" \/ p <= Max({Default, prio[j]})

PriorityRequest(j, p, u) ==
    /\ mgr = "running" /\ j \in Range(queue) /\ left.requests > 0
    /\ left.overlap \/ (answer[j] = "ok" /\ ~Pending(j, {"purge"}))
    /\ p \in 0 .. MaxPrio /\ Permitted(u, j, p)
    /\ left' = [left EXCEPT !.requests = @ - 1]
    /\ txns' = [txns EXCEPT !["manager"] = Append(@, Txn("priority", <<>>, j, p))]
    /\ UNCHANGED <<kvs, histVars, ingestVars, managerVars>>

PurgeRequest(j) ==
    /\ mgr = "running" /\ j \in Range(queue) /\ left.purges > 0
    /\ left.overlap \/ (answer[j] = "ok" /\ ~Pending(j, {"purge", "priority"}))
    /\ left' = [left EXCEPT !.purges = @ - 1]
    /\ txns' = [txns EXCEPT !["manager"] = Append(@, Txn("purge", <<>>, j, 0))]
    /\ UNCHANGED <<kvs, histVars, ingestVars, managerVars>>

(* The request holds a pointer to the job, and no reference. *)
Freed(t) == t.job \notin Range(queue) \/ t.obj # obj[t.job]
Without(j) == SelectSeq(queue, LAMBDA k : k # j)

Reorder(j, p) ==
    /\ prio' = [prio EXCEPT ![j] = p]
    /\ queue' = Inserted(Without(j), j, prio')

Succeeded(d) == d.ok

(* The KVS has answered: the continuation of the request is called.        *)
Continues(kind) ==
    LET d == Head(done)
    IN /\ mgr = "running" /\ ~broken /\ done # <<>> /\ d.t.kind = kind
       /\ done' = Tail(done) /\ broken' = (Succeeded(d) /\ Freed(d.t))
       /\ UNCHANGED <<left, kvs, txns, histVars, ingestVars, mgr, map, obj, inst>>

PriorityContinuation ==
    LET d == Head(done)
    IN /\ Continues("priority")
       /\ IF Succeeded(d) /\ ~Freed(d.t) THEN Reorder(d.t.job, d.t.prio)
          ELSE UNCHANGED <<prio, queue>>

PurgeContinuation ==
    LET d == Head(done)
    IN /\ Continues("purge") /\ prio' = prio
       /\ queue' = IF Succeeded(d) /\ ~Freed(d.t) THEN Without(d.t.job) ELSE queue

-----------------------------------------------------------------------------
(* job-manager is unloaded and loaded again: mod_main() returns, its       *)
(* thread answers the requests left in its queue and ends, and the broker  *)
(* removes the service when it hears of that.                              *)

Unload ==
    /\ mgr = "running" /\ left.restarts > 0
    /\ left' = [left EXCEPT !.restarts = @ - 1]
    /\ left.overlap \/ (txns["manager"] = <<>> /\ done = <<>>)
    /\ mgr' = "draining" /\ queue' = <<>> /\ done' = <<>>
    /\ UNCHANGED <<map, prio, obj, inst, broken, kvs, txns, histVars, ingestVars>>

Goes(from, to) ==
    /\ mgr = from /\ mgr' = to
    /\ UNCHANGED <<left, map, queue, prio, obj, inst, done, broken, kvs, txns, histVars, ingestVars>>

ThreadEnds == Goes("draining", "exited")
ServiceRemoved == Goes("exited", "off")

Present == {j \in Job : kvs[j].dir # "none"}

Load ==
    /\ mgr = "off" /\ mgr' = "starting" /\ map' = Present /\ inst' = inst + 1
    /\ UNCHANGED <<left, queue, prio, obj, done, broken, kvs, txns, histVars, ingestVars>>

(* depthfirst_map_one(): a listed job is read and queued.                  *)
RestartMapOne(j) ==
    /\ mgr = "starting" /\ j \in map /\ kvs[j].dir = "full"
    /\ map' = map \ {j} /\ prio' = [prio EXCEPT ![j] = kvs[j].prio]
    /\ queue' = Inserted(queue, j, prio')
    /\ obj' = [obj EXCEPT ![j] = @ + 1]
    /\ UNCHANGED <<left, mgr, inst, done, broken, kvs, txns, histVars, ingestVars>>

(* A listed job that lacks an attribute makes the module fail to load.  If *)
(* it has been unlinked since, its directory may not have been read yet.   *)
RestartFails(j) ==
    /\ mgr = "starting" /\ j \in map /\ kvs[j].dir # "full"
    /\ \/ kvs[j].dir = "none" /\ map' = map \ {j} /\ UNCHANGED <<mgr, queue>>
       \/ mgr' = "draining" /\ map' = {} /\ queue' = <<>>
    /\ UNCHANGED <<left, prio, obj, inst, done, broken, kvs, txns, histVars, ingestVars>>

RestartDone == map = {} /\ Goes("starting", "running")

-----------------------------------------------------------------------------
Ingest ==
    \/ BatchFlush
    \/ \E f \in DOMAIN flight : BatchFlushContinuation(f) \/ BatchAnnounceContinuation(f)
Exit == ThreadEnds \/ ServiceRemoved
Restart == RestartDone \/ \E j \in Job : RestartMapOne(j) \/ RestartFails(j)
Manager == PriorityContinuation \/ PurgeContinuation
           \/ \E f \in DOMAIN flight : ManagerSubmit(f)

Next ==
    \/ \E p \in Prio, u \in User : Submit(p, u)
    \/ Ingest
    \/ \E m \in Module, ok \in BOOLEAN : KvsCommit(m, ok)
    \/ Manager
    \/ \E j \in Job, p \in Prio, u \in User : PriorityRequest(j, p, u)
    \/ \E j \in Job : PurgeRequest(j)
    \/ Unload \/ Exit \/ Load \/ Restart

Spec == Init /\ [][Next]_vars

(* The timer fires, the KVS answers, and a module handles its messages.    *)
FairSpec ==
    /\ Spec
    /\ WF_vars(Ingest) /\ WF_vars(Manager) /\ WF_vars(Restart) /\ WF_vars(Exit)
    /\ \A m \in Module : WF_vars(\E ok \in BOOLEAN : KvsCommit(m, ok))

-----------------------------------------------------------------------------
Queued(j) == j \in Range(queue)
Settled == batch = <<>> /\ flight = <<>> /\ \A m \in Module : txns[m] = <<>>

(* The queue is in the order of priority, then of submission, whatever the *)
(* order in which requests to change priorities complete.                  *)
QueueOrder ==
    \A i, k \in DOMAIN queue : i < k =>
      \/ prio[queue[i]] > prio[queue[k]]
      \/ prio[queue[i]] = prio[queue[k]] /\ queue[i] < queue[k]

(* A job whose submitter got an id is in the KVS, and in the queue of a    *)
(* job-manager that is running, until somebody purges it: also when the    *)
(* manager was loaded again since.                                         *)
AcceptedIsKept ==
    \A j \in Job : answer[j] = "ok" /\ j \notin purged
      => kvs[j].dir = "full" /\ (mgr = "running" => Queued(j))

(* A job whose submitter got an error leaves nothing in the KVS: its batch *)
(* was not committed, or batch_cleanup() has unlinked it, unless that      *)
(* commit is still to come or has failed.                                  *)
Cleaning(j) == \E i \in DOMAIN txns["ingest"] : /\ txns["ingest"][i].kind = "clean"
                                                /\ j \in Range(txns["ingest"][i].jobs)

RefusedLeavesNothing ==
    \A j \in Job : answer[j] = "error" /\ ~Cleaning(j) /\ j \notin uncleaned
      => kvs[j].dir = "none"

(* When no request about a job is under way its priority in memory is the  *)
(* one in the KVS, and a purged job is gone from both: "on error:          *)
(* in-memory job state is unchanged" (active.c).                           *)
MemoryMatchesKvs ==
    \A j \in Job : /\ mgr = "running" /\ answer[j] = "ok"
                   /\ ~Pending(j, {"priority", "purge"})
      => /\ Queued(j) <=> kvs[j].dir = "full"
         /\ Queued(j) => prio[j] = kvs[j].prio

(* A continuation does not use a job that has been freed. *)
NoDangling == ~broken

(* "The user isn't handed the jobid though until we accept the job here":  *)
(* a job that was refused is not queued.                                   *)
RefusedNotQueued ==
    Settled /\ mgr = "running" => \A j \in Job : answer[j] = "error" => ~Queued(j)

(* Every submitter is answered, unless the announcement of the job reached *)
(* a job-manager that had drained its queue and was not yet removed.       *)
LostJob(j) == \E f \in DOMAIN flight : flight[f].at = "lost" /\ j \in Range(flight[f].jobs)
Answered == \A j \in Job : (next > j) ~> (answer[j] # "none" \/ LostJob(j))

(* No announcement is lost: "If any unhandled requests were received during *)
(* shutdown, respond to them now with ENOSYS" (module.c).                   *)
NoneLost == \A j \in Job : ~LostJob(j)

=============================================================================
