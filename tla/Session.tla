------------------------------ MODULE Session ------------------------------
(* The life of a session: every broker joins (hello.c), counts are summed on *)
(* the way to rank 0 (reduce.c), rank 0 runs its three run levels            *)
(* (runlevel.c), and a shutdown event stops every broker (shutdown.c).       *)
(* Messages travel on the overlay: requests and events go up to the parent,  *)
(* events come down to the children the parent has heard from.               *)
EXTENDS Naturals, Sequences, FiniteSets

CONSTANTS
    Rank,        \* brokers; 0 is the root
    Parent,      \* [Rank \ {0} -> Rank]
    Plans,       \* init.mode and init.rc2_timeout: [mode, limit]
    MaxSignal    \* bound: signals sent to brokers

ASSUME SessionAssumption ==
    /\ 0 \in Rank /\ IsFiniteSet(Rank) /\ Rank \subseteq Nat
    /\ Parent \in [Rank \ {0} -> Rank] /\ \A r \in Rank \ {0} : Parent[r] < r
    /\ Plans \subseteq [mode : {"normal", "none"}, limit : BOOLEAN]
    /\ MaxSignal \in Nat

VARIABLES
    plan,
    run,         \* run[r]: broker not yet started, in its event loop, out of it
    red,         \* red[r]: struct flux_reduce
    up,          \* up[r]: messages from r to its parent
    down,        \* down[r]: events from its parent to r
    local,       \* local[r]: messages queued for r's own handlers
    known,       \* known[r]: ov->children
    sd,          \* sd[r]: shutdown timer, with the event that armed it
    total,       \* hello->count of rank 0
    level,       \* r->level of rank 0
    rc,          \* rc[l]: exit code of the script of level l, or its state
    watch,       \* the timer of level 2 is running
    exitrc,      \* exit_rc of rank 0
    failed,      \* rank 0 left through log_err_exit() or an assertion
    signals      \* signals sent

vars == <<plan, run, red, up, down, local, known, sd, total, level, rc, watch,
          exitrc, failed, signals>>

NoTimer == [t |-> "none"]
Codes == {"ok", "error", "term"}   \* "term": 128 + SIGTERM
Shutdowns == [t : {"shutdown"}, code : Codes, wired : BOOLEAN, by : 0 .. 3]
Joins == [t : {"join"}, n : Nat \ {0}]

TypeOK ==
    /\ plan \in Plans
    /\ run \in [Rank -> {"off", "on", "stopped"}]
    /\ red \in [Rank -> [items : Nat, count : Nat, flushed : BOOLEAN, armed : BOOLEAN]]
    /\ up \in [Rank -> Seq(Joins \cup Shutdowns)]
    /\ local \in [Rank -> Seq(Joins \cup Shutdowns)]
    /\ down \in [Rank -> Seq(Shutdowns)]
    /\ known \in [Rank -> SUBSET Rank]
    /\ sd \in [Rank -> Shutdowns \cup {NoTimer}]
    /\ total \in Nat /\ level \in 0 .. 3
    /\ rc \in [1 .. 3 -> {"none", "run", "killed"} \cup Codes]
    /\ watch \in BOOLEAN /\ failed \in BOOLEAN
    /\ exitrc \in Codes /\ signals \in 0 .. MaxSignal

Init ==
    /\ plan \in Plans
    /\ run = [r \in Rank |-> "off"]
    /\ red = [r \in Rank |-> [items |-> 0, count |-> 0, flushed |-> FALSE, armed |-> FALSE]]
    /\ up = [r \in Rank |-> <<>>] /\ down = up /\ local = up
    /\ known = [r \in Rank |-> {}]
    /\ sd = [r \in Rank |-> NoTimer]
    /\ total = 0 /\ level = 0 /\ rc = [l \in 1 .. 3 |-> "none"]
    /\ watch = FALSE /\ exitrc = "ok" /\ failed = FALSE /\ signals = 0

-----------------------------------------------------------------------------
(* A handler changes several of these in one step: it is a function from     *)
(* this record to the next.                                                  *)
State == [red |-> red, up |-> up, down |-> down, local |-> local, known |-> known,
          sd |-> sd, total |-> total, level |-> level, rc |-> rc, watch |-> watch,
          failed |-> failed]
Become(S) == \E T \in {S} :
    /\ red' = T.red /\ up' = T.up /\ down' = T.down /\ local' = T.local
    /\ known' = T.known /\ sd' = T.sd /\ total' = T.total /\ level' = T.level
    /\ rc' = T.rc /\ watch' = T.watch /\ failed' = T.failed

-----------------------------------------------------------------------------
(* Events *)

Multicast(S, r, e) ==
    [S EXCEPT !.down = [c \in Rank |-> IF c \in S.known[r] THEN Append(@[c], e) ELSE @[c]]]

HandleEventLeaf(S, r, e) ==       \* slip: only rank 0 passes events on
    [(IF r = 0 THEN Multicast(S, r, e) ELSE S) EXCEPT !.local[r] = Append(@, e)]
(* The broker forwards an event before it queues it for its own handlers.    *)
HandleEvent(S, r, e) == [Multicast(S, r, e) EXCEPT !.local[r] = Append(@, e)]

EventSend(S, r, e) ==
    IF r > 0 THEN [S EXCEPT !.up[r] = Append(@, e)] ELSE HandleEvent(S, 0, e)

ShutdownArm(S, r, code, by) ==
    IF S.sd[r] # NoTimer THEN S
    ELSE EventSend(S, r, [t |-> "shutdown", code |-> code, by |-> by,
                          wired |-> S.level > 0])

-----------------------------------------------------------------------------
(* Run levels *)

Skipped(l) == plan.mode = "none" /\ l # 2
StartSubprocess(S, l) == [S EXCEPT !.rc[l] = "run", !.watch = l = 2 /\ plan.limit]
Entered(S, l) ==
    LET T == [S EXCEPT !.level = l] IN IF Skipped(l) THEN T ELSE StartSubprocess(T, l)

(* A level without a script ends at once with success: level 2 follows       *)
(* level 1, and nothing follows level 3.                                     *)
SetLevel(S, l) ==
    IF l <= S.level THEN [S EXCEPT !.failed = TRUE]
    ELSE IF l = 1 /\ Skipped(1) THEN Entered(Entered(S, 1), 2) ELSE Entered(S, l)

RunlevelCbOn(S, l, code) ==       \* slip: rc2 runs even when rc1 has failed
    CASE l = 1 -> SetLevel(S, 2)
      [] l = 2 -> SetLevel(ShutdownArm(S, 0, code, l), 3)
      [] l = 3 -> S
RunlevelCb(S, l, code) ==
    CASE l = 1 /\ code # "ok" -> SetLevel(ShutdownArm(S, 0, code, l), 3)
      [] l = 1 /\ code = "ok" -> SetLevel(S, 2)
      [] l = 2 -> SetLevel(ShutdownArm(S, 0, code, l), 3)
      [] l = 3 -> S

-----------------------------------------------------------------------------
(* Hello *)

path[r \in Rank] == IF r = 0 THEN {0} ELSE {r} \cup path[Parent[r]]
Size(r) == Cardinality({c \in Rank : r \in path[c]})      \* tbon.descendants + 1
Hwm(r) == Size(r)

HelloUpdate(S) ==
    IF S.total = Cardinality(Rank) THEN SetLevel(S, 1) ELSE S

Flush(S, r, n) ==   \* r_forward(), r_sink()
    IF r > 0 THEN [S EXCEPT !.up[r] = Append(@, [t |-> "join", n |-> n])]
    ELSE HelloUpdate([S EXCEPT !.total = @ + n])

FlushCurrent(S, r) ==
    LET x == S.red[r]
        T == [S EXCEPT !.red[r] = [x EXCEPT !.items = 0, !.armed = FALSE, !.flushed = TRUE]]
    IN IF x.items > 0 THEN Flush(T, r, x.items) ELSE T

ReduceAppend(S, r, n) ==
    LET x == [S.red[r] EXCEPT !.count = @ + n]
        y == [x EXCEPT !.items = @ + n]
    IN IF x.flushed THEN Flush([S EXCEPT !.red[r] = x], r, n)
       ELSE IF y.count >= Hwm(r) THEN FlushCurrent([S EXCEPT !.red[r] = y], r)
       ELSE [S EXCEPT !.red[r] = [y EXCEPT !.armed = TRUE]]

-----------------------------------------------------------------------------
(* A broker enters its event loop. *)
Start(r) ==
    /\ run[r] = "off"
    /\ run' = [run EXCEPT ![r] = "on"]
    /\ Become(ReduceAppend(State, r, 1))
    /\ UNCHANGED <<plan, exitrc, signals>>

ReduceTimer(r) ==
    /\ run[r] = "on" /\ red[r].armed
    /\ Become(FlushCurrent(State, r))
    /\ UNCHANGED <<plan, run, exitrc, signals>>

ChildCbQuiet(r) ==                \* slip: the child is not checked in
    LET p == Parent[r]
        m == Head(up[r])
        S == [State EXCEPT !.up[r] = Tail(@)]
    IN /\ r # 0 /\ run[p] = "on" /\ up[r] # <<>>
       /\ Become(IF m.t = "join" THEN [S EXCEPT !.local[p] = Append(@, m)]
                 ELSE EventSend(S, p, m))
       /\ UNCHANGED <<plan, run, exitrc, signals>>
(* A message from child r: the parent learns of the child, queues a request  *)
(* for its handler, and passes an event on.                                  *)
ChildCb(r) ==
    LET p == Parent[r]
        m == Head(up[r])
        S == [State EXCEPT !.up[r] = Tail(@), !.known[p] = @ \cup {r}]
    IN /\ r # 0 /\ run[p] = "on" /\ up[r] # <<>>
       /\ Become(IF m.t = "join" THEN [S EXCEPT !.local[p] = Append(@, m)]
                 ELSE EventSend(S, p, m))
       /\ UNCHANGED <<plan, run, exitrc, signals>>

ParentCb(r) ==
    /\ run[r] = "on" /\ down[r] # <<>>
    /\ Become(HandleEvent([State EXCEPT !.down[r] = Tail(@)], r, Head(down[r])))
    /\ UNCHANGED <<plan, run, exitrc, signals>>

JoinRequest(S, r, m) == ReduceAppend(S, r, m.n)
ShutdownHandlerLast(S, r, m) == [S EXCEPT !.sd[r] = m]   \* slip: a later event takes over
ShutdownHandler(S, r, m) ==
    IF S.sd[r] = NoTimer THEN [S EXCEPT !.sd[r] = m] ELSE S
Dispatch(r) ==
    LET m == Head(local[r])
        S == [State EXCEPT !.local[r] = Tail(@)]
    IN /\ run[r] = "on" /\ local[r] # <<>>
       /\ Become(IF m.t = "join" THEN JoinRequest(S, r, m) ELSE ShutdownHandler(S, r, m))
       /\ UNCHANGED <<plan, run, exitrc, signals>>

(* The grace period ends: the broker leaves its event loop. *)
GraceTimer(r) ==
    /\ run[r] = "on" /\ sd[r] # NoTimer
    /\ run' = [run EXCEPT ![r] = "stopped"]
    /\ exitrc' = IF r = 0 THEN sd[0].code ELSE exitrc
    /\ Become(State)
    /\ UNCHANGED <<plan, signals>>

SignalCb(r) ==
    /\ run[r] = "on" /\ signals < MaxSignal
    /\ signals' = signals + 1
    /\ Become(ShutdownArm(State, r, "ok", 0))
    /\ UNCHANGED <<plan, run, exitrc>>

(* The script of level l ends. *)
Completion(l, code) ==
    /\ run[0] = "on" /\ rc[l] \in {"run", "killed"}
    /\ code = "term" <=> rc[l] = "killed"
    /\ Become(IF level # l THEN [State EXCEPT !.failed = TRUE]
              ELSE RunlevelCb([State EXCEPT !.rc[l] = code, !.watch = FALSE], l, code))
    /\ UNCHANGED <<plan, run, exitrc, signals>>

RunlevelTimeout ==
    /\ run[0] = "on" /\ watch
    /\ Become([State EXCEPT !.rc[level] = IF @ = "run" THEN "killed" ELSE @, !.watch = FALSE])
    /\ UNCHANGED <<plan, run, exitrc, signals>>

Inside(r) == \/ ReduceTimer(r) \/ ChildCb(r) \/ ParentCb(r) \/ Dispatch(r) \/ GraceTimer(r)
Next == \/ \E r \in Rank : Start(r) \/ Inside(r) \/ SignalCb(r)
        \/ \E l \in 1 .. 3, code \in Codes : Completion(l, code)
        \/ RunlevelTimeout
Spec == Init /\ [][Next]_vars

(* A broker serves its sockets, its queue and its timers; scripts end.       *)
Fairness ==
    /\ \A r \in Rank : /\ WF_vars(Start(r)) /\ WF_vars(ReduceTimer(r))
                       /\ WF_vars(ChildCb(r)) /\ WF_vars(ParentCb(r))
                       /\ WF_vars(Dispatch(r)) /\ WF_vars(GraceTimer(r))
    /\ WF_vars(\E l \in 1 .. 3, code \in Codes : Completion(l, code))
FairSpec == Spec /\ Fairness

-----------------------------------------------------------------------------
(* Level 1 starts only when every broker has joined and is known to its      *)
(* parent, so that the events of the session reach all of them; and it       *)
(* starts once: neither runlevel_set_level() nor the assertion of            *)
(* completion_cb() fails.                                                    *)
WiredFirst ==
    /\ ~failed
    /\ level > 0 => \A r \in Rank : /\ run[r] # "off"
                                    /\ r # 0 => r \in known[Parent[r]]

(* The session's exit code is that of the initial program, or of rc1 when    *)
(* rc1 failed, unless a signal came first; rc3 has no say in it.             *)
ExitCode ==
    run[0] = "stopped" => CASE sd[0].by = 0 -> exitrc = "ok"
                            [] sd[0].by = 1 -> exitrc = rc[1] /\ exitrc # "ok"
                            [] OTHER -> sd[0].by = 2 /\ exitrc = rc[2] /\ rc[1] \in {"ok", "none"}

(* All brokers follow the same shutdown event. *)
OneShutdown ==
    \A r \in Rank : sd[0] # NoTimer /\ sd[r] # NoTimer /\ sd[0].wired => sd[r] = sd[0]

(* A session comes up and ends on every broker: counts of joins reach rank   *)
(* 0, the programs run one after the other, and the shutdown event stops all *)
(* brokers.  The exception is a session stopped before it has been wired up. *)
AllStop == <>(\/ \A r \in Rank : run[r] = "stopped"
              \/ sd[0] # NoTimer /\ ~sd[0].wired)

(* The same of a session that is stopped before it has been wired up.        *)
EarlyStop == (sd[0] # NoTimer) ~> (\A r \in Rank : run[r] = "stopped")
=============================================================================
