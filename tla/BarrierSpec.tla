---------------------------- MODULE BarrierSpec ----------------------------
(***************************************************************************)
(* What flux_barrier promises its callers (common/libflux/barrier.h): a    *)
(* call returns success when NProcs processes have called it.  A process   *)
(* that disconnects or calls twice aborts the barrier for those who wait.  *)
(***************************************************************************)
EXTENDS Naturals, FiniteSets

CONSTANTS Client, NProcs

VARIABLES
    call,       \* call[c]: how far client c's call is
    fault       \* some client has disconnected or called twice

vars == <<call, fault>>

Init == call = [c \in Client |-> "none"] /\ fault = FALSE

Full == Cardinality({c \in Client : call[c] # "none"}) >= NProcs

Call(c) ==
    /\ call[c] = "none"
    /\ call' = [call EXCEPT ![c] = "waiting"]
    /\ UNCHANGED fault

(* Some of those who wait are answered. *)
Answer(C, e) ==
    /\ C # {} /\ \A c \in C : call[c] = "waiting"
    /\ call' = [c \in Client |-> IF c \in C THEN e ELSE call[c]]
    /\ UNCHANGED fault

Release(C) == Full /\ Answer(C, "0")
Abort(C) == fault /\ Answer(C, "ECONNABORTED")

Fault == fault' = TRUE /\ UNCHANGED call

Next ==
    \/ \E c \in Client : Call(c)
    \/ \E C \in SUBSET Client : Release(C) \/ Abort(C)
    \/ Fault

(* While nobody misbehaves every call is answered once the barrier is full. *)
Out(c) == ~fault /\ \E C \in SUBSET Client : c \in C /\ Release(C)

Spec == Init /\ [][Next]_vars /\ \A c \in Client : WF_vars(Out(c))
=============================================================================
