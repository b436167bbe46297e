------------------------------- MODULE MCJobs -------------------------------
(* Instances of Jobs. *)
EXTENDS Jobs

Plan(requests_, purges_, fails_, restarts_, overlap_) ==
    [requests |-> requests_, purges |-> purges_, fails |-> fails_,
     restarts |-> restarts_, overlap |-> overlap_]

(* Requests, a purge and a failed commit; the manager is loaded again.     *)
PlansApart == {Plan(2, 1, 1, 0, FALSE), Plan(1, 1, 1, 1, FALSE)}
PlansOverlap == {Plan(1, 1, 0, 0, TRUE)}
PlansGhost == {Plan(0, 0, 0, 1, FALSE)}
=============================================================================
