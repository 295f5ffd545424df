---------------------------- MODULE JobContract ----------------------------
(***************************************************************************)
(* What the durable job table promises the requester of a long-running     *)
(* operation (GET /jobs/{id}, GET /jobs/{id}/result): a submitted job is   *)
(* waiting or active, is tried a bounded number of times, and ends exactly *)
(* once.  Workers, leases, messages and the scheduler are not visible.     *)
(***************************************************************************)
EXTENDS Naturals

CONSTANTS Jobs,          \* the jobs, one per (requester, Idempotency-Key)
          MaxAttempts    \* executions a job may be given

VARIABLES phase,         \* what a requester can tell of each job
          tries          \* how many executions were started

contractVars == <<phase, tries>>

Ended == {"succeeded", "failed", "cancelled"}
Phases == {"absent", "waiting", "active"} \cup Ended

Init ==
    /\ phase = [j \in Jobs |-> "absent"]
    /\ tries = [j \in Jobs |-> 0]

Same(j) == phase'[j] = phase[j] /\ tries'[j] = tries[j]

Submit(j) == phase[j] = "absent" /\ phase'[j] = "waiting" /\ tries'[j] = tries[j]

Start(j) ==
    /\ phase[j] = "waiting" /\ tries[j] < MaxAttempts
    /\ phase'[j] = "active" /\ tries'[j] = tries[j] + 1

\* An execution that failed, or was lost, goes back to waiting only while
\* the job still has attempts left.
Retry(j) ==
    /\ phase[j] = "active" /\ tries[j] < MaxAttempts
    /\ phase'[j] = "waiting" /\ tries'[j] = tries[j]

Finish(j) ==
    /\ \/ phase[j] = "active"  /\ phase'[j] \in Ended
       \/ phase[j] = "waiting" /\ phase'[j] = "cancelled"
    /\ tries'[j] = tries[j]

\* One transaction of the lease recovery may move several jobs.
Next ==
    /\ \A j \in Jobs : Same(j) \/ Submit(j) \/ Start(j) \/ Retry(j) \/ Finish(j)
    /\ phase' \in [Jobs -> Phases]
    /\ tries' \in [Jobs -> 0 .. MaxAttempts]

Spec == Init /\ [][Next]_contractVars
=============================================================================
