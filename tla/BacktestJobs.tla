---------------------------- MODULE BacktestJobs ----------------------------
(***************************************************************************)
(* Backtests as jobs.  They share the job table with the operations of     *)
(* AsyncJobs, but are claimed without a lease and are executed inside the  *)
(* request POST /backtest/jobs/{id}/execute of a service principal; no     *)
(* queue, time limit or lease recovery is involved.  An execution keeps a  *)
(* second record, backtest.tasks with backtest.results, in transactions of *)
(* its own: the task of an attempt is named by the job and the attempt.    *)
(*                                                                         *)
(* Sources: backtest/jobs.py, backtest/service.py (create_and_run and what *)
(* it writes), jobs/service.py (the calls without a lease).                *)
(***************************************************************************)
EXTENDS Naturals, Sequences

CONSTANTS
    Jobs,         \* one per (requester, Idempotency-Key)
    Executors,    \* execute requests that can be under way at one time
    MaxRetries,   \* max_retries of the row
    MaxLost,      \* bound: executions that die
    Settings,     \* what CERTIFIED_BACKTEST_EXECUTION_ENABLED may be, by process
    None          \* no job

VARIABLES
    status,     \* async_jobs.status
    retries,    \* async_jobs.retry_count
    due,        \* jobs whose next_retry_at has passed
    ref,        \* async_jobs.result_ref: the attempt named, 0 for NULL
    attempts,   \* async_job_attempts.status, in order
    task,       \* backtest.tasks.status of each job's attempts
    saved,      \* attempts with a row in backtest.results
    exec,       \* what each execute request is about
    lost        \* executions that died

jobRow == <<status, retries, due, ref, attempts>>
taskRows == <<task, saved>>
vars == <<jobRow, taskRows, exec, lost>>

Numbers == 1 .. MaxRetries + 1
Terminal == {"succeeded", "failed", "cancelled", "blocked"}
Steps == {"claimed", "open", "started", "created", "running", "saved", "failing", "finishing"}
Outcomes == {"none", "succeeded", "failed", "retry", "blocked"}
Idle == [job |-> None, n |-> 0, pc |-> "idle", outcome |-> "none"]

TypeOK ==
    /\ status \in [Jobs -> {"absent", "queued", "running", "cancel_requested",
                            "retry_wait"} \cup Terminal]
    /\ retries \in [Jobs -> 0 .. MaxRetries]
    /\ due \subseteq Jobs
    /\ ref \in [Jobs -> 0 .. MaxRetries + 1]
    /\ attempts \in [Jobs -> Seq({"running", "retry_wait"} \cup Terminal)]
    /\ \A j \in Jobs : Len(attempts[j]) <= MaxRetries + 1
    /\ task \in [Jobs -> [Numbers -> {"none", "pending", "running", "done", "failed"}]]
    /\ saved \in [Jobs -> SUBSET Numbers]
    /\ exec \in [Executors ->
                   [job : Jobs, n : Numbers, pc : Steps, outcome : Outcomes] \cup {Idle}]
    /\ lost \in 0 .. MaxLost

Init ==
    /\ status = [j \in Jobs |-> "absent"]
    /\ retries = [j \in Jobs |-> 0]
    /\ due = {}
    /\ ref = [j \in Jobs |-> 0]
    /\ attempts = [j \in Jobs |-> <<>>]
    /\ task = [j \in Jobs |-> [n \in Numbers |-> "none"]]
    /\ saved = [j \in Jobs |-> {}]
    /\ exec = [e \in Executors |-> Idle]
    /\ lost = 0

-----------------------------------------------------------------------------
(* The requester.                                                          *)

\* A repeated request with the same key finds the row and changes nothing.
Enqueue(j) ==
    /\ status[j] = "absent"
    /\ \E open \in Settings :
          status' = [status EXCEPT ![j] = IF open THEN "queued" ELSE "blocked"]
    /\ UNCHANGED <<retries, due, ref, attempts, taskRows, exec, lost>>

\* _finish_latest_attempt: nothing to finish for a job never claimed.
FinishAttempt(j, outcome) ==
    attempts' = IF attempts[j] = <<>> THEN attempts
                ELSE [attempts EXCEPT ![j][Len(attempts[j])] = outcome]

RequestCancel(j) ==
    /\ \/ /\ status[j] \in {"queued", "retry_wait"}
          /\ status' = [status EXCEPT ![j] = "cancelled"]
          /\ FinishAttempt(j, "cancelled")
       \/ /\ status[j] = "running"
          /\ status' = [status EXCEPT ![j] = "cancel_requested"]
          /\ UNCHANGED attempts
    /\ UNCHANGED <<retries, due, ref, taskRows, exec, lost>>

-----------------------------------------------------------------------------
(* The claim.                                                              *)

\* Mutant: only queued jobs are taken.
RunnableOnce(j) == status[j] = "queued"

Runnable(j) == status[j] = "queued" \/ (status[j] = "retry_wait" /\ j \in due)

\* Any other state is answered with an error and changes nothing.
Claim(e, j) ==
    /\ exec[e] = Idle
    /\ Runnable(j)
    /\ status' = [status EXCEPT ![j] = "running"]
    /\ due' = due \ {j}
    /\ attempts' = [attempts EXCEPT ![j] = Append(@, "running")]
    /\ exec' = [exec EXCEPT ![e] = [job |-> j, n |-> retries[j] + 1,
                                    pc |-> "claimed", outcome |-> "none"]]
    /\ UNCHANGED <<retries, ref, taskRows, lost>>

\* An execute request that meets a requested cancellation completes it,
\* also while the execution that is to be cancelled is still at work.
ClaimCancelled(e, j) ==
    /\ exec[e] = Idle
    /\ status[j] = "cancel_requested"
    /\ status' = [status EXCEPT ![j] = "cancelled"]
    /\ FinishAttempt(j, "cancelled")
    /\ UNCHANGED <<retries, due, ref, taskRows, exec, lost>>

-----------------------------------------------------------------------------
(* The execution: one transaction after the other, each of which may fail. *)

At(e, step) == exec[e].pc = step
Goes(e, step) == exec' = [exec EXCEPT ![e].pc = step]
Ends(e, outcome) == exec' = [exec EXCEPT ![e].pc = "finishing", ![e].outcome = outcome]
TaskIs(e, st) == task' = [task EXCEPT ![exec[e].job][exec[e].n] = st]
JobsUnchanged == UNCHANGED <<jobRow, lost>>

\* The setting of this process: a closed lock blocks the claimed job.
CheckLock(e) ==
    /\ At(e, "claimed")
    /\ \E open \in Settings : IF open THEN Goes(e, "open") ELSE Ends(e, "blocked")
    /\ UNCHANGED taskRows /\ JobsUnchanged

\* update_progress only touches a running job; anything else raises, which
\* execute takes for a failure that may be retried.
Progress(e) ==
    /\ At(e, "open")
    /\ IF status[exec[e].job] = "running"
       THEN Goes(e, "started") \/ Ends(e, "retry")
       ELSE Ends(e, "retry")
    /\ UNCHANGED taskRows /\ JobsUnchanged

\* The snapshot or the input is refused ('failed'), the database fails
\* ('retry'), or the task row is created.
CreateTask(e) ==
    /\ At(e, "started")
    /\ \/ Goes(e, "created") /\ TaskIs(e, "pending")
       \/ \E outcome \in {"failed", "retry"} : Ends(e, outcome) /\ UNCHANGED task
    /\ UNCHANGED saved /\ JobsUnchanged

StartTask(e) ==
    /\ At(e, "created")
    /\ \/ Goes(e, "running") /\ TaskIs(e, "running")
       \/ Ends(e, "retry") /\ UNCHANGED task
    /\ UNCHANGED saved /\ JobsUnchanged

Fails(e, outcome) == exec' = [exec EXCEPT ![e].pc = "failing", ![e].outcome = outcome]

\* Mutant: a result that cannot be stored is only logged.
StoreIfPossible(e) ==
    /\ At(e, "running")
    /\ Goes(e, "saved")
    /\ \E m \in SUBSET {exec[e].n} : saved' = [saved EXCEPT ![exec[e].job] = @ \cup m]
    /\ UNCHANGED task /\ JobsUnchanged

\* The backtest itself, then _save_result; untrusted input shows up here too.
RunAndSave(e) ==
    /\ At(e, "running")
    /\ \/ /\ Goes(e, "saved")
          /\ saved' = [saved EXCEPT ![exec[e].job] = @ \cup {exec[e].n}]
       \/ \E outcome \in {"failed", "retry"} : Fails(e, outcome) /\ UNCHANGED saved
    /\ UNCHANGED task /\ JobsUnchanged

FinishTask(e) ==
    /\ At(e, "saved")
    /\ \/ Ends(e, "succeeded") /\ TaskIs(e, "done")
       \/ Fails(e, "retry") /\ UNCHANGED task
    /\ UNCHANGED saved /\ JobsUnchanged

\* The handler of create_and_run; if it cannot write either, its own
\* exception replaces the one it handles.
FailTask(e) ==
    /\ At(e, "failing")
    /\ \/ Ends(e, exec[e].outcome) /\ TaskIs(e, "failed")
       \/ Ends(e, "retry") /\ UNCHANGED task
    /\ UNCHANGED saved /\ JobsUnchanged

-----------------------------------------------------------------------------
(* The end of an execution: mark_succeeded, mark_failure, mark_blocked.    *)

Release(e) == exec' = [exec EXCEPT ![e] = Idle]

\* Mutant: a requested cancellation does not turn a success down.
FinalIgnoringCancel(st, outcome) ==
    IF st = "cancel_requested" /\ outcome # "succeeded" THEN "cancelled" ELSE outcome

\* _finish_in_transaction: a requested cancellation wins over the outcome.
Final(st, outcome) == IF st = "cancel_requested" THEN "cancelled" ELSE outcome

MayRetry(j) == retries[j] < MaxRetries

\* mark_failure, retryable.
RetryLater(e, j) ==
    /\ status[j] = "running" /\ exec[e].outcome = "retry" /\ MayRetry(j)
    /\ status' = [status EXCEPT ![j] = "retry_wait"]
    /\ retries' = [retries EXCEPT ![j] = @ + 1]
    /\ FinishAttempt(j, "retry_wait")
    /\ UNCHANGED ref

EndJob(e, j) ==
    /\ status[j] \in {"running", "cancel_requested"}
    /\ ~(status[j] = "running" /\ exec[e].outcome = "retry" /\ MayRetry(j))
    /\ LET final == Final(status[j], IF exec[e].outcome = "retry" THEN "failed"
                                                               ELSE exec[e].outcome)
       IN /\ status' = [status EXCEPT ![j] = final]
          /\ FinishAttempt(j, final)
          /\ ref' = [ref EXCEPT ![j] = IF final = "succeeded" THEN exec[e].n ELSE 0]
    /\ UNCHANGED retries

\* Somebody else has ended the job: the call raises.
NotMine(j) ==
    /\ status[j] \notin {"running", "cancel_requested"}
    /\ UNCHANGED <<status, retries, ref, attempts>>

Finish(e) ==
    /\ At(e, "finishing")
    /\ LET j == exec[e].job IN RetryLater(e, j) \/ EndJob(e, j) \/ NotMine(j)
    /\ Release(e)
    /\ UNCHANGED <<due, taskRows, lost>>

\* The process dies, or the last transaction fails: nothing else notices.
Lose(e) ==
    /\ exec[e] # Idle /\ lost < MaxLost
    /\ Release(e)
    /\ lost' = lost + 1
    /\ UNCHANGED <<jobRow, taskRows>>

RetryDue(j) ==
    /\ status[j] = "retry_wait" /\ j \notin due
    /\ due' = due \cup {j}
    /\ UNCHANGED <<status, retries, ref, attempts, taskRows, exec, lost>>

-----------------------------------------------------------------------------
Execute(e) ==
    \/ CheckLock(e) \/ Progress(e) \/ CreateTask(e) \/ StartTask(e) \/ RunAndSave(e)
    \/ FinishTask(e) \/ FailTask(e) \/ Finish(e)

Next ==
    \/ \E j \in Jobs : Enqueue(j) \/ RequestCancel(j) \/ RetryDue(j)
    \/ \E e \in Executors, j \in Jobs : Claim(e, j) \/ ClaimCancelled(e, j)
    \/ \E e \in Executors : Execute(e) \/ Lose(e)

Spec == Init /\ [][Next]_vars

-----------------------------------------------------------------------------
(* Properties. *)

\* Without a lease it is the status alone that keeps executions apart: one
\* that is at work on a live job owns its newest attempt and is the only one
\* (claim, _finish_latest_attempt).
NewestAttemptIsMine ==
    \A e, f \in Executors :
        LET j == exec[e].job IN
        exec[e] # Idle /\ status[j] \in {"running", "cancel_requested"} =>
            /\ exec[e].n = Len(attempts[j])
            /\ exec[f] # Idle /\ exec[f].job = j => e = f

\* A job says 'succeeded' exactly when it names an attempt, and that
\* attempt's task is done and its result stored, so get_result can read it
\* (three tables, four transactions).
SuccessIsReadable ==
    \A j \in Jobs :
        /\ status[j] = "succeeded" <=> ref[j] # 0
        /\ status[j] = "succeeded" =>
              task[j][ref[j]] = "done" /\ ref[j] \in saved[j] /\ ref[j] = Len(attempts[j])

\* The rows of the two tables agree: an execution writes to the newest attempt
\* alone, and a success can be read (claim, _finish_latest_attempt, _save_result).
ResultsBelongToTheirAttempt == TypeOK /\ NewestAttemptIsMine /\ SuccessIsReadable

\* A cancellation that was accepted ends in 'cancelled', whatever the
\* execution under way reports, and no job that ended is touched again.
CancelWins ==
    [][\A j \in Jobs :
          /\ status[j] = "cancel_requested" => status'[j] \in {"cancel_requested", "cancelled"}
          /\ status[j] \in Terminal =>
                <<status'[j], ref'[j], attempts'[j]>> = <<status[j], ref[j], attempts[j]>>]_vars

\* The execution of the job has died: a claim sets no lease, so nothing takes
\* the row over (recover_expired_leases looks for lease_expires_at).
Orphaned(j) ==
    status[j] \in {"running", "cancel_requested"} /\ \A e \in Executors : exec[e].job # j

\* Every job that was accepted ends, but for one reason: its execution died.
EndsUnlessOrphaned ==
    \A j \in Jobs : status[j] # "absent" ~> status[j] \in Terminal \/ Orphaned(j)
=============================================================================
