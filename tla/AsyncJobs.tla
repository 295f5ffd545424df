----------------------------- MODULE AsyncJobs -----------------------------
(***************************************************************************)
(* The operation jobs of the backend: the durable table audit.async_jobs   *)
(* (backend/app/jobs/service.py), the requests that create and cancel jobs *)
(* (jobs/operations.py), the Celery queue between backend and workers      *)
(* (jobs/dispatch.py), the executors of a job (worker/tasks/jobs.py and    *)
(* POST /jobs/{id}/execute) and the periodic lease recovery.               *)
(*                                                                         *)
(* Every action is one database transaction (each runs under SELECT ...    *)
(* FOR UPDATE or as one UPDATE), or one step outside the database between  *)
(* two of them.  Time is abstracted to two Booleans per job: whether the   *)
(* lease has run out and whether the retry delay has passed.               *)
(***************************************************************************)
EXTENDS Naturals, Sequences, FiniteSets

CONSTANTS
    Jobs,            \* operation jobs, one per (requester, Idempotency-Key)
    CeleryWorkers,   \* worker processes: killed after task_time_limit = 600 s
    HttpWorkers,     \* executions in the API process: no time limit
    Beat,            \* the scheduled recover_operation_jobs task
    NoJob,           \* the value of an empty job reference
    MaxRetries,      \* max_retries of every job (operations.py uses 2)
    MaxMessages,     \* bound: Celery messages per job in the queue
    MaxFaults        \* bound: crashes, lost messages and refused sends

Workers == CeleryWorkers \cup HttpWorkers

ASSUME ConstantsAssumption ==
    /\ MaxRetries \in Nat
    /\ MaxMessages \in Nat
    /\ MaxFaults \in Nat
    /\ NoJob \notin Jobs
    /\ Beat \notin Jobs
    /\ CeleryWorkers \cap HttpWorkers = {}

VARIABLES
    status,          \* async_jobs.status ("absent": no row yet)
    retryCount,      \* async_jobs.retry_count
    leaseToken,      \* async_jobs.lease_token: the ordinal of the claim, 0 for NULL
    leaseExpired,    \* lease_expires_at <= NOW()
    retryDue,        \* next_retry_at IS NULL or has passed
    errorCode,       \* async_jobs.error_code, as a class of codes
    attempts,        \* async_job_attempts of the job: statuses by attempt_number
    results,         \* jobs with a row in async_job_results
    queue,           \* messages waiting in the Celery queue, per job
    todo,            \* what each dispatcher still has to send
    sent,            \* the send a dispatcher has yet to record in the table
    listing,         \* the recovery has run and the listing is next
    pc,              \* where each executor is in OperationJobService.execute
    held,            \* the job it executes
    token,           \* the lease token its claim returned
    faults           \* faults so far

row    == <<status, retryCount, leaseToken, leaseExpired, retryDue, errorCode,
            attempts, results>>
channel == <<queue, todo, sent, listing>>
exec   == <<pc, held, token>>
vars   == <<row, channel, exec, faults>>

Runnable == {"queued", "retry_wait"}
Leased   == {"running", "cancel_requested"}
\* No path of an operation job leads to the status "blocked".
Terminal == {"succeeded", "failed", "cancelled"}
Statuses == {"absent"} \cup Runnable \cup Leased \cup Terminal

AttemptStatuses == {"running", "retry_wait"} \cup Terminal
Failures == {"LEASE_EXPIRED", "RETRYABLE", "PERMANENT"}
Codes    == {"none", "DISPATCH_PENDING", "CANCELLED"} \cup Failures

\* Each HTTP request dispatches the job it created; the recovery task
\* dispatches everything it listed.
Dispatchers == Jobs \cup {Beat}
NoSend == [job |-> NoJob, code |-> "none"]
Sends  == [job : Jobs \cup {NoJob}, code : {"none", "DISPATCH_PENDING"}]

\* Executors that have claimed and not yet finished.
Executing == {"claimed", "checked", "started", "operated", "retryable", "permanent"}
Steps     == {"idle", "ready"} \cup Executing

TypeOK ==
    /\ status \in [Jobs -> Statuses]
    /\ retryCount \in [Jobs -> 0 .. MaxRetries]
    /\ leaseToken \in [Jobs -> Nat]
    /\ leaseExpired \in [Jobs -> BOOLEAN]
    /\ retryDue \in [Jobs -> BOOLEAN]
    /\ errorCode \in [Jobs -> Codes]
    /\ attempts \in [Jobs -> Seq(AttemptStatuses)]
    /\ results \subseteq Jobs
    /\ queue \in [Jobs -> Nat]
    /\ todo \in [Dispatchers -> SUBSET Jobs]
    /\ sent \in [Dispatchers -> Sends]
    /\ listing \in BOOLEAN
    /\ pc \in [Workers -> Steps]
    /\ held \in [Workers -> Jobs \cup {NoJob}]
    /\ token \in [Workers -> Nat]
    /\ faults \in Nat

Init ==
    /\ status = [j \in Jobs |-> "absent"]
    /\ retryCount = [j \in Jobs |-> 0]
    /\ leaseToken = [j \in Jobs |-> 0]
    /\ leaseExpired = [j \in Jobs |-> FALSE]
    /\ retryDue = [j \in Jobs |-> TRUE]
    /\ errorCode = [j \in Jobs |-> "none"]
    /\ attempts = [j \in Jobs |-> <<>>]
    /\ results = {}
    /\ queue = [j \in Jobs |-> 0]
    /\ todo = [d \in Dispatchers |-> {}]
    /\ sent = [d \in Dispatchers |-> NoSend]
    /\ listing = FALSE
    /\ pc = [w \in Workers |-> "idle"]
    /\ held = [w \in Workers |-> NoJob]
    /\ token = [w \in Workers |-> 0]
    /\ faults = 0

-----------------------------------------------------------------------------
(* Helpers of the store.                                                   *)

\* _finish_latest_attempt: the row of the highest attempt_number, if any.
FinishLatest(s, st) ==
    IF s = <<>> THEN s ELSE [s EXCEPT ![Len(s)] = st]

\* A job leaves execution and its lease is cleared in the same UPDATE.
Release(j, st, code) ==
    /\ status' = [status EXCEPT ![j] = st]
    /\ errorCode' = [errorCode EXCEPT ![j] = code]
    /\ leaseToken' = [leaseToken EXCEPT ![j] = 0]
    /\ leaseExpired' = [leaseExpired EXCEPT ![j] = FALSE]
    /\ attempts' = [attempts EXCEPT ![j] = FinishLatest(@, st)]

\* A cancellation decided while the lease columns are left as they are.
CancelRow(j) ==
    /\ status' = [status EXCEPT ![j] = "cancelled"]
    /\ errorCode' = [errorCode EXCEPT ![j] = "CANCELLED"]
    /\ attempts' = [attempts EXCEPT ![j] = FinishLatest(@, "cancelled")]
    /\ UNCHANGED <<leaseToken, leaseExpired>>

Owns(w) == leaseToken[held[w]] = token[w]

Idle(w) ==
    /\ pc' = [pc EXCEPT ![w] = "idle"]
    /\ held' = [held EXCEPT ![w] = NoJob]
    /\ token' = [token EXCEPT ![w] = 0]

Goto(w, step) ==
    /\ pc' = [pc EXCEPT ![w] = step]
    /\ UNCHANGED <<held, token>>

Fault == faults < MaxFaults /\ faults' = faults + 1

-----------------------------------------------------------------------------
(* Requests.                                                               *)

\* submit: the row is committed first, the message is sent afterwards.  A
\* repeated request finds the row and changes nothing.
Enqueue(j) ==
    /\ status[j] = "absent"
    /\ status' = [status EXCEPT ![j] = "queued"]
    /\ todo' = [todo EXCEPT ![j] = {j}]
    /\ UNCHANGED <<retryCount, leaseToken, leaseExpired, retryDue, errorCode,
                   attempts, results, queue, sent, listing, exec, faults>>

RequestCancel(j) ==
    /\ \/ status[j] \in Runnable /\ CancelRow(j)
       \/ /\ status[j] = "running"
          /\ status' = [status EXCEPT ![j] = "cancel_requested"]
          /\ UNCHANGED <<errorCode, attempts, leaseToken, leaseExpired>>
    /\ UNCHANGED <<retryCount, retryDue, results, channel, exec, faults>>

-----------------------------------------------------------------------------
(* Dispatch: send_task, then record whether the broker accepted.           *)

SendTask(d, j) ==
    /\ j \in todo[d] /\ sent[d] = NoSend
    /\ queue[j] < MaxMessages
    /\ queue' = [queue EXCEPT ![j] = @ + 1]
    /\ todo' = [todo EXCEPT ![d] = @ \ {j}]
    /\ sent' = [sent EXCEPT ![d] = [job |-> j, code |-> "none"]]
    /\ UNCHANGED <<row, listing, exec, faults>>

SendRefused(d, j) ==
    /\ j \in todo[d] /\ sent[d] = NoSend
    /\ Fault
    /\ todo' = [todo EXCEPT ![d] = @ \ {j}]
    /\ sent' = [sent EXCEPT ![d] = [job |-> j, code |-> "DISPATCH_PENDING"]]
    /\ UNCHANGED <<row, queue, listing, exec>>

\* Mutant: the outcome of the send is written whatever the job has become.
MarkDispatchUnguarded(d) ==
    /\ sent[d] # NoSend
    /\ errorCode' = [errorCode EXCEPT ![sent[d].job] = sent[d].code]
    /\ sent' = [sent EXCEPT ![d] = NoSend]
    /\ UNCHANGED <<status, retryCount, leaseToken, leaseExpired, retryDue,
                   attempts, results, queue, todo, listing, exec, faults>>

MarkDispatch(d) ==
    /\ sent[d] # NoSend
    /\ errorCode' = IF status[sent[d].job] \in Runnable
                    THEN [errorCode EXCEPT ![sent[d].job] = sent[d].code]
                    ELSE errorCode
    /\ sent' = [sent EXCEPT ![d] = NoSend]
    /\ UNCHANGED <<status, retryCount, leaseToken, leaseExpired, retryDue,
                   attempts, results, queue, todo, listing, exec, faults>>

\* The process that dispatches dies between the commit and the send, or
\* between the send and its record.
DispatcherCrash(d) ==
    /\ todo[d] # {} \/ sent[d] # NoSend
    /\ Fault
    /\ todo' = [todo EXCEPT ![d] = {}]
    /\ sent' = [sent EXCEPT ![d] = NoSend]
    /\ UNCHANGED <<row, queue, listing, exec>>

LoseMessage(j) ==
    /\ queue[j] > 0
    /\ Fault
    /\ queue' = [queue EXCEPT ![j] = @ - 1]
    /\ UNCHANGED <<row, todo, sent, listing, exec>>

-----------------------------------------------------------------------------
(* The recovery task: recover_expired_leases in one transaction, then       *)
(* list_dispatchable in another, then one dispatch per listed job.          *)

Expired == {j \in Jobs : status[j] \in Leased /\ leaseExpired[j]}

\* Mutant: one retry too many.
RecoveredOneTooMany(j) ==
    IF status[j] = "cancel_requested" THEN "cancelled"
    ELSE IF retryCount[j] <= MaxRetries THEN "retry_wait"
    ELSE "failed"

\* What the recovery makes of an expired job.
Recovered(j) ==
    IF status[j] = "cancel_requested" THEN "cancelled"
    ELSE IF retryCount[j] < MaxRetries THEN "retry_wait"
    ELSE "failed"

RecoveredCode(j) ==
    IF status[j] = "cancel_requested" THEN "CANCELLED" ELSE "LEASE_EXPIRED"

RecoverExpiredLeases ==
    /\ ~listing /\ todo[Beat] = {} /\ sent[Beat] = NoSend
    /\ listing' = TRUE
    /\ status' = [j \in Jobs |-> IF j \in Expired THEN Recovered(j) ELSE status[j]]
    /\ errorCode' = [j \in Jobs |-> IF j \in Expired THEN RecoveredCode(j) ELSE errorCode[j]]
    /\ retryCount' = [j \in Jobs |-> IF j \in Expired /\ Recovered(j) = "retry_wait"
                                     THEN retryCount[j] + 1 ELSE retryCount[j]]
    /\ retryDue' = [j \in Jobs |-> retryDue[j] \/ j \in Expired]
    /\ leaseToken' = [j \in Jobs |-> IF j \in Expired THEN 0 ELSE leaseToken[j]]
    /\ leaseExpired' = [j \in Jobs |-> leaseExpired[j] /\ j \notin Expired]
    /\ attempts' = [j \in Jobs |-> IF j \in Expired THEN FinishLatest(attempts[j], Recovered(j))
                                   ELSE attempts[j]]
    /\ UNCHANGED <<results, queue, todo, sent, exec, faults>>

Dispatchable(j) ==
    status[j] = "queued" \/ (status[j] = "retry_wait" /\ retryDue[j])

\* Mutant: only jobs that were never tried are listed.
ListDispatchableQueuedOnly ==
    /\ listing
    /\ listing' = FALSE
    /\ todo' = [todo EXCEPT ![Beat] = {j \in Jobs : status[j] = "queued"}]
    /\ UNCHANGED <<row, queue, sent, exec, faults>>

ListDispatchable ==
    /\ listing
    /\ listing' = FALSE
    /\ todo' = [todo EXCEPT ![Beat] = {j \in Jobs : Dispatchable(j)}]
    /\ UNCHANGED <<row, queue, sent, exec, faults>>

-----------------------------------------------------------------------------
(* Executors.                                                              *)

\* A Celery worker takes a message; with acks_late it is acknowledged at
\* the end of the task, so it stays the worker's until then.
Deliver(w, j) ==
    /\ pc[w] = "idle" /\ queue[j] > 0
    /\ queue' = [queue EXCEPT ![j] = @ - 1]
    /\ pc' = [pc EXCEPT ![w] = "ready"]
    /\ held' = [held EXCEPT ![w] = j]
    /\ UNCHANGED <<row, todo, sent, listing, token, faults>>

HttpExecute(w, j) ==
    /\ pc[w] = "idle" /\ status[j] # "absent"
    /\ pc' = [pc EXCEPT ![w] = "ready"]
    /\ held' = [held EXCEPT ![w] = j]
    /\ UNCHANGED <<row, channel, token, faults>>

\* claim of a runnable job: the lease token is fresh, the attempt row new.
ClaimRunnable(w, j) ==
    /\ pc[w] = "ready" /\ held[w] = j
    /\ Dispatchable(j)
    /\ status' = [status EXCEPT ![j] = "running"]
    /\ retryDue' = [retryDue EXCEPT ![j] = TRUE]
    /\ leaseToken' = [leaseToken EXCEPT ![j] = Len(attempts[j]) + 1]
    /\ leaseExpired' = [leaseExpired EXCEPT ![j] = FALSE]
    /\ attempts' = [attempts EXCEPT ![j] = Append(@, "running")]
    /\ token' = [token EXCEPT ![w] = Len(attempts[j]) + 1]
    /\ pc' = [pc EXCEPT ![w] = "claimed"]
    /\ UNCHANGED <<retryCount, errorCode, results, channel, held, faults>>

\* claim of a job whose cancellation is requested: it is cancelled here,
\* by whoever comes, and the lease columns keep their values.
ClaimCancelled(w, j) ==
    /\ pc[w] = "ready" /\ held[w] = j
    /\ status[j] = "cancel_requested"
    /\ CancelRow(j)
    /\ Idle(w)
    /\ UNCHANGED <<retryCount, retryDue, results, channel, faults>>

\* Anything else is a duplicate or comes too early: JOB_STATE_CONFLICT.
ClaimRefused(w, j) ==
    /\ pc[w] = "ready" /\ held[w] = j
    /\ status[j] # "cancel_requested" /\ ~Dispatchable(j)
    /\ Idle(w)
    /\ UNCHANGED <<row, channel, faults>>

CancelIfRequested(w) ==
    /\ pc[w] = "claimed"
    /\ LET j == held[w] IN
       \/ /\ Owns(w) /\ status[j] = "running"
          /\ Goto(w, "checked")
          /\ UNCHANGED row
       \/ /\ Owns(w) /\ status[j] = "cancel_requested"
          /\ Release(j, "cancelled", "CANCELLED")
          /\ Idle(w)
          /\ UNCHANGED <<retryCount, retryDue, results>>
       \/ /\ ~Owns(w) \/ status[j] \notin Leased
          /\ Idle(w)
          /\ UNCHANGED row
    /\ UNCHANGED <<channel, faults>>

\* update_progress renews the lease; a cancellation that came after the
\* check makes it fail, and the executor leaves the job as it is.
UpdateProgress(w) ==
    /\ pc[w] = "checked"
    /\ LET j == held[w] IN
       IF Owns(w) /\ status[j] = "running"
       THEN /\ leaseExpired' = [leaseExpired EXCEPT ![j] = FALSE]
            /\ Goto(w, "started")
            /\ UNCHANGED <<status, retryCount, leaseToken, retryDue, errorCode,
                           attempts, results>>
       ELSE Idle(w) /\ UNCHANGED row
    /\ UNCHANGED <<channel, faults>>

\* _execute_claimed: the operation returns, fails for good, or fails in a
\* way that is worth a retry.
Operate(w) ==
    /\ pc[w] = "started"
    /\ \E outcome \in {"operated", "retryable", "permanent"} : Goto(w, outcome)
    /\ UNCHANGED <<row, channel, faults>>

\* task_time_limit: the process is killed, the message acknowledged, and
\* the row stays as it is until the lease runs out.
TimeLimitKill(w) ==
    /\ pc[w] = "started"
    /\ Idle(w)
    /\ UNCHANGED <<row, channel, faults>>

CompleteWithResult(w) ==
    /\ pc[w] = "operated"
    /\ LET j == held[w] IN
       IF Owns(w) /\ status[j] \in Leased
       THEN /\ Release(j, "succeeded", "none")
            /\ results' = results \cup {j}
            /\ UNCHANGED <<retryCount, retryDue>>
       ELSE UNCHANGED row
    /\ Idle(w)
    /\ UNCHANGED <<channel, faults>>

MarkFailure(w) ==
    /\ pc[w] \in {"retryable", "permanent"}
    /\ LET j == held[w] IN
       \/ /\ Owns(w) /\ status[j] = "cancel_requested"
          /\ Release(j, "cancelled", "CANCELLED")
          /\ UNCHANGED <<retryCount, retryDue>>
       \/ /\ Owns(w) /\ status[j] = "running"
          /\ pc[w] = "retryable" /\ retryCount[j] < MaxRetries
          /\ Release(j, "retry_wait", "RETRYABLE")
          /\ retryCount' = [retryCount EXCEPT ![j] = @ + 1]
          /\ retryDue' = [retryDue EXCEPT ![j] = FALSE]
       \/ /\ Owns(w) /\ status[j] = "running"
          /\ pc[w] = "permanent" \/ retryCount[j] >= MaxRetries
          /\ Release(j, "failed", IF pc[w] = "permanent" THEN "PERMANENT" ELSE "RETRYABLE")
          /\ UNCHANGED <<retryCount, retryDue>>
       \/ /\ ~Owns(w) \/ status[j] \notin Leased
          /\ UNCHANGED <<status, retryCount, leaseToken, leaseExpired, retryDue,
                         errorCode, attempts>>
    /\ Idle(w)
    /\ UNCHANGED <<results, channel, faults>>

\* A process dies; a message it held is acknowledged (the pool lost one
\* child) or comes back after the visibility timeout (the node is gone).
WorkerCrash(w) ==
    /\ pc[w] # "idle"
    /\ Fault
    /\ \/ UNCHANGED queue
       \/ /\ w \in CeleryWorkers /\ queue[held[w]] < MaxMessages
          /\ queue' = [queue EXCEPT ![held[w]] = @ + 1]
    /\ Idle(w)
    /\ UNCHANGED <<row, todo, sent, listing>>

-----------------------------------------------------------------------------
(* Time.                                                                   *)

\* Mutant: a lease no longer than the task time limit.
LeaseExpiresEarly(j) ==
    /\ status[j] \in Leased /\ leaseToken[j] # 0 /\ ~leaseExpired[j]
    /\ leaseExpired' = [leaseExpired EXCEPT ![j] = TRUE]
    /\ UNCHANGED <<status, retryCount, leaseToken, retryDue, errorCode, attempts,
                   results, channel, exec, faults>>

\* The lease (660 s, set after the task began) outlives task_time_limit
\* (600 s): it cannot run out under a Celery worker that is still executing.
\* Nothing limits an execution in the API process.
LeaseExpires(j) ==
    /\ status[j] \in Leased /\ leaseToken[j] # 0 /\ ~leaseExpired[j]
    /\ \A w \in CeleryWorkers : pc[w] \in Executing /\ held[w] = j => ~Owns(w)
    /\ leaseExpired' = [leaseExpired EXCEPT ![j] = TRUE]
    /\ UNCHANGED <<status, retryCount, leaseToken, retryDue, errorCode, attempts,
                   results, channel, exec, faults>>

RetryBecomesDue(j) ==
    /\ status[j] = "retry_wait" /\ ~retryDue[j]
    /\ retryDue' = [retryDue EXCEPT ![j] = TRUE]
    /\ UNCHANGED <<status, retryCount, leaseToken, leaseExpired, errorCode,
                   attempts, results, channel, exec, faults>>

-----------------------------------------------------------------------------
Claim(w, j) == ClaimRunnable(w, j) \/ ClaimCancelled(w, j) \/ ClaimRefused(w, j)

Execute(w) ==
    \/ CancelIfRequested(w) \/ UpdateProgress(w) \/ Operate(w)
    \/ CompleteWithResult(w) \/ MarkFailure(w)

Next ==
    \/ \E j \in Jobs : Enqueue(j) \/ RequestCancel(j) \/ LoseMessage(j)
                       \/ LeaseExpires(j) \/ RetryBecomesDue(j)
    \/ \E d \in Dispatchers, j \in Jobs : SendTask(d, j) \/ SendRefused(d, j)
    \/ \E d \in Dispatchers : MarkDispatch(d) \/ DispatcherCrash(d)
    \/ RecoverExpiredLeases \/ ListDispatchable
    \/ \E w \in CeleryWorkers, j \in Jobs : Deliver(w, j)
    \/ \E w \in HttpWorkers, j \in Jobs : HttpExecute(w, j)
    \/ \E w \in Workers, j \in Jobs : Claim(w, j)
    \/ \E w \in Workers : Execute(w) \/ WorkerCrash(w)
    \/ \E w \in CeleryWorkers : TimeLimitKill(w)

Spec == Init /\ [][Next]_vars

\* The scheduler runs, Celery delivers and bounds every task, time passes.
\* An execution in the API process may hang for ever.
Fairness ==
    /\ WF_vars(RecoverExpiredLeases) /\ WF_vars(ListDispatchable)
    /\ \A d \in Dispatchers : WF_vars(MarkDispatch(d))
    /\ \A d \in Dispatchers, j \in Jobs : WF_vars(SendTask(d, j))
    /\ \A j \in Jobs : WF_vars(LeaseExpires(j)) /\ WF_vars(RetryBecomesDue(j))
    /\ \A j \in Jobs : WF_vars(\E w \in CeleryWorkers : Deliver(w, j))
    /\ \A w \in CeleryWorkers : WF_vars((\E j \in Jobs : Claim(w, j)) \/ Execute(w))

FairSpec == Spec /\ Fairness

-----------------------------------------------------------------------------
(* Properties.                                                             *)

\* The attempt history of a job agrees with its row: every attempt but the
\* last ended in a retry, the last one shows the job's state, and there are
\* as many attempts as counted retries, and the current one.
Tracks(j) ==
    LET n == Len(attempts[j]) IN
    /\ \A i \in 1 .. n : i < n => attempts[j][i] = "retry_wait"
    /\ status[j] \in {"absent", "queued"} => n = 0 /\ retryCount[j] = 0
    /\ status[j] = "retry_wait" => n = retryCount[j] /\ n > 0
    /\ status[j] \in Leased => n = retryCount[j] + 1
    /\ status[j] \in Terminal => n \in {retryCount[j], retryCount[j] + 1}
    /\ n > 0 => attempts[j][n] = IF status[j] = "cancel_requested"
                                 THEN "running" ELSE status[j]

\* Every attempt is on record and agrees with the job row, through crashes,
\* lease recovery and cancellation; this is what makes attempt_number =
\* retry_count + 1 unique at every claim (UNIQUE in migration 027).
AttemptsTrackJob == \A j \in Jobs : Tracks(j)

\* A result row exists exactly for the jobs that succeeded, so a readable
\* success always has its result and no cancelled or failed job has one.
ResultIffSucceeded == results = {j \in Jobs : status[j] = "succeeded"}

\* What a finished job reports is why it finished, even when the record of
\* an old send arrives after the end.
CodeExplainsOutcome ==
    \A j \in Jobs :
        /\ status[j] = "succeeded" => errorCode[j] = "none"
        /\ status[j] = "cancelled" => errorCode[j] = "CANCELLED"
        /\ status[j] = "failed" => errorCode[j] \in Failures

\* Because the lease outlives the task time limit, two Celery workers never
\* execute one job at the same time, whatever is redelivered.
OneCeleryExecution ==
    \A v, w \in CeleryWorkers :
        pc[v] \in Executing /\ pc[w] \in Executing /\ held[v] = held[w] => v = w

\* Lease tokens fence: two executors of one job never hold the same token,
\* and no executor holds a token the row has yet to issue.
TokensFence ==
    \A v, w \in Workers :
        /\ pc[v] \in Executing => token[v] \in 1 .. Len(attempts[held[v]])
        /\ pc[v] \in Executing /\ pc[w] \in Executing /\ held[v] = held[w]
              /\ token[v] = token[w] => v = w

\* What the tables say of a job is consistent and explains itself: attempts
\* and row agree, and the code of an ended job is why it ended.
JobRowsAreSound == TypeOK /\ AttemptsTrackJob /\ CodeExplainsOutcome

\* A job is executed by its owner alone: no two Celery workers execute it, and
\* the tokens of all executors differ and were issued by the row.
OneOwner == OneCeleryExecution /\ TokensFence

\* An ended job keeps its status, code, attempts and result for ever.
EndedIsFinal ==
    [][\A j \in Jobs : status[j] \in Terminal =>
          /\ status'[j] = status[j] /\ errorCode'[j] = errorCode[j]
          /\ attempts'[j] = attempts[j] /\ (j \in results' <=> j \in results)]_vars

\* Every submitted job ends: crashes, lost messages and refused sends are
\* made good by the lease recovery and the periodic dispatch.  One whose
\* cancellation was requested ends cancelled or with the result that was
\* already computed, never failed.
EveryJobEnds ==
    \A j \in Jobs :
        /\ status[j] = "queued" ~> status[j] \in Terminal
        /\ status[j] = "cancel_requested" ~> status[j] \in {"cancelled", "succeeded"}

-----------------------------------------------------------------------------
(* The promise to the requester.                                           *)

Phase(st) ==
    CASE st \in Runnable -> "waiting" [] st \in Leased -> "active" [] OTHER -> st

Contract == INSTANCE JobContract WITH
    MaxAttempts <- MaxRetries + 1,
    phase <- [j \in Jobs |-> Phase(status[j])],
    tries <- [j \in Jobs |-> Len(attempts[j])]

\* The job table implements the promise of JobContract.
ImplementsContract == Contract!Spec
=============================================================================
