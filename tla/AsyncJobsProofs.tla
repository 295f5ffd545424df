-------------------------- MODULE AsyncJobsProofs --------------------------
(***************************************************************************)
(* Proofs about the job table of AsyncJobs, for any number of jobs,        *)
(* executors, retries, messages and faults.                                *)
(***************************************************************************)
EXTENDS AsyncJobs, SequenceTheorems, TLAPS

\* Closing the latest attempt keeps a sequence of attempt statuses.
LEMMA FinishLatestType ==
    ASSUME NEW s \in Seq(AttemptStatuses), NEW st \in AttemptStatuses
    PROVE  /\ FinishLatest(s, st) \in Seq(AttemptStatuses)
           /\ Len(FinishLatest(s, st)) = Len(s)
           /\ s # <<>> => FinishLatest(s, st)[Len(s)] = st
           /\ \A i \in 1 .. Len(s) : i < Len(s) => FinishLatest(s, st)[i] = s[i]
  <1>1. CASE s = <<>>
    BY <1>1 DEF FinishLatest
  <1>2. CASE s # <<>>
    <2>1. Len(s) \in 1 .. Len(s)
      BY <1>2, EmptySeq, LenProperties
    <2>2. FinishLatest(s, st) = [s EXCEPT ![Len(s)] = st]
      BY <1>2 DEF FinishLatest
    <2> QED  BY <2>1, <2>2, ExceptSeq
  <1> QED  BY <1>1, <1>2

\* The parts of TypeOK that describe the job table and the dispatch, and the
\* one that describes the executors.
LEMMA IdleType ==
    ASSUME TypeOK, NEW w \in Workers, Idle(w)
    PROVE  /\ pc' \in [Workers -> Steps]
           /\ held' \in [Workers -> Jobs \cup {NoJob}]
           /\ token' \in [Workers -> Nat]
  BY DEF TypeOK, Idle, Steps

LEMMA GotoType ==
    ASSUME TypeOK, NEW w \in Workers, NEW s \in Steps, Goto(w, s)
    PROVE  /\ pc' \in [Workers -> Steps]
           /\ held' \in [Workers -> Jobs \cup {NoJob}]
           /\ token' \in [Workers -> Nat]
  BY DEF TypeOK, Goto

LEMMA ReleaseType ==
    ASSUME TypeOK, NEW j \in Jobs, NEW st \in Terminal \cup {"retry_wait"},
           NEW code \in Codes, Release(j, st, code)
    PROVE  /\ status' \in [Jobs -> Statuses]
           /\ errorCode' \in [Jobs -> Codes]
           /\ leaseToken' \in [Jobs -> Nat]
           /\ leaseExpired' \in [Jobs -> BOOLEAN]
           /\ attempts' \in [Jobs -> Seq(AttemptStatuses)]
  <1>1. st \in AttemptStatuses /\ st \in Statuses
    BY DEF AttemptStatuses, Statuses, Runnable
  <1>2. FinishLatest(attempts[j], st) \in Seq(AttemptStatuses)
    BY <1>1, FinishLatestType DEF TypeOK
  <1> QED  BY <1>1, <1>2 DEF TypeOK, Release

LEMMA CancelRowType ==
    ASSUME TypeOK, NEW j \in Jobs, CancelRow(j)
    PROVE  /\ status' \in [Jobs -> Statuses]
           /\ errorCode' \in [Jobs -> Codes]
           /\ leaseToken' \in [Jobs -> Nat]
           /\ leaseExpired' \in [Jobs -> BOOLEAN]
           /\ attempts' \in [Jobs -> Seq(AttemptStatuses)]
  <1>1. FinishLatest(attempts[j], "cancelled") \in Seq(AttemptStatuses)
    BY FinishLatestType DEF TypeOK, AttemptStatuses, Terminal
  <1>2. "cancelled" \in Statuses /\ "CANCELLED" \in Codes
    BY DEF Statuses, Terminal, Codes
  <1> QED  BY <1>1, <1>2 DEF TypeOK, CancelRow

\* An executor past the claim executes a job: the strengthening that makes
\* the lookups held[w] well-typed.
HoldsJob == \A w \in Workers : pc[w] # "idle" => held[w] \in Jobs

TypeInv == TypeOK /\ HoldsJob

LEMMA TypeInvInit == Init => TypeInv
  <1> SUFFICES ASSUME Init PROVE TypeInv
    OBVIOUS
  <1>1. <<>> \in Seq(AttemptStatuses)
    BY EmptySeq
  <1>2. NoSend \in Sends
    BY DEF NoSend, Sends
  <1>3. "absent" \in Statuses /\ "none" \in Codes /\ "idle" \in Steps /\ 0 \in 0 .. MaxRetries
    BY ConstantsAssumption DEF Statuses, Codes, Steps
  <1> QED  BY <1>1, <1>2, <1>3 DEF Init, TypeInv, TypeOK, HoldsJob

\* Every step preserves the type invariant.
LEMMA TypeInvStep == TypeInv /\ [Next]_vars => TypeInv'
  <1> SUFFICES ASSUME TypeInv, [Next]_vars PROVE TypeInv'
    OBVIOUS
  <1> USE ConstantsAssumption DEF TypeInv
  <1>1. ASSUME NEW j \in Jobs, Enqueue(j) PROVE TypeInv'
    BY <1>1 DEF TypeOK, HoldsJob, Enqueue, exec, Dispatchers, Statuses, Runnable
  <1>2. ASSUME NEW j \in Jobs, RequestCancel(j) PROVE TypeInv'
    <2>1. CASE CancelRow(j)
      BY <1>2, <2>1, CancelRowType DEF TypeOK, HoldsJob, RequestCancel, channel, exec
    <2>2. CASE ~CancelRow(j)
      BY <1>2, <2>2 DEF TypeOK, HoldsJob, RequestCancel, channel, exec, Statuses, Leased
    <2> QED  BY <2>1, <2>2
  <1>3. ASSUME NEW j \in Jobs, LoseMessage(j) PROVE TypeInv'
    BY <1>3 DEF TypeOK, HoldsJob, LoseMessage, Fault, row, exec
  <1>4. ASSUME NEW j \in Jobs, LeaseExpires(j) PROVE TypeInv'
    BY <1>4 DEF TypeOK, HoldsJob, LeaseExpires, channel, exec
  <1>5. ASSUME NEW j \in Jobs, RetryBecomesDue(j) PROVE TypeInv'
    BY <1>5 DEF TypeOK, HoldsJob, RetryBecomesDue, channel, exec
  <1>6. ASSUME NEW d \in Dispatchers, NEW j \in Jobs, SendTask(d, j) PROVE TypeInv'
    BY <1>6 DEF TypeOK, HoldsJob, SendTask, row, exec, Sends
  <1>7. ASSUME NEW d \in Dispatchers, NEW j \in Jobs, SendRefused(d, j) PROVE TypeInv'
    BY <1>7 DEF TypeOK, HoldsJob, SendRefused, Fault, row, exec, Sends
  <1>8. ASSUME NEW d \in Dispatchers, MarkDispatch(d) PROVE TypeInv'
    <2>1. sent[d].code \in Codes
      BY DEF TypeOK, Sends, Codes
    <2>2. sent' \in [Dispatchers -> Sends]
      BY <1>8 DEF TypeOK, MarkDispatch, NoSend, Sends
    <2>3. errorCode' \in [Jobs -> Codes]
      BY <1>8, <2>1 DEF TypeOK, MarkDispatch
    <2> QED  BY <1>8, <2>2, <2>3 DEF TypeOK, HoldsJob, MarkDispatch, exec
  <1>9. ASSUME NEW d \in Dispatchers, DispatcherCrash(d) PROVE TypeInv'
    BY <1>9 DEF TypeOK, HoldsJob, DispatcherCrash, Fault, row, exec, NoSend, Sends
  <1>10. CASE RecoverExpiredLeases
    <2>1. status' \in [Jobs -> Statuses]
      BY <1>10 DEF TypeOK, RecoverExpiredLeases, Recovered, Statuses, Runnable, Terminal
    <2>2. errorCode' \in [Jobs -> Codes]
      BY <1>10 DEF TypeOK, RecoverExpiredLeases, RecoveredCode, Codes, Failures
    <2>3. retryCount' \in [Jobs -> 0 .. MaxRetries]
      BY <1>10 DEF TypeOK, RecoverExpiredLeases, Recovered
    <2>4. attempts' \in [Jobs -> Seq(AttemptStatuses)]
      <3>1. ASSUME NEW j \in Jobs
            PROVE  FinishLatest(attempts[j], Recovered(j)) \in Seq(AttemptStatuses)
        BY FinishLatestType DEF TypeOK, Recovered, AttemptStatuses, Terminal
      <3> QED  BY <1>10, <3>1 DEF TypeOK, RecoverExpiredLeases
    <2> QED  BY <1>10, <2>1, <2>2, <2>3, <2>4 DEF TypeOK, HoldsJob, RecoverExpiredLeases, exec
  <1>11. CASE ListDispatchable
    BY <1>11 DEF TypeOK, HoldsJob, ListDispatchable, row, exec, Dispatchers
  <1>12. ASSUME NEW w \in CeleryWorkers, NEW j \in Jobs, Deliver(w, j) PROVE TypeInv'
    BY <1>12 DEF TypeOK, HoldsJob, Deliver, row, Workers, Steps
  <1>13. ASSUME NEW w \in HttpWorkers, NEW j \in Jobs, HttpExecute(w, j) PROVE TypeInv'
    BY <1>13 DEF TypeOK, HoldsJob, HttpExecute, row, channel, Workers, Steps
  <1>14. ASSUME NEW w \in Workers, NEW j \in Jobs, ClaimRunnable(w, j) PROVE TypeInv'
    <2>1. Append(attempts[j], "running") \in Seq(AttemptStatuses)
      BY AppendProperties DEF TypeOK, AttemptStatuses
    <2>2. Len(attempts[j]) + 1 \in Nat
      BY LenProperties DEF TypeOK
    <2> QED  BY <1>14, <2>1, <2>2
             DEF TypeOK, HoldsJob, ClaimRunnable, channel, Statuses, Leased, Steps, Executing
  <1>15. ASSUME NEW w \in Workers, NEW j \in Jobs, ClaimCancelled(w, j) PROVE TypeInv'
    BY <1>15, CancelRowType, IdleType DEF TypeOK, HoldsJob, ClaimCancelled, channel, Idle
  <1>16. ASSUME NEW w \in Workers, NEW j \in Jobs, ClaimRefused(w, j) PROVE TypeInv'
    BY <1>16, IdleType DEF TypeOK, HoldsJob, ClaimRefused, row, channel, Idle
  <1>17. ASSUME NEW w \in Workers, CancelIfRequested(w) PROVE TypeInv'
    <2>1. held[w] \in Jobs
      BY <1>17 DEF CancelIfRequested, HoldsJob
    <2>2. CASE Goto(w, "checked") /\ UNCHANGED row
      BY <1>17, <2>2, GotoType
         DEF TypeOK, HoldsJob, CancelIfRequested, Goto, row, channel, Steps, Executing
    <2>3. CASE /\ Release(held[w], "cancelled", "CANCELLED") /\ Idle(w)
               /\ UNCHANGED <<retryCount, retryDue, results>>
      BY <1>17, <2>1, <2>3, ReleaseType, IdleType
         DEF TypeOK, HoldsJob, CancelIfRequested, Idle, channel, Terminal, Codes
    <2>4. CASE Idle(w) /\ UNCHANGED row
      BY <1>17, <2>4, IdleType DEF TypeOK, HoldsJob, CancelIfRequested, Idle, row, channel
    <2> QED  BY <1>17, <2>2, <2>3, <2>4 DEF CancelIfRequested
  <1>18. ASSUME NEW w \in Workers, UpdateProgress(w) PROVE TypeInv'
    <2>1. held[w] \in Jobs
      BY <1>18 DEF UpdateProgress, HoldsJob
    <2>2. CASE Owns(w) /\ status[held[w]] = "running"
      BY <1>18, <2>1, <2>2, GotoType
         DEF TypeOK, HoldsJob, UpdateProgress, Goto, channel, Steps, Executing
    <2>3. CASE ~(Owns(w) /\ status[held[w]] = "running")
      BY <1>18, <2>3, IdleType DEF TypeOK, HoldsJob, UpdateProgress, Idle, row, channel
    <2> QED  BY <2>2, <2>3
  <1>19. ASSUME NEW w \in Workers, Operate(w) PROVE TypeInv'
    BY <1>19 DEF TypeOK, HoldsJob, Operate, Goto, row, channel, Steps, Executing
  <1>20. ASSUME NEW w \in Workers, CompleteWithResult(w) PROVE TypeInv'
    <2>1. held[w] \in Jobs
      BY <1>20 DEF CompleteWithResult, HoldsJob
    <2>2. CASE Owns(w) /\ status[held[w]] \in Leased
      <3>1. /\ Release(held[w], "succeeded", "none") /\ Idle(w)
            /\ results' = results \cup {held[w]}
            /\ UNCHANGED <<retryCount, retryDue, channel, faults>>
        BY <1>20, <2>2 DEF CompleteWithResult
      <3>2. "succeeded" \in Terminal /\ "none" \in Codes
        BY DEF Terminal, Codes
      <3>3. HoldsJob'
        BY <3>1 DEF TypeOK, HoldsJob, Idle
      <3> QED  BY <2>1, <3>1, <3>2, <3>3, ReleaseType, IdleType DEF TypeOK, channel
    <2>3. CASE ~(Owns(w) /\ status[held[w]] \in Leased)
      BY <1>20, <2>3, IdleType DEF TypeOK, HoldsJob, CompleteWithResult, Idle, row, channel
    <2> QED  BY <2>2, <2>3
  <1>21. ASSUME NEW w \in Workers, MarkFailure(w) PROVE TypeInv'
    <2> DEFINE j == held[w]
    <2>1. j \in Jobs /\ Idle(w) /\ UNCHANGED <<results, channel, faults>>
      BY <1>21 DEF MarkFailure, HoldsJob
    <2>2. HoldsJob'
      BY <2>1 DEF TypeOK, HoldsJob, Idle
    <2>3. CASE /\ Release(j, "cancelled", "CANCELLED")
               /\ UNCHANGED <<retryCount, retryDue>>
      BY <2>1, <2>2, <2>3, ReleaseType, IdleType DEF TypeOK, channel, Terminal, Codes
    <2>4. CASE /\ retryCount[j] < MaxRetries
               /\ Release(j, "retry_wait", "RETRYABLE")
               /\ retryCount' = [retryCount EXCEPT ![j] = @ + 1]
               /\ retryDue' = [retryDue EXCEPT ![j] = FALSE]
      <3>1. retryCount' \in [Jobs -> 0 .. MaxRetries] /\ retryDue' \in [Jobs -> BOOLEAN]
        BY <2>1, <2>4 DEF TypeOK
      <3>2. "RETRYABLE" \in Codes
        BY DEF Codes, Failures
      <3> QED  BY <2>1, <2>2, <2>4, <3>1, <3>2, ReleaseType, IdleType DEF TypeOK, channel
    <2>5. CASE /\ Release(j, "failed", IF pc[w] = "permanent" THEN "PERMANENT" ELSE "RETRYABLE")
               /\ UNCHANGED <<retryCount, retryDue>>
      <3>1. (IF pc[w] = "permanent" THEN "PERMANENT" ELSE "RETRYABLE") \in Codes
        BY DEF Codes, Failures
      <3> QED  BY <2>1, <2>2, <2>5, <3>1, ReleaseType, IdleType DEF TypeOK, channel, Terminal
    <2>6. CASE UNCHANGED <<status, retryCount, leaseToken, leaseExpired, retryDue,
                           errorCode, attempts>>
      BY <2>1, <2>2, <2>6, IdleType DEF TypeOK, channel
    <2> QED  BY <1>21, <2>3, <2>4, <2>5, <2>6 DEF MarkFailure
  <1>22. ASSUME NEW w \in Workers, WorkerCrash(w) PROVE TypeInv'
    <2>1. held[w] \in Jobs /\ Idle(w)
      BY <1>22 DEF WorkerCrash, HoldsJob
    <2>2. faults' \in Nat
      BY <1>22 DEF TypeOK, WorkerCrash, Fault
    <2>3. queue[held[w]] + 1 \in Nat
      BY <2>1 DEF TypeOK
    <2>4. UNCHANGED queue \/ queue' = [queue EXCEPT ![held[w]] = queue[held[w]] + 1]
      BY <1>22 DEF WorkerCrash
    <2>5. queue' \in [Jobs -> Nat]
      BY <2>3, <2>4 DEF TypeOK
    <2>6. HoldsJob'
      BY <2>1 DEF TypeOK, HoldsJob, Idle
    <2> QED  BY <1>22, <2>1, <2>2, <2>5, <2>6, IdleType DEF TypeOK, WorkerCrash, row
  <1>23. ASSUME NEW w \in CeleryWorkers, TimeLimitKill(w) PROVE TypeInv'
    BY <1>23, IdleType DEF TypeOK, HoldsJob, TimeLimitKill, Idle, row, channel, Workers
  <1>24. CASE UNCHANGED vars
    BY <1>24 DEF TypeOK, HoldsJob, vars, row, channel, exec
  <1> QED
    BY <1>1, <1>2, <1>3, <1>4, <1>5, <1>6, <1>7, <1>8, <1>9, <1>10, <1>11, <1>12,
       <1>13, <1>14, <1>15, <1>16, <1>17, <1>18, <1>19, <1>20, <1>21, <1>22, <1>23, <1>24
    DEF Next, Claim, Execute

\* Type correctness of the job table, the queue and the executors, with the
\* bound on retry_count.
THEOREM TypeCorrect == Spec => []TypeOK
  <1>1. Spec => []TypeInv
    BY TypeInvInit, TypeInvStep, PTL DEF Spec
  <1>2. TypeInv => TypeOK
    BY DEF TypeInv
  <1> QED  BY <1>1, <1>2, PTL
-----------------------------------------------------------------------------
(* What one step can do to one job.                                        *)

KeepsCount(j)  == retryCount'[j] = retryCount[j]
KeepsResult(j) == j \in results' <=> j \in results

Stays(j) ==
    /\ status'[j] = status[j] /\ attempts'[j] = attempts[j]
    /\ status[j] \in Terminal => errorCode'[j] = errorCode[j]
    /\ KeepsCount(j) /\ KeepsResult(j)

IsQueued(j) ==
    /\ status[j] = "absent" /\ status'[j] = "queued"
    /\ attempts'[j] = attempts[j] /\ KeepsCount(j) /\ KeepsResult(j)

IsAsked(j) ==
    /\ status[j] = "running" /\ status'[j] = "cancel_requested"
    /\ attempts'[j] = attempts[j] /\ KeepsCount(j) /\ KeepsResult(j)

IsClaimed(j) ==
    /\ status[j] \in Runnable /\ status'[j] = "running"
    /\ attempts'[j] = Append(attempts[j], "running")
    /\ KeepsCount(j) /\ KeepsResult(j)

IsWithdrawn(j) ==
    /\ status[j] \in Runnable /\ status'[j] = "cancelled"
    /\ attempts'[j] = FinishLatest(attempts[j], "cancelled")
    /\ errorCode'[j] = "CANCELLED" /\ KeepsCount(j) /\ KeepsResult(j)

IsRetried(j) ==
    /\ status[j] \in Leased /\ status'[j] = "retry_wait"
    /\ retryCount[j] < MaxRetries /\ retryCount'[j] = retryCount[j] + 1
    /\ attempts'[j] = FinishLatest(attempts[j], "retry_wait")
    /\ KeepsResult(j)

IsEnded(j) ==
    /\ status[j] \in Leased /\ status'[j] \in {"failed", "cancelled"}
    /\ attempts'[j] = FinishLatest(attempts[j], status'[j])
    /\ IF status'[j] = "cancelled" THEN errorCode'[j] = "CANCELLED"
                                   ELSE errorCode'[j] \in Failures
    /\ KeepsCount(j) /\ KeepsResult(j)

Succeeds(j) ==
    /\ status[j] \in Leased /\ status'[j] = "succeeded"
    /\ attempts'[j] = FinishLatest(attempts[j], "succeeded")
    /\ errorCode'[j] = "none" /\ KeepsCount(j) /\ j \in results'

Move(j) ==
    \/ Stays(j) \/ IsQueued(j) \/ IsAsked(j) \/ IsClaimed(j)
    \/ IsWithdrawn(j) \/ IsRetried(j) \/ IsEnded(j) \/ Succeeds(j)

\* A step that leaves the job table alone, or only its lease columns.
LEMMA StaysAll ==
    ASSUME UNCHANGED <<status, retryCount, errorCode, attempts, results>>, NEW k \in Jobs
    PROVE  Move(k)
  BY DEF Move, Stays, KeepsCount, KeepsResult

\* An executor's step on its job, seen from every job.
LEMMA ReleaseMove ==
    ASSUME TypeOK, NEW j \in Jobs, NEW st \in {"failed", "cancelled"}, NEW code,
           status[j] \in Leased, Release(j, st, code),
           IF st = "cancelled" THEN code = "CANCELLED" ELSE code \in Failures,
           UNCHANGED <<retryCount, results>>, NEW k \in Jobs
    PROVE  Move(k)
  BY DEF TypeOK, Release, Move, Stays, IsEnded, KeepsCount, KeepsResult

\* Every step of the system does one of these to each job.
LEMMA MoveStep == TypeInv /\ [Next]_vars => \A k \in Jobs : Move(k)
  <1> SUFFICES ASSUME TypeInv, [Next]_vars, NEW k \in Jobs PROVE Move(k)
    OBVIOUS
  <1> USE DEF TypeInv
  <1>1. ASSUME NEW j \in Jobs, Enqueue(j) PROVE Move(k)
    BY <1>1 DEF TypeOK, Enqueue, Move, Stays, IsQueued, KeepsCount, KeepsResult
  <1>2. ASSUME NEW j \in Jobs, RequestCancel(j) PROVE Move(k)
    <2>1. CASE status[j] \in Runnable /\ CancelRow(j)
      BY <1>2, <2>1 DEF TypeOK, RequestCancel, CancelRow, Move, Stays, IsWithdrawn,
                        KeepsCount, KeepsResult
    <2>2. CASE /\ status[j] = "running"
               /\ status' = [status EXCEPT ![j] = "cancel_requested"]
               /\ UNCHANGED <<errorCode, attempts, leaseToken, leaseExpired>>
      BY <1>2, <2>2 DEF TypeOK, RequestCancel, Move, Stays, IsAsked, KeepsCount, KeepsResult
    <2> QED  BY <1>2, <2>1, <2>2 DEF RequestCancel
  <1>3. ASSUME NEW j \in Jobs, LoseMessage(j) PROVE Move(k)
    BY <1>3, StaysAll DEF LoseMessage, row
  <1>4. ASSUME NEW j \in Jobs, LeaseExpires(j) PROVE Move(k)
    BY <1>4, StaysAll DEF LeaseExpires
  <1>5. ASSUME NEW j \in Jobs, RetryBecomesDue(j) PROVE Move(k)
    BY <1>5, StaysAll DEF RetryBecomesDue
  <1>6. ASSUME NEW d \in Dispatchers, NEW j \in Jobs, SendTask(d, j) PROVE Move(k)
    BY <1>6, StaysAll DEF SendTask, row
  <1>7. ASSUME NEW d \in Dispatchers, NEW j \in Jobs, SendRefused(d, j) PROVE Move(k)
    BY <1>7, StaysAll DEF SendRefused, row
  <1>8. ASSUME NEW d \in Dispatchers, MarkDispatch(d) PROVE Move(k)
    <2>1. status[k] \in Terminal => errorCode'[k] = errorCode[k]
      BY <1>8 DEF TypeOK, MarkDispatch, Terminal, Runnable
    <2> QED  BY <1>8, <2>1 DEF MarkDispatch, Move, Stays, KeepsCount, KeepsResult
  <1>9. ASSUME NEW d \in Dispatchers, DispatcherCrash(d) PROVE Move(k)
    BY <1>9, StaysAll DEF DispatcherCrash, row
  <1>10. CASE RecoverExpiredLeases
    <2>1. CASE k \notin Expired
      BY <1>10, <2>1 DEF RecoverExpiredLeases, Move, Stays, KeepsCount, KeepsResult
    <2>2. CASE k \in Expired
      BY <1>10, <2>2 DEF TypeOK, RecoverExpiredLeases, Recovered, RecoveredCode, Failures,
                         Expired, Move, IsRetried, IsEnded, KeepsCount, KeepsResult
    <2> QED  BY <2>1, <2>2
  <1>11. CASE ListDispatchable
    BY <1>11, StaysAll DEF ListDispatchable, row
  <1>12. ASSUME NEW w \in CeleryWorkers, NEW j \in Jobs, Deliver(w, j) PROVE Move(k)
    BY <1>12, StaysAll DEF Deliver, row
  <1>13. ASSUME NEW w \in HttpWorkers, NEW j \in Jobs, HttpExecute(w, j) PROVE Move(k)
    BY <1>13, StaysAll DEF HttpExecute, row
  <1>14. ASSUME NEW w \in Workers, NEW j \in Jobs, ClaimRunnable(w, j) PROVE Move(k)
    BY <1>14 DEF TypeOK, ClaimRunnable, Dispatchable, Runnable, Terminal, Move, Stays,
                 IsClaimed, KeepsCount, KeepsResult
  <1>15. ASSUME NEW w \in Workers, NEW j \in Jobs, ClaimCancelled(w, j) PROVE Move(k)
    BY <1>15 DEF TypeOK, ClaimCancelled, CancelRow, Leased, Move, Stays, IsEnded,
                 KeepsCount, KeepsResult
  <1>16. ASSUME NEW w \in Workers, NEW j \in Jobs, ClaimRefused(w, j) PROVE Move(k)
    BY <1>16, StaysAll DEF ClaimRefused, row
  <1>17. ASSUME NEW w \in Workers, CancelIfRequested(w) PROVE Move(k)
    <2>1. held[w] \in Jobs
      BY <1>17 DEF CancelIfRequested, HoldsJob
    <2>2. CASE UNCHANGED row
      BY <2>2, StaysAll DEF row
    <2>3. CASE /\ status[held[w]] = "cancel_requested"
               /\ Release(held[w], "cancelled", "CANCELLED")
               /\ UNCHANGED <<retryCount, retryDue, results>>
      BY <2>1, <2>3, ReleaseMove DEF Leased
    <2> QED  BY <1>17, <2>2, <2>3 DEF CancelIfRequested
  <1>18. ASSUME NEW w \in Workers, UpdateProgress(w) PROVE Move(k)
    BY <1>18, StaysAll DEF UpdateProgress, row
  <1>19. ASSUME NEW w \in Workers, Operate(w) PROVE Move(k)
    BY <1>19, StaysAll DEF Operate, row
  <1>20. ASSUME NEW w \in Workers, CompleteWithResult(w) PROVE Move(k)
    <2>1. held[w] \in Jobs
      BY <1>20 DEF CompleteWithResult, HoldsJob
    <2>2. CASE UNCHANGED row
      BY <2>2, StaysAll DEF row
    <2>3. CASE /\ status[held[w]] \in Leased
               /\ Release(held[w], "succeeded", "none")
               /\ results' = results \cup {held[w]}
               /\ UNCHANGED <<retryCount, retryDue>>
      BY <2>1, <2>3 DEF TypeOK, Release, Move, Stays, Succeeds, KeepsCount, KeepsResult
    <2> QED  BY <1>20, <2>2, <2>3 DEF CompleteWithResult
  <1>21. ASSUME NEW w \in Workers, MarkFailure(w) PROVE Move(k)
    <2> DEFINE j == held[w]
    <2>1. j \in Jobs /\ UNCHANGED results
      BY <1>21 DEF MarkFailure, HoldsJob
    <2>2. CASE /\ status[j] = "cancel_requested" /\ Release(j, "cancelled", "CANCELLED")
               /\ UNCHANGED <<retryCount, retryDue>>
      BY <2>1, <2>2, ReleaseMove DEF Leased
    <2>3. CASE /\ status[j] = "running" /\ retryCount[j] < MaxRetries
               /\ Release(j, "retry_wait", "RETRYABLE")
               /\ retryCount' = [retryCount EXCEPT ![j] = @ + 1]
      BY <2>1, <2>3 DEF TypeOK, Release, Leased, Move, Stays, IsRetried, KeepsCount, KeepsResult
    <2>4. CASE /\ status[j] = "running"
               /\ Release(j, "failed", IF pc[w] = "permanent" THEN "PERMANENT" ELSE "RETRYABLE")
               /\ UNCHANGED <<retryCount, retryDue>>
      BY <2>1, <2>4, ReleaseMove DEF Leased, Failures
    <2>5. CASE UNCHANGED <<status, retryCount, leaseToken, leaseExpired, retryDue,
                           errorCode, attempts>>
      BY <2>1, <2>5, StaysAll
    <2> QED  BY <1>21, <2>2, <2>3, <2>4, <2>5 DEF MarkFailure
  <1>22. ASSUME NEW w \in Workers, WorkerCrash(w) PROVE Move(k)
    BY <1>22, StaysAll DEF WorkerCrash, row
  <1>23. ASSUME NEW w \in CeleryWorkers, TimeLimitKill(w) PROVE Move(k)
    BY <1>23, StaysAll DEF TimeLimitKill, row
  <1>24. CASE UNCHANGED vars
    BY <1>24, StaysAll DEF vars, row
  <1> QED
    BY <1>1, <1>2, <1>3, <1>4, <1>5, <1>6, <1>7, <1>8, <1>9, <1>10, <1>11, <1>12,
       <1>13, <1>14, <1>15, <1>16, <1>17, <1>18, <1>19, <1>20, <1>21, <1>22, <1>23, <1>24
    DEF Next, Claim, Execute

-----------------------------------------------------------------------------
\* A move keeps the attempt history in agreement with the row.
LEMMA MoveTracks ==
    ASSUME TypeOK, TypeOK', NEW j \in Jobs, Tracks(j), Move(j)
    PROVE  Tracks(j)'
  <1> DEFINE n == Len(attempts[j])
  <1> USE DEF TypeOK
  <1>1. attempts[j] \in Seq(AttemptStatuses) /\ n \in Nat /\ retryCount[j] \in Nat
    BY LenProperties, ConstantsAssumption
  <1>2. n > 0 => attempts[j] # <<>>
    BY <1>1, EmptySeq
  <1>3. ASSUME NEW st \in AttemptStatuses
        PROVE  /\ Len(FinishLatest(attempts[j], st)) = n
               /\ n > 0 => FinishLatest(attempts[j], st)[n] = st
               /\ \A i \in 1 .. n : i < n => FinishLatest(attempts[j], st)[i] = attempts[j][i]
    BY <1>1, <1>2, FinishLatestType
  <1>4. CASE Stays(j)
    BY <1>4 DEF Stays, KeepsCount, Tracks
  <1>5. CASE IsQueued(j)
    BY <1>5 DEF IsQueued, KeepsCount, Tracks, Leased, Terminal
  <1>6. CASE IsAsked(j)
    BY <1>6 DEF IsAsked, KeepsCount, Tracks, Leased, Terminal
  <1>7. CASE IsClaimed(j)
    <2>1. /\ Len(attempts'[j]) = n + 1
          /\ attempts'[j][n + 1] = "running"
          /\ \A i \in 1 .. n : attempts'[j][i] = attempts[j][i]
      BY <1>1, <1>7, AppendProperties DEF IsClaimed, AttemptStatuses
    <2>2. n = retryCount[j] /\ \A i \in 1 .. n : attempts[j][i] = "retry_wait"
      BY <1>1, <1>7 DEF IsClaimed, Tracks, Runnable
    <2> QED  BY <1>1, <1>7, <2>1, <2>2 DEF IsClaimed, KeepsCount, Tracks, Leased, Terminal
  <1>8. CASE IsWithdrawn(j)
    <2>1. "cancelled" \in AttemptStatuses
      BY DEF AttemptStatuses, Terminal
    <2>2. n = retryCount[j]
      BY <1>8 DEF IsWithdrawn, Tracks, Runnable
    <2> QED  BY <1>1, <1>3, <1>8, <2>1, <2>2
             DEF IsWithdrawn, KeepsCount, Tracks, Leased, Terminal
  <1>9. CASE IsRetried(j)
    <2>1. "retry_wait" \in AttemptStatuses
      BY DEF AttemptStatuses
    <2>2. n = retryCount[j] + 1
      BY <1>9 DEF IsRetried, Tracks
    <2> QED  BY <1>1, <1>3, <1>9, <2>1, <2>2 DEF IsRetried, Tracks, Leased, Terminal
  <1>10. CASE IsEnded(j)
    <2>1. status'[j] \in AttemptStatuses
      BY <1>10 DEF IsEnded, AttemptStatuses, Terminal
    <2>2. n = retryCount[j] + 1
      BY <1>10 DEF IsEnded, Tracks
    <2> QED  BY <1>1, <1>3, <1>10, <2>1, <2>2 DEF IsEnded, KeepsCount, Tracks, Leased, Terminal
  <1>11. CASE Succeeds(j)
    <2>1. "succeeded" \in AttemptStatuses
      BY DEF AttemptStatuses, Terminal
    <2>2. n = retryCount[j] + 1
      BY <1>11 DEF Succeeds, Tracks
    <2> QED  BY <1>1, <1>3, <1>11, <2>1, <2>2 DEF Succeeds, KeepsCount, Tracks, Leased, Terminal
  <1> QED  BY <1>4, <1>5, <1>6, <1>7, <1>8, <1>9, <1>10, <1>11 DEF Move

\* The inductive invariant of the job table.
IInv == TypeInv /\ AttemptsTrackJob /\ ResultIffSucceeded /\ CodeExplainsOutcome

LEMMA IInvInit == Init => IInv
  <1> SUFFICES ASSUME Init PROVE IInv
    OBVIOUS
  <1>1. TypeInv
    BY TypeInvInit
  <1>2. AttemptsTrackJob
    BY EmptySeq DEF Init, AttemptsTrackJob, Tracks, Leased, Terminal
  <1>3. ResultIffSucceeded
    BY DEF Init, ResultIffSucceeded
  <1>4. CodeExplainsOutcome
    BY DEF Init, CodeExplainsOutcome
  <1> QED  BY <1>1, <1>2, <1>3, <1>4 DEF IInv

LEMMA IInvStep == IInv /\ [Next]_vars => IInv'
  <1> SUFFICES ASSUME IInv, [Next]_vars PROVE IInv'
    OBVIOUS
  <1>1. TypeInv /\ TypeInv'
    BY TypeInvStep DEF IInv
  <1>2. \A j \in Jobs : Move(j)
    BY <1>1, MoveStep
  <1>3. AttemptsTrackJob'
    BY <1>1, <1>2, MoveTracks DEF IInv, AttemptsTrackJob, TypeInv
  <1>4. ASSUME NEW j \in Jobs
        PROVE  j \in results' <=> status'[j] = "succeeded"
    BY <1>2 DEF IInv, ResultIffSucceeded, Move, Stays, IsQueued, IsAsked, IsClaimed,
                IsWithdrawn, IsRetried, IsEnded, Succeeds, KeepsResult, Leased, Runnable
  <1>5. results' \subseteq Jobs
    BY <1>1 DEF TypeInv, TypeOK
  <1>6. ResultIffSucceeded'
    BY <1>4, <1>5 DEF ResultIffSucceeded
  <1>7. CodeExplainsOutcome'
    <2> SUFFICES ASSUME NEW j \in Jobs
                 PROVE  /\ status'[j] = "succeeded" => errorCode'[j] = "none"
                        /\ status'[j] = "cancelled" => errorCode'[j] = "CANCELLED"
                        /\ status'[j] = "failed" => errorCode'[j] \in Failures
      BY DEF CodeExplainsOutcome
    <2>1. Move(j)
      BY <1>2
    <2> QED  BY <2>1 DEF IInv, CodeExplainsOutcome, Move, Stays, IsQueued, IsAsked, IsClaimed,
                         IsWithdrawn, IsRetried, IsEnded, Succeeds, Terminal
  <1> QED  BY <1>1, <1>3, <1>6, <1>7 DEF IInv

LEMMA IInvAlways == Spec => []IInv
  BY IInvInit, IInvStep, PTL DEF Spec

\* The attempt history always agrees with the job row, so that a claim never
\* violates UNIQUE (job_id, attempt_number).
THEOREM AttemptsAgree == Spec => []AttemptsTrackJob
  <1>1. IInv => AttemptsTrackJob
    BY DEF IInv
  <1> QED  BY <1>1, IInvAlways, PTL

\* Row, attempts and code of every job are consistent, however its executions
\* crash, are repeated or are cancelled.
THEOREM JobRowsSound == Spec => []JobRowsAreSound
  <1>1. IInv => JobRowsAreSound
    BY DEF IInv, TypeInv, JobRowsAreSound
  <1> QED  BY <1>1, IInvAlways, PTL

\* The success of a job and its result row always appear together.
THEOREM ResultsAgree == Spec => []ResultIffSucceeded
  <1>1. IInv => ResultIffSucceeded
    BY DEF IInv
  <1> QED  BY <1>1, IInvAlways, PTL

\* No step of any process changes an ended job, its code or its history.
THEOREM EndedForEver == Spec => EndedIsFinal
  <1>1. IInv /\ [Next]_vars =>
          [\A j \in Jobs : status[j] \in Terminal =>
             /\ status'[j] = status[j] /\ errorCode'[j] = errorCode[j]
             /\ attempts'[j] = attempts[j] /\ (j \in results' <=> j \in results)]_vars
    <2> SUFFICES ASSUME IInv, [Next]_vars, NEW j \in Jobs, status[j] \in Terminal
                 PROVE  /\ status'[j] = status[j] /\ errorCode'[j] = errorCode[j]
                        /\ attempts'[j] = attempts[j] /\ (j \in results' <=> j \in results)
      OBVIOUS
    <2>1. Move(j)
      BY MoveStep DEF IInv
    <2> QED  BY <2>1 DEF Move, Stays, IsQueued, IsAsked, IsClaimed, IsWithdrawn, IsRetried,
                         IsEnded, Succeeds, KeepsResult, Leased, Runnable, Terminal
  <1> QED  BY <1>1, IInvAlways, PTL DEF Spec, EndedIsFinal
-----------------------------------------------------------------------------
(* Who executes a job.  Lease tokens are the ordinals of claims, so they    *)
(* grow with the attempt history; a Celery worker keeps the lease of its    *)
(* claim until it stops, because the lease outlives the task time limit.    *)

\* An executor goes on with the job and the token it has.
GoesOn(w) ==
    pc'[w] \in Executing =>
        pc[w] \in Executing /\ held'[w] = held[w] /\ token'[w] = token[w]

\* An executor has just claimed a job.
HasClaimed(w, j) ==
    /\ status[j] \in Runnable /\ status'[j] = "running"
    /\ held'[w] = j /\ token'[w] = Len(attempts[j]) + 1
    /\ leaseToken'[j] = token'[w] /\ ~leaseExpired'[j]
    /\ Len(attempts'[j]) = Len(attempts[j]) + 1
    /\ \A i \in Jobs \ {j} : UNCHANGED <<status[i], leaseToken[i], leaseExpired[i]>>
    /\ \A v \in Workers \ {w} : GoesOn(v)

LEMMA IdleGoesOn ==
    ASSUME TypeOK, NEW w \in Workers, Idle(w), NEW v \in Workers
    PROVE  GoesOn(v)
  BY DEF TypeOK, Idle, GoesOn, Executing

LEMMA GotoGoesOn ==
    ASSUME TypeOK, NEW w \in Workers, pc[w] \in Executing, NEW s, Goto(w, s), NEW v \in Workers
    PROVE  GoesOn(v)
  BY DEF TypeOK, Goto, GoesOn

LEMMA RestGoesOn == ASSUME UNCHANGED exec, NEW v \in Workers PROVE GoesOn(v)
  BY DEF exec, GoesOn

\* A step is a claim, or all executors that execute afterwards did before.
LEMMA ExecutorStep ==
    ASSUME TypeInv, [Next]_vars
    PROVE  \/ \E w \in Workers, j \in Jobs : HasClaimed(w, j)
           \/ \A v \in Workers : GoesOn(v)
  <1> USE DEF TypeInv
  <1>1. ASSUME NEW w \in Workers, NEW j \in Jobs, ClaimRunnable(w, j)
        PROVE  HasClaimed(w, j)
    <2>1. Len(Append(attempts[j], "running")) = Len(attempts[j]) + 1
      BY AppendProperties DEF TypeOK, AttemptStatuses
    <2>2. \A v \in Workers \ {w} : GoesOn(v)
      BY <1>1 DEF TypeOK, ClaimRunnable, GoesOn
    <2> QED  BY <1>1, <2>1, <2>2
             DEF TypeOK, ClaimRunnable, HasClaimed, Dispatchable, Runnable
  <1>2. ASSUME NEW v \in Workers, UNCHANGED exec PROVE GoesOn(v)
    BY <1>2, RestGoesOn
  <1>3. ASSUME NEW w \in Workers, NEW v \in Workers, Idle(w) PROVE GoesOn(v)
    BY <1>3, IdleGoesOn
  <1>4. ASSUME NEW w \in Workers, NEW v \in Workers, NEW j \in Jobs,
               Deliver(w, j) \/ HttpExecute(w, j)
        PROVE  GoesOn(v)
    BY <1>4 DEF TypeOK, Deliver, HttpExecute, GoesOn, Executing
  <1>5. ASSUME NEW w \in Workers, NEW v \in Workers,
               CancelIfRequested(w) \/ UpdateProgress(w) \/ Operate(w)
        PROVE  GoesOn(v)
    <2>1. pc[w] \in Executing /\ (Idle(w) \/ \E s \in Steps : Goto(w, s))
      BY <1>5 DEF CancelIfRequested, UpdateProgress, Operate, Executing, Steps
    <2> QED  BY <2>1, <1>3, GotoGoesOn
  <1>6. ASSUME NEW w \in Workers, NEW v \in Workers,
               CompleteWithResult(w) \/ MarkFailure(w) \/ WorkerCrash(w) \/ TimeLimitKill(w)
        PROVE  GoesOn(v)
    BY <1>6, <1>3 DEF CompleteWithResult, MarkFailure, WorkerCrash, TimeLimitKill
  <1>7. ASSUME NEW w \in Workers, NEW v \in Workers, NEW j \in Jobs,
               ClaimCancelled(w, j) \/ ClaimRefused(w, j)
        PROVE  GoesOn(v)
    BY <1>7, <1>3 DEF ClaimCancelled, ClaimRefused
  <1>8. ASSUME NEW j \in Jobs, NEW v \in Workers,
               \/ Enqueue(j) \/ RequestCancel(j) \/ LoseMessage(j)
               \/ LeaseExpires(j) \/ RetryBecomesDue(j)
        PROVE  GoesOn(v)
    BY <1>8, <1>2 DEF Enqueue, RequestCancel, LoseMessage, LeaseExpires, RetryBecomesDue
  <1>9. ASSUME NEW d \in Dispatchers, NEW v \in Workers,
               \/ \E j \in Jobs : SendTask(d, j) \/ SendRefused(d, j)
               \/ MarkDispatch(d) \/ DispatcherCrash(d)
        PROVE  GoesOn(v)
    BY <1>9, <1>2 DEF SendTask, SendRefused, MarkDispatch, DispatcherCrash
  <1>10. ASSUME NEW v \in Workers,
                RecoverExpiredLeases \/ ListDispatchable \/ UNCHANGED vars
         PROVE  GoesOn(v)
    BY <1>10, <1>2 DEF RecoverExpiredLeases, ListDispatchable, vars
  <1> QED
    BY <1>1, <1>4, <1>5, <1>6, <1>7, <1>8, <1>9, <1>10 DEF Next, Claim, Execute, Workers

\* The attempts of a job are never fewer than before.
LEMMA AttemptsGrow ==
    ASSUME TypeOK, NEW j \in Jobs, Move(j)
    PROVE  Len(attempts[j]) \in Nat /\ Len(attempts'[j]) \in Nat /\ Len(attempts'[j]) >= Len(attempts[j])
  <1>1. attempts[j] \in Seq(AttemptStatuses) /\ Len(attempts[j]) \in Nat
    BY LenProperties DEF TypeOK
  <1>2. ASSUME NEW st \in AttemptStatuses
        PROVE  Len(FinishLatest(attempts[j], st)) = Len(attempts[j])
    BY <1>1, FinishLatestType
  <1>3. Len(Append(attempts[j], "running")) = Len(attempts[j]) + 1
    BY <1>1, AppendProperties DEF AttemptStatuses
  <1> QED
    BY <1>1, <1>2, <1>3 DEF Move, Stays, IsQueued, IsAsked, IsClaimed, IsWithdrawn, IsRetried,
       IsEnded, Succeeds, AttemptStatuses, Terminal

LEMMA TokensStep ==
    ASSUME TypeInv, TypeInv', TokensFence, [Next]_vars
    PROVE  TokensFence'
  <1> USE DEF TypeInv
  <1>1. \A j \in Jobs : /\ Len(attempts[j]) \in Nat /\ Len(attempts'[j]) \in Nat
                        /\ Len(attempts'[j]) >= Len(attempts[j])
    BY MoveStep, AttemptsGrow
  <1>2. ASSUME NEW w \in Workers
        PROVE  /\ token[w] \in Nat
               /\ pc[w] \in Executing => held[w] \in Jobs
    BY DEF TypeOK, HoldsJob, Executing
  <1>3. CASE \A v \in Workers : GoesOn(v)
    BY <1>1, <1>2, <1>3 DEF TokensFence, GoesOn
  <1>4. ASSUME NEW c \in Workers, NEW j \in Jobs, HasClaimed(c, j) PROVE TokensFence'
    <2>1. ASSUME NEW v \in Workers \ {c}, pc'[v] \in Executing
          PROVE  /\ pc[v] \in Executing /\ held'[v] = held[v] /\ token'[v] = token[v]
                 /\ held[v] \in Jobs /\ token[v] \in 1 .. Len(attempts[held[v]])
      BY <1>2, <1>4, <2>1 DEF HasClaimed, GoesOn, TokensFence
    <2>2. token'[c] = Len(attempts[j]) + 1 /\ held'[c] = j /\ token'[c] \in 1 .. Len(attempts'[j])
      BY <1>1, <1>4 DEF HasClaimed
    <2>3. ASSUME NEW v \in Workers, pc'[v] \in Executing
          PROVE  token'[v] \in 1 .. Len(attempts'[held'[v]])
      BY <1>1, <2>1, <2>2, <2>3
    <2>4. ASSUME NEW v \in Workers, NEW w \in Workers, pc'[v] \in Executing, pc'[w] \in Executing,
                 held'[v] = held'[w], token'[v] = token'[w]
          PROVE  v = w
      <3>1. CASE v # c /\ w # c
        BY <2>1, <2>4, <3>1 DEF TokensFence
      <3>2. ASSUME NEW u \in Workers \ {c}, pc'[u] \in Executing, held'[u] = j,
                   token'[u] = Len(attempts[j]) + 1
            PROVE  FALSE
        BY <1>1, <2>1, <3>2
      <3> QED  BY <2>2, <2>4, <3>1, <3>2
    <2> QED  BY <2>3, <2>4 DEF TokensFence
  <1> QED  BY <1>3, <1>4, ExecutorStep

\* A Celery worker that executes holds the lease, which has not run out; the
\* job may have been cancelled by a claim meanwhile, with the lease kept.
CeleryOwns ==
    \A w \in CeleryWorkers : pc[w] \in Executing =>
        /\ Owns(w) /\ ~leaseExpired[held[w]]
        /\ status[held[w]] \in Leased \cup {"cancelled"}

\* No step of anyone else takes the lease from a Celery worker.
LEMMA LeaseKept ==
    ASSUME TypeInv, TokensFence, CeleryOwns, [Next]_vars, NEW w \in CeleryWorkers,
           pc[w] \in Executing, pc'[w] \in Executing
    PROVE  /\ leaseToken'[held[w]] = token[w] /\ ~leaseExpired'[held[w]]
           /\ status'[held[w]] \in Leased \cup {"cancelled"}
  <1> DEFINE h == held[w]
             Kept == /\ leaseToken'[h] = token[w] /\ ~leaseExpired'[h]
                     /\ status'[h] \in Leased \cup {"cancelled"}
  <1> SUFFICES Kept
    OBVIOUS
  <1> USE DEF TypeInv
  <1>1. /\ w \in Workers /\ h \in Jobs /\ leaseToken[h] = token[w] /\ ~leaseExpired[h]
        /\ status[h] \in Leased \cup {"cancelled"}
    BY DEF CeleryOwns, Owns, HoldsJob, Workers, Executing
  <1>2. CASE UNCHANGED <<status, leaseToken, leaseExpired>>
    BY <1>1, <1>2
  <1>3. ASSUME NEW v \in Workers, pc[v] \in Executing, pc'[v] \notin Executing,
               held[v] = h, Owns(v)
        PROVE  FALSE
    BY <1>1, <1>3 DEF TokensFence, Owns
  <1>4. ASSUME NEW v \in Workers, NEW st, NEW code, pc[v] \in Executing, Idle(v), Owns(v),
               Release(held[v], st, code)
        PROVE  Kept
    <2>1. pc'[v] \notin Executing /\ held[v] \in Jobs
      BY <1>4 DEF Idle, TypeOK, HoldsJob, Executing
    <2>2. held[v] # h
      BY <1>3, <1>4, <2>1
    <2> QED  BY <1>1, <1>4, <2>1, <2>2 DEF Release, TypeOK
  <1>5. ASSUME NEW v \in Workers, CancelIfRequested(v) PROVE Kept
    <2>1. pc[v] \in Executing
      BY <1>5 DEF CancelIfRequested, Executing
    <2>2. CASE UNCHANGED row
      BY <1>2, <2>2 DEF row
    <2> QED  BY <1>4, <1>5, <2>1, <2>2 DEF CancelIfRequested
  <1>6. ASSUME NEW v \in Workers, UpdateProgress(v) PROVE Kept
    <2>1. CASE UNCHANGED row
      BY <1>2, <2>1 DEF row
    <2>2. CASE leaseExpired' = [leaseExpired EXCEPT ![held[v]] = FALSE] /\ UNCHANGED <<status, leaseToken>>
      BY <1>1, <2>2 DEF TypeOK
    <2> QED  BY <1>6, <2>1, <2>2 DEF UpdateProgress
  <1>7. ASSUME NEW v \in Workers, CompleteWithResult(v) \/ MarkFailure(v) PROVE Kept
    <2>1. pc[v] \in Executing /\ Idle(v)
      BY <1>7 DEF CompleteWithResult, MarkFailure, Executing
    <2>2. CASE UNCHANGED <<status, leaseToken, leaseExpired>>
      BY <1>2, <2>2
    <2>3. CASE Owns(v) /\ \E st, code : Release(held[v], st, code)
      BY <1>4, <2>1, <2>3
    <2>4. CASE CompleteWithResult(v)
      BY <2>2, <2>3, <2>4 DEF CompleteWithResult, row
    <2>5. CASE MarkFailure(v)
      BY <2>2, <2>3, <2>5 DEF MarkFailure
    <2> QED  BY <1>7, <2>4, <2>5
  <1>8. ASSUME NEW j \in Jobs, Enqueue(j) \/ RequestCancel(j) PROVE Kept
    BY <1>1, <1>8 DEF Enqueue, RequestCancel, CancelRow, TypeOK, Runnable, Leased
  <1>9. ASSUME NEW j \in Jobs, LeaseExpires(j) PROVE Kept
    <2>1. j # h
      BY <1>1, <1>9 DEF LeaseExpires, Owns
    <2> QED  BY <1>1, <1>9, <2>1 DEF LeaseExpires, TypeOK
  <1>10. CASE RecoverExpiredLeases
    <2>1. h \notin Expired
      BY <1>1 DEF Expired
    <2> QED  BY <1>1, <1>10, <2>1 DEF RecoverExpiredLeases
  <1>11. ASSUME NEW v \in Workers, NEW j \in Jobs, ClaimRunnable(v, j) PROVE Kept
    <2>1. j # h
      BY <1>1, <1>11 DEF ClaimRunnable, Dispatchable, Leased
    <2> QED  BY <1>1, <1>11, <2>1 DEF ClaimRunnable, TypeOK
  <1>12. ASSUME NEW v \in Workers, NEW j \in Jobs, ClaimCancelled(v, j) PROVE Kept
    BY <1>1, <1>12 DEF ClaimCancelled, CancelRow, TypeOK, Leased
  <1>13. ASSUME \/ \E j \in Jobs : LoseMessage(j) \/ RetryBecomesDue(j)
                \/ \E d \in Dispatchers, j \in Jobs : SendTask(d, j) \/ SendRefused(d, j)
                \/ \E d \in Dispatchers : MarkDispatch(d) \/ DispatcherCrash(d)
                \/ ListDispatchable \/ UNCHANGED vars
                \/ \E v \in Workers, j \in Jobs : Deliver(v, j) \/ HttpExecute(v, j)
                                                  \/ ClaimRefused(v, j)
                \/ \E v \in Workers : Operate(v) \/ WorkerCrash(v) \/ TimeLimitKill(v)
         PROVE  Kept
    BY <1>2, <1>13 DEF LoseMessage, RetryBecomesDue, SendTask, SendRefused, MarkDispatch,
       DispatcherCrash, ListDispatchable, Deliver, HttpExecute, ClaimRefused, Operate,
       WorkerCrash, TimeLimitKill, vars, row
  <1> QED
    BY <1>5, <1>6, <1>7, <1>8, <1>9, <1>10, <1>11, <1>12, <1>13
       DEF Next, Claim, Execute, Workers

LEMMA CeleryStep ==
    ASSUME TypeInv, TokensFence, CeleryOwns, [Next]_vars
    PROVE  CeleryOwns'
  <1> SUFFICES ASSUME NEW w \in CeleryWorkers, pc'[w] \in Executing
               PROVE  /\ leaseToken'[held'[w]] = token'[w] /\ ~leaseExpired'[held'[w]]
                      /\ status'[held'[w]] \in Leased \cup {"cancelled"}
    BY DEF CeleryOwns, Owns
  <1>1. w \in Workers
    BY DEF Workers
  <1>2. CASE GoesOn(w)
    BY <1>1, <1>2, LeaseKept DEF GoesOn
  <1>3. ASSUME NEW j \in Jobs, HasClaimed(w, j)
        PROVE  /\ leaseToken'[held'[w]] = token'[w] /\ ~leaseExpired'[held'[w]]
               /\ status'[held'[w]] \in Leased \cup {"cancelled"}
    BY <1>3 DEF HasClaimed, Leased
  <1>4. GoesOn(w) \/ \E j \in Jobs : HasClaimed(w, j)
    BY <1>1, ExecutorStep DEF HasClaimed
  <1> QED  BY <1>2, <1>3, <1>4

\* A job is executed by its owner alone, whatever is delivered twice, crashes
\* or is recovered: tokens fence, and no two Celery workers meet on a job.
THEOREM OneOwnerAlways == Spec => []OneOwner
  <1> DEFINE OwnerInv == TypeInv /\ TokensFence /\ CeleryOwns
  <1>1. Init => OwnerInv
    <2>1. Init => TokensFence /\ CeleryOwns
      BY DEF Init, TokensFence, CeleryOwns, Executing, Workers
    <2> QED  BY <2>1, TypeInvInit
  <1>2. OwnerInv /\ [Next]_vars => OwnerInv'
    BY TypeInvStep, TokensStep, CeleryStep
  <1>3. OwnerInv => OneOwner
    BY DEF CeleryOwns, Owns, TokensFence, OneOwner, OneCeleryExecution, Workers
  <1> QED  BY <1>1, <1>2, <1>3, PTL DEF Spec
-----------------------------------------------------------------------------
(* The job table keeps the promise of JobContract.                         *)

LEMMA PhaseValue ==
    ASSUME NEW st \in Statuses
    PROVE  /\ Phase(st) \in Contract!Phases
           /\ st \in Runnable => Phase(st) = "waiting"
           /\ st \in Leased => Phase(st) = "active"
           /\ st \in Terminal => Phase(st) = st
           /\ st = "absent" => Phase(st) = "absent"
  BY DEF Phase, Statuses, Runnable, Leased, Terminal, Contract!Phases, Contract!Ended

\* One move of a job is a step of the contract, or none.
LEMMA MoveContract ==
    ASSUME IInv, IInv', NEW j \in Jobs, Move(j)
    PROVE  \/ Contract!Same(j) \/ Contract!Submit(j) \/ Contract!Start(j)
           \/ Contract!Retry(j) \/ Contract!Finish(j)
  <1> USE DEF IInv, TypeInv
  <1>1. status[j] \in Statuses /\ status'[j] \in Statuses
    BY DEF TypeOK
  <1>2. Tracks(j)
    BY DEF AttemptsTrackJob
  <1>3. attempts[j] \in Seq(AttemptStatuses) /\ retryCount[j] \in 0 .. MaxRetries
    BY DEF TypeOK
  <1>4. Len(attempts[j]) \in Nat
    BY <1>3, LenProperties
  <1>5. \A st \in AttemptStatuses : Len(FinishLatest(attempts[j], st)) = Len(attempts[j])
    BY <1>3, FinishLatestType
  <1>6. CASE Stays(j)
    BY <1>6 DEF Stays, Contract!Same
  <1>7. CASE IsQueued(j)
    BY <1>1, <1>7, PhaseValue DEF IsQueued, Contract!Submit, Runnable
  <1>8. CASE IsAsked(j)
    BY <1>1, <1>8, PhaseValue DEF IsAsked, Contract!Same, Leased
  <1>9. CASE IsClaimed(j)
    <2>1. Len(attempts'[j]) = Len(attempts[j]) + 1
      BY <1>3, <1>9, AppendProperties DEF IsClaimed, AttemptStatuses
    <2>2. Len(attempts[j]) < MaxRetries + 1
      BY <1>2, <1>3, <1>4, <1>9, ConstantsAssumption DEF IsClaimed, Tracks, Runnable
    <2> QED  BY <1>1, <1>9, <2>1, <2>2, PhaseValue DEF IsClaimed, Contract!Start, Leased
  <1>10. CASE IsWithdrawn(j)
    BY <1>1, <1>5, <1>10, PhaseValue
       DEF IsWithdrawn, Contract!Finish, AttemptStatuses, Terminal
  <1>11. CASE IsRetried(j)
    <2>1. Len(attempts[j]) < MaxRetries + 1
      BY <1>2, <1>3, <1>4, <1>11, ConstantsAssumption DEF IsRetried, Tracks
    <2> QED  BY <1>1, <1>5, <1>11, <2>1, PhaseValue
             DEF IsRetried, Contract!Retry, AttemptStatuses, Runnable
  <1>12. CASE IsEnded(j)
    BY <1>1, <1>5, <1>12, PhaseValue
       DEF IsEnded, Contract!Finish, Contract!Ended, AttemptStatuses, Terminal
  <1>13. CASE Succeeds(j)
    BY <1>1, <1>5, <1>13, PhaseValue
       DEF Succeeds, Contract!Finish, Contract!Ended, AttemptStatuses, Terminal
  <1> QED  BY <1>6, <1>7, <1>8, <1>9, <1>10, <1>11, <1>12, <1>13 DEF Move

\* The job table, with crashes, duplicated and lost messages and lease
\* recovery, implements what JobContract promises the requester.
THEOREM JobsImplementContract == Spec => ImplementsContract
  <1>1. Init => Contract!Init
    BY EmptySeq DEF Init, Contract!Init, Phase, Runnable, Leased
  <1>2. IInv /\ IInv' /\ [Next]_vars => [Contract!Next]_(Contract!contractVars)
    <2> SUFFICES ASSUME IInv, IInv', [Next]_vars
                 PROVE  Contract!Next
      OBVIOUS
    <2>1. \A j \in Jobs : Move(j)
      BY MoveStep DEF IInv
    <2>2. \A j \in Jobs : \/ Contract!Same(j) \/ Contract!Submit(j) \/ Contract!Start(j)
                          \/ Contract!Retry(j) \/ Contract!Finish(j)
      BY <2>1, MoveContract
    <2>3. \A j \in Jobs : status'[j] \in Statuses
      BY DEF IInv, TypeInv, TypeOK
    <2>4. \A j \in Jobs : Phase(status'[j]) \in Contract!Phases
      BY <2>3, PhaseValue
    <2>5. \A j \in Jobs : Len(attempts'[j]) \in 0 .. MaxRetries + 1
      <3> TAKE j \in Jobs
      <3>1. attempts'[j] \in Seq(AttemptStatuses) /\ retryCount'[j] \in 0 .. MaxRetries
        BY DEF IInv, TypeInv, TypeOK
      <3>2. Len(attempts'[j]) \in Nat
        BY <3>1, LenProperties
      <3>3. Len(attempts'[j]) \in {0, retryCount'[j], retryCount'[j] + 1}
        BY <2>3, <3>1 DEF IInv, AttemptsTrackJob, Tracks, Statuses, Runnable
      <3> QED  BY <3>1, <3>2, <3>3, ConstantsAssumption
    <2> QED  BY <2>2, <2>4, <2>5 DEF Contract!Next
  <1> QED  BY <1>1, <1>2, IInvAlways, PTL DEF Spec, ImplementsContract, Contract!Spec
=============================================================================
