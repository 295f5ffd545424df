------------------------ MODULE StrategyTrialsProofs ------------------------
(***************************************************************************)
(* Proofs about StrategyTrials.  First the backtest jobs, for any number   *)
(* of jobs, executions and retries: an execution and its job know each     *)
(* other although no lease ties them, and whoever may claim a job finds    *)
(* nobody at work on it.  Then the ledger of simulated trading, for any    *)
(* number of orders, stocks and days: what an order has read is still so   *)
(* when it commits, unless another was booked meanwhile.                   *)
(***************************************************************************)
EXTENDS StrategyTrials, FiniteSetTheorems, SequenceTheorems, WellFoundedInduction, TLAPS

Live == {"running", "cancel_requested"}
AtWork(e) == exec[e] # Backtest!Idle

\* Every claim adds an attempt, every retry is counted when its attempt ends.
AttemptsCounted ==
    \A j \in Jobs :
        /\ status[j] \in {"absent", "queued"} => Len(attempts[j]) = 0 /\ retries[j] = 0
        /\ status[j] \in Live => Len(attempts[j]) = retries[j] + 1
        /\ status[j] = "retry_wait" => Len(attempts[j]) = retries[j]
        /\ Len(attempts[j]) <= retries[j] + 1

\* An execution has the newest attempt of a job that is live or was cancelled
\* under it, and to itself.
ExecutionsOwn ==
    \A e \in Executors : AtWork(e) =>
        LET j == exec[e].job IN
        /\ status[j] \in Live \cup {"cancelled"}
        /\ exec[e].n = Len(attempts[j])
        /\ \A f \in Executors : exec[f].job = j => f = e

\* What an execution reports has happened.
ReportsHold ==
    \A e \in Executors : AtWork(e) =>
        LET j == exec[e].job  n == exec[e].n IN
        /\ exec[e].pc = "saved" => n \in saved[j]
        /\ exec[e].pc = "failing" => exec[e].outcome \in {"failed", "retry"}
        /\ exec[e].pc = "finishing" => exec[e].outcome # "none"
        /\ exec[e].pc \notin {"failing", "finishing"} => exec[e].outcome = "none"
        /\ exec[e].outcome = "succeeded" => n \in saved[j] /\ task[j][n] = "done"

JobsInv == /\ Backtest!TypeOK /\ AttemptsCounted /\ ExecutionsOwn /\ ReportsHold
           /\ Backtest!SuccessIsReadable

-----------------------------------------------------------------------------
(* Types. *)

Attempt == {"running", "retry_wait"} \cup Backtest!Terminal
Work == [job : Jobs, n : Backtest!Numbers, pc : Backtest!Steps, outcome : Backtest!Outcomes]

LEMMA WorkFields ==
    ASSUME Backtest!TypeOK, NEW e \in Executors
    PROVE  /\ AtWork(e) => /\ exec[e] \in Work /\ exec[e].job \in Jobs
                           /\ exec[e].n \in Backtest!Numbers
                           /\ exec[e].pc \in Backtest!Steps
                           /\ exec[e].outcome \in Backtest!Outcomes
           /\ ~AtWork(e) => exec[e].job = None /\ exec[e].pc = "idle"
           /\ AtWork(e) <=> exec[e].job \in Jobs
           /\ AtWork(e) <=> exec[e].pc # "idle"
  BY BacktestsAssumption DEF Backtest!TypeOK, Work, AtWork, Backtest!Idle, Backtest!Steps


\* Attempts keep their number when the newest one is finished.
LEMMA AttemptFinished ==
    ASSUME Backtest!TypeOK, NEW j \in Jobs, NEW outcome \in Attempt,
           Backtest!FinishAttempt(j, outcome)
    PROVE  /\ attempts' \in [Jobs -> Seq(Attempt)]
           /\ \A i \in Jobs : Len(attempts'[i]) = Len(attempts[i])
  <1>1. attempts \in [Jobs -> Seq(Attempt)] BY DEF Backtest!TypeOK, Attempt
  <1>2. CASE attempts[j] = <<>>
    BY <1>1, <1>2 DEF Backtest!FinishAttempt
  <1>3. CASE attempts[j] # <<>>
    <2>1. PICK s : s = attempts[j] OBVIOUS
    <2>2. s \in Seq(Attempt) /\ s # <<>> BY <1>1, <1>3, <2>1
    <2>3. Len(s) \in 1 .. Len(s) BY <2>2
    <2>4. PICK t : t = [s EXCEPT ![Len(s)] = outcome] OBVIOUS
    <2>5. t \in Seq(Attempt) /\ Len(t) = Len(s) BY <2>2, <2>3, <2>4, ExceptSeq
    <2>6. attempts' = [attempts EXCEPT ![j] = t]
      BY <1>3, <2>1, <2>4 DEF Backtest!FinishAttempt
    <2>7. QED BY <1>1, <2>1, <2>5, <2>6
  <1>4. QED BY <1>2, <1>3

\* What a step of an execution does to its own record.
LEMMA WorkGoes ==
    ASSUME Backtest!TypeOK, NEW e \in Executors, AtWork(e),
           NEW step \in Backtest!Steps, Backtest!Goes(e, step)
    PROVE  /\ exec'[e] = [job |-> exec[e].job, n |-> exec[e].n,
                          pc |-> step, outcome |-> exec[e].outcome]
           /\ \A f \in Executors \ {e} : exec'[f] = exec[f]
           /\ exec' \in [Executors -> Work \cup {Backtest!Idle}]
  <1>1. PICK r : r = exec[e] OBVIOUS
  <1>2. r \in Work BY <1>1, WorkFields
  <1>3. exec \in [Executors -> Work \cup {Backtest!Idle}] BY DEF Backtest!TypeOK, Work
  <1>4. [r EXCEPT !.pc = step] = [job |-> r.job, n |-> r.n, pc |-> step, outcome |-> r.outcome]
    BY <1>2 DEF Work
  <1>5. [r EXCEPT !.pc = step] \in Work BY <1>2 DEF Work
  <1>6. exec' = [exec EXCEPT ![e] = [r EXCEPT !.pc = step]] BY <1>1 DEF Backtest!Goes
  <1>7. QED BY <1>1, <1>3, <1>4, <1>5, <1>6

LEMMA WorkEnds ==
    ASSUME Backtest!TypeOK, NEW e \in Executors, AtWork(e),
           NEW step \in Backtest!Steps, NEW outcome \in Backtest!Outcomes,
           exec' = [exec EXCEPT ![e].pc = step, ![e].outcome = outcome]
    PROVE  /\ exec'[e] = [job |-> exec[e].job, n |-> exec[e].n,
                          pc |-> step, outcome |-> outcome]
           /\ \A f \in Executors \ {e} : exec'[f] = exec[f]
           /\ exec' \in [Executors -> Work \cup {Backtest!Idle}]
  <1>1. PICK r : r = exec[e] OBVIOUS
  <1>2. r \in Work BY <1>1, WorkFields
  <1>3. exec \in [Executors -> Work \cup {Backtest!Idle}] BY DEF Backtest!TypeOK, Work
  <1>4. PICK t : t = [job |-> r.job, n |-> r.n, pc |-> step, outcome |-> outcome] OBVIOUS
  <1>5. t \in Work BY <1>2, <1>4 DEF Work
  <1>6. exec' = [exec EXCEPT ![e] = t]
    <2>1. PICK p : p = [exec EXCEPT ![e].pc = step] OBVIOUS
    <2>2. p = [exec EXCEPT ![e] = [r EXCEPT !.pc = step]] BY <1>1, <2>1
    <2>3. p[e] = [r EXCEPT !.pc = step] BY <1>3, <2>2
    <2>4. [p[e] EXCEPT !.outcome = outcome] = t
      <3>1. PICK q : q = p[e] OBVIOUS
      <3>2. q = [job |-> r.job, n |-> r.n, pc |-> step, outcome |-> r.outcome]
        BY <1>2, <2>3, <3>1 DEF Work
      <3>3. [q EXCEPT !.outcome = outcome] = t BY <1>4, <3>2
      <3>4. QED BY <3>1, <3>3
    <2>5. exec' = [p EXCEPT ![e].outcome = outcome] BY <2>1
    <2>6. exec' = [p EXCEPT ![e] = t] BY <2>4, <2>5
    <2>7. QED BY <1>3, <2>2, <2>6
  <1>7. QED BY <1>1, <1>3, <1>4, <1>5, <1>6

-----------------------------------------------------------------------------
(* The steps of an execution before its end: the job table is as it was.   *)

LEMMA WorkStep ==
    ASSUME BacktestsAssumption, JobsInv, NEW e \in Executors, AtWork(e),
           NEW step \in Backtest!Steps, NEW outcome \in Backtest!Outcomes,
           exec'[e] = [job |-> exec[e].job, n |-> exec[e].n,
                       pc |-> step, outcome |-> outcome],
           \A f \in Executors \ {e} : exec'[f] = exec[f],
           exec' \in [Executors -> Work \cup {Backtest!Idle}],
           UNCHANGED <<status, retries, due, ref, attempts, lost>>,
           task' \in [Jobs -> [Backtest!Numbers ->
                                 {"none", "pending", "running", "done", "failed"}]],
           saved' \in [Jobs -> SUBSET Backtest!Numbers],
           \A j \in Jobs \ {exec[e].job} : task'[j] = task[j] /\ saved'[j] = saved[j],
           step = "saved" => exec[e].n \in saved'[exec[e].job],
           step = "failing" => outcome \in {"failed", "retry"},
           step = "finishing" => outcome # "none",
           step \notin {"failing", "finishing"} => outcome = "none",
           outcome = "succeeded" => /\ exec[e].n \in saved'[exec[e].job]
                                    /\ task'[exec[e].job][exec[e].n] = "done"
    PROVE  JobsInv'
  <1>1. PICK j, n : j = exec[e].job /\ n = exec[e].n OBVIOUS
  <1>2. j \in Jobs /\ n \in Backtest!Numbers BY <1>1, WorkFields DEF JobsInv
  <1>3. exec'[e].job = j /\ exec'[e].n = n /\ exec'[e].pc = step /\ exec'[e].outcome = outcome
    BY <1>1
  <1>4. Backtest!TypeOK' BY DEF JobsInv, Backtest!TypeOK, Work, Backtest!Numbers, Backtest!Steps, Backtest!Outcomes, Backtest!Idle, Backtest!Terminal
  <1>5. AttemptsCounted' BY DEF JobsInv, AttemptsCounted, Live
  <1>6. \A f \in Executors : exec'[f].job = exec[f].job /\ exec'[f].n = exec[f].n
    BY <1>1, <1>3
  <1>7. \A f \in Executors : exec'[f] # Backtest!Idle <=> exec[f] # Backtest!Idle
    BY <1>3, <1>2, BacktestsAssumption DEF AtWork, Backtest!Idle
  <1>8. ExecutionsOwn' BY <1>6, <1>7 DEF JobsInv, ExecutionsOwn, AtWork, Live, Backtest!Idle
  <1>9. ReportsHold'
    <2> SUFFICES ASSUME NEW f \in Executors, exec'[f] # Backtest!Idle
                 PROVE  /\ exec'[f].pc = "saved" => exec'[f].n \in saved'[exec'[f].job]
                        /\ exec'[f].pc = "failing" => exec'[f].outcome \in {"failed", "retry"}
                        /\ exec'[f].pc = "finishing" => exec'[f].outcome # "none"
                        /\ exec'[f].pc \notin {"failing", "finishing"} =>
                             exec'[f].outcome = "none"
                        /\ exec'[f].outcome = "succeeded" =>
                             /\ exec'[f].n \in saved'[exec'[f].job]
                             /\ task'[exec'[f].job][exec'[f].n] = "done"
      BY DEF ReportsHold, AtWork, Backtest!Idle
    <2>1. CASE f = e BY <1>1, <1>3, <2>1
    <2>2. CASE f # e
      <3>1. exec'[f] = exec[f] /\ AtWork(f) BY <2>2 DEF AtWork
      <3>2. exec[f].job \in Jobs /\ exec[f].job # j
        BY <1>1, <2>2, <3>1, WorkFields DEF JobsInv, ExecutionsOwn
      <3>3. task'[exec[f].job] = task[exec[f].job] /\ saved'[exec[f].job] = saved[exec[f].job]
        BY <1>1, <3>2
      <3>4. QED BY <3>1, <3>3 DEF JobsInv, ReportsHold
    <2>3. QED BY <2>1, <2>2
  <1>10. Backtest!SuccessIsReadable'
    <2> SUFFICES ASSUME NEW i \in Jobs
                 PROVE  /\ status'[i] = "succeeded" <=> ref'[i] # 0
                        /\ status'[i] = "succeeded" =>
                             /\ task'[i][ref'[i]] = "done" /\ ref'[i] \in saved'[i]
                             /\ ref'[i] = Len(attempts'[i])
      BY DEF Backtest!SuccessIsReadable
    <2>1. CASE i = j
      <3>1. status[j] # "succeeded" BY <1>1 DEF JobsInv, ExecutionsOwn, Live
      <3>2. QED BY <2>1, <3>1 DEF JobsInv, Backtest!SuccessIsReadable
    <2>2. CASE i # j
      <3>1. task'[i] = task[i] /\ saved'[i] = saved[i] BY <1>1, <2>2
      <3>2. QED BY <3>1 DEF JobsInv, Backtest!SuccessIsReadable
    <2>3. QED BY <2>1, <2>2
  <1>11. QED BY <1>4, <1>5, <1>8, <1>9, <1>10 DEF JobsInv

\* Every transaction of an execution but its last.
LEMMA StepsAtWork ==
    ASSUME BacktestsAssumption, JobsInv, NEW e \in Executors,
           \/ Backtest!CheckLock(e) \/ Backtest!Progress(e) \/ Backtest!CreateTask(e)
           \/ Backtest!StartTask(e) \/ Backtest!RunAndSave(e) \/ Backtest!FinishTask(e)
           \/ Backtest!FailTask(e)
    PROVE  JobsInv'
  <1>0. PICK j, n : j = exec[e].job /\ n = exec[e].n OBVIOUS
  <1>1. AtWork(e)
    BY WorkFields DEF JobsInv, Backtest!CheckLock, Backtest!Progress, Backtest!CreateTask,
       Backtest!StartTask, Backtest!RunAndSave, Backtest!FinishTask, Backtest!FailTask,
       Backtest!At
  <1>2. j \in Jobs /\ n \in Backtest!Numbers /\ exec[e].outcome \in Backtest!Outcomes
    BY <1>0, <1>1, WorkFields DEF JobsInv
  <1>3. UNCHANGED <<status, retries, due, ref, attempts, lost>>
    BY DEF Backtest!CheckLock, Backtest!Progress, Backtest!CreateTask, Backtest!StartTask,
       Backtest!RunAndSave, Backtest!FinishTask, Backtest!FailTask,
       Backtest!JobsUnchanged, Backtest!jobRow
  <1> DEFINE
    Tasks == {"none", "pending", "running", "done", "failed"}
    Types == /\ task' \in [Jobs -> [Backtest!Numbers -> Tasks]]
             /\ saved' \in [Jobs -> SUBSET Backtest!Numbers]
             /\ \A i \in Jobs \ {j} : task'[i] = task[i] /\ saved'[i] = saved[i]
    Ready(step, outcome) ==
        /\ step = "saved" => n \in saved'[j]
        /\ step = "failing" => outcome \in {"failed", "retry"}
        /\ step = "finishing" => outcome # "none"
        /\ step \notin {"failing", "finishing"} => outcome = "none"
        /\ outcome = "succeeded" => n \in saved'[j] /\ task'[j][n] = "done"
  <1>4. task \in [Jobs -> [Backtest!Numbers -> Tasks]] /\ saved \in [Jobs -> SUBSET Backtest!Numbers]
    BY DEF JobsInv, Backtest!TypeOK
  <1>5. ASSUME NEW st \in Tasks, Backtest!TaskIs(e, st), saved' = saved
        PROVE  Types /\ task'[j][n] = st
    <2>1. PICK t : t = [task[j] EXCEPT ![n] = st] OBVIOUS
    <2>2. t \in [Backtest!Numbers -> Tasks] /\ t[n] = st BY <1>2, <1>4, <2>1
    <2>3. task' = [task EXCEPT ![j] = t] BY <1>0, <1>5, <2>1 DEF Backtest!TaskIs
    <2>4. QED BY <1>2, <1>4, <1>5, <2>2, <2>3
  <1>6. task' = task /\ saved' = saved => Types BY <1>4
  <1>7. ASSUME NEW step \in Backtest!Steps, Backtest!Goes(e, step), Types,
               Ready(step, exec[e].outcome)
        PROVE  JobsInv'
    <2>1. /\ exec'[e] = [job |-> exec[e].job, n |-> exec[e].n,
                         pc |-> step, outcome |-> exec[e].outcome]
          /\ \A f \in Executors \ {e} : exec'[f] = exec[f]
          /\ exec' \in [Executors -> Work \cup {Backtest!Idle}]
      BY <1>1, <1>7, WorkGoes DEF JobsInv
    <2>2. QED BY <1>0, <1>1, <1>2, <1>3, <1>7, <2>1, WorkStep
  <1>8. ASSUME NEW step \in Backtest!Steps, NEW outcome \in Backtest!Outcomes,
               exec' = [exec EXCEPT ![e].pc = step, ![e].outcome = outcome],
               Types, Ready(step, outcome)
        PROVE  JobsInv'
    <2>1. /\ exec'[e] = [job |-> exec[e].job, n |-> exec[e].n,
                         pc |-> step, outcome |-> outcome]
          /\ \A f \in Executors \ {e} : exec'[f] = exec[f]
          /\ exec' \in [Executors -> Work \cup {Backtest!Idle}]
      BY <1>1, <1>8, WorkEnds DEF JobsInv
    <2>2. QED BY <1>0, <1>1, <1>2, <1>3, <1>8, <2>1, WorkStep
  <1>9. /\ exec[e].pc = "saved" => n \in saved[j]
        /\ exec[e].pc = "failing" => exec[e].outcome \in {"failed", "retry"}
        /\ exec[e].pc \notin {"failing", "finishing"} => exec[e].outcome = "none"
    BY <1>0, <1>1 DEF JobsInv, ReportsHold
  <1>10. {"open", "started", "created", "running", "saved", "failing", "finishing"}
            \subseteq Backtest!Steps
    BY DEF Backtest!Steps
  <1>11. {"succeeded", "failed", "retry", "blocked"} \subseteq Backtest!Outcomes
    BY DEF Backtest!Outcomes
  \* The steps that end in 'finishing' or 'failing' without a result.
  <1>12. ASSUME NEW outcome \in {"failed", "retry", "blocked"}, Types,
                Backtest!Ends(e, outcome) \/ (outcome # "blocked" /\ Backtest!Fails(e, outcome))
         PROVE  JobsInv'
    <2>1. PICK step \in {"failing", "finishing"} :
             /\ exec' = [exec EXCEPT ![e].pc = step, ![e].outcome = outcome]
             /\ step = "failing" => outcome # "blocked"
      BY <1>12 DEF Backtest!Ends, Backtest!Fails
    <2>2. Ready(step, outcome) BY <1>12, <2>1
    <2>3. step \in Backtest!Steps /\ outcome \in Backtest!Outcomes BY <1>10, <1>11, <1>12
    <2>4. QED BY <1>8, <1>12, <2>1, <2>2, <2>3
  <1> HIDE DEF Types, Ready
  <1>13. CASE Backtest!CheckLock(e)
    <2>1. Types BY <1>6, <1>13 DEF Backtest!CheckLock, Backtest!taskRows
    <2>2. CASE Backtest!Goes(e, "open")
      <3>1. Ready("open", exec[e].outcome)
        BY <1>9, <1>13 DEF Ready, Backtest!CheckLock, Backtest!At
      <3>2. QED BY <1>7, <1>10, <2>1, <2>2, <3>1
    <2>3. CASE Backtest!Ends(e, "blocked") BY <1>12, <2>1, <2>3
    <2>4. QED BY <1>13, <2>2, <2>3 DEF Backtest!CheckLock
  <1>14. CASE Backtest!Progress(e)
    <2>1. Types BY <1>6, <1>14 DEF Backtest!Progress, Backtest!taskRows
    <2>2. CASE Backtest!Goes(e, "started")
      <3>1. Ready("started", exec[e].outcome)
        BY <1>9, <1>14 DEF Ready, Backtest!Progress, Backtest!At
      <3>2. QED BY <1>7, <1>10, <2>1, <2>2, <3>1
    <2>3. CASE Backtest!Ends(e, "retry") BY <1>12, <2>1, <2>3
    <2>4. QED BY <1>14, <2>2, <2>3 DEF Backtest!Progress
  <1>15. CASE Backtest!CreateTask(e)
    <2>1. CASE Backtest!Goes(e, "created") /\ Backtest!TaskIs(e, "pending")
      <3>1. Types BY <1>5, <1>15, <2>1 DEF Backtest!CreateTask
      <3>2. Ready("created", exec[e].outcome)
        BY <1>9, <1>15 DEF Ready, Backtest!CreateTask, Backtest!At
      <3>3. QED BY <1>7, <1>10, <2>1, <3>1, <3>2
    <2>2. CASE \E outcome \in {"failed", "retry"} : Backtest!Ends(e, outcome) /\ UNCHANGED task
      <3>1. Types BY <1>6, <1>15, <2>2 DEF Backtest!CreateTask
      <3>2. QED BY <1>12, <2>2, <3>1
    <2>3. QED BY <1>15, <2>1, <2>2 DEF Backtest!CreateTask
  <1>16. CASE Backtest!StartTask(e)
    <2>1. CASE Backtest!Goes(e, "running") /\ Backtest!TaskIs(e, "running")
      <3>1. Types BY <1>5, <1>16, <2>1 DEF Backtest!StartTask
      <3>2. Ready("running", exec[e].outcome)
        BY <1>9, <1>16 DEF Ready, Backtest!StartTask, Backtest!At
      <3>3. QED BY <1>7, <1>10, <2>1, <3>1, <3>2
    <2>2. CASE Backtest!Ends(e, "retry") /\ UNCHANGED task
      <3>1. Types BY <1>6, <1>16, <2>2 DEF Backtest!StartTask
      <3>2. QED BY <1>12, <2>2, <3>1
    <2>3. QED BY <1>16, <2>1, <2>2 DEF Backtest!StartTask
  <1>17. CASE Backtest!RunAndSave(e)
    <2>1. CASE /\ Backtest!Goes(e, "saved")
               /\ saved' = [saved EXCEPT ![exec[e].job] = @ \cup {exec[e].n}]
      <3>1. Types /\ n \in saved'[j]
        BY <1>0, <1>2, <1>4, <1>17, <2>1 DEF Types, Backtest!RunAndSave
      <3>2. Ready("saved", exec[e].outcome)
        BY <1>9, <1>17, <3>1 DEF Ready, Backtest!RunAndSave, Backtest!At
      <3>3. QED BY <1>7, <1>10, <2>1, <3>1, <3>2
    <2>2. CASE \E outcome \in {"failed", "retry"} : Backtest!Fails(e, outcome) /\ UNCHANGED saved
      <3>1. Types BY <1>6, <1>17, <2>2 DEF Backtest!RunAndSave
      <3>2. QED BY <1>12, <2>2, <3>1
    <2>3. QED BY <1>17, <2>1, <2>2 DEF Backtest!RunAndSave
  <1>18. CASE Backtest!FinishTask(e)
    <2>1. CASE Backtest!Ends(e, "succeeded") /\ Backtest!TaskIs(e, "done")
      <3>1. Types /\ task'[j][n] = "done" /\ saved' = saved
        BY <1>5, <1>18, <2>1 DEF Backtest!FinishTask
      <3>2. Ready("finishing", "succeeded")
        BY <1>9, <1>18, <3>1 DEF Ready, Backtest!FinishTask, Backtest!At
      <3>3. QED BY <1>8, <1>10, <1>11, <2>1, <3>1, <3>2 DEF Backtest!Ends
    <2>2. CASE Backtest!Fails(e, "retry") /\ UNCHANGED task
      <3>1. Types BY <1>6, <1>18, <2>2 DEF Backtest!FinishTask
      <3>2. QED BY <1>12, <2>2, <3>1
    <2>3. QED BY <1>18, <2>1, <2>2 DEF Backtest!FinishTask
  <1>19. CASE Backtest!FailTask(e)
    <2>1. CASE Backtest!Ends(e, exec[e].outcome) /\ Backtest!TaskIs(e, "failed")
      <3>1. Types BY <1>5, <1>19, <2>1 DEF Backtest!FailTask
      <3>2. exec[e].outcome \in {"failed", "retry"}
        BY <1>9, <1>19 DEF Backtest!FailTask, Backtest!At
      <3>3. QED BY <1>12, <2>1, <3>1, <3>2
    <2>2. CASE Backtest!Ends(e, "retry") /\ UNCHANGED task
      <3>1. Types BY <1>6, <1>19, <2>2 DEF Backtest!FailTask
      <3>2. QED BY <1>12, <2>2, <3>1
    <2>3. QED BY <1>19, <2>1, <2>2 DEF Backtest!FailTask
  <1>20. QED BY <1>13, <1>14, <1>15, <1>16, <1>17, <1>18, <1>19

-----------------------------------------------------------------------------
(* The steps of the job table. *)

LEMMA JobsInit ==
    ASSUME BacktestsAssumption, Backtest!Init
    PROVE  JobsInv
  <1>1. Backtest!TypeOK
    BY BacktestsAssumption DEF Backtest!Init, Backtest!TypeOK, Backtest!Terminal, Backtest!Numbers
  <1>2. \A e \in Executors : ~AtWork(e) BY DEF Backtest!Init, AtWork
  <1>3. AttemptsCounted /\ Backtest!SuccessIsReadable
    BY DEF Backtest!Init, AttemptsCounted, Backtest!SuccessIsReadable, Live
  <1>4. QED BY <1>1, <1>2, <1>3 DEF JobsInv, ExecutionsOwn, ReportsHold

\* A step on the row of one job, on which nobody is at work afterwards unless
\* it is live or cancelled, keeps what the executions rely on.
LEMMA RowStep ==
    ASSUME BacktestsAssumption, JobsInv, NEW j \in Jobs,
           UNCHANGED <<task, saved>>, lost' \in 0 .. MaxLost,
           status' \in [Jobs -> {"absent", "queued", "running", "cancel_requested",
                                 "retry_wait"} \cup Backtest!Terminal],
           retries' \in [Jobs -> 0 .. MaxRetries], due' \subseteq Jobs,
           ref' \in [Jobs -> 0 .. MaxRetries + 1],
           attempts' \in [Jobs -> Seq(Attempt)],
           \A i \in Jobs \ {j} : /\ status'[i] = status[i] /\ retries'[i] = retries[i]
                                 /\ ref'[i] = ref[i] /\ Len(attempts'[i]) = Len(attempts[i]),
           status'[j] \in {"absent", "queued"} => Len(attempts'[j]) = 0 /\ retries'[j] = 0,
           status'[j] \in Live => Len(attempts'[j]) = retries'[j] + 1,
           status'[j] = "retry_wait" => Len(attempts'[j]) = retries'[j],
           Len(attempts'[j]) <= retries'[j] + 1,
           status'[j] = "succeeded" <=> ref'[j] # 0,
           status'[j] = "succeeded" => /\ task[j][ref'[j]] = "done" /\ ref'[j] \in saved[j]
                                       /\ ref'[j] = Len(attempts'[j]),
           exec' \in [Executors -> Work \cup {Backtest!Idle}],
           \A e \in Executors : exec'[e] \in {exec[e], Backtest!Idle},
           \A e \in Executors : exec'[e].job = j =>
              status'[j] \in Live \cup {"cancelled"} /\ Len(attempts'[j]) = Len(attempts[j])
    PROVE  JobsInv'
  <1>1. AttemptsCounted' BY DEF JobsInv, AttemptsCounted, Live
  <1>2. Backtest!TypeOK'
    <2>1. \A i \in Jobs : Len(attempts'[i]) <= MaxRetries + 1
      <3> TAKE i \in Jobs
      <3>1. Len(attempts'[i]) <= retries'[i] + 1 BY DEF JobsInv, AttemptsCounted
      <3>2. retries'[i] \in Nat /\ retries'[i] <= MaxRetries /\ Len(attempts'[i]) \in Nat
        BY BacktestsAssumption
      <3>3. QED BY <3>1, <3>2, BacktestsAssumption
    <2>2. QED
      BY <2>1 DEF JobsInv, Backtest!TypeOK, Work, Attempt, Backtest!Numbers, Backtest!Steps,
         Backtest!Outcomes, Backtest!Idle, Backtest!Terminal
  <1>3. \A e \in Executors : exec'[e] # Backtest!Idle =>
           exec'[e] = exec[e] /\ AtWork(e) /\ exec[e].job \in Jobs
    BY WorkFields DEF JobsInv, AtWork
  <1>4. ExecutionsOwn'
    <2> SUFFICES ASSUME NEW e \in Executors, exec'[e] # Backtest!Idle
                 PROVE  /\ status'[exec'[e].job] \in Live \cup {"cancelled"}
                        /\ exec'[e].n = Len(attempts'[exec'[e].job])
                        /\ \A f \in Executors : exec'[f].job = exec'[e].job => f = e
      BY DEF ExecutionsOwn, AtWork, Live, Backtest!Idle
    <2>1. PICK i : i = exec[e].job OBVIOUS
    <2>2. exec'[e].job = i /\ exec'[e].n = exec[e].n /\ i \in Jobs /\ AtWork(e)
      BY <1>3, <2>1
    <2>3. /\ status[i] \in Live \cup {"cancelled"} /\ exec[e].n = Len(attempts[i])
          /\ \A f \in Executors : exec[f].job = i => f = e
      BY <2>1, <2>2 DEF JobsInv, ExecutionsOwn
    <2>4. status'[i] \in Live \cup {"cancelled"} /\ Len(attempts'[i]) = Len(attempts[i])
      BY <2>2, <2>3
    <2>5. ASSUME NEW f \in Executors, exec'[f].job = i PROVE f = e
      <3>1. exec'[f] # Backtest!Idle BY <2>2, <2>5, BacktestsAssumption DEF Backtest!Idle
      <3>2. exec[f].job = i BY <1>3, <2>5, <3>1
      <3>3. QED BY <2>3, <3>2
    <2>6. QED BY <2>2, <2>3, <2>4, <2>5
  <1>5. ReportsHold'
    <2> SUFFICES ASSUME NEW e \in Executors, exec'[e] # Backtest!Idle
                 PROVE  /\ exec'[e].pc = "saved" => exec'[e].n \in saved'[exec'[e].job]
                        /\ exec'[e].pc = "failing" => exec'[e].outcome \in {"failed", "retry"}
                        /\ exec'[e].pc = "finishing" => exec'[e].outcome # "none"
                        /\ exec'[e].pc \notin {"failing", "finishing"} =>
                             exec'[e].outcome = "none"
                        /\ exec'[e].outcome = "succeeded" =>
                             /\ exec'[e].n \in saved'[exec'[e].job]
                             /\ task'[exec'[e].job][exec'[e].n] = "done"
      BY DEF ReportsHold, AtWork, Backtest!Idle
    <2>1. exec'[e] = exec[e] /\ AtWork(e) BY <1>3
    <2>2. QED BY <2>1 DEF JobsInv, ReportsHold
  <1>6. Backtest!SuccessIsReadable'
    <2> SUFFICES ASSUME NEW i \in Jobs
                 PROVE  /\ status'[i] = "succeeded" <=> ref'[i] # 0
                        /\ status'[i] = "succeeded" =>
                             /\ task'[i][ref'[i]] = "done" /\ ref'[i] \in saved'[i]
                             /\ ref'[i] = Len(attempts'[i])
      BY DEF Backtest!SuccessIsReadable
    <2>1. CASE i = j BY <2>1
    <2>2. CASE i # j
      <3>1. /\ status'[i] = status[i] /\ ref'[i] = ref[i] /\ Len(attempts'[i]) = Len(attempts[i])
            /\ task'[i] = task[i] /\ saved'[i] = saved[i]
        BY <2>2
      <3>2. QED BY <3>1 DEF JobsInv, Backtest!SuccessIsReadable
    <2>3. QED BY <2>1, <2>2
  <1>7. QED BY <1>1, <1>2, <1>4, <1>5, <1>6 DEF JobsInv

\* What RowStep needs to know of a job, and of those at work, beforehand.
LEMMA RowFacts ==
    ASSUME BacktestsAssumption, JobsInv, NEW j \in Jobs
    PROVE  /\ status \in [Jobs -> {"absent", "queued", "running", "cancel_requested",
                                   "retry_wait"} \cup Backtest!Terminal]
           /\ retries \in [Jobs -> 0 .. MaxRetries] /\ due \subseteq Jobs
           /\ ref \in [Jobs -> 0 .. MaxRetries + 1]
           /\ attempts \in [Jobs -> Seq(Attempt)] /\ lost \in 0 .. MaxLost
           /\ exec \in [Executors -> Work \cup {Backtest!Idle}]
           /\ Len(attempts[j]) \in Nat /\ retries[j] \in Nat /\ retries[j] <= MaxRetries
           /\ status[j] \in {"absent", "queued"} => Len(attempts[j]) = 0 /\ retries[j] = 0
           /\ status[j] \in Live => Len(attempts[j]) = retries[j] + 1
           /\ status[j] = "retry_wait" => Len(attempts[j]) = retries[j]
           /\ Len(attempts[j]) <= retries[j] + 1
           /\ status[j] = "succeeded" <=> ref[j] # 0
           /\ \A e \in Executors : exec[e].job = j => status[j] \in Live \cup {"cancelled"}
  <1>1. attempts \in [Jobs -> Seq(Attempt)] /\ Len(attempts[j]) \in Nat
    BY DEF JobsInv, Backtest!TypeOK, Attempt
  <1>2. \A e \in Executors : exec[e].job = j => status[j] \in Live \cup {"cancelled"}
    BY WorkFields DEF JobsInv, ExecutionsOwn
  <1>3. /\ status[j] \in {"absent", "queued"} => Len(attempts[j]) = 0 /\ retries[j] = 0
        /\ status[j] \in Live => Len(attempts[j]) = retries[j] + 1
        /\ status[j] = "retry_wait" => Len(attempts[j]) = retries[j]
        /\ Len(attempts[j]) <= retries[j] + 1
    BY DEF JobsInv, AttemptsCounted
  <1>4. status[j] = "succeeded" <=> ref[j] # 0 BY DEF JobsInv, Backtest!SuccessIsReadable
  <1>5. QED BY <1>1, <1>2, <1>3, <1>4, BacktestsAssumption DEF JobsInv, Backtest!TypeOK, Work

\* A step that sets a status other than 'succeeded' and leaves the executions,
\* the counters and the length of every history alone.
LEMMA StatusStep ==
    ASSUME BacktestsAssumption, JobsInv, NEW j \in Jobs,
           NEW st \in {"queued", "blocked", "cancelled", "cancel_requested"},
           status[j] # "succeeded",
           status' = [status EXCEPT ![j] = st],
           UNCHANGED <<retries, due, ref, task, saved, exec, lost>>,
           attempts' \in [Jobs -> Seq(Attempt)],
           \A i \in Jobs : Len(attempts'[i]) = Len(attempts[i]),
           st = "queued" => status[j] = "absent",
           st = "cancel_requested" => status[j] = "running",
           st = "blocked" => status[j] = "absent"
    PROVE  JobsInv'
  <1>1. /\ status' \in [Jobs -> {"absent", "queued", "running", "cancel_requested",
                                 "retry_wait"} \cup Backtest!Terminal]
        /\ status'[j] = st /\ \A i \in Jobs \ {j} : status'[i] = status[i]
    BY RowFacts DEF Backtest!Terminal
  <1>2. Len(attempts'[j]) = Len(attempts[j]) /\ retries'[j] = retries[j] /\ ref'[j] = ref[j]
    OBVIOUS
  <1>3. /\ status'[j] \in {"absent", "queued"} => Len(attempts'[j]) = 0 /\ retries'[j] = 0
        /\ status'[j] \in Live => Len(attempts'[j]) = retries'[j] + 1
        /\ status'[j] = "retry_wait" => Len(attempts'[j]) = retries'[j]
        /\ Len(attempts'[j]) <= retries'[j] + 1
        /\ status'[j] # "succeeded" /\ ref'[j] = 0
    BY <1>1, <1>2, RowFacts DEF Live
  <1>4. \A e \in Executors : exec[e].job = j => st \in Live \cup {"cancelled"}
    BY RowFacts DEF Live
  <1>5. /\ lost' \in 0 .. MaxLost /\ retries' \in [Jobs -> 0 .. MaxRetries]
        /\ due' \subseteq Jobs /\ ref' \in [Jobs -> 0 .. MaxRetries + 1]
        /\ exec' \in [Executors -> Work \cup {Backtest!Idle}]
    BY RowFacts
  <1>6. \A i \in Jobs \ {j} : /\ status'[i] = status[i] /\ retries'[i] = retries[i]
                              /\ ref'[i] = ref[i] /\ Len(attempts'[i]) = Len(attempts[i])
    BY <1>1
  <1>7. \A e \in Executors : exec'[e].job = j =>
           status'[j] \in Live \cup {"cancelled"} /\ Len(attempts'[j]) = Len(attempts[j])
    BY <1>1, <1>2, <1>4
  <1>8. QED BY <1>1, <1>3, <1>5, <1>6, <1>7, RowStep

LEMMA EnqueueStep ==
    ASSUME BacktestsAssumption, JobsInv, NEW j \in Jobs, Backtest!Enqueue(j)
    PROVE  JobsInv'
  <1>1. PICK st \in {"queued", "blocked"} : status' = [status EXCEPT ![j] = st]
    BY DEF Backtest!Enqueue
  <1>2. /\ status[j] = "absent"
        /\ UNCHANGED <<retries, due, ref, attempts, task, saved, exec, lost>>
    BY DEF Backtest!Enqueue, Backtest!taskRows
  <1>3. attempts' \in [Jobs -> Seq(Attempt)] BY <1>2, RowFacts
  <1>4. QED BY <1>1, <1>2, <1>3, StatusStep

LEMMA RequestCancelStep ==
    ASSUME BacktestsAssumption, JobsInv, NEW j \in Jobs, Backtest!RequestCancel(j)
    PROVE  JobsInv'
  <1>1. UNCHANGED <<retries, due, ref, task, saved, exec, lost>>
    BY DEF Backtest!RequestCancel, Backtest!taskRows
  <1>2. CASE /\ status[j] \in {"queued", "retry_wait"}
             /\ status' = [status EXCEPT ![j] = "cancelled"]
             /\ Backtest!FinishAttempt(j, "cancelled")
    <2>1. /\ attempts' \in [Jobs -> Seq(Attempt)]
          /\ \A i \in Jobs : Len(attempts'[i]) = Len(attempts[i])
      BY <1>2, AttemptFinished DEF JobsInv, Attempt, Backtest!Terminal
    <2>2. QED BY <1>1, <1>2, <2>1, StatusStep
  <1>3. CASE /\ status[j] = "running"
             /\ status' = [status EXCEPT ![j] = "cancel_requested"]
             /\ UNCHANGED attempts
    <2>1. attempts' \in [Jobs -> Seq(Attempt)] BY <1>3, RowFacts
    <2>2. QED BY <1>1, <1>3, <2>1, StatusStep
  <1>4. QED BY <1>2, <1>3 DEF Backtest!RequestCancel

LEMMA ClaimCancelledStep ==
    ASSUME BacktestsAssumption, JobsInv, NEW e \in Executors, NEW j \in Jobs,
           Backtest!ClaimCancelled(e, j)
    PROVE  JobsInv'
  <1>1. /\ UNCHANGED <<retries, due, ref, task, saved, exec, lost>>
        /\ status[j] = "cancel_requested" /\ status' = [status EXCEPT ![j] = "cancelled"]
        /\ Backtest!FinishAttempt(j, "cancelled")
    BY DEF Backtest!ClaimCancelled, Backtest!taskRows
  <1>2. /\ attempts' \in [Jobs -> Seq(Attempt)]
        /\ \A i \in Jobs : Len(attempts'[i]) = Len(attempts[i])
    BY <1>1, AttemptFinished DEF JobsInv, Attempt, Backtest!Terminal
  <1>3. QED BY <1>1, <1>2, StatusStep

\* A step that leaves the rows alone; executions may go.
LEMMA SameRows ==
    ASSUME BacktestsAssumption, JobsInv, NEW j \in Jobs,
           UNCHANGED <<status, retries, ref, attempts, task, saved>>,
           due' \subseteq Jobs, lost' \in 0 .. MaxLost,
           exec' \in [Executors -> Work \cup {Backtest!Idle}],
           \A e \in Executors : exec'[e] \in {exec[e], Backtest!Idle}
    PROVE  JobsInv'
  <1>1. /\ status'[j] = status[j] /\ retries'[j] = retries[j] /\ ref'[j] = ref[j]
        /\ attempts'[j] = attempts[j]
    OBVIOUS
  <1>2. status[j] = "succeeded" => /\ task[j][ref[j]] = "done" /\ ref[j] \in saved[j]
                                   /\ ref[j] = Len(attempts[j])
    BY DEF JobsInv, Backtest!SuccessIsReadable
  <1>3. \A e \in Executors : exec'[e].job = j => exec[e].job = j
    BY BacktestsAssumption DEF Backtest!Idle
  <1>4. \A e \in Executors : exec'[e].job = j =>
           status'[j] \in Live \cup {"cancelled"} /\ Len(attempts'[j]) = Len(attempts[j])
    BY <1>1, <1>3, RowFacts
  <1>5. /\ status' \in [Jobs -> {"absent", "queued", "running", "cancel_requested",
                                 "retry_wait"} \cup Backtest!Terminal]
        /\ retries' \in [Jobs -> 0 .. MaxRetries] /\ ref' \in [Jobs -> 0 .. MaxRetries + 1]
        /\ attempts' \in [Jobs -> Seq(Attempt)]
    BY RowFacts
  <1>6. /\ status'[j] \in {"absent", "queued"} => Len(attempts'[j]) = 0 /\ retries'[j] = 0
        /\ status'[j] \in Live => Len(attempts'[j]) = retries'[j] + 1
        /\ status'[j] = "retry_wait" => Len(attempts'[j]) = retries'[j]
        /\ Len(attempts'[j]) <= retries'[j] + 1
        /\ status'[j] = "succeeded" <=> ref'[j] # 0
    BY <1>1, RowFacts
  <1>7. status'[j] = "succeeded" => /\ task[j][ref'[j]] = "done" /\ ref'[j] \in saved[j]
                                    /\ ref'[j] = Len(attempts'[j])
    BY <1>1, <1>2
  <1>8. \A i \in Jobs \ {j} : /\ status'[i] = status[i] /\ retries'[i] = retries[i]
                              /\ ref'[i] = ref[i] /\ Len(attempts'[i]) = Len(attempts[i])
    OBVIOUS
  <1>9. QED BY <1>4, <1>5, <1>6, <1>7, <1>8, RowStep

LEMMA RetryDueStep ==
    ASSUME BacktestsAssumption, JobsInv, NEW j \in Jobs, Backtest!RetryDue(j)
    PROVE  JobsInv'
  <1>1. /\ UNCHANGED <<status, retries, ref, attempts, task, saved, exec, lost>>
        /\ status[j] = "retry_wait" /\ due' = due \cup {j}
    BY DEF Backtest!RetryDue, Backtest!taskRows
  <1>2. due' \subseteq Jobs BY <1>1, RowFacts
  <1>3. lost' \in 0 .. MaxLost /\ exec' \in [Executors -> Work \cup {Backtest!Idle}]
    BY <1>1, RowFacts
  <1>4. QED BY <1>1, <1>2, <1>3, SameRows

LEMMA LoseStep ==
    ASSUME BacktestsAssumption, JobsInv, NEW e \in Executors, Backtest!Lose(e)
    PROVE  JobsInv'
  <1>1. /\ UNCHANGED <<status, retries, due, ref, attempts, task, saved>>
        /\ AtWork(e) /\ lost < MaxLost /\ lost' = lost + 1
        /\ exec' = [exec EXCEPT ![e] = Backtest!Idle]
    BY DEF Backtest!Lose, Backtest!jobRow, Backtest!taskRows, Backtest!Release, AtWork
  <1>2. PICK j : j = exec[e].job OBVIOUS
  <1>3. j \in Jobs BY <1>1, <1>2, WorkFields DEF JobsInv
  <1>4. lost' \in 0 .. MaxLost BY <1>1, <1>3, RowFacts, BacktestsAssumption
  <1>5. exec' \in [Executors -> Work \cup {Backtest!Idle}] BY <1>1, <1>3, RowFacts
  <1>6. \A f \in Executors : exec'[f] \in {exec[f], Backtest!Idle} BY <1>1, <1>3, RowFacts
  <1>7. due' \subseteq Jobs BY <1>1, <1>3, RowFacts
  <1>8. QED BY <1>1, <1>3, <1>4, <1>5, <1>6, <1>7, SameRows

\* Whoever may claim a job finds nobody at work on it.
LEMMA ClaimStep ==
    ASSUME BacktestsAssumption, JobsInv, NEW e \in Executors, NEW j \in Jobs,
           Backtest!Claim(e, j)
    PROVE  JobsInv'
  <1>1. /\ ~AtWork(e) /\ status[j] \in {"queued", "retry_wait"}
        /\ status' = [status EXCEPT ![j] = "running"] /\ due' = due \ {j}
        /\ attempts' = [attempts EXCEPT ![j] = Append(attempts[j], "running")]
        /\ exec' = [exec EXCEPT ![e] = [job |-> j, n |-> retries[j] + 1,
                                        pc |-> "claimed", outcome |-> "none"]]
        /\ UNCHANGED <<retries, ref, task, saved, lost>>
    BY DEF Backtest!Claim, Backtest!Runnable, Backtest!taskRows, AtWork
  <1>2. PICK w : w = [job |-> j, n |-> retries[j] + 1, pc |-> "claimed", outcome |-> "none"]
    OBVIOUS
  <1>3. Len(attempts[j]) = retries[j] /\ retries[j] \in Nat /\ retries[j] <= MaxRetries
    BY <1>1, RowFacts
  <1>4. retries[j] + 1 \in Backtest!Numbers BY <1>3, BacktestsAssumption DEF Backtest!Numbers
  <1>5. w \in Work /\ w # Backtest!Idle
    BY <1>2, <1>4, BacktestsAssumption DEF Work, Backtest!Steps, Backtest!Outcomes, Backtest!Idle
  <1>6. exec' = [exec EXCEPT ![e] = w] /\ exec' \in [Executors -> Work \cup {Backtest!Idle}]
    BY <1>1, <1>2, <1>5, RowFacts
  <1>7. PICK s : s = Append(attempts[j], "running") OBVIOUS
  <1>8. s \in Seq(Attempt) /\ Len(s) = Len(attempts[j]) + 1
    BY <1>7, RowFacts, AppendProperties DEF Attempt
  <1>9. attempts' = [attempts EXCEPT ![j] = s] BY <1>1, <1>7
  <1>10. attempts' \in [Jobs -> Seq(Attempt)] /\ Len(attempts'[j]) = retries[j] + 1
    BY <1>3, <1>8, <1>9, RowFacts
  <1>11. \A i \in Jobs \ {j} : attempts'[i] = attempts[i] /\ status'[i] = status[i]
    BY <1>1, <1>9, RowFacts
  <1>12. status'[j] = "running" BY <1>1, RowFacts
  <1>13. \A f \in Executors : exec[f].job # j BY <1>1, RowFacts DEF Live
  <1>14. \A f \in Executors \ {e} : exec'[f] = exec[f] BY <1>6
  <1>15. exec'[e] = w BY <1>6, RowFacts
  <1>16. Backtest!TypeOK'
    <2>1. status' \in [Jobs -> {"absent", "queued", "running", "cancel_requested",
                                "retry_wait"} \cup Backtest!Terminal]
      BY <1>1, RowFacts
    <2>2. \A i \in Jobs : Len(attempts'[i]) <= MaxRetries + 1
      <3> TAKE i \in Jobs
      <3>1. CASE i = j BY <1>3, <1>10, <3>1, BacktestsAssumption
      <3>2. CASE i # j BY <1>11, <3>2 DEF JobsInv, Backtest!TypeOK
      <3>3. QED BY <3>1, <3>2
    <2>3. due' \subseteq Jobs BY <1>1, RowFacts
    <2>4. QED
      BY <1>1, <1>6, <1>10, <2>1, <2>2, <2>3 DEF JobsInv, Backtest!TypeOK, Work, Attempt,
         Backtest!Numbers, Backtest!Steps, Backtest!Outcomes, Backtest!Idle, Backtest!Terminal
  <1>17. AttemptsCounted'
    <2> SUFFICES ASSUME NEW i \in Jobs
                 PROVE  /\ status'[i] \in {"absent", "queued"} =>
                             Len(attempts'[i]) = 0 /\ retries'[i] = 0
                        /\ status'[i] \in Live => Len(attempts'[i]) = retries'[i] + 1
                        /\ status'[i] = "retry_wait" => Len(attempts'[i]) = retries'[i]
                        /\ Len(attempts'[i]) <= retries'[i] + 1
      BY DEF AttemptsCounted, Live
    <2>1. CASE i = j BY <1>1, <1>3, <1>10, <1>12, <2>1
    <2>2. CASE i # j BY <1>1, <1>11, <2>2 DEF JobsInv, AttemptsCounted
    <2>3. QED BY <2>1, <2>2
  <1>18. ExecutionsOwn'
    <2> SUFFICES ASSUME NEW f \in Executors, exec'[f] # Backtest!Idle
                 PROVE  /\ status'[exec'[f].job] \in Live \cup {"cancelled"}
                        /\ exec'[f].n = Len(attempts'[exec'[f].job])
                        /\ \A g \in Executors : exec'[g].job = exec'[f].job => g = f
      BY DEF ExecutionsOwn, AtWork, Live, Backtest!Idle
    <2>1. CASE f = e
      <3>1. exec'[f].job = j /\ exec'[f].n = retries[j] + 1 BY <1>2, <1>15, <2>1
      <3>2. \A g \in Executors : exec'[g].job = j => g = e BY <1>13, <1>14
      <3>3. QED BY <1>10, <1>12, <2>1, <3>1, <3>2 DEF Live
    <2>2. CASE f # e
      <3>1. PICK i : i = exec[f].job OBVIOUS
      <3>2. AtWork(f) /\ i \in Jobs /\ i # j BY <1>13, <1>14, <2>2, <3>1, WorkFields DEF JobsInv, AtWork
      <3>3. /\ status[i] \in Live \cup {"cancelled"} /\ exec[f].n = Len(attempts[i])
            /\ \A g \in Executors : exec[g].job = i => g = f
        BY <3>1, <3>2 DEF JobsInv, ExecutionsOwn
      <3>4. exec'[e].job = j BY <1>2, <1>15
      <3>5. \A g \in Executors : exec'[g].job = i => g = f BY <1>14, <3>2, <3>3, <3>4
      <3>6. QED BY <1>11, <1>14, <2>2, <3>1, <3>2, <3>3, <3>5
    <2>3. QED BY <2>1, <2>2
  <1>19. ReportsHold'
    <2> SUFFICES ASSUME NEW f \in Executors, exec'[f] # Backtest!Idle
                 PROVE  /\ exec'[f].pc = "saved" => exec'[f].n \in saved'[exec'[f].job]
                        /\ exec'[f].pc = "failing" => exec'[f].outcome \in {"failed", "retry"}
                        /\ exec'[f].pc = "finishing" => exec'[f].outcome # "none"
                        /\ exec'[f].pc \notin {"failing", "finishing"} =>
                             exec'[f].outcome = "none"
                        /\ exec'[f].outcome = "succeeded" =>
                             /\ exec'[f].n \in saved'[exec'[f].job]
                             /\ task'[exec'[f].job][exec'[f].n] = "done"
      BY DEF ReportsHold, AtWork, Backtest!Idle
    <2>1. CASE f = e
      <3>1. exec'[f].pc = "claimed" /\ exec'[f].outcome = "none" BY <1>2, <1>15, <2>1
      <3>2. QED BY <3>1
    <2>2. CASE f # e
      <3>1. exec'[f] = exec[f] /\ AtWork(f) BY <1>14, <2>2 DEF AtWork
      <3>2. QED BY <1>1, <3>1 DEF JobsInv, ReportsHold
    <2>3. QED BY <2>1, <2>2
  <1>20. Backtest!SuccessIsReadable'
    <2> SUFFICES ASSUME NEW i \in Jobs
                 PROVE  /\ status'[i] = "succeeded" <=> ref'[i] # 0
                        /\ status'[i] = "succeeded" =>
                             /\ task'[i][ref'[i]] = "done" /\ ref'[i] \in saved'[i]
                             /\ ref'[i] = Len(attempts'[i])
      BY DEF Backtest!SuccessIsReadable
    <2>1. CASE i = j BY <1>1, <1>12, <2>1, RowFacts
    <2>2. CASE i # j BY <1>1, <1>11, <2>2 DEF JobsInv, Backtest!SuccessIsReadable
    <2>3. QED BY <2>1, <2>2
  <1>21. QED BY <1>16, <1>17, <1>18, <1>19, <1>20 DEF JobsInv

-----------------------------------------------------------------------------
(* The end of an execution. *)

LEMMA FinishStep ==
    ASSUME BacktestsAssumption, JobsInv, NEW e \in Executors, Backtest!Finish(e)
    PROVE  JobsInv'
  <1>1. PICK j : j = exec[e].job OBVIOUS
  <1>2. /\ exec[e].pc = "finishing" /\ exec' = [exec EXCEPT ![e] = Backtest!Idle]
        /\ UNCHANGED <<due, task, saved, lost>>
        /\ Backtest!RetryLater(e, j) \/ Backtest!EndJob(e, j) \/ Backtest!NotMine(j)
    BY <1>1 DEF Backtest!Finish, Backtest!At, Backtest!Release, Backtest!taskRows
  <1>3. AtWork(e) BY <1>2, WorkFields DEF JobsInv
  <1>4. j \in Jobs /\ exec[e].outcome \in Backtest!Outcomes /\ exec[e].n \in Backtest!Numbers
    BY <1>1, <1>3, WorkFields DEF JobsInv
  <1>5. /\ exec[e].n = Len(attempts[j]) /\ exec[e].outcome # "none"
        /\ \A f \in Executors : exec[f].job = j => f = e
        /\ exec[e].outcome = "succeeded" => exec[e].n \in saved[j] /\ task[j][exec[e].n] = "done"
    BY <1>1, <1>2, <1>3 DEF JobsInv, ExecutionsOwn, ReportsHold
  <1>6. exec' \in [Executors -> Work \cup {Backtest!Idle}] BY <1>2, <1>4, RowFacts
  <1>7. \A f \in Executors : exec'[f] \in {exec[f], Backtest!Idle} BY <1>2, <1>4, RowFacts
  <1>8. exec'[e] = Backtest!Idle BY <1>2, <1>4, RowFacts
  <1>9. \A f \in Executors : exec'[f].job # j
    BY <1>4, <1>5, <1>7, <1>8, BacktestsAssumption DEF Backtest!Idle
  <1>10. CASE Backtest!RetryLater(e, j)
    <2>1. /\ status[j] = "running" /\ retries[j] < MaxRetries
          /\ status' = [status EXCEPT ![j] = "retry_wait"]
          /\ retries' = [retries EXCEPT ![j] = retries[j] + 1] /\ ref' = ref
      BY <1>10 DEF Backtest!RetryLater, Backtest!MayRetry
    <2>2. /\ attempts' \in [Jobs -> Seq(Attempt)]
          /\ \A i \in Jobs : Len(attempts'[i]) = Len(attempts[i])
      BY <1>4, <1>10, AttemptFinished DEF JobsInv, Attempt, Backtest!RetryLater
    <2>3. retries[j] + 1 \in 0 .. MaxRetries BY <1>4, <2>1, RowFacts, BacktestsAssumption
    <2>4. retries' \in [Jobs -> 0 .. MaxRetries] /\ retries'[j] = retries[j] + 1
      BY <1>4, <2>1, <2>3, RowFacts
    <2>5. status' \in [Jobs -> {"absent", "queued", "running", "cancel_requested",
                                "retry_wait"} \cup Backtest!Terminal]
          /\ status'[j] = "retry_wait"
      BY <1>4, <2>1, RowFacts
    <2>6. Len(attempts'[j]) = retries'[j] /\ retries'[j] \in Nat
      BY <1>4, <2>1, <2>2, <2>3, <2>4, RowFacts DEF Live
    <2>7. ref[j] = 0 BY <1>4, <2>1, RowFacts
    <2>8. /\ due' \subseteq Jobs /\ lost' \in 0 .. MaxLost
          /\ ref' \in [Jobs -> 0 .. MaxRetries + 1] /\ ref'[j] = 0
      BY <1>2, <1>4, <2>1, <2>7, RowFacts
    <2>9. \A i \in Jobs \ {j} : /\ status'[i] = status[i] /\ retries'[i] = retries[i]
                                /\ ref'[i] = ref[i] /\ Len(attempts'[i]) = Len(attempts[i])
      BY <2>1, <2>2
    <2>10. /\ status'[j] \notin Live \cup {"absent", "queued", "succeeded"}
           /\ Len(attempts'[j]) <= retries'[j] + 1
      BY <2>5, <2>6 DEF Live
    <2>11. QED BY <1>2, <1>4, <1>6, <1>7, <1>9, <2>2, <2>4, <2>5, <2>6, <2>8, <2>9, <2>10, RowStep
  <1>11. CASE Backtest!EndJob(e, j)
    <2>1. PICK final : final = Backtest!Final(status[j],
                          IF exec[e].outcome = "retry" THEN "failed" ELSE exec[e].outcome)
      OBVIOUS
    <2>2. /\ status[j] \in Live /\ status' = [status EXCEPT ![j] = final]
          /\ Backtest!FinishAttempt(j, final) /\ retries' = retries
          /\ ref' = [ref EXCEPT ![j] = IF final = "succeeded" THEN exec[e].n ELSE 0]
      BY <1>11, <2>1 DEF Backtest!EndJob, Live
    <2>3. final \in Backtest!Terminal /\ (final = "succeeded" => exec[e].outcome = "succeeded")
      BY <1>4, <1>5, <2>1 DEF Backtest!Final, Backtest!Terminal, Backtest!Outcomes
    <2>4. /\ attempts' \in [Jobs -> Seq(Attempt)]
          /\ \A i \in Jobs : Len(attempts'[i]) = Len(attempts[i])
      BY <1>4, <2>2, <2>3, AttemptFinished DEF JobsInv, Attempt
    <2>5. status' \in [Jobs -> {"absent", "queued", "running", "cancel_requested",
                                "retry_wait"} \cup Backtest!Terminal]
          /\ status'[j] = final
      BY <1>4, <2>2, <2>3, RowFacts
    <2>6. exec[e].n \in 0 .. MaxRetries + 1 /\ exec[e].n # 0
      BY <1>4, BacktestsAssumption DEF Backtest!Numbers
    <2>7. /\ ref' \in [Jobs -> 0 .. MaxRetries + 1]
          /\ ref'[j] = IF final = "succeeded" THEN exec[e].n ELSE 0
          /\ \A i \in Jobs \ {j} : ref'[i] = ref[i]
      BY <1>4, <2>2, <2>6, RowFacts, BacktestsAssumption
    <2>8. status'[j] = "succeeded" <=> ref'[j] # 0 BY <2>5, <2>6, <2>7
    <2>9. status'[j] = "succeeded" => /\ task[j][ref'[j]] = "done" /\ ref'[j] \in saved[j]
                                      /\ ref'[j] = Len(attempts'[j])
      BY <1>4, <1>5, <2>3, <2>4, <2>5, <2>7
    <2>10. status'[j] \notin Live \cup {"absent", "queued", "retry_wait"}
      BY <2>3, <2>5 DEF Live, Backtest!Terminal
    <2>11. Len(attempts'[j]) <= retries'[j] + 1 BY <1>4, <2>2, <2>4, RowFacts
    <2>12. \A i \in Jobs \ {j} : status'[i] = status[i] BY <2>2
    <2>13. QED BY <1>2, <1>4, <1>6, <1>7, <1>9, <2>2, <2>4, <2>5, <2>7, <2>8, <2>9, <2>10, <2>11, <2>12, RowFacts, RowStep
  <1>12. CASE Backtest!NotMine(j)
    <2>1. UNCHANGED <<status, retries, ref, attempts>> BY <1>12 DEF Backtest!NotMine
    <2>2. due' \subseteq Jobs /\ lost' \in 0 .. MaxLost BY <1>2, <1>4, RowFacts
    <2>3. QED BY <1>2, <1>4, <1>6, <1>7, <2>1, <2>2, SameRows
  <1>13. QED BY <1>2, <1>10, <1>11, <1>12

-----------------------------------------------------------------------------
(* The theorems. *)

LEMMA JobsStep ==
    ASSUME BacktestsAssumption, JobsInv, Backtest!Next
    PROVE  JobsInv'
  <1>1. ASSUME NEW j \in Jobs,
               Backtest!Enqueue(j) \/ Backtest!RequestCancel(j) \/ Backtest!RetryDue(j)
        PROVE  JobsInv'
    BY <1>1, EnqueueStep, RequestCancelStep, RetryDueStep
  <1>2. ASSUME NEW e \in Executors, NEW j \in Jobs,
               Backtest!Claim(e, j) \/ Backtest!ClaimCancelled(e, j)
        PROVE  JobsInv'
    BY <1>2, ClaimStep, ClaimCancelledStep
  <1>3. ASSUME NEW e \in Executors, Backtest!Execute(e) \/ Backtest!Lose(e)
        PROVE  JobsInv'
    BY <1>3, StepsAtWork, FinishStep, LoseStep DEF Backtest!Execute
  <1>4. QED BY <1>1, <1>2, <1>3 DEF Backtest!Next

LEMMA JobsRest ==
    ASSUME JobsInv, UNCHANGED backtestVars
    PROVE  JobsInv'
  BY DEF JobsInv, backtestVars, Backtest!TypeOK, AttemptsCounted, ExecutionsOwn, ReportsHold,
     Backtest!SuccessIsReadable, AtWork, Live, Backtest!Idle, Backtest!Numbers,
     Backtest!Steps, Backtest!Outcomes, Backtest!Terminal

\* The invariant says what the rows promise to whoever reads them.
LEMMA JobsInvImplies ==
    ASSUME JobsInv
    PROVE  ResultsBelongToTheirAttempt
  <1>1. Backtest!NewestAttemptIsMine
    <2> SUFFICES ASSUME NEW e \in Executors, NEW f \in Executors, AtWork(e)
                 PROVE  /\ exec[e].n = Len(attempts[exec[e].job])
                        /\ AtWork(f) /\ exec[f].job = exec[e].job => e = f
      BY DEF Backtest!NewestAttemptIsMine, AtWork
    <2>1. QED BY DEF JobsInv, ExecutionsOwn
  <1>2. QED BY <1>1 DEF JobsInv, ResultsBelongToTheirAttempt, Backtest!ResultsBelongToTheirAttempt

LEMMA TrialsInv == TrialsSpec => []JobsInv
  <1>1. TrialsInit => JobsInv BY JobsInit, BacktestsAssumption DEF TrialsInit
  <1>2. JobsInv /\ [TrialsNext]_trialVars => JobsInv'
    BY JobsStep, JobsRest, BacktestsAssumption DEF TrialsNext, trialVars
  <1>3. QED BY <1>1, <1>2, PTL DEF TrialsSpec

\* No two executions of a backtest ever work on one job, and a job that says
\* 'succeeded' names an attempt whose result can be read, although an execution
\* holds no lease and writes in four transactions: the status decides who may
\* claim, and nobody can claim what somebody still works on (backtest/jobs.py).
THEOREM ResultsAlwaysBelong == TrialsSpec => []ResultsBelongToTheirAttempt
  BY TrialsInv, JobsInvImplies, PTL

\* A cancellation that was accepted wins over whatever the execution reports,
\* and no job that has ended is touched again (_finish_in_transaction).
THEOREM CancelAlwaysWins == TrialsSpec => CancelWins
  <1> DEFINE
    Wins == \A j \in Jobs :
        /\ status[j] = "cancel_requested" => status'[j] \in {"cancel_requested", "cancelled"}
        /\ status[j] \in Backtest!Terminal =>
              <<status'[j], ref'[j], attempts'[j]>> = <<status[j], ref[j], attempts[j]>>
  <1>1. ASSUME JobsInv, Backtest!Next PROVE Wins
    <2>1. status \in [Jobs -> {"absent", "queued", "running", "cancel_requested",
                               "retry_wait"} \cup Backtest!Terminal]
          /\ ref \in [Jobs -> 0 .. MaxRetries + 1] /\ attempts \in [Jobs -> Seq(Attempt)]
      BY <1>1 DEF JobsInv, Backtest!TypeOK, Attempt
    \* Only the row of a job that has not ended is written.
    <2>2. ASSUME NEW j \in Jobs, status[j] \notin Backtest!Terminal,
                 status[j] = "cancel_requested" =>
                    status'[j] \in {"cancel_requested", "cancelled"},
                 \A i \in Jobs \ {j} : /\ status'[i] = status[i] /\ ref'[i] = ref[i]
                                       /\ attempts'[i] = attempts[i]
          PROVE  Wins
      BY <2>2 DEF Backtest!Terminal
    <2>3. \A j \in Jobs : \A o : Backtest!FinishAttempt(j, o) =>
             \A i \in Jobs \ {j} : attempts'[i] = attempts[i]
      BY <2>1 DEF Backtest!FinishAttempt
    <2>4. UNCHANGED <<status, ref, attempts>> => Wins BY DEF Backtest!Terminal
    <2> HIDE DEF Wins
    <2>5. ASSUME NEW j \in Jobs,
                 Backtest!Enqueue(j) \/ Backtest!RequestCancel(j) \/ Backtest!RetryDue(j)
          PROVE  Wins
      <3>1. CASE Backtest!Enqueue(j)
        BY <2>1, <2>2, <3>1 DEF Backtest!Enqueue, Backtest!Terminal
      <3>2. CASE Backtest!RequestCancel(j)
        BY <2>1, <2>2, <2>3, <3>2 DEF Backtest!RequestCancel, Backtest!Terminal
      <3>3. CASE Backtest!RetryDue(j) BY <2>4, <3>3 DEF Backtest!RetryDue
      <3>4. QED BY <2>5, <3>1, <3>2, <3>3
    <2>6. ASSUME NEW e \in Executors, NEW j \in Jobs,
                 Backtest!Claim(e, j) \/ Backtest!ClaimCancelled(e, j)
          PROVE  Wins
      <3>1. CASE Backtest!Claim(e, j)
        BY <2>1, <2>2, <3>1 DEF Backtest!Claim, Backtest!Runnable, Backtest!Terminal
      <3>2. CASE Backtest!ClaimCancelled(e, j)
        BY <2>1, <2>2, <2>3, <3>2 DEF Backtest!ClaimCancelled, Backtest!Terminal
      <3>3. QED BY <2>6, <3>1, <3>2
    <2>7. ASSUME NEW e \in Executors, Backtest!Execute(e) \/ Backtest!Lose(e)
          PROVE  Wins
      <3>1. CASE Backtest!Finish(e)
        <4>1. PICK j : j = exec[e].job OBVIOUS
        <4>2. /\ exec[e].pc = "finishing"
              /\ Backtest!RetryLater(e, j) \/ Backtest!EndJob(e, j) \/ Backtest!NotMine(j)
          BY <3>1, <4>1 DEF Backtest!Finish, Backtest!At
        <4>3. j \in Jobs BY <1>1, <4>1, <4>2, WorkFields DEF JobsInv
        <4>4. CASE Backtest!RetryLater(e, j)
          BY <2>1, <2>2, <2>3, <4>3, <4>4 DEF Backtest!RetryLater, Backtest!Terminal
        <4>5. CASE Backtest!EndJob(e, j)
          BY <2>1, <2>2, <2>3, <4>3, <4>5 DEF Backtest!EndJob, Backtest!Final, Backtest!Terminal
        <4>6. CASE Backtest!NotMine(j) BY <2>4, <4>6 DEF Backtest!NotMine
        <4>7. QED BY <4>2, <4>4, <4>5, <4>6
      <3>2. CASE ~Backtest!Finish(e)
        BY <2>4, <2>7, <3>2 DEF Backtest!Execute, Backtest!CheckLock, Backtest!Progress,
           Backtest!CreateTask, Backtest!StartTask, Backtest!RunAndSave, Backtest!FinishTask,
           Backtest!FailTask, Backtest!JobsUnchanged, Backtest!jobRow, Backtest!Lose
      <3>3. QED BY <3>1, <3>2
    <2>8. QED BY <1>1, <2>5, <2>6, <2>7 DEF Backtest!Next
  <1>2. JobsInv /\ [TrialsNext]_trialVars => [Wins]_(Backtest!vars)
    BY <1>1 DEF TrialsNext, trialVars, backtestVars, Backtest!vars, Backtest!jobRow,
       Backtest!taskRows
  <1>3. QED BY <1>2, TrialsInv, PTL DEF TrialsSpec, CancelWins, Backtest!CancelWins

-----------------------------------------------------------------------------
(* Sums over finite sets of orders.  SumFunctionOnSet chooses a recursive  *)
(* function on the subsets; that there is one, and what it gives when an   *)
(* element is taken away, is shown with a smallest counterexample.         *)

Pick(s) == CHOOSE x \in s : TRUE
But(s) == s \ {Pick(s)}
Sum(F, S) == SumFunctionOnSet(F, S)

\* The equation of the recursive function that a sum over S is a value of.
SumsUp(F, S, g) == g = [s \in SUBSET S |-> IF s = {} THEN 0 ELSE F[Pick(s)] + g[But(s)]]
Sums(F, S) == CHOOSE g : SumsUp(F, S, g)

LEMMA SumDef == ASSUME NEW F, NEW S  PROVE Sum(F, S) = Sums(F, S)[S]
  BY DEF Sum, SumFunctionOnSet, FoldFunctionOnSet, MapThenFoldSet, Sums, SumsUp, Pick, But

\* Induction over finite sets, as a smallest counterexample.
LEMMA SmallestSet ==
    ASSUME NEW S, IsFiniteSet(S), NEW B \in SUBSET (SUBSET S), B # {}
    PROVE  \E t \in B : \A u \in SUBSET t : u # t => u \notin B
  <1>1. PICK T : T = {Cardinality(t) : t \in B}
    OBVIOUS
  <1>2. \A t \in SUBSET S : IsFiniteSet(t) /\ Cardinality(t) \in Nat
    BY FS_Subset, FS_CardinalityType
  <1>3. T \in SUBSET Nat /\ T # {}
    BY <1>1, <1>2
  <1>4. PICK x \in T : \A y \in T : <<y, x>> \notin OpToRel(<, Nat)
    BY <1>3, WFMin, NatLessThanWellFounded, Zenon
  <1>5. \A y \in T : ~ (y < x)
    BY <1>3, <1>4, Zenon DEF OpToRel
  <1>6. PICK t \in B : x = Cardinality(t)
    BY <1>1, <1>4
  <1>7. ASSUME NEW u \in SUBSET t, u # t  PROVE u \notin B
    <2>1. Cardinality(u) < Cardinality(t)
      BY <1>2, <1>7, FS_Subset
    <2> QED  BY <1>1, <1>5, <1>6, <2>1
  <1> QED  BY <1>6, <1>7

LEMMA PickBut == ASSUME NEW s, s # {}
                 PROVE  Pick(s) \in s /\ But(s) \in SUBSET s /\ But(s) # s /\ But(s) = s \ {Pick(s)}
  BY DEF Pick, But

LEMMA SumsAgree ==
    ASSUME NEW F, NEW S, IsFiniteSet(S), NEW T \in SUBSET S, NEW g, NEW h,
           SumsUp(F, S, g), SumsUp(F, T, h)
    PROVE  \A t \in SUBSET T : g[t] = h[t]
  <1> SUFFICES ASSUME ~ \A t \in SUBSET T : g[t] = h[t]  PROVE FALSE
    OBVIOUS
  <1>1. PICK B : B = {t \in SUBSET T : g[t] # h[t]}
    OBVIOUS
  <1>2. B \in SUBSET (SUBSET S) /\ B # {}
    BY <1>1
  <1>3. PICK t \in B : \A u \in SUBSET t : u # t => u \notin B
    BY <1>2, SmallestSet
  <1>4. t \in SUBSET T /\ t \in SUBSET S /\ g[t] # h[t]
    BY <1>1
  <1>5. /\ g[t] = IF t = {} THEN 0 ELSE F[Pick(t)] + g[But(t)]
        /\ h[t] = IF t = {} THEN 0 ELSE F[Pick(t)] + h[But(t)]
    BY <1>4 DEF SumsUp
  <1>6. t # {}
    BY <1>4, <1>5
  <1>7. But(t) \in SUBSET T /\ But(t) \notin B
    BY <1>3, <1>4, <1>6, PickBut
  <1> QED  BY <1>1, <1>4, <1>5, <1>7

LEMMA SumsExist == ASSUME NEW F, NEW S, IsFiniteSet(S)  PROVE SumsUp(F, S, Sums(F, S))
  <1> SUFFICES ASSUME ~ SumsUp(F, S, Sums(F, S))  PROVE FALSE
    OBVIOUS
  <1>1. PICK B : B = {s \in SUBSET S : ~ SumsUp(F, s, Sums(F, s))}
    OBVIOUS
  <1>2. B \in SUBSET (SUBSET S) /\ B # {}
    BY <1>1
  <1>3. PICK s \in B : \A u \in SUBSET s : u # s => u \notin B
    BY <1>2, SmallestSet
  <1>4. s \in SUBSET S /\ ~ SumsUp(F, s, Sums(F, s)) /\ IsFiniteSet(s)
    BY <1>1, FS_Subset
  <1>5. \A u \in SUBSET s : u # s => SumsUp(F, u, Sums(F, u))
    BY <1>1, <1>3, <1>4
  <1>6. PICK G : G = [t \in SUBSET s |->
                        IF t = {} THEN 0 ELSE F[Pick(t)] + Sums(F, But(t))[But(t)]]
    OBVIOUS
  <1>7. ASSUME NEW u \in SUBSET s, u # s  PROVE G[u] = Sums(F, u)[u]
    <2>1. Sums(F, u)[u] = IF u = {} THEN 0 ELSE F[Pick(u)] + Sums(F, u)[But(u)]
      BY <1>5, <1>7 DEF SumsUp
    <2>2. CASE u # {}
      <3>1. But(u) \in SUBSET u /\ But(u) \in SUBSET s /\ But(u) # s
        BY <1>7, <2>2, PickBut
      <3>2. SumsUp(F, u, Sums(F, u)) /\ SumsUp(F, But(u), Sums(F, But(u))) /\ IsFiniteSet(u)
        BY <1>4, <1>5, <1>7, <3>1, FS_Subset
      <3>3. Sums(F, u)[But(u)] = Sums(F, But(u))[But(u)]
        BY <3>1, <3>2, SumsAgree
      <3> QED  BY <1>6, <2>1, <2>2, <3>3
    <2> QED  BY <1>6, <2>1, <2>2
  <1>8. \A t \in SUBSET s : t # {} => G[But(t)] = Sums(F, But(t))[But(t)]
    BY <1>7, PickBut
  <1>9. SumsUp(F, s, G)
    BY <1>6, <1>8 DEF SumsUp
  <1> QED  BY <1>4, <1>9 DEF Sums

LEMMA SumEmpty == ASSUME NEW F  PROVE Sum(F, {}) = 0
  <1>1. SumsUp(F, {}, Sums(F, {}))
    BY SumsExist, FS_EmptySet
  <1> QED  BY <1>1, SumDef DEF SumsUp

LEMMA SumPick ==
    ASSUME NEW F, NEW S, IsFiniteSet(S), S # {}
    PROVE  Sum(F, S) = F[Pick(S)] + Sum(F, But(S))
  <1>1. But(S) \in SUBSET S /\ IsFiniteSet(But(S))
    BY PickBut, FS_Subset
  <1>2. SumsUp(F, S, Sums(F, S)) /\ SumsUp(F, But(S), Sums(F, But(S)))
    BY <1>1, SumsExist
  <1>3. Sums(F, S)[But(S)] = Sums(F, But(S))[But(S)]
    BY <1>1, <1>2, SumsAgree
  <1>4. Sums(F, S)[S] = F[Pick(S)] + Sums(F, S)[But(S)]
    BY <1>2 DEF SumsUp
  <1> QED  BY <1>3, <1>4, SumDef

LEMMA SumInt ==
    ASSUME NEW F, NEW S, IsFiniteSet(S), \A x \in S : F[x] \in Int
    PROVE  Sum(F, S) \in Int
  <1> SUFFICES ASSUME Sum(F, S) \notin Int  PROVE FALSE
    OBVIOUS
  <1>1. PICK B : B = {s \in SUBSET S : Sum(F, s) \notin Int}
    OBVIOUS
  <1>2. B \in SUBSET (SUBSET S) /\ B # {}
    BY <1>1
  <1>3. PICK s \in B : \A u \in SUBSET s : u # s => u \notin B
    BY <1>2, SmallestSet
  <1>4. s \in SUBSET S /\ Sum(F, s) \notin Int /\ IsFiniteSet(s)
    BY <1>1, FS_Subset
  <1>5. s # {}
    BY <1>4, SumEmpty
  <1>6. Pick(s) \in S /\ But(s) \in SUBSET S /\ But(s) \notin B
    BY <1>3, <1>4, <1>5, PickBut
  <1>7. Sum(F, But(s)) \in Int /\ F[Pick(s)] \in Int
    BY <1>1, <1>6
  <1> QED  BY <1>4, <1>5, <1>7, SumPick

\* Any member may be taken out.
LEMMA SumTake ==
    ASSUME NEW F, NEW S, IsFiniteSet(S), \A x \in S : F[x] \in Int, NEW y \in S
    PROVE  Sum(F, S) = F[y] + Sum(F, S \ {y})
  <1> DEFINE splits(s) == \A x \in s : Sum(F, s) = F[x] + Sum(F, s \ {x})
  <1> SUFFICES ASSUME ~ splits(S)  PROVE FALSE
    OBVIOUS
  <1> HIDE DEF splits
  <1>1. PICK B : B = {s \in SUBSET S : ~ splits(s)}
    OBVIOUS
  <1>2. B \in SUBSET (SUBSET S) /\ B # {}
    BY <1>1
  <1>3. PICK s \in B : \A u \in SUBSET s : u # s => u \notin B
    BY <1>2, SmallestSet
  <1>4. s \in SUBSET S /\ ~ splits(s)
    BY <1>1
  <1>5. \A u \in SUBSET s : u # s => splits(u)
    BY <1>1, <1>3, <1>4
  <1>6. \A u \in SUBSET s : IsFiniteSet(u) /\ Sum(F, u) \in Int
    BY <1>4, FS_Subset, SumInt
  <1>7. PICK x \in s : Sum(F, s) # F[x] + Sum(F, s \ {x})
    BY <1>4 DEF splits
  <1>8. PICK p : p = Pick(s)
    OBVIOUS
  <1>9. p \in s /\ s # {} /\ IsFiniteSet(s) /\ But(s) = s \ {p}
    BY <1>6, <1>7, <1>8, PickBut
  <1>10. Sum(F, s) = F[p] + Sum(F, s \ {p})
    BY <1>8, <1>9, SumPick
  <1>11. x # p
    BY <1>7, <1>10
  <1>12. splits(s \ {p}) /\ splits(s \ {x})
    BY <1>5, <1>7, <1>9
  <1>13. PICK rest : rest = (s \ {p}) \ {x}
    OBVIOUS
  <1>14. rest = (s \ {x}) \ {p} /\ rest \in SUBSET s
    BY <1>13
  <1>15. Sum(F, s \ {p}) = F[x] + Sum(F, rest) /\ Sum(F, s \ {x}) = F[p] + Sum(F, rest)
    BY <1>7, <1>9, <1>11, <1>12, <1>13, <1>14 DEF splits
  <1>16. F[x] \in Int /\ F[p] \in Int /\ Sum(F, rest) \in Int
    BY <1>4, <1>6, <1>7, <1>9, <1>14
  <1>17. Sum(F, s) = F[x] + Sum(F, s \ {x})
    BY <1>10, <1>15, <1>16
  <1> QED  BY <1>7, <1>17

\* Sums compare as their members do.
LEMMA SumCompare ==
    ASSUME NEW F, NEW G, NEW S, IsFiniteSet(S),
           \A x \in S : F[x] \in Int /\ G[x] \in Int
    PROVE  /\ (\A x \in S : F[x] = G[x]) => Sum(F, S) = Sum(G, S)
           /\ (\A x \in S : F[x] <= G[x]) => Sum(F, S) <= Sum(G, S)
  <1> DEFINE Bad(s) == \/ (\A x \in S : F[x] = G[x]) /\ Sum(F, s) # Sum(G, s)
                       \/ (\A x \in S : F[x] <= G[x]) /\ ~ (Sum(F, s) <= Sum(G, s))
  <1> SUFFICES ASSUME Bad(S)  PROVE FALSE
    OBVIOUS
  <1>1. PICK B : B = {s \in SUBSET S : Bad(s)}
    OBVIOUS
  <1>2. B \in SUBSET (SUBSET S) /\ B # {}
    BY <1>1
  <1>3. PICK s \in B : \A u \in SUBSET s : u # s => u \notin B
    BY <1>2, SmallestSet
  <1>4. s \in SUBSET S /\ Bad(s) /\ IsFiniteSet(s)
    BY <1>1, FS_Subset
  <1>5. s # {}
    BY <1>4, SumEmpty
  <1>6. PICK p : p = Pick(s)
    OBVIOUS
  <1>7. PICK rest : rest = But(s)
    OBVIOUS
  <1>8. p \in S /\ rest \in SUBSET S /\ ~ Bad(rest) /\ IsFiniteSet(rest)
    BY <1>1, <1>3, <1>4, <1>5, <1>6, <1>7, PickBut, FS_Subset
  <1>9. Sum(F, s) = F[p] + Sum(F, rest) /\ Sum(G, s) = G[p] + Sum(G, rest)
    BY <1>4, <1>5, <1>6, <1>7, SumPick
  <1>10. PICK f \in Int, g \in Int, sf \in Int, sg \in Int :
            f = F[p] /\ g = G[p] /\ sf = Sum(F, rest) /\ sg = Sum(G, rest)
    BY <1>8, SumInt
  <1>11. CASE (\A x \in S : F[x] = G[x]) /\ Sum(F, s) # Sum(G, s)
    BY <1>8, <1>9, <1>10, <1>11
  <1>12. CASE (\A x \in S : F[x] <= G[x]) /\ ~ (Sum(F, s) <= Sum(G, s))
    <2>1. sf <= sg /\ f <= g
      BY <1>8, <1>10, <1>12
    <2>2. Sum(F, s) = f + sf /\ Sum(G, s) = g + sg
      BY <1>9, <1>10
    <2>3. f + sf <= g + sg
      BY <2>1
    <2> QED  BY <1>12, <2>2, <2>3
  <1> QED  BY <1>4, <1>11, <1>12


-----------------------------------------------------------------------------
(* The invariant of the ledger. *)

PositionRow == [total : Nat \ {0}, available : Nat, value : Nat]
OrderRow == [status : {"SUBMITTED", "FILLED", "CANCELLED"}, side : {"BUY", "SELL"},
             price : Nat, day : Nat]
Transaction == [pc : {"idle", "checked", "read", "written", "done", "failed"},
                side : {"BUY", "SELL"}, price : Nat,
                seen : PositionRow \cup {None}, row : PositionRow \cup {None}]
Pass == [pc : {"idle", "rows", "summed"}, todo : SUBSET Stocks, seen : [Stocks -> Nat],
         value : [Stocks -> Nat \cup {None}], assets : Int]
Submitting == {"checked", "read", "written"}

LedgerTypes ==
    /\ day \in 1 .. MaxDay
    /\ held \in [Stocks -> Nat]
    /\ order \in [Orders -> OrderRow \cup {None}]
    /\ position \in [Stocks -> PositionRow \cup {None}]
    /\ cash \in Int /\ assets \in Int
    /\ sess \in [Orders -> Transaction]
    /\ sync \in Pass
    /\ release = None \/ release \subseteq Stocks

RowsDated ==
    \A o \in Orders :
        /\ order[o] # None => /\ order[o].price \in Prices \cup {0}
                              /\ order[o].day \in 1 .. day
                              /\ sess[o].pc = "done"
        /\ sess[o].pc \in Submitting => sess[o].price \in Prices

\* A row that the valuation has written is there, and no order has it.
RowsLocked ==
    \A x \in Stocks : sync.value[x] # None =>
        /\ position[x] # None
        /\ \A o \in Orders : sess[o].pc = "written" => StockOf[o] # x

\* What an order that has not been overtaken has seen of its position, and
\* what it has made of it.
Sees(o) ==
    LET now == position[StockOf[o]]  seen == sess[o].seen IN
    /\ seen = None <=> now = None
    /\ seen # None => seen.total = now.total /\ seen.available <= now.available

Leaves(o) ==
    LET x == StockOf[o]  row == sess[o].row IN
    IF Selling(o)
    THEN IF row = None THEN Total(x) <= Quantity
         ELSE row.total = Total(x) - Quantity /\ row.available <= Available(x) - Quantity
    ELSE row # None /\ row.total = Total(x) + Quantity /\ row.available = Available(x)

Undisturbed ==
    \A o \in Orders : sess[o].pc \in Submitting /\ o \notin overtaken =>
        /\ IF Selling(o) THEN Available(StockOf[o]) >= Quantity ELSE cash >= Amount(o) + Fee
        /\ sess[o].pc = "read" => Sees(o)
        /\ sess[o].pc = "written" => Leaves(o)

\* Stocks in which no orders overlapped.
Calm(x) == {o \in overtaken : StockOf[o] = x} = {}

\* All that was filled before a day, and what was sold on it.
SellableRows(x, d) == {o \in FilledIn(x) : order[o].day < d}
                         \cup {o \in Sales(FilledIn(x)) : order[o].day = d}

\* Until a release unlocks a purchase, no more can be sold than was there.
PurchasesLocked ==
    \A x \in Stocks : Calm(x) /\ <<day, x>> \notin unlocked =>
        Available(x) <= held[x] + Shares(SellableRows(x, day))

LedgerInv ==
    /\ LedgerTypes /\ RowsDated /\ RowsLocked /\ Undisturbed /\ PurchasesLocked
    /\ CashMatchesOrders /\ SerialOrdersAddUp /\ SameDaySaleHasACause

LEMMA LedgerInvImplies == ASSUME LedgerInv  PROVE BooksAddUp
  <1>1. TypeOK
    BY DEF LedgerInv, LedgerTypes, RowsDated, TypeOK, OrderRow, PositionRow, Transaction, Pass
  <1> QED  BY <1>1 DEF LedgerInv, BooksAddUp

LEMMA NoRow == None \notin PositionRow /\ None \notin OrderRow
  BY NoneAssumption DEF PositionRow, OrderRow

\* What a stock has, of all and sellable.
LEMMA StockFacts ==
    ASSUME LedgerTypes, NEW x \in Stocks
    PROVE  /\ Total(x) \in Nat /\ Available(x) \in Nat
           /\ position[x] # None => /\ position[x] \in PositionRow
                                    /\ Total(x) = position[x].total /\ Total(x) > 0
                                    /\ Available(x) = position[x].available
           /\ position[x] = None => Total(x) = 0 /\ Available(x) = 0
  BY DEF LedgerTypes, PositionRow, Total, Available

-----------------------------------------------------------------------------
(* Shares of a set of filled orders. *)

Lot(os, sales) == Quantity * (Cardinality(os \ sales) - Cardinality(sales))

LEMMA LotInt ==
    ASSUME NEW os \in SUBSET Orders, NEW sales \in SUBSET os
    PROVE  /\ Lot(os, sales) \in Int
           /\ IsFiniteSet(os \ sales) /\ IsFiniteSet(sales)
           /\ Cardinality(os \ sales) \in Nat /\ Cardinality(sales) \in Nat
  <1>1. os \ sales \in SUBSET Orders /\ sales \in SUBSET Orders
    OBVIOUS
  <1>2. /\ IsFiniteSet(os \ sales) /\ IsFiniteSet(sales)
        /\ Cardinality(os \ sales) \in Nat /\ Cardinality(sales) \in Nat
    BY <1>1, FiniteAssumption, FS_Subset, FS_CardinalityType
  <1> QED  BY <1>2, QuantityAssumption DEF Lot

LEMMA LotBuy ==
    ASSUME NEW os \in SUBSET Orders, NEW sales \in SUBSET os, NEW o \in Orders, o \notin os
    PROVE  Lot(os \cup {o}, sales) = Lot(os, sales) + Quantity
  <1>1. PICK b, s : b = Cardinality(os \ sales) /\ s = Cardinality(sales)
    OBVIOUS
  <1>2. b \in Nat /\ s \in Nat /\ IsFiniteSet(os \ sales)
    BY <1>1, LotInt
  <1>3. (os \cup {o}) \ sales = (os \ sales) \cup {o} /\ o \notin os \ sales
    OBVIOUS
  <1>4. Cardinality((os \cup {o}) \ sales) = b + 1
    BY <1>1, <1>2, <1>3, FS_AddElement
  <1>5. Lot(os, sales) = Quantity * (b - s)
    BY <1>1 DEF Lot
  <1>6. Lot(os \cup {o}, sales) = Quantity * (b + 1 - s)
    <2>1. Lot(os \cup {o}, sales) =
             Quantity * (Cardinality((os \cup {o}) \ sales) - Cardinality(sales))
      BY DEF Lot
    <2>2. PICK c : c = Cardinality((os \cup {o}) \ sales)
      OBVIOUS
    <2>3. Lot(os \cup {o}, sales) = Quantity * (c - s)
      BY <1>1, <2>1, <2>2, Zenon
    <2>4. c = b + 1
      BY <1>4, <2>2, Zenon
    <2> QED  BY <1>2, <2>3, <2>4, QuantityAssumption
  <1> QED  BY <1>2, <1>5, <1>6, QuantityAssumption

LEMMA LotSell ==
    ASSUME NEW os \in SUBSET Orders, NEW sales \in SUBSET os, NEW o \in Orders, o \notin os
    PROVE  Lot(os \cup {o}, sales \cup {o}) = Lot(os, sales) - Quantity
  <1>1. PICK b, s : b = Cardinality(os \ sales) /\ s = Cardinality(sales)
    OBVIOUS
  <1>2. b \in Nat /\ s \in Nat /\ IsFiniteSet(sales) /\ o \notin sales
    BY <1>1, LotInt
  <1>3. (os \cup {o}) \ (sales \cup {o}) = os \ sales
    OBVIOUS
  <1>4. Cardinality(sales \cup {o}) = s + 1
    BY <1>1, <1>2, FS_AddElement
  <1>5. /\ Lot(os \cup {o}, sales \cup {o}) = Quantity * (b - (s + 1))
        /\ Lot(os, sales) = Quantity * (b - s)
    BY <1>1, <1>3, <1>4 DEF Lot
  <1> QED  BY <1>2, <1>5, QuantityAssumption

LEMMA LotNone == Lot({}, {}) = 0
  <1>1. {} \ {} = {} /\ Cardinality({}) = 0
    BY FS_EmptySet
  <1> QED  BY <1>1, QuantityAssumption DEF Lot

\* The two quantities the invariants compare, as lots of sets of orders.
LEMMA SharesAreLots ==
    ASSUME NEW x \in Stocks, NEW d
    PROVE  /\ FilledIn(x) \in SUBSET Orders /\ Sales(FilledIn(x)) \in SUBSET FilledIn(x)
           /\ SellableRows(x, d) \in SUBSET FilledIn(x)
           /\ Sales(SellableRows(x, d)) \in SUBSET SellableRows(x, d)
           /\ Shares(FilledIn(x)) = Lot(FilledIn(x), Sales(FilledIn(x)))
           /\ Shares(SellableRows(x, d)) = Lot(SellableRows(x, d), Sales(SellableRows(x, d)))
           /\ SoldSameDay(x, d) <=> held[x] + Shares(SellableRows(x, d)) < 0
  <1>1. /\ FilledIn(x) \in SUBSET Orders /\ Sales(FilledIn(x)) \in SUBSET FilledIn(x)
        /\ SellableRows(x, d) \in SUBSET FilledIn(x)
        /\ Sales(SellableRows(x, d)) \in SUBSET SellableRows(x, d)
    BY DEF FilledIn, Sales, SellableRows
  <1>2. /\ Shares(FilledIn(x)) = Lot(FilledIn(x), Sales(FilledIn(x)))
        /\ Shares(SellableRows(x, d)) = Lot(SellableRows(x, d), Sales(SellableRows(x, d)))
    BY DEF Shares, Lot
  <1>3. SoldSameDay(x, d) <=> held[x] + Shares(SellableRows(x, d)) < 0
    BY DEF SoldSameDay, SellableRows
  <1> QED  BY <1>1, <1>2, <1>3

LEMMA SharesAreLotsNext ==
    ASSUME NEW x \in Stocks, NEW d,
           NEW os, os = FilledIn(x)', NEW sales, sales = Sales(FilledIn(x))',
           NEW ds, ds = SellableRows(x, d)', NEW dsales, dsales = Sales(SellableRows(x, d))'
    PROVE  /\ Shares(FilledIn(x))' = Lot(os, sales)
           /\ Shares(SellableRows(x, d))' = Lot(ds, dsales)
           /\ SoldSameDay(x, d)' <=> held'[x] + Lot(ds, dsales) < 0
  <1>1. /\ Shares(FilledIn(x))' = Lot(os, sales)
        /\ Shares(SellableRows(x, d))' = Lot(ds, dsales)
    BY DEF Shares, Lot
  <1>2. SoldSameDay(x, d)' <=> held'[x] + Shares(SellableRows(x, d))' < 0
    BY DEF SoldSameDay, SellableRows
  <1> QED  BY <1>1, <1>2

-----------------------------------------------------------------------------
(* Steps that book no order. *)

\* Filled rows stay what they are, and no other becomes one.
FilledRowsStay ==
    \A o \in Orders :
        /\ (order'[o] # None /\ order'[o].status = "FILLED")
              <=> (order[o] # None /\ order[o].status = "FILLED")
        /\ order[o] # None /\ order[o].status = "FILLED" => order'[o] = order[o]

LEMMA SameFilledIn ==
    ASSUME NEW x \in Stocks, NEW d,
           \A o \in Orders : StockOf[o] = x =>
              /\ (order'[o] # None /\ order'[o].status = "FILLED")
                    <=> (order[o] # None /\ order[o].status = "FILLED")
              /\ order[o] # None /\ order[o].status = "FILLED" => order'[o] = order[o]
    PROVE  /\ FilledIn(x)' = FilledIn(x)
           /\ Sales(FilledIn(x))' = Sales(FilledIn(x))
           /\ SellableRows(x, d)' = SellableRows(x, d)
           /\ Sales(SellableRows(x, d))' = Sales(SellableRows(x, d))
  <1>1. FilledIn(x)' = FilledIn(x)
    BY DEF FilledIn
  <1>2. \A o \in FilledIn(x) : order'[o] = order[o]
    BY DEF FilledIn
  <1>3. Sales(FilledIn(x))' = Sales(FilledIn(x))
    BY <1>1, <1>2 DEF Sales
  <1>4. SellableRows(x, d)' = SellableRows(x, d)
    BY <1>1, <1>2, <1>3 DEF SellableRows, Sales
  <1>5. SellableRows(x, d) \in SUBSET FilledIn(x)
    BY DEF SellableRows, Sales
  <1>6. Sales(SellableRows(x, d))' = Sales(SellableRows(x, d))
    BY <1>2, <1>4, <1>5 DEF Sales
  <1> QED  BY <1>1, <1>3, <1>4, <1>6

LEMMA SameFilled ==
    ASSUME FilledRowsStay, NEW x \in Stocks, NEW d
    PROVE  /\ FilledIn(x)' = FilledIn(x)
           /\ Sales(FilledIn(x))' = Sales(FilledIn(x))
           /\ SellableRows(x, d)' = SellableRows(x, d)
           /\ Sales(SellableRows(x, d))' = Sales(SellableRows(x, d))
  BY SameFilledIn DEF FilledRowsStay

\* What the filled orders have cost, as a sum.
LEMMA CashNow ==
    ASSUME NEW F, F = [o \in Filled |-> (IF order[o].side = "SELL" THEN 1 ELSE 0 - 1)
                                           * order[o].price * Quantity - Fee]
    PROVE  CashMatchesOrders <=> cash = Cash + Sum(F, Filled)
  BY DEF CashMatchesOrders, Sum

LEMMA CashNext ==
    ASSUME NEW S, S = Filled',
           NEW F, F = [o \in S |-> (IF order'[o].side = "SELL" THEN 1 ELSE 0 - 1)
                                      * order'[o].price * Quantity - Fee]
    PROVE  CashMatchesOrders' <=> cash' = Cash + Sum(F, S)
  <1>1. CashMatchesOrders' <=>
            cash' = Cash + SumFunctionOnSet(
                              [o \in Filled' |-> (IF order'[o].side = "SELL" THEN 1 ELSE 0 - 1)
                                                    * order'[o].price * Quantity - Fee], Filled')
    BY DEF CashMatchesOrders
  <1> QED  BY <1>1 DEF Sum

LEMMA FilledFacts ==
    ASSUME LedgerTypes
    PROVE  /\ Filled = {o \in Orders : order[o] # None /\ order[o].status = "FILLED"}
           /\ Filled \in SUBSET Orders /\ IsFiniteSet(Filled)
           /\ \A o \in Filled : order[o] \in OrderRow
  <1>1. Filled = {o \in Orders : order[o] # None /\ order[o].status = "FILLED"}
    BY StockOfAssumption DEF Filled, FilledIn
  <1>2. Filled \in SUBSET Orders /\ \A o \in Filled : order[o] \in OrderRow
    BY <1>1 DEF LedgerTypes
  <1> QED  BY <1>1, <1>2, FiniteAssumption, FS_Subset

LEMMA CashQuiet ==
    ASSUME LedgerTypes, CashMatchesOrders, FilledRowsStay, cash' = cash
    PROVE  CashMatchesOrders'
  <1>1. PICK S : S = Filled
    OBVIOUS
  <1>2. Filled' = S
    BY <1>1, SameFilled DEF Filled
  <1>3. PICK F : F = [o \in S |-> (IF order[o].side = "SELL" THEN 1 ELSE 0 - 1)
                                     * order[o].price * Quantity - Fee]
    OBVIOUS
  <1>4. \A o \in S : order'[o] = order[o]
    BY <1>1, FilledFacts DEF FilledRowsStay
  <1>5. F = [o \in S |-> (IF order'[o].side = "SELL" THEN 1 ELSE 0 - 1)
                            * order'[o].price * Quantity - Fee]
    BY <1>3, <1>4
  <1>6. cash = Cash + Sum(F, S)
    BY <1>1, <1>3, CashNow
  <1> QED  BY <1>2, <1>5, <1>6, CashNext

\* A position that a release opened, if any, was not bought today or is said
\* to be unlocked.
Opens(x) ==
    \/ Available(x)' = Available(x)
    \/ Available(x)' = Total(x) /\ (<<day, x>> \in unlocked' \/ ~BoughtToday(x))

LEMMA TodayNext ==
    ASSUME NEW x \in Stocks, NEW d, d = day'
    PROVE  Shares(SellableRows(x, day))' = Shares(SellableRows(x, d))'
  <1>1. SellableRows(x, day)' = SellableRows(x, d)'
    BY DEF SellableRows
  <1>2. Sales(SellableRows(x, day))' = Sales(SellableRows(x, d))'
    BY <1>1 DEF Sales
  <1> QED  BY <1>1, <1>2 DEF Shares

LEMMA BooksQuiet ==
    ASSUME LedgerInv, FilledRowsStay, UNCHANGED <<day, held, cash, overtaken>>,
           unlocked \subseteq unlocked',
           \A x \in Stocks : Total(x)' = Total(x) /\ Opens(x)
    PROVE  PurchasesLocked' /\ CashMatchesOrders' /\ SerialOrdersAddUp' /\ SameDaySaleHasACause'
  <1>1. CashMatchesOrders'
    BY CashQuiet DEF LedgerInv
  <1>2. \A x \in Stocks : Calm(x)' <=> Calm(x)
    BY DEF Calm
  <1>3. ASSUME NEW x \in Stocks, NEW d
        PROVE  /\ Shares(FilledIn(x))' = Shares(FilledIn(x))
               /\ Shares(SellableRows(x, d))' = Shares(SellableRows(x, d))
               /\ SoldSameDay(x, d)' <=> SoldSameDay(x, d)
    BY SameFilled, SharesAreLots, SharesAreLotsNext
  <1>4. \A x \in Stocks : Total(x) \in Nat /\ Available(x) \in Nat /\ held[x] \in Nat
    BY StockFacts DEF LedgerInv, LedgerTypes
  <1>5. SerialOrdersAddUp'
    <2>1. ASSUME NEW x \in Stocks, Calm(x)
          PROVE  /\ Total(x)' = held'[x] + Shares(FilledIn(x))'
                 /\ Available(x)' <= Total(x)'
      <3>1. Total(x) = held[x] + Shares(FilledIn(x)) /\ Available(x) <= Total(x)
        BY <2>1 DEF LedgerInv, SerialOrdersAddUp, Calm
      <3>2. Available(x)' = Available(x) \/ Available(x)' = Total(x)
        BY DEF Opens
      <3> QED  BY <1>3, <1>4, <3>1, <3>2
    <2>2. overtaken' = {} => cash' >= 0
      BY DEF LedgerInv, SerialOrdersAddUp
    <2> QED  BY <1>2, <2>1, <2>2 DEF SerialOrdersAddUp, Calm
  <1>6. SameDaySaleHasACause'
    <2> SUFFICES ASSUME NEW x \in Stocks, NEW d \in 1 .. day', SoldSameDay(x, d)'
                 PROVE  <<d, x>> \in unlocked' \/ \E o \in overtaken' : StockOf[o] = x
      BY DEF SameDaySaleHasACause
    <2>1. d \in 1 .. day /\ SoldSameDay(x, d)
      BY <1>3
    <2> QED  BY <2>1 DEF LedgerInv, SameDaySaleHasACause
  <1>7. PurchasesLocked'
    <2> SUFFICES ASSUME NEW x \in Stocks, Calm(x)', <<day', x>> \notin unlocked'
                 PROVE  Available(x)' <= held'[x] + Shares(SellableRows(x, day))'
      BY DEF PurchasesLocked
    <2>1. Calm(x) /\ <<day, x>> \notin unlocked /\ <<day, x>> \notin unlocked'
      BY <1>2
    <2>2. PICK d : d = day
      OBVIOUS
    <2>3. Shares(SellableRows(x, d))' = Shares(SellableRows(x, d))
      BY <1>3
    <2>4. CASE Available(x)' = Available(x)
      <3>1. Available(x) <= held[x] + Shares(SellableRows(x, d))
        BY <2>1, <2>2 DEF LedgerInv, PurchasesLocked
      <3>2. Available(x)' <= held'[x] + Shares(SellableRows(x, d))'
        BY <2>3, <2>4, <3>1
      <3> QED  BY <2>2, <3>2, TodayNext
    <2>5. CASE Available(x)' = Total(x) /\ ~BoughtToday(x)
      <3>1. Total(x) = held[x] + Shares(FilledIn(x))
        BY <2>1 DEF LedgerInv, SerialOrdersAddUp, Calm
      <3>2. SellableRows(x, d) = FilledIn(x)
        <4>1. ASSUME NEW o \in FilledIn(x)  PROVE o \in SellableRows(x, d)
          <5>1. /\ o \in Orders /\ order[o] # None /\ order[o].status = "FILLED"
                /\ StockOf[o] = x /\ order[o] \in OrderRow
            BY <4>1 DEF FilledIn, LedgerInv, LedgerTypes
          <5>2. order[o].day \in 1 .. day /\ day \in Nat
            BY <5>1 DEF LedgerInv, RowsDated, LedgerTypes
          <5>3. CASE order[o].day < day
            BY <2>2, <4>1, <5>3 DEF SellableRows
          <5>4. CASE order[o].day = day
            <6>1. order[o].side = "SELL"
              BY <2>5, <5>1, <5>4 DEF BoughtToday, OrderRow
            <6> QED  BY <2>2, <4>1, <5>4, <6>1 DEF SellableRows, Sales
          <5> QED  BY <5>2, <5>3, <5>4
        <4> QED  BY <4>1, SharesAreLots
      <3>3. Shares(SellableRows(x, d)) = Shares(FilledIn(x))
        BY <3>2
      <3>4. Available(x)' <= held'[x] + Shares(SellableRows(x, d))'
        BY <1>4, <2>3, <2>5, <3>1, <3>3
      <3> QED  BY <2>2, <3>4, TodayNext
    <2> QED  BY <2>1, <2>4, <2>5 DEF Opens
  <1> QED  BY <1>1, <1>5, <1>6, <1>7

-----------------------------------------------------------------------------
(* The transaction of one order, up to its commit. *)

LEMMA TransactionStep ==
    ASSUME LedgerInv, NEW o \in Orders, NEW next \in Transaction,
           sess' = [sess EXCEPT ![o] = next], FilledRowsStay,
           UNCHANGED <<day, position, cash, assets, sync, release, held, overtaken, unlocked>>,
           order' \in [Orders -> OrderRow \cup {None}],
           \A q \in Orders : order'[q] # None => /\ order'[q].price \in Prices \cup {0}
                                                 /\ order'[q].day \in 1 .. day
                                                 /\ IF q = o THEN next.pc = "done"
                                                             ELSE order[q] # None,
           next.pc \in Submitting => next.price \in Prices,
           next.pc = "written" => sync.value[StockOf[o]] = None,
           next.pc \in Submitting /\ o \notin overtaken =>
              LET x == StockOf[o] IN
              /\ IF next.side = "SELL" THEN Available(x) >= Quantity
                                       ELSE cash >= next.price * Quantity + Fee
              /\ next.pc = "read" =>
                    /\ next.seen = None <=> position[x] = None
                    /\ next.seen # None => /\ next.seen.total = position[x].total
                                           /\ next.seen.available <= position[x].available
              /\ next.pc = "written" =>
                    IF next.side = "SELL"
                    THEN IF next.row = None THEN Total(x) <= Quantity
                         ELSE /\ next.row.total = Total(x) - Quantity
                              /\ next.row.available <= Available(x) - Quantity
                    ELSE /\ next.row # None /\ next.row.total = Total(x) + Quantity
                         /\ next.row.available = Available(x)
    PROVE  LedgerInv'
  <1>1. /\ sess'[o] = next /\ sess' \in [Orders -> Transaction]
        /\ \A q \in Orders \ {o} : sess'[q] = sess[q]
    BY DEF LedgerInv, LedgerTypes
  <1>2. LedgerTypes'
    BY <1>1 DEF LedgerInv, LedgerTypes
  <1>3. RowsDated'
    BY <1>1 DEF LedgerInv, RowsDated
  <1>4. RowsLocked'
    BY <1>1 DEF LedgerInv, RowsLocked
  <1>5. \A x \in Stocks : Total(x)' = Total(x) /\ Available(x)' = Available(x)
    BY DEF Total, Available
  <1>6. Undisturbed'
    <2> SUFFICES ASSUME NEW q \in Orders, sess'[q].pc \in Submitting, q \notin overtaken'
                 PROVE  /\ IF Selling(q)' THEN Available(StockOf[q])' >= Quantity
                                          ELSE cash' >= Amount(q)' + Fee
                        /\ sess'[q].pc = "read" => Sees(q)'
                        /\ sess'[q].pc = "written" => Leaves(q)'
      BY DEF Undisturbed
    <2>1. CASE q = o
      BY <1>1, <2>1 DEF Selling, Amount, Sees, Leaves, Total, Available
    <2>2. CASE q # o
      <3>1. sess'[q] = sess[q] /\ q \notin overtaken
        BY <1>1, <2>2
      <3> QED  BY <3>1 DEF LedgerInv, Undisturbed, Selling, Amount, Sees, Leaves, Total, Available
    <2> QED  BY <2>1, <2>2
  <1>7. PurchasesLocked' /\ CashMatchesOrders' /\ SerialOrdersAddUp' /\ SameDaySaleHasACause'
    BY <1>5, BooksQuiet DEF Opens
  <1> QED  BY <1>2, <1>3, <1>4, <1>6, <1>7 DEF LedgerInv

LEMMA SameRowsStay ==
    ASSUME LedgerInv, NEW o \in Orders, sess[o].pc # "done", order' = order
    PROVE  /\ FilledRowsStay
           /\ order' \in [Orders -> OrderRow \cup {None}]
           /\ \A q \in Orders : order'[q] # None => /\ order'[q].price \in Prices \cup {0}
                                                    /\ order'[q].day \in 1 .. day
                                                    /\ q # o /\ order[q] # None
  BY DEF LedgerInv, LedgerTypes, RowsDated, FilledRowsStay

LEMMA IdleAgain ==
    ASSUME NEW pc \in {"done", "failed"}
    PROVE  [Idle EXCEPT !.pc = pc] \in Transaction /\ [Idle EXCEPT !.pc = pc].pc = pc
  <1>1. [Idle EXCEPT !.pc = pc] =
           [pc |-> pc, side |-> "BUY", price |-> 0, seen |-> None, row |-> None]
    BY DEF Idle
  <1> QED  BY <1>1 DEF Transaction

\* An order that fails leaves nothing.
LEMMA RejectStep ==
    ASSUME LedgerInv, NEW o \in Orders, sess[o].pc # "done", Rejected(o),
           UNCHANGED <<day, tables, others, overtaken>>
    PROVE  LedgerInv'
  <1>1. PICK next : next = [Idle EXCEPT !.pc = "failed"]
    OBVIOUS
  <1>2. next \in Transaction /\ next.pc = "failed"
    BY <1>1, IdleAgain
  <1>3. sess' = [sess EXCEPT ![o] = next]
    BY <1>1 DEF Rejected, Ends
  <1>4. UNCHANGED <<day, order, position, cash, assets, sync, release, held, overtaken, unlocked>>
    BY DEF tables, others
  <1>5. /\ FilledRowsStay
        /\ order' \in [Orders -> OrderRow \cup {None}]
        /\ \A q \in Orders : order'[q] # None => /\ order'[q].price \in Prices \cup {0}
                                                 /\ order'[q].day \in 1 .. day
                                                 /\ q # o /\ order[q] # None
    BY <1>4, SameRowsStay
  <1>6. next.pc \notin Submitting /\ next.pc # "read" /\ next.pc # "written"
    BY <1>2 DEF Submitting
  <1> QED  BY <1>2, <1>3, <1>4, <1>5, <1>6, TransactionStep

LEMMA AcceptStep ==
    ASSUME LedgerInv, NEW o \in Orders, Accept(o)
    PROVE  LedgerInv'
  <1>1. PICK p \in Prices, side \in {"BUY", "SELL"} :
           /\ Sufficient(o, side, p)
           /\ sess' = [sess EXCEPT ![o].pc = "checked", ![o].side = side, ![o].price = p]
    BY DEF Accept
  <1>2. PICK next : next = [pc |-> "checked", side |-> side, price |-> p,
                            seen |-> sess[o].seen, row |-> sess[o].row]
    OBVIOUS
  <1>3. sess \in [Orders -> Transaction] /\ sess[o] \in Transaction /\ sess[o].pc = "idle"
    BY DEF LedgerInv, LedgerTypes, Accept
  <1>4. sess' = [sess EXCEPT ![o] = next]
    <2>1. PICK s1 : s1 = [sess EXCEPT ![o].pc = "checked"]
      OBVIOUS
    <2>2. PICK s2 : s2 = [s1 EXCEPT ![o].side = side]
      OBVIOUS
    <2>3. sess' = [s2 EXCEPT ![o].price = p]
      BY <1>1, <2>1, <2>2
    <2>4. s1 = [sess EXCEPT ![o] = [sess[o] EXCEPT !.pc = "checked"]]
      BY <2>1
    <2>5. s2 = [sess EXCEPT ![o] = [[sess[o] EXCEPT !.pc = "checked"] EXCEPT !.side = side]]
      BY <1>3, <2>2, <2>4
    <2>6. sess' = [sess EXCEPT ![o] = [[[sess[o] EXCEPT !.pc = "checked"]
                                           EXCEPT !.side = side] EXCEPT !.price = p]]
      BY <1>3, <2>3, <2>5
    <2>7. [[[sess[o] EXCEPT !.pc = "checked"] EXCEPT !.side = side] EXCEPT !.price = p] = next
      <3>1. PICK r : r = sess[o]
        OBVIOUS
      <3>2. r = [pc |-> r.pc, side |-> r.side, price |-> r.price, seen |-> r.seen, row |-> r.row]
        BY <1>3, <3>1 DEF Transaction
      <3>3. PICK r1 : r1 = [r EXCEPT !.pc = "checked"]
        OBVIOUS
      <3>4. r1 = [pc |-> "checked", side |-> r.side, price |-> r.price,
                  seen |-> r.seen, row |-> r.row]
        BY <3>2, <3>3
      <3>5. PICK r2 : r2 = [r1 EXCEPT !.side = side]
        OBVIOUS
      <3>6. r2 = [pc |-> "checked", side |-> side, price |-> r.price,
                  seen |-> r.seen, row |-> r.row]
        BY <3>4, <3>5
      <3>7. [r2 EXCEPT !.price = p] = next
        BY <1>2, <3>1, <3>6
      <3> QED  BY <3>1, <3>3, <3>5, <3>7
    <2> QED  BY <2>6, <2>7
  <1>5. p \in Nat
    BY PricesAssumption
  <1>6. next \in Transaction /\ next.pc = "checked" /\ next.side = side /\ next.price = p
    BY <1>2, <1>3, <1>5 DEF Transaction
  <1>7. UNCHANGED <<day, order, position, cash, assets, sync, release, held, overtaken, unlocked>>
    BY DEF Accept, tables, others
  <1>8. /\ FilledRowsStay
        /\ order' \in [Orders -> OrderRow \cup {None}]
        /\ \A q \in Orders : order'[q] # None => /\ order'[q].price \in Prices \cup {0}
                                                 /\ order'[q].day \in 1 .. day
                                                 /\ q # o /\ order[q] # None
    BY <1>3, <1>7, SameRowsStay
  <1>9. IF next.side = "SELL" THEN Available(StockOf[o]) >= Quantity
                              ELSE cash >= next.price * Quantity + Fee
    BY <1>1, <1>6 DEF Sufficient
  <1>10. next.pc # "read" /\ next.pc # "written"
    BY <1>6
  <1> QED  BY <1>4, <1>6, <1>7, <1>8, <1>9, <1>10, TransactionStep

LEMMA LeaveOpenStep ==
    ASSUME LedgerInv, NEW o \in Orders, LeaveOpen(o)
    PROVE  LedgerInv'
  <1>1. PICK side \in {"BUY", "SELL"} :
           order' = [order EXCEPT ![o] = [status |-> "SUBMITTED", side |-> side,
                                          price |-> 0, day |-> day]]
    BY DEF LeaveOpen
  <1>2. PICK next : next = [Idle EXCEPT !.pc = "done"]
    OBVIOUS
  <1>3. next \in Transaction /\ next.pc = "done"
    BY <1>2, IdleAgain
  <1>4. /\ sess' = [sess EXCEPT ![o] = next] /\ sess[o].pc = "idle"
        /\ UNCHANGED <<day, position, cash, assets, sync, release, held, overtaken, unlocked>>
    BY <1>2 DEF LeaveOpen, Ends, others
  <1>5. PICK row : row = [status |-> "SUBMITTED", side |-> side, price |-> 0, day |-> day]
    OBVIOUS
  <1>6. /\ day \in 1 .. MaxDay /\ day \in Nat /\ order \in [Orders -> OrderRow \cup {None}]
        /\ order[o] = None
    BY <1>4, CashAssumption DEF LedgerInv, LedgerTypes, RowsDated
  <1>7. row \in OrderRow /\ row.status = "SUBMITTED" /\ row.price = 0 /\ row.day = day
    BY <1>5, <1>6 DEF OrderRow
  <1>8. order' = [order EXCEPT ![o] = row]
    BY <1>1, <1>5
  <1>9. /\ order'[o] = row /\ \A q \in Orders \ {o} : order'[q] = order[q]
        /\ order' \in [Orders -> OrderRow \cup {None}]
    BY <1>6, <1>7, <1>8
  <1>10. FilledRowsStay
    BY <1>6, <1>7, <1>9 DEF FilledRowsStay
  <1>11. \A q \in Orders : order'[q] # None => /\ order'[q].price \in Prices \cup {0}
                                               /\ order'[q].day \in 1 .. day
                                               /\ q = o \/ order[q] # None
    BY <1>6, <1>7, <1>9 DEF LedgerInv, RowsDated
  <1>12. next.pc \notin Submitting /\ next.pc # "read" /\ next.pc # "written"
    BY <1>3 DEF Submitting
  <1> QED  BY <1>3, <1>4, <1>9, <1>10, <1>11, <1>12, TransactionStep

LEMMA ReadStep ==
    ASSUME LedgerInv, NEW o \in Orders, Read(o)
    PROVE  LedgerInv'
  <1> DEFINE x == StockOf[o]
  <1>1. CASE Selling(o) /\ position[x] = None
    BY <1>1, RejectStep DEF Read
  <1>2. CASE ~(Selling(o) /\ position[x] = None)
    <2>1. /\ sess \in [Orders -> Transaction] /\ sess[o] \in Transaction /\ sess[o].pc = "checked"
          /\ position \in [Stocks -> PositionRow \cup {None}] /\ x \in Stocks
      BY StockOfAssumption DEF LedgerInv, LedgerTypes, Read
    <2>2. PICK next : next = [pc |-> "read", side |-> sess[o].side, price |-> sess[o].price,
                              seen |-> position[x], row |-> sess[o].row]
      OBVIOUS
    <2>3. sess' = [sess EXCEPT ![o] = next]
      <3>1. PICK s1 : s1 = [sess EXCEPT ![o].pc = "read"]
        OBVIOUS
      <3>2. sess' = [s1 EXCEPT ![o].seen = position[x]]
        BY <1>2, <3>1 DEF Read
      <3>3. PICK r : r = sess[o]
        OBVIOUS
      <3>4. r = [pc |-> r.pc, side |-> r.side, price |-> r.price, seen |-> r.seen, row |-> r.row]
        BY <2>1, <3>3 DEF Transaction
      <3>5. PICK r1 : r1 = [r EXCEPT !.pc = "read"]
        OBVIOUS
      <3>6. r1 = [pc |-> "read", side |-> r.side, price |-> r.price,
                  seen |-> r.seen, row |-> r.row]
        BY <3>4, <3>5
      <3>7. s1 = [sess EXCEPT ![o] = r1]
        BY <2>1, <3>1, <3>3, <3>5
      <3>8. [r1 EXCEPT !.seen = position[x]] = next
        BY <2>2, <3>3, <3>6
      <3>9. sess' = [sess EXCEPT ![o] = [r1 EXCEPT !.seen = position[x]]]
        BY <2>1, <3>2, <3>7
      <3> QED  BY <3>8, <3>9
    <2>4. /\ next \in Transaction /\ next.pc = "read" /\ next.side = sess[o].side
          /\ next.price = sess[o].price /\ next.seen = position[x]
      BY <2>1, <2>2 DEF Transaction
    <2>5. UNCHANGED <<day, order, position, cash, assets, sync, release, held, overtaken,
                      unlocked>>
      BY DEF Read, tables, others
    <2>6. /\ FilledRowsStay
          /\ order' \in [Orders -> OrderRow \cup {None}]
          /\ \A q \in Orders : order'[q] # None => /\ order'[q].price \in Prices \cup {0}
                                                   /\ order'[q].day \in 1 .. day
                                                   /\ q # o /\ order[q] # None
      BY <2>1, <2>5, SameRowsStay
    <2>7. sess[o].pc \in Submitting /\ sess[o].price \in Prices
      BY <2>1 DEF LedgerInv, RowsDated, Submitting
    <2>8. o \notin overtaken =>
             IF next.side = "SELL" THEN Available(x) >= Quantity
                                   ELSE cash >= next.price * Quantity + Fee
      BY <2>4, <2>7 DEF LedgerInv, Undisturbed, Selling, Amount
    <2>9. next.seen # None => /\ next.seen.total = position[x].total
                              /\ next.seen.available <= position[x].available
      BY <2>1, <2>4 DEF PositionRow
    <2>10. next.pc # "written"
      BY <2>4
    <2>11. next.seen = None <=> position[x] = None
      BY <2>4
    <2> QED  BY <2>3, <2>4, <2>5, <2>6, <2>7, <2>8, <2>9, <2>10, <2>11, TransactionStep
  <1> QED  BY <1>1, <1>2

\* The row that is written, by the cases of Written.
LEMMA WrittenRow ==
    ASSUME LedgerInv, NEW o \in Orders, sess[o].pc = "read"
    PROVE  /\ Written(o) \in PositionRow \cup {None}
           /\ o \notin overtaken =>
                 LET x == StockOf[o]  row == Written(o) IN
                 IF Selling(o)
                 THEN IF row = None THEN Total(x) <= Quantity
                      ELSE /\ row.total = Total(x) - Quantity
                           /\ row.available <= Available(x) - Quantity
                 ELSE /\ row # None /\ row.total = Total(x) + Quantity
                      /\ row.available = Available(x)
  <1>1. PICK x, old, seen, p : /\ x = StockOf[o] /\ old = position[x] /\ seen = sess[o].seen
                               /\ p = sess[o].price
    OBVIOUS
  <1>2. /\ x \in Stocks /\ old \in PositionRow \cup {None} /\ seen \in PositionRow \cup {None}
        /\ p \in Nat /\ sess[o].pc \in Submitting
    BY <1>1, StockOfAssumption DEF LedgerInv, LedgerTypes, Transaction, Submitting
  <1>3. /\ Total(x) \in Nat /\ Available(x) \in Nat
        /\ old # None => Total(x) = old.total /\ Available(x) = old.available
        /\ old = None => Total(x) = 0 /\ Available(x) = 0
    BY <1>1, <1>2, StockFacts DEF LedgerInv
  <1>4. o \notin overtaken =>
           /\ Selling(o) => Available(x) >= Quantity
           /\ seen = None <=> old = None
           /\ seen # None => seen.total = old.total /\ seen.available <= old.available
    BY <1>1, <1>2 DEF LedgerInv, Undisturbed, Sees
  <1>5. ASSUME NEW t \in Nat \ {0}, NEW a \in Nat
        PROVE  /\ Valued(Row(t, a, 0), p) \in PositionRow
               /\ Valued(Row(t, a, 0), p).total = t /\ Valued(Row(t, a, 0), p).available = a
    <2>1. Valued(Row(t, a, 0), p) = [total |-> t, available |-> a, value |-> t * p]
      BY DEF Valued, Row
    <2>2. t * p \in Nat
      BY <1>2
    <2> QED  BY <2>1, <2>2 DEF PositionRow
  <1>6. CASE seen = None
    <2>1. Written(o) = Valued(Row(Quantity, 0, 0), p)
      BY <1>1, <1>6 DEF Written, Opened
    <2>2. Written(o) \in PositionRow /\ Written(o).total = Quantity /\ Written(o).available = 0
      BY <1>5, <2>1, QuantityAssumption
    <2>3. o \notin overtaken => old = None /\ ~Selling(o)
      BY <1>3, <1>4, <1>6, QuantityAssumption
    <2> QED  BY <1>1, <1>3, <2>2, <2>3, NoRow, QuantityAssumption
  <1>7. CASE seen # None /\ old = None
    <2>1. Written(o) = None /\ o \in overtaken
      BY <1>1, <1>4, <1>7 DEF Written
    <2> QED  BY <2>1
  <1>8. CASE seen # None /\ old # None /\ ~Selling(o)
    <2>1. Written(o) = Valued(Row(seen.total + Quantity, old.available, 0), p)
      BY <1>1, <1>8 DEF Written, Bought
    <2>2. seen.total + Quantity \in Nat \ {0} /\ old.available \in Nat
      BY <1>2, <1>8, QuantityAssumption DEF PositionRow
    <2>3. /\ Written(o) \in PositionRow /\ Written(o).total = seen.total + Quantity
          /\ Written(o).available = old.available
      BY <1>5, <2>1, <2>2
    <2> QED  BY <1>1, <1>3, <1>4, <1>8, <2>3, NoRow
  <1>9. CASE seen # None /\ old # None /\ Selling(o) /\ Emptied(o)
    <2>1. Written(o) = None
      BY <1>1, <1>9 DEF Written
    <2>2. seen.total <= Quantity
      BY <1>1, <1>9 DEF Emptied
    <2> QED  BY <1>1, <1>3, <1>4, <1>9, <2>1, <2>2
  <1>10. CASE seen # None /\ old # None /\ Selling(o) /\ ~Emptied(o)
    <2>1. PICK t, a : t = seen.total - Quantity /\ a = Max0(seen.available - Quantity)
      OBVIOUS
    <2>2. Written(o) = Valued(Row(t, a, 0), p)
      BY <1>1, <1>10, <2>1 DEF Written, Sold
    <2>3. seen.total \in Nat /\ seen.available \in Nat /\ ~(seen.total <= Quantity)
      BY <1>1, <1>2, <1>10 DEF Emptied, PositionRow
    <2>4. t \in Nat \ {0} /\ a \in Nat
      BY <2>1, <2>3, QuantityAssumption DEF Max0
    <2>5. Written(o) \in PositionRow /\ Written(o).total = t /\ Written(o).available = a
      BY <1>5, <2>2, <2>4
    <2>6. o \notin overtaken => a <= Available(x) - Quantity /\ t = Total(x) - Quantity
      <3> SUFFICES ASSUME o \notin overtaken
                   PROVE  a <= Available(x) - Quantity /\ t = Total(x) - Quantity
        OBVIOUS
      <3>1. Available(x) >= Quantity /\ seen.available <= Available(x) /\ seen.total = Total(x)
        BY <1>3, <1>4, <1>10
      <3> QED  BY <1>3, <2>1, <2>3, <3>1, QuantityAssumption DEF Max0
    <2> QED  BY <1>1, <1>10, <2>5, <2>6, NoRow
  <1> QED  BY <1>6, <1>7, <1>8, <1>9, <1>10

LEMMA WriteStep ==
    ASSUME LedgerInv, NEW o \in Orders, Write(o)
    PROVE  LedgerInv'
  <1> DEFINE x == StockOf[o]
  <1>1. CASE sess[o].seen = None /\ position[x] # None
    BY <1>1, RejectStep DEF Write
  <1>2. CASE ~(sess[o].seen = None /\ position[x] # None)
    <2>1. /\ sess \in [Orders -> Transaction] /\ sess[o] \in Transaction /\ sess[o].pc = "read"
          /\ x \in Stocks
      BY StockOfAssumption DEF LedgerInv, LedgerTypes, Write
    <2>2. PICK next : next = [pc |-> "written", side |-> sess[o].side, price |-> sess[o].price,
                              seen |-> sess[o].seen, row |-> Written(o)]
      OBVIOUS
    <2>3. sess' = [sess EXCEPT ![o] = next]
      <3>1. PICK s1 : s1 = [sess EXCEPT ![o].pc = "written"]
        OBVIOUS
      <3>2. sess' = [s1 EXCEPT ![o].row = Written(o)]
        BY <1>2, <3>1 DEF Write
      <3>3. PICK r : r = sess[o]
        OBVIOUS
      <3>4. r = [pc |-> r.pc, side |-> r.side, price |-> r.price, seen |-> r.seen, row |-> r.row]
        BY <2>1, <3>3 DEF Transaction
      <3>5. PICK r1 : r1 = [r EXCEPT !.pc = "written"]
        OBVIOUS
      <3>6. r1 = [pc |-> "written", side |-> r.side, price |-> r.price,
                  seen |-> r.seen, row |-> r.row]
        BY <3>4, <3>5
      <3>7. s1 = [sess EXCEPT ![o] = r1]
        BY <2>1, <3>1, <3>3, <3>5
      <3>8. [r1 EXCEPT !.row = Written(o)] = next
        BY <2>2, <3>3, <3>6
      <3>9. sess' = [sess EXCEPT ![o] = [r1 EXCEPT !.row = Written(o)]]
        BY <2>1, <3>2, <3>7
      <3> QED  BY <3>8, <3>9
    <2>4. /\ next \in Transaction /\ next.pc = "written" /\ next.side = sess[o].side
          /\ next.price = sess[o].price /\ next.row = Written(o)
      BY <2>1, <2>2, WrittenRow DEF Transaction
    <2>5. UNCHANGED <<day, order, position, cash, assets, sync, release, held, overtaken,
                      unlocked>>
      BY DEF Write, tables, others
    <2>6. /\ FilledRowsStay
          /\ order' \in [Orders -> OrderRow \cup {None}]
          /\ \A q \in Orders : order'[q] # None => /\ order'[q].price \in Prices \cup {0}
                                                   /\ order'[q].day \in 1 .. day
                                                   /\ q # o /\ order[q] # None
      BY <2>1, <2>5, SameRowsStay
    <2>7. sess[o].pc \in Submitting /\ sess[o].price \in Prices
      BY <2>1 DEF LedgerInv, RowsDated, Submitting
    <2>8. o \notin overtaken =>
             IF next.side = "SELL" THEN Available(x) >= Quantity
                                   ELSE cash >= next.price * Quantity + Fee
      BY <2>4, <2>7 DEF LedgerInv, Undisturbed, Selling, Amount
    <2>9. o \notin overtaken =>
             IF next.side = "SELL"
             THEN IF next.row = None THEN Total(x) <= Quantity
                  ELSE /\ next.row.total = Total(x) - Quantity
                       /\ next.row.available <= Available(x) - Quantity
             ELSE /\ next.row # None /\ next.row.total = Total(x) + Quantity
                  /\ next.row.available = Available(x)
      BY <2>1, <2>4, WrittenRow DEF Selling
    <2>10. next.pc # "read" /\ sync.value[x] = None
      BY <2>4 DEF Write, Holders
    <2> QED  BY <2>3, <2>4, <2>5, <2>6, <2>7, <2>8, <2>9, <2>10, TransactionStep
  <1> QED  BY <1>1, <1>2

-----------------------------------------------------------------------------
(* The commit of an order. *)

LEMMA ValueSumInt ==
    ASSUME NEW table \in [Stocks -> PositionRow \cup {None}]
    PROVE  ValueSum(table) \in Int
  <1>1. PICK F : F = [x \in Stocks |-> IF table[x] = None THEN 0 ELSE table[x].value]
    OBVIOUS
  <1>2. \A x \in Stocks : F[x] \in Int
    BY <1>1 DEF PositionRow
  <1>3. Sum(F, Stocks) \in Int
    BY <1>2, FiniteAssumption, SumInt
  <1> QED  BY <1>1, <1>3 DEF ValueSum, Sum

\* The step fills o, of stock x.
Fills(o, x, row) ==
    /\ sess[o].pc = "written" /\ x = StockOf[o] /\ row \in OrderRow
    /\ row.status = "FILLED" /\ row.side = sess[o].side /\ row.day = day
    /\ order' = [order EXCEPT ![o] = row] /\ held' = held

\* What a step that fills o makes of the sets that are counted.
LEMMA FilledRows ==
    ASSUME LedgerInv, NEW o \in Orders, NEW x, NEW row, Fills(o, x, row), NEW d \in 1 .. day
    PROVE  /\ o \notin FilledIn(x) /\ FilledIn(x)' = FilledIn(x) \cup {o}
           /\ Sales(FilledIn(x))' = Sales(FilledIn(x)) \cup (IF Selling(o) THEN {o} ELSE {})
           /\ Selling(o) /\ d = day =>
                 /\ SellableRows(x, d)' = SellableRows(x, d) \cup {o}
                 /\ Sales(SellableRows(x, d))' = Sales(SellableRows(x, d)) \cup {o}
           /\ ~(Selling(o) /\ d = day) =>
                 /\ SellableRows(x, d)' = SellableRows(x, d)
                 /\ Sales(SellableRows(x, d))' = Sales(SellableRows(x, d))
  <1>1. /\ order \in [Orders -> OrderRow \cup {None}] /\ order[o] = None /\ day \in Nat
        /\ row # None /\ order'[o] = row /\ \A q \in Orders \ {o} : order'[q] = order[q]
    BY NoRow, CashAssumption DEF LedgerInv, LedgerTypes, RowsDated, Fills
  <1>2. o \notin FilledIn(x) /\ FilledIn(x)' = FilledIn(x) \cup {o}
    BY <1>1 DEF FilledIn, Fills
  <1>3. /\ FilledIn(x) \in SUBSET (Orders \ {o})
        /\ \A q \in FilledIn(x) : order'[q] = order[q]
    BY <1>1, <1>2 DEF FilledIn
  <1>4. order'[o].side = "SELL" <=> Selling(o)
    BY <1>1 DEF Selling, Fills
  <1>5. Sales(FilledIn(x))' = Sales(FilledIn(x)) \cup (IF Selling(o) THEN {o} ELSE {})
    <2>1. Sales(FilledIn(x))' = {q \in FilledIn(x)' : order'[q].side = "SELL"}
      BY DEF Sales
    <2>2. Sales(FilledIn(x)) = {q \in FilledIn(x) : order[q].side = "SELL"}
      BY DEF Sales
    <2> QED  BY <1>2, <1>3, <1>4, <2>1, <2>2
  <1>6. /\ Selling(o) /\ d = day =>
              /\ SellableRows(x, d)' = SellableRows(x, d) \cup {o}
              /\ Sales(SellableRows(x, d))' = Sales(SellableRows(x, d)) \cup {o}
        /\ ~(Selling(o) /\ d = day) =>
              /\ SellableRows(x, d)' = SellableRows(x, d)
              /\ Sales(SellableRows(x, d))' = Sales(SellableRows(x, d))
    <2>1. SellableRows(x, d)' = {q \in FilledIn(x)' : order'[q].day < d}
                                   \cup {q \in Sales(FilledIn(x))' : order'[q].day = d}
      BY DEF SellableRows
    <2>2. SellableRows(x, d) = {q \in FilledIn(x) : order[q].day < d}
                                   \cup {q \in Sales(FilledIn(x)) : order[q].day = d}
      BY DEF SellableRows
    <2>3. ~(order'[o].day < d) /\ (order'[o].day = d <=> d = day)
      BY <1>1 DEF Fills
    <2>4. Sales(FilledIn(x)) \in SUBSET FilledIn(x)
      BY DEF Sales
    <2>5. SellableRows(x, d)' = SellableRows(x, d)
                                   \cup (IF Selling(o) /\ d = day THEN {o} ELSE {})
      <3>1. ASSUME NEW q
            PROVE  q \in SellableRows(x, d)' <=>
                      q \in SellableRows(x, d) \/ (q = o /\ Selling(o) /\ d = day)
        <4>1. CASE q = o
          BY <1>2, <1>5, <2>1, <2>2, <2>3, <2>4, <4>1
        <4>2. CASE q # o
          BY <1>2, <1>3, <1>5, <2>1, <2>2, <2>4, <4>2
        <4> QED  BY <4>1, <4>2
      <3> QED  BY <3>1
    <2>6. SellableRows(x, d) \in SUBSET FilledIn(x)
      BY <2>2, <2>4
    <2>7. Sales(SellableRows(x, d))' = {q \in SellableRows(x, d)' : order'[q].side = "SELL"}
      BY DEF Sales
    <2>8. Sales(SellableRows(x, d)) = {q \in SellableRows(x, d) : order[q].side = "SELL"}
      BY DEF Sales
    <2>9. Sales(SellableRows(x, d))' = Sales(SellableRows(x, d))
                                          \cup (IF Selling(o) /\ d = day THEN {o} ELSE {})
      BY <1>3, <1>4, <2>5, <2>6, <2>7, <2>8
    <2> QED  BY <2>5, <2>9
  <1> QED  BY <1>2, <1>5, <1>6

\* The shares those sets add up to, before and after.
LEMMA FilledShares ==
    ASSUME LedgerInv, NEW o \in Orders, NEW x, NEW row, Fills(o, x, row)
    PROVE  /\ Shares(FilledIn(x)) \in Int
           /\ Shares(FilledIn(x))' = Shares(FilledIn(x))
                                        + (IF Selling(o) THEN 0 - Quantity ELSE Quantity)
           /\ \A d \in 1 .. day :
                 /\ Shares(SellableRows(x, d)) \in Int
                 /\ Shares(SellableRows(x, d))' = Shares(SellableRows(x, d))
                        + (IF Selling(o) /\ d = day THEN 0 - Quantity ELSE 0)
                 /\ d # day => (SoldSameDay(x, d)' <=> SoldSameDay(x, d))
  <1>1. x \in Stocks /\ order[o] = None
    BY StockOfAssumption DEF LedgerInv, RowsDated, Fills
  <1>2. /\ FilledIn(x) \in SUBSET Orders /\ Sales(FilledIn(x)) \in SUBSET FilledIn(x)
        /\ Shares(FilledIn(x)) = Lot(FilledIn(x), Sales(FilledIn(x)))
    BY <1>1, SharesAreLots
  <1>3. Shares(FilledIn(x)) \in Int
    BY <1>2, LotInt
  <1>4. Shares(FilledIn(x))' = Shares(FilledIn(x))
                                  + (IF Selling(o) THEN 0 - Quantity ELSE Quantity)
    <2> day \in 1 .. day
      BY CashAssumption DEF LedgerInv, LedgerTypes
    <2>1. PICK os, sales : os = FilledIn(x) /\ sales = Sales(FilledIn(x))
      OBVIOUS
    <2>2. /\ o \notin os /\ FilledIn(x)' = os \cup {o}
          /\ Sales(FilledIn(x))' = sales \cup (IF Selling(o) THEN {o} ELSE {})
      BY <2>1, FilledRows
    <2>3. Shares(FilledIn(x))' = Lot(os \cup {o}, sales \cup (IF Selling(o) THEN {o} ELSE {}))
      <3>1. PICK u, v : u = FilledIn(x)' /\ v = Sales(FilledIn(x))'
        OBVIOUS
      <3>2. Shares(FilledIn(x))' = Lot(u, v)
        BY <1>1, <3>1, SharesAreLotsNext
      <3>3. u = os \cup {o} /\ v = sales \cup (IF Selling(o) THEN {o} ELSE {})
        BY <2>2, <3>1
      <3> QED  BY <3>2, <3>3
    <2>4. CASE Selling(o)
      <3>1. Shares(FilledIn(x))' = Lot(os \cup {o}, sales \cup {o})
        BY <2>3, <2>4
      <3>2. Lot(os \cup {o}, sales \cup {o}) = Lot(os, sales) - Quantity
        BY <1>2, <2>1, <2>2, LotSell
      <3> QED  BY <1>2, <1>3, <2>1, <2>4, <3>1, <3>2, QuantityAssumption
    <2>5. CASE ~Selling(o)
      <3>1. sales \cup {} = sales
        OBVIOUS
      <3>2. Shares(FilledIn(x))' = Lot(os \cup {o}, sales)
        BY <2>3, <2>5, <3>1
      <3>3. Lot(os \cup {o}, sales) = Lot(os, sales) + Quantity
        BY <1>2, <2>1, <2>2, LotBuy
      <3> QED  BY <1>2, <1>3, <2>1, <2>5, <3>2, <3>3, QuantityAssumption
    <2> QED  BY <2>4, <2>5
  <1>5. ASSUME NEW d \in 1 .. day
        PROVE  /\ Shares(SellableRows(x, d)) \in Int
               /\ Shares(SellableRows(x, d))' = Shares(SellableRows(x, d))
                      + (IF Selling(o) /\ d = day THEN 0 - Quantity ELSE 0)
               /\ d # day => (SoldSameDay(x, d)' <=> SoldSameDay(x, d))
    <2>1. PICK os, sales : os = SellableRows(x, d) /\ sales = Sales(SellableRows(x, d))
      OBVIOUS
    <2>2. /\ os \in SUBSET Orders /\ sales \in SUBSET os /\ o \notin os
          /\ Shares(SellableRows(x, d)) = Lot(os, sales)
          /\ SoldSameDay(x, d) <=> held[x] + Lot(os, sales) < 0
      <3>1. FilledIn(x) \in SUBSET Orders /\ SellableRows(x, d) \in SUBSET FilledIn(x)
            /\ o \notin FilledIn(x)
        BY <1>1, SharesAreLots, FilledRows
      <3> QED  BY <1>1, <2>1, <3>1, SharesAreLots
    <2>3. Lot(os, sales) \in Int
      BY <2>2, LotInt
    <2>4. CASE Selling(o) /\ d = day
      <3>1. SellableRows(x, d)' = os \cup {o} /\ Sales(SellableRows(x, d))' = sales \cup {o}
        BY <2>1, <2>4, FilledRows
      <3>2. Shares(SellableRows(x, d))' = Lot(os \cup {o}, sales \cup {o})
        <4>1. PICK u, v : u = SellableRows(x, d)' /\ v = Sales(SellableRows(x, d))'
          OBVIOUS
        <4>2. Shares(SellableRows(x, d))' = Lot(u, v)
          BY <1>1, <4>1, SharesAreLotsNext
        <4>3. u = os \cup {o} /\ v = sales \cup {o}
          BY <3>1, <4>1
        <4> QED  BY <4>2, <4>3
      <3>3. Lot(os \cup {o}, sales \cup {o}) = Lot(os, sales) - Quantity
        BY <2>2, LotSell
      <3> QED  BY <2>2, <2>3, <2>4, <3>2, <3>3, QuantityAssumption
    <2>5. CASE ~(Selling(o) /\ d = day)
      <3>2. SellableRows(x, d)' = os /\ Sales(SellableRows(x, d))' = sales
        BY <2>1, <2>5, FilledRows
      <3>3. /\ Shares(SellableRows(x, d))' = Lot(os, sales)
            /\ SoldSameDay(x, d)' <=> held'[x] + Lot(os, sales) < 0
        BY <1>1, <3>2, SharesAreLotsNext
      <3> QED  BY <2>2, <2>3, <2>5, <3>3 DEF Fills
    <2> QED  BY <2>4, <2>5
  <1> QED  BY <1>3, <1>4, <1>5

\* The cash moves by what the filled row says.
LEMMA CashBooked ==
    ASSUME LedgerInv, NEW o \in Orders, sess[o].pc = "written", NEW row \in OrderRow,
           row.status = "FILLED", row.side = sess[o].side, row.price = sess[o].price,
           order' = [order EXCEPT ![o] = row], cash' = cash + Proceeds(o)
    PROVE  CashMatchesOrders'
  <1>1. /\ order \in [Orders -> OrderRow \cup {None}] /\ order[o] = None /\ row # None
        /\ order'[o] = row /\ \A q \in Orders \ {o} : order'[q] = order[q]
        /\ order' \in [Orders -> OrderRow \cup {None}]
    BY NoRow DEF LedgerInv, LedgerTypes, RowsDated
  <1>2. PICK S : S = Filled
    OBVIOUS
  <1>3. /\ S = {q \in Orders : order[q] # None /\ order[q].status = "FILLED"}
        /\ IsFiniteSet(S) /\ S \in SUBSET Orders /\ \A q \in S : order[q] \in OrderRow
    BY <1>2, FilledFacts DEF LedgerInv
  <1>4. PICK T : T = S \cup {o}
    OBVIOUS
  <1>5. Filled' = T
    <2>1. Filled' = {q \in Orders : order'[q] # None /\ order'[q].status = "FILLED"}
      BY StockOfAssumption DEF Filled, FilledIn
    <2> QED  BY <1>1, <1>3, <1>4, <2>1
  <1>6. PICK F : F = [q \in S |-> (IF order[q].side = "SELL" THEN 1 ELSE 0 - 1)
                                     * order[q].price * Quantity - Fee]
    OBVIOUS
  <1>7. PICK G : G = [q \in T |-> (IF order'[q].side = "SELL" THEN 1 ELSE 0 - 1)
                                     * order'[q].price * Quantity - Fee]
    OBVIOUS
  <1>8. o \notin S /\ IsFiniteSet(T) /\ T \ {o} = S /\ o \in T
    BY <1>1, <1>3, <1>4, FS_AddElement
  <1>9. ASSUME NEW q \in S  PROVE F[q] \in Int /\ G[q] = F[q]
    <2>1. order'[q] = order[q] /\ order[q].price \in Nat
      BY <1>1, <1>3, <1>8 DEF OrderRow
    <2>2. F[q] = (IF order[q].side = "SELL" THEN 1 ELSE 0 - 1)
                    * order[q].price * Quantity - Fee
      BY <1>6
    <2>3. G[q] = (IF order[q].side = "SELL" THEN 1 ELSE 0 - 1)
                    * order[q].price * Quantity - Fee
      BY <1>4, <1>7, <2>1
    <2> QED  BY <2>1, <2>2, <2>3, QuantityAssumption, FeeAssumption
  <1>10. G[o] = Proceeds(o) /\ Proceeds(o) \in Int
    <2>1. PICK p : p = sess[o].price
      OBVIOUS
    <2>2. p \in Nat
      BY <2>1 DEF LedgerInv, LedgerTypes, Transaction
    <2>3. G[o] = (IF sess[o].side = "SELL" THEN 1 ELSE 0 - 1) * p * Quantity - Fee
      BY <1>1, <1>7, <1>8, <2>1
    <2>4. Proceeds(o) = IF sess[o].side = "SELL" THEN p * Quantity - Fee
                                                 ELSE 0 - p * Quantity - Fee
      BY <2>1 DEF Proceeds, Selling, Amount
    <2>5. (0 - 1) * p * Quantity = 0 - p * Quantity /\ 1 * p * Quantity = p * Quantity
          /\ p * Quantity \in Nat
      BY <2>2, QuantityAssumption
    <2> QED  BY <2>3, <2>4, <2>5, FeeAssumption
  <1>11. Sum(G, T) = G[o] + Sum(G, S)
    <2>1. \A q \in T : G[q] \in Int
      BY <1>4, <1>9, <1>10
    <2> QED  BY <1>8, <2>1, SumTake
  <1>12. Sum(G, S) = Sum(F, S) /\ Sum(F, S) \in Int
    BY <1>3, <1>9, SumCompare, SumInt
  <1>13. cash = Cash + Sum(F, S)
    BY <1>2, <1>6, CashNow DEF LedgerInv
  <1>14. cash' = Cash + Sum(G, T)
    BY <1>10, <1>11, <1>12, <1>13, CashAssumption
  <1> QED  BY <1>5, <1>7, <1>14, CashNext

LEMMA BookStep ==
    ASSUME LedgerInv, NEW o \in Orders, Book(o)
    PROVE  LedgerInv'
  <1>1. PICK x, row, p : x = StockOf[o] /\ row = sess[o].row /\ p = sess[o].price
    OBVIOUS
  <1>2. PICK filled : filled = [status |-> "FILLED", side |-> sess[o].side,
                                price |-> sess[o].price, day |-> day]
    OBVIOUS
  <1>3. PICK next : next = [Idle EXCEPT !.pc = "done"]
    OBVIOUS
  <1>4. /\ sess[o].pc = "written"
        /\ position' = [position EXCEPT ![x] = row]
        /\ order' = [order EXCEPT ![o] = filled]
        /\ cash' = cash + Proceeds(o) /\ assets' = AssetsAfter(o)
        /\ sess' = [sess EXCEPT ![o] = next]
        /\ overtaken' = overtaken \cup {q \in Orders \ {o} : sess[q].pc \in Submitting}
        /\ UNCHANGED <<day, sync, release, held, unlocked>>
    BY <1>1, <1>2, <1>3 DEF Book, Ends, others, Submitting
  <1>5. /\ x \in Stocks /\ sess[o] \in Transaction /\ sess \in [Orders -> Transaction]
        /\ position \in [Stocks -> PositionRow \cup {None}] /\ row \in PositionRow \cup {None}
        /\ order \in [Orders -> OrderRow \cup {None}] /\ order[o] = None
        /\ day \in Nat /\ day \in 1 .. day /\ p \in Prices /\ p \in Nat /\ held[x] \in Nat
    <2>1. /\ x \in Stocks /\ sess \in [Orders -> Transaction]
          /\ position \in [Stocks -> PositionRow \cup {None}]
          /\ order \in [Orders -> OrderRow \cup {None}] /\ held \in [Stocks -> Nat]
          /\ day \in 1 .. MaxDay
      BY <1>1, StockOfAssumption DEF LedgerInv, LedgerTypes
    <2>2. sess[o] \in Transaction /\ held[x] \in Nat
      BY <2>1
    <2>3. row \in PositionRow \cup {None} /\ p \in Nat
      BY <1>1, <2>2 DEF Transaction
    <2>4. day \in Nat /\ day \in 1 .. day
      BY <2>1, CashAssumption
    <2>5. order[o] = None /\ p \in Prices
      BY <1>1, <1>4 DEF LedgerInv, RowsDated, Submitting
    <2> QED  BY <2>1, <2>2, <2>3, <2>4, <2>5
  <1>6. /\ filled \in OrderRow /\ filled.status = "FILLED" /\ filled.side = sess[o].side
        /\ filled.price = p /\ filled.day = day /\ filled # None
    BY <1>1, <1>2, <1>5, NoRow DEF OrderRow, Transaction
  <1>7. next \in Transaction /\ next.pc = "done"
    BY <1>3, IdleAgain
  <1>8. /\ sess'[o] = next /\ \A q \in Orders \ {o} : sess'[q] = sess[q]
        /\ order'[o] = filled /\ \A q \in Orders \ {o} : order'[q] = order[q]
        /\ position'[x] = row /\ \A y \in Stocks \ {x} : position'[y] = position[y]
    BY <1>4, <1>5
  <1>9. Proceeds(o) \in Int
    <2>1. Amount(o) \in Int
      BY <1>1, <1>5, QuantityAssumption DEF Amount
    <2> QED  BY <2>1, FeeAssumption DEF Proceeds
  <1>10. LedgerTypes'
    <2>1. position' \in [Stocks -> PositionRow \cup {None}]
      BY <1>4, <1>5
    <2>2. cash' \in Int
      BY <1>4, <1>9 DEF LedgerInv, LedgerTypes
    <2>3. assets' \in Int
      <3>1. PICK w : w = ValueSum(position')
        OBVIOUS
      <3>2. w \in Int
        BY <2>1, <3>1, ValueSumInt
      <3>3. assets' = cash + Proceeds(o) + w
        BY <1>1, <1>4, <3>1 DEF AssetsAfter
      <3> QED  BY <1>9, <3>2, <3>3 DEF LedgerInv, LedgerTypes
    <2>4. order' \in [Orders -> OrderRow \cup {None}] /\ sess' \in [Orders -> Transaction]
      BY <1>4, <1>5, <1>6, <1>7
    <2> QED  BY <1>4, <2>1, <2>2, <2>3, <2>4 DEF LedgerInv, LedgerTypes
  <1>11. RowsDated'
    BY <1>4, <1>5, <1>6, <1>7, <1>8 DEF LedgerInv, RowsDated, Submitting
  <1>12. RowsLocked'
    BY <1>1, <1>4, <1>7, <1>8 DEF LedgerInv, RowsLocked
  <1>13. Undisturbed'
    <2>1. \A q \in Orders : sess'[q].pc \in Submitting => q \in overtaken'
      BY <1>4, <1>7, <1>8 DEF Submitting
    <2> QED  BY <2>1 DEF Undisturbed
  <1>14. CashMatchesOrders'
    BY <1>1, <1>4, <1>6, CashBooked
  <1>15. \A y \in Stocks : Calm(y)' => Calm(y)
    BY <1>4 DEF Calm
  <1>16. /\ Total(x)' = (IF row = None THEN 0 ELSE row.total)
         /\ Available(x)' = (IF row = None THEN 0 ELSE row.available)
         /\ \A y \in Stocks \ {x} : Total(y)' = Total(y) /\ Available(y)' = Available(y)
    BY <1>8 DEF Total, Available
  <1>17. ASSUME NEW y \in Stocks \ {x}, NEW d
         PROVE  /\ Shares(FilledIn(y))' = Shares(FilledIn(y))
                /\ Shares(SellableRows(y, d))' = Shares(SellableRows(y, d))
                /\ SoldSameDay(y, d)' <=> SoldSameDay(y, d)
    <2>1. /\ FilledIn(y)' = FilledIn(y)
          /\ Sales(FilledIn(y))' = Sales(FilledIn(y))
          /\ SellableRows(y, d)' = SellableRows(y, d)
          /\ Sales(SellableRows(y, d))' = Sales(SellableRows(y, d))
      BY <1>1, <1>8, SameFilledIn
    <2> QED  BY <1>4, <2>1, SharesAreLots, SharesAreLotsNext
  <1>18. /\ Shares(FilledIn(x)) \in Int
         /\ Shares(FilledIn(x))' = Shares(FilledIn(x))
                                      + (IF Selling(o) THEN 0 - Quantity ELSE Quantity)
         /\ \A d \in 1 .. day :
               /\ Shares(SellableRows(x, d)) \in Int
               /\ Shares(SellableRows(x, d))' = Shares(SellableRows(x, d))
                      + (IF Selling(o) /\ d = day THEN 0 - Quantity ELSE 0)
               /\ d # day => (SoldSameDay(x, d)' <=> SoldSameDay(x, d))
    <2>1. Fills(o, x, filled)
      BY <1>1, <1>4, <1>6 DEF Fills
    <2> QED  BY <2>1, FilledShares
  <1>19. /\ Total(x) \in Nat /\ Available(x) \in Nat /\ Total(x)' \in Nat /\ Available(x)' \in Nat
    BY <1>5, <1>16, StockFacts DEF LedgerInv, PositionRow
  \* What the order leaves of a stock in which nothing overlapped.
  <1>20. ASSUME Calm(x)
         PROVE  /\ Total(x) = held[x] + Shares(FilledIn(x)) /\ Available(x) <= Total(x)
                /\ Selling(o) => /\ Total(x)' = Total(x) - Quantity
                                 /\ Available(x)' <= Available(x) - Quantity
                                 /\ Available(x)' <= Total(x)'
                /\ ~Selling(o) => Total(x)' = Total(x) + Quantity /\ Available(x)' = Available(x)
    <2>1. Total(x) = held[x] + Shares(FilledIn(x)) /\ Available(x) <= Total(x)
      BY <1>5, <1>20 DEF LedgerInv, SerialOrdersAddUp, Calm
    <2>2. o \notin overtaken
      BY <1>1, <1>20 DEF Calm
    <2>3. Leaves(o) /\ (Selling(o) => Available(x) >= Quantity)
      BY <1>1, <1>4, <2>2 DEF LedgerInv, Undisturbed, Submitting
    <2>4. CASE Selling(o) /\ row = None
      <3>1. Total(x) <= Quantity
        BY <1>1, <2>3, <2>4 DEF Leaves
      <3> QED  BY <1>16, <1>19, <2>1, <2>3, <2>4, <3>1, QuantityAssumption
    <2>5. CASE Selling(o) /\ row # None
      <3>1. row.total = Total(x) - Quantity /\ row.available <= Available(x) - Quantity
        BY <1>1, <2>3, <2>5 DEF Leaves
      <3> QED  BY <1>16, <1>19, <2>1, <2>3, <2>5, <3>1, QuantityAssumption
    <2>6. CASE ~Selling(o)
      <3>1. row # None /\ row.total = Total(x) + Quantity /\ row.available = Available(x)
        BY <1>1, <2>3, <2>6 DEF Leaves
      <3> QED  BY <1>16, <2>1, <2>6, <3>1
    <2> QED  BY <2>4, <2>5, <2>6
  <1>21. SerialOrdersAddUp'
    <2>1. ASSUME NEW y \in Stocks, Calm(y)'
          PROVE  Total(y)' = held'[y] + Shares(FilledIn(y))' /\ Available(y)' <= Total(y)'
      <3>1. CASE y = x
        <4>1. Calm(x)
          BY <1>15, <2>1, <3>1
        <4>2. Total(x)' = held'[x] + Shares(FilledIn(x))' /\ Available(x)' <= Total(x)'
          BY <1>4, <1>5, <1>18, <1>19, <1>20, <4>1, QuantityAssumption
        <4> QED  BY <3>1, <4>2
      <3>2. CASE y # x
        <4>1. Calm(y)
          BY <1>15, <2>1
        <4>2. Total(y) = held[y] + Shares(FilledIn(y)) /\ Available(y) <= Total(y)
          BY <4>1 DEF LedgerInv, SerialOrdersAddUp, Calm
        <4> QED  BY <1>4, <1>16, <1>17, <3>2, <4>2
      <3> QED  BY <3>1, <3>2
    <2>2. ASSUME overtaken' = {}  PROVE cash' >= 0
      <3>1. overtaken = {} /\ o \notin overtaken
        BY <1>4, <2>2
      <3>2. cash >= 0 /\ cash \in Int /\ (~Selling(o) => cash >= Amount(o) + Fee)
        BY <1>4, <3>1 DEF LedgerInv, LedgerTypes, SerialOrdersAddUp, Undisturbed, Submitting
      <3>3. Amount(o) \in Int /\ Fee <= Amount(o)
        BY <1>1, <1>5, QuantityAssumption, FeeAssumption DEF Amount
      <3> QED  BY <1>4, <3>2, <3>3, FeeAssumption DEF Proceeds
    <2> QED  BY <2>1, <2>2 DEF SerialOrdersAddUp, Calm
  <1>22. ASSUME NEW y \in Stocks, Calm(y)', <<day, y>> \notin unlocked
         PROVE  Available(y)' <= held'[y] + Shares(SellableRows(y, day))'
    <2>1. PICK d : d = day
      OBVIOUS
    <2>2. Calm(y) /\ d \in 1 .. day
      BY <1>5, <1>15, <1>22, <2>1
    <2>3. Available(y) <= held[y] + Shares(SellableRows(y, d))
      BY <1>22, <2>1, <2>2 DEF LedgerInv, PurchasesLocked
    <2>4. Available(y)' <= held'[y] + Shares(SellableRows(y, d))'
      <3>1. CASE y = x
        <4>1. Available(x)' <= held'[x] + Shares(SellableRows(x, d))'
          <5>1. PICK s : s = Shares(SellableRows(x, d))
            OBVIOUS
          <5>2. /\ s \in Int
                /\ Shares(SellableRows(x, d))' = s + (IF Selling(o) THEN 0 - Quantity ELSE 0)
            BY <1>18, <2>1, <2>2, <5>1
          <5>3. Available(x) <= held[x] + s
            BY <2>3, <3>1, <5>1
          <5>4. IF Selling(o) THEN Available(x)' <= Available(x) - Quantity
                              ELSE Available(x)' = Available(x)
            BY <1>20, <2>2, <3>1
          <5> QED  BY <1>4, <1>5, <1>19, <5>2, <5>3, <5>4, QuantityAssumption
        <4> QED  BY <3>1, <4>1
      <3>2. CASE y # x
        BY <1>4, <1>16, <1>17, <2>3, <3>2
      <3> QED  BY <3>1, <3>2
    <2>5. d = day'
      BY <1>4, <2>1
    <2> QED  BY <2>4, <2>5, TodayNext
  <1>23. PurchasesLocked'
    BY <1>4, <1>22 DEF PurchasesLocked
  <1>24. SameDaySaleHasACause'
    <2> SUFFICES ASSUME NEW y \in Stocks, NEW d \in 1 .. day, SoldSameDay(y, d)',
                        <<d, y>> \notin unlocked, \A q \in overtaken' : StockOf[q] # y
                 PROVE  FALSE
      BY <1>4 DEF SameDaySaleHasACause
    <2>1. Calm(y)' /\ Calm(y)
      BY <1>15 DEF Calm
    <2>2. CASE y # x \/ d # day
      <3>1. SoldSameDay(y, d)
        BY <1>17, <1>18, <2>2
      <3> QED  BY <2>1, <3>1 DEF LedgerInv, SameDaySaleHasACause, Calm
    <2>3. CASE y = x /\ d = day
      <3>1. Available(x)' <= held'[x] + Shares(SellableRows(x, day))'
        BY <1>22, <2>1, <2>3
      <3>2. d = day' /\ Shares(SellableRows(x, day))' = Shares(SellableRows(x, d))'
        BY <1>4, <1>5, <2>3, TodayNext
      <3>3. held'[x] + Shares(SellableRows(x, d))' < 0
        <4>1. SoldSameDay(x, d)'
          BY <2>3
        <4> QED  BY <1>5, <4>1, SharesAreLotsNext
      <3>4. Shares(SellableRows(x, d))' \in Int
        BY <1>18, <2>3, QuantityAssumption
      <3> QED  BY <1>4, <1>5, <1>19, <3>1, <3>2, <3>3, <3>4
    <2> QED  BY <2>2, <2>3
  <1> QED  BY <1>10, <1>11, <1>12, <1>13, <1>14, <1>21, <1>23, <1>24 DEF LedgerInv

-----------------------------------------------------------------------------
(* Cancelling, releases, valuations, and the night. *)

LEMMA CancelStep ==
    ASSUME LedgerInv, NEW o \in Orders, Cancel(o)
    PROVE  LedgerInv'
  <1>1. /\ order[o] # None /\ order[o].status = "SUBMITTED"
        /\ order' = [order EXCEPT ![o].status = "CANCELLED"]
        /\ UNCHANGED <<day, position, cash, assets, sess, sync, release, held, overtaken, unlocked>>
    BY DEF Cancel, others
  <1>2. order \in [Orders -> OrderRow \cup {None}] /\ order[o] \in OrderRow
    BY <1>1 DEF LedgerInv, LedgerTypes
  <1>3. PICK r, row : r = order[o] /\ row = [r EXCEPT !.status = "CANCELLED"]
    OBVIOUS
  <1>4. r = [status |-> r.status, side |-> r.side, price |-> r.price, day |-> r.day]
    BY <1>2, <1>3 DEF OrderRow
  <1>5. row = [status |-> "CANCELLED", side |-> r.side, price |-> r.price, day |-> r.day]
    BY <1>3, <1>4
  <1>6. /\ row \in OrderRow /\ row.status = "CANCELLED" /\ row.price = r.price /\ row.day = r.day
        /\ row # None
    BY <1>2, <1>3, <1>5, NoRow DEF OrderRow
  <1>7. order' = [order EXCEPT ![o] = row]
    BY <1>1, <1>3
  <1>8. /\ order'[o] = row /\ \A q \in Orders \ {o} : order'[q] = order[q]
        /\ order' \in [Orders -> OrderRow \cup {None}]
    BY <1>2, <1>6, <1>7
  <1>9. FilledRowsStay
    BY <1>1, <1>6, <1>8 DEF FilledRowsStay
  <1>10. LedgerTypes'
    BY <1>1, <1>8 DEF LedgerInv, LedgerTypes
  <1>11. RowsDated'
    BY <1>1, <1>3, <1>6, <1>8 DEF LedgerInv, RowsDated
  <1>12. RowsLocked'
    BY <1>1 DEF LedgerInv, RowsLocked
  <1>13. \A x \in Stocks : Total(x)' = Total(x) /\ Available(x)' = Available(x)
    BY <1>1 DEF Total, Available
  <1>14. Undisturbed'
    BY <1>1 DEF LedgerInv, Undisturbed, Selling, Amount, Sees, Leaves, Total, Available
  <1>15. PurchasesLocked' /\ CashMatchesOrders' /\ SerialOrdersAddUp' /\ SameDaySaleHasACause'
    BY <1>1, <1>9, <1>13, BooksQuiet DEF Opens
  <1> QED  BY <1>10, <1>11, <1>12, <1>14, <1>15 DEF LedgerInv

\* Positions are opened or valued; the transactions of orders wait.
LEMMA PositionStep ==
    ASSUME LedgerInv, UNCHANGED <<day, order, cash, sess, held, overtaken>>,
           position' \in [Stocks -> PositionRow \cup {None}], assets' \in Int,
           sync' \in Pass, release' = None \/ release' \subseteq Stocks,
           unlocked \subseteq unlocked',
           \A x \in Stocks :
              /\ position'[x] = None <=> position[x] = None
              /\ Total(x)' = Total(x) /\ Opens(x) /\ Available(x)' >= Available(x)
              /\ sync'.value[x] # None =>
                    /\ position[x] # None
                    /\ \A o \in Orders : sess[o].pc = "written" => StockOf[o] # x
              /\ Available(x)' # Available(x) =>
                    \A o \in Orders : sess[o].pc = "written" => StockOf[o] # x
    PROVE  LedgerInv'
  <1>1. LedgerTypes'
    BY DEF LedgerInv, LedgerTypes
  <1>2. RowsDated'
    BY DEF LedgerInv, RowsDated
  <1>3. RowsLocked'
    BY DEF LedgerInv, RowsLocked
  <1>4. FilledRowsStay
    BY DEF FilledRowsStay
  <1>5. PurchasesLocked' /\ CashMatchesOrders' /\ SerialOrdersAddUp' /\ SameDaySaleHasACause'
    BY <1>4, BooksQuiet
  <1>6. Undisturbed'
    <2> SUFFICES ASSUME NEW o \in Orders, sess[o].pc \in Submitting, o \notin overtaken
                 PROVE  /\ IF Selling(o)' THEN Available(StockOf[o])' >= Quantity
                                          ELSE cash' >= Amount(o)' + Fee
                        /\ sess[o].pc = "read" => Sees(o)'
                        /\ sess[o].pc = "written" => Leaves(o)'
      BY DEF Undisturbed
    <2>1. PICK x : x = StockOf[o]
      OBVIOUS
    <2>2. /\ x \in Stocks /\ Total(x) \in Nat /\ Available(x) \in Nat
          /\ position' \in [Stocks -> PositionRow \cup {None}]
          /\ position[x] # None => position[x] \in PositionRow /\ position'[x] \in PositionRow
      BY <2>1, StockOfAssumption, StockFacts DEF LedgerInv, LedgerTypes
    <2>3. /\ IF Selling(o) THEN Available(x) >= Quantity ELSE cash >= Amount(o) + Fee
          /\ sess[o].pc = "read" => Sees(o)
          /\ sess[o].pc = "written" => Leaves(o)
      BY <2>1 DEF LedgerInv, Undisturbed
    <2>4. (Selling(o)' <=> Selling(o)) /\ Amount(o)' = Amount(o)
      BY DEF Selling, Amount
    <2>5. Available(x)' \in Nat
      BY <2>2 DEF Available, PositionRow
    <2>6. IF Selling(o)' THEN Available(x)' >= Quantity ELSE cash' >= Amount(o)' + Fee
      BY <2>2, <2>3, <2>4, <2>5, QuantityAssumption
    <2>7. ASSUME sess[o].pc = "read"  PROVE Sees(o)'
      <3>1. PICK seen : seen = sess[o].seen
        OBVIOUS
      <3>2. /\ seen = None <=> position[x] = None
            /\ seen # None => /\ seen.total = position[x].total
                              /\ seen.available <= position[x].available
        BY <2>1, <2>3, <2>7, <3>1 DEF Sees
      <3>3. ASSUME seen # None
            PROVE  /\ position'[x].total = position[x].total
                   /\ position'[x].available >= position[x].available
        BY <2>2, <3>2, <3>3 DEF Total, Available
      <3>4. seen # None => seen.total = position'[x].total /\ seen.available <= position'[x].available
        <4>1. seen \in PositionRow \cup {None}
          BY <3>1 DEF LedgerInv, LedgerTypes, Transaction
        <4> QED  BY <2>2, <3>2, <3>3, <4>1 DEF PositionRow
      <3>5. seen = None <=> position'[x] = None
        BY <2>2, <3>2
      <3>6. sess'[o].seen = seen
        BY <3>1
      <3> QED  BY <2>1, <3>4, <3>5, <3>6 DEF Sees
    <2>8. ASSUME sess[o].pc = "written"  PROVE Leaves(o)'
      <3>1. Available(x)' = Available(x) /\ Total(x)' = Total(x)
        BY <2>1, <2>2, <2>8
      <3>2. PICK a, t : a = Available(x) /\ t = Total(x)
        OBVIOUS
      <3>3. Leaves(o)
        BY <2>3, <2>8
      <3> QED  BY <2>1, <2>4, <3>1, <3>3 DEF Leaves
    <2> QED  BY <2>1, <2>6, <2>7, <2>8
  <1> QED  BY <1>1, <1>2, <1>3, <1>5, <1>6 DEF LedgerInv

LEMMA ReleaseStep ==
    ASSUME LedgerInv, NEW xs \in SUBSET Stocks, ReleaseAll(xs),
           release' = None \/ release' \subseteq Stocks
    PROVE  LedgerInv'
  <1>1. PICK opened : opened = {x \in xs : Open(x)}
    OBVIOUS
  <1>2. /\ \A x \in opened : Holders(x) = {}
        /\ position' = [x \in Stocks |-> IF x \in opened
                                         THEN [position[x] EXCEPT !.available = position[x].total]
                                         ELSE position[x]]
        /\ unlocked' = unlocked \cup {<<day, x>> : x \in {y \in opened : BoughtToday(y)}}
        /\ UNCHANGED <<day, order, cash, assets, sess, sync, held, overtaken>>
    BY <1>1 DEF ReleaseAll
  <1>3. /\ position \in [Stocks -> PositionRow \cup {None}] /\ assets \in Int /\ sync \in Pass
        /\ RowsLocked
    BY DEF LedgerInv, LedgerTypes
  <1>4. ASSUME NEW x \in Stocks, x \notin opened
        PROVE  position'[x] = position[x]
    BY <1>2, <1>4
  <1>5. ASSUME NEW x \in opened
        PROVE  /\ x \in Stocks /\ position[x] \in PositionRow /\ position[x] # None
               /\ position'[x] \in PositionRow /\ position'[x].total = position[x].total
               /\ position'[x].available = position[x].total
               /\ position[x].available < position[x].total
               /\ position'[x] # None
    <2>1. /\ x \in Stocks /\ position[x] # None /\ position[x] \in PositionRow
          /\ position[x].available < position[x].total
      BY <1>1, <1>3, <1>5 DEF Open
    <2>2. PICK r : r = position[x]
      OBVIOUS
    <2>3. r = [total |-> r.total, available |-> r.available, value |-> r.value]
      BY <2>1, <2>2 DEF PositionRow
    <2>4. position'[x] = [r EXCEPT !.available = r.total]
      BY <1>2, <1>5, <2>1, <2>2
    <2>5. position'[x] = [total |-> r.total, available |-> r.total, value |-> r.value]
      BY <2>3, <2>4
    <2>6. r.total \in Nat \ {0} /\ r.value \in Nat
      BY <2>1, <2>2 DEF PositionRow
    <2>7. position'[x] \in PositionRow
      BY <2>5, <2>6 DEF PositionRow
    <2> QED  BY <2>1, <2>2, <2>5, <2>7, NoRow
  <1>6. position' \in [Stocks -> PositionRow \cup {None}]
    <2>1. \A x \in Stocks : position'[x] \in PositionRow \cup {None}
      BY <1>3, <1>4, <1>5
    <2>2. position' = [x \in Stocks |-> position'[x]]
      BY <1>2
    <2> QED  BY <2>1, <2>2
  <1>7. ASSUME NEW x \in Stocks
        PROVE  /\ position'[x] = None <=> position[x] = None
               /\ Total(x)' = Total(x) /\ Opens(x) /\ Available(x)' >= Available(x)
               /\ sync'.value[x] # None =>
                     /\ position[x] # None
                     /\ \A o \in Orders : sess[o].pc = "written" => StockOf[o] # x
               /\ Available(x)' # Available(x) =>
                     \A o \in Orders : sess[o].pc = "written" => StockOf[o] # x
    <2>1. sync'.value[x] # None =>
             /\ position[x] # None
             /\ \A o \in Orders : sess[o].pc = "written" => StockOf[o] # x
      BY <1>2, <1>3 DEF RowsLocked
    <2>2. CASE x \notin opened
      <3>1. Total(x)' = Total(x) /\ Available(x)' = Available(x) /\ position'[x] = position[x]
        BY <1>4, <2>2 DEF Total, Available
      <3>2. Available(x) \in Nat
        BY StockFacts DEF LedgerInv
      <3> QED  BY <2>1, <3>1, <3>2 DEF Opens
    <2>3. CASE x \in opened
      <3>1. /\ Total(x)' = Total(x) /\ Available(x)' = Total(x) /\ Available(x)' >= Available(x)
            /\ position'[x] # None /\ position[x] # None
        BY <1>5, <2>3 DEF Total, Available, PositionRow
      <3>2. \A o \in Orders : sess[o].pc = "written" => StockOf[o] # x
        BY <1>2, <2>3 DEF Holders
      <3>3. BoughtToday(x) => <<day, x>> \in unlocked'
        BY <1>2, <2>3
      <3> QED  BY <2>1, <3>1, <3>2, <3>3 DEF Opens
    <2> QED  BY <2>2, <2>3
  <1>8. unlocked \subseteq unlocked'
    BY <1>2
  <1> QED  BY <1>2, <1>3, <1>6, <1>7, <1>8, PositionStep

\* A pass of the valuation that writes no row of its own yet, or none at all.
LEMMA PassStep ==
    ASSUME LedgerInv, UNCHANGED <<day, order, position, cash, assets, sess, held, overtaken, unlocked>>,
           sync' \in Pass, release' = None \/ release' \subseteq Stocks,
           \A x \in Stocks : sync'.value[x] # None => sync.value[x] # None \/ 
                    /\ position[x] # None
                    /\ \A o \in Orders : sess[o].pc = "written" => StockOf[o] # x
    PROVE  LedgerInv'
  <1>1. /\ position' \in [Stocks -> PositionRow \cup {None}] /\ assets' \in Int
        /\ unlocked \subseteq unlocked'
    BY DEF LedgerInv, LedgerTypes
  <1>2. ASSUME NEW x \in Stocks
        PROVE  /\ position'[x] = None <=> position[x] = None
               /\ Total(x)' = Total(x) /\ Opens(x) /\ Available(x)' >= Available(x)
               /\ sync'.value[x] # None =>
                     /\ position[x] # None
                     /\ \A o \in Orders : sess[o].pc = "written" => StockOf[o] # x
               /\ Available(x)' # Available(x) =>
                     \A o \in Orders : sess[o].pc = "written" => StockOf[o] # x
    <2>1. Total(x)' = Total(x) /\ Available(x)' = Available(x)
      BY DEF Total, Available
    <2>2. Available(x) \in Nat
      BY StockFacts DEF LedgerInv
    <2> QED  BY <2>1, <2>2 DEF Opens, LedgerInv, RowsLocked
  <1> QED  BY <1>1, <1>2, PositionStep

LEMMA ValuationStep ==
    ASSUME LedgerInv, Valuation
    PROVE  LedgerInv'
  <1>1. /\ sync \in Pass /\ position \in [Stocks -> PositionRow \cup {None}]
        /\ release = None \/ release \subseteq Stocks
        /\ sync = [pc |-> sync.pc, todo |-> sync.todo, seen |-> sync.seen,
                   value |-> sync.value, assets |-> sync.assets]
        /\ sync.todo \in SUBSET Stocks /\ sync.seen \in [Stocks -> Nat]
        /\ sync.value \in [Stocks -> Nat \cup {None}] /\ sync.assets \in Int
        /\ cash \in Int
    BY DEF LedgerInv, LedgerTypes, Pass
  <1>2. CASE SyncRead
    <2>1. PICK todo, seen : /\ todo = {x \in Stocks : position[x] # None}
                            /\ seen = [x \in Stocks |-> IF position[x] = None THEN 0
                                                        ELSE position[x].total]
      OBVIOUS
    <2>2. sync' = [pc |-> "rows", todo |-> todo, seen |-> seen,
                   value |-> sync.value, assets |-> sync.assets]
      <3>1. PICK s1 : s1 = [sync EXCEPT !.pc = "rows"]
        OBVIOUS
      <3>2. s1 = [pc |-> "rows", todo |-> sync.todo, seen |-> sync.seen,
                  value |-> sync.value, assets |-> sync.assets]
        BY <1>1, <3>1
      <3>3. PICK s2 : s2 = [s1 EXCEPT !.todo = todo]
        OBVIOUS
      <3>4. s2 = [pc |-> "rows", todo |-> todo, seen |-> sync.seen,
                  value |-> sync.value, assets |-> sync.assets]
        BY <3>2, <3>3
      <3>5. sync' = [s2 EXCEPT !.seen = seen]
        BY <1>2, <2>1, <3>1, <3>3 DEF SyncRead
      <3> QED  BY <3>4, <3>5
    <2>3. todo \in SUBSET Stocks /\ seen \in [Stocks -> Nat]
      BY <1>1, <2>1 DEF PositionRow
    <2>4. sync' \in Pass /\ sync'.value = sync.value
      BY <1>1, <2>2, <2>3 DEF Pass
    <2>5. /\ UNCHANGED <<day, order, position, cash, assets, sess, held, overtaken, unlocked>>
          /\ release' = release
      BY <1>2 DEF SyncRead, tables
    <2> QED  BY <1>1, <2>4, <2>5, PassStep
  <1>3. ASSUME NEW x \in Stocks, SyncValue(x)  PROVE LedgerInv'
    <2>1. /\ UNCHANGED <<day, order, position, cash, assets, sess, held, overtaken, unlocked>>
          /\ release' = release
      BY <1>3 DEF SyncValue, tables
    <2>2. PICK todo : todo = sync.todo \ {x}
      OBVIOUS
    <2>3. PICK s1 : s1 = [sync EXCEPT !.todo = todo]
      OBVIOUS
    <2>4. s1 = [pc |-> sync.pc, todo |-> todo, seen |-> sync.seen,
                value |-> sync.value, assets |-> sync.assets]
      BY <1>1, <2>3
    <2>5. todo \in SUBSET Stocks /\ sync.pc \in {"idle", "rows", "summed"}
      BY <1>1, <2>2 DEF Pass
    <2>6. CASE sync' = s1
      <3>1. sync' \in Pass /\ sync'.value = sync.value
        BY <1>1, <2>4, <2>5, <2>6 DEF Pass
      <3> QED  BY <1>1, <2>1, <3>1, PassStep
    <2>7. ASSUME Holders(x) = {}, position[x] # None, NEW p \in Prices,
                 sync' = [sync EXCEPT !.todo = @ \ {x}, !.value[x] = p * sync.seen[x]]
          PROVE  LedgerInv'
      <3>1. PICK value : value = [sync.value EXCEPT ![x] = p * sync.seen[x]]
        OBVIOUS
      <3>2. sync' = [s1 EXCEPT !.value[x] = p * sync.seen[x]]
        BY <2>2, <2>3, <2>7
      <3>3. s1.value = sync.value
        BY <2>4
      <3>4. sync' = [s1 EXCEPT !.value = value]
        BY <3>1, <3>2, <3>3
      <3>5. sync' = [pc |-> sync.pc, todo |-> todo, seen |-> sync.seen,
                     value |-> value, assets |-> sync.assets]
        BY <2>4, <3>4
      <3>6. value \in [Stocks -> Nat \cup {None}]
        <4>1. p * sync.seen[x] \in Nat
          BY <1>1, PricesAssumption
        <4> QED  BY <1>1, <3>1, <4>1
      <3>7. sync' \in Pass /\ sync'.value = value
        BY <1>1, <2>5, <3>5, <3>6 DEF Pass
      <3>8. \A o \in Orders : sess[o].pc = "written" => StockOf[o] # x
        BY <2>7 DEF Holders
      <3>9. \A y \in Stocks : value[y] # None => sync.value[y] # None \/ y = x
        BY <1>1, <3>1
      <3> QED  BY <1>1, <2>1, <2>7, <3>7, <3>8, <3>9, PassStep
    <2> QED  BY <1>3, <2>2, <2>3, <2>6, <2>7 DEF SyncValue
  <1>4. ASSUME NEW x \in Stocks, sync.value[x] # None
        PROVE  /\ position[x] \in PositionRow /\ position[x] # None
               /\ Repriced[x] \in PositionRow /\ Repriced[x].total = position[x].total
               /\ Repriced[x].available = position[x].available
    <2>1. position[x] # None /\ position[x] \in PositionRow
      BY <1>1, <1>4 DEF LedgerInv, RowsLocked
    <2>2. PICK r, v : r = position[x] /\ v = sync.value[x]
      OBVIOUS
    <2>3. r = [total |-> r.total, available |-> r.available, value |-> r.value] /\ v \in Nat
      BY <1>1, <1>4, <2>1, <2>2 DEF PositionRow
    <2>4. Repriced[x] = [r EXCEPT !.value = v]
      BY <1>4, <2>2 DEF Repriced
    <2>5. Repriced[x] = [total |-> r.total, available |-> r.available, value |-> v]
      BY <2>3, <2>4
    <2> QED  BY <2>1, <2>2, <2>3, <2>5 DEF PositionRow
  <1>5. ASSUME NEW x \in Stocks, sync.value[x] = None
        PROVE  Repriced[x] = position[x]
    BY <1>5 DEF Repriced
  <1>6. Repriced \in [Stocks -> PositionRow \cup {None}]
    <2>1. \A x \in Stocks : Repriced[x] \in PositionRow \cup {None}
      BY <1>1, <1>4, <1>5
    <2>2. Repriced = [x \in Stocks |-> Repriced[x]]
      BY DEF Repriced
    <2> QED  BY <2>1, <2>2
  <1>7. CASE SyncSum
    <2>1. PICK total : total = SyncAssets(Repriced)
      OBVIOUS
    <2>2. total \in Int
      BY <1>1, <1>6, <2>1, ValueSumInt DEF SyncAssets
    <2>3. PICK s1 : s1 = [sync EXCEPT !.pc = "summed"]
      OBVIOUS
    <2>4. s1 = [pc |-> "summed", todo |-> sync.todo, seen |-> sync.seen,
                value |-> sync.value, assets |-> sync.assets]
      BY <1>1, <2>3
    <2>5. sync' = [s1 EXCEPT !.assets = total]
      BY <1>7, <2>1, <2>3 DEF SyncSum
    <2>6. sync' = [pc |-> "summed", todo |-> sync.todo, seen |-> sync.seen,
                   value |-> sync.value, assets |-> total]
      BY <2>4, <2>5
    <2>7. sync' \in Pass /\ sync'.value = sync.value
      BY <1>1, <2>2, <2>6 DEF Pass
    <2>8. /\ UNCHANGED <<day, order, position, cash, assets, sess, held, overtaken, unlocked>>
          /\ release' = release
      BY <1>7 DEF SyncSum, tables
    <2> QED  BY <1>1, <2>7, <2>8, PassStep
  <1>8. CASE SyncBook
    <2>1. /\ position' = Repriced /\ assets' = sync.assets /\ sync' = SyncIdle
          /\ UNCHANGED <<day, order, cash, sess, release, held, overtaken, unlocked>>
      BY <1>8 DEF SyncBook
    <2>2. SyncIdle \in Pass /\ \A x \in Stocks : SyncIdle.value[x] = None
      BY DEF SyncIdle, Pass
    <2>3. ASSUME NEW x \in Stocks
          PROVE  /\ position'[x] = None <=> position[x] = None
                 /\ Total(x)' = Total(x) /\ Available(x)' = Available(x)
      <3>1. CASE sync.value[x] = None
        BY <1>5, <2>1, <3>1 DEF Total, Available
      <3>2. CASE sync.value[x] # None
        BY <1>4, <2>1, <3>2, NoRow DEF Total, Available
      <3> QED  BY <3>1, <3>2
    <2>4. ASSUME NEW x \in Stocks
          PROVE  /\ position'[x] = None <=> position[x] = None
                 /\ Total(x)' = Total(x) /\ Opens(x) /\ Available(x)' >= Available(x)
                 /\ sync'.value[x] # None =>
                       /\ position[x] # None
                       /\ \A o \in Orders : sess[o].pc = "written" => StockOf[o] # x
                 /\ Available(x)' # Available(x) =>
                       \A o \in Orders : sess[o].pc = "written" => StockOf[o] # x
      <3>1. Available(x) \in Nat
        BY StockFacts DEF LedgerInv
      <3> QED  BY <2>1, <2>2, <2>3, <3>1 DEF Opens
    <2> QED  BY <1>1, <1>6, <2>1, <2>2, <2>4, PositionStep
  <1> QED  BY <1>2, <1>3, <1>7, <1>8 DEF Valuation

LEMMA NextDayStep ==
    ASSUME LedgerInv, NextDay
    PROVE  LedgerInv'
  <1>1. /\ UNCHANGED <<order, position, cash, assets, sess, sync, release, held, overtaken, unlocked>>
        /\ \A o \in Orders : sess[o].pc \in {"idle", "done", "failed"}
    BY DEF NextDay, tables
  <1>2. day \in Nat /\ day' = day + 1 /\ day' \in 1 .. MaxDay
    BY CashAssumption DEF NextDay, LedgerInv, LedgerTypes
  <1>3. LedgerTypes'
    BY <1>1, <1>2 DEF LedgerInv, LedgerTypes
  <1>4. RowsDated'
    BY <1>1, <1>2 DEF LedgerInv, RowsDated
  <1>5. RowsLocked'
    BY <1>1 DEF LedgerInv, RowsLocked
  <1>6. Undisturbed'
    BY <1>1 DEF Undisturbed, Submitting
  <1>7. FilledRowsStay
    BY <1>1 DEF FilledRowsStay
  <1>8. CashMatchesOrders'
    BY <1>1, <1>7, CashQuiet DEF LedgerInv
  <1>9. \A x \in Stocks : Total(x)' = Total(x) /\ Available(x)' = Available(x) /\ (Calm(x)' <=> Calm(x))
    BY <1>1 DEF Total, Available, Calm
  <1>10. ASSUME NEW x \in Stocks, NEW d
         PROVE  /\ Shares(FilledIn(x))' = Shares(FilledIn(x))
                /\ Shares(SellableRows(x, d))' = Shares(SellableRows(x, d))
                /\ SoldSameDay(x, d)' <=> SoldSameDay(x, d)
    BY <1>1, <1>7, SameFilled, SharesAreLots, SharesAreLotsNext
  <1>11. \A x \in Stocks : Calm(x) =>
            Total(x) = held[x] + Shares(FilledIn(x)) /\ Available(x) <= Total(x)
    BY DEF LedgerInv, SerialOrdersAddUp, Calm
  <1>12. SerialOrdersAddUp'
    <2>1. \A x \in Stocks : Calm(x)' =>
             Total(x)' = held'[x] + Shares(FilledIn(x))' /\ Available(x)' <= Total(x)'
      BY <1>1, <1>9, <1>10, <1>11
    <2>2. overtaken' = {} => cash' >= 0
      BY <1>1 DEF LedgerInv, SerialOrdersAddUp
    <2> QED  BY <2>1, <2>2 DEF SerialOrdersAddUp, Calm
  \* On a new day all that was bought may be sold.
  <1>13. ASSUME NEW x \in Stocks, NEW d, d = day + 1
         PROVE  SellableRows(x, d) = FilledIn(x)
    <2>1. \A o \in FilledIn(x) : order[o].day \in 1 .. day
      BY DEF FilledIn, LedgerInv, RowsDated
    <2>2. \A o \in FilledIn(x) : order[o].day < d
      BY <1>2, <1>13, <2>1
    <2> QED  BY <2>2 DEF SellableRows, Sales
  <1>14. PurchasesLocked'
    <2> SUFFICES ASSUME NEW x \in Stocks, Calm(x)'
                 PROVE  Available(x)' <= held'[x] + Shares(SellableRows(x, day))'
      BY DEF PurchasesLocked
    <2>1. PICK d : d = day + 1
      OBVIOUS
    <2>2. Shares(SellableRows(x, d))' = Shares(FilledIn(x))
      BY <1>10, <1>13, <2>1
    <2>3. Shares(SellableRows(x, day))' = Shares(FilledIn(x))
      BY <1>2, <2>1, <2>2, TodayNext
    <2>4. Available(x)' <= held'[x] + Shares(FilledIn(x))
      BY <1>1, <1>9, <1>11
    <2> QED  BY <2>3, <2>4
  <1>15. SameDaySaleHasACause'
    <2> SUFFICES ASSUME NEW x \in Stocks, NEW d \in 1 .. day', SoldSameDay(x, d)',
                        <<d, x>> \notin unlocked', \A q \in overtaken' : StockOf[q] # x
                 PROVE  FALSE
      BY DEF SameDaySaleHasACause
    <2>1. SoldSameDay(x, d) /\ Calm(x)
      BY <1>1, <1>10 DEF Calm
    <2>2. CASE d \in 1 .. day
      BY <1>1, <2>1, <2>2 DEF LedgerInv, SameDaySaleHasACause
    <2>3. CASE d = day + 1
      <3>1. held[x] + Shares(SellableRows(x, d)) < 0
        BY <2>1, SharesAreLots
      <3>2. held[x] + Shares(SellableRows(x, d)) = Total(x)
        BY <1>11, <1>13, <2>1, <2>3
      <3>3. Total(x) \in Nat
        BY StockFacts DEF LedgerInv
      <3> QED  BY <3>1, <3>2, <3>3
    <2> QED  BY <1>2, <2>2, <2>3
  <1> QED  BY <1>3, <1>4, <1>5, <1>6, <1>8, <1>12, <1>14, <1>15 DEF LedgerInv

LEMMA LedgerStarts == Init => LedgerInv
  <1> SUFFICES ASSUME Init PROVE LedgerInv
    OBVIOUS
  <1>1. /\ day = 1 /\ order = [o \in Orders |-> None] /\ held \in [Stocks -> Nat]
        /\ cash = Cash /\ assets = Cash + ValueSum(position)
        /\ sess = [o \in Orders |-> Idle] /\ sync = SyncIdle /\ release = None
        /\ overtaken = {} /\ unlocked = {}
    BY HoldingsAssumption DEF Init
  <1>2. PICK p \in Prices :
           position = [x \in Stocks |-> IF held[x] = 0 THEN None
                                        ELSE Row(held[x], held[x], p * held[x])]
    BY DEF Init
  <1>3. ASSUME NEW x \in Stocks
        PROVE  /\ position[x] \in PositionRow \cup {None}
               /\ Total(x) = held[x] /\ Available(x) = held[x]
    <2>1. CASE held[x] = 0
      BY <1>2, <2>1 DEF Total, Available
    <2>2. CASE held[x] # 0
      <3>1. position[x] = [total |-> held[x], available |-> held[x], value |-> p * held[x]]
        BY <1>2, <2>2 DEF Row
      <3>2. held[x] \in Nat \ {0} /\ p * held[x] \in Nat
        BY <1>1, <2>2, PricesAssumption
      <3>3. position[x] \in PositionRow
        BY <3>1, <3>2 DEF PositionRow
      <3> QED  BY <3>1, <3>3, NoRow DEF Total, Available
    <2> QED  BY <2>1, <2>2
  <1>4. position \in [Stocks -> PositionRow \cup {None}]
    BY <1>2, <1>3
  <1>5. LedgerTypes
    <2>1. Idle \in Transaction /\ SyncIdle \in Pass
      BY DEF Idle, Transaction, SyncIdle, Pass
    <2>2. assets \in Int /\ day \in 1 .. MaxDay /\ cash \in Int
      BY <1>1, <1>4, ValueSumInt, CashAssumption
    <2> QED  BY <1>1, <1>4, <2>1, <2>2 DEF LedgerTypes
  <1>6. \A o \in Orders : order[o] = None /\ sess[o].pc = "idle"
    BY <1>1 DEF Idle
  <1>7. \A x \in Stocks : sync.value[x] = None
    BY <1>1 DEF SyncIdle
  <1>8. RowsDated /\ RowsLocked /\ Undisturbed
    BY <1>6, <1>7 DEF RowsDated, RowsLocked, Undisturbed, Submitting
  <1>9. ASSUME NEW x \in Stocks, NEW d
        PROVE  /\ Shares(FilledIn(x)) = 0 /\ Shares(SellableRows(x, d)) = 0
               /\ ~SoldSameDay(x, d)
    <2>1. FilledIn(x) = {} /\ Sales(FilledIn(x)) = {}
      BY <1>6 DEF FilledIn, Sales
    <2>2. SellableRows(x, d) = {} /\ Sales(SellableRows(x, d)) = {}
      BY <2>1 DEF SellableRows, Sales
    <2>3. Shares(FilledIn(x)) = 0 /\ Shares(SellableRows(x, d)) = 0
      BY <2>1, <2>2, SharesAreLots, LotNone
    <2>4. held[x] \in Nat
      BY <1>1
    <2> QED  BY <2>3, <2>4, SharesAreLots
  <1>10. \A x \in Stocks : held[x] \in Nat
    BY <1>1
  <1>11. PurchasesLocked /\ SerialOrdersAddUp /\ SameDaySaleHasACause
    BY <1>1, <1>3, <1>9, <1>10, CashAssumption
       DEF PurchasesLocked, SerialOrdersAddUp, SameDaySaleHasACause
  <1>12. CashMatchesOrders
    <2>1. PICK F : F = [o \in Filled |-> (IF order[o].side = "SELL" THEN 1 ELSE 0 - 1)
                                            * order[o].price * Quantity - Fee]
      OBVIOUS
    <2>2. Filled = {}
      BY <1>5, <1>6, FilledFacts
    <2>3. Sum(F, Filled) = 0
      BY <2>2, SumEmpty
    <2> QED  BY <1>1, <2>1, <2>3, CashNow, CashAssumption
  <1> QED  BY <1>5, <1>8, <1>11, <1>12 DEF LedgerInv

LEMMA LedgerStep ==
    ASSUME LedgerInv, Next
    PROVE  LedgerInv'
  <1>1. ASSUME NEW o \in Orders, Submit(o) \/ RollBack(o) \/ Cancel(o)
        PROVE  LedgerInv'
    <2>1. CASE Refuse(o)
      BY <2>1, RejectStep DEF Refuse
    <2>2. CASE RollBack(o)
      BY <2>2, RejectStep DEF RollBack
    <2> QED  BY <1>1, <2>1, <2>2, AcceptStep, LeaveOpenStep, ReadStep, WriteStep, BookStep,
                CancelStep DEF Submit
  <1>2. release = None \/ release \in SUBSET Stocks
    BY DEF LedgerInv, LedgerTypes
  <1>3. CASE MorningRelease
    BY <1>2, <1>3, ReleaseStep DEF MorningRelease
  <1>4. CASE ForcedRelease
    BY <1>2, <1>4, ReleaseStep DEF ForcedRelease
  <1>5. CASE FinishRelease
    BY <1>2, <1>5, ReleaseStep DEF FinishRelease
  <1>6. CASE StartRelease
    <2>1. /\ UNCHANGED <<day, order, position, cash, assets, sess, sync, held, overtaken, unlocked>>
          /\ release' \subseteq Stocks
      BY <1>6 DEF StartRelease, tables
    <2>2. sync' \in Pass
      BY <2>1 DEF LedgerInv, LedgerTypes
    <2> QED  BY <2>1, <2>2, PassStep
  <1> QED  BY <1>1, <1>3, <1>4, <1>5, <1>6, ValuationStep, NextDayStep DEF Next

LEMMA LedgerRestsStep ==
    ASSUME LedgerInv, UNCHANGED vars
    PROVE  LedgerInv'
  <1>1. UNCHANGED <<day, order, position, cash, assets, sess, sync, release, held, overtaken, unlocked>>
    BY DEF vars, tables, others
  <1>2. sync' \in Pass /\ (release' = None \/ release' \subseteq Stocks)
    BY <1>1 DEF LedgerInv, LedgerTypes
  <1> QED  BY <1>1, <1>2, PassStep

\* The books of simulated trading add up, for any number of orders, stocks and
\* days: cash and the order rows whatever failed or raced, positions and T+1
\* but for the overlaps and the releases that are known to break them
\* (_execute_fill_transaction, account_ledger.py, release-t1).
THEOREM BooksAlwaysAddUp == TrialsSpec => []BooksAddUp
  <1>1. TrialsInit => LedgerInv
    BY LedgerStarts DEF TrialsInit
  <1>2. LedgerInv /\ [TrialsNext]_trialVars => LedgerInv'
    BY LedgerStep, LedgerRestsStep DEF TrialsNext, trialVars
  <1> QED  BY <1>1, <1>2, LedgerInvImplies, PTL DEF TrialsSpec
=============================================================================
