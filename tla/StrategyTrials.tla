--------------------------- MODULE StrategyTrials ---------------------------
(***************************************************************************)
(* The two ways a strategy is tried without a broker: a backtest, which is *)
(* a job (BacktestJobs), and simulated trading (SimulationLedger).  They   *)
(* share no row, so a behaviour exercises one of the two while the other   *)
(* rests in an initial state.                                              *)
(***************************************************************************)
EXTENDS SimulationLedger, Sequences

CONSTANTS
    Jobs, Executors,  \* backtest jobs; execute requests under way at one time
    MaxRetries,       \* max_retries of a backtest job
    MaxLost,          \* bound: executions that die
    Settings          \* what CERTIFIED_BACKTEST_EXECUTION_ENABLED may be

ASSUME BacktestsAssumption ==
    /\ MaxRetries \in Nat /\ MaxLost \in Nat
    /\ Settings \subseteq BOOLEAN
    /\ None \notin Jobs

VARIABLES status, retries, due, ref, attempts, task, saved, exec, lost
VARIABLE trial   \* what a behaviour exercises

Backtest == INSTANCE BacktestJobs

backtestVars == <<status, retries, due, ref, attempts, task, saved, exec, lost>>
trialVars == <<trial, vars, backtestVars>>

\* While backtests run nothing is held in the simulation.
LedgerRests == /\ held = [x \in Stocks |-> 0]
               /\ position = [x \in Stocks |-> None]

TrialsInit ==
    /\ trial \in {"backtest", "simulation"}
    /\ Init /\ Backtest!Init
    /\ trial = "simulation" \/ LedgerRests

TrialsNext ==
    /\ \/ trial = "backtest" /\ Backtest!Next /\ UNCHANGED vars
       \/ trial = "simulation" /\ Next /\ UNCHANGED backtestVars
    /\ UNCHANGED trial

\* The fairness of the one that is exercised.  Executions of a backtest run to
\* their end, back-off times pass, and a service principal outside the
\* repository keeps asking for every job to be executed.  The valuation is
\* repeated by the Beat schedule, and a transaction of the simulation goes on.
TrialsSpec ==
    /\ TrialsInit /\ [][TrialsNext]_trialVars
    /\ WF_backtestVars(trial = "backtest" /\ \E e \in Executors : Backtest!Execute(e))
    /\ WF_backtestVars(trial = "backtest" /\ \E j \in Jobs :
          Backtest!RetryDue(j) \/ \E e \in Executors : Backtest!Claim(e, j))
    /\ WF_vars(trial = "simulation" /\ Valuation)
    /\ \A o \in Orders : WF_vars(trial = "simulation" /\ sess[o].pc # "idle" /\ Submit(o))

-----------------------------------------------------------------------------
(* The properties of backtest jobs, under their names here. *)

\* Every execution of a backtest owns the newest attempt, and a job that says
\* 'succeeded' names an attempt whose result can be read (BacktestJobs).
ResultsBelongToTheirAttempt ==
    trial = "backtest" => Backtest!ResultsBelongToTheirAttempt

\* A cancellation of a backtest that was accepted wins over whatever the
\* execution reports, and an ended job stays as it is (BacktestJobs).
CancelWins == Backtest!CancelWins

\* Every backtest job that was accepted ends, unless its execution died
\* (BacktestJobs).
EndsUnlessOrphaned == Backtest!EndsUnlessOrphaned
=============================================================================
