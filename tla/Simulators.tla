----------------------------- MODULE Simulators -----------------------------
(***************************************************************************)
(* Three programs that simulate trading and share nothing: the engine of   *)
(* the trusted backtest, the synthetic paper account of the tests with the *)
(* shadow runner that feeds it, and the free-observation track.  They are  *)
(* put side by side so that one run checks them all.                       *)
(***************************************************************************)
EXTENDS SyntheticLedger, FreeObservation

CONSTANTS TradingDays, Bars, Batches, StrategyLot, Stocks, Actions, Openings,
          NoBar, NotTaken

\* build_trading_days refuses an empty calendar; quantities, prices and rates
\* are whole numbers of their units, a run starts with money.
ASSUME EngineAssumption ==
    /\ TradingDays \in SUBSET (Nat \ {0}) /\ TradingDays # {}
    /\ Bars \subseteq [open : Nat, previous : Nat, traded : BOOLEAN] /\ NoBar \notin Bars
    /\ Batches \subseteq Seq([side : {"BUY", "SELL"}, quantity : Int, limit : Nat])
    /\ StrategyLot \in Nat
    /\ Actions \subseteq [record : Nat, ex : Nat, payment : Nat, credit : Nat,
                          dividend : Nat, shares : Nat]
    /\ Openings \subseteq [cash : Nat \ {0}, quantity : Nat, cost : Nat]
    /\ NotTaken \notin Nat

VARIABLES stock, action, day, phase, cash, quantity, available, cost, realized,
          income, pending, entitled, credited, paid, bar, overcharged

VARIABLE part   \* the one of the three that a behaviour exercises

Engine == INSTANCE BacktestEngine WITH Unknown <- NotTaken

EngineVars == <<stock, action, day, phase, cash, quantity, available, cost, realized,
                income, pending, entitled, credited, paid, bar, overcharged>>
SimulatorsVars == <<part, vars, observationVars, EngineVars>>

\* While another one is exercised the engine rests in one of its initial states.
EngineRests ==
    /\ stock = CHOOSE x \in Stocks : TRUE
    /\ action = CHOOSE x \in Actions : Engine!ValidAction(x)
    /\ cash = Max({x.cash : x \in Openings})

SimulatorsInit ==
    /\ part \in {"engine", "synthetic", "observation"}
    /\ Init /\ ObservationInit /\ Engine!Init
    /\ part = "engine" \/ EngineRests

SimulatorsNext ==
    /\ \/ part = "engine" /\ Engine!Next /\ UNCHANGED <<vars, observationVars>>
       \/ part = "synthetic" /\ Next /\ UNCHANGED <<observationVars, EngineVars>>
       \/ part = "observation" /\ ObservationNext /\ UNCHANGED <<vars, EngineVars>>
    /\ UNCHANGED part

SimulatorsSpec == SimulatorsInit /\ [][SimulatorsNext]_SimulatorsVars

-----------------------------------------------------------------------------
(* The properties of the engine, under their names here. *)

\* The cash, the shares, the average cost and the pending orders of a
\* backtest stay consistent day after day, and every entitlement of a
\* corporate action is settled once, in the quantity of its record date
\* (BacktestEngine).
BacktestAccountAddsUp == Engine!AccountIsSound /\ Engine!EntitlementsSettle

\* No decision knows what comes after it: the price of a reference for the
\* paper account is the same whatever the bar after its cutoff says, and a
\* verdict on a candidate rests on rows later than all it was made of
\* (shadow/runner.py, data/free_observation_review.py).
NothingKnowsTheFuture == ReferencesKnowNoFuture /\ ReviewsKnowNoHindsight

\* The engine's account follows the accounting contract, fill by fill
\* (BacktestEngine, AccountingContract).
MatchesReference == Engine!MatchesReference
=============================================================================
