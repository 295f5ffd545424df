------------------------- MODULE AccountingContract -------------------------
(***************************************************************************)
(* What the repository's independent reference ledgers say a backtest may  *)
(* do to the account of one stock, whatever the strategy and the prices:   *)
(* accounting_validation._reference, integrity_validation's baseline and   *)
(* corporate_action_validation.reference_daily_states.  Amounts are the    *)
(* differences between a state and the next.                               *)
(***************************************************************************)
EXTENDS Integers

VARIABLES
    cash, quantity, available,
    cost,        \* total cost of the shares held
    realized,    \* realised profit and loss
    income       \* dividends received

account == <<cash, quantity, available, cost, realized, income>>

\* The reference scenarios start with cash and, some of them, shares.
Opening ==
    /\ cash > 0 /\ quantity >= 0 /\ cost >= 0
    /\ available = quantity /\ realized = 0 /\ income = 0

\* The first thing of a day: credited shares and dividends arrive, and every
\* share held becomes available.
Morning ==
    /\ quantity' >= quantity
    /\ available' = quantity'
    /\ income' >= income
    /\ cash' - cash = income' - income
    /\ UNCHANGED <<cost, realized>>

\* A purchase is paid from the cash there is and adds to the cost; the shares
\* are not available before the next morning.
Buy ==
    /\ quantity' > quantity
    /\ cash' >= 0 /\ cash' < cash
    /\ cost' = cost + (cash - cash')
    /\ UNCHANGED <<available, realized, income>>

\* A sale takes available shares at their average cost.
Sell ==
    LET sold == quantity - quantity'
    IN /\ 0 < sold /\ sold <= available
       /\ available' = available - sold
       /\ (quantity' = 0 => cost' = 0) /\ 0 <= cost' /\ cost' <= cost
       /\ realized' = realized + (cash' - cash) - (cost - cost')
       /\ UNCHANGED income

Spec == Opening /\ [][Morning \/ Buy \/ Sell]_account
=============================================================================
