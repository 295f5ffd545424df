---------------------------- MODULE FillContract ----------------------------
(***************************************************************************)
(* What the book of orders promises, whoever reports the fills and in      *)
(* whatever order: an order appears once, its fills only grow and never    *)
(* pass its quantity, a terminal order is never touched again, and the     *)
(* account pays for every share it books in the step that books it, once;  *)
(* only of a sale from nothing fills may go unpaid, whole ones.            *)
(* Sessions, locks, snapshots and the broker are not visible.              *)
(***************************************************************************)
EXTENDS Naturals

CONSTANTS Orders, Quantity, None

VARIABLES book,    \* status and booked shares of each order, None before it
          paid,    \* the shares the account was charged or credited for
          unpaid   \* the sales from nothing, of which a fill may go unpaid

contractVars == <<book, paid, unpaid>>

Terminal == {"FILLED", "CANCELLED", "FAILED"}
Entry == [status : {"PENDING", "SUBMITTED", "PARTIAL"} \cup Terminal, filled : 0..Quantity]

Shares(o) == IF book[o] = None THEN 0 ELSE book[o].filled

Init == book = [o \in Orders |-> None] /\ paid = [o \in Orders |-> 0] /\ unpaid = {}

\* One transaction may move several orders, each of them forward.
MayMove(o) == book[o] = None \/ book[o].status \notin Terminal
MayPay(o, amount, fill) == amount = fill \/ (o \in unpaid /\ amount = 0)
Book(S) ==
    /\ \A o \in S : MayMove(o)
    /\ \E new \in [S -> Entry], cash \in [S -> 0..Quantity] :
          /\ \A o \in S : /\ new[o].filled >= Shares(o)
                          /\ MayPay(o, cash[o], new[o].filled - Shares(o))
          /\ book' = [o \in Orders |-> IF o \in S THEN new[o] ELSE book[o]]
          /\ paid' = [o \in Orders |-> IF o \in S THEN paid[o] + cash[o] ELSE paid[o]]
    /\ UNCHANGED unpaid

\* A fill of a sale meets no position.
SellNothing(S) == unpaid' = unpaid \cup S /\ UNCHANGED <<book, paid>>

Next == \E S \in SUBSET Orders : Book(S) \/ SellNothing(S)

Spec == Init /\ [][Next]_contractVars
=============================================================================
