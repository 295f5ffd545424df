---------------------------- MODULE MCMarketData ----------------------------
EXTENDS MarketData, TLC

CONSTANTS i1, i2   \* processes of the import script

\* The certified store: two months of three days and one.
Quarter == 1 .. 4
MonthOfDay == [d \in Quarter |-> IF d = 4 THEN 2 ELSE 1]
RunAndMonth == {Quarter, 1 .. 3}

AllOpen == [d \in Quarter |-> "open"]
CalendarsTried == {[AllOpen EXCEPT ![2] = "closed"], [AllOpen EXCEPT ![4] = "unresolved"]}

\* The provider has every day, leaves day 2 out, restates day 1, or errs.
AllA == [d \in Quarter |-> "a"]
Responses ==
    {AllA, [AllA EXCEPT ![2] = NoRow], [AllA EXCEPT ![1] = "b", ![2] = NoRow],
     [AllA EXCEPT ![1] = "flawed"]}

\* Narrows the interleavings.  While both importers work there is one review at
\* most and no backtest; the second review and the backtest come when one works
\* or none.  No message waits behind the broadcast under way: whether it is
\* published before or after a send, it is read after the last one.
OneReviewOfARace ==
    /\ (\A p \in Importers : imp[p].at # "idle") => now < 2 /\ session.at = "idle"
    /\ cast # NoCast => feed = <<>>

\* Nothing orders the stocks, the connections or the importers.
Symmetry == Permutations(Codes) \cup Permutations(Clients) \cup Permutations(Importers)
=============================================================================
