---------------------------- MODULE MCSimulators ----------------------------
(* Small instances of the three simulators.                                *)
EXTENDS Simulators

\* The engine: four trading days around a weekend and around 2026-07-06, when
\* the price limit of SH stocks under special treatment changes.
Week == {20260702, 20260703, 20260706, 20260707}

DayBar(o, t) == [open |-> o, previous |-> 105, traded |-> t]
BarsTried == {DayBar(100, TRUE), DayBar(110, TRUE), DayBar(116, TRUE), DayBar(105, FALSE)}

Signal(s, q, l) == [side |-> s, quantity |-> q, limit |-> l]
SignalBatches ==
    {<< >>,
     <<Signal("SELL", 40, 0)>>,
     <<Signal("BUY", 150, 0), Signal("BUY", 100, 120)>>,
     <<Signal("BUY", 100, 0), Signal("SELL", 100, 98)>>}

Normal == [exchange |-> "SH", board |-> "MAIN", status |-> "NORMAL"]
Listed == {Normal, [Normal EXCEPT !.status = "ST"], [Normal EXCEPT !.exchange = "BJ"]}

\* Dividends of 5 ticks a share and four bonus shares for ten, with the dates
\* of the payment on a trading day, a Saturday or the record date.
CorporateActions ==
    [record : {20260702}, ex : {20260702, 20260703}, dividend : {50}, shares : {4, 0},
     payment : {20260702, 20260704, 20260706}, credit : {20260703, 20260706}]
    \cup [record : {20260703}, ex : {20260706}, dividend : {0}, shares : {3},
          payment : {20260706}, credit : {20260707}]

OpeningAccounts == {[cash |-> 26000, quantity |-> 0, cost |-> 0],
                    [cash |-> 12000, quantity |-> 140, cost |-> 14000]}

\* The synthetic account: orders of one stock, two of whose keys come with
\* other requests.
Asked(key, side, lots, limit) ==
    [key |-> key, side |-> side, quantity |-> lots, limit |-> limit, cutoff |-> 36000]
RequestsTried ==
    {Asked("k1", "BUY", 100, 1051), Asked("k2", "BUY", 100, 1060), Asked("k2", "BUY", 200, 1050),
     Asked("k3", "SELL", 100, 1049), Asked("k3", "SELL", 150, 1050)}

\* The observations: two stocks, of which the second may be suspended; two
\* dates are past, two more are fetched with three answers each.
Past == <<[date |-> 1, rows |-> <<2, 1>>], [date |-> 2, rows |-> <<2, 2>>]>>
Answers == {<<3, 1>>, <<1, 0>>, <<1, 3>>}
=============================================================================
