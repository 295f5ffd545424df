---------------------------- MODULE MCOrderGates ----------------------------
(* Small instances of OrderGates.                                          *)
EXTENDS OrderGates

CONSTANTS s1, s2, s3

\* The risk rules: purchases of two stocks of one sector and of a third, and a
\* sale.
Asked == {<<"BUY", s1, NoLimit>>, <<"BUY", s1, 4>>, <<"BUY", s2, NoLimit>>,
          <<"BUY", s3, NoLimit>>, <<"SELL", s1, 8>>}
HighPrices == [s \in Stocks |-> 8]
TwoSectors == [s \in Stocks |-> IF s = s3 THEN "other" ELSE "one"]

\* Activations, recoveries and orders are interchangeable.
GatesSymmetry ==
    Permutations(Activations) \cup Permutations(Recoveries) \cup Permutations(Orders)
=============================================================================
