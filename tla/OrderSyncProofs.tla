-------------------------- MODULE OrderSyncProofs --------------------------
(***************************************************************************)
(* Proofs about OrderSync, for any number of orders, stocks and sessions:  *)
(* the books follow the broker, and every commit books as FillContract     *)
(* says.  The invariant says of every session what its commit will make of *)
(* the books; a step of another session must not change that.              *)
(***************************************************************************)
EXTENDS OrderSync, FiniteSetTheorems, WellFoundedInduction, TLAPS

-----------------------------------------------------------------------------
(* Sums over finite sets of orders.  SumFunctionOnSet chooses a recursive  *)
(* function on the subsets; that there is one, and what it gives when an   *)
(* element is taken away, is shown with a smallest counterexample.         *)

Pick(s) == CHOOSE x \in s : TRUE
But(s) == s \ {Pick(s)}
Sum(F, S) == SumFunctionOnSet(F, S)

\* The equation of the recursive function that a sum over S is a value of.
SumsUp(F, S, g) == g = [s \in SUBSET S |-> IF s = {} THEN 0 ELSE F[Pick(s)] + g[But(s)]]
Sums(F, S) == CHOOSE g : SumsUp(F, S, g)

LEMMA SumDef == ASSUME NEW F, NEW S  PROVE Sum(F, S) = Sums(F, S)[S]
  BY DEF Sum, SumFunctionOnSet, FoldFunctionOnSet, MapThenFoldSet, Sums, SumsUp, Pick, But

\* Induction over finite sets, as a smallest counterexample.
LEMMA SmallestSet ==
    ASSUME NEW S, IsFiniteSet(S), NEW B \in SUBSET (SUBSET S), B # {}
    PROVE  \E t \in B : \A u \in SUBSET t : u # t => u \notin B
  <1>1. PICK T : T = {Cardinality(t) : t \in B}
    OBVIOUS
  <1>2. \A t \in SUBSET S : IsFiniteSet(t) /\ Cardinality(t) \in Nat
    BY FS_Subset, FS_CardinalityType
  <1>3. T \in SUBSET Nat /\ T # {}
    BY <1>1, <1>2
  <1>4. PICK x \in T : \A y \in T : <<y, x>> \notin OpToRel(<, Nat)
    BY <1>3, WFMin, NatLessThanWellFounded, Zenon
  <1>5. \A y \in T : ~ (y < x)
    BY <1>3, <1>4, Zenon DEF OpToRel
  <1>6. PICK t \in B : x = Cardinality(t)
    BY <1>1, <1>4
  <1>7. ASSUME NEW u \in SUBSET t, u # t  PROVE u \notin B
    <2>1. Cardinality(u) < Cardinality(t)
      BY <1>2, <1>7, FS_Subset
    <2> QED  BY <1>1, <1>5, <1>6, <2>1
  <1> QED  BY <1>6, <1>7

LEMMA PickBut == ASSUME NEW s, s # {}
                 PROVE  Pick(s) \in s /\ But(s) \in SUBSET s /\ But(s) # s /\ But(s) = s \ {Pick(s)}
  BY DEF Pick, But

LEMMA SumsAgree ==
    ASSUME NEW F, NEW S, IsFiniteSet(S), NEW T \in SUBSET S, NEW g, NEW h,
           SumsUp(F, S, g), SumsUp(F, T, h)
    PROVE  \A t \in SUBSET T : g[t] = h[t]
  <1> SUFFICES ASSUME ~ \A t \in SUBSET T : g[t] = h[t]  PROVE FALSE
    OBVIOUS
  <1>1. PICK B : B = {t \in SUBSET T : g[t] # h[t]}
    OBVIOUS
  <1>2. B \in SUBSET (SUBSET S) /\ B # {}
    BY <1>1
  <1>3. PICK t \in B : \A u \in SUBSET t : u # t => u \notin B
    BY <1>2, SmallestSet
  <1>4. t \in SUBSET T /\ t \in SUBSET S /\ g[t] # h[t]
    BY <1>1
  <1>5. /\ g[t] = IF t = {} THEN 0 ELSE F[Pick(t)] + g[But(t)]
        /\ h[t] = IF t = {} THEN 0 ELSE F[Pick(t)] + h[But(t)]
    BY <1>4 DEF SumsUp
  <1>6. t # {}
    BY <1>4, <1>5
  <1>7. But(t) \in SUBSET T /\ But(t) \notin B
    BY <1>3, <1>4, <1>6, PickBut
  <1> QED  BY <1>1, <1>4, <1>5, <1>7

LEMMA SumsExist == ASSUME NEW F, NEW S, IsFiniteSet(S)  PROVE SumsUp(F, S, Sums(F, S))
  <1> SUFFICES ASSUME ~ SumsUp(F, S, Sums(F, S))  PROVE FALSE
    OBVIOUS
  <1>1. PICK B : B = {s \in SUBSET S : ~ SumsUp(F, s, Sums(F, s))}
    OBVIOUS
  <1>2. B \in SUBSET (SUBSET S) /\ B # {}
    BY <1>1
  <1>3. PICK s \in B : \A u \in SUBSET s : u # s => u \notin B
    BY <1>2, SmallestSet
  <1>4. s \in SUBSET S /\ ~ SumsUp(F, s, Sums(F, s)) /\ IsFiniteSet(s)
    BY <1>1, FS_Subset
  <1>5. \A u \in SUBSET s : u # s => SumsUp(F, u, Sums(F, u))
    BY <1>1, <1>3, <1>4
  <1>6. PICK G : G = [t \in SUBSET s |->
                        IF t = {} THEN 0 ELSE F[Pick(t)] + Sums(F, But(t))[But(t)]]
    OBVIOUS
  <1>7. ASSUME NEW u \in SUBSET s, u # s  PROVE G[u] = Sums(F, u)[u]
    <2>1. Sums(F, u)[u] = IF u = {} THEN 0 ELSE F[Pick(u)] + Sums(F, u)[But(u)]
      BY <1>5, <1>7 DEF SumsUp
    <2>2. CASE u # {}
      <3>1. But(u) \in SUBSET u /\ But(u) \in SUBSET s /\ But(u) # s
        BY <1>7, <2>2, PickBut
      <3>2. SumsUp(F, u, Sums(F, u)) /\ SumsUp(F, But(u), Sums(F, But(u))) /\ IsFiniteSet(u)
        BY <1>4, <1>5, <1>7, <3>1, FS_Subset
      <3>3. Sums(F, u)[But(u)] = Sums(F, But(u))[But(u)]
        BY <3>1, <3>2, SumsAgree
      <3> QED  BY <1>6, <2>1, <2>2, <3>3
    <2> QED  BY <1>6, <2>1, <2>2
  <1>8. \A t \in SUBSET s : t # {} => G[But(t)] = Sums(F, But(t))[But(t)]
    BY <1>7, PickBut
  <1>9. SumsUp(F, s, G)
    BY <1>6, <1>8 DEF SumsUp
  <1> QED  BY <1>4, <1>9 DEF Sums

LEMMA SumEmpty == ASSUME NEW F  PROVE Sum(F, {}) = 0
  <1>1. SumsUp(F, {}, Sums(F, {}))
    BY SumsExist, FS_EmptySet
  <1> QED  BY <1>1, SumDef DEF SumsUp

LEMMA SumPick ==
    ASSUME NEW F, NEW S, IsFiniteSet(S), S # {}
    PROVE  Sum(F, S) = F[Pick(S)] + Sum(F, But(S))
  <1>1. But(S) \in SUBSET S /\ IsFiniteSet(But(S))
    BY PickBut, FS_Subset
  <1>2. SumsUp(F, S, Sums(F, S)) /\ SumsUp(F, But(S), Sums(F, But(S)))
    BY <1>1, SumsExist
  <1>3. Sums(F, S)[But(S)] = Sums(F, But(S))[But(S)]
    BY <1>1, <1>2, SumsAgree
  <1>4. Sums(F, S)[S] = F[Pick(S)] + Sums(F, S)[But(S)]
    BY <1>2 DEF SumsUp
  <1> QED  BY <1>3, <1>4, SumDef

LEMMA SumInt ==
    ASSUME NEW F, NEW S, IsFiniteSet(S), \A x \in S : F[x] \in Int
    PROVE  Sum(F, S) \in Int
  <1> SUFFICES ASSUME Sum(F, S) \notin Int  PROVE FALSE
    OBVIOUS
  <1>1. PICK B : B = {s \in SUBSET S : Sum(F, s) \notin Int}
    OBVIOUS
  <1>2. B \in SUBSET (SUBSET S) /\ B # {}
    BY <1>1
  <1>3. PICK s \in B : \A u \in SUBSET s : u # s => u \notin B
    BY <1>2, SmallestSet
  <1>4. s \in SUBSET S /\ Sum(F, s) \notin Int /\ IsFiniteSet(s)
    BY <1>1, FS_Subset
  <1>5. s # {}
    BY <1>4, SumEmpty
  <1>6. Pick(s) \in S /\ But(s) \in SUBSET S /\ But(s) \notin B
    BY <1>3, <1>4, <1>5, PickBut
  <1>7. Sum(F, But(s)) \in Int /\ F[Pick(s)] \in Int
    BY <1>1, <1>6
  <1> QED  BY <1>4, <1>5, <1>7, SumPick

\* Any member may be taken out.
LEMMA SumTake ==
    ASSUME NEW F, NEW S, IsFiniteSet(S), \A x \in S : F[x] \in Int, NEW y \in S
    PROVE  Sum(F, S) = F[y] + Sum(F, S \ {y})
  <1> DEFINE splits(s) == \A x \in s : Sum(F, s) = F[x] + Sum(F, s \ {x})
  <1> SUFFICES ASSUME ~ splits(S)  PROVE FALSE
    OBVIOUS
  <1> HIDE DEF splits
  <1>1. PICK B : B = {s \in SUBSET S : ~ splits(s)}
    OBVIOUS
  <1>2. B \in SUBSET (SUBSET S) /\ B # {}
    BY <1>1
  <1>3. PICK s \in B : \A u \in SUBSET s : u # s => u \notin B
    BY <1>2, SmallestSet
  <1>4. s \in SUBSET S /\ ~ splits(s)
    BY <1>1
  <1>5. \A u \in SUBSET s : u # s => splits(u)
    BY <1>1, <1>3, <1>4
  <1>6. \A u \in SUBSET s : IsFiniteSet(u) /\ Sum(F, u) \in Int
    BY <1>4, FS_Subset, SumInt
  <1>7. PICK x \in s : Sum(F, s) # F[x] + Sum(F, s \ {x})
    BY <1>4 DEF splits
  <1>8. PICK p : p = Pick(s)
    OBVIOUS
  <1>9. p \in s /\ s # {} /\ IsFiniteSet(s) /\ But(s) = s \ {p}
    BY <1>6, <1>7, <1>8, PickBut
  <1>10. Sum(F, s) = F[p] + Sum(F, s \ {p})
    BY <1>8, <1>9, SumPick
  <1>11. x # p
    BY <1>7, <1>10
  <1>12. splits(s \ {p}) /\ splits(s \ {x})
    BY <1>5, <1>7, <1>9
  <1>13. PICK rest : rest = (s \ {p}) \ {x}
    OBVIOUS
  <1>14. rest = (s \ {x}) \ {p} /\ rest \in SUBSET s
    BY <1>13
  <1>15. Sum(F, s \ {p}) = F[x] + Sum(F, rest) /\ Sum(F, s \ {x}) = F[p] + Sum(F, rest)
    BY <1>7, <1>9, <1>11, <1>12, <1>13, <1>14 DEF splits
  <1>16. F[x] \in Int /\ F[p] \in Int /\ Sum(F, rest) \in Int
    BY <1>4, <1>6, <1>7, <1>9, <1>14
  <1>17. Sum(F, s) = F[x] + Sum(F, s \ {x})
    BY <1>10, <1>15, <1>16
  <1> QED  BY <1>7, <1>17

\* Sums compare as their members do.
LEMMA SumCompare ==
    ASSUME NEW F, NEW G, NEW S, IsFiniteSet(S),
           \A x \in S : F[x] \in Int /\ G[x] \in Int
    PROVE  /\ (\A x \in S : F[x] = G[x]) => Sum(F, S) = Sum(G, S)
           /\ (\A x \in S : F[x] <= G[x]) => Sum(F, S) <= Sum(G, S)
  <1> DEFINE Bad(s) == \/ (\A x \in S : F[x] = G[x]) /\ Sum(F, s) # Sum(G, s)
                       \/ (\A x \in S : F[x] <= G[x]) /\ ~ (Sum(F, s) <= Sum(G, s))
  <1> SUFFICES ASSUME Bad(S)  PROVE FALSE
    OBVIOUS
  <1>1. PICK B : B = {s \in SUBSET S : Bad(s)}
    OBVIOUS
  <1>2. B \in SUBSET (SUBSET S) /\ B # {}
    BY <1>1
  <1>3. PICK s \in B : \A u \in SUBSET s : u # s => u \notin B
    BY <1>2, SmallestSet
  <1>4. s \in SUBSET S /\ Bad(s) /\ IsFiniteSet(s)
    BY <1>1, FS_Subset
  <1>5. s # {}
    BY <1>4, SumEmpty
  <1>6. PICK p : p = Pick(s)
    OBVIOUS
  <1>7. PICK rest : rest = But(s)
    OBVIOUS
  <1>8. p \in S /\ rest \in SUBSET S /\ ~ Bad(rest) /\ IsFiniteSet(rest)
    BY <1>1, <1>3, <1>4, <1>5, <1>6, <1>7, PickBut, FS_Subset
  <1>9. Sum(F, s) = F[p] + Sum(F, rest) /\ Sum(G, s) = G[p] + Sum(G, rest)
    BY <1>4, <1>5, <1>6, <1>7, SumPick
  <1>10. PICK f \in Int, g \in Int, sf \in Int, sg \in Int :
            f = F[p] /\ g = G[p] /\ sf = Sum(F, rest) /\ sg = Sum(G, rest)
    BY <1>8, SumInt
  <1>11. CASE (\A x \in S : F[x] = G[x]) /\ Sum(F, s) # Sum(G, s)
    BY <1>8, <1>9, <1>10, <1>11
  <1>12. CASE (\A x \in S : F[x] <= G[x]) /\ ~ (Sum(F, s) <= Sum(G, s))
    <2>1. sf <= sg /\ f <= g
      BY <1>8, <1>10, <1>12
    <2>2. Sum(F, s) = f + sf /\ Sum(G, s) = g + sg
      BY <1>9, <1>10
    <2>3. f + sf <= g + sg
      BY <2>1
    <2> QED  BY <1>12, <2>2, <2>3
  <1> QED  BY <1>4, <1>11, <1>12

\* Two sums that differ in one member.
LEMMA SumChange ==
    ASSUME NEW F, NEW G, NEW S, IsFiniteSet(S),
           \A x \in S : F[x] \in Int /\ G[x] \in Int,
           NEW y \in S, \A x \in S \ {y} : F[x] = G[x]
    PROVE  Sum(G, S) = Sum(F, S) + (G[y] - F[y])
  <1>1. PICK rest : rest = S \ {y}
    OBVIOUS
  <1>2. IsFiniteSet(rest) /\ rest \subseteq S
    BY <1>1, FS_Subset
  <1>3. Sum(F, rest) = Sum(G, rest) /\ Sum(F, rest) \in Int
    BY <1>1, <1>2, SumCompare, SumInt
  <1>4. Sum(F, S) = F[y] + Sum(F, rest) /\ Sum(G, S) = G[y] + Sum(G, rest)
    BY <1>1, SumTake
  <1>5. F[y] \in Int /\ G[y] \in Int
    OBVIOUS
  <1> QED  BY <1>3, <1>4, <1>5

LEMMA SumAdds ==
    ASSUME NEW F, NEW G, NEW H, NEW S, IsFiniteSet(S),
           \A x \in S : F[x] \in Int /\ G[x] \in Int /\ H[x] = F[x] + G[x]
    PROVE  Sum(H, S) = Sum(F, S) + Sum(G, S)
  <1> SUFFICES ASSUME Sum(H, S) # Sum(F, S) + Sum(G, S)  PROVE FALSE
    OBVIOUS
  <1>1. PICK B : B = {s \in SUBSET S : Sum(H, s) # Sum(F, s) + Sum(G, s)}
    OBVIOUS
  <1>2. B \in SUBSET (SUBSET S) /\ B # {}
    BY <1>1
  <1>3. PICK s \in B : \A u \in SUBSET s : u # s => u \notin B
    BY <1>2, SmallestSet
  <1>4. s \in SUBSET S /\ Sum(H, s) # Sum(F, s) + Sum(G, s) /\ IsFiniteSet(s)
    BY <1>1, FS_Subset
  <1>5. s # {}
    <2>1. Sum(F, {}) = 0 /\ Sum(G, {}) = 0 /\ Sum(H, {}) = 0
      BY SumEmpty
    <2>2. Sum(H, {}) = Sum(F, {}) + Sum(G, {})
      BY <2>1
    <2> QED  BY <1>4, <2>2
  <1>6. PICK p : p = Pick(s)
    OBVIOUS
  <1>7. PICK rest : rest = But(s)
    OBVIOUS
  <1>8. /\ p \in S /\ rest \in SUBSET S /\ IsFiniteSet(rest)
        /\ Sum(H, rest) = Sum(F, rest) + Sum(G, rest)
    BY <1>1, <1>3, <1>4, <1>5, <1>6, <1>7, PickBut, FS_Subset
  <1>9. /\ Sum(F, s) = F[p] + Sum(F, rest) /\ Sum(G, s) = G[p] + Sum(G, rest)
        /\ Sum(H, s) = H[p] + Sum(H, rest)
    BY <1>4, <1>5, <1>6, <1>7, SumPick
  <1>10. PICK f \in Int, g \in Int, sf \in Int, sg \in Int :
            f = F[p] /\ g = G[p] /\ sf = Sum(F, rest) /\ sg = Sum(G, rest)
    BY <1>8, SumInt
  <1>11. H[p] = f + g
    BY <1>8, <1>10
  <1>12. Sum(F, s) = f + sf /\ Sum(G, s) = g + sg /\ Sum(H, s) = (f + g) + (sf + sg)
    BY <1>8, <1>9, <1>10, <1>11
  <1> QED  BY <1>4, <1>12

-----------------------------------------------------------------------------
(* The inductive invariant. *)

Busy    == {"lookup", "query", "apply"}
Booking == {"read", "write", "account"}
Kept(s, o) == sess[s].rows[o] # None

\* What the broker has done never falls back, and nothing follows its end.
BrokerSound(o) ==
    broker[o] # None =>
        broker[o].priced /\ (broker[o].filled = Quantity <=> broker[o].status = "FILLED")

\* A row, or what a session will make of it, is not ahead of the broker.
Behind(o, r) ==
    /\ broker[o] # None /\ r.filled <= broker[o].filled
    /\ r.status \in Terminal => r.status = broker[o].status /\ r.filled = broker[o].filled
    /\ Prices = {TRUE} => r.priced
Truthful(o, r) == Behind(o, Normalised(r))

\* Where a session may stand, and what it holds there.
Shape(s) ==
    LET S == sess[s] IN
    /\ S.at = "idle" => S = Fresh
    /\ S.at = "done" => S = [Fresh EXCEPT !.at = "done"]
    /\ S.at \in {"idle", "next", "copy", "done"} => S.order = None
    /\ S.at \in {"inserting"} \cup Busy \cup Booking => S.order # None
    /\ S.snap # None <=> S.at = "apply"
    /\ S.msg # None => S.at \in Busy
    /\ S.at \in Busy => ~Kept(s, S.order) /\ row[S.order] # None
    /\ S.at \in {"query", "apply"} => S.view[S.order] # None
    /\ S.at \in Booking => Kept(s, S.order) /\ S.money[S.order] = None
    /\ \A o \in S.todo : S.view[o] # None /\ ~Kept(s, o) /\ o # S.order
    /\ \A o \in Orders : /\ S.view[o] # None => row[o] # None
                         /\ S.money[o] # None => Kept(s, o)

ShapeOfOrder(s) ==
    LET S == sess[s] IN
    s \in Orders =>
        /\ S.at \in {"idle", "inserting", "push", "next", "done"} \cup Booking
        /\ S.order \in {None, s} /\ S.todo = {}
        /\ \A o \in Orders : S.view[o] = None /\ (Kept(s, o) => o = s)
        /\ S.at = "inserting" => ~Kept(s, s)
        /\ S.at # "done" => row[s] = None
        /\ S.at \notin {"idle", "done"} => broker[s] # None

ShapeOfOthers(s) ==
    LET S == sess[s] IN
    /\ s \notin Orders => /\ S.at \notin {"inserting", "push"}
                          /\ \A o \in Orders : Kept(s, o) => row[o] # None
    /\ s \in Copies => S.at \in {"idle", "copy", "done"} /\ \A o \in Orders : ~Kept(s, o)
    /\ s \notin Copies => S.at # "copy"

\* What it is about to write is true, and the row has not moved since it looked.
Facts(s) ==
    LET S == sess[s] IN
    /\ S.at = "apply" => Truthful(S.order, S.snap)
    /\ S.msg # None /\ S.msg.cumulative => Truthful(S.order, S.msg.report)
    /\ S.at \in Booking => Before(s) = Shares(S.order) /\ S.rows[S.order].filled > Shares(S.order)
    /\ \A o \in Orders : Kept(s, o) =>
          /\ Behind(o, S.rows[o]) /\ S.rows[o].filled >= Shares(o)
          /\ row[o] # None => row[o].status \in Open

\* The cash a session has moved is that of the fills it has booked.
Moved(s, o) == IF sess[s].money[o] = None THEN 0 ELSE sess[s].money[o]
CashOfSession(s) ==
    LET S == sess[s] IN
    /\ \A o \in Orders : Kept(s, o) /\ ~(S.order = o /\ S.at \in Booking) =>
          /\ Moved(s, o) <= S.rows[o].filled - Shares(o)
          /\ Prices = {TRUE} => \/ Moved(s, o) = S.rows[o].filled - Shares(o)
                                \/ o \in gone /\ Moved(s, o) = 0
    /\ S.at = "write" /\ S.order \in Sells => S.base > 0
    /\ S.at = "account" /\ S.order \in Sells /\ S.base = 0 => S.order \in gone

\* The fills as a session's positions have them.
Counted(s, o) == Kept(s, o) /\ ~(sess[s].order = o /\ sess[s].at \in {"read", "write"})
Seen(s) == [o \in Orders |-> IF Counted(s, o) THEN sess[s].rows[o].filled ELSE Shares(o)]
SoldBy(fills, x) == SumFunctionOnSet(fills, Sold(x))

PositionOfSession(s, x) ==
    LET S == sess[s] IN
    /\ S.pos[x] # None => \E o \in Orders : StockOf[o] = x /\ Kept(s, o)
    /\ x \notin Astray =>
          IF S.pos[x] # None THEN S.pos[x] = After(Seen(s), x)
          ELSE \A o \in Orders : StockOf[o] = x /\ Counted(s, o) => S.rows[o].filled = Shares(o)
    /\ Trading => Current(s, x) >= Holding[x] - SoldBy(Seen(s), x)
    /\ S.at = "write" /\ StockOf[S.order] = x /\ Trading =>
          /\ S.base >= Holding[x] - SoldBy(Seen(s), x)
          /\ (\A p \in Orders : StockOf[p] = x => p = S.order) => S.base = Current(s, x)

\* A copy writes what the broker has, which no longer trades.
PositionOfCopy(c, x) ==
    /\ sess[c].held[x] # None => sess[c].held[x] = AtBroker(x)
    /\ sess[c].pos[x] # None => sess[c].pos[x] = AtBroker(x)

SessionInv(s) ==
    /\ Shape(s) /\ ShapeOfOrder(s) /\ ShapeOfOthers(s) /\ Facts(s) /\ CashOfSession(s)
    /\ \A x \in Stocks : IF s \in Copies THEN PositionOfCopy(s, x) ELSE PositionOfSession(s, x)

\* Row locks: of two sessions one has not written the row.
Exclusive ==
    \A s, q \in Sessions : s # q =>
        /\ \A o \in Orders : ~Kept(s, o) \/ ~Kept(q, o)
        /\ \A x \in Stocks : sess[s].pos[x] = None \/ sess[q].pos[x] = None

BooksInv ==
    /\ \A o \in Orders :
          /\ BrokerSound(o)
          /\ row[o] # None => Behind(o, row[o])
          /\ paid[o] <= Shares(o)
          /\ Prices = {TRUE} /\ o \notin gone => paid[o] = Shares(o)
    /\ \A x \in Stocks :
          /\ x \notin Astray => position[x] = Booked(x)
          /\ Trading => position[x] >= Holding[x] - SoldBy([o \in Orders |-> Shares(o)], x)
    /\ \A x \in overwritten :
          (\E o, p \in Orders : o # p /\ StockOf[o] = x /\ StockOf[p] = x) \/ ~Trading
    /\ SalesFindTheirShares

Inv == TypeOK /\ BooksInv /\ Exclusive /\ \A s \in Sessions : SessionInv(s)

-----------------------------------------------------------------------------
(* What fills make of a position. *)

Fills == [Orders -> Nat]

LEMMA StockSides ==
    ASSUME NEW x \in Stocks
    PROVE  /\ IsFiniteSet(Bought(x)) /\ IsFiniteSet(Sold(x))
           /\ Bought(x) \subseteq Orders /\ Sold(x) \subseteq Orders
           /\ \A o \in Orders : /\ o \in Bought(x) <=> o \notin Sells /\ StockOf[o] = x
                                /\ o \in Sold(x) <=> o \in Sells /\ StockOf[o] = x
  <1>1. Bought(x) \subseteq Orders /\ Sold(x) \subseteq Orders
    BY SidesAssumption DEF Bought, Sold
  <1>2. IsFiniteSet(Bought(x)) /\ IsFiniteSet(Sold(x))
    BY <1>1, SessionsAssumption, FS_Subset
  <1> QED  BY <1>1, <1>2, SidesAssumption DEF Bought, Sold

LEMMA AfterInt ==
    ASSUME NEW x \in Stocks, NEW f \in Fills
    PROVE  /\ After(f, x) \in Int /\ SoldBy(f, x) \in Int /\ Holding[x] \in Nat
           /\ After(f, x) = Holding[x] + Sum(f, Bought(x)) - SoldBy(f, x)
           /\ Sum(f, Bought(x)) \in Int
  <1>1. Sum(f, Bought(x)) \in Int /\ Sum(f, Sold(x)) \in Int
    <2>1. \A o \in Orders : f[o] \in Int
      BY DEF Fills
    <2> QED  BY <2>1, StockSides, SumInt
  <1>2. Holding[x] \in Nat
    BY StockAssumption
  <1> QED  BY <1>1, <1>2 DEF After, SoldBy, Sum

\* Only the fills of the stock's orders matter.
LEMMA AfterSame ==
    ASSUME NEW x \in Stocks, NEW f \in Fills, NEW g \in Fills,
           \A o \in Orders : StockOf[o] = x => f[o] = g[o]
    PROVE  After(f, x) = After(g, x) /\ SoldBy(f, x) = SoldBy(g, x)
  <1>1. \A o \in Orders : f[o] \in Int /\ g[o] \in Int
    BY DEF Fills
  <1>2. Sum(f, Bought(x)) = Sum(g, Bought(x))
    <2>1. \A o \in Bought(x) : f[o] \in Int /\ g[o] \in Int /\ f[o] = g[o]
      BY <1>1, StockSides
    <2> QED  BY <2>1, StockSides, SumCompare
  <1>3. Sum(f, Sold(x)) = Sum(g, Sold(x))
    <2>1. \A o \in Sold(x) : f[o] \in Int /\ g[o] \in Int /\ f[o] = g[o]
      BY <1>1, StockSides
    <2> QED  BY <2>1, StockSides, SumCompare
  <1> QED  BY <1>2, <1>3 DEF After, SoldBy, Sum

\* More fills sell more.
LEMMA SoldGrows ==
    ASSUME NEW x \in Stocks, NEW f \in Fills, NEW g \in Fills,
           \A o \in Orders : StockOf[o] = x => f[o] <= g[o]
    PROVE  SoldBy(f, x) <= SoldBy(g, x)
  <1>1. \A o \in Sold(x) : f[o] \in Int /\ g[o] \in Int /\ f[o] <= g[o]
    BY StockSides DEF Fills
  <1> QED  BY <1>1, StockSides, SumCompare DEF SoldBy, Sum

\* What one order fills moves the position by as much.
LEMMA AfterFill ==
    ASSUME NEW x \in Stocks, NEW f \in Fills, NEW g \in Fills,
           NEW o \in Orders, StockOf[o] = x,
           \A p \in Orders : StockOf[p] = x /\ p # o => f[p] = g[p]
    PROVE  /\ o \in Sells => /\ After(g, x) = After(f, x) - (g[o] - f[o])
                             /\ SoldBy(g, x) = SoldBy(f, x) + (g[o] - f[o])
           /\ o \notin Sells => /\ After(g, x) = After(f, x) + (g[o] - f[o])
                                /\ SoldBy(g, x) = SoldBy(f, x)
  <1>1. \A p \in Orders : f[p] \in Int /\ g[p] \in Int
    BY DEF Fills
  <1>2. PICK d \in Int : d = g[o] - f[o]
    BY <1>1
  <1>3. CASE o \in Sells
    <2>1. \A p \in Bought(x) : f[p] \in Int /\ g[p] \in Int /\ f[p] = g[p]
      BY <1>1, <1>3, StockSides
    <2>2. Sum(f, Bought(x)) = Sum(g, Bought(x))
      BY <2>1, StockSides, SumCompare
    <2>3. o \in Sold(x) /\ \A p \in Sold(x) : f[p] \in Int /\ g[p] \in Int
      BY <1>1, <1>3, StockSides
    <2>4. \A p \in Sold(x) \ {o} : f[p] = g[p]
      BY StockSides
    <2>5. Sum(g, Sold(x)) = Sum(f, Sold(x)) + d
      BY <1>2, <2>3, <2>4, StockSides, SumChange
    <2>6. SoldBy(g, x) = SoldBy(f, x) + d
      BY <2>5 DEF SoldBy, Sum
    <2> QED  BY <1>2, <1>3, <2>2, <2>6, AfterInt
  <1>4. CASE o \notin Sells
    <2>1. \A p \in Sold(x) : f[p] \in Int /\ g[p] \in Int /\ f[p] = g[p]
      BY <1>1, <1>4, StockSides
    <2>2. SoldBy(f, x) = SoldBy(g, x)
      BY <2>1, StockSides, SumCompare DEF SoldBy, Sum
    <2>3. o \in Bought(x) /\ \A p \in Bought(x) : f[p] \in Int /\ g[p] \in Int
      BY <1>1, <1>4, StockSides
    <2>4. \A p \in Bought(x) \ {o} : f[p] = g[p]
      BY StockSides
    <2>5. Sum(g, Bought(x)) = Sum(f, Bought(x)) + d
      BY <1>2, <2>3, <2>4, StockSides, SumChange
    <2> QED  BY <1>2, <1>4, <2>2, <2>5, AfterInt
  <1> QED  BY <1>3, <1>4

-----------------------------------------------------------------------------
(* What is read, and what becomes of it. *)

LEMMA Constants ==
    /\ Quantity \in Nat /\ Quantity > 0
    /\ StockOf \in [Orders -> Stocks] /\ Sells \subseteq Orders
    /\ None \notin Report /\ None \notin Message /\ None \notin Nat /\ None \notin Orders
    /\ \A s \in Sessions : /\ s \in Orders => s \notin Polls /\ s \notin Copies
                           /\ s \in Copies => s \notin Polls /\ s \notin Orders
    /\ Orders \subseteq Sessions /\ Copies \subseteq Sessions
  BY QuantityAssumption, StockAssumption, SidesAssumption, SessionsAssumption, NoneAssumption
     DEF Sessions

\* The types, seen a field at a time.
LEMMA Fields ==
    ASSUME TypeOK
    PROVE  /\ \A o \in Orders :
                /\ broker[o] # None => /\ broker[o].status \in Open \cup Terminal
                                       /\ broker[o].filled \in 0..Quantity
                                       /\ broker[o] \in Report
                /\ row[o] # None => /\ row[o].status \in Open \cup Terminal
                                    /\ row[o].filled \in 0..Quantity
                                    /\ row[o] \in Report
                /\ Shares(o) \in 0..Quantity /\ Executed(o) \in 0..Quantity /\ paid[o] \in Nat
                /\ StockOf[o] \in Stocks
           /\ \A x \in Stocks : position[x] \in Nat
           /\ \A s \in Sessions : sess[s] \in Session
  <1>1. \A r \in Report : r.status \in Open \cup Terminal /\ r.filled \in 0..Quantity
    BY DEF Report
  <1> QED  BY <1>1, Constants DEF TypeOK, Shares, Executed, Filled

LEMMA FieldsNext ==
    ASSUME TypeOK'
    PROVE  /\ \A o \in Orders :
                /\ broker'[o] # None => /\ broker'[o].status \in Open \cup Terminal
                                        /\ broker'[o].filled \in 0..Quantity
                /\ row'[o] # None => row'[o].filled \in 0..Quantity
                /\ Shares(o)' \in 0..Quantity /\ paid'[o] \in Nat
           /\ \A x \in Stocks : position'[x] \in Nat
  <1>1. \A r \in Report : r.status \in Open \cup Terminal /\ r.filled \in 0..Quantity
    BY DEF Report
  <1> QED  BY <1>1, Constants DEF TypeOK, Shares

LEMMA SessionFields ==
    ASSUME TypeOK, NEW s \in Sessions
    PROVE  /\ sess[s] \in Session
           /\ sess[s].at \in Places /\ sess[s].todo \subseteq Orders
           /\ sess[s].order \in Orders \cup {None} /\ sess[s].base \in Nat
           /\ sess[s].snap \in Report \cup {None} /\ sess[s].msg \in Message \cup {None}
           /\ sess[s].view \in [Orders -> Report \cup {None}]
           /\ sess[s].rows \in [Orders -> Report \cup {None}]
           /\ sess[s].held \in [Stocks -> Nat \cup {None}]
           /\ sess[s].pos \in [Stocks -> Nat \cup {None}]
           /\ sess[s].money \in [Orders -> Nat \cup {None}]
           /\ \A o \in Orders : Kept(s, o) => /\ sess[s].rows[o] \in Report
                                              /\ sess[s].rows[o].filled \in 0..Quantity
           /\ \A x \in Stocks : Current(s, x) \in Nat
           /\ Seen(s) \in Fills
           /\ \A o \in Orders :
                 Seen(s)[o] = IF Counted(s, o) THEN sess[s].rows[o].filled ELSE Shares(o)
  <1>1. sess[s] \in Session
    BY DEF TypeOK
  <1>2. /\ sess[s].at \in Places /\ sess[s].todo \subseteq Orders
        /\ sess[s].order \in Orders \cup {None} /\ sess[s].base \in Nat
        /\ sess[s].snap \in Report \cup {None} /\ sess[s].msg \in Message \cup {None}
        /\ sess[s].view \in [Orders -> Report \cup {None}]
        /\ sess[s].rows \in [Orders -> Report \cup {None}]
        /\ sess[s].held \in [Stocks -> Nat \cup {None}]
        /\ sess[s].pos \in [Stocks -> Nat \cup {None}]
        /\ sess[s].money \in [Orders -> Nat \cup {None}]
    BY <1>1 DEF Session
  <1>3. \A r \in Report : r.filled \in 0..Quantity
    BY DEF Report
  <1>4. \A o \in Orders : Kept(s, o) => /\ sess[s].rows[o] \in Report
                                        /\ sess[s].rows[o].filled \in 0..Quantity
    BY <1>2, <1>3 DEF Kept
  <1>5. \A x \in Stocks : Current(s, x) \in Nat
    BY <1>2, Fields DEF Current
  <1>6. \A o \in Orders : Counted(s, o) => Kept(s, o)
    BY DEF Counted
  <1>7. Seen(s) \in Fills
    BY <1>4, <1>6, Fields, Constants DEF Seen, Fills
  <1> QED  BY <1>1, <1>2, <1>4, <1>5, <1>7 DEF Seen

\* The broker's reports are true, and so is what Normalised and Target make of
\* a true one.
LEMMA NormalisedSound ==
    ASSUME NEW r \in Report
    PROVE  /\ Normalised(r) \in Report
           /\ Normalised(r).filled = r.filled /\ Normalised(r).priced = r.priced
           /\ Normalised(r).status \in Terminal =>
                 Normalised(r).status = r.status
  <1>1. /\ r.status \in Open \cup Terminal /\ r.filled \in 0..Quantity /\ r.priced \in BOOLEAN
        /\ r = [status |-> r.status, filled |-> r.filled, priced |-> r.priced]
    BY DEF Report
  <1> QED  BY <1>1 DEF Normalised, Report, Open, Terminal

LEMMA TargetSound ==
    ASSUME NEW r \in Report, NEW old \in Report
    PROVE  /\ Target(old, r) \in Report
           /\ Target(old, r).filled = r.filled
           /\ Target(old, r).status = Normalised(r).status
           /\ Target(old, r).priced = (r.priced \/ old.priced)
  <1>1. /\ Normalised(r) \in Report /\ Normalised(r).filled = r.filled
        /\ r.priced \in BOOLEAN /\ old.priced \in BOOLEAN
    BY NormalisedSound DEF Report
  <1>2. PICK b \in BOOLEAN : b = (r.priced \/ old.priced)
    OBVIOUS
  <1>3. PICK n \in Report : n = Normalised(r)
    BY <1>1
  <1>4. Target(old, r) = [n EXCEPT !.priced = b]
    BY <1>2, <1>3 DEF Target
  <1>5. /\ [n EXCEPT !.priced = b] \in Report /\ [n EXCEPT !.priced = b].filled = n.filled
        /\ [n EXCEPT !.priced = b].status = n.status /\ [n EXCEPT !.priced = b].priced = b
    BY DEF Report
  <1> QED  BY <1>1, <1>2, <1>3, <1>4, <1>5

LEMMA ReportsTrue ==
    ASSUME TypeOK, NEW o \in Orders, broker[o] # None, BrokerSound(o), NEW r \in Reports(o)
    PROVE  r \in Report /\ Truthful(o, r)
  <1>1. broker[o] \in Report /\ broker[o].filled \in 0..Quantity
    BY Fields
  <1>2. CASE r = broker[o]
    <2>1. /\ Normalised(r).filled = r.filled /\ Normalised(r).priced = r.priced
          /\ Normalised(r).status \in Terminal => Normalised(r).status = r.status
      BY <1>1, <1>2, NormalisedSound
    <2>2. r.priced /\ r.filled <= broker[o].filled
      BY <1>1, <1>2 DEF BrokerSound
    <2> QED  BY <1>1, <1>2, <2>1, <2>2 DEF Truthful, Behind
  <1>3. CASE r # broker[o]
    <2>1. /\ r \in [status : Lags, filled : 0..Filled(o), priced : Prices]
          /\ r.status = "FILLED" => broker[o].status = "FILLED"
      BY <1>3 DEF Reports
    <2>2. r.status \in Lags /\ r.filled \in 0..Filled(o) /\ r.priced \in Prices
      BY <2>1
    <2>3. r \in Report
      <3>1. r.status \in Open \cup Terminal
        BY <2>2, ReportsAssumption DEF Open, Terminal
      <3>2. r.filled \in 0..Quantity
        BY <1>1, <2>2, Constants DEF Filled
      <3>3. r.priced \in BOOLEAN
        BY <2>2, ReportsAssumption, Zenon
      <3>4. r = [status |-> r.status, filled |-> r.filled, priced |-> r.priced]
        BY <2>1
      <3> QED  BY <3>1, <3>2, <3>3, <3>4 DEF Report
    <2>4. Normalised(r).status \in Terminal =>
             Normalised(r).status = "FILLED" /\ r.status = "FILLED" /\ r.filled = Quantity
      <3>1. /\ r.status \in {"SUBMITTED", "PARTIAL", "FILLED"}
            /\ r = [status |-> r.status, filled |-> r.filled, priced |-> r.priced]
        BY <2>1, <2>2, ReportsAssumption
      <3> QED  BY <3>1 DEF Normalised, Terminal
    <2>5. Normalised(r).filled = r.filled /\ Normalised(r).priced = r.priced
      BY <2>3, NormalisedSound
    <2>6. r.filled <= broker[o].filled
      BY <1>1, <2>2 DEF Filled
    <2>7. Normalised(r).status \in Terminal =>
             /\ Normalised(r).status = broker[o].status
             /\ Normalised(r).filled = broker[o].filled
      BY <2>1, <2>4, <2>5 DEF BrokerSound
    <2>8. Prices = {TRUE} => Normalised(r).priced
      <3>1. Prices = {TRUE} => r.priced = TRUE
        BY <2>2
      <3> QED  BY <2>5, <3>1
    <2> QED  BY <2>3, <2>5, <2>6, <2>7, <2>8 DEF Truthful, Behind
  <1> QED  BY <1>2, <1>3

-----------------------------------------------------------------------------
(* Steps of one session that leave the committed books alone. *)

Grown == /\ overwritten \subseteq overwritten' /\ early \subseteq early'
         /\ short \subseteq short' /\ gone \subseteq gone'
         /\ Trading' => Trading
\* The broker stays or moves on; once nothing trades it fills nothing.
BrokerOn == /\ \A o \in Orders :
                  /\ BrokerSound(o)'
                  /\ broker[o] # None => broker'[o] # None /\ broker'[o].filled >= broker[o].filled
                  /\ broker[o] # None /\ broker[o].status \in Terminal => broker'[o] = broker[o]
            /\ ~Trading => \A x \in Stocks : AtBroker(x)' = AtBroker(x)
Only(s) == /\ BrokerOn /\ UNCHANGED <<row, position, paid>> /\ Grown
           /\ \A q \in Sessions : q # s => sess'[q] = sess[q]

LEMMA AstrayGrows == ASSUME Grown  PROVE Astray \subseteq Astray'
  BY DEF Grown, Astray

LEMMA BrokerStays == ASSUME Inv, broker' = broker  PROVE BrokerOn
  <1>1. \A o \in Orders : BrokerSound(o)
    BY DEF Inv, BooksInv
  <1>2. \A x \in Stocks : AtBroker(x)' = AtBroker(x)
    BY DEF AtBroker, Executed, Filled, After, Bought, Sold
  <1>3. \A o \in Orders : broker[o] # None => broker[o].filled >= broker[o].filled
    BY Fields DEF Inv
  <1> QED  BY <1>1, <1>2, <1>3 DEF BrokerOn, BrokerSound

LEMMA BehindLasts ==
    ASSUME Inv, TypeOK', BrokerOn, NEW o \in Orders, NEW r \in Report
    PROVE  /\ Behind(o, r) => Behind(o, r)'
           /\ Truthful(o, r) => Truthful(o, r)'
  <1>1. ASSUME NEW p \in Report, Behind(o, p)  PROVE Behind(o, p)'
    <2>1. p.filled \in Int /\ p.status \in Open \cup Terminal
      BY DEF Report
    <2>2. /\ broker[o] # None /\ p.filled <= broker[o].filled
          /\ p.status \in Terminal => p.status = broker[o].status /\ p.filled = broker[o].filled
          /\ Prices = {TRUE} => p.priced
      BY <1>1 DEF Behind
    <2>3. /\ broker'[o] # None /\ broker'[o].filled >= broker[o].filled
          /\ broker[o].status \in Terminal => broker'[o] = broker[o]
      BY <2>2 DEF BrokerOn
    <2>4. broker[o].filled \in Int /\ broker'[o].filled \in Int
      BY <2>2, <2>3, Fields, FieldsNext DEF Inv
    <2>5. p.filled <= broker'[o].filled
      BY <2>1, <2>2, <2>3, <2>4
    <2> QED  BY <2>2, <2>3, <2>5 DEF Behind
  <1> QED  BY <1>1, NormalisedSound DEF Truthful

LEMMA OthersKept ==
    ASSUME Inv, TypeOK', NEW s, Only(s), NEW q \in Sessions, sess'[q] = sess[q]
    PROVE  /\ SessionInv(q)'
           /\ \A o \in Orders : Kept(q, o)' <=> Kept(q, o)
  <1>1. /\ sess'[q] = sess[q] /\ row' = row /\ position' = position
        /\ gone \subseteq gone' /\ (Trading' => Trading) /\ Astray \subseteq Astray'
    BY AstrayGrows DEF Only, Grown
  <1>2. SessionInv(q)
    BY DEF Inv
  <1>3. Shape(q)'
    BY <1>1, <1>2 DEF SessionInv, Shape, Kept
  <1>4. ShapeOfOrder(q)' /\ ShapeOfOthers(q)'
    BY <1>1, <1>2 DEF SessionInv, ShapeOfOrder, ShapeOfOthers, Kept, Only, BrokerOn
  <1>5. Facts(q)'
    <2>1. BrokerOn
      BY DEF Only
    <2>2. /\ \A o \in Orders : Kept(q, o) => sess[q].rows[o] \in Report
          /\ sess[q].snap \in Report \cup {None} /\ sess[q].order \in Orders \cup {None}
          /\ sess[q].msg \in Message \cup {None}
      BY SessionFields DEF Inv
    <2>3. /\ sess[q].at = "apply" => sess[q].snap \in Report /\ sess[q].order \in Orders
          /\ sess[q].msg # None => sess[q].msg.report \in Report /\ sess[q].order \in Orders
      BY <1>2, <2>2 DEF SessionInv, Shape, Message, Busy
    <2>4. Facts(q)
      BY <1>2 DEF SessionInv
    <2>5. /\ sess'[q].at = "apply" => Truthful(sess[q].order, sess[q].snap)'
          /\ sess'[q].msg # None /\ sess'[q].msg.cumulative =>
                Truthful(sess[q].order, sess[q].msg.report)'
      <3>1. ASSUME sess[q].at = "apply"  PROVE Truthful(sess[q].order, sess[q].snap)'
        <4>1. PICK o \in Orders, r \in Report : o = sess[q].order /\ r = sess[q].snap
          BY <2>3, <3>1
        <4>2. Truthful(o, r)
          BY <2>4, <3>1, <4>1 DEF Facts
        <4>3. Truthful(o, r)'
          BY <2>1, <4>2, BehindLasts
        <4> QED  BY <1>1, <4>1, <4>3
      <3>2. ASSUME sess[q].msg # None, sess[q].msg.cumulative
            PROVE  Truthful(sess[q].order, sess[q].msg.report)'
        <4>1. PICK o \in Orders, r \in Report : o = sess[q].order /\ r = sess[q].msg.report
          BY <2>3, <3>2
        <4>2. Truthful(o, r)
          BY <2>4, <3>2, <4>1 DEF Facts
        <4>3. Truthful(o, r)'
          BY <2>1, <4>2, BehindLasts
        <4> QED  BY <1>1, <4>1, <4>3
      <3> QED  BY <1>1, <3>1, <3>2
    <2>6. \A o \in Orders : Kept(q, o)' => Behind(o, sess[q].rows[o])'
      <3>1. ASSUME NEW o \in Orders, Kept(q, o)  PROVE Behind(o, sess[q].rows[o])'
        <4>1. PICK r \in Report : r = sess[q].rows[o]
          BY <2>2, <3>1
        <4>2. Behind(o, r)
          BY <2>4, <3>1, <4>1 DEF Facts
        <4>3. Behind(o, r)'
          BY <2>1, <4>2, BehindLasts
        <4> QED  BY <1>1, <4>1, <4>3
      <3> QED  BY <1>1, <3>1 DEF Kept
    <2> QED  BY <1>1, <2>4, <2>5, <2>6 DEF Facts, Kept, Shares, Before
  <1>6. CashOfSession(q)'
    BY <1>1, <1>2 DEF SessionInv, CashOfSession, Kept, Shares, Moved
  <1>7. ASSUME NEW x \in Stocks, q \notin Copies  PROVE PositionOfSession(q, x)'
    <2>1. PositionOfSession(q, x)
      BY <1>2, <1>7 DEF SessionInv
    <2>2. Seen(q)' = Seen(q) /\ (Current(q, x)' = Current(q, x))
      BY <1>1 DEF Seen, Counted, Kept, Shares, Current
    <2>3. \A o \in Orders : (Counted(q, o)' <=> Counted(q, o)) /\ Shares(o)' = Shares(o)
                            /\ (Kept(q, o)' <=> Kept(q, o))
      BY <1>1 DEF Counted, Kept, Shares
    <2>4. \A f : After(f, x)' = After(f, x) /\ SoldBy(f, x)' = SoldBy(f, x)
      BY DEF After, SoldBy, Bought, Sold
    <2> QED  BY <1>1, <2>1, <2>2, <2>3, <2>4 DEF PositionOfSession
  <1>8. ASSUME NEW x \in Stocks, q \in Copies  PROVE PositionOfCopy(q, x)'
    <2>1. PositionOfCopy(q, x)
      BY <1>2, <1>8 DEF SessionInv
    <2>2. CASE sess[q].at = "idle"
      BY <1>1, <1>2, <2>2 DEF SessionInv, Shape, Fresh, PositionOfCopy
    <2>3. CASE sess[q].at # "idle"
      <3>1. AtBroker(x)' = AtBroker(x)
        BY <1>8, <2>3 DEF Only, BrokerOn, Trading
      <3> QED  BY <1>1, <2>1, <3>1 DEF PositionOfCopy
    <2> QED  BY <2>2, <2>3
  <1> QED  BY <1>1, <1>3, <1>4, <1>5, <1>6, <1>7, <1>8 DEF SessionInv, Kept

\* The same for what is said of the books themselves.
Causes ==
    /\ \A x \in overwritten :
          (\E o, p \in Orders : o # p /\ StockOf[o] = x /\ StockOf[p] = x) \/ ~Trading
    /\ SalesFindTheirShares

LEMMA BooksKept ==
    ASSUME Inv, TypeOK', NEW s, Only(s), Causes'
    PROVE  BooksInv'
  <1>1. /\ row' = row /\ position' = position /\ paid' = paid
        /\ gone \subseteq gone' /\ (Trading' => Trading) /\ Astray \subseteq Astray'
    BY AstrayGrows DEF Only, Grown
  <1>2. BooksInv
    BY DEF Inv
  <1>3. \A o \in Orders :
          /\ BrokerSound(o)'
          /\ row'[o] # None => Behind(o, row[o])'
          /\ paid'[o] <= Shares(o)'
          /\ Prices = {TRUE} /\ o \notin gone' => paid'[o] = Shares(o)'
    <2>1. \A o \in Orders : row[o] # None => row[o] \in Report
      BY Fields DEF Inv
    <2>2. \A o \in Orders : row'[o] # None => Behind(o, row[o])'
      <3>1. ASSUME NEW o \in Orders, row[o] # None  PROVE Behind(o, row[o])'
        <4>1. PICK r \in Report : r = row[o]
          BY <2>1, <3>1
        <4>2. Behind(o, r)
          BY <1>2, <3>1, <4>1 DEF BooksInv
        <4>3. Behind(o, r)'
          BY <4>2, BehindLasts DEF Only
        <4> QED  BY <1>1, <4>1, <4>3
      <3> QED  BY <1>1, <3>1
    <2> QED  BY <1>1, <1>2, <2>2 DEF BooksInv, Shares, Only, BrokerOn
  <1>4. ASSUME NEW x \in Stocks
        PROVE  /\ x \notin Astray' => position'[x] = Booked(x)'
               /\ Trading' => position'[x] >= Holding[x] - SoldBy([o \in Orders |-> Shares(o)], x)'
    <2>1. [o \in Orders |-> Shares(o)]' = [o \in Orders |-> Shares(o)]
      BY <1>1 DEF Shares
    <2>2. \A f : After(f, x)' = After(f, x) /\ SoldBy(f, x)' = SoldBy(f, x)
      BY DEF After, SoldBy, Bought, Sold
    <2> QED  BY <1>1, <1>2, <2>1, <2>2 DEF BooksInv, Booked
  <1> QED  BY <1>1, <1>3, <1>4 DEF BooksInv, Causes

\* When no cause has appeared.
LEMMA CausesKept ==
    ASSUME Inv, Trading' => Trading, UNCHANGED history
    PROVE  Causes'
  <1>1. /\ overwritten' = overwritten /\ short' = short /\ gone' = gone
    BY DEF history
  <1> QED  BY <1>1 DEF Inv, BooksInv, Causes, SalesFindTheirShares, Sold

\* All that a session's own step must show.
LEMMA OwnStep ==
    ASSUME Inv, TypeOK', NEW s \in Sessions, Only(s), Causes', SessionInv(s)',
           \A o \in Orders : Kept(s, o)' => Kept(s, o) \/ ~OrderLocked(s, o),
           \A x \in Stocks : sess'[s].pos[x] # None =>
                                sess[s].pos[x] # None \/ ~PositionLocked(s, x)
    PROVE  Inv'
  <1>1. BooksInv'
    BY BooksKept
  <1>3. \A q \in Sessions : q # s => sess'[q] = sess[q]
    BY DEF Only
  <1>2. \A q \in Sessions : SessionInv(q)'
    BY <1>3, OthersKept
  <1>4. ASSUME NEW q \in Sessions, q # s
        PROVE  /\ \A o \in Orders : ~Kept(s, o)' \/ ~Kept(q, o)'
               /\ \A x \in Stocks : sess'[s].pos[x] = None \/ sess'[q].pos[x] = None
    <2>1. /\ \A o \in Orders : ~Kept(s, o) \/ ~Kept(q, o)
          /\ \A x \in Stocks : sess[s].pos[x] = None \/ sess[q].pos[x] = None
      BY <1>4 DEF Inv, Exclusive
    <2>2. \A o \in Orders : ~Kept(s, o)' \/ ~Kept(q, o)'
      BY <1>3, <1>4, <2>1 DEF OrderLocked, Others, Kept
    <2>3. \A x \in Stocks : sess'[s].pos[x] = None \/ sess'[q].pos[x] = None
      BY <1>3, <1>4, <2>1 DEF PositionLocked, Others
    <2> QED  BY <2>2, <2>3
  <1>5. Exclusive'
    <2> SUFFICES ASSUME NEW p \in Sessions, NEW q \in Sessions, p # q
                 PROVE  /\ \A o \in Orders : ~Kept(p, o)' \/ ~Kept(q, o)'
                        /\ \A x \in Stocks : sess'[p].pos[x] = None \/ sess'[q].pos[x] = None
      BY DEF Exclusive
    <2>1. CASE p = s
      BY <1>4, <2>1
    <2>2. CASE q = s
      BY <1>4, <2>2
    <2>3. CASE p # s /\ q # s
      <3>1. sess'[p] = sess[p] /\ sess'[q] = sess[q]
        BY <1>3, <2>3
      <3> QED  BY <3>1 DEF Inv, Exclusive, Kept
    <2> QED  BY <2>1, <2>2, <2>3
  <1> QED  BY <1>1, <1>2, <1>5 DEF Inv

-----------------------------------------------------------------------------
(* Types. *)

LEMMA FreshType ==
    /\ Fresh \in Session
    /\ \A s \in Sessions : Ended(s) \in Session
  <1>1. Fresh \in Session
    BY DEF Fresh, Session, Places
  <1>2. [Fresh EXCEPT !.at = "done"] \in Session
    BY DEF Fresh, Session, Places
  <1> QED  BY <1>1, <1>2 DEF Ended

LEMMA SettledType ==
    ASSUME TypeOK, NEW s \in Sessions, sess[s].order \in Orders
    PROVE  /\ Settled(s) \in Session
           /\ Settled(s).at = "next" /\ Settled(s).order = None /\ Settled(s).snap = None
           /\ Settled(s).msg = None /\ Settled(s).base = 0
           /\ Settled(s).view = [sess[s].view EXCEPT ![sess[s].order] = None]
           /\ Settled(s).todo = sess[s].todo /\ Settled(s).held = sess[s].held
           /\ Settled(s).rows = sess[s].rows /\ Settled(s).pos = sess[s].pos
           /\ Settled(s).money = sess[s].money
  <1>1. PICK v : v = [sess[s].view EXCEPT ![sess[s].order] = None]
    OBVIOUS
  <1>2. v \in [Orders -> Report \cup {None}]
    BY <1>1, SessionFields
  <1>3. PICK S \in Session : S = sess[s]
    BY SessionFields
  <1>4. Settled(s) = [S EXCEPT !.at = "next", !.order = None, !.view = v,
                               !.snap = None, !.msg = None, !.base = 0]
    BY <1>1, <1>3 DEF Settled
  <1>5. PICK N : N = [S EXCEPT !.at = "next", !.order = None, !.view = v,
                               !.snap = None, !.msg = None, !.base = 0]
    OBVIOUS
  <1>6. N \in Session
    BY <1>2, <1>3, <1>5 DEF Session, Places
  <1>7. /\ N.at = "next" /\ N.order = None /\ N.snap = None /\ N.msg = None /\ N.base = 0
        /\ N.view = v /\ N.todo = S.todo /\ N.held = S.held /\ N.rows = S.rows
        /\ N.pos = S.pos /\ N.money = S.money
    BY <1>3, <1>5 DEF Session
  <1> QED  BY <1>1, <1>3, <1>4, <1>5, <1>6, <1>7, Zenon

LEMMA UnchangedType ==
    ASSUME TypeOK, NEW s \in Sessions, sess[s].order \in Orders
    PROVE  /\ Unchanged(s) \in Session
           /\ \/ Unchanged(s) = Settled(s)
              \/ /\ sess[s].msg # None /\ sess[s].msg.cumulative
                 /\ Unchanged(s).at = "apply" /\ Unchanged(s).snap = sess[s].msg.report
                 /\ Unchanged(s).msg = None /\ Unchanged(s).order = sess[s].order
                 /\ Unchanged(s).base = sess[s].base
                 /\ Unchanged(s).view = [sess[s].view EXCEPT ![sess[s].order] = sess[s].msg.read]
                 /\ Unchanged(s).todo = sess[s].todo /\ Unchanged(s).held = sess[s].held
                 /\ Unchanged(s).rows = sess[s].rows /\ Unchanged(s).pos = sess[s].pos
                 /\ Unchanged(s).money = sess[s].money
  <1>1. PICK S \in Session : S = sess[s]
    BY SessionFields
  <1>2. CASE ~ (/\ S.msg # None /\ S.msg.cumulative
                /\ S.msg.report.status # S.msg.read.status \/ S.msg.report.filled # S.msg.read.filled)
    <2>1. Unchanged(s) = Settled(s)
      BY <1>1, <1>2 DEF Unchanged
    <2> QED  BY <2>1, SettledType
  <1>3. CASE /\ S.msg # None /\ S.msg.cumulative
             /\ S.msg.report.status # S.msg.read.status \/ S.msg.report.filled # S.msg.read.filled
    <2>1. PICK v : v = [sess[s].view EXCEPT ![sess[s].order] = sess[s].msg.read]
      OBVIOUS
    <2>2. S.msg.report \in Report /\ S.msg.read \in Report
      BY <1>1, <1>3, SessionFields DEF Message
    <2>3. v \in [Orders -> Report \cup {None}]
      BY <1>1, <2>1, <2>2, SessionFields
    <2>4. Unchanged(s) = [S EXCEPT !.at = "apply", !.view = v, !.snap = S.msg.report, !.msg = None]
      BY <1>1, <1>3, <2>1 DEF Unchanged
    <2> QED  BY <1>1, <1>3, <2>1, <2>2, <2>3, <2>4 DEF Session, Places
  <1> QED  BY <1>2, <1>3

LEMMA StepType ==
    ASSUME TypeOK, NEW s \in Sessions, NEW N \in Session, Step(s, N)
    PROVE  /\ sess' \in [Sessions -> Session] /\ sess'[s] = N
           /\ \A q \in Sessions : q # s => sess'[q] = sess[q]
  BY DEF TypeOK, Step

-----------------------------------------------------------------------------
(* The ends of sessions. *)

\* A session that has begun nothing, or is over, says what the books say.
LEMMA EndedSound ==
    ASSUME TypeOK', BooksInv', NEW s \in Sessions, sess'[s] = Ended(s)
    PROVE  SessionInv(s)'
  <1>1. /\ sess'[s].at \in {"idle", "done"} /\ sess'[s].order = None /\ sess'[s].todo = {}
        /\ sess'[s].snap = None /\ sess'[s].msg = None
        /\ sess'[s].view = [o \in Orders |-> None] /\ sess'[s].rows = [o \in Orders |-> None]
        /\ sess'[s].money = [o \in Orders |-> None]
        /\ sess'[s].pos = [x \in Stocks |-> None] /\ sess'[s].held = [x \in Stocks |-> None]
        /\ (sess'[s].at = "idle" => sess'[s] = Fresh /\ s \in Polls)
        /\ (sess'[s].at = "done" => sess'[s] = [Fresh EXCEPT !.at = "done"])
    BY DEF Ended, Fresh
  <1>2. \A o \in Orders : ~Kept(s, o)' /\ ~Counted(s, o)'
    BY <1>1 DEF Kept, Counted
  <1>3. Shape(s)'
    BY <1>1, <1>2 DEF Shape, Busy, Booking
  <1>4. ShapeOfOrder(s)' /\ ShapeOfOthers(s)'
    BY <1>1, <1>2, Constants DEF ShapeOfOrder, ShapeOfOthers
  <1>5. Facts(s)' /\ CashOfSession(s)'
    BY <1>1, <1>2 DEF Facts, CashOfSession, Booking
  <1>6. ASSUME NEW x \in Stocks  PROVE PositionOfSession(s, x)' /\ PositionOfCopy(s, x)'
    <2>1. Seen(s)' = [o \in Orders |-> Shares(o)]' /\ Current(s, x)' = position'[x]
      BY <1>1, <1>2 DEF Seen, Current
    <2>2. \A f : SoldBy(f, x)' = SoldBy(f, x)
      BY DEF SoldBy, Sold
    <2> QED  BY <1>1, <1>2, <2>1, <2>2 DEF PositionOfSession, PositionOfCopy, BooksInv
  <1> QED  BY <1>3, <1>4, <1>5, <1>6 DEF SessionInv

LEMMA EndStep ==
    ASSUME Inv, NEW s \in Sessions, Step(s, Ended(s)), UNCHANGED <<broker, row, position, paid>>,
           UNCHANGED history, emitted' \subseteq Orders, lost' \in 0..MaxLost
    PROVE  Inv'
  <1>1. /\ sess' \in [Sessions -> Session] /\ sess'[s] = Ended(s)
        /\ \A q \in Sessions : q # s => sess'[q] = sess[q]
    BY FreshType, StepType DEF Inv
  <1>2. TypeOK'
    BY <1>1 DEF Inv, TypeOK, history
  <1>3. Trading' => Trading
    <2>1. ASSUME s \in Copies, Trading'  PROVE FALSE
      BY <1>1, <2>1, Constants DEF Trading, Ended, Fresh
    <2> QED  BY <1>1, <2>1, Constants DEF Trading
  <1>4. Only(s) /\ Causes'
    BY <1>1, <1>3, BrokerStays, CausesKept DEF Only, Grown, history
  <1>5. SessionInv(s)'
    BY <1>1, <1>2, <1>4, BooksKept, EndedSound
  <1>6. /\ \A o \in Orders : ~Kept(s, o)'
        /\ \A x \in Stocks : sess'[s].pos[x] = None
    BY <1>1 DEF Kept, Ended, Fresh
  <1> QED  BY <1>2, <1>4, <1>5, <1>6, OwnStep

LEMMA CrashStep == ASSUME Inv, NEW s \in Sessions, Crash(s)  PROVE Inv'
  <1>1. lost' \in 0..MaxLost
    BY QuantityAssumption DEF Crash, Inv, TypeOK
  <1> QED  BY <1>1, EndStep DEF Crash, BookUnchanged, Inv, TypeOK

LEMMA BreakStep == ASSUME Inv, NEW s \in Sessions, BreakDeadlock(s)  PROVE Inv'
  BY EndStep DEF BreakDeadlock, BookUnchanged, Quiet, Inv, TypeOK

-----------------------------------------------------------------------------
(* Steps of a session that book nothing. *)

\* What it has written is the same, and it is not booking.
LEMMA QuietStep ==
    ASSUME Inv, TypeOK', NEW s \in Sessions, Only(s), UNCHANGED history, s \notin Copies,
           sess'[s].rows = sess[s].rows, sess'[s].pos = sess[s].pos,
           sess'[s].money = sess[s].money,
           sess[s].at \notin Booking, sess'[s].at \notin Booking,
           Shape(s)', ShapeOfOrder(s)', ShapeOfOthers(s)',
           sess'[s].at = "apply" => Truthful(sess[s].order, sess[s].snap)',
           sess'[s].msg # None /\ sess'[s].msg.cumulative =>
                Truthful(sess[s].order, sess[s].msg.report)'
    PROVE  Inv'
  <1>1. SessionInv(s)
    BY DEF Inv
  <1>2. /\ row' = row /\ position' = position /\ (Trading' => Trading)
        /\ Astray' = Astray /\ gone' = gone
    BY DEF Only, Grown, history, Astray
  <1>3. \A o \in Orders : /\ Kept(s, o)' <=> Kept(s, o)
                          /\ Counted(s, o)' <=> Counted(s, o)
                          /\ Shares(o)' = Shares(o) /\ Moved(s, o)' = Moved(s, o)
    BY <1>2 DEF Kept, Counted, Booking, Shares, Moved
  <1>4. Facts(s)'
    <2>1. ASSUME NEW o \in Orders, Kept(s, o)  PROVE Behind(o, sess[s].rows[o])'
      <3>1. PICK r \in Report : r = sess[s].rows[o]
        BY <2>1, SessionFields DEF Inv
      <3>2. Behind(o, r)
        BY <1>1, <2>1, <3>1 DEF SessionInv, Facts
      <3>3. Behind(o, r)'
        BY <3>2, BehindLasts DEF Only
      <3> QED  BY <3>1, <3>3
    <2> QED  BY <1>1, <1>2, <1>3, <2>1 DEF SessionInv, Facts
  <1>5. CashOfSession(s)'
    BY <1>1, <1>2, <1>3 DEF SessionInv, CashOfSession, Booking
  <1>6. ASSUME NEW x \in Stocks  PROVE PositionOfSession(s, x)'
    <2>1. PositionOfSession(s, x)
      BY <1>1 DEF SessionInv
    <2>2. Seen(s)' = Seen(s) /\ Current(s, x)' = Current(s, x)
      BY <1>2, <1>3 DEF Seen, Current
    <2>3. \A f : After(f, x)' = After(f, x) /\ SoldBy(f, x)' = SoldBy(f, x)
      BY DEF After, SoldBy, Bought, Sold
    <2> QED  BY <1>2, <1>3, <2>1, <2>2, <2>3 DEF PositionOfSession, Booking
  <1>7. SessionInv(s)'
    BY <1>4, <1>5, <1>6 DEF SessionInv
  <1>8. Causes'
    BY <1>2, CausesKept
  <1> QED  BY <1>3, <1>7, <1>8, OwnStep

\* What follows for a step that leaves the books, the broker and the history alone.
LEMMA PlainStep ==
    ASSUME Inv, NEW s \in Sessions, NEW N \in Session, Step(s, N), BookUnchanged,
           N.at # "idle", UNCHANGED <<broker, history, lost>>, emitted' \subseteq Orders
    PROVE  /\ TypeOK' /\ Only(s) /\ Causes' /\ UNCHANGED <<broker, row, position, paid, gone>>
           /\ sess'[s] = N
  <1>1. /\ sess' \in [Sessions -> Session] /\ sess'[s] = N
        /\ \A q \in Sessions : q # s => sess'[q] = sess[q]
    BY StepType DEF Inv
  <1>2. TypeOK'
    BY <1>1 DEF Inv, TypeOK, history, BookUnchanged
  <1>3. Trading' => Trading
    BY <1>1, Constants DEF Trading
  <1>4. Only(s)
    BY <1>1, <1>3, BrokerStays DEF Only, Grown, history, BookUnchanged
  <1> QED  BY <1>1, <1>2, <1>3, <1>4, CausesKept DEF BookUnchanged, history

LEMMA PushStep == ASSUME Inv, NEW s \in Orders, PushEvent(s)  PROVE Inv'
  <1>1. s \in Sessions /\ s \notin Copies
    BY Constants
  <1>2. PICK S \in Session : S = sess[s]
    BY <1>1, SessionFields DEF Inv
  <1>3. PICK N : N = [S EXCEPT !.at = "next", !.order = None]
    OBVIOUS
  <1>4. /\ N \in Session /\ N.at = "next" /\ N.order = None /\ N.todo = S.todo /\ N.msg = S.msg
        /\ N.view = S.view /\ N.snap = S.snap /\ N.rows = S.rows /\ N.pos = S.pos
        /\ N.money = S.money
    BY <1>3 DEF Session, Places
  <1>5. Step(s, N) /\ emitted' \subseteq Orders /\ S.at = "push"
    BY <1>2, <1>3 DEF PushEvent, Inv, TypeOK
  <1>6. /\ TypeOK' /\ Only(s) /\ Causes' /\ UNCHANGED <<broker, row, position, paid, gone>>
        /\ sess'[s] = N
    BY <1>1, <1>4, <1>5, PlainStep DEF PushEvent
  <1>7. SessionInv(s)
    BY <1>1 DEF Inv
  <1>8. Shape(s)'
    BY <1>2, <1>4, <1>5, <1>6, <1>7 DEF SessionInv, Shape, ShapeOfOrder, Kept, Busy, Booking
  <1>9. ShapeOfOrder(s)' /\ ShapeOfOthers(s)'
    BY <1>1, <1>2, <1>4, <1>5, <1>6, <1>7
       DEF SessionInv, Shape, ShapeOfOrder, ShapeOfOthers, Kept, Busy, Booking
  <1>10. sess[s].msg = None
    BY <1>2, <1>5, <1>7 DEF SessionInv, Shape, Busy
  <1> QED
    BY <1>1, <1>2, <1>4, <1>5, <1>6, <1>8, <1>9, <1>10, QuietStep DEF PushEvent, Booking

LEMMA StartPollStep == ASSUME Inv, NEW s \in Polls, StartPoll(s)  PROVE Inv'
  <1>1. s \in Sessions /\ s \notin Copies /\ s \notin Orders
    BY Constants DEF Sessions
  <1>2. sess[s] = Fresh /\ sess[s].at = "idle" /\ SessionInv(s)
    BY <1>1 DEF StartPoll, Inv, SessionInv, Shape
  <1>3. PICK v : v = [o \in Orders |-> IF o \in OpenRows THEN row[o] ELSE None]
    OBVIOUS
  <1>4. PICK N : N = [sess[s] EXCEPT !.at = "next", !.todo = OpenRows, !.view = v]
    OBVIOUS
  <1>5. /\ OpenRows \subseteq Orders /\ (\A o \in OpenRows : row[o] # None)
        /\ v \in [Orders -> Report \cup {None}]
    BY <1>3, Fields DEF OpenRows, Inv
  <1>6. sess[s] \in Session
    BY <1>1, SessionFields DEF Inv
  <1>7. N \in Session
    BY <1>4, <1>5, <1>6 DEF Session, Places
  <1>8. /\ N.at = "next" /\ N.order = None /\ N.todo = OpenRows /\ N.msg = None
        /\ N.view = v /\ N.snap = None /\ N.rows = sess[s].rows /\ N.pos = sess[s].pos
        /\ N.money = sess[s].money /\ \A o \in Orders : N.rows[o] = None /\ N.money[o] = None
    BY <1>2, <1>4, <1>6 DEF Session, Fresh
  <1>9. Step(s, N) /\ emitted' \subseteq Orders
    BY <1>3, <1>4 DEF StartPoll, Quiet, Inv, TypeOK
  <1>10. /\ TypeOK' /\ Only(s) /\ Causes' /\ UNCHANGED <<broker, row, position, paid, gone>>
         /\ sess'[s] = N
    BY <1>1, <1>7, <1>8, <1>9, PlainStep DEF StartPoll, Quiet
  <1>11. Shape(s)'
    BY <1>3, <1>5, <1>8, <1>10, Constants DEF Shape, Kept, Busy, Booking
  <1>12. ShapeOfOrder(s)' /\ ShapeOfOthers(s)'
    BY <1>1, <1>8, <1>10 DEF ShapeOfOrder, ShapeOfOthers, Kept
  <1> QED
    BY <1>1, <1>2, <1>8, <1>10, <1>11, <1>12, QuietStep DEF StartPoll, Quiet, Booking

LEMMA NextOrderStep == ASSUME Inv, NEW s \in Sessions, NextOrder(s)  PROVE Inv'
  <1>1. PICK o \in sess[s].todo :
            Step(s, [sess[s] EXCEPT !.at = "query", !.order = o, !.todo = sess[s].todo \ {o}])
    BY DEF NextOrder
  <1>2. SessionInv(s) /\ sess[s].at = "next"
    BY DEF Inv, NextOrder
  <1>3. s \notin Copies /\ s \notin Orders /\ o \in Orders
    BY <1>1, <1>2, SessionFields DEF SessionInv, ShapeOfOrder, ShapeOfOthers, Inv
  <1>4. PICK S \in Session : S = sess[s]
    BY SessionFields DEF Inv
  <1>5. PICK N : N = [S EXCEPT !.at = "query", !.order = o, !.todo = S.todo \ {o}]
    OBVIOUS
  <1>6. /\ N \in Session /\ N.at = "query" /\ N.order = o /\ N.todo = S.todo \ {o}
        /\ N.msg = S.msg /\ N.view = S.view /\ N.snap = S.snap /\ N.rows = S.rows
        /\ N.pos = S.pos /\ N.money = S.money
    BY <1>3, <1>5 DEF Session, Places
  <1>7. Step(s, N) /\ emitted' \subseteq Orders
    BY <1>1, <1>4, <1>5 DEF NextOrder, Quiet, Inv, TypeOK
  <1>8. /\ TypeOK' /\ Only(s) /\ Causes' /\ UNCHANGED <<broker, row, position, paid, gone>>
        /\ sess'[s] = N
    BY <1>6, <1>7, PlainStep DEF NextOrder, Quiet
  <1>9. /\ S.snap = None /\ S.msg = None /\ S.todo \subseteq Orders
        /\ \A p \in S.todo : S.view[p] # None /\ S.rows[p] = None
        /\ \A p \in Orders : (S.view[p] # None => row[p] # None)
                             /\ (S.money[p] # None => S.rows[p] # None)
    BY <1>2, <1>4, SessionFields DEF SessionInv, Shape, Busy, Kept, Inv
  <1>10. Shape(s)'
    BY <1>1, <1>3, <1>4, <1>6, <1>8, <1>9, Constants DEF Shape, Kept, Busy, Booking
  <1>11. ShapeOfOrder(s)' /\ ShapeOfOthers(s)'
    BY <1>2, <1>3, <1>4, <1>6, <1>8 DEF SessionInv, ShapeOfOrder, ShapeOfOthers, Kept
  <1> QED
    BY <1>2, <1>3, <1>4, <1>6, <1>8, <1>9, <1>10, <1>11, QuietStep DEF NextOrder, Quiet, Booking

LEMMA CancelStep == ASSUME Inv, NEW s \in Cancels, StartCancel(s)  PROVE Inv'
  <1>1. s \in Sessions /\ s \notin Copies /\ s \notin Orders
    BY SessionsAssumption DEF Sessions
  <1>2. emitted' \subseteq Orders /\ lost' \in 0..MaxLost
    BY DEF StartCancel, Quiet, Inv, TypeOK
  <1>3. CASE Step(s, Ended(s))
    BY <1>1, <1>2, <1>3, EndStep DEF StartCancel, BookUnchanged, Quiet
  <1>4. ASSUME NEW o \in Orders, row[o] # None,
               Step(s, [sess[s] EXCEPT !.at = "query", !.order = o, !.view[o] = row[o]])
        PROVE  Inv'
    <2>1. sess[s] = Fresh /\ sess[s].at = "idle"
      BY <1>1 DEF StartCancel, Inv, SessionInv, Shape
    <2>2. PICK S \in Session : S = sess[s]
      BY <1>1, SessionFields DEF Inv
    <2>3. PICK v : v = [S.view EXCEPT ![o] = row[o]]
      OBVIOUS
    <2>4. PICK N : N = [S EXCEPT !.at = "query", !.order = o, !.view = v]
      OBVIOUS
    <2>5. /\ S.view = [p \in Orders |-> None] /\ S.rows = [p \in Orders |-> None]
          /\ S.money = [p \in Orders |-> None] /\ S.msg = None /\ S.snap = None /\ S.todo = {}
      BY <2>1, <2>2 DEF Fresh
    <2>6. v \in [Orders -> Report \cup {None}] /\ v[o] = row[o]
      BY <1>4, <2>3, <2>5, Fields DEF Inv
    <2>7. N \in Session
      BY <2>4, <2>6 DEF Session, Places
    <2>8. /\ N.at = "query" /\ N.order = o /\ N.todo = {}
          /\ N.msg = None /\ N.view = v /\ N.snap = None /\ N.rows = S.rows
          /\ N.pos = S.pos /\ N.money = S.money
      BY <2>4, <2>5 DEF Session
    <2>9. Step(s, N)
      BY <1>4, <2>2, <2>3, <2>4
    <2>10. /\ TypeOK' /\ Only(s) /\ Causes' /\ UNCHANGED <<broker, row, position, paid, gone>>
           /\ sess'[s] = N
      BY <1>1, <1>2, <2>7, <2>8, <2>9, PlainStep DEF StartCancel, Quiet
    <2>11. Shape(s)'
      BY <1>4, <2>3, <2>5, <2>6, <2>8, <2>10, Constants DEF Shape, Kept, Busy, Booking
    <2>12. ShapeOfOrder(s)' /\ ShapeOfOthers(s)'
      BY <1>1, <2>5, <2>8, <2>10 DEF ShapeOfOrder, ShapeOfOthers, Kept
    <2> QED
      BY <1>1, <2>1, <2>2, <2>8, <2>10, <2>11, <2>12, QuietStep DEF StartCancel, Quiet, Booking
  <1> QED  BY <1>3, <1>4 DEF StartCancel

\* A callback meets its row with a report that is true if it is cumulative.
LEMMA MeetStep ==
    ASSUME Inv, NEW s \in Callbacks, sess[s].at = "idle", NEW o \in Orders,
           NEW r \in Report, NEW c \in BOOLEAN, c => Truthful(o, r), Meet(s, o, r, c),
           BookUnchanged, UNCHANGED <<broker, history, lost>>, emitted' \subseteq Orders
    PROVE  Inv'
  <1>1. s \in Sessions /\ s \notin Copies /\ s \notin Orders
    BY SessionsAssumption DEF Sessions
  <1>2. CASE row[o] = None
    BY <1>1, <1>2, EndStep DEF Meet, BookUnchanged, Inv, TypeOK
  <1>3. CASE row[o] # None
    <2>1. sess[s] = Fresh /\ sess[s].at = "idle"
      BY <1>1 DEF Inv, SessionInv, Shape
    <2>2. PICK S \in Session : S = sess[s]
      BY <1>1, SessionFields DEF Inv
    <2>3. PICK m : m = [report |-> r, cumulative |-> c, read |-> row[o]]
      OBVIOUS
    <2>4. PICK N : N = [S EXCEPT !.at = "lookup", !.order = o, !.msg = m]
      OBVIOUS
    <2>5. /\ S.view = [p \in Orders |-> None] /\ S.rows = [p \in Orders |-> None]
          /\ S.money = [p \in Orders |-> None] /\ S.snap = None /\ S.todo = {}
      BY <2>1, <2>2 DEF Fresh
    <2>6. m \in Message /\ m.report = r /\ m.cumulative = c
      BY <1>3, <2>3, Fields DEF Inv, Message
    <2>7. N \in Session
      BY <2>4, <2>6 DEF Session, Places
    <2>8. /\ N.at = "lookup" /\ N.order = o /\ N.todo = {}
          /\ N.msg = m /\ N.view = S.view /\ N.snap = None /\ N.rows = S.rows
          /\ N.pos = S.pos /\ N.money = S.money
      BY <2>4, <2>5 DEF Session
    <2>9. Step(s, N)
      BY <1>3, <2>2, <2>3, <2>4 DEF Meet
    <2>10. /\ TypeOK' /\ Only(s) /\ Causes' /\ UNCHANGED <<broker, row, position, paid, gone>>
           /\ sess'[s] = N
      BY <1>1, <2>7, <2>8, <2>9, PlainStep
    <2>11. Shape(s)'
      BY <1>3, <2>5, <2>8, <2>10, Constants DEF Shape, Kept, Busy, Booking
    <2>12. ShapeOfOrder(s)' /\ ShapeOfOthers(s)'
      BY <1>1, <2>5, <2>8, <2>10 DEF ShapeOfOrder, ShapeOfOthers, Kept
    <2>13. sess'[s].msg.cumulative => Truthful(sess[s].order, sess[s].msg.report)'
      <3>1. c => Truthful(o, r)'
        BY BehindLasts, <2>10 DEF Only
      <3> QED  BY <2>6, <2>8, <2>10, <3>1
    <2> QED
      BY <1>1, <2>1, <2>2, <2>8, <2>10, <2>11, <2>12, <2>13, QuietStep DEF Booking
  <1> QED  BY <1>2, <1>3

LEMMA EventStep ==
    ASSUME Inv, NEW s \in Callbacks, BrokerEvent(s) \/ PushedEvent(s)
    PROVE  Inv'
  <1>1. \A o \in Orders : \A r \in Reports(o) :
            broker[o] # None => r \in Report /\ Truthful(o, r)
    BY ReportsTrue DEF Inv, BooksInv
  <1>2. CASE BrokerEvent(s)
    <2>1. PICK o \in Orders : /\ broker[o] # None
                              /\ \/ \E r \in Reports(o) : Meet(s, o, r, TRUE)
                                 \/ \E r \in TradeReports(o) : Meet(s, o, r, FALSE)
      BY <1>2 DEF BrokerEvent
    <2>2. /\ sess[s].at = "idle" /\ BookUnchanged /\ UNCHANGED <<broker, history, lost>>
          /\ emitted' \subseteq Orders
      BY <1>2 DEF BrokerEvent, Quiet, Inv, TypeOK
    <2>3. ASSUME NEW r \in Reports(o), Meet(s, o, r, TRUE)  PROVE Inv'
      BY <1>1, <2>1, <2>2, <2>3, MeetStep
    <2>4. ASSUME NEW r \in TradeReports(o), Meet(s, o, r, FALSE)  PROVE Inv'
      <3>1. r \in Report
        <4>1. r.status \in Terminal /\ r.filled \in 1..broker[o].filled /\ r.priced \in BOOLEAN
          BY <2>4 DEF TradeReports, Filled, Terminal
        <4>2. broker[o].filled \in 0..Quantity
          BY <2>1, Fields DEF Inv
        <4>3. r.filled \in 0..Quantity
          BY <4>1, <4>2, Constants
        <4>4. r = [status |-> r.status, filled |-> r.filled, priced |-> r.priced]
          BY <2>4 DEF TradeReports
        <4> QED  BY <4>1, <4>3, <4>4 DEF Report
      <3> QED  BY <2>2, <2>4, <3>1, MeetStep
    <2> QED  BY <2>1, <2>3, <2>4
  <1>3. CASE PushedEvent(s)
    <2>1. PICK o \in emitted : \E r \in Reports(o) : Meet(s, o, r, TRUE)
      BY <1>3 DEF PushedEvent
    <2>2. PICK r \in Reports(o) : Meet(s, o, r, TRUE)
      BY <2>1
    <2>3. /\ sess[s].at = "idle" /\ BookUnchanged /\ UNCHANGED <<broker, history, lost>>
          /\ emitted' \subseteq Orders /\ o \in Orders
      BY <1>3, <2>1 DEF PushedEvent, Inv, TypeOK
    <2>4. CASE row[o] = None
      <3>1. s \in Sessions
        BY DEF Sessions
      <3> QED  BY <2>2, <2>3, <2>4, <3>1, EndStep DEF Meet, BookUnchanged, Inv, TypeOK
    <2>5. CASE row[o] # None
      <3>1. broker[o] # None
        BY <2>3, <2>5 DEF Inv, BooksInv, Behind
      <3> QED  BY <1>1, <2>2, <2>3, <3>1, MeetStep
    <2> QED  BY <2>4, <2>5
  <1> QED  BY <1>2, <1>3

LEMMA LookupStep == ASSUME Inv, NEW s \in Sessions, Lookup(s)  PROVE Inv'
  <1>1. SessionInv(s) /\ sess[s].at = "lookup"
    BY DEF Inv, Lookup
  <1>2. PICK S \in Session : S = sess[s]
    BY SessionFields DEF Inv
  <1>3. s \notin Copies /\ s \notin Orders
    BY <1>1 DEF SessionInv, ShapeOfOrder, ShapeOfOthers, Booking
  <1>4. PICK o \in Orders : o = S.order
    BY <1>1, <1>2, SessionFields DEF SessionInv, Shape, Busy, Inv
  <1>5. PICK v : v = [S.view EXCEPT ![o] = row[o]]
    OBVIOUS
  <1>6. PICK N : N = [S EXCEPT !.at = "query", !.view = v]
    OBVIOUS
  <1>7. /\ S.rows[o] = None /\ row[o] # None /\ S.snap = None
        /\ \A p \in S.todo : S.view[p] # None /\ S.rows[p] = None /\ p # o
        /\ \A p \in Orders : (S.view[p] # None => row[p] # None)
                             /\ (S.money[p] # None => S.rows[p] # None)
    BY <1>1, <1>2, <1>4 DEF SessionInv, Shape, Kept, Busy
  <1>8. /\ v \in [Orders -> Report \cup {None}] /\ v[o] = row[o]
        /\ \A p \in Orders : p # o => v[p] = S.view[p]
    BY <1>2, <1>5, Fields, SessionFields DEF Inv
  <1>9. N \in Session
    BY <1>6, <1>8 DEF Session, Places
  <1>10. /\ N.at = "query" /\ N.order = o /\ N.todo = S.todo
         /\ N.msg = S.msg /\ N.view = v /\ N.snap = S.snap /\ N.rows = S.rows
         /\ N.pos = S.pos /\ N.money = S.money
    BY <1>4, <1>6 DEF Session
  <1>11. Step(s, N) /\ emitted' \subseteq Orders
    BY <1>2, <1>4, <1>5, <1>6 DEF Lookup, Quiet, Inv, TypeOK
  <1>12. /\ TypeOK' /\ Only(s) /\ Causes' /\ UNCHANGED <<broker, row, position, paid, gone>>
         /\ sess'[s] = N
    BY <1>9, <1>10, <1>11, PlainStep DEF Lookup, Quiet
  <1>13. Shape(s)'
    <2>1. S.todo \subseteq Orders
      BY <1>2, SessionFields DEF Inv
    <2> QED  BY <1>7, <1>8, <1>10, <1>12, <2>1, Constants DEF Shape, Kept, Busy, Booking
  <1>14. ShapeOfOrder(s)' /\ ShapeOfOthers(s)'
    BY <1>1, <1>2, <1>3, <1>10, <1>12 DEF SessionInv, ShapeOfOrder, ShapeOfOthers, Kept
  <1>15. sess'[s].msg # None /\ sess'[s].msg.cumulative =>
            Truthful(sess[s].order, sess[s].msg.report)'
    <2>1. ASSUME S.msg # None, S.msg.cumulative  PROVE Truthful(sess[s].order, sess[s].msg.report)'
      <3>1. PICK r \in Report : r = S.msg.report
        BY <1>2, <2>1, SessionFields DEF Message, Inv
      <3>2. Truthful(o, r)
        BY <1>1, <1>2, <1>4, <2>1, <3>1 DEF SessionInv, Facts
      <3>3. Truthful(o, r)'
        BY <1>12, <3>2, BehindLasts DEF Only
      <3> QED  BY <1>10, <1>12, <3>1, <3>3
    <2> QED  BY <1>10, <1>12, <2>1
  <1> QED
    BY <1>1, <1>2, <1>3, <1>10, <1>12, <1>13, <1>14, <1>15, QuietStep DEF Lookup, Quiet, Booking

\* After an unchanged result: done with the order, or the callback's own report.
LEMMA UnchangedStep ==
    ASSUME Inv, NEW s \in Sessions, sess[s].at \in {"query", "apply"}, Step(s, Unchanged(s)),
           BookUnchanged, Quiet
    PROVE  Inv'
  <1>1. SessionInv(s)
    BY DEF Inv
  <1>2. PICK S \in Session : S = sess[s]
    BY SessionFields DEF Inv
  <1>3. s \notin Copies /\ s \notin Orders
    BY <1>1 DEF SessionInv, ShapeOfOrder, ShapeOfOthers, Booking
  <1>4. PICK o \in Orders : o = S.order
    BY <1>1, <1>2, SessionFields DEF SessionInv, Shape, Busy, Inv
  <1>5. PICK N \in Session : N = Unchanged(s)
    BY <1>2, <1>4, UnchangedType DEF Inv
  <1>6. /\ S.rows[o] = None /\ row[o] # None /\ S.view[o] # None
        /\ \A p \in S.todo : S.view[p] # None /\ S.rows[p] = None /\ p # o
        /\ \A p \in Orders : (S.view[p] # None => row[p] # None)
                             /\ (S.money[p] # None => S.rows[p] # None)
        /\ S.view \in [Orders -> Report \cup {None}] /\ S.todo \subseteq Orders
    BY <1>1, <1>2, <1>4, SessionFields DEF SessionInv, Shape, Kept, Busy, Inv
  <1>7. /\ N.todo = S.todo /\ N.rows = S.rows /\ N.pos = S.pos /\ N.money = S.money
        /\ N.msg = None
        /\ \/ N.at = "next" /\ N.order = None /\ N.snap = None /\ N.view = [S.view EXCEPT ![o] = None]
           \/ /\ N.at = "apply" /\ N.order = o /\ N.snap = S.msg.report
              /\ S.msg # None /\ S.msg.cumulative
              /\ N.view = [S.view EXCEPT ![o] = S.msg.read]
    BY <1>2, <1>4, <1>5, UnchangedType, SettledType DEF Inv
  <1>8. Step(s, N) /\ emitted' \subseteq Orders /\ N.at # "idle"
    BY <1>5, <1>7 DEF Quiet, Inv, TypeOK
  <1>9. /\ TypeOK' /\ Only(s) /\ Causes' /\ UNCHANGED <<broker, row, position, paid, gone>>
        /\ sess'[s] = N
    BY <1>8, PlainStep DEF Quiet
  <1>10. S.msg # None => S.msg.report \in Report /\ S.msg.read \in Report
    BY <1>2, SessionFields DEF Message, Inv
  <1>11. Shape(s)'
    BY <1>6, <1>7, <1>9, <1>10, Constants DEF Shape, Kept, Busy, Booking
  <1>12. ShapeOfOrder(s)' /\ ShapeOfOthers(s)'
    BY <1>1, <1>2, <1>3, <1>7, <1>9 DEF SessionInv, ShapeOfOrder, ShapeOfOthers, Kept
  <1>13. sess'[s].at = "apply" => Truthful(sess[s].order, sess[s].snap)'
    <2>1. ASSUME N.at = "apply"  PROVE Truthful(sess[s].order, sess[s].snap)'
      <3>1. PICK r \in Report : r = S.msg.report
        BY <1>7, <1>10, <2>1
      <3>2. Truthful(o, r)
        BY <1>1, <1>2, <1>4, <1>7, <2>1, <3>1 DEF SessionInv, Facts
      <3>3. Truthful(o, r)'
        BY <1>9, <3>2, BehindLasts DEF Only
      <3> QED  BY <1>7, <1>9, <2>1, <3>1, <3>3
    <2> QED  BY <1>9, <2>1
  <1> QED
    BY <1>1, <1>2, <1>3, <1>7, <1>9, <1>11, <1>12, <1>13, QuietStep DEF Quiet, Booking

LEMMA QueryStep == ASSUME Inv, NEW s \in Sessions, Query(s)  PROVE Inv'
  <1>1. SessionInv(s) /\ sess[s].at = "query"
    BY DEF Inv, Query
  <1>2. PICK S \in Session : S = sess[s]
    BY SessionFields DEF Inv
  <1>3. s \notin Copies /\ s \notin Orders
    BY <1>1 DEF SessionInv, ShapeOfOrder, ShapeOfOthers, Booking
  <1>4. PICK o \in Orders : o = S.order
    BY <1>1, <1>2, SessionFields DEF SessionInv, Shape, Busy, Inv
  <1>5. CASE Step(s, Unchanged(s))
    BY <1>1, <1>5, UnchangedStep DEF Query
  <1>6. ASSUME NEW r \in Reports(o), Step(s, [sess[s] EXCEPT !.at = "apply", !.snap = r])
        PROVE  Inv'
    <2>1. /\ S.rows[o] = None /\ row[o] # None /\ S.view[o] # None
          /\ \A p \in S.todo : S.view[p] # None /\ S.rows[p] = None /\ p # o
          /\ \A p \in Orders : (S.view[p] # None => row[p] # None)
                               /\ (S.money[p] # None => S.rows[p] # None)
          /\ S.todo \subseteq Orders
      BY <1>1, <1>2, <1>4, SessionFields DEF SessionInv, Shape, Kept, Busy, Inv
    <2>2. r \in Report /\ Truthful(o, r)
      <3>1. broker[o] # None
        BY <2>1 DEF Inv, BooksInv, Behind
      <3> QED  BY <3>1, ReportsTrue DEF Inv, BooksInv
    <2>3. PICK N : N = [S EXCEPT !.at = "apply", !.snap = r]
      OBVIOUS
    <2>4. /\ N \in Session /\ N.at = "apply" /\ N.order = o /\ N.todo = S.todo
          /\ N.msg = S.msg /\ N.view = S.view /\ N.snap = r /\ N.rows = S.rows
          /\ N.pos = S.pos /\ N.money = S.money
      BY <1>4, <2>2, <2>3 DEF Session, Places
    <2>5. Step(s, N) /\ emitted' \subseteq Orders
      BY <1>2, <1>6, <2>3 DEF Query, Quiet, Inv, TypeOK
    <2>6. /\ TypeOK' /\ Only(s) /\ Causes' /\ UNCHANGED <<broker, row, position, paid, gone>>
          /\ sess'[s] = N
      BY <2>4, <2>5, PlainStep DEF Query, Quiet
    <2>7. Shape(s)'
      BY <2>1, <2>2, <2>4, <2>6, Constants DEF Shape, Kept, Busy, Booking
    <2>8. ShapeOfOrder(s)' /\ ShapeOfOthers(s)'
      BY <1>1, <1>2, <1>3, <2>4, <2>6 DEF SessionInv, ShapeOfOrder, ShapeOfOthers, Kept
    <2>9. Truthful(sess[s].order, sess[s].snap)'
      <3>1. Truthful(o, r)'
        BY <2>2, <2>6, BehindLasts DEF Only
      <3> QED  BY <2>4, <2>6, <3>1
    <2>10. sess'[s].msg # None /\ sess'[s].msg.cumulative =>
              Truthful(sess[s].order, sess[s].msg.report)'
      <3>1. ASSUME S.msg # None, S.msg.cumulative
            PROVE  Truthful(sess[s].order, sess[s].msg.report)'
        <4>1. PICK q \in Report : q = S.msg.report
          BY <1>2, <3>1, SessionFields DEF Message, Inv
        <4>2. Truthful(o, q)
          BY <1>1, <1>2, <1>4, <3>1, <4>1 DEF SessionInv, Facts
        <4>3. Truthful(o, q)'
          BY <2>6, <4>2, BehindLasts DEF Only
        <4> QED  BY <2>4, <2>6, <4>1, <4>3
      <3> QED  BY <2>4, <2>6, <3>1
    <2> QED
      BY <1>1, <1>2, <1>3, <2>4, <2>6, <2>7, <2>8, <2>9, <2>10, QuietStep DEF Query, Quiet, Booking
  <1> QED  BY <1>2, <1>4, <1>5, <1>6 DEF Query

-----------------------------------------------------------------------------
(* Steps that write a row. *)

\* The row is still as the session saw it, and what it writes is true.
LEMMA KeepStep ==
    ASSUME Inv, TypeOK', NEW s \in Sessions, Only(s), Causes', UNCHANGED history, s \notin Copies,
           NEW o \in Orders, NEW r \in Report, ~Kept(s, o), ~OrderLocked(s, o),
           sess'[s].rows = [sess[s].rows EXCEPT ![o] = r], sess'[s].pos = sess[s].pos,
           sess'[s].money = sess[s].money, sess'[s].msg = None,
           sess[s].at \notin Booking,
           \/ /\ sess'[s].at = "read" /\ sess'[s].order = o
              /\ Before(s)' = Shares(o) /\ r.filled > Shares(o)
           \/ sess'[s].at \in {"next", "push"} /\ r.filled = Shares(o),
           Behind(o, r), row[o] # None => row[o].status \in Open,
           Shape(s)', ShapeOfOrder(s)', ShapeOfOthers(s)'
    PROVE  Inv'
  <1>1. SessionInv(s)
    BY DEF Inv
  <1>2. /\ row' = row /\ position' = position /\ (Trading' => Trading)
        /\ Astray' = Astray /\ gone' = gone
    BY DEF Only, Grown, history, Astray
  <1>3. /\ sess[s].rows \in [Orders -> Report \cup {None}] /\ sess[s].rows[o] = None
        /\ sess'[s].rows[o] = r /\ r # None /\ r.filled \in 0..Quantity /\ Shares(o) \in 0..Quantity
        /\ \A p \in Orders : p # o => sess'[s].rows[p] = sess[s].rows[p]
    BY SessionFields, Fields, Constants DEF Inv, Kept, Report
  <1>4. \A p \in Orders : /\ p # o => (Kept(s, p)' <=> Kept(s, p))
                          /\ Kept(s, o)' /\ (Kept(s, p) => p # o)
                          /\ Shares(p)' = Shares(p) /\ Moved(s, p)' = Moved(s, p)
    BY <1>2, <1>3 DEF Kept, Shares, Moved
  <1>5. \A p \in Orders : /\ p # o => (Counted(s, p)' <=> Counted(s, p))
                          /\ Counted(s, o)' => r.filled = Shares(o)
                          /\ ~Counted(s, o)
    BY <1>4 DEF Counted, Booking
  <1>6. Facts(s)'
    <2>1. ASSUME NEW p \in Orders, Kept(s, p)'  PROVE Behind(p, sess[s].rows[p])'
      <3>1. PICK q \in Report : q = sess'[s].rows[p] /\ Behind(p, q)
        <4>1. CASE p = o
          BY <1>3, <4>1
        <4>2. CASE p # o
          BY <1>1, <1>3, <1>4, <2>1, <4>2, SessionFields DEF SessionInv, Facts, Inv
        <4> QED  BY <4>1, <4>2
      <3>2. Behind(p, q)'
        BY <3>1, BehindLasts DEF Only
      <3> QED  BY <3>1, <3>2
    <2>2. ASSUME NEW p \in Orders, Kept(s, p)'
          PROVE  /\ sess'[s].rows[p].filled >= Shares(p)
                 /\ row[p] # None => row[p].status \in Open
      <3>1. CASE p = o
        BY <1>3, <3>1
      <3>2. CASE p # o
        BY <1>1, <1>3, <1>4, <2>2, <3>2 DEF SessionInv, Facts
      <3> QED  BY <3>1, <3>2
    <2>3. sess'[s].at \in Booking => /\ Before(s)' = Shares(o)' /\ sess'[s].order = o
                                     /\ sess'[s].rows[o].filled > Shares(o)'
      BY <1>3, <1>4 DEF Booking
    <2> QED  BY <1>2, <1>4, <2>1, <2>2, <2>3 DEF Facts
  <1>7. CashOfSession(s)'
    <2>1. ASSUME NEW p \in Orders, Kept(s, p)', ~(sess'[s].order = p /\ sess'[s].at \in Booking)
          PROVE  /\ Moved(s, p)' <= sess'[s].rows[p].filled - Shares(p)'
                 /\ Prices = {TRUE} => \/ Moved(s, p)' = sess'[s].rows[p].filled - Shares(p)'
                                       \/ p \in gone' /\ Moved(s, p)' = 0
      <3>1. CASE p = o
        <4>1. r.filled = Shares(o)
          BY <2>1, <3>1 DEF Booking
        <4>2. Moved(s, o) = 0
          BY <1>1, <1>3 DEF SessionInv, Shape, Kept, Moved
        <4>3. /\ Moved(s, p)' = 0 /\ Shares(p)' = r.filled
              /\ sess'[s].rows[p].filled = r.filled /\ r.filled \in Int
          BY <1>3, <1>4, <3>1, <4>1, <4>2
        <4>4. 0 <= r.filled - r.filled /\ 0 = r.filled - r.filled
          BY <4>3
        <4> QED  BY <4>3, <4>4
      <3>2. CASE p # o
        BY <1>1, <1>2, <1>3, <1>4, <2>1, <3>2 DEF SessionInv, CashOfSession
      <3> QED  BY <3>1, <3>2
    <2>2. sess'[s].at \notin {"write", "account"}
      OBVIOUS
    <2> QED  BY <2>1, <2>2 DEF CashOfSession
  <1>8. ASSUME NEW x \in Stocks  PROVE PositionOfSession(s, x)'
    <2>1. PositionOfSession(s, x)
      BY <1>1 DEF SessionInv
    <2>2. Seen(s)' = Seen(s)
      <3>1. \A p \in Orders :
               (IF Counted(s, p)' THEN sess'[s].rows[p].filled ELSE Shares(p)')
               = IF Counted(s, p) THEN sess[s].rows[p].filled ELSE Shares(p)
        BY <1>3, <1>4, <1>5
      <3> QED  BY <3>1 DEF Seen
    <2>3. Current(s, x)' = Current(s, x)
      BY <1>2 DEF Current
    <2>4. \A f : After(f, x)' = After(f, x) /\ SoldBy(f, x)' = SoldBy(f, x)
      BY DEF After, SoldBy, Bought, Sold
    <2>5. sess'[s].pos[x] # None => \E p \in Orders : StockOf[p] = x /\ Kept(s, p)'
      BY <1>4, <2>1 DEF PositionOfSession
    <2>6. x \notin Astray /\ sess'[s].pos[x] = None =>
             \A p \in Orders : StockOf[p] = x /\ Counted(s, p)' => sess'[s].rows[p].filled = Shares(p)'
      BY <1>3, <1>4, <1>5, <2>1 DEF PositionOfSession
    <2>7. sess'[s].at # "write"
      OBVIOUS
    <2> QED  BY <1>2, <2>1, <2>2, <2>3, <2>4, <2>5, <2>6, <2>7 DEF PositionOfSession
  <1>9. SessionInv(s)'
    BY <1>6, <1>7, <1>8 DEF SessionInv
  <1>10. \A p \in Orders : Kept(s, p)' => Kept(s, p) \/ ~OrderLocked(s, p)
    BY <1>4
  <1> QED  BY <1>9, <1>10, OwnStep

LEMMA InsertStep == ASSUME Inv, NEW s \in Orders, InsertOrder(s)  PROVE Inv'
  <1>1. s \in Sessions /\ s \notin Copies
    BY Constants
  <1>2. PICK r \in Reports(s) :
            Step(s, [sess[s] EXCEPT !.rows[s] = Normalised(r),
                                    !.at = IF r.filled > 0 THEN "read" ELSE "push"])
    BY DEF InsertOrder
  <1>3. SessionInv(s) /\ sess[s].at = "inserting"
    BY <1>1 DEF Inv, InsertOrder
  <1>4. PICK S \in Session : S = sess[s]
    BY <1>1, SessionFields DEF Inv
  <1>5. /\ S.order = s /\ S.todo = {} /\ S.rows[s] = None /\ row[s] = None /\ broker[s] # None
        /\ \A o \in Orders : S.view[o] = None /\ S.rows[o] = None
        /\ S.msg = None /\ S.snap = None /\ S.money[s] = None
        /\ \A o \in Orders : S.money[o] # None => S.rows[o] # None
        /\ S.rows \in [Orders -> Report \cup {None}]
    BY <1>1, <1>3, <1>4, SessionFields DEF Inv, SessionInv, Shape, ShapeOfOrder, Kept, Busy, Booking
  <1>6. r \in Report /\ Truthful(s, r)
    BY <1>5, ReportsTrue DEF Inv, BooksInv
  <1>7. PICK n \in Report : n = Normalised(r) /\ n.filled = r.filled /\ Behind(s, n)
    BY <1>6, NormalisedSound DEF Truthful
  <1>8. PICK rs : rs = [S.rows EXCEPT ![s] = n]
    OBVIOUS
  <1>9. PICK N : N = [S EXCEPT !.rows = rs, !.at = IF r.filled > 0 THEN "read" ELSE "push"]
    OBVIOUS
  <1>10. rs \in [Orders -> Report \cup {None}] /\ rs[s] = n /\ \A o \in Orders : o # s => rs[o] = None
    BY <1>5, <1>8
  <1>11. N \in Session
    BY <1>9, <1>10 DEF Session, Places
  <1>12. /\ N.at = (IF r.filled > 0 THEN "read" ELSE "push") /\ N.order = s /\ N.todo = {}
         /\ N.msg = None /\ N.view = S.view /\ N.snap = None /\ N.rows = rs
         /\ N.pos = S.pos /\ N.money = S.money
    BY <1>5, <1>9 DEF Session
  <1>13. Step(s, N) /\ emitted' \subseteq Orders /\ N.at # "idle"
    BY <1>2, <1>4, <1>7, <1>8, <1>9, <1>12 DEF InsertOrder, Quiet, Inv, TypeOK
  <1>14. /\ TypeOK' /\ Only(s) /\ Causes' /\ UNCHANGED <<broker, row, position, paid, gone>>
         /\ sess'[s] = N
    BY <1>1, <1>11, <1>13, PlainStep DEF InsertOrder, Quiet
  <1>15. Shape(s)'
    BY <1>5, <1>7, <1>10, <1>12, <1>14, Constants DEF Shape, Kept, Busy, Booking
  <1>16. ShapeOfOrder(s)' /\ ShapeOfOthers(s)'
    BY <1>1, <1>5, <1>10, <1>12, <1>14 DEF ShapeOfOrder, ShapeOfOthers, Kept, Booking
  <1>17. Shares(s) = 0 /\ Before(s)' = 0 /\ r.filled \in 0..Quantity
    BY <1>5, <1>6, <1>12, <1>14 DEF Shares, Before, Report
  <1>18. ~OrderLocked(s, s)
    <2>1. ASSUME NEW q \in Others(s), sess[q].rows[s] # None  PROVE FALSE
      <3>1. q \in Sessions /\ q # s /\ SessionInv(q) /\ Kept(q, s)
        BY <2>1 DEF Others, Inv, Kept
      <3> QED  BY <1>5, <3>1 DEF SessionInv, ShapeOfOrder, ShapeOfOthers
    <2> QED  BY <2>1 DEF OrderLocked
  <1>19. /\ ~Kept(s, s) /\ sess[s].at \notin Booking /\ UNCHANGED history
         /\ \/ /\ sess'[s].at = "read" /\ sess'[s].order = s
               /\ Before(s)' = Shares(s) /\ n.filled > Shares(s)
            \/ sess'[s].at \in {"next", "push"} /\ n.filled = Shares(s)
    BY <1>3, <1>4, <1>5, <1>7, <1>12, <1>14, <1>17 DEF Kept, Booking, InsertOrder, Quiet
  <1>20. /\ sess'[s].rows = [sess[s].rows EXCEPT ![s] = n] /\ sess'[s].pos = sess[s].pos
         /\ sess'[s].money = sess[s].money /\ sess'[s].msg = None
    BY <1>4, <1>8, <1>12, <1>14
  <1> QED
    BY <1>1, <1>5, <1>7, <1>14, <1>15, <1>16, <1>18, <1>19, <1>20, KeepStep

LEMMA ApplyStep == ASSUME Inv, NEW s \in Sessions, Apply(s)  PROVE Inv'
  <1>1. SessionInv(s) /\ sess[s].at = "apply" /\ BookUnchanged /\ Quiet
    BY DEF Inv, Apply
  <1>2. PICK S \in Session : S = sess[s]
    BY SessionFields DEF Inv
  <1>3. s \notin Copies /\ s \notin Orders
    BY <1>1 DEF SessionInv, ShapeOfOrder, ShapeOfOthers, Booking
  <1>4. PICK o \in Orders : o = S.order
    BY <1>1, <1>2, SessionFields DEF SessionInv, Shape, Busy, Inv
  <1>5. PICK old \in Report, r \in Report : old = S.view[o] /\ r = S.snap
    BY <1>1, <1>2, <1>4, SessionFields DEF SessionInv, Shape, Inv
  <1>6. CASE Step(s, Unchanged(s))
    BY <1>1, <1>6, UnchangedStep
  <1>7. ASSUME ~Meaningless(old, r), ~OrderLocked(s, o), Matches(o, old),
               r.filled > old.filled =>
                  Step(s, [sess[s] EXCEPT !.rows[o] = Target(old, r), !.at = "read",
                                          !.snap = None, !.msg = None]),
               ~(r.filled > old.filled) => Step(s, [Settled(s) EXCEPT !.rows[o] = Target(old, r)])
        PROVE  Inv'
    <2>1. PICK n \in Report : /\ n = Target(old, r) /\ n.filled = r.filled
                              /\ n.status = Normalised(r).status
                              /\ n.priced = (r.priced \/ old.priced)
      BY TargetSound
    <2>2. Truthful(o, r)
      BY <1>1, <1>2, <1>4, <1>5 DEF SessionInv, Facts
    <2>3. Behind(o, n)
      BY <2>1, <2>2, NormalisedSound DEF Truthful, Behind
    <2>4. /\ S.rows[o] = None /\ row[o] # None /\ S.view[o] # None /\ S.money[o] = None
          /\ \A p \in S.todo : S.view[p] # None /\ S.rows[p] = None /\ p # o
          /\ \A p \in Orders : (S.view[p] # None => row[p] # None)
                               /\ (S.money[p] # None => S.rows[p] # None)
          /\ S.rows \in [Orders -> Report \cup {None}] /\ S.todo \subseteq Orders
          /\ S.view \in [Orders -> Report \cup {None}]
      BY <1>1, <1>2, <1>4, SessionFields DEF SessionInv, Shape, Kept, Busy, Inv
    <2>5. /\ row[o].status \in Open /\ Shares(o) = old.filled /\ r.filled >= old.filled
          /\ r.filled \in Nat /\ old.filled \in Nat
      <3>1. /\ old.status \notin Terminal /\ ~(r.filled < old.filled)
            /\ row[o].status = old.status /\ row[o].filled = old.filled
        BY <1>7 DEF Meaningless, Matches
      <3>2. old.status \in Open \cup Terminal /\ r.filled \in 0..Quantity /\ old.filled \in 0..Quantity
        BY DEF Report
      <3> QED  BY <2>4, <3>1, <3>2, Constants DEF Shares
    <2>6. PICK rs : rs = [S.rows EXCEPT ![o] = n]
      OBVIOUS
    <2>7. rs \in [Orders -> Report \cup {None}] /\ rs[o] = n /\ \A p \in Orders : p # o => rs[p] = S.rows[p]
      BY <2>4, <2>6
    <2>8. PICK N \in Session :
            /\ Step(s, N) /\ N.todo = S.todo /\ N.rows = rs /\ N.pos = S.pos /\ N.money = S.money
            /\ N.msg = None /\ N.snap = None
            /\ \/ N.at = "read" /\ N.order = o /\ N.view = S.view /\ r.filled > old.filled
               \/ /\ N.at = "next" /\ N.order = None /\ N.view = [S.view EXCEPT ![o] = None]
                  /\ r.filled = old.filled
      <3>1. CASE r.filled > old.filled
        <4>1. PICK N : N = [S EXCEPT !.rows = rs, !.at = "read", !.snap = None, !.msg = None]
          OBVIOUS
        <4>2. N \in Session
          BY <2>7, <4>1 DEF Session, Places
        <4>3. /\ N.todo = S.todo /\ N.rows = rs /\ N.pos = S.pos /\ N.money = S.money
              /\ N.msg = None /\ N.snap = None /\ N.at = "read" /\ N.order = o /\ N.view = S.view
          BY <1>4, <4>1 DEF Session
        <4>4. Step(s, N)
          BY <1>2, <1>7, <2>1, <2>6, <3>1, <4>1
        <4> QED  BY <3>1, <4>2, <4>3, <4>4
      <3>2. CASE ~(r.filled > old.filled)
        <4>1. PICK T \in Session : T = Settled(s)
          BY <1>2, <1>4, SettledType DEF Inv
        <4>2. /\ T.at = "next" /\ T.order = None /\ T.snap = None /\ T.msg = None
              /\ T.view = [S.view EXCEPT ![o] = None] /\ T.todo = S.todo
              /\ T.rows = S.rows /\ T.pos = S.pos /\ T.money = S.money
          BY <1>2, <1>4, <4>1, SettledType DEF Inv
        <4>3. PICK N : N = [T EXCEPT !.rows = rs]
          OBVIOUS
        <4>4. N \in Session
          BY <2>7, <4>3 DEF Session, Places
        <4>5. /\ N.at = "next" /\ N.order = None /\ N.snap = None /\ N.msg = None
              /\ N.view = [S.view EXCEPT ![o] = None] /\ N.todo = S.todo
              /\ N.rows = rs /\ N.pos = S.pos /\ N.money = S.money
          BY <4>2, <4>3 DEF Session
        <4>6. Step(s, N)
          BY <1>7, <2>1, <2>6, <3>2, <4>1, <4>2, <4>3
        <4>7. r.filled = old.filled
          BY <2>5, <3>2
        <4> QED  BY <4>4, <4>5, <4>6, <4>7
      <3> QED  BY <3>1, <3>2
    <2>9. /\ TypeOK' /\ Only(s) /\ Causes' /\ UNCHANGED <<broker, row, position, paid, gone>>
          /\ sess'[s] = N
      <3>1. N.at # "idle" /\ emitted' \subseteq Orders
        BY <1>1, <2>8 DEF Quiet, Inv, TypeOK
      <3> QED  BY <1>1, <2>8, <3>1, PlainStep DEF Quiet
    <2>10. Shape(s)'
      <3>1. \A p \in Orders : /\ N.view[p] # None => row[p] # None
                              /\ p # o => N.view[p] = S.view[p]
        BY <2>4, <2>8
      <3>2. n # None
        BY Constants
      <3>3. \A p \in Orders : N.money[p] # None => N.rows[p] # None
        BY <2>4, <2>7, <2>8, <3>2
      <3>4. \A p \in N.todo : N.view[p] # None /\ N.rows[p] = None /\ p # N.order
        BY <2>4, <2>7, <2>8, <3>1, Constants
      <3>5. /\ N.at \in {"read", "next"} /\ N.snap = None /\ N.msg = None
            /\ N.at = "next" => N.order = None
            /\ N.at = "read" => N.order = o /\ N.order # None /\ N.rows[N.order] # None
                               /\ N.money[N.order] = None
        BY <2>4, <2>7, <2>8, <3>2, Constants
      <3> QED  BY <2>9, <3>1, <3>3, <3>4, <3>5 DEF Shape, Kept, Busy, Booking
    <2>11. ShapeOfOrder(s)' /\ ShapeOfOthers(s)'
      BY <1>1, <1>2, <1>3, <2>4, <2>7, <2>8, <2>9 DEF SessionInv, ShapeOfOrder, ShapeOfOthers, Kept
    <2>12. \/ /\ sess'[s].at = "read" /\ sess'[s].order = o
              /\ Before(s)' = Shares(o) /\ n.filled > Shares(o)
           \/ sess'[s].at \in {"next", "push"} /\ n.filled = Shares(o)
      <3>1. N.at = "read" => Before(s)' = Shares(o)
        BY <1>5, <2>4, <2>5, <2>8, <2>9 DEF Before
      <3> QED  BY <2>1, <2>5, <2>8, <2>9, <3>1
    <2>13. /\ sess'[s].rows = [sess[s].rows EXCEPT ![o] = n] /\ sess'[s].pos = sess[s].pos
           /\ sess'[s].money = sess[s].money /\ sess'[s].msg = None /\ ~Kept(s, o)
           /\ UNCHANGED history /\ sess[s].at \notin Booking
      BY <1>1, <1>2, <2>4, <2>6, <2>8, <2>9 DEF Kept, Quiet, Booking
    <2> QED
      BY <1>3, <1>7, <2>3, <2>5, <2>9, <2>10, <2>11, <2>12, <2>13, KeepStep
  <1> QED
    <2>1. \/ Step(s, Unchanged(s))
          \/ /\ ~Meaningless(old, r) /\ ~OrderLocked(s, o)
             /\ IF Matches(o, old)
                THEN IF r.filled > old.filled
                     THEN Step(s, [sess[s] EXCEPT !.rows[o] = Target(old, r), !.at = "read",
                                                  !.snap = None, !.msg = None])
                     ELSE Step(s, [Settled(s) EXCEPT !.rows[o] = Target(old, r)])
                ELSE Step(s, Unchanged(s))
      BY <1>2, <1>4, <1>5 DEF Apply
    <2> QED  BY <1>6, <1>7, <2>1

-----------------------------------------------------------------------------
(* Booking fills into a position and the account. *)

\* A step from one place of the booking to the next.
LEMMA BookingKept ==
    ASSUME Inv, TypeOK', NEW s \in Sessions, Only(s), UNCHANGED <<broker, row>>,
           sess[s].at \in Booking, sess'[s].at \in {"write", "account"},
           sess'[s].order = sess[s].order, sess'[s].todo = sess[s].todo,
           sess'[s].view = sess[s].view, sess'[s].snap = sess[s].snap,
           sess'[s].msg = sess[s].msg, sess'[s].rows = sess[s].rows,
           sess'[s].money = sess[s].money
    PROVE  /\ Shape(s)' /\ ShapeOfOrder(s)' /\ ShapeOfOthers(s)' /\ Facts(s)'
           /\ \A o \in Orders : Kept(s, o)' /\ ~(sess'[s].order = o /\ sess'[s].at \in Booking) =>
                 /\ Moved(s, o)' <= sess'[s].rows[o].filled - Shares(o)'
                 /\ Prices = {TRUE} => \/ Moved(s, o)' = sess'[s].rows[o].filled - Shares(o)'
                                       \/ o \in gone' /\ Moved(s, o)' = 0
           /\ \A o \in Orders : Kept(s, o)' <=> Kept(s, o)
           /\ \A o \in Orders : Shares(o)' = Shares(o)
  <1>1. SessionInv(s)
    BY DEF Inv
  <1>2. sess[s].at \notin {"idle", "done", "apply", "next", "copy", "inserting", "push"} \cup Busy
        /\ sess'[s].at \notin {"idle", "done", "apply", "next", "copy", "inserting", "push"} \cup Busy
        /\ sess'[s].at \in Booking
    BY DEF Booking, Busy
  <1>3. Shape(s)'
    BY <1>1, <1>2 DEF SessionInv, Shape, Kept
  <1>4. ShapeOfOrder(s)' /\ ShapeOfOthers(s)'
    BY <1>1, <1>2 DEF SessionInv, ShapeOfOrder, ShapeOfOthers, Kept
  <1>5. /\ \A o \in Orders : Kept(s, o)' <=> Kept(s, o)
        /\ \A o \in Orders : Shares(o)' = Shares(o) /\ Moved(s, o)' = Moved(s, o)
        /\ Before(s)' = Before(s)
    BY DEF Kept, Shares, Moved, Before
  <1>6. Facts(s)'
    <2>1. \A o \in Orders : Kept(s, o)' => Behind(o, sess[s].rows[o])'
      BY <1>1, <1>5 DEF SessionInv, Facts, Behind
    <2>2. sess'[s].msg = None
      BY <1>1, <1>2 DEF SessionInv, Shape
    <2>3. Before(s)' = Shares(sess[s].order)' /\ (sess[s].rows[sess[s].order].filled > Shares(sess[s].order))'
      BY <1>1, <1>5 DEF SessionInv, Facts, Shares
    <2>4. \A o \in Orders : Kept(s, o)' => /\ sess'[s].rows[o].filled >= Shares(o)'
                                           /\ row'[o] # None => row'[o].status \in Open
      BY <1>1, <1>5 DEF SessionInv, Facts
    <2> QED  BY <1>2, <2>1, <2>2, <2>3, <2>4 DEF Facts
  <1>7. gone \subseteq gone'
    BY DEF Only, Grown
  <1> QED  BY <1>1, <1>2, <1>3, <1>4, <1>5, <1>6, <1>7 DEF SessionInv, CashOfSession

\* The order being booked, and what counting it adds.
LEMMA BookedOrder ==
    ASSUME Inv, NEW s \in Sessions, sess[s].at \in Booking
    PROVE  /\ sess[s].order \in Orders /\ s \notin Copies /\ Kept(s, sess[s].order)
           /\ Delta(s) = sess[s].rows[sess[s].order].filled - Shares(sess[s].order)
           /\ Delta(s) \in Nat /\ Delta(s) > 0
           /\ StockOf[sess[s].order] \in Stocks
  <1>1. SessionInv(s)
    BY DEF Inv
  <1>2. sess[s].at \notin {"idle", "done", "copy"}
    BY DEF Booking
  <1>3. PICK o \in Orders : o = sess[s].order
    BY <1>1, SessionFields DEF SessionInv, Shape, Inv
  <1>4. s \notin Copies /\ Kept(s, o)
    BY <1>1, <1>2, <1>3 DEF SessionInv, Shape, ShapeOfOthers
  <1>5. Before(s) = Shares(o) /\ sess[s].rows[o].filled > Shares(o)
    BY <1>1, <1>3 DEF SessionInv, Facts
  <1>6. sess[s].rows[o].filled \in 0..Quantity /\ Shares(o) \in 0..Quantity /\ StockOf[o] \in Stocks
    BY <1>4, Fields, SessionFields DEF Inv
  <1> QED  BY <1>3, <1>4, <1>5, <1>6, Constants DEF Delta

LEMMA CountOrder ==
    ASSUME Inv, NEW s \in Sessions, NEW o \in Orders, sess[s].order = o,
           sess[s].at \in {"read", "write"}, sess'[s].rows = sess[s].rows,
           sess'[s].order = o, sess'[s].at = "account", row' = row
    PROVE  \E f \in Fills, g \in Fills :
              /\ f = Seen(s) /\ g = Seen(s)' /\ g[o] = f[o] + Delta(s)
              /\ \A p \in Orders : /\ p # o => f[p] = g[p]
                                   /\ g[p] <= Quantity
              /\ SoldBy(g, StockOf[o]) <=
                    SumFunctionOnSet([p \in Orders |-> Quantity], Sold(StockOf[o]))
  <1>1. sess[s].at \in Booking
    BY DEF Booking
  <1>2. /\ Kept(s, o) /\ Delta(s) = sess[s].rows[o].filled - Shares(o) /\ Delta(s) \in Nat
        /\ StockOf[o] \in Stocks
    BY <1>1, BookedOrder
  <1>3. PICK f \in Fills : f = Seen(s)
    BY SessionFields DEF Inv
  <1>4. PICK g : g = [f EXCEPT ![o] = sess[s].rows[o].filled]
    OBVIOUS
  <1>5. sess[s].rows[o].filled \in 0..Quantity /\ Shares(o) \in 0..Quantity
    BY <1>2, Fields, SessionFields DEF Inv
  <1>6. g \in Fills /\ g[o] = sess[s].rows[o].filled /\ \A p \in Orders : p # o => g[p] = f[p]
    BY <1>3, <1>4, <1>5, Constants DEF Fills
  <1>7. f[o] = Shares(o)
    BY <1>3 DEF Seen, Counted
  <1>8. g = Seen(s)'
    <2>1. \A p \in Orders : /\ Shares(p)' = Shares(p) /\ (Kept(s, p)' <=> Kept(s, p))
                            /\ p # o => (Counted(s, p)' <=> Counted(s, p))
                            /\ Counted(s, o)'
      BY <1>2 DEF Shares, Kept, Counted
    <2>2. \A p \in Orders :
             g[p] = IF Counted(s, p)' THEN sess'[s].rows[p].filled ELSE Shares(p)'
      BY <1>3, <1>6, <2>1 DEF Seen
    <2>3. g = [p \in Orders |-> g[p]]
      BY <1>6 DEF Fills
    <2> QED  BY <2>2, <2>3 DEF Seen
  <1>9. \A p \in Orders : g[p] <= Quantity
    <2>1. \A p \in Orders : Counted(s, p) => Kept(s, p)
      BY DEF Counted
    <2>2. \A p \in Orders : f[p] <= Quantity
      BY <1>3, <2>1, Fields, SessionFields, Constants DEF Seen, Inv
    <2> QED  BY <1>5, <1>6, <2>2, Constants
  <1>10. SoldBy(g, StockOf[o]) <= SumFunctionOnSet([p \in Orders |-> Quantity], Sold(StockOf[o]))
    <2>1. PICK h : h = [p \in Orders |-> Quantity]
      OBVIOUS
    <2>2. h \in Fills /\ \A p \in Orders : h[p] = Quantity
      BY <2>1, Constants DEF Fills
    <2>3. SoldBy(g, StockOf[o]) <= SoldBy(h, StockOf[o])
      BY <1>2, <1>6, <1>9, <2>2, SoldGrows
    <2> QED  BY <2>1, <2>3 DEF SoldBy
  <1> QED  BY <1>2, <1>3, <1>5, <1>6, <1>7, <1>8, <1>9, <1>10, Constants

\* A sale that finds too little has been promised more than was held.
LEMMA SaleShort ==
    ASSUME Inv, NEW o \in Sells, NEW f \in Fills, NEW g \in Fills, NEW d \in Nat, NEW had \in Nat,
           g[o] = f[o] + d, \A p \in Orders : p # o => f[p] = g[p],
           SoldBy(g, StockOf[o]) <= SumFunctionOnSet([p \in Orders |-> Quantity], Sold(StockOf[o])),
           had >= Holding[StockOf[o]] - SoldBy(f, StockOf[o]), had < d
    PROVE  SumFunctionOnSet([p \in Orders |-> Quantity], Sold(StockOf[o])) > Holding[StockOf[o]]
  <1>1. PICK x \in Stocks : x = StockOf[o]
    BY Constants
  <1>2. PICK total \in Int : total = SumFunctionOnSet([p \in Orders |-> Quantity], Sold(x))
    <2>1. PICK h : h = [p \in Orders |-> Quantity]
      OBVIOUS
    <2>2. h \in Fills
      BY <2>1, Constants DEF Fills
    <2> QED  BY <2>1, <2>2, AfterInt DEF SoldBy
  <1>3. SoldBy(g, x) = SoldBy(f, x) + (g[o] - f[o])
    BY <1>1, AfterFill, Constants
  <1>4. PICK u \in Int, w \in Int, h \in Nat : u = SoldBy(f, x) /\ w = SoldBy(g, x) /\ h = Holding[x]
    BY AfterInt
  <1>5. f[o] \in Nat /\ g[o] - f[o] = d
    BY Constants DEF Fills
  <1>6. w = u + d /\ w <= total /\ had >= h - u
    BY <1>1, <1>2, <1>3, <1>4, <1>5
  <1>7. total > h
    BY <1>6
  <1> QED  BY <1>1, <1>2, <1>4, <1>7

\* Where a stock is not the one being booked, nothing changes.
LEMMA OtherStock ==
    ASSUME Inv, NEW s \in Sessions, Only(s), NEW o \in Orders, NEW x \in Stocks, StockOf[o] # x,
           s \notin Copies, NEW f \in Fills, NEW g \in Fills, f = Seen(s), g = Seen(s)',
           \A p \in Orders : p # o => f[p] = g[p],
           sess'[s].order = o, sess[s].order = o, sess'[s].rows = sess[s].rows,
           sess'[s].pos[x] = sess[s].pos[x],
           row' = row, position' = position
    PROVE  PositionOfSession(s, x)'
  <1>1. PositionOfSession(s, x)
    BY DEF Inv, SessionInv
  <1>2. After(f, x) = After(g, x) /\ SoldBy(f, x) = SoldBy(g, x)
    <2>1. \A p \in Orders : StockOf[p] = x => f[p] = g[p]
      OBVIOUS
    <2> QED  BY <2>1, AfterSame
  <1>3. /\ Current(s, x)' = Current(s, x) /\ (Trading' => Trading) /\ Astray \subseteq Astray'
        /\ \A p \in Orders : /\ Kept(s, p)' <=> Kept(s, p)
                             /\ Shares(p)' = Shares(p)
                             /\ p # o => (Counted(s, p)' <=> Counted(s, p))
    BY AstrayGrows DEF Current, Only, Grown, Kept, Counted, Shares
  <1>4. \A h : After(h, x)' = After(h, x) /\ SoldBy(h, x)' = SoldBy(h, x)
    BY DEF After, SoldBy, Bought, Sold
  <1>5. After(Seen(s), x)' = After(f, x) /\ SoldBy(Seen(s), x)' = SoldBy(f, x)
    BY <1>2 DEF After, SoldBy, Bought, Sold
  <1>6. sess'[s].pos[x] # None => \E p \in Orders : StockOf[p] = x /\ Kept(s, p)'
    BY <1>1, <1>3 DEF PositionOfSession
  <1>7. x \notin Astray' =>
          IF sess'[s].pos[x] # None THEN sess'[s].pos[x] = After(Seen(s), x)'
          ELSE \A p \in Orders : StockOf[p] = x /\ Counted(s, p)' =>
                  sess'[s].rows[p].filled = Shares(p)'
    BY <1>1, <1>3, <1>5 DEF PositionOfSession
  <1>8. Trading' => Current(s, x)' >= Holding[x] - SoldBy(Seen(s), x)'
    BY <1>1, <1>3, <1>5 DEF PositionOfSession
  <1> QED  BY <1>6, <1>7, <1>8 DEF PositionOfSession

LEMMA ReadStep == ASSUME Inv, NEW s \in Sessions, ReadPosition(s)  PROVE Inv'
  <1>1. SessionInv(s) /\ sess[s].at = "read" /\ sess[s].at \in Booking
    BY DEF Inv, ReadPosition, Booking
  <1>2. PICK S \in Session : S = sess[s]
    BY SessionFields DEF Inv
  <1>3. PICK o \in Orders : o = S.order /\ s \notin Copies /\ Kept(s, o)
    BY <1>1, <1>2, BookedOrder
  <1>4. PICK x \in Stocks : x = StockOf[o]
    BY Constants
  <1>5. PICK cur \in Nat : cur = Current(s, x)
    BY SessionFields DEF Inv
  <1>6. PICK none \in BOOLEAN : none <=> o \in Sells /\ cur = 0
    OBVIOUS
  <1>7. PICK N : N = [S EXCEPT !.base = cur, !.at = IF none THEN "account" ELSE "write"]
    OBVIOUS
  <1>8. /\ N \in Session /\ N.at = (IF none THEN "account" ELSE "write") /\ N.base = cur
        /\ N.order = o /\ N.todo = S.todo /\ N.view = S.view /\ N.snap = S.snap /\ N.msg = S.msg
        /\ N.rows = S.rows /\ N.pos = S.pos /\ N.money = S.money
    BY <1>3, <1>7 DEF Session, Places
  <1>9. Step(s, N) /\ gone' = (IF none THEN gone \cup {o} ELSE gone)
    BY <1>2, <1>3, <1>4, <1>5, <1>6, <1>7 DEF ReadPosition
  <1>10. /\ sess' \in [Sessions -> Session] /\ sess'[s] = N
         /\ \A q \in Sessions : q # s => sess'[q] = sess[q]
    BY <1>8, <1>9, StepType DEF Inv
  <1>11. TypeOK'
    BY <1>6, <1>9, <1>10 DEF ReadPosition, BookUnchanged, Inv, TypeOK
  <1>12. Trading' => Trading
    BY <1>3, <1>10, Constants DEF Trading
  <1>13. /\ Only(s) /\ UNCHANGED <<broker, row, position>>
         /\ UNCHANGED <<overwritten, early, short>>
    BY <1>9, <1>10, <1>12, BrokerStays DEF Only, Grown, ReadPosition, BookUnchanged
  <1>14. /\ Shape(s)' /\ ShapeOfOrder(s)' /\ ShapeOfOthers(s)' /\ Facts(s)'
         /\ \A p \in Orders : Kept(s, p)' /\ ~(sess'[s].order = p /\ sess'[s].at \in Booking) =>
               /\ Moved(s, p)' <= sess'[s].rows[p].filled - Shares(p)'
               /\ Prices = {TRUE} => \/ Moved(s, p)' = sess'[s].rows[p].filled - Shares(p)'
                                     \/ p \in gone' /\ Moved(s, p)' = 0
         /\ \A p \in Orders : Kept(s, p)' <=> Kept(s, p)
         /\ \A p \in Orders : Shares(p)' = Shares(p)
    <2>1. sess'[s].at \in {"write", "account"} /\ sess[s].order = o /\ sess'[s].order = o
      BY <1>2, <1>3, <1>8, <1>10
    <2> QED  BY <1>1, <1>2, <1>8, <1>10, <1>11, <1>13, <2>1, BookingKept
  <1>15. CashOfSession(s)'
    <2>1. sess'[s].at = "write" /\ sess'[s].order \in Sells => sess'[s].base > 0
      BY <1>6, <1>8, <1>10
    <2>2. sess'[s].at = "account" /\ sess'[s].order \in Sells /\ sess'[s].base = 0 =>
             sess'[s].order \in gone'
      BY <1>8, <1>9, <1>10
    <2> QED  BY <1>14, <2>1, <2>2 DEF CashOfSession
  <1>16. \A y \in Stocks : PositionOfSession(s, y)
    BY <1>1, <1>3 DEF SessionInv
  <1>17. \A h, y : After(h, y)' = After(h, y) /\ SoldBy(h, y)' = SoldBy(h, y)
    BY DEF After, SoldBy, Bought, Sold
  <1>18. CASE ~none
    <2>1. Causes'
      BY <1>9, <1>12, <1>13, <1>18, CausesKept DEF history
    <2>2. ASSUME NEW y \in Stocks  PROVE PositionOfSession(s, y)'
      <3>1. \A p \in Orders : Counted(s, p)' <=> Counted(s, p)
        BY <1>1, <1>2, <1>3, <1>8, <1>10, <1>14, <1>18 DEF Counted
      <3>2. Seen(s)' = Seen(s) /\ Current(s, y)' = Current(s, y) /\ Astray' = Astray
        BY <1>2, <1>8, <1>9, <1>10, <1>13, <1>14, <1>18, <3>1 DEF Seen, Current, Astray
      <3>3. PositionOfSession(s, y)
        BY <1>16
      <3>4. sess'[s].at = "write" /\ sess'[s].order = o /\ sess'[s].base = cur
        BY <1>8, <1>10, <1>18
      <3>5. /\ sess'[s].pos = sess[s].pos /\ sess'[s].rows = sess[s].rows
        BY <1>2, <1>8, <1>10
      <3>6. StockOf[o] = y => cur = Current(s, y)
        BY <1>4, <1>5
      <3> QED
        BY <1>12, <1>14, <1>17, <3>1, <3>2, <3>3, <3>4, <3>5, <3>6 DEF PositionOfSession
    <2>3. SessionInv(s)'
      BY <1>3, <1>14, <1>15, <2>2 DEF SessionInv
    <2>4. sess'[s].pos = sess[s].pos
      BY <1>2, <1>8, <1>10
    <2> QED  BY <1>11, <1>13, <1>14, <2>1, <2>3, <2>4, OwnStep
  <1>19. CASE none
    <2>1. /\ sess'[s].at = "account" /\ sess'[s].order = o /\ sess[s].order = o
          /\ sess'[s].rows = sess[s].rows /\ sess'[s].pos = sess[s].pos
      BY <1>2, <1>3, <1>8, <1>10, <1>19
    <2>2. PICK f \in Fills, g \in Fills :
              /\ f = Seen(s) /\ g = Seen(s)' /\ g[o] = f[o] + Delta(s)
              /\ \A p \in Orders : /\ p # o => f[p] = g[p]
                                   /\ g[p] <= Quantity
              /\ SoldBy(g, StockOf[o]) <=
                    SumFunctionOnSet([p \in Orders |-> Quantity], Sold(StockOf[o]))
      BY <1>1, <1>13, <2>1, CountOrder
    <2>3. PICK d \in Nat : d = Delta(s) /\ d > 0
      BY <1>1, BookedOrder
    <2>4. Trading => cur >= Holding[x] - SoldBy(f, x)
      BY <1>5, <1>16, <2>2 DEF PositionOfSession
    <2>5. Causes'
      <3>1. \A p \in short \cup gone :
               \/ SumFunctionOnSet([q \in Orders |-> Quantity], Sold(StockOf[p])) > Holding[StockOf[p]]
               \/ ~Trading
        BY DEF Inv, BooksInv, SalesFindTheirShares
      <3>2. SumFunctionOnSet([q \in Orders |-> Quantity], Sold(StockOf[o])) > Holding[StockOf[o]]
            \/ ~Trading
        BY <1>4, <1>6, <1>19, <2>2, <2>3, <2>4, SaleShort
      <3>3. \A x_1 : Sold(x_1)' = Sold(x_1)
        BY DEF Sold
      <3>4. SalesFindTheirShares'
        BY <1>9, <1>12, <1>13, <1>19, <3>1, <3>2, <3>3 DEF SalesFindTheirShares
      <3>5. \A y \in overwritten' :
               (\E p, q \in Orders : p # q /\ StockOf[p] = y /\ StockOf[q] = y) \/ ~Trading'
        BY <1>12, <1>13 DEF Inv, BooksInv
      <3> QED  BY <3>4, <3>5 DEF Causes
    <2>6. ASSUME NEW y \in Stocks  PROVE PositionOfSession(s, y)'
      <3>1. CASE y # x
        <4>1. sess'[s].pos[y] = sess[s].pos[y]
          BY <2>1
        <4> QED  BY <1>3, <1>4, <1>13, <2>1, <2>2, <3>1, <4>1, OtherStock
      <3>2. CASE y = x
        <4>1. x \in Astray'
          BY <1>4, <1>9, <1>19 DEF Astray
        <4>2. Current(s, x)' = cur
          BY <1>5, <1>13, <2>1 DEF Current
        <4>3. SoldBy(f, x) <= SoldBy(g, x)
          <5>1. \A p \in Orders : f[p] <= g[p]
            <6>1. \A p \in Orders : f[p] \in Nat /\ g[p] \in Nat
              BY DEF Fills
            <6> QED  BY <2>2, <2>3, <6>1
          <5> QED  BY <5>1, SoldGrows
        <4>4. SoldBy(Seen(s), x)' = SoldBy(g, x)
          BY <2>2 DEF SoldBy, Sold
        <4>5. Trading' => cur >= Holding[x] - SoldBy(g, x)
          <5>1. SoldBy(f, x) \in Int /\ SoldBy(g, x) \in Int /\ Holding[x] \in Int
            BY AfterInt
          <5> QED  BY <1>12, <2>4, <4>3, <5>1
        <4>6. sess'[s].pos[x] # None => \E p \in Orders : StockOf[p] = x /\ Kept(s, p)'
          BY <1>14, <1>16, <2>1 DEF PositionOfSession
        <4> QED  BY <2>1, <3>2, <4>1, <4>2, <4>4, <4>5, <4>6 DEF PositionOfSession
      <3> QED  BY <3>1, <3>2
    <2>7. SessionInv(s)'
      BY <1>3, <1>14, <1>15, <2>6 DEF SessionInv
    <2> QED  BY <1>11, <1>13, <1>14, <2>1, <2>5, <2>7, OwnStep
  <1> QED  BY <1>18, <1>19

LEMMA AccountStep == ASSUME Inv, NEW s \in Sessions, UpdateAccount(s)  PROVE Inv'
  <1>1. SessionInv(s) /\ sess[s].at = "account" /\ sess[s].at \in Booking /\ BookUnchanged /\ Quiet
    BY DEF Inv, UpdateAccount, Booking
  <1>2. PICK S \in Session : S = sess[s]
    BY SessionFields DEF Inv
  <1>3. PICK o \in Orders : o = S.order /\ s \notin Copies /\ Kept(s, o)
    BY <1>1, <1>2, BookedOrder
  <1>4. PICK d \in Nat : d = Delta(s) /\ d > 0 /\ d = S.rows[o].filled - Shares(o)
    BY <1>1, <1>2, <1>3, BookedOrder
  <1>5. PICK a \in Nat : /\ a = Amount(s) /\ a <= d
                         /\ Prices = {TRUE} => a = d \/ (o \in gone /\ a = 0)
    <2>1. PICK b \in BOOLEAN : b <=> S.rows[o].priced /\ ~(o \in Sells /\ S.base = 0)
      OBVIOUS
    <2>2. Prices = {TRUE} => S.rows[o].priced
      BY <1>1, <1>2, <1>3 DEF SessionInv, Facts, Behind
    <2>3. o \in Sells /\ S.base = 0 => o \in gone
      BY <1>1, <1>2, <1>3 DEF SessionInv, CashOfSession
    <2>4. Amount(s) = IF b THEN d ELSE 0
      BY <1>2, <1>3, <1>4, <2>1 DEF Amount
    <2>5. Prices = {TRUE} /\ o \notin gone => b
      BY <2>1, <2>2, <2>3
    <2>6. CASE b
      <3>1. Amount(s) = d /\ d <= d
        BY <2>4, <2>6
      <3> QED  BY <3>1
    <2>7. CASE ~b
      <3>1. Amount(s) = 0 /\ ~(Prices = {TRUE} /\ o \notin gone)
        BY <2>4, <2>5, <2>7
      <3>2. 0 \in Nat /\ 0 <= d
        OBVIOUS
      <3> QED  BY <3>1, <3>2
    <2> QED  BY <2>6, <2>7
  <1>6. PICK T \in Session : T = Settled(s)
    BY <1>2, <1>3, SettledType DEF Inv
  <1>7. /\ T.order = None /\ T.snap = None /\ T.msg = None
        /\ T.view = [S.view EXCEPT ![o] = None] /\ T.todo = S.todo
        /\ T.rows = S.rows /\ T.pos = S.pos /\ T.money = S.money
    BY <1>2, <1>3, <1>6, SettledType DEF Inv
  <1>8. PICK m : m = [S.money EXCEPT ![o] = a]
    OBVIOUS
  <1>9. /\ m \in [Orders -> Nat \cup {None}] /\ m[o] = a /\ a # None
        /\ \A p \in Orders : p # o => m[p] = S.money[p]
    BY <1>2, <1>8, SessionFields, Constants DEF Inv
  <1>10. PICK N : N = [T EXCEPT !.money = m, !.at = IF s \in Orders THEN "push" ELSE "next"]
    OBVIOUS
  <1>11. /\ N \in Session /\ N.at = (IF s \in Orders THEN "push" ELSE "next")
         /\ N.order = None /\ N.snap = None /\ N.msg = None
         /\ N.view = [S.view EXCEPT ![o] = None] /\ N.todo = S.todo
         /\ N.rows = S.rows /\ N.pos = S.pos /\ N.money = m
    BY <1>7, <1>9, <1>10 DEF Session, Places
  <1>12. Step(s, N) /\ emitted' \subseteq Orders
    BY <1>1, <1>2, <1>3, <1>5, <1>6, <1>7, <1>8, <1>10 DEF UpdateAccount, Quiet, Inv, TypeOK
  <1>13. /\ TypeOK' /\ Only(s) /\ Causes' /\ UNCHANGED <<broker, row, position, paid, gone>>
         /\ sess'[s] = N
    BY <1>1, <1>11, <1>12, PlainStep DEF Quiet
  <1>14. /\ Trading' => Trading
         /\ Astray' = Astray
    BY <1>1, <1>13 DEF Only, Grown, Quiet, history, Astray
  <1>15. \A p \in Orders : /\ Kept(s, p)' <=> Kept(s, p)
                           /\ Counted(s, p)' <=> Counted(s, p)
                           /\ Shares(p)' = Shares(p)
                           /\ p # o => Moved(s, p)' = Moved(s, p)
    BY <1>1, <1>2, <1>9, <1>11, <1>13 DEF Kept, Counted, Shares, Moved
  <1>16. /\ \A p \in S.todo : S.view[p] # None /\ S.rows[p] = None /\ p # o
         /\ \A p \in Orders : (S.view[p] # None => row[p] # None)
                              /\ (S.money[p] # None => S.rows[p] # None)
         /\ S.view \in [Orders -> Report \cup {None}] /\ S.todo \subseteq Orders
         /\ S.rows[o] # None
    BY <1>1, <1>2, <1>3, SessionFields DEF SessionInv, Shape, Kept, Inv
  <1>17. Shape(s)'
    <2>1. \A p \in Orders : /\ N.view[p] # None => row[p] # None
                            /\ p # o => N.view[p] = S.view[p]
      BY <1>11, <1>16
    <2>2. \A p \in Orders : N.money[p] # None => N.rows[p] # None
      BY <1>9, <1>11, <1>16
    <2>3. \A p \in N.todo : N.view[p] # None /\ N.rows[p] = None /\ p # N.order
      BY <1>11, <1>16, <2>1, Constants
    <2> QED  BY <1>11, <1>13, <2>1, <2>2, <2>3 DEF Shape, Kept, Busy, Booking
  <1>18. ShapeOfOrder(s)' /\ ShapeOfOthers(s)'
    BY <1>1, <1>2, <1>3, <1>11, <1>13, <1>15, <1>16
       DEF SessionInv, ShapeOfOrder, ShapeOfOthers, Booking
  <1>19. Facts(s)'
    <2>1. sess'[s].at \notin {"apply"} \cup Booking /\ sess'[s].msg = None
      BY <1>11, <1>13 DEF Booking
    <2>2. \A p \in Orders : Kept(s, p)' =>
             /\ sess'[s].rows[p].filled >= Shares(p)'
             /\ row'[p] # None => row'[p].status \in Open
      BY <1>1, <1>2, <1>11, <1>13, <1>15 DEF SessionInv, Facts
    <2>3. ASSUME NEW p \in Orders, Kept(s, p)'  PROVE Behind(p, sess[s].rows[p])'
      <3>1. PICK r \in Report : r = sess[s].rows[p]
        BY <1>15, <2>3, SessionFields DEF Inv
      <3>2. Behind(p, r)
        BY <1>1, <1>15, <2>3, <3>1 DEF SessionInv, Facts
      <3>3. Behind(p, r)'
        BY <1>13, <3>2 DEF Behind
      <3> QED  BY <1>2, <1>11, <1>13, <3>1, <3>3
    <2> QED  BY <2>1, <2>2, <2>3 DEF Facts
  <1>20. CashOfSession(s)'
    <2>1. ASSUME NEW p \in Orders, Kept(s, p)'
          PROVE  /\ Moved(s, p)' <= sess'[s].rows[p].filled - Shares(p)'
                 /\ Prices = {TRUE} => \/ Moved(s, p)' = sess'[s].rows[p].filled - Shares(p)'
                                       \/ p \in gone' /\ Moved(s, p)' = 0
      <3>1. CASE p = o
        <4>1. Moved(s, p)' = a /\ Shares(p)' = Shares(o) /\ sess'[s].rows[p].filled = S.rows[o].filled
          BY <1>9, <1>11, <1>13, <1>15, <3>1 DEF Moved
        <4>2. sess'[s].rows[p].filled - Shares(p)' = d
          BY <1>4, <4>1
        <4> QED  BY <1>5, <1>13, <3>1, <4>1, <4>2
      <3>2. CASE p # o
        <4>1. sess[s].order # p
          BY <1>2, <1>3, <3>2
        <4> QED
          BY <1>1, <1>2, <1>11, <1>13, <1>15, <2>1, <3>2, <4>1 DEF SessionInv, CashOfSession
      <3> QED  BY <3>1, <3>2
    <2>2. sess'[s].at \notin {"write", "account"}
      BY <1>11, <1>13
    <2> QED  BY <2>1, <2>2 DEF CashOfSession
  <1>21. ASSUME NEW x \in Stocks  PROVE PositionOfSession(s, x)'
    <2>1. PositionOfSession(s, x)
      BY <1>1, <1>3 DEF SessionInv
    <2>2. Seen(s)' = Seen(s) /\ Current(s, x)' = Current(s, x)
      BY <1>2, <1>11, <1>13, <1>15 DEF Seen, Current
    <2>3. \A f : After(f, x)' = After(f, x) /\ SoldBy(f, x)' = SoldBy(f, x)
      BY DEF After, SoldBy, Bought, Sold
    <2>4. sess'[s].at # "write" /\ sess'[s].pos = sess[s].pos /\ sess'[s].rows = sess[s].rows
      BY <1>2, <1>11, <1>13
    <2> QED  BY <1>14, <1>15, <2>1, <2>2, <2>3, <2>4 DEF PositionOfSession
  <1>22. SessionInv(s)'
    BY <1>3, <1>17, <1>18, <1>19, <1>20, <1>21 DEF SessionInv
  <1>23. sess'[s].pos = sess[s].pos
    BY <1>2, <1>11, <1>13
  <1> QED  BY <1>13, <1>15, <1>22, <1>23, OwnStep

\* s writes the positions p for order o of stock x, d shares, from old where it
\* meets cur; new is what they become, unless the row of the position is gone.
Written(s, o, x, d, old, cur, new, p) ==
    /\ sess[s].at = "write" /\ o = sess[s].order /\ x = StockOf[o] /\ ~PositionLocked(s, x)
    /\ d = Delta(s) /\ old = sess[s].base /\ cur = Current(s, x)
    /\ \A y \in Stocks : y # x => p[y] = sess[s].pos[y]
    /\ \/ /\ p[x] = new /\ (old # cur => x \in overwritten')
          /\ o \notin Sells => new = old + d
          /\ o \in Sells => new = IF old > d THEN old - d ELSE 0
       \/ p[x] = sess[s].pos[x] /\ cur = 0 /\ old > 0 /\ x \in overwritten'
    /\ overwritten' \in {overwritten, overwritten \cup {x}}
    /\ x \in overwritten' => x \in overwritten \/ old # cur
    /\ short' = IF o \in Sells /\ old < d THEN short \cup {o} ELSE short
    /\ UNCHANGED <<row, position, paid, broker, emitted, early, gone, lost>>
    /\ Step(s, [sess[s] EXCEPT !.at = "account", !.pos = p])

LEMMA WrittenStep ==
    ASSUME Inv, NEW s \in Sessions, NEW o \in Orders, NEW x \in Stocks, NEW d \in Nat,
           NEW old \in Nat, NEW cur \in Nat, NEW new \in Nat,
           NEW p \in [Stocks -> Nat \cup {None}], Written(s, o, x, d, old, cur, new, p)
    PROVE  Inv'
  <1> USE DEF Written
  <1>1. SessionInv(s) /\ sess[s].at \in Booking
    BY DEF Inv, Booking
  <1>2. PICK S \in Session : S = sess[s]
    BY SessionFields DEF Inv
  <1>3. s \notin Copies /\ Kept(s, o) /\ d > 0
    BY <1>1, BookedOrder
  <1>4. PICK N : N = [S EXCEPT !.at = "account", !.pos = p]
    OBVIOUS
  <1>5. /\ N \in Session /\ N.at = "account" /\ N.base = old
        /\ N.order = o /\ N.todo = S.todo /\ N.view = S.view /\ N.snap = S.snap /\ N.msg = S.msg
        /\ N.rows = S.rows /\ N.pos = p /\ N.money = S.money
    BY <1>2, <1>4 DEF Session, Places
  <1>6. /\ sess' \in [Sessions -> Session] /\ sess'[s] = N
        /\ \A q \in Sessions : q # s => sess'[q] = sess[q]
    BY <1>2, <1>4, <1>5, StepType DEF Inv
  <1>7. TypeOK'
    <2>1. short' \subseteq Sells /\ overwritten' \subseteq Stocks
      BY DEF Inv, TypeOK
    <2> QED  BY <1>6, <2>1 DEF Inv, TypeOK
  <1>8. Trading' => Trading
    BY <1>3, <1>6, Constants DEF Trading
  <1>9. overwritten \subseteq overwritten' /\ short \subseteq short'
    OBVIOUS
  <1>10. Only(s)
    BY <1>6, <1>8, <1>9, BrokerStays DEF Only, Grown
  <1>11. /\ sess'[s].at = "account" /\ sess'[s].order = o /\ sess'[s].rows = sess[s].rows
         /\ sess'[s].base = old /\ sess'[s].pos = p
    BY <1>2, <1>5, <1>6
  <1>12. /\ Shape(s)' /\ ShapeOfOrder(s)' /\ ShapeOfOthers(s)' /\ Facts(s)'
         /\ \A q \in Orders : Kept(s, q)' /\ ~(sess'[s].order = q /\ sess'[s].at \in Booking) =>
               /\ Moved(s, q)' <= sess'[s].rows[q].filled - Shares(q)'
               /\ Prices = {TRUE} => \/ Moved(s, q)' = sess'[s].rows[q].filled - Shares(q)'
                                     \/ q \in gone' /\ Moved(s, q)' = 0
         /\ \A q \in Orders : Kept(s, q)' <=> Kept(s, q)
         /\ \A q \in Orders : Shares(q)' = Shares(q)
    BY <1>1, <1>2, <1>5, <1>6, <1>7, <1>10, <1>11, BookingKept
  <1>13. o \in Sells => old > 0
    BY <1>1 DEF SessionInv, CashOfSession
  <1>14. CashOfSession(s)'
    <2>1. /\ sess'[s].at = "write" /\ sess'[s].order \in Sells => sess'[s].base > 0
          /\ ~(sess'[s].at = "account" /\ sess'[s].order \in Sells /\ sess'[s].base = 0)
      BY <1>11, <1>13
    <2> QED  BY <1>12, <2>1 DEF CashOfSession
  <1>15. \A y \in Stocks : PositionOfSession(s, y)
    BY <1>1, <1>3 DEF SessionInv
  <1>16. PICK f \in Fills, g \in Fills :
              /\ f = Seen(s) /\ g = Seen(s)' /\ g[o] = f[o] + Delta(s)
              /\ \A q \in Orders : /\ q # o => f[q] = g[q]
                                   /\ g[q] <= Quantity
              /\ SoldBy(g, StockOf[o]) <=
                    SumFunctionOnSet([q \in Orders |-> Quantity], Sold(StockOf[o]))
    BY <1>11, CountOrder
  <1>17. PICK fa \in Int, ga \in Int, fs \in Int, gs \in Int, h \in Int :
              /\ fa = After(f, x) /\ ga = After(g, x) /\ fs = SoldBy(f, x) /\ gs = SoldBy(g, x)
              /\ h = Holding[x]
    BY AfterInt
  <1>18. /\ o \in Sells => ga = fa - d /\ gs = fs + d
         /\ o \notin Sells => ga = fa + d /\ gs = fs
    <2>1. g[o] - f[o] = d
      BY <1>16 DEF Fills
    <2> QED  BY <1>16, <1>17, <2>1, AfterFill
  <1>19. Trading => old >= h - fs /\ cur >= h - fs
    <2>1. PositionOfSession(s, x)
      BY <1>15
    <2> QED  BY <1>16, <1>17, <2>1 DEF PositionOfSession
  <1>20. Causes'
    <2>1. /\ \A q \in short \cup gone :
               \/ SumFunctionOnSet([r \in Orders |-> Quantity], Sold(StockOf[q])) > Holding[StockOf[q]]
               \/ ~Trading
          /\ \A y \in overwritten :
               (\E q, r \in Orders : q # r /\ StockOf[q] = y /\ StockOf[r] = y) \/ ~Trading
      BY DEF Inv, BooksInv, SalesFindTheirShares
    <2>2. o \in Sells /\ old < d =>
             \/ SumFunctionOnSet([q \in Orders |-> Quantity], Sold(StockOf[o])) > Holding[StockOf[o]]
             \/ ~Trading
      <3>1. ASSUME o \in Sells, old < d, Trading
            PROVE  SumFunctionOnSet([q \in Orders |-> Quantity], Sold(StockOf[o])) > Holding[StockOf[o]]
        <4>1. old >= Holding[StockOf[o]] - SoldBy(f, StockOf[o])
          BY <1>17, <1>19, <3>1
        <4> QED  BY <1>16, <3>1, <4>1, SaleShort
      <3> QED  BY <3>1
    <2>3. \A y : Sold(y)' = Sold(y)
      BY DEF Sold
    <2>4. SalesFindTheirShares'
      BY <1>8, <2>1, <2>2, <2>3 DEF SalesFindTheirShares
    <2>5. old # cur => (\E q, r \in Orders : q # r /\ StockOf[q] = x /\ StockOf[r] = x) \/ ~Trading
      <3>1. ASSUME Trading, \A q \in Orders : StockOf[q] = x => q = o  PROVE old = cur
        <4>1. PositionOfSession(s, x)
          BY <1>15
        <4> QED  BY <3>1, <4>1 DEF PositionOfSession
      <3> QED  BY <3>1
    <2>6. \A y \in overwritten' :
             (\E q, r \in Orders : q # r /\ StockOf[q] = y /\ StockOf[r] = y) \/ ~Trading'
      BY <1>8, <2>1, <2>5
    <2> QED  BY <2>4, <2>6 DEF Causes
  <1>21. ASSUME NEW y \in Stocks, y # x  PROVE PositionOfSession(s, y)'
    BY <1>3, <1>10, <1>11, <1>16, <1>21, OtherStock
  <1>22. PositionOfSession(s, x)'
    <2>1. /\ \E q \in Orders : StockOf[q] = x /\ Kept(s, q)'
          /\ sess'[s].at = "account"
      BY <1>3, <1>11, <1>12
    <2>2. After(Seen(s), x)' = ga /\ SoldBy(Seen(s), x)' = gs
      BY <1>16, <1>17 DEF After, SoldBy, Bought, Sold
    <2>3. x \notin Astray' => p[x] # None /\ p[x] = ga
      <3>1. ASSUME x \notin Astray'  PROVE p[x] = new /\ new = ga
        <4>1. x \notin Astray /\ x \notin overwritten' /\ o \notin short'
          BY <1>10, <3>1, AstrayGrows DEF Only, Astray
        <4>2. p[x] = new /\ old = cur
          BY <4>1
        <4>3. cur = fa
          <5>1. PositionOfSession(s, x)
            BY <1>15
          <5>2. CASE sess[s].pos[x] # None
            BY <1>16, <1>17, <4>1, <5>1, <5>2 DEF PositionOfSession, Current
          <5>3. CASE sess[s].pos[x] = None
            <6>1. cur = position[x]
              BY <5>3 DEF Current
            <6>2. PICK b : b = [q \in Orders |-> Shares(q)]
              OBVIOUS
            <6>3. b \in Fills /\ position[x] = After(b, x)
              BY <4>1, <6>2, Fields, Constants DEF Inv, BooksInv, Booked, Fills
            <6>4. \A q \in Orders : StockOf[q] = x => f[q] = b[q]
              BY <1>16, <4>1, <5>1, <5>3, <6>2 DEF PositionOfSession, Seen
            <6>5. After(f, x) = After(b, x)
              BY <6>3, <6>4, AfterSame
            <6> QED  BY <1>17, <6>1, <6>3, <6>5
          <5> QED  BY <5>2, <5>3
        <4>4. o \in Sells => old >= d /\ new = old - d
          BY <4>1, <4>2
        <4> QED  BY <1>18, <4>2, <4>3, <4>4
      <3> QED  BY <3>1, Constants
    <2>4. Current(s, x)' = IF p[x] # None THEN p[x] ELSE position[x]
      BY <1>11 DEF Current
    <2>5. Trading' => Current(s, x)' >= h - gs
      <3>1. CASE p[x] = new
        <4>1. Current(s, x)' = new
          BY <2>4, <3>1, Constants
        <4>2. p[x] = sess[s].pos[x] => new = cur
          BY <3>1, Constants DEF Current
        <4>3. /\ o \notin Sells => new = old + d \/ new = cur
              /\ o \in Sells => new >= old - d \/ new = cur
          BY <4>2
        <4>4. Trading => new >= h - gs
          BY <1>18, <1>19, <4>3
        <4> QED  BY <1>8, <4>1, <4>4
      <3>2. CASE p[x] = sess[s].pos[x]
        <4>1. Current(s, x)' = cur
          BY <2>4, <3>2 DEF Current
        <4>2. Trading => cur >= h - gs
          BY <1>18, <1>19
        <4> QED  BY <1>8, <4>1, <4>2
      <3> QED  BY <3>1, <3>2
    <2> QED  BY <1>11, <1>17, <2>1, <2>2, <2>3, <2>5 DEF PositionOfSession
  <1>23. SessionInv(s)'
    BY <1>3, <1>12, <1>14, <1>21, <1>22 DEF SessionInv
  <1>24. /\ \A q \in Orders : Kept(s, q)' => Kept(s, q) \/ ~OrderLocked(s, q)
         /\ \A y \in Stocks : sess'[s].pos[y] # None =>
                                sess[s].pos[y] # None \/ ~PositionLocked(s, y)
    BY <1>11, <1>12
  <1> QED  BY <1>7, <1>10, <1>20, <1>23, <1>24, OwnStep

LEMMA WriteStep == ASSUME Inv, NEW s \in Sessions, WritePosition(s)  PROVE Inv'
  <1>1. SessionInv(s) /\ sess[s].at = "write" /\ sess[s].at \in Booking
    BY DEF Inv, WritePosition, Booking
  <1>2. PICK o \in Orders : o = sess[s].order
    BY <1>1, BookedOrder
  <1>3. PICK x \in Stocks : x = StockOf[o]
    BY Constants
  <1>4. PICK d \in Nat, old \in Nat, cur \in Nat :
            d = Delta(s) /\ d > 0 /\ old = sess[s].base /\ cur = Current(s, x)
    BY <1>1, BookedOrder, SessionFields DEF Inv
  <1>5. PICK new : new = IF o \notin Sells THEN old + d ELSE IF old > d THEN old - d ELSE 0
    OBVIOUS
  <1>6. /\ new \in Nat
        /\ o \notin Sells => new = old + d
        /\ o \in Sells => new = IF old > d THEN old - d ELSE 0
    BY <1>5
  <1>7. /\ ~PositionLocked(s, x)
        /\ short' = IF o \in Sells /\ old < d THEN short \cup {o} ELSE short
        /\ UNCHANGED <<row, position, paid, broker, emitted, early, gone, lost>>
        /\ \/ old = 0 /\ cur > 0 /\ Step(s, Ended(s)) /\ UNCHANGED overwritten
           \/ /\ (old > 0) = (cur > 0)
              /\ Step(s, [sess[s] EXCEPT !.at = "account", !.pos[x] = new])
              /\ Overwrites(x, old # cur)
           \/ /\ old > 0 /\ ~(cur > 0)
              /\ Step(s, [sess[s] EXCEPT !.at = "account"])
              /\ Overwrites(x, TRUE)
    BY <1>2, <1>3, <1>4, <1>5 DEF WritePosition, BookUnchanged
  <1>8. CASE old = 0 /\ cur > 0 /\ Step(s, Ended(s)) /\ UNCHANGED overwritten
    <2>1. o \notin Sells
      BY <1>1, <1>2, <1>4, <1>8 DEF SessionInv, CashOfSession
    <2>2. UNCHANGED history
      BY <1>7, <1>8, <2>1 DEF history
    <2> QED  BY <1>7, <1>8, <2>2, EndStep DEF Inv, TypeOK
  <1>9. CASE /\ Step(s, [sess[s] EXCEPT !.at = "account", !.pos[x] = new])
             /\ Overwrites(x, old # cur)
    <2>1. PICK p : p = [sess[s].pos EXCEPT ![x] = new]
      OBVIOUS
    <2>2. /\ p \in [Stocks -> Nat \cup {None}] /\ p[x] = new
          /\ \A y \in Stocks : y # x => p[y] = sess[s].pos[y]
      BY <1>6, <2>1, SessionFields DEF Inv
    <2>3. Step(s, [sess[s] EXCEPT !.at = "account", !.pos = p])
      BY <1>9, <2>1
    <2>4. /\ overwritten' \in {overwritten, overwritten \cup {x}}
          /\ (old # cur => x \in overwritten')
          /\ x \in overwritten' => x \in overwritten \/ old # cur
      BY <1>9 DEF Overwrites
    <2>5. \/ /\ p[x] = new /\ (old # cur => x \in overwritten')
             /\ o \notin Sells => new = old + d
             /\ o \in Sells => new = IF old > d THEN old - d ELSE 0
          \/ p[x] = sess[s].pos[x] /\ cur = 0 /\ old > 0 /\ x \in overwritten'
      BY <1>6, <2>2, <2>4
    <2>6. sess[s].at = "write" /\ new \in Nat
      BY <1>1, <1>6
    <2>7. Written(s, o, x, d, old, cur, new, p)
      BY <1>2, <1>3, <1>4, <1>7, <2>2, <2>3, <2>4, <2>5, <2>6 DEF Written
    <2> QED  BY <2>2, <2>6, <2>7, WrittenStep
  <1>10. CASE /\ old > 0 /\ ~(cur > 0)
              /\ Step(s, [sess[s] EXCEPT !.at = "account"])
              /\ Overwrites(x, TRUE)
    <2>1. PICK p \in [Stocks -> Nat \cup {None}] : p = sess[s].pos
      BY SessionFields DEF Inv
    <2>2. Step(s, [sess[s] EXCEPT !.at = "account", !.pos = p])
      <3>1. sess[s] \in Session
        BY SessionFields DEF Inv
      <3>2. [sess[s] EXCEPT !.at = "account", !.pos = p] = [sess[s] EXCEPT !.at = "account"]
        BY <2>1, <3>1 DEF Session
      <3> QED  BY <1>10, <3>2
    <2>3. overwritten' = overwritten \cup {x} /\ cur = 0 /\ old # cur
      BY <1>10 DEF Overwrites
    <2>4. \/ /\ p[x] = new /\ (old # cur => x \in overwritten')
             /\ o \notin Sells => new = old + d
             /\ o \in Sells => new = IF old > d THEN old - d ELSE 0
          \/ p[x] = sess[s].pos[x] /\ cur = 0 /\ old > 0 /\ x \in overwritten'
      BY <1>10, <2>1, <2>3
    <2>5. /\ overwritten' \in {overwritten, overwritten \cup {x}}
          /\ x \in overwritten' => x \in overwritten \/ old # cur
          /\ \A y \in Stocks : y # x => p[y] = sess[s].pos[y]
      BY <2>1, <2>3
    <2>6. sess[s].at = "write" /\ new \in Nat
      BY <1>1, <1>6
    <2>7. Written(s, o, x, d, old, cur, new, p)
      BY <1>2, <1>3, <1>4, <1>7, <2>2, <2>4, <2>5, <2>6 DEF Written
    <2> QED  BY <2>6, <2>7, WrittenStep
  <1> QED  BY <1>7, <1>8, <1>9, <1>10

-----------------------------------------------------------------------------
(* The copy of the broker's positions. *)

\* A session of the copy holds no rows, and its shape says little.
LEMMA CopyShape ==
    ASSUME Inv, NEW c \in Copies, TypeOK',
           sess'[c].at = "copy", sess'[c].order = None, sess'[c].snap = None, sess'[c].msg = None,
           sess'[c].todo = {}, sess'[c].rows = [o \in Orders |-> None],
           sess'[c].view = [o \in Orders |-> None], sess'[c].money = [o \in Orders |-> None]
    PROVE  /\ Shape(c)' /\ ShapeOfOrder(c)' /\ ShapeOfOthers(c)' /\ Facts(c)' /\ CashOfSession(c)'
           /\ \A o \in Orders : ~Kept(c, o)'
  <1>1. c \in Sessions /\ c \notin Orders
    BY Constants
  <1>2. \A o \in Orders : ~Kept(c, o)'
    BY DEF Kept
  <1>3. Shape(c)'
    BY <1>2 DEF Shape, Busy, Booking
  <1>4. ShapeOfOrder(c)' /\ ShapeOfOthers(c)' /\ Facts(c)' /\ CashOfSession(c)'
    BY <1>1, <1>2 DEF ShapeOfOrder, ShapeOfOthers, Facts, CashOfSession, Booking
  <1> QED  BY <1>2, <1>3, <1>4

\* What a copy under way holds.
LEMMA CopyHolds ==
    ASSUME Inv, NEW c \in Sessions, sess[c].at = "copy"
    PROVE  /\ c \in Copies /\ sess[c].order = None /\ sess[c].snap = None /\ sess[c].msg = None
           /\ \A o \in Orders : ~Kept(c, o) /\ sess[c].money[o] = None
           /\ sess[c].rows = [o \in Orders |-> None] /\ sess[c].money = [o \in Orders |-> None]
           /\ ~Trading
  <1>1. SessionInv(c)
    BY DEF Inv
  <1>2. c \in Copies /\ \A o \in Orders : ~Kept(c, o)
    BY <1>1 DEF SessionInv, ShapeOfOthers
  <1>3. /\ sess[c].order = None /\ sess[c].snap = None /\ sess[c].msg = None
        /\ \A o \in Orders : sess[c].money[o] = None
    BY <1>1, <1>2 DEF SessionInv, Shape, Busy
  <1>4. ~Trading
    BY <1>2 DEF Trading
  <1>5. sess[c].rows = [o \in Orders |-> None] /\ sess[c].money = [o \in Orders |-> None]
    BY <1>2, <1>3, SessionFields DEF Kept, Inv
  <1> QED  BY <1>2, <1>3, <1>4, <1>5

LEMMA StartCopyStep == ASSUME Inv, NEW c \in Copies, StartCopy(c)  PROVE Inv'
  <1>1. c \in Sessions
    BY Constants
  <1>2. sess[c] = Fresh
    BY <1>1 DEF StartCopy, Inv, SessionInv, Shape
  <1>3. PICK h : h = [x \in Stocks |-> IF AtBroker(x) > 0 THEN AtBroker(x) ELSE None]
    OBVIOUS
  <1>4. \A x \in Stocks : AtBroker(x) \in Int
    <2>1. PICK f : f = [o \in Orders |-> Executed(o)]
      OBVIOUS
    <2>2. f \in Fills
      BY <2>1, Fields, Constants DEF Fills, Inv
    <2> QED  BY <2>1, <2>2, AfterInt DEF AtBroker
  <1>5. h \in [Stocks -> Nat \cup {None}] /\ \A x \in Stocks : h[x] # None => h[x] = AtBroker(x)
    BY <1>3, <1>4
  <1>6. PICK N : N = [Fresh EXCEPT !.at = "copy", !.held = h]
    OBVIOUS
  <1>7. /\ N \in Session
    BY <1>5, <1>6, FreshType DEF Session, Places
  <1>8. /\ N.at = "copy" /\ N.order = None /\ N.snap = None /\ N.msg = None /\ N.held = h
        /\ N.todo = {} /\ N.rows = [o \in Orders |-> None] /\ N.pos = [x \in Stocks |-> None]
        /\ N.view = [o \in Orders |-> None] /\ N.money = [o \in Orders |-> None]
    BY <1>6 DEF Fresh
  <1>9. Step(c, N) /\ emitted' \subseteq Orders
    BY <1>2, <1>3, <1>6 DEF StartCopy, Quiet, Inv, TypeOK
  <1>10. /\ TypeOK' /\ Only(c) /\ Causes' /\ UNCHANGED <<broker, row, position, paid, gone>>
         /\ sess'[c] = N
    BY <1>1, <1>7, <1>8, <1>9, PlainStep DEF StartCopy, Quiet
  <1>11. /\ Shape(c)' /\ ShapeOfOrder(c)' /\ ShapeOfOthers(c)' /\ Facts(c)' /\ CashOfSession(c)'
         /\ \A o \in Orders : ~Kept(c, o)'
    BY <1>8, <1>10, CopyShape
  <1>12. ASSUME NEW x \in Stocks  PROVE PositionOfCopy(c, x)'
    <2>1. AtBroker(x)' = AtBroker(x)
      BY <1>10 DEF AtBroker, Executed, Filled, After, Bought, Sold
    <2> QED  BY <1>5, <1>8, <1>10, <2>1 DEF PositionOfCopy
  <1>13. SessionInv(c)' /\ \A x \in Stocks : sess'[c].pos[x] = None
    BY <1>8, <1>10, <1>11, <1>12 DEF SessionInv
  <1> QED  BY <1>1, <1>10, <1>11, <1>13, OwnStep

LEMMA CopyStep == ASSUME Inv, NEW c \in Sessions, CopyPosition(c)  PROVE Inv'
  <1>1. /\ c \in Copies /\ sess[c].order = None /\ sess[c].snap = None /\ sess[c].msg = None
        /\ sess[c].rows = [o \in Orders |-> None] /\ sess[c].money = [o \in Orders |-> None]
    BY CopyHolds DEF CopyPosition
  <1>2. PICK S \in Session : S = sess[c]
    BY SessionFields DEF Inv
  <1>3. PICK x \in Stocks : x = NextCopied(c) /\ S.held[x] # None
    BY <1>2 DEF CopyPosition, NextCopied, ToCopy
  <1>4. PICK p, h : p = [S.pos EXCEPT ![x] = S.held[x]] /\ h = [S.held EXCEPT ![x] = None]
    OBVIOUS
  <1>5. /\ p \in [Stocks -> Nat \cup {None}] /\ h \in [Stocks -> Nat \cup {None}]
        /\ p[x] = S.held[x] /\ h[x] = None
        /\ \A y \in Stocks : y # x => p[y] = S.pos[y] /\ h[y] = S.held[y]
    BY <1>2, <1>4, SessionFields DEF Inv
  <1>6. PICK N : N = [S EXCEPT !.pos = p, !.held = h]
    OBVIOUS
  <1>7. /\ N \in Session /\ N.at = S.at /\ N.order = S.order /\ N.snap = S.snap /\ N.msg = S.msg
        /\ N.held = h /\ N.todo = S.todo /\ N.rows = S.rows /\ N.pos = p /\ N.view = S.view
        /\ N.money = S.money
    BY <1>5, <1>6 DEF Session
  <1>8. Step(c, N) /\ emitted' \subseteq Orders /\ ~PositionLocked(c, x) /\ S.at = "copy"
    BY <1>2, <1>3, <1>4, <1>6 DEF CopyPosition, Quiet, Inv, TypeOK
  <1>9. /\ TypeOK' /\ Only(c) /\ Causes' /\ UNCHANGED <<broker, row, position, paid, gone>>
        /\ sess'[c] = N
    BY <1>7, <1>8, PlainStep DEF CopyPosition, Quiet
  <1>10. SessionInv(c)
    BY DEF Inv
  <1>11. /\ Shape(c)' /\ ShapeOfOrder(c)' /\ ShapeOfOthers(c)' /\ Facts(c)' /\ CashOfSession(c)'
    <2>1. \A o \in Orders : ~Kept(c, o)' /\ sess'[c].rows[o] = None /\ sess'[c].money[o] = None
      BY <1>1, <1>2, <1>7, <1>9 DEF Kept
    <2>2. /\ sess'[c].at = "copy" /\ sess'[c].order = None /\ sess'[c].snap = None
          /\ sess'[c].msg = None /\ c \notin Orders
      BY <1>1, <1>2, <1>7, <1>8, <1>9, Constants
    <2>3. Shape(c)'
      BY <1>2, <1>7, <1>9, <1>10, <2>1, <2>2 DEF SessionInv, Shape, Kept, Busy, Booking
    <2> QED  BY <1>1, <2>1, <2>2, <2>3
                DEF ShapeOfOrder, ShapeOfOthers, Facts, CashOfSession, Booking
  <1>12. ASSUME NEW y \in Stocks  PROVE PositionOfCopy(c, y)'
    <2>1. AtBroker(y)' = AtBroker(y)
      BY <1>9 DEF AtBroker, Executed, Filled, After, Bought, Sold
    <2>2. PositionOfCopy(c, y)
      BY <1>1, <1>10 DEF SessionInv
    <2>3. /\ h[y] # None => h[y] = AtBroker(y)
          /\ p[y] # None => p[y] = AtBroker(y)
      BY <1>2, <1>3, <1>5, <2>2 DEF PositionOfCopy
    <2> QED  BY <1>7, <1>9, <2>1, <2>3 DEF PositionOfCopy
  <1>13. SessionInv(c)'
    BY <1>1, <1>11, <1>12 DEF SessionInv
  <1>14. /\ \A o \in Orders : Kept(c, o)' => Kept(c, o) \/ ~OrderLocked(c, o)
         /\ \A y \in Stocks : sess'[c].pos[y] # None =>
                                sess[c].pos[y] # None \/ ~PositionLocked(c, y)
    BY <1>2, <1>5, <1>7, <1>8, <1>9 DEF Kept
  <1> QED  BY <1>9, <1>13, <1>14, OwnStep

\* The copy replaces positions; the other sessions go on with what they have.
LEMMA FinishCopyStep == ASSUME Inv, NEW c \in Sessions, FinishCopy(c)  PROVE Inv'
  <1>1. /\ c \in Copies /\ ~Trading
    BY CopyHolds DEF FinishCopy
  <1>2. PICK copied : copied = {x \in Stocks : sess[c].pos[x] # None}
    OBVIOUS
  <1>3. PICK ahead : ahead = {x \in copied : \E o \in Bought(x) \cup Sold(x) : Executed(o) # Shares(o)}
    OBVIOUS
  <1>4. /\ position' = [x \in Stocks |-> Current(c, x)]
        /\ early' = (early \ copied) \cup ahead /\ overwritten' = overwritten \ copied
        /\ Step(c, Ended(c)) /\ UNCHANGED <<row, paid, broker, emitted, short, gone, lost>>
    BY <1>2, <1>3 DEF FinishCopy
  <1>5. /\ sess' \in [Sessions -> Session] /\ sess'[c] = Ended(c)
        /\ \A q \in Sessions : q # c => sess'[q] = sess[q]
    BY <1>4, FreshType, StepType DEF Inv
  <1>6. TypeOK'
    <2>1. position' \in [Stocks -> Nat]
      BY <1>4, SessionFields DEF Inv
    <2>2. overwritten' \subseteq Stocks /\ early' \subseteq Stocks
      BY <1>2, <1>3, <1>4 DEF Inv, TypeOK
    <2> QED  BY <1>4, <1>5, <2>1, <2>2 DEF Inv, TypeOK
  <1>7. ~Trading'
    <2>1. sess'[c].at # "idle"
      BY <1>1, <1>5, Constants DEF Ended, Fresh
    <2> QED  BY <1>1, <2>1 DEF Trading
  <1>8. \A x \in Stocks : AtBroker(x)' = AtBroker(x) /\ Booked(x)' = Booked(x)
    BY <1>4 DEF AtBroker, Booked, Executed, Shares, Filled, After, Bought, Sold
  <1>9. ASSUME NEW x \in Stocks, x \notin Astray'
        PROVE  /\ x \in copied => /\ position'[x] = AtBroker(x)
                                  /\ \A o \in Orders : StockOf[o] = x => Executed(o) = Shares(o)
               /\ x \notin copied => position'[x] = position[x] /\ x \notin Astray
    <2>1. x \in copied => position'[x] = AtBroker(x)
      <3>1. PositionOfCopy(c, x)
        BY <1>1 DEF Inv, SessionInv
      <3> QED  BY <1>2, <1>4, <3>1 DEF PositionOfCopy, Current
    <2>2. x \in copied => x \notin ahead
      BY <1>4, <1>9 DEF Astray
    <2>3. x \in copied => \A o \in Orders : StockOf[o] = x => Executed(o) = Shares(o)
      BY <1>3, <2>2, StockSides
    <2>4. x \notin copied => position'[x] = position[x] /\ x \notin Astray
      BY <1>2, <1>4, <1>9 DEF Astray, Current
    <2> QED  BY <2>1, <2>3, <2>4
  <1>10. ASSUME NEW x \in Stocks, x \notin Astray'  PROVE position'[x] = Booked(x)'
    <2>1. CASE x \in copied
      <3>1. PICK e, b : e = [o \in Orders |-> Executed(o)] /\ b = [o \in Orders |-> Shares(o)]
        OBVIOUS
      <3>2. e \in Fills /\ b \in Fills
        BY <3>1, Fields, Constants DEF Fills, Inv
      <3>3. \A o \in Orders : StockOf[o] = x => e[o] = b[o]
        BY <1>9, <1>10, <2>1, <3>1
      <3>4. After(e, x) = After(b, x)
        BY <3>2, <3>3, AfterSame
      <3> QED  BY <1>8, <1>9, <1>10, <2>1, <3>1, <3>4 DEF AtBroker, Booked
    <2>2. CASE x \notin copied
      <3>1. position[x] = Booked(x)
        BY <1>9, <1>10, <2>2 DEF Inv, BooksInv
      <3> QED  BY <1>8, <1>9, <1>10, <2>2, <3>1
    <2> QED  BY <2>1, <2>2
  <1>11. BooksInv'
    <2>1. \A o \in Orders :
            /\ BrokerSound(o)'
            /\ row'[o] # None => Behind(o, row[o])'
            /\ paid'[o] <= Shares(o)'
            /\ Prices = {TRUE} /\ o \notin gone' => paid'[o] = Shares(o)'
      BY <1>4 DEF Inv, BooksInv, BrokerSound, Behind, Shares
    <2>2. SalesFindTheirShares'
      BY <1>7 DEF SalesFindTheirShares
    <2> QED  BY <1>7, <1>10, <2>1, <2>2 DEF BooksInv
  <1>12. SessionInv(c)'
    BY <1>5, <1>6, <1>11, EndedSound
  <1>13. ASSUME NEW q \in Sessions, q # c  PROVE SessionInv(q)'
    <2>1. sess'[q] = sess[q] /\ SessionInv(q)
      BY <1>5, <1>13 DEF Inv
    <2>2. Shape(q)' /\ ShapeOfOrder(q)' /\ ShapeOfOthers(q)'
      BY <1>4, <2>1 DEF SessionInv, Shape, ShapeOfOrder, ShapeOfOthers, Kept
    <2>3. Facts(q)'
      BY <1>4, <2>1 DEF SessionInv, Facts, Kept, Shares, Before, Behind, Truthful
    <2>4. CashOfSession(q)'
      BY <1>4, <2>1 DEF SessionInv, CashOfSession, Kept, Shares, Moved
    <2>5. ASSUME NEW x \in Stocks, q \in Copies  PROVE PositionOfCopy(q, x)'
      BY <1>8, <2>1, <2>5 DEF SessionInv, PositionOfCopy
    <2>6. ASSUME NEW x \in Stocks, q \notin Copies  PROVE PositionOfSession(q, x)'
      <3>1. PositionOfSession(q, x)
        BY <2>1, <2>6 DEF SessionInv
      <3>2. /\ \A o \in Orders : /\ Counted(q, o)' <=> Counted(q, o)
                                 /\ Kept(q, o)' <=> Kept(q, o)
                                 /\ Shares(o)' = Shares(o)
            /\ Seen(q)' = Seen(q)
        BY <1>4, <2>1 DEF Counted, Kept, Shares, Seen
      <3>3. \A f : After(f, x)' = After(f, x)
        BY DEF After, Bought, Sold
      <3>4. CASE x \notin copied
        BY <1>7, <1>9, <2>1, <3>1, <3>2, <3>3, <3>4 DEF PositionOfSession
      <3>5. CASE x \in copied
        <4>1. sess[q].pos[x] = None
          BY <1>2, <1>13, <3>5 DEF Inv, Exclusive
        <4>2. ASSUME x \notin Astray', NEW o \in Orders, StockOf[o] = x, Counted(q, o)
              PROVE  sess[q].rows[o].filled = Shares(o)
          <5>1. Executed(o) = Shares(o)
            BY <1>9, <3>5, <4>2
          <5>2. Kept(q, o)
            BY <4>2 DEF Counted
          <5>3. /\ broker[o] # None /\ sess[q].rows[o].filled <= broker[o].filled
                /\ sess[q].rows[o].filled >= Shares(o)
            BY <2>1, <5>2 DEF SessionInv, Facts, Behind
          <5>4. /\ sess[q].rows[o].filled \in Int /\ Shares(o) \in Int
                /\ broker[o].filled = Shares(o)
            BY <5>1, <5>2, <5>3, Fields, SessionFields DEF Inv, Executed, Filled
          <5> QED  BY <5>3, <5>4
        <4> QED  BY <1>7, <2>1, <3>1, <3>2, <4>1, <4>2 DEF PositionOfSession
      <3> QED  BY <3>4, <3>5
    <2> QED  BY <2>2, <2>3, <2>4, <2>5, <2>6 DEF SessionInv
  <1>14. Exclusive'
    <2>1. /\ \A o \in Orders : ~Kept(c, o)'
          /\ \A x \in Stocks : sess'[c].pos[x] = None
      BY <1>5 DEF Kept, Ended, Fresh
    <2>2. \A q \in Sessions : q # c => /\ sess'[q] = sess[q]
                                       /\ \A o \in Orders : Kept(q, o)' <=> Kept(q, o)
      BY <1>5 DEF Kept
    <2> QED  BY <2>1, <2>2 DEF Inv, Exclusive
  <1> QED  BY <1>6, <1>11, <1>12, <1>13, <1>14 DEF Inv

-----------------------------------------------------------------------------
(* Commits. *)

\* The other sessions, when one commits what it holds the locks of.
LEMMA CommitOthers ==
    ASSUME Inv, TypeOK', NEW s \in Sessions, Commit(s), NEW q \in Sessions, q # s,
           sess'[q] = sess[q], Trading' => Trading
    PROVE  SessionInv(q)'
  <1>1. SessionInv(q) /\ SessionInv(s) /\ sess[s].at = "next"
    BY DEF Inv, Commit
  <1>2. /\ row' = [o \in Orders |-> IF Kept(s, o) THEN sess[s].rows[o] ELSE row[o]]
        /\ position' = [x \in Stocks |-> Current(s, x)]
        /\ UNCHANGED <<broker, emitted, overwritten, early, short, gone, lost>>
    BY DEF Commit, Kept, Quiet, history
  <1>3. \A o \in Orders : Kept(q, o) => ~Kept(s, o) /\ row'[o] = row[o] /\ Shares(o)' = Shares(o)
    BY <1>2 DEF Inv, Exclusive, Shares
  <1>4. \A o \in Orders : /\ row[o] # None => row'[o] # None
                          /\ ~Kept(s, o) => row'[o] = row[o] /\ Shares(o)' = Shares(o)
    BY <1>2 DEF Kept, Shares
  <1>5. \A o \in Orders : Kept(q, o)' <=> Kept(q, o)
    BY DEF Kept
  <1>6. \A o \in Orders : Shares(o) <= Shares(o)'
    <2>1. ASSUME NEW o \in Orders, Kept(s, o)  PROVE Shares(o) <= Shares(o)'
      <3>1. sess[s].rows[o].filled >= Shares(o) /\ sess[s].rows[o].filled \in Int /\ Shares(o) \in Int
        BY <1>1, <2>1, Fields, SessionFields DEF SessionInv, Facts, Inv
      <3>2. Shares(o)' = sess[s].rows[o].filled
        BY <1>2, <2>1 DEF Shares, Kept
      <3> QED  BY <3>1, <3>2
    <2>2. \A o \in Orders : Shares(o) <= Shares(o)
      BY Fields DEF Inv
    <2>3. ASSUME NEW o \in Orders, ~Kept(s, o)  PROVE Shares(o) <= Shares(o)'
      BY <1>4, <2>2, <2>3
    <2> QED  BY <2>1, <2>3
  <1>7. Shape(q)'
    <2>1. sess[q].at \in Busy => sess[q].order \in Orders
      BY <1>1, SessionFields DEF SessionInv, Shape, Inv
    <2> QED  BY <1>1, <1>4, <1>5, <2>1 DEF SessionInv, Shape, Kept
  <1>8. ShapeOfOrder(q)'
    <2>1. q \in Orders /\ sess[q].at # "done" => ~Kept(s, q)
      BY <1>1 DEF SessionInv, ShapeOfOrder, ShapeOfOthers
    <2> QED  BY <1>1, <1>2, <1>4, <1>5, <2>1 DEF SessionInv, ShapeOfOrder
  <1>9. ShapeOfOthers(q)'
    BY <1>1, <1>4, <1>5 DEF SessionInv, ShapeOfOthers
  <1>10. sess[q].at \in Booking => sess[q].order \in Orders /\ Kept(q, sess[q].order)
    BY BookedOrder
  <1>11. Facts(q)'
    <2>1. /\ sess'[q].at = "apply" => Truthful(sess[q].order, sess[q].snap)'
          /\ sess'[q].msg # None /\ sess'[q].msg.cumulative =>
                Truthful(sess[q].order, sess[q].msg.report)'
      BY <1>1, <1>2 DEF SessionInv, Facts, Truthful, Behind
    <2>2. sess'[q].at \in Booking => /\ Before(q)' = Shares(sess[q].order)'
                                     /\ (sess[q].rows[sess[q].order].filled > Shares(sess[q].order))'
      <3>1. ASSUME sess[q].at \in Booking
            PROVE  /\ Before(q)' = Shares(sess[q].order)'
                   /\ (sess[q].rows[sess[q].order].filled > Shares(sess[q].order))'
        <4>1. PICK o \in Orders : o = sess[q].order /\ Kept(q, o)
          BY <1>10, <3>1
        <4>2. row'[o] = row[o]
          BY <1>3, <4>1
        <4> QED  BY <1>1, <3>1, <4>1, <4>2 DEF SessionInv, Facts, Before, Shares
      <3> QED  BY <3>1
    <2>3. ASSUME NEW o \in Orders, Kept(q, o)'
          PROVE  /\ Behind(o, sess[q].rows[o])' /\ sess'[q].rows[o].filled >= Shares(o)'
                 /\ row'[o] # None => row'[o].status \in Open
      <3>1. row'[o] = row[o] /\ Kept(q, o)
        BY <1>3, <1>5, <2>3
      <3>2. sess'[q].rows[o].filled >= Shares(o)' /\ (row'[o] # None => row'[o].status \in Open)
        BY <1>1, <3>1 DEF SessionInv, Facts, Shares
      <3>3. Behind(o, sess[q].rows[o])'
        BY <1>1, <1>2, <3>1 DEF SessionInv, Facts, Behind
      <3> QED  BY <3>2, <3>3
    <2> QED  BY <2>1, <2>2, <2>3 DEF Facts
  <1>12. CashOfSession(q)'
    BY <1>1, <1>2, <1>3, <1>5 DEF SessionInv, CashOfSession, Moved
  <1>13. ASSUME NEW x \in Stocks, q \in Copies  PROVE PositionOfCopy(q, x)'
    <2>1. AtBroker(x)' = AtBroker(x)
      BY <1>2 DEF AtBroker, Executed, Filled, After, Bought, Sold
    <2> QED  BY <1>1, <1>13, <2>1 DEF SessionInv, PositionOfCopy
  <1>14. ASSUME NEW x \in Stocks, q \notin Copies  PROVE PositionOfSession(q, x)'
    <2>1. PositionOfSession(q, x)
      BY <1>1, <1>14 DEF SessionInv
    <2>2. s \notin Copies
      BY <1>1 DEF SessionInv, ShapeOfOthers
    <2>3. PositionOfSession(s, x)
      BY <1>1, <2>2 DEF SessionInv
    <2>4. PICK f, g, t : f = Seen(q) /\ g = Seen(q)' /\ t = Seen(s)
      OBVIOUS
    <2>5. \A o \in Orders : Counted(q, o)' <=> Counted(q, o)
      BY <1>5 DEF Counted
    <2>6. \A o \in Orders : Counted(q, o) => Kept(q, o)
      BY DEF Counted
    <2>7. \A o \in Orders :
             /\ f[o] = IF Counted(q, o) THEN sess[q].rows[o].filled ELSE Shares(o)
             /\ g[o] = IF Counted(q, o) THEN sess[q].rows[o].filled ELSE Shares(o)'
      BY <2>4, <2>5 DEF Seen
    <2>8. f \in Fills /\ t \in Fills
      BY <2>4, SessionFields DEF Inv
    <2>9. g \in Fills
      <3>1. \A o \in Orders : g[o] \in Nat
        BY <2>6, <2>7, FieldsNext, SessionFields, Constants DEF Inv
      <3>2. g = [o \in Orders |-> g[o]]
        BY <2>4 DEF Seen
      <3> QED  BY <3>1, <3>2 DEF Fills
    <2>10. \A o \in Orders : f[o] <= g[o] /\ t[o] <= g[o] /\ t[o] = Shares(o)'
      <3>1. \A o \in Orders : t[o] = Shares(o)'
        BY <1>1, <1>2, <1>4, <2>4 DEF Seen, Counted, Kept, Shares
      <3>2. ASSUME NEW o \in Orders  PROVE f[o] <= g[o] /\ t[o] <= g[o]
        <4>1. f[o] \in Nat /\ g[o] \in Nat /\ t[o] \in Nat
          BY <2>8, <2>9 DEF Fills
        <4>2. CASE Counted(q, o)
          <5>1. f[o] = g[o]
            BY <2>7, <4>2
          <5>2. Shares(o)' = Shares(o) /\ sess[q].rows[o].filled >= Shares(o)
            BY <1>1, <1>3, <2>6, <4>2 DEF SessionInv, Facts
          <5> QED  BY <2>7, <3>1, <4>1, <4>2, <5>1, <5>2
        <4>3. CASE ~Counted(q, o)
          BY <1>6, <2>7, <3>1, <4>1, <4>3
        <4> QED  BY <4>2, <4>3
      <3> QED  BY <3>1, <3>2
    <2>11. /\ SoldBy(f, x) <= SoldBy(g, x) /\ SoldBy(t, x) <= SoldBy(g, x)
           /\ SoldBy(f, x) \in Int /\ SoldBy(g, x) \in Int /\ SoldBy(t, x) \in Int
           /\ Holding[x] \in Int
      BY <2>8, <2>9, <2>10, SoldGrows, AfterInt
    <2>12. After(Seen(q), x)' = After(g, x) /\ SoldBy(Seen(q), x)' = SoldBy(g, x)
      BY <2>4 DEF After, SoldBy, Bought, Sold
    <2>13. Astray' = Astray
      BY <1>2 DEF Astray
    <2>14. sess'[q].pos[x] # None => \E o \in Orders : StockOf[o] = x /\ Kept(q, o)'
      BY <1>5, <2>1 DEF PositionOfSession
    <2>15. ASSUME x \notin Astray, sess[q].pos[x] # None  PROVE sess[q].pos[x] = After(g, x)
      <3>1. sess[s].pos[x] = None
        BY <2>15 DEF Inv, Exclusive
      <3>2. \A o \in Orders : StockOf[o] = x /\ Kept(s, o) => sess[s].rows[o].filled = Shares(o)
        BY <1>1, <2>3, <2>15, <3>1 DEF PositionOfSession, Counted
      <3>3. \A o \in Orders : StockOf[o] = x => Shares(o)' = Shares(o)
        BY <1>2, <1>4, <3>2 DEF Shares, Kept
      <3>4. \A o \in Orders : StockOf[o] = x => f[o] = g[o]
        BY <2>7, <3>3
      <3>5. After(f, x) = After(g, x)
        BY <2>8, <2>9, <3>4, AfterSame
      <3> QED  BY <2>1, <2>4, <2>15, <3>5 DEF PositionOfSession
    <2>16. ASSUME x \notin Astray, sess[q].pos[x] = None, NEW o \in Orders, StockOf[o] = x,
                  Counted(q, o)
           PROVE  sess[q].rows[o].filled = Shares(o)'
      BY <1>3, <2>1, <2>6, <2>16 DEF PositionOfSession
    <2>17. Trading' => Current(q, x)' >= Holding[x] - SoldBy(g, x)
      <3>1. CASE sess[q].pos[x] # None
        <4>1. Current(q, x)' = Current(q, x) /\ Current(q, x) \in Nat
          BY <3>1, SessionFields DEF Current, Inv
        <4>2. Trading => Current(q, x) >= Holding[x] - SoldBy(f, x)
          BY <2>1, <2>4 DEF PositionOfSession
        <4> QED  BY <2>11, <4>1, <4>2
      <3>2. CASE sess[q].pos[x] = None
        <4>1. Current(q, x)' = Current(s, x) /\ Current(s, x) \in Nat
          BY <1>2, <3>2, SessionFields DEF Current, Inv
        <4>2. Trading => Current(s, x) >= Holding[x] - SoldBy(t, x)
          BY <2>3, <2>4 DEF PositionOfSession
        <4> QED  BY <2>11, <4>1, <4>2
      <3> QED  BY <3>1, <3>2
    <2>18. ASSUME sess[q].at = "write", StockOf[sess[q].order] = x, Trading'
           PROVE  /\ sess[q].base >= Holding[x] - SoldBy(g, x)
                  /\ (\A p \in Orders : StockOf[p] = x => p = sess[q].order) =>
                        sess[q].base = Current(q, x)'
      <3>1. sess[q].base >= Holding[x] - SoldBy(f, x) /\ sess[q].base \in Nat
        BY <2>1, <2>4, <2>18, SessionFields DEF PositionOfSession, Inv
      <3>2. sess[q].base >= Holding[x] - SoldBy(g, x)
        BY <2>11, <3>1
      <3>3. ASSUME \A p \in Orders : StockOf[p] = x => p = sess[q].order
            PROVE  sess[q].base = Current(q, x)'
        <4>1. sess[q].base = Current(q, x)
          BY <2>1, <2>18, <3>3 DEF PositionOfSession
        <4>2. sess[q].order \in Orders /\ Kept(q, sess[q].order)
          BY <1>10, <2>18 DEF Booking
        <4>3. sess[s].pos[x] = None
          BY <1>3, <2>3, <3>3, <4>2 DEF PositionOfSession
        <4>4. position'[x] = position[x]
          BY <1>2, <4>3 DEF Current
        <4> QED  BY <4>1, <4>4 DEF Current
      <3> QED  BY <3>2, <3>3
    <2> QED
      BY <2>5, <2>12, <2>13, <2>14, <2>15, <2>16, <2>17, <2>18 DEF PositionOfSession
  <1> QED  BY <1>7, <1>8, <1>9, <1>11, <1>12, <1>13, <1>14 DEF SessionInv

LEMMA CommitStep == ASSUME Inv, NEW s \in Sessions, Commit(s)  PROVE Inv'
  <1>1. SessionInv(s) /\ sess[s].at = "next"
    BY DEF Inv, Commit
  <1>2. /\ row' = [o \in Orders |-> IF Kept(s, o) THEN sess[s].rows[o] ELSE row[o]]
        /\ position' = [x \in Stocks |-> Current(s, x)]
        /\ paid' = [o \in Orders |-> paid[o] + Moved(s, o)]
        /\ Step(s, Ended(s)) /\ UNCHANGED <<broker, emitted, overwritten, early, short, gone, lost>>
    <2>1. \A o \in Orders : (IF sess[s].money[o] # None THEN paid[o] + sess[s].money[o] ELSE paid[o])
                            = paid[o] + Moved(s, o)
      BY Fields DEF Inv, Moved
    <2> QED  BY <2>1 DEF Commit, Kept, Quiet, history
  <1>3. /\ sess' \in [Sessions -> Session] /\ sess'[s] = Ended(s)
        /\ \A q \in Sessions : q # s => sess'[q] = sess[q]
    BY <1>2, FreshType, StepType DEF Inv
  <1>4. \A o \in Orders : Moved(s, o) \in Nat
    BY SessionFields DEF Inv, Moved
  <1>5. TypeOK'
    <2>1. row' \in [Orders -> Report \cup {None}]
      BY <1>2, Fields, SessionFields DEF Inv, TypeOK
    <2>2. position' \in [Stocks -> Nat]
      BY <1>2, SessionFields DEF Inv
    <2>3. paid' \in [Orders -> Nat]
      BY <1>2, <1>4, Fields DEF Inv
    <2> QED  BY <1>2, <1>3, <2>1, <2>2, <2>3 DEF Inv, TypeOK
  <1>6. s \notin Copies
    BY <1>1 DEF SessionInv, ShapeOfOthers
  <1>7. Trading' => Trading
    BY <1>3, <1>6, Constants DEF Trading
  <1>8. \A o \in Orders : /\ Kept(s, o) => Shares(o)' = sess[s].rows[o].filled
                          /\ ~Kept(s, o) => Shares(o)' = Shares(o) /\ row'[o] = row[o]
                          /\ Kept(s, o) => row'[o] = sess[s].rows[o]
    BY <1>2 DEF Shares, Kept
  <1>9. PICK t : t = Seen(s)
    OBVIOUS
  <1>10. t \in Fills /\ t = [o \in Orders |-> Shares(o)]'
    <2>1. \A o \in Orders : t[o] = Shares(o)'
      BY <1>1, <1>8, <1>9 DEF Seen, Counted
    <2>2. t \in Fills
      BY <1>9, SessionFields DEF Inv
    <2> QED  BY <2>1, <2>2 DEF Fills
  <1>11. ASSUME NEW o \in Orders
         PROVE  /\ BrokerSound(o)'
                /\ row'[o] # None => Behind(o, row[o])'
                /\ paid'[o] <= Shares(o)'
                /\ Prices = {TRUE} /\ o \notin gone' => paid'[o] = Shares(o)'
    <2>1. BrokerSound(o)'
      BY <1>2 DEF Inv, BooksInv, BrokerSound
    <2>2. /\ paid[o] <= Shares(o) /\ (Prices = {TRUE} /\ o \notin gone => paid[o] = Shares(o))
          /\ (row[o] # None => Behind(o, row[o])) /\ paid[o] \in Nat /\ Shares(o) \in Nat
      <3>1. paid[o] \in Nat /\ Shares(o) \in Nat
        BY Fields, Constants DEF Inv
      <3> QED  BY <3>1 DEF Inv, BooksInv
    <2>3. CASE Kept(s, o)
      <3>1. /\ Behind(o, sess[s].rows[o])
            /\ Moved(s, o) <= sess[s].rows[o].filled - Shares(o)
            /\ Prices = {TRUE} /\ o \notin gone => Moved(s, o) = sess[s].rows[o].filled - Shares(o)
        BY <1>1, <2>3 DEF SessionInv, Facts, CashOfSession, Booking
      <3>2. sess[s].rows[o].filled \in Nat
        BY <2>3, SessionFields, Constants DEF Inv
      <3>3. paid'[o] = paid[o] + Moved(s, o) /\ Shares(o)' = sess[s].rows[o].filled
        BY <1>2, <1>8, <2>3
      <3>4. /\ paid'[o] <= Shares(o)'
            /\ Prices = {TRUE} /\ o \notin gone' => paid'[o] = Shares(o)'
        <4>1. PICK p \in Nat, m \in Nat, f \in Nat, h \in Nat :
                p = paid[o] /\ m = Moved(s, o) /\ f = sess[s].rows[o].filled /\ h = Shares(o)
          BY <1>4, <2>2, <3>2
        <4>2. p <= h /\ m <= f - h
          BY <2>2, <3>1, <4>1
        <4>3. p + m <= f
          BY <4>2
        <4>4. Prices = {TRUE} /\ o \notin gone => p = h /\ m = f - h
          BY <2>2, <3>1, <4>1
        <4>5. Prices = {TRUE} /\ o \notin gone => p + m = f
          BY <4>4
        <4>6. paid'[o] = p + m /\ Shares(o)' = f /\ gone' = gone
          BY <1>2, <3>3, <4>1
        <4> QED  BY <4>3, <4>5, <4>6
      <3>5. Behind(o, row[o])'
        BY <1>2, <1>8, <2>3, <3>1 DEF Behind
      <3> QED  BY <2>1, <3>4, <3>5
    <2>4. CASE ~Kept(s, o)
      <3>1. Moved(s, o) = 0
        BY <1>1, <2>4 DEF SessionInv, Shape, Moved
      <3>2. paid'[o] = paid[o] /\ Shares(o)' = Shares(o) /\ row'[o] = row[o]
        BY <1>2, <1>8, <2>2, <2>4, <3>1
      <3> QED  BY <1>2, <2>1, <2>2, <3>2 DEF Behind
    <2> QED  BY <2>3, <2>4
  <1>12. ASSUME NEW x \in Stocks
         PROVE  /\ x \notin Astray' => position'[x] = Booked(x)'
                /\ Trading' => position'[x] >= Holding[x] - SoldBy([o \in Orders |-> Shares(o)], x)'
    <2>1. PositionOfSession(s, x)
      BY <1>1, <1>6 DEF SessionInv
    <2>2. position'[x] = Current(s, x) /\ Astray' = Astray
      BY <1>2 DEF Astray
    <2>3. /\ Booked(x)' = After(t, x)
          /\ SoldBy([o \in Orders |-> Shares(o)], x)' = SoldBy(t, x)
      BY <1>10 DEF Booked, After, SoldBy, Bought, Sold
    <2>4. ASSUME x \notin Astray  PROVE Current(s, x) = After(t, x)
      <3>1. CASE sess[s].pos[x] # None
        BY <1>9, <2>1, <2>4, <3>1 DEF PositionOfSession, Current
      <3>2. CASE sess[s].pos[x] = None
        <4>1. PICK b : b = [o \in Orders |-> Shares(o)]
          OBVIOUS
        <4>2. b \in Fills /\ position[x] = After(b, x)
          BY <2>4, <4>1, Fields, Constants DEF Inv, BooksInv, Booked, Fills
        <4>3. \A o \in Orders : StockOf[o] = x => t[o] = b[o]
          BY <1>9, <2>1, <2>4, <3>2, <4>1 DEF PositionOfSession, Seen
        <4> QED  BY <1>10, <3>2, <4>2, <4>3, AfterSame DEF Current
      <3> QED  BY <3>1, <3>2
    <2>5. Trading => Current(s, x) >= Holding[x] - SoldBy(t, x)
      BY <1>9, <2>1 DEF PositionOfSession
    <2> QED  BY <1>7, <2>2, <2>3, <2>4, <2>5
  <1>13. BooksInv'
    <2>1. Causes'
      <3>1. UNCHANGED history
        BY <1>2 DEF history
      <3> QED  BY <1>7, <3>1, CausesKept
    <2> QED  BY <1>11, <1>12, <2>1 DEF BooksInv, Causes
  <1>14. SessionInv(s)'
    BY <1>3, <1>5, <1>13, EndedSound
  <1>15. \A q \in Sessions : q # s => SessionInv(q)'
    BY <1>3, <1>5, <1>7, CommitOthers
  <1>16. Exclusive'
    <2>1. /\ \A o \in Orders : ~Kept(s, o)'
          /\ \A x \in Stocks : sess'[s].pos[x] = None
      BY <1>3 DEF Kept, Ended, Fresh
    <2>2. \A q \in Sessions : q # s => /\ sess'[q] = sess[q]
                                       /\ \A o \in Orders : Kept(q, o)' <=> Kept(q, o)
      BY <1>3 DEF Kept
    <2> QED  BY <2>1, <2>2 DEF Inv, Exclusive
  <1> QED  BY <1>5, <1>13, <1>14, <1>15, <1>16 DEF Inv

-----------------------------------------------------------------------------
(* The broker moves, and an order is submitted. *)

\* The broker changes an order that works.
LEMMA BrokerStep ==
    ASSUME Inv, NEW o \in Orders, NEW r \in Report, Working(o),
           broker' = [broker EXCEPT ![o] = r], r.priced,
           r.filled = Quantity <=> r.status = "FILLED",
           r.filled >= Filled(o), Trading \/ r.filled = Filled(o),
           UNCHANGED <<row, position, paid, sess, emitted, history, lost>>
    PROVE  Inv'
  <1>1. TypeOK'
    BY DEF Inv, TypeOK, history
  <1>2. broker \in [Orders -> Report \cup {None}] /\ None \notin Report
    BY Constants DEF Inv, TypeOK
  <1>3. broker'[o] = r /\ \A p \in Orders : p # o => broker'[p] = broker[p]
    BY <1>2
  <1>4. \A p \in Orders : BrokerSound(p)
    BY DEF Inv, BooksInv
  <1>5. \A p \in Orders : BrokerSound(p)'
    BY <1>3, <1>4 DEF BrokerSound
  <1>6. ASSUME ~Trading, NEW x \in Stocks  PROVE AtBroker(x)' = AtBroker(x)
    <2>1. \A p \in Orders : Executed(p)' = Executed(p)
      BY <1>2, <1>3, <1>6 DEF Executed, Filled, Working
    <2>2. [p \in Orders |-> Executed(p)]' = [p \in Orders |-> Executed(p)]
      BY <2>1
    <2>3. \A f : After(f, x)' = After(f, x)
      BY DEF After, Bought, Sold
    <2> QED  BY <2>2, <2>3 DEF AtBroker
  <1>7. \A p \in Orders : broker[p] # None =>
          /\ broker'[p] # None /\ broker'[p].filled >= broker[p].filled
          /\ broker[p].status \in Terminal => broker'[p] = broker[p]
    <2>1. broker[o].status \notin Terminal /\ broker'[o] # None
      BY <1>2, <1>3 DEF Working, Open, Terminal
    <2>2. \A p \in Orders : broker[p] # None => broker[p].filled >= broker[p].filled
      BY Fields DEF Inv
    <2> QED  BY <1>3, <2>1, <2>2 DEF Filled
  <1>8. Trading' = Trading
    BY DEF Trading
  <1>9. Only(o) /\ Causes' /\ o \in Sessions
    BY <1>5, <1>6, <1>7, <1>8, CausesKept, Constants DEF Only, BrokerOn, Grown, history
  <1>10. SessionInv(o)' /\ \A p \in Orders : Kept(o, p)' <=> Kept(o, p)
    BY <1>1, <1>9, OthersKept
  <1> QED  BY <1>1, <1>9, <1>10, OwnStep

LEMMA BrokerMovesStep == ASSUME Inv, NEW o \in Orders, BrokerMoves(o)  PROVE Inv'
  <1>1. CASE Working(o)
    <2>1. /\ broker[o].filled \in 0..Quantity /\ broker[o].status \in Open
          /\ Quantity \in Nat /\ Quantity > 0 /\ broker[o] # None
      BY <1>1, Fields, Constants DEF Working, Inv
    <2>2. broker[o].filled # Quantity
      BY <2>1 DEF Inv, BooksInv, BrokerSound, Open
    <2>3. CASE BrokerFills(o)
      <3>1. PICK f : f = broker[o].filled + 1
        OBVIOUS
      <3>2. f \in 0..Quantity /\ f >= broker[o].filled
        BY <2>1, <2>2, <3>1
      <3>3. PICK r : r = [status |-> IF f = Quantity THEN "FILLED" ELSE "PARTIAL",
                          filled |-> f, priced |-> TRUE]
        OBVIOUS
      <3>4. /\ r \in Report /\ r.priced /\ r.filled = f
            /\ r.filled = Quantity <=> r.status = "FILLED"
        BY <3>2, <3>3 DEF Report, Open, Terminal
      <3>5. /\ broker' = [broker EXCEPT ![o] = r] /\ Trading
            /\ UNCHANGED <<row, position, paid, sess, emitted, history, lost>>
        BY <2>3, <3>1, <3>3 DEF BrokerFills, BrokerStatus, BookUnchanged, Filled
      <3> QED  BY <1>1, <3>2, <3>4, <3>5, BrokerStep DEF Filled
    <2>4. CASE BrokerCancels(o) \/ BrokerFails(o)
      <3>1. PICK r : \E st \in {"CANCELLED", "FAILED"} :
                r = [status |-> st, filled |-> broker[o].filled, priced |-> TRUE]
                /\ broker' = [broker EXCEPT ![o] = r]
        BY <2>4 DEF BrokerCancels, BrokerFails, BrokerStatus, Filled
      <3>2. /\ r \in Report /\ r.priced /\ r.filled = broker[o].filled
            /\ r.status # "FILLED"
        BY <2>1, <3>1 DEF Report, Terminal
      <3>3. /\ broker' = [broker EXCEPT ![o] = r]
            /\ UNCHANGED <<row, position, paid, sess, emitted, history, lost>>
        BY <2>4, <3>1 DEF BrokerCancels, BrokerFails, BrokerStatus, BookUnchanged
      <3>4. r.filled >= broker[o].filled
        BY <2>1, <3>2
      <3> QED  BY <1>1, <2>2, <3>2, <3>3, <3>4, BrokerStep DEF Filled
    <2> QED  BY <2>3, <2>4 DEF BrokerMoves
  <1> QED  BY <1>1 DEF BrokerMoves, BrokerFills, BrokerCancels, BrokerFails

LEMMA SubmitStep == ASSUME Inv, NEW s \in Orders, Submit(s)  PROVE Inv'
  <1>1. s \in Sessions /\ s \notin Copies /\ s # None /\ None \notin Report
        /\ Quantity \in Nat /\ Quantity > 0
    BY Constants
  <1>2. SessionInv(s) /\ sess[s] = Fresh /\ sess[s].at = "idle"
    BY <1>1 DEF Inv, Submit, SessionInv, Shape
  <1>3. PICK N : N = [sess[s] EXCEPT !.at = "inserting", !.order = s]
    OBVIOUS
  <1>4. /\ N \in Session /\ N.at = "inserting" /\ N.order = s /\ N.todo = {}
        /\ N.view = [o \in Orders |-> None] /\ N.snap = None /\ N.msg = None
        /\ N.rows = sess[s].rows /\ N.pos = sess[s].pos /\ N.money = sess[s].money
        /\ N.rows = [o \in Orders |-> None] /\ N.money = [o \in Orders |-> None]
    <2>1. PICK S \in Session : S = Fresh
      BY FreshType
    <2>2. N = [S EXCEPT !.at = "inserting", !.order = s]
      BY <1>2, <1>3, <2>1
    <2>3. N \in Session /\ N.at = "inserting" /\ N.order = s /\ N.rows = S.rows
      BY <2>2 DEF Session, Places
    <2>4. /\ N.todo = S.todo /\ N.view = S.view /\ N.snap = S.snap /\ N.msg = S.msg
          /\ N.pos = S.pos /\ N.money = S.money
      BY <2>2 DEF Session
    <2> QED  BY <1>2, <2>1, <2>3, <2>4 DEF Fresh
  <1>5. /\ sess' \in [Sessions -> Session] /\ sess'[s] = N
        /\ \A q \in Sessions : q # s => sess'[q] = sess[q]
    BY <1>1, <1>3, <1>4, StepType DEF Inv, Submit
  <1>6. PICK r : r = [status |-> "SUBMITTED", filled |-> 0, priced |-> TRUE]
    OBVIOUS
  <1>7. /\ r \in Report /\ r.filled = 0 /\ r.priced /\ r.status = "SUBMITTED"
        /\ broker[s] = None /\ broker' = [broker EXCEPT ![s] = r]
        /\ UNCHANGED <<row, position, paid, emitted, history, lost>>
    BY <1>1, <1>6 DEF Report, Open, Terminal, Submit, BookUnchanged
  <1>8. TypeOK'
    BY <1>5, <1>7 DEF Inv, TypeOK, history
  <1>9. /\ broker'[s] = r /\ \A p \in Orders : p # s => broker'[p] = broker[p]
    BY <1>7 DEF Inv, TypeOK
  <1>10. Trading' => Trading
    BY <1>1, <1>5, Constants DEF Trading
  <1>11. BrokerOn
    <2>1. \A p \in Orders : BrokerSound(p)'
      <3>1. \A p \in Orders : BrokerSound(p)
        BY DEF Inv, BooksInv
      <3> QED  BY <1>1, <1>7, <1>9, <3>1 DEF BrokerSound
    <2>2. ASSUME NEW x \in Stocks  PROVE AtBroker(x)' = AtBroker(x)
      <3>1. \A p \in Orders : Executed(p)' = Executed(p)
        BY <1>1, <1>7, <1>9 DEF Executed, Filled
      <3>2. [p \in Orders |-> Executed(p)]' = [p \in Orders |-> Executed(p)]
        BY <3>1
      <3>3. \A f : After(f, x)' = After(f, x)
        BY DEF After, Bought, Sold
      <3> QED  BY <3>2, <3>3 DEF AtBroker
    <2>3. \A p \in Orders : broker[p] # None =>
            broker'[p] = broker[p] /\ broker[p].filled >= broker[p].filled
      BY <1>7, <1>9, Fields DEF Inv
    <2> QED  BY <2>1, <2>2, <2>3 DEF BrokerOn
  <1>12. Only(s)
    BY <1>5, <1>7, <1>10, <1>11 DEF Only, Grown, history
  <1>13. Shape(s)'
    BY <1>1, <1>4, <1>5 DEF Shape, Kept, Busy, Booking
  <1>14. row[s] = None
    BY <1>2 DEF SessionInv, ShapeOfOrder
  <1>15. ShapeOfOrder(s)' /\ ShapeOfOthers(s)'
    BY <1>1, <1>4, <1>5, <1>7, <1>9, <1>14 DEF ShapeOfOrder, ShapeOfOthers, Kept, Booking
  <1>16. sess[s].at \notin Booking /\ sess'[s].at \notin Booking
    BY <1>2, <1>4, <1>5 DEF Booking
  <1> QED
    BY <1>1, <1>4, <1>5, <1>7, <1>8, <1>12, <1>13, <1>15, <1>16, QuietStep

-----------------------------------------------------------------------------
(* The beginning. *)

LEMMA NothingFilled ==
    ASSUME NEW x \in Stocks, NEW f \in Fills, \A o \in Orders : f[o] = 0
    PROVE  After(f, x) = Holding[x] /\ SoldBy(f, x) = 0
  <1>1. ASSUME NEW S, IsFiniteSet(S), S \subseteq Orders  PROVE Sum(f, S) = 0
    <2>1. \A o \in S : f[o] \in Int /\ f[o] = f[o] + f[o]
      BY <1>1
    <2>2. Sum(f, S) = Sum(f, S) + Sum(f, S)
      BY <1>1, <2>1, SumAdds
    <2>3. Sum(f, S) \in Int
      BY <1>1, <2>1, SumInt
    <2>4. PICK k \in Int : k = Sum(f, S)
      BY <2>3
    <2>5. k = k + k
      BY <2>2, <2>4
    <2>6. k = 0
      BY ONLY k \in Int, <2>5
    <2> QED  BY <2>4, <2>6
  <1>2. Sum(f, Bought(x)) = 0 /\ Sum(f, Sold(x)) = 0
    BY <1>1, StockSides
  <1> QED  BY <1>2, StockAssumption DEF After, SoldBy, Sum

LEMMA InitInv == Init => Inv
  <1> SUFFICES ASSUME Init  PROVE Inv
    OBVIOUS
  <1>1. TypeOK
    BY FreshType, StockAssumption, QuantityAssumption DEF Init, TypeOK
  <1>2. \A s \in Sessions : sess[s] = Fresh
    BY DEF Init
  <1>3. \A o \in Orders : row[o] = None /\ broker[o] = None /\ paid[o] = 0 /\ Shares(o) = 0
                          /\ Executed(o) = 0
    BY DEF Init, Shares, Executed
  <1>4. PICK z : z = [o \in Orders |-> Shares(o)]
    OBVIOUS
  <1>5. z \in Fills /\ \A o \in Orders : z[o] = 0
    BY <1>3, <1>4 DEF Fills
  <1>6. \A x \in Stocks : /\ position[x] = Holding[x] /\ Holding[x] \in Nat
                          /\ After(z, x) = Holding[x] /\ SoldBy(z, x) = 0
    BY <1>5, NothingFilled, StockAssumption DEF Init
  <1>7. BooksInv
    <2>1. SalesFindTheirShares /\ overwritten = {}
      BY DEF Init, SalesFindTheirShares
    <2>2. \A o \in Orders : BrokerSound(o) /\ paid[o] <= Shares(o) /\ paid[o] = Shares(o)
      BY <1>3 DEF BrokerSound
    <2>3. ASSUME NEW x \in Stocks
          PROVE  /\ position[x] = Booked(x)
                 /\ position[x] >= Holding[x] - SoldBy([o \in Orders |-> Shares(o)], x)
      BY <1>4, <1>6 DEF Booked
    <2> QED  BY <1>3, <2>1, <2>2, <2>3 DEF BooksInv
  <1>8. ASSUME NEW s \in Sessions  PROVE SessionInv(s)
    <2>1. /\ sess[s] = Fresh /\ sess[s].at = "idle" /\ sess[s].order = None /\ sess[s].todo = {}
          /\ sess[s].snap = None /\ sess[s].msg = None
          /\ sess[s].view = [o \in Orders |-> None] /\ sess[s].rows = [o \in Orders |-> None]
          /\ sess[s].money = [o \in Orders |-> None]
          /\ sess[s].pos = [x \in Stocks |-> None] /\ sess[s].held = [x \in Stocks |-> None]
      BY <1>2 DEF Fresh
    <2>2. \A o \in Orders : ~Kept(s, o) /\ ~Counted(s, o)
      BY <2>1 DEF Kept, Counted
    <2>3. Shape(s)
      BY <2>1, <2>2 DEF Shape, Busy, Booking
    <2>4. ShapeOfOrder(s) /\ ShapeOfOthers(s)
      BY <1>3, <2>1, <2>2 DEF ShapeOfOrder, ShapeOfOthers
    <2>5. Facts(s) /\ CashOfSession(s)
      BY <2>1, <2>2 DEF Facts, CashOfSession, Booking
    <2>6. ASSUME NEW x \in Stocks  PROVE PositionOfSession(s, x) /\ PositionOfCopy(s, x)
      <3>1. Seen(s) = z /\ Current(s, x) = position[x]
        BY <1>4, <2>1, <2>2 DEF Seen, Current
      <3> QED  BY <1>6, <2>1, <2>2, <3>1 DEF PositionOfSession, PositionOfCopy
    <2> QED  BY <2>3, <2>4, <2>5, <2>6 DEF SessionInv
  <1>9. Exclusive
    BY <1>2 DEF Exclusive, Kept, Fresh
  <1> QED  BY <1>1, <1>7, <1>8, <1>9 DEF Inv

LEMMA NextStep == Inv /\ [Next]_vars => Inv'
  <1> SUFFICES ASSUME Inv, [Next]_vars  PROVE Inv'
    OBVIOUS
  <1>1. CASE UNCHANGED vars
    <2>1. TypeOK' /\ broker' = broker /\ Trading' = Trading
      BY <1>1 DEF vars, Inv, TypeOK, Trading
    <2>2. Only(None) /\ Causes'
      BY <1>1, <2>1, BrokerStays, CausesKept DEF vars, Only, Grown, history
    <2>3. sess' = sess /\ Exclusive'
      BY <1>1 DEF vars, Inv, Exclusive, Kept
    <2> QED  BY <2>1, <2>2, <2>3, BooksKept, OthersKept DEF Inv
  <1>2. ASSUME NEW o \in Orders, BrokerMoves(o)  PROVE Inv'
    BY <1>2, BrokerMovesStep
  <1>3. ASSUME NEW s \in Sessions, Start(s)  PROVE Inv'
    BY <1>3, SubmitStep, StartPollStep, CancelStep, StartCopyStep, EventStep DEF Start
  <1>4. ASSUME NEW s \in Sessions, Proceed(s)  PROVE Inv'
    BY <1>4, InsertStep, PushStep, NextOrderStep, LookupStep, QueryStep, ApplyStep, ReadStep,
       WriteStep, AccountStep, CopyStep, FinishCopyStep, CommitStep, BreakStep DEF Proceed
  <1>5. ASSUME NEW s \in Sessions, Crash(s)  PROVE Inv'
    BY <1>5, CrashStep
  <1> QED  BY <1>1, <1>2, <1>3, <1>4, <1>5 DEF Next

LEMMA InvAlways == Spec => []Inv
  BY InitInv, NextStep, PTL DEF Spec

-----------------------------------------------------------------------------
(* What the invariant says. *)

LEMMA TwoCount ==
    ASSUME NEW S, IsFiniteSet(S), NEW a \in S, NEW b \in S, a # b
    PROVE  Cardinality(S) > 1
  <1>1. IsFiniteSet({a}) /\ Cardinality({a}) = 1
    BY FS_Singleton
  <1>2. IsFiniteSet({a} \cup {b}) /\ Cardinality({a} \cup {b}) = 2
    <2>1. b \notin {a}
      OBVIOUS
    <2>2. PICK T : T = {a}
      OBVIOUS
    <2>3. IsFiniteSet(T \cup {b}) /\ Cardinality(T \cup {b}) = Cardinality(T) + 1
      BY <1>1, <2>1, <2>2, FS_AddElement, Zenon
    <2> QED  BY <1>1, <2>2, <2>3
  <1>3. {a} \cup {b} \in SUBSET S
    OBVIOUS
  <1>4. 2 <= Cardinality(S) /\ Cardinality(S) \in Nat
    BY <1>2, <1>3, FS_Subset, FS_CardinalityType
  <1> QED  BY <1>4

LEMMA BooksFromInv == Inv => BooksFollowTheBroker
  <1> SUFFICES ASSUME Inv  PROVE BooksFollowTheBroker
    OBVIOUS
  <1>1. TypeOK /\ BooksInv
    BY DEF Inv
  <1>2. RowNeverAhead
    BY <1>1 DEF BooksInv, Behind, RowNeverAhead
  <1>3. CashMatchesRows
    BY <1>1 DEF BooksInv, Shares, CashMatchesRows
  <1>4. PositionsMatchRows
    BY <1>1 DEF BooksInv, PositionsMatchRows
  <1>5. OverwritingTakesTwo
    <2> SUFFICES ASSUME NEW x \in overwritten, Trading
                 PROVE  Cardinality({o \in Orders : StockOf[o] = x}) > 1
      BY DEF OverwritingTakesTwo
    <2>1. PICK o \in Orders, p \in Orders : o # p /\ StockOf[o] = x /\ StockOf[p] = x
      BY <1>1 DEF BooksInv
    <2>2. PICK S : S = {q \in Orders : StockOf[q] = x}
      OBVIOUS
    <2>3. IsFiniteSet(S) /\ o \in S /\ p \in S
      BY <2>1, <2>2, SessionsAssumption, FS_Subset
    <2>4. Cardinality(S) > 1
      BY <2>1, <2>3, TwoCount
    <2> QED  BY <2>2, <2>4
  <1>6. SalesFindTheirShares
    BY <1>1 DEF BooksInv
  <1> QED  BY <1>1, <1>2, <1>3, <1>4, <1>5, <1>6 DEF BooksFollowTheBroker

\* No row runs ahead of the broker, no fill is paid for twice, and cash and
\* positions agree with the rows but for the causes that the history names,
\* however many orders, polls, callbacks, cancels and copies race, crash or are
\* broken out of a deadlock (apply_broker_snapshot, _sync_fill_to_local).
THEOREM BooksAlwaysFollow == Spec => []BooksFollowTheBroker
  BY InvAlways, BooksFromInv, PTL

-----------------------------------------------------------------------------
(* The contract. *)

\* Only a commit touches the rows and the cash.
LEMMA OnlyCommits ==
    ASSUME [Next]_vars
    PROVE  (row' = row /\ paid' = paid) \/ \E s \in Sessions : Commit(s)
  <1>1. CASE UNCHANGED vars
    BY <1>1 DEF vars
  <1>2. ASSUME NEW o \in Orders, BrokerMoves(o)  PROVE row' = row /\ paid' = paid
    BY <1>2 DEF BrokerMoves, BrokerFills, BrokerCancels, BrokerFails, BrokerStatus, BookUnchanged
  <1>3. ASSUME NEW s \in Sessions, Start(s)  PROVE row' = row /\ paid' = paid
    BY <1>3 DEF Start, Submit, StartPoll, StartCancel, StartCopy, BrokerEvent, PushedEvent,
        BookUnchanged
  <1>4. ASSUME NEW s \in Sessions, Proceed(s), ~Commit(s)  PROVE row' = row /\ paid' = paid
    BY <1>4 DEF Proceed, InsertOrder, PushEvent, NextOrder, Lookup, Query, Apply, ReadPosition,
        WritePosition, UpdateAccount, CopyPosition, FinishCopy, BreakDeadlock, BookUnchanged
  <1>5. ASSUME NEW s \in Sessions, Crash(s)  PROVE row' = row /\ paid' = paid
    BY <1>5 DEF Crash, BookUnchanged
  <1> QED  BY <1>1, <1>2, <1>3, <1>4, <1>5 DEF Next

\* A commit books what its session has written as the contract allows.
LEMMA CommitBooks ==
    ASSUME Prices = {TRUE}, Inv, NEW s \in Sessions, Commit(s)
    PROVE  Contract!Next
  <1>1. SessionInv(s) /\ sess[s].at = "next" /\ TypeOK /\ Quantity \in Nat
    BY Constants DEF Inv, Commit
  <1>2. PICK S : S = {o \in Orders : Kept(s, o)}
    OBVIOUS
  <1>3. PICK new : new = [o \in S |-> [status |-> sess[s].rows[o].status,
                                       filled |-> sess[s].rows[o].filled]]
    OBVIOUS
  <1>4. \A o \in S : /\ o \in Orders /\ sess[s].rows[o] \in Report
                     /\ sess[s].rows[o].status \in Open \cup Terminal
                     /\ sess[s].rows[o].filled \in 0..Quantity
                     /\ new[o].filled = sess[s].rows[o].filled
    <2>1. \A o \in S : o \in Orders /\ sess[s].rows[o] \in Report
      BY <1>1, <1>2, SessionFields
    <2> QED  BY <1>3, <2>1 DEF Report
  <1>5. new \in [S -> Contract!Entry]
    BY <1>3, <1>4 DEF Open, Terminal, Contract!Terminal, Contract!Entry
  <1>6. ASSUME NEW o \in Orders  PROVE Contract!Shares(o) = Shares(o)
    <2>1. CASE row[o] = None
      BY <2>1 DEF Contract!Shares, Shares
    <2>2. CASE row[o] # None
      <3>1. [status |-> row[o].status, filled |-> row[o].filled] # None
        BY <1>1, <2>2, Fields, NoneAssumption
      <3> QED  BY <2>2, <3>1 DEF Contract!Shares, Shares
    <2> QED  BY <2>1, <2>2
  <1>7. PICK cash : cash = [o \in S |-> Moved(s, o)]
    OBVIOUS
  <1>8. ASSUME NEW o \in S
        PROVE  /\ new[o].filled >= Contract!Shares(o)
               /\ Contract!MayMove(o)
               /\ cash[o] \in 0..Quantity
               /\ Contract!MayPay(o, cash[o], new[o].filled - Contract!Shares(o))
    <2>1. Kept(s, o) /\ o \in Orders
      BY <1>2
    <2>2. sess[s].rows[o].filled >= Shares(o) /\ (row[o] # None => row[o].status \in Open)
      BY <1>1, <2>1 DEF SessionInv, Facts
    <2>3. /\ Moved(s, o) <= sess[s].rows[o].filled - Shares(o)
          /\ Moved(s, o) = sess[s].rows[o].filled - Shares(o) \/ (o \in gone /\ Moved(s, o) = 0)
      BY <1>1, <2>1 DEF SessionInv, CashOfSession, Booking
    <2>4. Contract!MayMove(o)
      BY <2>1, <2>2 DEF Contract!MayMove, Contract!Terminal, Open
    <2>5. Contract!MayPay(o, cash[o], new[o].filled - Contract!Shares(o))
      BY <1>4, <1>6, <1>7, <2>1, <2>3 DEF Contract!MayPay
    <2>6. Moved(s, o) \in Nat /\ Shares(o) \in Nat
      BY <1>1, <2>1, SessionFields, Fields DEF Moved
    <2>7. Moved(s, o) \in 0..Quantity
      <3>1. PICK m \in Nat, h \in Nat, f \in 0..Quantity :
              m = Moved(s, o) /\ h = Shares(o) /\ f = sess[s].rows[o].filled
        BY <1>4, <2>6
      <3>2. m <= f - h
        BY <2>3, <3>1
      <3> QED  BY <1>1, <3>1, <3>2
    <2> QED  BY <1>4, <1>6, <1>7, <2>1, <2>2, <2>4, <2>5, <2>7
  <1>9. paid' = [o \in Orders |-> IF o \in S THEN paid[o] + cash[o] ELSE paid[o]]
    <2>1. ASSUME NEW o \in Orders
          PROVE  (IF sess[s].money[o] # None THEN paid[o] + sess[s].money[o] ELSE paid[o])
                 = IF o \in S THEN paid[o] + cash[o] ELSE paid[o]
      <3>1. CASE o \in S
        <4>1. paid[o] \in Nat
          BY <1>1, Fields
        <4> QED  BY <1>7, <3>1, <4>1 DEF Moved
      <3>2. CASE o \notin S
        <4>1. sess[s].money[o] = None
          BY <1>1, <1>2, <3>2 DEF SessionInv, Shape
        <4> QED  BY <3>2, <4>1
      <3> QED  BY <3>1, <3>2
    <2> QED  BY <2>1 DEF Commit
  <1>10. [o \in Orders |-> IF row'[o] = None THEN None
                           ELSE [status |-> row'[o].status, filled |-> row'[o].filled]]
         = [o \in Orders |-> IF o \in S THEN new[o]
                             ELSE [p \in Orders |-> IF row[p] = None THEN None
                                     ELSE [status |-> row[p].status,
                                           filled |-> row[p].filled]][o]]
    <2>1. \A o \in Orders : row'[o] = IF o \in S THEN sess[s].rows[o] ELSE row[o]
      BY <1>2 DEF Commit, Kept
    <2>2. \A o \in S : sess[s].rows[o] # None
      BY <1>2 DEF Kept
    <2>3. \A o \in Orders :
            (IF row'[o] = None THEN None
             ELSE [status |-> row'[o].status, filled |-> row'[o].filled])
            = IF o \in S THEN new[o]
              ELSE IF row[o] = None THEN None
                   ELSE [status |-> row[o].status, filled |-> row[o].filled]
      BY <1>3, <2>1, <2>2
    <2> QED  BY <2>3
  <1>11. S \in SUBSET Orders /\ gone' = gone /\ cash \in [S -> 0..Quantity]
    BY <1>2, <1>7, <1>8 DEF Commit, Quiet, history
  <1>12. Contract!Book(S)
    <2>1. \A o \in S : /\ new[o].filled >= Contract!Shares(o)
                       /\ Contract!MayPay(o, cash[o], new[o].filled - Contract!Shares(o))
      BY <1>8
    <2>2. \A o \in S : Contract!MayMove(o)
      BY <1>8
    <2>3. UNCHANGED gone
      BY <1>11
    <2>4. new \in [S -> Contract!Entry] /\ cash \in [S -> 0..Quantity]
      BY <1>5, <1>11
    <2> QED  BY <1>9, <1>10, <2>1, <2>2, <2>3, <2>4 DEF Contract!Book
  <1> QED  BY <1>11, <1>12 DEF Contract!Next

\* Of the rest, reading the position of a sale is what the contract sees.
LEMMA GoneGrows ==
    ASSUME [Next]_vars, \A s \in Sessions : ~Commit(s), Inv
    PROVE  \E S \in SUBSET Orders : gone' = gone \cup S
  <1>1. ASSUME UNCHANGED vars  PROVE gone' = gone
    BY <1>1 DEF vars
  <1>2. ASSUME NEW o \in Orders, BrokerMoves(o)  PROVE gone' = gone
    BY <1>2 DEF BrokerMoves, BrokerFills, BrokerCancels, BrokerFails, BrokerStatus, history
  <1>3. ASSUME NEW s \in Sessions, Start(s)  PROVE gone' = gone
    BY <1>3 DEF Start, Submit, StartPoll, StartCancel, StartCopy, BrokerEvent, PushedEvent,
        Quiet, history
  <1>4. ASSUME NEW s \in Sessions, Proceed(s), ~Commit(s), ~ReadPosition(s)  PROVE gone' = gone
    BY <1>4 DEF Proceed, InsertOrder, PushEvent, NextOrder, Lookup, Query, Apply,
        WritePosition, UpdateAccount, CopyPosition, FinishCopy, BreakDeadlock, Quiet, history
  <1>5. ASSUME NEW s \in Sessions, Crash(s)  PROVE gone' = gone
    BY <1>5 DEF Crash, history
  <1>6. ASSUME NEW s \in Sessions, ReadPosition(s)
        PROVE  gone' = gone \/ \E o \in Orders : gone' = gone \cup {o}
    <2>1. gone' = gone \/ (sess[s].order \in Sells /\ gone' = gone \cup {sess[s].order})
      BY <1>6 DEF ReadPosition
    <2> QED  BY <2>1, Constants
  <1>7. gone' = gone \/ \E o \in Orders : gone' = gone \cup {o}
    BY <1>1, <1>2, <1>3, <1>4, <1>5, <1>6 DEF Next
  <1>8. ASSUME gone' = gone  PROVE \E S \in SUBSET Orders : gone' = gone \cup S
    <2>1. {} \in SUBSET Orders
      OBVIOUS
    <2> QED  BY <1>8, <2>1
  <1>9. ASSUME NEW o \in Orders, gone' = gone \cup {o}  PROVE \E S \in SUBSET Orders : gone' = gone \cup S
    <2>1. {o} \in SUBSET Orders
      OBVIOUS
    <2> QED  BY <1>9, <2>1
  <1> QED  BY <1>7, <1>8, <1>9

\* Every transaction books its fills as the contract says: forward, within the
\* quantity, and paid for once in the same step, however sessions race or crash
\* (apply_broker_snapshot, _sync_fill_to_local, get_db), as long as the reports
\* of the broker have prices.
THEOREM OrderSyncImplementsFills ==
    ASSUME Prices = {TRUE}
    PROVE  Spec => ImplementsFills
  <1>1. Init => Contract!Init
    BY DEF Init, Contract!Init
  <1>2. Inv /\ [Next]_vars => [Contract!Next]_(Contract!contractVars)
    <2> SUFFICES ASSUME Inv, [Next]_vars  PROVE [Contract!Next]_(Contract!contractVars)
      OBVIOUS
    <2>1. ASSUME NEW s \in Sessions, Commit(s)  PROVE Contract!Next
      BY <2>1, CommitBooks
    <2>2. ASSUME \A s \in Sessions : ~Commit(s)  PROVE Contract!Next
      <3>1. row' = row /\ paid' = paid
        BY <2>2, OnlyCommits
      <3>2. PICK S \in SUBSET Orders : gone' = gone \cup S
        BY <2>2, GoneGrows
      <3>3. Contract!SellNothing(S)
        BY <3>1, <3>2 DEF Contract!SellNothing
      <3> QED  BY <3>2, <3>3 DEF Contract!Next
    <2> QED  BY <2>1, <2>2
  <1> QED  BY <1>1, <1>2, InvAlways, PTL DEF Spec, ImplementsFills, Contract!Spec

=============================================================================
