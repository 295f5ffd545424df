--------------------------- MODULE OrderGatesProofs ---------------------------
(***************************************************************************)
(* Proofs about OrderGates.  First the fuse, for any number of             *)
(* activations, recoveries and orders.  The inductive invariant has four   *)
(* parts: types; what a check has seen against what still stands; which    *)
(* recovery holds or has lifted which record; and why the key is set.      *)
(* Then the risk rules, for any number of orders, stocks and days: what an *)
(* order read before it was decided is still true, unless it was overtaken.*)
(***************************************************************************)
EXTENDS OrderGates, FiniteSetTheorems, SequenceTheorems, WellFoundedInduction, TLAPS

\* A record is there exactly from its activation's commit on.
RowsHaveCommits == \A a \in Activations : record[a] # "none" <=> pc[a] = "activated"

Holds(v, a) == target[v] = a /\ pc[v] \in {"lifted", "cleared"}
Lifted(v, a) == target[v] = a /\ pc[v] = "recovered"

\* The row lock: one recovery at a time holds a record, and it is active.
LiftsExclusive ==
    \A v, w \in Recoveries : \A a \in Activations :
        /\ Holds(v, a) => record[a] = "active"
        /\ Holds(v, a) /\ Holds(w, a) => v = w
        /\ Lifted(v, a) => record[a] = "recovered"
        /\ Lifted(v, a) /\ Lifted(w, a) => v = w

TargetsNamed ==
    \A v \in Recoveries :
        pc[v] \in {"approved", "lifted", "cleared", "recovered", "conflict"}
            => target[v] \in Activations

RecoveredByOne ==
    \A a \in Activations : record[a] = "recovered" => \E v \in Recoveries : Lifted(v, a)

\* What stood when the order came in and still stands is active, and a
\* query that found nothing active leaves nothing of it.
StandingInv ==
    \A c \in Checks :
        /\ pc[c] \in {"entered", "looked"} => standing[c] \subseteq ActiveRecords
        /\ pc[c] = "looked" => saw[c] # "nothing"
        /\ pc[c] = "looked" /\ saw[c] = "inactive" => standing[c] = {}
        /\ pc[c] = "passed" => standing[c] = {}

\* An activation that accounts for a key that is set.
Explains(a) ==
    \/ pc[a] \in {"written", "aborted", "confirmed"}
    \/ record[a] = "active" /\ \A v \in Recoveries : ~(target[v] = a /\ pc[v] = "cleared")

KeyExplained == cache = "active" => \E a \in Activations : Explains(a)

IInv == TypeOK /\ RowsHaveCommits /\ TargetsNamed /\ LiftsExclusive /\ RecoveredByOne
          /\ StandingInv /\ KeyExplained

-----------------------------------------------------------------------------
(* One case per action; StepOf is split once and for all. *)

LEMMA StepCases ==
    ASSUME Next
    PROVE  \/ \E a \in Activations : \/ Begin(a) \/ WriteKey(a)
                                    \/ CommitActivation(a) \/ FailActivation(a)
           \/ \E c \in Checks : \/ EnterOrder(c) \/ CheckRecords(c)
                               \/ CheckKey(c) \/ FailCheck(c)
           \/ \E v \in Recoveries : \/ RecoverLooksAtRecords(v) \/ RecoverLooksAtKey(v)
                                   \/ ConsumeApproval(v) \/ Lift(v) \/ ClearKey(v)
                                   \/ CommitRecovery(v) \/ FailRecovery(v)
           \/ LoseKey
  BY DEF Next, StepOf

LEMMA TypeStep == ASSUME TypeOK, TargetsNamed, [Next]_vars PROVE TypeOK'
  <1> USE SessionsAssumption DEF TypeOK, Goes, Sessions, Readers, stores,
          ActivationSteps, RecoverySteps, CheckSteps
  <1>1. ASSUME NEW a \in Activations,
               Begin(a) \/ WriteKey(a) \/ CommitActivation(a) \/ FailActivation(a)
        PROVE  TypeOK'
    BY <1>1 DEF Begin, WriteKey, CommitActivation, FailActivation, RecordsSay
  <1>2. ASSUME NEW c \in Checks,
               EnterOrder(c) \/ CheckRecords(c) \/ CheckKey(c) \/ FailCheck(c)
        PROVE  TypeOK'
    BY <1>2 DEF EnterOrder, CheckRecords, QueryRecords, CheckKey, FailCheck,
                RecordsSay, ActiveRecords
  <1>3. ASSUME NEW v \in Recoveries,
               \/ RecoverLooksAtRecords(v) \/ RecoverLooksAtKey(v) \/ ConsumeApproval(v)
               \/ Lift(v) \/ ClearKey(v) \/ FailRecovery(v)
        PROVE  TypeOK'
    BY <1>3 DEF RecoverLooksAtRecords, QueryRecords, RecoverLooksAtKey, ConsumeApproval,
                Lift, ClearKey, FailRecovery, RecordsSay
  <1>4. ASSUME NEW v \in Recoveries, CommitRecovery(v) PROVE TypeOK'
    BY <1>4 DEF CommitRecovery, TargetsNamed
  <1>5. CASE LoseKey \/ UNCHANGED vars
    BY <1>5 DEF LoseKey, vars
  <1> QED
    BY <1>1, <1>2, <1>3, <1>4, <1>5, StepCases

\* The row's life and the recoveries that hold or have lifted it.
LEMMA RowStep ==
    ASSUME TypeOK, RowsHaveCommits, TargetsNamed, LiftsExclusive, RecoveredByOne, [Next]_vars
    PROVE  /\ RowsHaveCommits' /\ TargetsNamed'
           /\ LiftsExclusive' /\ RecoveredByOne'
  <1> USE SessionsAssumption DEF TypeOK, Goes, Sessions, Readers, stores, RowsHaveCommits,
          TargetsNamed, LiftsExclusive, RecoveredByOne, Holds, Lifted
  <1>1. ASSUME NEW a \in Activations,
               Begin(a) \/ WriteKey(a) \/ CommitActivation(a) \/ FailActivation(a)
        PROVE  /\ RowsHaveCommits' /\ TargetsNamed' /\ LiftsExclusive' /\ RecoveredByOne'
    <2>1. \A s \in Readers : pc'[s] = pc[s]
      BY <1>1 DEF Begin, WriteKey, CommitActivation, FailActivation
    <2>2. \A b \in Activations : record[b] # "none" => record'[b] = record[b]
      BY <1>1 DEF Begin, WriteKey, CommitActivation, FailActivation
    <2>3. \A b \in Activations : record'[b] # "none" <=> pc'[b] = "activated"
      BY <1>1 DEF Begin, WriteKey, CommitActivation, FailActivation
    <2>4. \A b \in Activations : record'[b] = "recovered" => record[b] = "recovered"
      BY <1>1 DEF Begin, WriteKey, CommitActivation, FailActivation
    <2>5. target' = target
      BY <1>1 DEF Begin, WriteKey, CommitActivation, FailActivation
    <2> QED
      BY <2>1, <2>2, <2>3, <2>4, <2>5
  <1>2. ASSUME NEW c \in Checks,
               EnterOrder(c) \/ CheckRecords(c) \/ CheckKey(c) \/ FailCheck(c)
        PROVE  /\ RowsHaveCommits' /\ TargetsNamed' /\ LiftsExclusive' /\ RecoveredByOne'
    <2>1. record' = record /\ target' = target
      BY <1>2 DEF EnterOrder, CheckRecords, CheckKey, FailCheck
    <2>2. \A s \in Activations \cup Recoveries : pc'[s] = pc[s]
      BY <1>2 DEF EnterOrder, CheckRecords, QueryRecords, CheckKey, FailCheck
    <2> QED
      BY <2>1, <2>2
  <1>3. ASSUME NEW v \in Recoveries,
               \/ RecoverLooksAtRecords(v) \/ RecoverLooksAtKey(v) \/ ConsumeApproval(v)
               \/ FailRecovery(v)
        PROVE  /\ RowsHaveCommits' /\ TargetsNamed' /\ LiftsExclusive' /\ RecoveredByOne'
    <2>1. record' = record
      BY <1>3 DEF RecoverLooksAtRecords, RecoverLooksAtKey, ConsumeApproval, FailRecovery
    <2>2. \A s \in Activations : pc'[s] = pc[s]
      BY <1>3 DEF RecoverLooksAtRecords, QueryRecords, RecoverLooksAtKey, ConsumeApproval,
                  FailRecovery
    <2>3. \A w \in Recoveries : w # v => pc'[w] = pc[w] /\ target'[w] = target[w]
      BY <1>3 DEF RecoverLooksAtRecords, QueryRecords, RecoverLooksAtKey, ConsumeApproval,
                  FailRecovery
    <2>4. /\ pc[v] # "recovered"
          /\ pc'[v] \notin {"lifted", "cleared", "recovered", "conflict"}
          /\ pc'[v] = "approved" => target'[v] \in Activations
      BY <1>3 DEF RecoverLooksAtRecords, QueryRecords, RecoverLooksAtKey, ConsumeApproval,
                  FailRecovery
    <2> QED
      BY <2>1, <2>2, <2>3, <2>4
  <1>4. ASSUME NEW v \in Recoveries, Lift(v) \/ ClearKey(v)
        PROVE  /\ RowsHaveCommits' /\ TargetsNamed' /\ LiftsExclusive' /\ RecoveredByOne'
    <2>1. record' = record /\ target' = target
      BY <1>4 DEF Lift, ClearKey
    <2>2. \A s \in Sessions : s # v => pc'[s] = pc[s]
      BY <1>4 DEF Lift, ClearKey
    <2>3. target[v] \in Activations /\ pc[v] # "recovered"
          /\ pc'[v] \in {"lifted", "cleared", "conflict"}
      BY <1>4 DEF Lift, ClearKey
    <2>4. \A a \in Activations : Holds(v, a)' => record[a] = "active"
      BY <1>4 DEF Lift, ClearKey
    <2>5. \A w \in Recoveries : \A a \in Activations : Holds(v, a)' /\ Holds(w, a) => v = w
      BY <1>4 DEF Lift, ClearKey, Lifting
    <2> QED
      BY <2>1, <2>2, <2>3, <2>4, <2>5
  <1>5. ASSUME NEW v \in Recoveries, CommitRecovery(v)
        PROVE  /\ RowsHaveCommits' /\ TargetsNamed' /\ LiftsExclusive' /\ RecoveredByOne'
    <2>1. target[v] \in Activations /\ Holds(v, target[v]) /\ target' = target
      BY <1>5 DEF CommitRecovery
    <2>2. record[target[v]] = "active" /\ record'[target[v]] = "recovered"
      BY <1>5, <2>1 DEF CommitRecovery
    <2>3. \A a \in Activations : a # target[v] => record'[a] = record[a]
      BY <1>5 DEF CommitRecovery
    <2>4. pc'[v] = "recovered" /\ \A s \in Sessions : s # v => pc'[s] = pc[s]
      BY <1>5 DEF CommitRecovery
    <2>5. RowsHaveCommits' /\ TargetsNamed' /\ RecoveredByOne'
      BY <2>1, <2>2, <2>3, <2>4
    <2>6. LiftsExclusive'
      BY <2>1, <2>2, <2>3, <2>4
    <2> QED
      BY <2>5, <2>6
  <1>6. CASE LoseKey \/ UNCHANGED vars
    BY <1>6 DEF LoseKey, vars
  <1> QED
    BY <1>1, <1>2, <1>3, <1>4, <1>5, <1>6, StepCases

\* What an order has seen: only the sessions of checks and the commits of
\* recoveries and activations matter to it.
LEMMA StandingStep ==
    ASSUME TypeOK, TargetsNamed, StandingInv, [Next]_vars PROVE StandingInv'
  <1> USE SessionsAssumption DEF TypeOK, Goes, Sessions, Readers, stores, StandingInv,
          ActiveRecords
  <1>1. ASSUME NEW a \in Activations,
               Begin(a) \/ WriteKey(a) \/ CommitActivation(a) \/ FailActivation(a)
        PROVE  StandingInv'
    <2>1. ActiveRecords \subseteq ActiveRecords' /\ standing' = standing
      BY <1>1 DEF Begin, WriteKey, CommitActivation, FailActivation
    <2>2. \A c \in Checks : pc'[c] = pc[c] /\ saw'[c] = saw[c]
      BY <1>1 DEF Begin, WriteKey, CommitActivation, FailActivation
    <2> QED
      BY <2>1, <2>2
  <1>2. ASSUME NEW c \in Checks, EnterOrder(c) PROVE StandingInv'
    BY <1>2 DEF EnterOrder
  <1>3. ASSUME NEW c \in Checks, CheckRecords(c) PROVE StandingInv'
    <2>1. saw'[c] # "nothing" /\ (saw'[c] = "inactive" => ActiveRecords = {})
      BY <1>3 DEF CheckRecords, QueryRecords, RecordsSay
    <2> QED
      BY <1>3, <2>1 DEF CheckRecords, QueryRecords
  <1>4. ASSUME NEW c \in Checks, CheckKey(c) PROVE StandingInv'
    <2>1. pc[c] = "looked"
          /\ \/ pc'[c] = "blocked"
             \/ pc'[c] = "passed" /\ \E key \in {cache, "unavailable"} :
                                        Status(saw[c], key) = "inactive"
      BY <1>4 DEF CheckKey, Statuses
    <2>2. saw[c] \in {"active", "inactive", "unavailable"}
      BY <2>1
    <2>3. pc'[c] = "passed" => saw[c] = "inactive"
      BY <2>1, <2>2 DEF Status
    <2> QED
      BY <1>4, <2>1, <2>3 DEF CheckKey
  <1>5. ASSUME NEW c \in Checks, FailCheck(c) PROVE StandingInv'
    BY <1>5 DEF FailCheck
  <1>6. ASSUME NEW v \in Recoveries,
               \/ RecoverLooksAtRecords(v) \/ RecoverLooksAtKey(v) \/ ConsumeApproval(v)
               \/ Lift(v) \/ ClearKey(v) \/ FailRecovery(v)
        PROVE  StandingInv'
    <2>1. record' = record /\ standing' = standing
      BY <1>6 DEF RecoverLooksAtRecords, RecoverLooksAtKey, ConsumeApproval, Lift,
                  ClearKey, FailRecovery
    <2>2. \A c \in Checks : pc'[c] = pc[c] /\ saw'[c] = saw[c]
      BY <1>6 DEF RecoverLooksAtRecords, QueryRecords, RecoverLooksAtKey, ConsumeApproval,
                  Lift, ClearKey, FailRecovery
    <2> QED
      BY <2>1, <2>2
  <1>7. ASSUME NEW v \in Recoveries, CommitRecovery(v) PROVE StandingInv'
    <2>1. ActiveRecords' = ActiveRecords \ {target[v]}
      BY <1>7 DEF CommitRecovery
    <2>2. \A c \in Checks : pc'[c] = pc[c] /\ saw'[c] = saw[c]
      BY <1>7 DEF CommitRecovery
    <2>3. \A c \in Checks :
             standing'[c] = IF pc[c] \in {"entered", "looked"}
                            THEN standing[c] \ {target[v]} ELSE standing[c]
      BY <1>7 DEF CommitRecovery
    <2>4. \A c \in Checks : pc[c] \in {"entered", "looked"}
                              => standing'[c] \subseteq ActiveRecords'
      <3> SUFFICES ASSUME NEW c \in Checks, pc[c] \in {"entered", "looked"}
                   PROVE  standing'[c] \subseteq ActiveRecords'
        OBVIOUS
      <3>1. standing[c] \subseteq ActiveRecords
        OBVIOUS
      <3>2. standing'[c] = standing[c] \ {target[v]}
        BY <2>3
      <3> QED
        BY <2>1, <3>1, <3>2
    <2>5. \A c \in Checks : standing[c] = {} => standing'[c] = {}
      BY <2>3
    <2> HIDE DEF ActiveRecords
    <2> QED
      BY <2>2, <2>4, <2>5
  <1>8. CASE LoseKey \/ UNCHANGED vars
    BY <1>8 DEF LoseKey, vars
  <1> QED
    BY <1>1, <1>2, <1>3, <1>4, <1>5, <1>6, <1>7, <1>8, StepCases

\* The key: a recovery deletes it before its record stops explaining it.
LEMMA KeyStep ==
    ASSUME TypeOK, RowsHaveCommits, TargetsNamed, LiftsExclusive, KeyExplained, [Next]_vars
    PROVE  KeyExplained'
  <1> USE SessionsAssumption DEF TypeOK, Goes, Sessions, Readers, stores, KeyExplained, Explains
  <1>1. ASSUME NEW a \in Activations, Begin(a) PROVE KeyExplained'
    <2>1. \A b \in Activations : Explains(b) => Explains(b)'
      BY <1>1 DEF Begin
    <2> QED
      BY <1>1, <2>1 DEF Begin
  <1>2. ASSUME NEW a \in Activations, WriteKey(a) PROVE KeyExplained'
    <2>1. Explains(a)'
      BY <1>2 DEF WriteKey
    <2> QED
      BY <2>1
  <1>3. ASSUME NEW a \in Activations, CommitActivation(a) PROVE KeyExplained'
    <2>1. Explains(a)'
      BY <1>3 DEF CommitActivation, RowsHaveCommits, LiftsExclusive, Holds
    <2> QED
      BY <2>1
  <1>4. ASSUME NEW a \in Activations, FailActivation(a) PROVE KeyExplained'
    <2>1. \A b \in Activations : Explains(b) => Explains(b)'
      BY <1>4 DEF FailActivation
    <2> QED
      BY <1>4, <2>1 DEF FailActivation
  <1>5. ASSUME NEW c \in Checks,
               EnterOrder(c) \/ CheckRecords(c) \/ CheckKey(c) \/ FailCheck(c)
        PROVE  KeyExplained'
    <2>1. cache' = cache /\ record' = record /\ target' = target
      BY <1>5 DEF EnterOrder, CheckRecords, CheckKey, FailCheck
    <2>2. \A s \in Activations \cup Recoveries : pc'[s] = pc[s]
      BY <1>5 DEF EnterOrder, CheckRecords, QueryRecords, CheckKey, FailCheck
    <2> QED
      BY <2>1, <2>2
  <1>6. ASSUME NEW v \in Recoveries,
               \/ RecoverLooksAtRecords(v) \/ RecoverLooksAtKey(v) \/ ConsumeApproval(v)
               \/ Lift(v) \/ FailRecovery(v)
        PROVE  KeyExplained'
    <2>1. cache' = cache /\ record' = record
      BY <1>6 DEF RecoverLooksAtRecords, RecoverLooksAtKey, ConsumeApproval, Lift, FailRecovery
    <2>2. \A b \in Activations : pc'[b] = pc[b]
      BY <1>6 DEF RecoverLooksAtRecords, QueryRecords, RecoverLooksAtKey, ConsumeApproval,
                  Lift, FailRecovery
    <2>3. \A w \in Recoveries : pc'[w] = "cleared" => pc[w] = "cleared" /\ target'[w] = target[w]
      BY <1>6 DEF RecoverLooksAtRecords, QueryRecords, RecoverLooksAtKey, ConsumeApproval,
                  Lift, FailRecovery
    <2>4. \A b \in Activations : Explains(b) => Explains(b)'
      BY <2>1, <2>2, <2>3
    <2> QED
      BY <2>1, <2>4
  <1>7. ASSUME NEW v \in Recoveries, ClearKey(v) PROVE KeyExplained'
    BY <1>7 DEF ClearKey
  <1>8. ASSUME NEW v \in Recoveries, CommitRecovery(v) PROVE KeyExplained'
    <2>1. \A b \in Activations : Explains(b) => Explains(b)'
      BY <1>8 DEF CommitRecovery
    <2> QED
      BY <1>8, <2>1 DEF CommitRecovery
  <1>9. CASE LoseKey \/ UNCHANGED vars
    BY <1>9 DEF LoseKey, vars
  <1> QED
    BY <1>1, <1>2, <1>3, <1>4, <1>5, <1>6, <1>7, <1>8, <1>9, StepCases

-----------------------------------------------------------------------------
(* The theorems. *)

LEMMA InitInvariant == Init => IInv
  <1> SUFFICES ASSUME Init PROVE IInv
    OBVIOUS
  <1> USE SessionsAssumption, LeftoversAssumption DEF Init
  <1>1. TypeOK
    BY DEF TypeOK, Sessions, Readers, ActivationSteps, RecoverySteps, CheckSteps
  <1>2. RowsHaveCommits /\ TargetsNamed /\ LiftsExclusive /\ RecoveredByOne
    BY DEF Sessions, Readers, RowsHaveCommits, TargetsNamed, LiftsExclusive, RecoveredByOne,
           Holds, Lifted
  <1>3. StandingInv /\ KeyExplained
    BY DEF Sessions, Readers, StandingInv, KeyExplained
  <1> QED
    BY <1>1, <1>2, <1>3 DEF IInv

LEMMA Inductive == GatesSpec => []IInv
  <1>1. IInv /\ [Next]_vars => IInv'
    BY TypeStep, RowStep, StandingStep, KeyStep DEF IInv
  <1>2. IInv /\ [GatesNext]_<<gate, vars, riskVars>> => IInv'
    BY <1>1 DEF GatesNext
  <1>3. GatesInit => IInv
    BY InitInvariant DEF GatesInit
  <1> QED
    BY <1>2, <1>3, PTL DEF GatesSpec

\* The records, the key and every session stay well-typed: no activation
\* inserts a row twice, no recovery names a row that cannot be.
THEOREM TypeCorrect == GatesSpec => []TypeOK
  <1>1. IInv => TypeOK
    BY DEF IInv
  <1> QED
    BY Inductive, <1>1, PTL

\* The fuse fails closed for any number of sessions: an order that passed
\* saw every record that stood when it came in lifted before it looked.
THEOREM FailsClosed == GatesSpec => []StandingFuseStopsOrders
  <1>1. IInv => StandingFuseStopsOrders
    BY DEF IInv, StandingInv, StandingFuseStopsOrders
  <1> QED
    BY Inductive, <1>1, PTL

\* Each record is lifted by one recovery whose approval names it.
THEOREM LiftedOnce == GatesSpec => []OneRecoveryPerRecord
  <1>1. IInv => OneRecoveryPerRecord
    <2> SUFFICES ASSUME IInv PROVE OneRecoveryPerRecord
      OBVIOUS
    <2>1. \A v \in Recoveries : pc[v] = "recovered" => target[v] \in Activations
      BY DEF IInv, TargetsNamed
    <2> QED
      BY <2>1 DEF IInv, LiftsExclusive, RecoveredByOne, Lifted, OneRecoveryPerRecord
  <1> QED
    BY Inductive, <1>1, PTL

\* A key without a record is always some activation's doing that was rolled
\* back, is not committed, or found the fuse active.
THEOREM GhostKeysExplained == GatesSpec => []GhostKeyHasACause
  <1>1. IInv => GhostKeyHasACause
    BY DEF IInv, KeyExplained, Explains, GhostKeyHasACause, ActiveRecords
  <1> QED
    BY Inductive, <1>1, PTL

\* The four together: the fuse is sound for any number of sessions.
THEOREM FuseSound == GatesSpec => []FuseIsSound
  BY TypeCorrect, FailsClosed, LiftedOnce, GhostKeysExplained, PTL DEF FuseIsSound

-----------------------------------------------------------------------------
(* Sums over the stocks.  SumFunctionOnSet chooses a recursive function on *)
(* the subsets; that there is one is shown with a smallest counterexample. *)

Pick(s) == CHOOSE x \in s : TRUE
But(s) == s \ {Pick(s)}
Sum(F, S) == SumFunctionOnSet(F, S)

\* The equation of the recursive function that a sum over S is a value of.
SumsUp(F, S, g) == g = [s \in SUBSET S |-> IF s = {} THEN 0 ELSE F[Pick(s)] + g[But(s)]]
Sums(F, S) == CHOOSE g : SumsUp(F, S, g)

LEMMA SumDef == ASSUME NEW F, NEW S  PROVE Sum(F, S) = Sums(F, S)[S]
  BY DEF Sum, SumFunctionOnSet, FoldFunctionOnSet, MapThenFoldSet, Sums, SumsUp, Pick, But

\* Induction over finite sets, as a smallest counterexample.
LEMMA SmallestSet ==
    ASSUME NEW S, IsFiniteSet(S), NEW B \in SUBSET (SUBSET S), B # {}
    PROVE  \E t \in B : \A u \in SUBSET t : u # t => u \notin B
  <1>1. PICK T : T = {Cardinality(t) : t \in B}
    OBVIOUS
  <1>2. \A t \in SUBSET S : IsFiniteSet(t) /\ Cardinality(t) \in Nat
    BY FS_Subset, FS_CardinalityType
  <1>3. T \in SUBSET Nat /\ T # {}
    BY <1>1, <1>2
  <1>4. PICK x \in T : \A y \in T : <<y, x>> \notin OpToRel(<, Nat)
    BY <1>3, WFMin, NatLessThanWellFounded, Zenon
  <1>5. \A y \in T : ~ (y < x)
    BY <1>3, <1>4, Zenon DEF OpToRel
  <1>6. PICK t \in B : x = Cardinality(t)
    BY <1>1, <1>4
  <1>7. ASSUME NEW u \in SUBSET t, u # t  PROVE u \notin B
    <2>1. Cardinality(u) < Cardinality(t)
      BY <1>2, <1>7, FS_Subset
    <2> QED  BY <1>1, <1>5, <1>6, <2>1
  <1> QED  BY <1>6, <1>7

LEMMA PickBut == ASSUME NEW s, s # {}
                 PROVE  Pick(s) \in s /\ But(s) \in SUBSET s /\ But(s) # s /\ But(s) = s \ {Pick(s)}
  BY DEF Pick, But

LEMMA SumsAgree ==
    ASSUME NEW F, NEW S, IsFiniteSet(S), NEW T \in SUBSET S, NEW g, NEW h,
           SumsUp(F, S, g), SumsUp(F, T, h)
    PROVE  \A t \in SUBSET T : g[t] = h[t]
  <1> SUFFICES ASSUME ~ \A t \in SUBSET T : g[t] = h[t]  PROVE FALSE
    OBVIOUS
  <1>1. PICK B : B = {t \in SUBSET T : g[t] # h[t]}
    OBVIOUS
  <1>2. B \in SUBSET (SUBSET S) /\ B # {}
    BY <1>1
  <1>3. PICK t \in B : \A u \in SUBSET t : u # t => u \notin B
    BY <1>2, SmallestSet
  <1>4. t \in SUBSET T /\ t \in SUBSET S /\ g[t] # h[t]
    BY <1>1
  <1>5. /\ g[t] = IF t = {} THEN 0 ELSE F[Pick(t)] + g[But(t)]
        /\ h[t] = IF t = {} THEN 0 ELSE F[Pick(t)] + h[But(t)]
    BY <1>4 DEF SumsUp
  <1>6. t # {}
    BY <1>4, <1>5
  <1>7. But(t) \in SUBSET T /\ But(t) \notin B
    BY <1>3, <1>4, <1>6, PickBut
  <1> QED  BY <1>1, <1>4, <1>5, <1>7

LEMMA SumsExist == ASSUME NEW F, NEW S, IsFiniteSet(S)  PROVE SumsUp(F, S, Sums(F, S))
  <1> SUFFICES ASSUME ~ SumsUp(F, S, Sums(F, S))  PROVE FALSE
    OBVIOUS
  <1>1. PICK B : B = {s \in SUBSET S : ~ SumsUp(F, s, Sums(F, s))}
    OBVIOUS
  <1>2. B \in SUBSET (SUBSET S) /\ B # {}
    BY <1>1
  <1>3. PICK s \in B : \A u \in SUBSET s : u # s => u \notin B
    BY <1>2, SmallestSet
  <1>4. s \in SUBSET S /\ ~ SumsUp(F, s, Sums(F, s)) /\ IsFiniteSet(s)
    BY <1>1, FS_Subset
  <1>5. \A u \in SUBSET s : u # s => SumsUp(F, u, Sums(F, u))
    BY <1>1, <1>3, <1>4
  <1>6. PICK G : G = [t \in SUBSET s |->
                        IF t = {} THEN 0 ELSE F[Pick(t)] + Sums(F, But(t))[But(t)]]
    OBVIOUS
  <1>7. ASSUME NEW u \in SUBSET s, u # s  PROVE G[u] = Sums(F, u)[u]
    <2>1. Sums(F, u)[u] = IF u = {} THEN 0 ELSE F[Pick(u)] + Sums(F, u)[But(u)]
      BY <1>5, <1>7 DEF SumsUp
    <2>2. CASE u # {}
      <3>1. But(u) \in SUBSET u /\ But(u) \in SUBSET s /\ But(u) # s
        BY <1>7, <2>2, PickBut
      <3>2. SumsUp(F, u, Sums(F, u)) /\ SumsUp(F, But(u), Sums(F, But(u))) /\ IsFiniteSet(u)
        BY <1>4, <1>5, <1>7, <3>1, FS_Subset
      <3>3. Sums(F, u)[But(u)] = Sums(F, But(u))[But(u)]
        BY <3>1, <3>2, SumsAgree
      <3> QED  BY <1>6, <2>1, <2>2, <3>3
    <2> QED  BY <1>6, <2>1, <2>2
  <1>8. \A t \in SUBSET s : t # {} => G[But(t)] = Sums(F, But(t))[But(t)]
    BY <1>7, PickBut
  <1>9. SumsUp(F, s, G)
    BY <1>6, <1>8 DEF SumsUp
  <1> QED  BY <1>4, <1>9 DEF Sums

LEMMA SumEmpty == ASSUME NEW F  PROVE Sum(F, {}) = 0
  <1>1. SumsUp(F, {}, Sums(F, {}))
    BY SumsExist, FS_EmptySet
  <1> QED  BY <1>1, SumDef DEF SumsUp

LEMMA SumPick ==
    ASSUME NEW F, NEW S, IsFiniteSet(S), S # {}
    PROVE  Sum(F, S) = F[Pick(S)] + Sum(F, But(S))
  <1>1. But(S) \in SUBSET S /\ IsFiniteSet(But(S))
    BY PickBut, FS_Subset
  <1>2. SumsUp(F, S, Sums(F, S)) /\ SumsUp(F, But(S), Sums(F, But(S)))
    BY <1>1, SumsExist
  <1>3. Sums(F, S)[But(S)] = Sums(F, But(S))[But(S)]
    BY <1>1, <1>2, SumsAgree
  <1>4. Sums(F, S)[S] = F[Pick(S)] + Sums(F, S)[But(S)]
    BY <1>2 DEF SumsUp
  <1> QED  BY <1>3, <1>4, SumDef

LEMMA SumInt ==
    ASSUME NEW F, NEW S, IsFiniteSet(S), \A x \in S : F[x] \in Int
    PROVE  Sum(F, S) \in Int
  <1> SUFFICES ASSUME Sum(F, S) \notin Int  PROVE FALSE
    OBVIOUS
  <1>1. PICK B : B = {s \in SUBSET S : Sum(F, s) \notin Int}
    OBVIOUS
  <1>2. B \in SUBSET (SUBSET S) /\ B # {}
    BY <1>1
  <1>3. PICK s \in B : \A u \in SUBSET s : u # s => u \notin B
    BY <1>2, SmallestSet
  <1>4. s \in SUBSET S /\ Sum(F, s) \notin Int /\ IsFiniteSet(s)
    BY <1>1, FS_Subset
  <1>5. s # {}
    BY <1>4, SumEmpty
  <1>6. Pick(s) \in S /\ But(s) \in SUBSET S /\ But(s) \notin B
    BY <1>3, <1>4, <1>5, PickBut
  <1>7. Sum(F, But(s)) \in Int /\ F[Pick(s)] \in Int
    BY <1>1, <1>6
  <1> QED  BY <1>4, <1>5, <1>7, SumPick


LEMMA WorthInt ==
    ASSUME NEW lots, NEW at, NEW stocks \in SUBSET Stocks,
           \A s \in Stocks : lots[s] \in Int /\ at[s] \in Int
    PROVE  Worth(lots, stocks, at) \in Int
  <1>1. PICK F : F = [s \in stocks |-> lots[s] * at[s]]
    OBVIOUS
  <1>2. \A s \in stocks : F[s] \in Int
    <2> TAKE s \in stocks
    <2>1. F[s] = lots[s] * at[s] /\ lots[s] \in Int /\ at[s] \in Int
      BY <1>1
    <2> QED  BY <2>1
  <1>3. IsFiniteSet(stocks)
    BY BooksAssumption, FS_Subset
  <1> QED  BY <1>1, <1>2, <1>3, SumInt DEF Worth, Sum

-----------------------------------------------------------------------------
(* The invariant of the risk rules. *)

RowType == [cash : Int, total : Int, pnl : Int]
Session == [pc : {"new", "read", "passed", "blocked", "pending", "booked"},
            side : {"BUY", "SELL"}, stock : Stocks \cup {"none"},
            limit : Nat \cup {NoLimit}, worth : Nat, cash : Int, day : Nat]
AtWork(o) == sess[o].pc \in {"read", "passed"}

RiskTypes ==
    /\ price \in [Stocks -> Nat] /\ shares \in [Stocks -> Nat] /\ mark \in [Stocks -> Int]
    /\ rows \in Seq(RowType) /\ rows # <<>>
    /\ day \in Nat /\ sess \in [Orders -> Session]
    /\ \A o \in Orders : AtWork(o) => sess[o].stock \in Stocks

\* What an order that was not overtaken has read is still so.
ReadingsHold ==
    \A o \in Orders : AtWork(o) /\ o \notin overtaken =>
        /\ sess[o].cash = Account.cash
        /\ sess[o].worth = IF sess[o].limit = NoLimit THEN price[sess[o].stock]
                           ELSE sess[o].limit

\* And the rules it has passed would pass it again.
VerdictsHold ==
    \A o \in Orders : sess[o].pc = "passed" /\ o \notin overtaken =>
        /\ sess[o].side = "BUY" => ~PurchaseBlocked(o)
        /\ ~TooManyOrders

\* What the account showed when a day ended is in a row nobody rewrites.
ClosingsKept ==
    \A c \in closings : \E i \in 1 .. Len(rows) : i # Len(rows) /\ rows[i].total = c

RiskInv == RiskTypes /\ ReadingsHold /\ VerdictsHold /\ ClosingsKept

LEMMA LastRow ==
    ASSUME RiskTypes
    PROVE  /\ Len(rows) \in Nat \ {0} /\ Len(rows) \in 1 .. Len(rows)
           /\ Account = rows[Len(rows)] /\ Account \in RowType
  BY DEF RiskTypes, Account, Last

\* The latest row, written in place.
LEMMA RowRewritten ==
    ASSUME RiskTypes, NEW row \in RowType, rows' = [rows EXCEPT ![Len(rows)] = row]
    PROVE  /\ rows' \in Seq(RowType) /\ rows' # <<>> /\ Len(rows') = Len(rows)
           /\ rows'[Len(rows')] = row
           /\ ClosingsKept /\ closings' = closings => ClosingsKept'
  <1>1. Len(rows) \in Nat \ {0} /\ Len(rows) \in 1 .. Len(rows) /\ rows \in Seq(RowType)
    BY LastRow DEF RiskTypes
  <1>2. /\ rows' \in Seq(RowType) /\ Len(rows') = Len(rows)
        /\ \A i \in 1 .. Len(rows) : rows'[i] = IF i = Len(rows) THEN row ELSE rows[i]
    BY <1>1, ExceptSeq
  <1>3. rows' # <<>> /\ rows'[Len(rows')] = row
    BY <1>1, <1>2
  <1>4. ClosingsKept /\ closings' = closings => ClosingsKept'
    BY <1>1, <1>2 DEF ClosingsKept
  <1> QED  BY <1>2, <1>3, <1>4

LEMMA RecomputedType ==
    ASSUME RiskTypes, NEW cash \in Int, NEW at, NEW lots,
           \A s \in Stocks : lots[s] \in Int /\ at[s] \in Int
    PROVE  /\ Recomputed(cash, at, lots) \in RowType
           /\ Recomputed(cash, at, lots).cash = cash
  <1>1. Account \in RowType
    BY LastRow
  <1>2. PICK w : w = Worth(lots, Stocks, at)
    OBVIOUS
  <1>3. w \in Int /\ cash + w \in Int
    BY <1>2, WorthInt
  <1> QED  BY <1>1, <1>2, <1>3 DEF Recomputed, RowType

LEMMA RiskStarts == RiskInit => RiskInv
  <1> SUFFICES ASSUME RiskInit PROVE RiskInv
    OBVIOUS
  <1>1. price \in [Stocks -> Nat] /\ shares \in [Stocks -> Nat] /\ mark \in [Stocks -> Int]
    <2>1. price = Opening /\ mark = price /\ shares = [s \in Stocks |-> Held]
      BY DEF RiskInit
    <2>2. Opening \in [Stocks -> Nat] /\ Held \in Nat
      BY BooksAssumption, PricesAssumption
    <2>3. [s \in Stocks |-> Held] \in [Stocks -> Nat]
      BY <2>2
    <2> QED  BY <2>1, <2>2, <2>3
  <1>2. PICK worth : worth = ValueOf(Stocks, price)
    OBVIOUS
  <1>3. worth \in Int /\ Capital - worth \in Int
    <2>1. \A s \in Stocks : shares[s] \in Int /\ price[s] \in Int
      BY <1>1
    <2>2. worth \in Int
      BY <1>2, <2>1, WorthInt DEF ValueOf
    <2> QED  BY <2>2, BooksAssumption
  <1>4. PICK row : row = [cash |-> Capital - worth, total |-> Capital, pnl |-> 0]
    OBVIOUS
  <1>5. row \in RowType /\ rows = <<row>>
    BY <1>2, <1>3, <1>4, BooksAssumption DEF RiskInit, RowType
  <1>6. rows \in Seq(RowType) /\ rows # <<>>
    BY <1>5
  <1>7. sess \in [Orders -> Session] /\ \A o \in Orders : sess[o].pc = "new"
    BY DEF RiskInit, Fresh, Session
  <1>8. day \in Nat /\ closings = {}
    BY DEF RiskInit
  <1> QED
    BY <1>1, <1>6, <1>7, <1>8 DEF RiskInv, RiskTypes, AtWork, ReadingsHold, VerdictsHold,
       ClosingsKept

-----------------------------------------------------------------------------
(* Steps of the market and the worker. *)

\* Whoever is under way when a quote moves or a day ends is overtaken.
LEMMA AllOvertaken ==
    ASSUME RiskTypes, sess' = sess, overtaken' = overtaken \cup Underway
    PROVE  ReadingsHold' /\ VerdictsHold'
  <1>1. \A o \in Orders : AtWork(o) => o \in overtaken'
    BY DEF Underway, AtWork
  <1> QED  BY <1>1 DEF ReadingsHold, VerdictsHold, AtWork

LEMMA QuoteMovesStep ==
    ASSUME RiskInv, NEW s \in Stocks, QuoteMoves(s)  PROVE RiskInv'
  <1>1. /\ UNCHANGED <<shares, mark, rows, day, sess, closings>>
        /\ overtaken' = overtaken \cup Underway
    BY DEF QuoteMoves, books
  <1>2. price' \in [Stocks -> Nat]
    BY PricesAssumption DEF QuoteMoves, RiskInv, RiskTypes
  <1>3. RiskTypes'
    BY <1>1, <1>2 DEF RiskInv, RiskTypes, AtWork
  <1>4. ClosingsKept'
    BY <1>1 DEF RiskInv, ClosingsKept
  <1> QED  BY <1>1, <1>3, <1>4, AllOvertaken DEF RiskInv

\* The verdict on an order rests on prices, shares, rows and the order alone.
LEMMA NothingRead ==
    ASSUME RiskInv, UNCHANGED <<price, shares, mark, rows, day, sess, overtaken, closings>>
    PROVE  RiskInv'
  <1>1. RiskTypes'
    BY DEF RiskInv, RiskTypes, AtWork
  <1>2. ReadingsHold'
    BY DEF RiskInv, ReadingsHold, AtWork, Account
  <1>3. VerdictsHold'
    BY DEF RiskInv, VerdictsHold, PurchaseBlocked, SingleTooLarge, TotalTooLarge,
       SectorTooLarge, TooManyOrders, OrdersOf, Total, ValueOf, Value
  <1>4. ClosingsKept'
    BY DEF RiskInv, ClosingsKept
  <1> QED  BY <1>1, <1>2, <1>3, <1>4 DEF RiskInv

LEMMA SyncStep == ASSUME RiskInv, SyncPortfolio  PROVE RiskInv'
  <1>1. UNCHANGED <<price, shares, day, sess, overtaken, closings>>
    BY DEF SyncPortfolio, market
  <1>2. mark' \in [Stocks -> Int]
    <2>1. mark' = [s \in Stocks |-> IF shares[s] > 0 /\ s \notin old THEN price[s] ELSE mark[s]]
      BY DEF SyncPortfolio
    <2> QED  BY <2>1 DEF RiskInv, RiskTypes
  <1>3. PICK row : row = Recomputed(Account.cash, mark', shares)
    OBVIOUS
  <1>4. Account.cash \in Int
    BY LastRow DEF RiskInv, RowType
  <1>5. row \in RowType /\ row.cash = Account.cash
    BY <1>2, <1>3, <1>4, RecomputedType DEF RiskInv, RiskTypes
  <1>6. rows' = [rows EXCEPT ![Len(rows)] = row]
    BY <1>3 DEF SyncPortfolio
  <1>7. /\ rows' \in Seq(RowType) /\ rows' # <<>> /\ rows'[Len(rows')] = row
        /\ ClosingsKept'
    BY <1>1, <1>5, <1>6, RowRewritten DEF RiskInv
  <1>8. RiskTypes'
    BY <1>1, <1>2, <1>7 DEF RiskInv, RiskTypes, AtWork
  <1>9. Account'.cash = Account.cash
    BY <1>5, <1>7 DEF Account, Last
  <1>10. ReadingsHold'
    BY <1>1, <1>9 DEF RiskInv, ReadingsHold, AtWork
  <1>11. VerdictsHold'
    BY <1>1 DEF RiskInv, VerdictsHold, PurchaseBlocked, SingleTooLarge, TotalTooLarge,
       SectorTooLarge, TooManyOrders, OrdersOf, Total, ValueOf, Value
  <1> QED  BY <1>7, <1>8, <1>10, <1>11 DEF RiskInv

\* The snapshot leaves the row of the day behind.
LEMMA SnapshotStep == ASSUME RiskInv, TakeEodSnapshot  PROVE RiskInv'
  <1>1. /\ UNCHANGED <<price, shares, mark, sess>> /\ overtaken' = overtaken \cup Underway
        /\ day' = day + 1 /\ closings' = closings \cup {Account.total}
    BY DEF TakeEodSnapshot, market
  <1>2. PICK row : row = Recomputed(Account.cash, mark, shares)
    OBVIOUS
  <1>3. row \in RowType
    BY <1>2, LastRow, RecomputedType DEF RiskInv, RiskTypes, RowType
  <1>4. rows' = Append(rows, row)
    BY <1>2 DEF TakeEodSnapshot, EodRows
  <1>5. /\ Len(rows) \in Nat \ {0} /\ Account = rows[Len(rows)] /\ rows \in Seq(RowType)
    BY LastRow DEF RiskInv, RiskTypes
  <1>6. /\ rows' \in Seq(RowType) /\ rows' # <<>> /\ Len(rows') = Len(rows) + 1
        /\ \A i \in 1 .. Len(rows) : rows'[i] = rows[i]
    BY <1>3, <1>4, <1>5, AppendProperties
  <1>7. ClosingsKept'
    <2> SUFFICES ASSUME NEW c \in closings'
                 PROVE  \E i \in 1 .. Len(rows') : i # Len(rows') /\ rows'[i].total = c
      BY DEF ClosingsKept
    <2>1. CASE c \in closings
      <3>1. PICK i \in 1 .. Len(rows) : rows[i].total = c
        BY <2>1 DEF RiskInv, ClosingsKept
      <3>2. i \in 1 .. Len(rows') /\ i # Len(rows') /\ rows'[i].total = c
        BY <1>5, <1>6, <3>1
      <3> QED  BY <3>2
    <2>2. CASE c = Account.total
      <3>1. Len(rows) \in 1 .. Len(rows') /\ Len(rows) # Len(rows')
            /\ rows'[Len(rows)].total = c
        BY <1>5, <1>6, <2>2
      <3> QED  BY <3>1
    <2> QED  BY <1>1, <2>1, <2>2
  <1>8. RiskTypes'
    BY <1>1, <1>6 DEF RiskInv, RiskTypes, AtWork
  <1> QED  BY <1>1, <1>7, <1>8, AllOvertaken DEF RiskInv

-----------------------------------------------------------------------------
(* Steps of an order. *)

\* Orders other than o have what they had, and those that were not overtaken
\* have not been overtaken by this step.
LEMMA OneOrder ==
    ASSUME RiskInv, NEW o \in Orders, NEW next \in Session,
           sess' = [sess EXCEPT ![o] = next],
           UNCHANGED <<price, shares, mark, rows, day, closings>>,
           \A q \in Orders \ {o} : q \in overtaken' <=> q \in overtaken,
           next.pc \in {"read", "passed"} => next.stock \in Stocks,
           next.pc \in {"read", "passed"} /\ o \notin overtaken' =>
              /\ next.cash = Account.cash
              /\ next.worth = IF next.limit = NoLimit THEN price[next.stock] ELSE next.limit,
           next.pc \notin {"pending", "booked"}, sess[o].pc \notin {"pending", "booked"},
           next.pc = "passed" /\ o \notin overtaken' =>
              /\ next = [sess[o] EXCEPT !.pc = "passed"]
              /\ next.side = "BUY" => ~PurchaseBlocked(o)
              /\ ~TooManyOrders
    PROVE  RiskInv'
  <1>1. /\ sess'[o] = next /\ \A q \in Orders \ {o} : sess'[q] = sess[q]
        /\ sess' \in [Orders -> Session] /\ sess[o] \in Session
    BY DEF RiskInv, RiskTypes
  <1>2. RiskTypes'
    BY <1>1 DEF RiskInv, RiskTypes, AtWork
  <1>3. ReadingsHold'
    <2> SUFFICES ASSUME NEW q \in Orders, sess'[q].pc \in {"read", "passed"}, q \notin overtaken'
                 PROVE  /\ sess'[q].cash = Account'.cash
                        /\ sess'[q].worth = IF sess'[q].limit = NoLimit
                                            THEN price'[sess'[q].stock] ELSE sess'[q].limit
      BY DEF ReadingsHold, AtWork
    <2>1. Account' = Account
      BY DEF Account
    <2>2. CASE q = o
      BY <1>1, <2>1, <2>2
    <2>3. CASE q # o
      BY <1>1, <2>1, <2>3 DEF RiskInv, ReadingsHold, AtWork
    <2> QED  BY <2>2, <2>3
  <1>4. OrdersOf(day)' = OrdersOf(day)
    BY <1>1 DEF OrdersOf
  <1>5. TooManyOrders' <=> TooManyOrders
    BY <1>4 DEF TooManyOrders
  <1>6. ASSUME NEW q \in Orders,
               sess'[q].stock = sess[q].stock, sess'[q].worth = sess[q].worth,
               sess'[q].cash = sess[q].cash, sess'[q].side = sess[q].side
        PROVE  PurchaseBlocked(q)' <=> PurchaseBlocked(q)
    BY <1>6 DEF PurchaseBlocked, SingleTooLarge, TotalTooLarge, SectorTooLarge, Total,
       ValueOf, Value
  <1>7. VerdictsHold'
    <2> SUFFICES ASSUME NEW q \in Orders, sess'[q].pc = "passed", q \notin overtaken'
                 PROVE  /\ sess'[q].side = "BUY" => ~PurchaseBlocked(q)'
                        /\ ~TooManyOrders'
      BY DEF VerdictsHold
    <2>1. CASE q = o
      <3>1. /\ next = [sess[o] EXCEPT !.pc = "passed"] /\ ~TooManyOrders
            /\ next.side = "BUY" => ~PurchaseBlocked(o)
        BY <1>1, <2>1
      <3>2. /\ next.stock = sess[o].stock /\ next.worth = sess[o].worth
            /\ next.cash = sess[o].cash /\ next.side = sess[o].side
        BY <1>1, <3>1 DEF Session
      <3> QED  BY <1>1, <1>5, <1>6, <2>1, <3>1, <3>2
    <2>2. CASE q # o
      <3>1. sess'[q] = sess[q] /\ q \notin overtaken
        BY <1>1, <2>2
      <3> QED  BY <1>5, <1>6, <3>1 DEF RiskInv, VerdictsHold
    <2> QED  BY <2>1, <2>2
  <1>8. ClosingsKept'
    BY DEF RiskInv, ClosingsKept
  <1> QED  BY <1>2, <1>3, <1>7, <1>8 DEF RiskInv

LEMMA FreshSession ==
    ASSUME NEW step \in {"new", "read", "passed", "blocked", "pending", "booked"}, NEW d \in Nat
    PROVE  /\ [Fresh EXCEPT !.pc = step] \in Session
           /\ [Fresh EXCEPT !.pc = step].pc = step
           /\ [Fresh EXCEPT !.pc = step, !.day = d] \in Session
           /\ [Fresh EXCEPT !.pc = step, !.day = d].pc = step
           /\ [Fresh EXCEPT !.pc = step, !.day = d].day = d
  <1>1. [Fresh EXCEPT !.pc = step] =
           [pc |-> step, side |-> "BUY", stock |-> "none", limit |-> NoLimit,
            worth |-> 0, cash |-> 0, day |-> 0]
    BY DEF Fresh
  <1>2. [Fresh EXCEPT !.pc = step, !.day = d] =
           [pc |-> step, side |-> "BUY", stock |-> "none", limit |-> NoLimit,
            worth |-> 0, cash |-> 0, day |-> d]
    <2>1. PICK f : f = [Fresh EXCEPT !.pc = step]
      OBVIOUS
    <2>2. [Fresh EXCEPT !.pc = step, !.day = d] = [f EXCEPT !.day = d]
      BY <2>1
    <2>3. f = [pc |-> step, side |-> "BUY", stock |-> "none", limit |-> NoLimit,
               worth |-> 0, cash |-> 0, day |-> 0]
      BY <1>1, <2>1
    <2> QED  BY <2>2, <2>3
  <1> QED  BY <1>1, <1>2 DEF Session

LEMMA ReadStep ==
    ASSUME RiskInv, NEW o \in Orders, NEW r \in Requests, ReadQuoteAndAccount(o, r[1], r[2], r[3])
    PROVE  RiskInv'
  <1>1. r[1] \in {"BUY", "SELL"} /\ r[2] \in Stocks /\ r[3] \in Nat \cup {NoLimit}
    BY RequestsAssumption
  <1>2. /\ sess[o].pc = "new" /\ UNCHANGED <<price, shares, mark, rows, day, overtaken, closings>>
    BY DEF ReadQuoteAndAccount, market, books
  <1>3. CASE r[2] \in old \/ aged
    <2>1. sess' = [sess EXCEPT ![o] = [Fresh EXCEPT !.pc = "blocked"]]
      BY <1>3 DEF ReadQuoteAndAccount
    <2>2. PICK next : next = [Fresh EXCEPT !.pc = "blocked"]
      OBVIOUS
    <2>3. next \in Session /\ next.pc = "blocked"
      BY <2>2, FreshSession
    <2> QED  BY <1>2, <2>1, <2>2, <2>3, OneOrder
  <1>4. CASE ~(r[2] \in old \/ aged)
    <2>1. PICK next : next = [pc |-> "read", side |-> r[1], stock |-> r[2], limit |-> r[3],
                              worth |-> IF r[3] = NoLimit THEN price[r[2]] ELSE r[3],
                              cash |-> Account.cash, day |-> day]
      OBVIOUS
    <2>2. sess' = [sess EXCEPT ![o] = next]
      BY <1>4, <2>1 DEF ReadQuoteAndAccount
    <2>3. Account.cash \in Int /\ day \in Nat /\ price[r[2]] \in Nat
      BY <1>1, LastRow DEF RiskInv, RiskTypes, RowType
    <2>4. next \in Session
      BY <1>1, <2>1, <2>3 DEF Session
    <2>5. /\ next.pc = "read" /\ next.stock \in Stocks /\ next.cash = Account.cash
          /\ next.worth = IF next.limit = NoLimit THEN price[next.stock] ELSE next.limit
      BY <1>1, <2>1
    <2> QED  BY <1>2, <2>2, <2>4, <2>5, OneOrder
  <1> QED  BY <1>3, <1>4

LEMMA DecideStep ==
    ASSUME RiskInv, NEW o \in Orders, DecideOrder(o)
    PROVE  RiskInv'
  <1>1. /\ sess[o].pc = "read" /\ UNCHANGED <<price, shares, mark, rows, day, closings>>
        /\ overtaken' = IF sess'[o].pc = "blocked" THEN overtaken \ {o} ELSE overtaken
        /\ \/ /\ ~Blocked(o) /\ sess' = [sess EXCEPT ![o] = [sess[o] EXCEPT !.pc = "passed"]]
           \/ sess' = [sess EXCEPT ![o] = [Fresh EXCEPT !.pc = "blocked"]]
    BY DEF DecideOrder, market, books
  <1>2. sess[o] \in Session /\ sess \in [Orders -> Session] /\ sess[o].stock \in Stocks
    BY <1>1 DEF RiskInv, RiskTypes, AtWork
  <1>3. CASE ~Blocked(o) /\ sess' = [sess EXCEPT ![o] = [sess[o] EXCEPT !.pc = "passed"]]
    <2>1. PICK next : next = [sess[o] EXCEPT !.pc = "passed"]
      OBVIOUS
    <2>2. /\ next \in Session /\ next.pc = "passed" /\ next.stock = sess[o].stock
          /\ next.cash = sess[o].cash /\ next.worth = sess[o].worth
          /\ next.limit = sess[o].limit /\ next.side = sess[o].side
      BY <1>2, <2>1 DEF Session
    <2>3. sess' = [sess EXCEPT ![o] = next] /\ sess'[o] = next
      BY <1>2, <1>3, <2>1
    <2>4. overtaken' = overtaken
      BY <1>1, <2>2, <2>3
    <2>5. (next.side = "BUY" => ~PurchaseBlocked(o)) /\ ~TooManyOrders
      BY <1>3, <2>2 DEF Blocked
    <2>6. o \notin overtaken =>
             /\ sess[o].cash = Account.cash
             /\ sess[o].worth = IF sess[o].limit = NoLimit THEN price[sess[o].stock]
                                ELSE sess[o].limit
      BY <1>1 DEF RiskInv, ReadingsHold, AtWork
    <2>7. o \notin overtaken' =>
             /\ next.cash = Account.cash
             /\ next.worth = IF next.limit = NoLimit THEN price[next.stock] ELSE next.limit
      BY <2>2, <2>4, <2>6
    <2>8. \A q \in Orders \ {o} : q \in overtaken' <=> q \in overtaken
      BY <2>4
    <2>9. next.pc \notin {"pending", "booked"} /\ sess[o].pc \notin {"pending", "booked"}
      BY <1>1, <2>2
    <2> HIDE DEF DecideOrder
    <2> QED  BY <1>1, <1>2, <2>1, <2>2, <2>3, <2>5, <2>7, <2>8, <2>9, OneOrder
  <1>4. CASE sess' = [sess EXCEPT ![o] = [Fresh EXCEPT !.pc = "blocked"]]
    <2>1. PICK next : next = [Fresh EXCEPT !.pc = "blocked"]
      OBVIOUS
    <2>2. next \in Session /\ next.pc = "blocked"
      BY <2>1, FreshSession
    <2>3. \A q \in Orders \ {o} : q \in overtaken' <=> q \in overtaken
      BY <1>1
    <2> QED  BY <1>1, <1>4, <2>1, <2>2, <2>3, OneOrder
  <1> QED  BY <1>1, <1>3, <1>4

LEMMA DropStep ==
    ASSUME RiskInv, NEW o \in Orders, DropOrder(o)
    PROVE  RiskInv'
  <1>1. PICK next : next = [Fresh EXCEPT !.pc = "blocked"]
    OBVIOUS
  <1>2. next \in Session /\ next.pc = "blocked"
    BY <1>1, FreshSession
  <1>3. /\ sess[o].pc = "passed" /\ sess' = [sess EXCEPT ![o] = next]
        /\ overtaken' = overtaken \ {o}
        /\ UNCHANGED <<price, shares, mark, rows, day, closings>>
    BY <1>1 DEF DropOrder, market, books
  <1>4. \A q \in Orders \ {o} : q \in overtaken' <=> q \in overtaken
    BY <1>3
  <1> QED  BY <1>2, <1>3, <1>4, OneOrder

\* An order that ends up in the books has overtaken all that are under way.
LEMMA EndStep ==
    ASSUME RiskInv, NEW o \in Orders, NEW next \in Session,
           sess' = [sess EXCEPT ![o] = next], next.pc \notin {"read", "passed"},
           overtaken' = (overtaken \cup Underway) \ {o},
           RiskTypes', ClosingsKept'
    PROVE  RiskInv'
  <1>1. sess'[o] = next /\ \A q \in Orders \ {o} : sess'[q] = sess[q]
    BY DEF RiskInv, RiskTypes
  <1>2. \A q \in Orders : sess'[q].pc \in {"read", "passed"} => q \in overtaken'
    BY <1>1 DEF Underway
  <1> QED  BY <1>2 DEF RiskInv, ReadingsHold, VerdictsHold, AtWork

LEMMA HangStep ==
    ASSUME RiskInv, NEW o \in Orders, HangOrder(o)
    PROVE  RiskInv'
  <1>1. PICK next : next = [Fresh EXCEPT !.pc = "pending", !.day = day]
    OBVIOUS
  <1>2. next \in Session /\ next.pc = "pending"
    BY <1>1, FreshSession DEF RiskInv, RiskTypes
  <1>3. /\ sess' = [sess EXCEPT ![o] = next]
        /\ overtaken' = (overtaken \cup Underway) \ {o}
        /\ UNCHANGED <<price, shares, mark, rows, day, closings>>
    BY <1>1 DEF HangOrder, market, books
  <1>4. RiskTypes'
    BY <1>2, <1>3 DEF RiskInv, RiskTypes, AtWork
  <1>5. ClosingsKept'
    BY <1>3 DEF RiskInv, ClosingsKept
  <1> QED  BY <1>2, <1>3, <1>4, <1>5, EndStep

LEMMA BookStep ==
    ASSUME RiskInv, NEW o \in Orders, BookOrder(o)
    PROVE  RiskInv'
  <1>1. PICK next : next = [Fresh EXCEPT !.pc = "booked", !.day = day]
    OBVIOUS
  <1>2. next \in Session /\ next.pc = "booked"
    BY <1>1, FreshSession DEF RiskInv, RiskTypes
  <1>3. PICK s, fill, cash, lots :
            /\ s = sess[o].stock /\ fill = FillPrice(o)
            /\ cash = Account.cash + (IF sess[o].side = "BUY" THEN -fill ELSE fill) - Fee
            /\ lots = IF sess[o].side = "BUY" THEN shares[s] + 1 ELSE shares[s] - 1
    OBVIOUS
  <1>4. /\ sess[o].pc = "passed" /\ Covered(o)
        /\ shares' = [shares EXCEPT ![s] = lots] /\ mark' = [mark EXCEPT ![s] = fill]
        /\ rows' = [rows EXCEPT ![Len(rows)] = Recomputed(cash, mark', shares')]
        /\ sess' = [sess EXCEPT ![o] = next]
        /\ overtaken' = (overtaken \cup Underway) \ {o}
        /\ UNCHANGED <<price, day, closings>>
    BY <1>1, <1>3 DEF BookOrder, market
  <1>5. s \in Stocks /\ shares[s] \in Nat /\ price[s] \in Nat
    BY <1>3, <1>4 DEF RiskInv, RiskTypes, AtWork
  <1>6. lots \in Nat
    BY <1>3, <1>4, <1>5 DEF Covered
  <1>7. fill \in Int
    BY <1>3, <1>5, CostsAssumption DEF FillPrice
  <1>8. cash \in Int
    <2>1. Account.cash \in Int
      BY LastRow DEF RiskInv, RowType
    <2> QED  BY <1>3, <1>7, <2>1, CostsAssumption
  <1>9. shares' \in [Stocks -> Nat] /\ mark' \in [Stocks -> Int]
    BY <1>4, <1>5, <1>6, <1>7 DEF RiskInv, RiskTypes
  <1>10. PICK row : row = Recomputed(cash, mark', shares')
    OBVIOUS
  <1>11. row \in RowType
    BY <1>8, <1>9, <1>10, RecomputedType DEF RiskInv
  <1>12. rows' \in Seq(RowType) /\ rows' # <<>> /\ ClosingsKept'
    BY <1>4, <1>10, <1>11, RowRewritten DEF RiskInv
  <1>13. RiskTypes'
    BY <1>2, <1>4, <1>9, <1>12 DEF RiskInv, RiskTypes, AtWork
  <1> QED  BY <1>2, <1>4, <1>12, <1>13, EndStep

LEMMA RiskStep == ASSUME RiskInv, RiskNext  PROVE RiskInv'
  <1>1. ASSUME NEW s \in Quoted, QuoteMoves(s)  PROVE RiskInv'
    BY <1>1, QuoteMovesStep, BooksAssumption
  <1>2. ASSUME NEW s \in Stocks, QuoteAges(s)  PROVE RiskInv'
    BY <1>2, NothingRead DEF QuoteAges, books
  <1>3. CASE AccountAges
    BY <1>3, NothingRead DEF AccountAges, market
  <1>4. ASSUME NEW o \in Orders, NEW r \in Requests, ReadQuoteAndAccount(o, r[1], r[2], r[3])
        PROVE  RiskInv'
    BY <1>4, ReadStep
  <1>5. ASSUME NEW o \in Orders, DecideOrder(o) \/ HangOrder(o) \/ BookOrder(o) \/ DropOrder(o)
        PROVE  RiskInv'
    BY <1>5, DecideStep, HangStep, BookStep, DropStep
  <1> QED  BY <1>1, <1>2, <1>3, <1>4, <1>5, SyncStep, SnapshotStep DEF RiskNext

LEMMA RiskAlways == GatesSpec => []RiskInv
  <1>1. GatesInit => RiskInv
    BY RiskStarts DEF GatesInit
  <1>2. RiskInv /\ [GatesNext]_<<gate, vars, riskVars>> => RiskInv'
    BY RiskStep, NothingRead DEF GatesNext, riskVars, market, books
  <1> QED  BY <1>1, <1>2, PTL DEF GatesSpec

-----------------------------------------------------------------------------
(* What passes keeps the limits. *)

\* A finite set of integers has a largest member.
LEMMA MaxExists ==
    ASSUME NEW S \in SUBSET Int, IsFiniteSet(S), S # {}
    PROVE  Max(S) \in S /\ \A y \in S : Max(S) >= y
  <1> DEFINE HasMax(T) == \E x \in T : \A y \in T : x >= y
  <1>1. HasMax(S)
    <2> SUFFICES ASSUME ~HasMax(S)  PROVE FALSE
      OBVIOUS
    <2>1. PICK B : B = {T \in SUBSET S : T # {} /\ ~HasMax(T)}
      OBVIOUS
    <2>2. B \in SUBSET (SUBSET S) /\ B # {}
      BY <2>1
    <2> HIDE DEF HasMax
    <2>3. PICK T \in B : \A u \in SUBSET T : u # T => u \notin B
      BY <2>2, SmallestSet
    <2>4. T \in SUBSET S /\ T # {} /\ ~HasMax(T)
      BY <2>1
    <2>5. /\ Pick(T) \in T /\ But(T) \in SUBSET T /\ But(T) # T
          /\ T = But(T) \cup {Pick(T)}
      BY <2>4, PickBut DEF But
    <2>6. CASE But(T) = {}
      <3>1. T = {Pick(T)} /\ Pick(T) \in Int
        BY <2>4, <2>5, <2>6
      <3>2. \A y \in T : Pick(T) >= y
        BY <3>1
      <3> QED  BY <2>4, <2>5, <3>2 DEF HasMax
    <2>7. CASE But(T) # {}
      <3>1. HasMax(But(T))
        BY <2>1, <2>3, <2>4, <2>5, <2>7
      <3>2. PICK m \in But(T) : \A y \in But(T) : m >= y
        BY <3>1 DEF HasMax
      <3>3. m \in Int /\ Pick(T) \in Int /\ T \in SUBSET Int
        BY <2>4, <2>5, <3>2
      <3>4. CASE Pick(T) >= m
        <4>1. \A y \in T : Pick(T) >= y
          BY <2>5, <3>2, <3>3, <3>4
        <4> QED  BY <2>4, <2>5, <4>1 DEF HasMax
      <3>5. CASE ~(Pick(T) >= m)
        <4>1. \A y \in T : m >= y
          BY <2>5, <3>2, <3>3, <3>5
        <4> QED  BY <2>4, <2>5, <3>2, <4>1 DEF HasMax
      <3> QED  BY <3>4, <3>5
    <2> QED  BY <2>6, <2>7
  <1> QED  BY <1>1 DEF Max

\* The peak is at least what any row of the account shows.
LEMMA PeakAtLeast ==
    ASSUME RiskTypes, NEW o \in Orders, Total(o) \in Int
    PROVE  /\ Peak(o) \in Int /\ Peak(o) >= Total(o)
           /\ \A i \in 1 .. Len(rows) : rows[i].total \in Int /\ Peak(o) >= rows[i].total
  <1>1. PICK T : T = {rows[i].total : i \in DOMAIN rows}
    OBVIOUS
  <1>2. Len(rows) \in Nat /\ DOMAIN rows = 1 .. Len(rows)
        /\ \A i \in 1 .. Len(rows) : rows[i].total \in Int
    <2>1. rows \in Seq(RowType)
      BY DEF RiskTypes
    <2>2. /\ Len(rows) \in Nat /\ DOMAIN rows = 1 .. Len(rows)
          /\ \A i \in 1 .. Len(rows) : rows[i] \in RowType
      BY <2>1
    <2> QED  BY <2>2 DEF RowType
  <1>3. IsFiniteSet(T)
    <2>1. IsFiniteSet(DOMAIN rows)
      BY <1>2, FS_Interval
    <2>2. PICK f : f = [i \in DOMAIN rows |-> rows[i].total]
      OBVIOUS
    <2>3. f \in Surjection(DOMAIN rows, T)
      BY <1>1, <2>2 DEF Surjection
    <2> QED  BY <2>1, <2>3, FS_Surjection
  <1>4. PICK S : S = T \cup {Total(o)}
    OBVIOUS
  <1>5. IsFiniteSet(S)
    BY <1>3, <1>4, FS_AddElement
  <1>6. S \in SUBSET Int /\ S # {}
    BY <1>1, <1>2, <1>4
  <1>7. Max(S) \in S /\ \A y \in S : Max(S) >= y
    BY <1>5, <1>6, MaxExists
  <1>8. Peak(o) = Max(S)
    BY <1>1, <1>4 DEF Peak
  <1> QED  BY <1>1, <1>2, <1>4, <1>6, <1>7, <1>8

\* What an order that was not overtaken measures is what the account is worth.
LEMMA MeasuredTotal ==
    ASSUME RiskInv, NEW o \in Orders, AtWork(o), o \notin overtaken
    PROVE  /\ Total(o) = Account.cash + ValueOf(Stocks, price)
           /\ Total(o) \in Int
  <1>1. sess[o].cash = Account.cash /\ Account.cash \in Int
    BY LastRow DEF RiskInv, ReadingsHold, RowType
  <1>2. ValueOf(Stocks, price) \in Int
    <2>1. \A s \in Stocks : shares[s] \in Int /\ price[s] \in Int
      BY DEF RiskInv, RiskTypes
    <2> QED  BY <2>1, WorthInt DEF ValueOf
  <1> QED  BY <1>1, <1>2 DEF Total

\* Only its own steps move an order.
LEMMA OwnStep ==
    ASSUME RiskInv, NEW o \in Orders, sess'[o] # sess[o], GatesNext
    PROVE  \/ sess[o].pc = "new"
           \/ DecideOrder(o)
           \/ sess[o].pc = "passed" /\ (HangOrder(o) \/ BookOrder(o) \/ DropOrder(o))
  <1>1. sess \in [Orders -> Session]
    BY DEF RiskInv, RiskTypes
  <1>2. RiskNext
    BY DEF GatesNext, riskVars
  <1>3. ~(\E s \in Quoted : QuoteMoves(s)) /\ ~(\E s \in Stocks : QuoteAges(s))
        /\ ~AccountAges /\ ~SyncPortfolio /\ ~TakeEodSnapshot
    BY DEF QuoteMoves, QuoteAges, AccountAges, SyncPortfolio, TakeEodSnapshot
  <1>4. ASSUME NEW q \in Orders, NEW r \in Requests, ReadQuoteAndAccount(q, r[1], r[2], r[3])
        PROVE  sess[o].pc = "new"
    <2>1. sess[q].pc = "new" /\ \E next : sess' = [sess EXCEPT ![q] = next]
      BY <1>4 DEF ReadQuoteAndAccount
    <2> QED  BY <1>1, <2>1
  <1>5. ASSUME NEW q \in Orders,
               DecideOrder(q) \/ HangOrder(q) \/ BookOrder(q) \/ DropOrder(q)
        PROVE  /\ q = o
               /\ ~DecideOrder(q) => sess[o].pc = "passed"
    <2>1. \E next : sess' = [sess EXCEPT ![q] = next]
      BY <1>5 DEF DecideOrder, HangOrder, BookOrder, DropOrder
    <2>2. q = o
      BY <1>1, <2>1
    <2> QED  BY <1>5, <2>2 DEF HangOrder, BookOrder, DropOrder
  <1> QED  BY <1>2, <1>3, <1>4, <1>5 DEF RiskNext

LEMMA DrawdownStep ==
    ASSUME RiskInv, NEW o \in Orders, GatesNext,
           sess[o].pc = "read", sess'[o].pc = "passed", o \notin overtaken,
           NEW c \in closings
    PROVE  100 * (Account.cash + ValueOf(Stocks, price)) >= (100 - MaxDrawdown) * c
  <1>1. DecideOrder(o) /\ ~Blocked(o)
    <2>1. sess \in [Orders -> Session]
      BY DEF RiskInv, RiskTypes
    <2>2. DecideOrder(o)
      BY OwnStep
    <2>3. CASE Blocked(o)
      <3>1. PICK next : next = [Fresh EXCEPT !.pc = "blocked"]
        OBVIOUS
      <3>2. sess' = [sess EXCEPT ![o] = next]
        BY <2>2, <2>3, <3>1 DEF DecideOrder
      <3>3. sess'[o] = next
        BY <2>1, <3>2
      <3>4. next.pc = "blocked"
        BY <3>1 DEF Fresh
      <3> QED  BY <3>3, <3>4
    <2> QED  BY <2>2, <2>3
  <1>2. ~DrawdownTooLarge(o)
    BY <1>1 DEF Blocked
  <1>3. Total(o) = Account.cash + ValueOf(Stocks, price) /\ Total(o) \in Int
    BY MeasuredTotal DEF AtWork
  <1>4. c \in Int /\ Peak(o) \in Int /\ Peak(o) >= c
    BY <1>3, PeakAtLeast DEF RiskInv, ClosingsKept
  <1>5. PICK t, p, m : t = Total(o) /\ p = Peak(o) /\ m = MaxDrawdown
    OBVIOUS
  <1>6. t \in Int /\ p \in Int /\ m \in 0 .. 100 /\ p >= c
    BY <1>3, <1>4, <1>5, LimitsAssumption
  <1>7. ~(100 * (p - t) > m * p)
    BY <1>2, <1>5 DEF DrawdownTooLarge
  <1>8. (100 - m) * p >= (100 - m) * c
    <2>1. 100 - m \in Nat
      BY <1>6
    <2> QED  BY <1>4, <1>6, <2>1
  <1>9. (100 - m) * p = 100 * p - m * p
    BY <1>6
  <1>10. m * p \in Int /\ (100 - m) * c \in Int
    BY <1>4, <1>6
  <1>11. 100 * t >= (100 - m) * c
    BY <1>4, <1>6, <1>7, <1>8, <1>9, <1>10
  <1> QED  BY <1>3, <1>5, <1>11

\* A part that does not exceed its share of what an account is worth.
LEMMA KeepsShare ==
    ASSUME NEW part \in Int, NEW less \in Int, NEW whole \in Int, NEW percent \in Nat,
           ~Exceeds(part, whole, percent), less <= part
    PROVE  100 * less <= percent * whole
  <1>1. percent * whole \in Int /\ 100 * part <= percent * whole
    BY DEF Exceeds
  <1> QED  BY <1>1

LEMMA LimitsStep ==
    ASSUME RiskInv, NEW o \in Orders, GatesNext,
           sess[o].pc = "passed", sess'[o].pc = "booked", o \notin overtaken,
           NEW s, s = sess[o].stock, NEW assets, assets = Account.cash + ValueOf(Stocks, price),
           NEW peers, peers = {t \in Stocks : SectorOf[t] = SectorOf[s]}
    PROVE  /\ sess[o].side = "BUY" =>
                 /\ 100 * (shares'[s] * price[s]) <= MaxSingle * assets
                 /\ 100 * (ValueOf(Stocks, price) + price[s]) <= MaxTotal * assets
                 /\ 100 * (ValueOf(peers, price) + price[s]) <= MaxSector * assets
           /\ Cardinality(OrdersOf(day)') <= MaxOrders
  <1>1. sess \in [Orders -> Session] /\ shares \in [Stocks -> Nat] /\ price \in [Stocks -> Nat]
        /\ s \in Stocks
    BY DEF RiskInv, RiskTypes, AtWork
  <1>2. BookOrder(o)
    <2>1. PICK hung : hung = [Fresh EXCEPT !.pc = "pending", !.day = day]
      OBVIOUS
    <2>2. PICK lost : lost = [Fresh EXCEPT !.pc = "blocked"]
      OBVIOUS
    <2>3. hung.pc = "pending" /\ lost.pc = "blocked"
      BY <2>1, <2>2, FreshSession DEF RiskInv, RiskTypes
    <2>4. HangOrder(o) => sess'[o] = hung
      BY <1>1, <2>1 DEF HangOrder
    <2>5. DropOrder(o) => sess'[o] = lost
      BY <1>1, <2>2 DEF DropOrder
    <2>6. DecideOrder(o) => sess[o].pc = "read"
      BY DEF DecideOrder
    <2> QED  BY <2>3, <2>4, <2>5, <2>6, OwnStep
  <1>3. PICK next : next = [Fresh EXCEPT !.pc = "booked", !.day = day]
    OBVIOUS
  <1>4. sess' = [sess EXCEPT ![o] = next] /\ day' = day /\ next.day = day
    BY <1>2, <1>3, FreshSession DEF BookOrder, RiskInv, RiskTypes
  <1>5. ~TooManyOrders /\ (sess[o].side = "BUY" => ~PurchaseBlocked(o))
    BY DEF RiskInv, VerdictsHold
  <1>6. Cardinality(OrdersOf(day)') <= MaxOrders
    <2>1. PICK before, after : before = OrdersOf(day) /\ after = OrdersOf(day)'
      OBVIOUS
    <2>2. before \in SUBSET Orders /\ after \in SUBSET (before \cup {o})
      BY <1>1, <1>4, <2>1 DEF OrdersOf
    <2>3. IsFiniteSet(before) /\ IsFiniteSet(before \cup {o})
      BY <2>2, BooksAssumption, FS_Subset, FS_AddElement
    <2>4. /\ Cardinality(before) \in Nat /\ Cardinality(after) \in Nat
          /\ Cardinality(after) <= Cardinality(before \cup {o})
      BY <2>2, <2>3, FS_Subset, FS_CardinalityType
    <2>5. Cardinality(before \cup {o}) <= Cardinality(before) + 1
      <3>1. CASE o \in before
        <4>1. before \cup {o} = before
          BY <3>1
        <4>2. PICK n : n = Cardinality(before)
          OBVIOUS
        <4>3. Cardinality(before \cup {o}) = n
          BY <4>1, <4>2
        <4>4. n \in Nat
          BY <2>4, <4>2
        <4> QED  BY <4>2, <4>3, <4>4
      <3>2. CASE o \notin before
        <4>1. Cardinality(before \cup {o}) = Cardinality(before) + 1
          BY <2>3, <3>2, FS_AddElement
        <4> QED  BY <2>4, <4>1
      <3> QED  BY <3>1, <3>2
    <2>6. ~(Cardinality(before) >= MaxOrders) /\ MaxOrders \in Nat
      BY <1>5, <2>1, LimitsAssumption DEF TooManyOrders
    <2>7. Cardinality(before \cup {o}) \in Nat
      BY <2>3, FS_CardinalityType
    <2> QED  BY <2>1, <2>4, <2>5, <2>6, <2>7
  <1>7. ASSUME sess[o].side = "BUY"
        PROVE  /\ 100 * (shares'[s] * price[s]) <= MaxSingle * assets
               /\ 100 * (ValueOf(Stocks, price) + price[s]) <= MaxTotal * assets
               /\ 100 * (ValueOf(peers, price) + price[s]) <= MaxSector * assets
    <2>1. ~SingleTooLarge(o) /\ ~TotalTooLarge(o) /\ ~SectorTooLarge(o)
      BY <1>5, <1>7 DEF PurchaseBlocked
    <2>2. Total(o) = assets /\ assets \in Int
      BY MeasuredTotal DEF AtWork
    <2>3. PICK n, p, w, all, some :
             /\ n = shares[s] /\ p = price[s] /\ w = sess[o].worth
             /\ all = ValueOf(Stocks, price) /\ some = ValueOf(peers, price)
      OBVIOUS
    <2>4. n \in Nat /\ p \in Nat /\ w \in Nat /\ n * p \in Int
      BY <1>1, <2>3 DEF Session
    <2>5. all \in Int /\ some \in Int
      <3>1. \A t \in Stocks : shares[t] \in Int /\ price[t] \in Int
        BY <1>1
      <3> QED  BY <2>3, <3>1, WorthInt DEF ValueOf
    <2>6. p <= w
      <3>1. sess[o].worth = IF sess[o].limit = NoLimit THEN price[s] ELSE sess[o].limit
        BY DEF RiskInv, ReadingsHold, AtWork
      <3>2. sess[o].limit # NoLimit => price[s] <= sess[o].limit
        BY <1>2, <1>7 DEF BookOrder, Touched
      <3> QED  BY <2>3, <2>4, <3>1, <3>2
    <2>7. shares'[s] = n + 1
      BY <1>1, <1>2, <1>7, <2>3 DEF BookOrder
    <2>8. (n + 1) * p = n * p + p
      BY <2>4
    <2>9. /\ ~Exceeds(n * p + w, assets, MaxSingle)
          /\ ~Exceeds(all + w, assets, MaxTotal)
          /\ ~Exceeds(some + w, assets, MaxSector)
      BY <2>1, <2>2, <2>3 DEF SingleTooLarge, TotalTooLarge, SectorTooLarge, Value
    <2>10. /\ n * p + p <= n * p + w /\ all + p <= all + w /\ some + p <= some + w
           /\ n * p + p \in Int /\ all + p \in Int /\ some + p \in Int
           /\ n * p + w \in Int /\ all + w \in Int /\ some + w \in Int
      BY <2>4, <2>5, <2>6
    <2>11. 100 * (n * p + p) <= MaxSingle * assets
      BY <2>2, <2>9, <2>10, KeepsShare, LimitsAssumption
    <2>12. 100 * (all + p) <= MaxTotal * assets
      BY <2>2, <2>9, <2>10, KeepsShare, LimitsAssumption
    <2>13. 100 * (some + p) <= MaxSector * assets
      BY <2>2, <2>9, <2>10, KeepsShare, LimitsAssumption
    <2> QED  BY <2>3, <2>7, <2>8, <2>11, <2>12, <2>13
  <1> QED  BY <1>6, <1>7

\* A purchase leaves its stock, its sector and the whole position within their
\* limits, and the day within its orders, whatever else was under way, unless
\* something was booked or quoted between its check and its booking
\* (PreTradeRiskChecker.check, SimulationTrader.submit_order): for any number
\* of orders and stocks.
THEOREM LimitsAlwaysKept == GatesSpec => PurchasesKeepLimits
  <1>1. RiskInv /\ [GatesNext]_<<gate, vars, riskVars>> =>
           [\A o \in Orders :
              LET s == sess[o].stock
                  assets == Account.cash + ValueOf(Stocks, price)
                  peers == {t \in Stocks : SectorOf[t] = SectorOf[s]}
                  Keeps(part, percent) == 100 * part <= percent * assets
              IN  /\ sess[o].pc = "passed" /\ sess'[o].pc = "booked"
                  /\ o \notin overtaken
                  => /\ sess[o].side = "BUY" =>
                           /\ Keeps(shares'[s] * price[s], MaxSingle)
                           /\ Keeps(ValueOf(Stocks, price) + price[s], MaxTotal)
                           /\ Keeps(ValueOf(peers, price) + price[s], MaxSector)
                     /\ Cardinality(OrdersOf(day)') <= MaxOrders]_riskVars
    BY LimitsStep
  <1> QED  BY <1>1, RiskAlways, PTL DEF GatesSpec, PurchasesKeepLimits

\* No order passes while the account is worth less than MaxDrawdown below
\* what it showed at the end of any earlier day, for any number of orders,
\* stocks, days and valuations between (get_portfolio_snapshot's peak).
THEOREM DrawdownAlwaysStops == GatesSpec => DrawdownStopsOrders
  <1>1. RiskInv /\ [GatesNext]_<<gate, vars, riskVars>> =>
           [\A o \in Orders :
               Passes(o) /\ o \notin overtaken =>
                  LET assets == Account.cash + ValueOf(Stocks, price)
                  IN  \A c \in closings :
                         100 * assets >= (100 - MaxDrawdown) * c]_riskVars
    BY DrawdownStep DEF Passes
  <1> QED  BY <1>1, RiskAlways, PTL DEF GatesSpec, DrawdownStopsOrders

=============================================================================
