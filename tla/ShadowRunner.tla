---------------------------- MODULE ShadowRunner ----------------------------
(* The test-only shadow run (app/shadow): the fixture provider's batches,   *)
(* the checks TestOnlyShadowRunner.execute makes on a batch, and what of it *)
(* is visible at an information cutoff.  Times are seconds; a hash is TRUE  *)
(* when it is the hash of what it stands for.                               *)
EXTENDS Integers, Sequences, FiniteSets, FiniteSetsExt

MaxAge == 60
Unknown == -1000000   \* an available_at that is missing

Scenarios ==
    {"normal", "missing", "stale", "hash_mismatch", "time_regression",
     "available_at_missing", "lineage_missing", "row_hash_mismatch", "duplicate",
     "row_time_regression", "manifest_hash_mismatch"}

Bar(at, close) == [at |-> at, seen |-> at, close |-> close, row |-> TRUE, lineage |-> TRUE]

\* The three bars of a cutoff, the last of them after it.
ShadowBars(cutoff, future) ==
    <<Bar(cutoff - 120, 1000), Bar(cutoff - 60, 1050), Bar(cutoff + 60, future)>>

\* TestOnlyFixtureProvider.load.
Load(cutoff, scenario, future) ==
    LET b == ShadowBars(cutoff, future)
        late == [i \in 1 .. 3 |-> Bar(b[i].at - 3600, b[i].close)]
        swapped == scenario = "time_regression"
    IN [bars |->
          CASE scenario = "missing" -> <<>>
            [] scenario = "stale" -> late
            [] scenario = "available_at_missing" -> [b EXCEPT ![1].seen = Unknown]
            [] scenario = "lineage_missing" -> [b EXCEPT ![1].lineage = FALSE]
            [] scenario = "row_hash_mismatch" -> [b EXCEPT ![1].row = FALSE]
            [] scenario = "duplicate" -> <<b[1], b[2], b[2], b[3]>>
            [] scenario = "row_time_regression" -> <<b[2], b[1], b[3]>>
            [] OTHER -> b,
        fetched  |-> cutoff - (IF swapped THEN 1 ELSE 2),
        received |-> cutoff - (IF swapped THEN 2 ELSE 1),
        content  |-> scenario # "hash_mismatch",
        manifest |-> scenario # "manifest_hash_mismatch"]

\* The places of the bars the run may use.
Visible(batch, cutoff) ==
    {i \in DOMAIN batch.bars : batch.bars[i].seen <= cutoff /\ batch.bars[i].at <= cutoff}

\* The checks on each bar, and on it and the one before.
BarIsFit(bar, cutoff) ==
    /\ bar.seen # Unknown /\ bar.lineage /\ bar.row
    /\ ~ (bar.at > cutoff /\ bar.seen <= cutoff)
InOrder(bars) ==
    \A i \in 2 .. Len(bars) : bars[i].at > bars[i-1].at /\ bars[i].seen > bars[i-1].seen

\* The newest of the visible bars is young enough.
Fresh(batch, cutoff) ==
    cutoff - Max({batch.bars[i].seen : i \in Visible(batch, cutoff)}) <= MaxAge

\* execute raises unless all of this holds.
Accepts(batch, cutoff) ==
    /\ batch.manifest /\ batch.bars # <<>> /\ batch.content
    /\ \A i \in 1 .. Len(batch.bars) : BarIsFit(batch.bars[i], cutoff)
    /\ InOrder(batch.bars)
    /\ Cardinality(Visible(batch, cutoff)) >= 2
    /\ batch.fetched <= batch.received
    /\ Fresh(batch, cutoff)

\* SyntheticPaperLedger.build_execution_reference: the last visible close.
ReferencePrice(batch, cutoff) == batch.bars[Max(Visible(batch, cutoff))].close
=============================================================================
