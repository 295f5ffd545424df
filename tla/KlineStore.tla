----------------------------- MODULE KlineStore -----------------------------
(***************************************************************************)
(* market.klines and market.kline_provenance of one stock, written by      *)
(* three paths that know nothing of each other: the display path           *)
(* (DataService.get_kline, which saves in a task of its own what it        *)
(* fetched for a screen), the backfill job, and the certified importer     *)
(* (SohuDailyKlineImporter).  A row is keyed by its time, which is the     *)
(* market's close or, from the display source, perhaps midnight.           *)
(***************************************************************************)
EXTENDS Integers, FiniteSets, Sequences

CONSTANTS KlineDays, Stamps,     \* trading days; times of day a row may carry
          MaxKlineBatches,       \* bound: batches ever written
          MaxSaves,              \* bound: saves of the display path under way at once
          SmokeTest,             \* SYNTHETIC_KLINE_SMOKE_TEST
          NoBar

ASSUME StampsAssumption == "close" \in Stamps
ASSUME NoBarAssumption ==
    NoBar \notin [prices : Nat, rest : Nat] \cup [batch : Nat, certified : BOOLEAN]

VARIABLES
    klines,        \* <<day, stamp>> -> [prices, rest]: the batches these columns come from
    provenance,    \* <<day, stamp>> -> [batch, certified], or NoBar
    dataBatches,   \* market.data_batches: [provider, passed, status]
    saves,         \* saves of the display path that are scheduled
    importing,     \* the importer: rows it fetched, and how far it is
    cachedBars     \* kline:<code>:... in the cache: "none", "stored" or "remote"

klineVars == <<klines, provenance, dataBatches, saves, importing, cachedBars>>

Keys == KlineDays \X Stamps
KeysAt(stamp) == {k \in Keys : k[2] = stamp}
NotImporting == [at |-> "idle", keys |-> {}, batch |-> 0]
Present == {k \in Keys : klines[k] # NoBar}

KlineInit ==
    /\ klines = [k \in Keys |-> NoBar] /\ provenance = [k \in Keys |-> NoBar]
    /\ dataBatches = <<>> /\ saves = {} /\ importing = NotImporting
    /\ cachedBars = "none"

\* KlineQualityValidator: what "unknown" or "synthetic" provides never passes.
Known(provider) == provider \notin {"unknown", "synthetic"}

\* create_batch: validated or rejected.
NewBatch(provider, ok) ==
    [provider |-> provider, passed |-> ok /\ Known(provider),
     status |-> IF ok /\ Known(provider) THEN "validated" ELSE "rejected"]
NextBatch == Len(dataBatches) + 1

\* Mutant: the conflict clause leaves certification_status alone.
RecordProvenanceKeeps(keys, b) ==
    provenance' = [k \in Keys |->
        IF k \in keys
        THEN [batch |-> b, certified |-> provenance[k] # NoBar /\ provenance[k].certified]
        ELSE provenance[k]]

\* record_provenance: what the row was certified as is void with its values.
RecordProvenance(keys, b) ==
    provenance' = [k \in Keys |-> IF k \in keys THEN [batch |-> b, certified |-> FALSE]
                                  ELSE provenance[k]]

----------------------------------------------------------------------------
(* The display path.                                                       *)

\* get_kline: the cache, else the rows the store has, however old, else the
\* provider's, which are cached, returned, and saved by a task of their own.
GetKline ==
    /\ cachedBars = "none"
    /\ \/ /\ Present # {}
          /\ cachedBars' = "stored" /\ UNCHANGED saves
       \/ /\ Present = {}
          /\ Cardinality(saves) < MaxSaves
          /\ \E stamp \in Stamps, days \in SUBSET KlineDays \ {{}} :
                saves' = saves \cup {days \X {stamp}}
          /\ cachedBars' = "remote"
    /\ UNCHANGED <<klines, provenance, dataBatches, importing>>

CacheExpires ==
    /\ cachedBars # "none"
    /\ cachedBars' = "none"
    /\ UNCHANGED <<klines, provenance, dataBatches, saves, importing>>

\* A transaction: its row locks hold off other writers of the same rows.
\* _save_klines updates the prices, not turnover_rate and adj_factor; the other
\* writers update both, and have a value for both.
Overwritten(k, b, whole) ==
    IF klines[k] = NoBar \/ whole THEN [prices |-> b, rest |-> b]
    ELSE [klines[k] EXCEPT !.prices = b]

SaveDisplayed ==
    /\ Len(dataBatches) < MaxKlineBatches
    /\ \E keys \in saves :
          /\ klines' = [k \in Keys |-> IF k \in keys THEN Overwritten(k, NextBatch, FALSE) ELSE klines[k]]
          /\ RecordProvenance(keys, NextBatch)
          /\ saves' = saves \ {keys}
    /\ dataBatches' = Append(dataBatches, NewBatch("unknown", TRUE))
    /\ UNCHANGED <<importing, cachedBars>>

\* The save raises, or the process ends first: _save_klines_safe logs it.
SaveIsLost ==
    /\ \E keys \in saves : saves' = saves \ {keys}
    /\ UNCHANGED <<klines, provenance, dataBatches, importing, cachedBars>>

----------------------------------------------------------------------------
(* The backfill job: backfill_one and save_klines.                         *)

\* generate_synthetic_klines: made-up rows of the market's close.
SyntheticKeys(days) == days \X {"close"}

\* What the provider has is written even where it overwrites certified rows;
\* without it, in a smoke test, made-up rows.
Backfill ==
    /\ Len(dataBatches) < MaxKlineBatches
    /\ \E stamp \in Stamps, days \in SUBSET KlineDays \ {{}}, provider \in {"unknown", "synthetic"} :
          LET keys == IF provider = "synthetic" THEN SyntheticKeys(days) ELSE days \X {stamp}
          IN /\ provider = "synthetic" => SmokeTest
             /\ klines' = [k \in Keys |-> IF k \in keys THEN Overwritten(k, NextBatch, TRUE) ELSE klines[k]]
             /\ RecordProvenance(keys, NextBatch)
             /\ dataBatches' = Append(dataBatches, NewBatch(provider, TRUE))
    /\ UNCHANGED <<saves, importing, cachedBars>>

----------------------------------------------------------------------------
(* The certified importer: import_code and ingest, one transaction.        *)

\* fetch failed: a batch that says so.
ImportFails ==
    /\ importing = NotImporting /\ Len(dataBatches) < MaxKlineBatches
    /\ dataBatches' = Append(dataBatches, [provider |-> "sohu", passed |-> FALSE, status |-> "failed"])
    /\ UNCHANGED <<klines, provenance, saves, importing, cachedBars>>

\* The importer's query of the natural days between its first and last row.
Collides(days) == \E k \in Present : \E a, b \in days : a <= k[1] /\ k[1] <= b

\* create_batch, the quality verdict and the collision count.
ImportChecks ==
    /\ importing = NotImporting /\ Len(dataBatches) < MaxKlineBatches
    /\ \E days \in SUBSET KlineDays \ {{}}, ok \in BOOLEAN :
          LET accepted == ok /\ ~ Collides(days)
              batch == NewBatch("sohu", ok)
          IN /\ dataBatches' = Append(dataBatches,
                    IF accepted THEN batch ELSE [batch EXCEPT !.status = "rejected"])
             /\ importing' = IF accepted THEN [at |-> "checked", keys |-> days \X {"close"},
                                               batch |-> NextBatch]
                             ELSE NotImporting
    /\ UNCHANGED <<klines, provenance, saves, cachedBars>>

\* The plain INSERT, record_provenance and certify_kline_batch: another writer
\* may have committed since the count, at a different time of the same day.
Certifiable(b) == dataBatches[b].passed /\ Known(dataBatches[b].provider)
ImportCommits ==
    /\ importing.at = "checked" /\ importing.keys \cap Present = {}
    /\ Certifiable(importing.batch)
    /\ klines' = [k \in Keys |-> IF k \in importing.keys
                                 THEN [prices |-> importing.batch, rest |-> importing.batch]
                                 ELSE klines[k]]
    /\ provenance' = [k \in Keys |-> IF k \in importing.keys
                                     THEN [batch |-> importing.batch, certified |-> TRUE]
                                     ELSE provenance[k]]
    /\ dataBatches' = [dataBatches EXCEPT ![importing.batch].status = "certified"]
    /\ importing' = NotImporting
    /\ UNCHANGED <<saves, cachedBars>>

\* A row it inserts exists by now: the whole transaction, its batch included,
\* is rolled back (the number of the batch is used up).
ImportRollsBack ==
    /\ importing.at = "checked"
    /\ dataBatches' = [dataBatches EXCEPT ![importing.batch].status = "rolled_back"]
    /\ importing' = NotImporting
    /\ UNCHANGED <<klines, provenance, saves, cachedBars>>

KlineNext ==
    \/ GetKline \/ CacheExpires \/ SaveDisplayed \/ SaveIsLost
    \/ Backfill
    \/ ImportFails \/ ImportChecks \/ ImportCommits \/ ImportRollsBack

----------------------------------------------------------------------------

\* CERTIFIED_FILTER, what the screener and backtests of the legacy store join.
CertifiedKeys == {k \in Keys : provenance[k] # NoBar /\ provenance[k].certified}

\* A certified row is wholly what its batch brought: no save for a screen, no
\* backfill and no made-up row ever stays behind a certificate, in whatever
\* order display saves, backfills and imports commit; and a row has values
\* exactly when it has provenance.
CertifiedBarsAreIntact ==
    /\ \A k \in Keys : klines[k] = NoBar <=> provenance[k] = NoBar
    /\ \A k \in CertifiedKeys :
          LET b == provenance[k].batch
          IN /\ klines[k] = [prices |-> b, rest |-> b]
             /\ dataBatches[b].status = "certified" /\ Known(dataBatches[b].provider)
=============================================================================
