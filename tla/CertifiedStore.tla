--------------------------- MODULE CertifiedStore ---------------------------
(***************************************************************************)
(* The certified K-line store of one stock: importers of a dataset run     *)
(* (scripts/import_sprint13_dataset.py) fetch month by month from a        *)
(* provider that may restate, certify whole batches (CertifiedStoreWriter, *)
(* DataCertificationService), keep checkpoints, audit and write readiness  *)
(* reviews; a reviewer, who is external, decides readiness as the rules of *)
(* ResearchReadinessService.evaluate say; a backtest passes the readiness  *)
(* gate and loads bars, calendar and security status.  A database          *)
(* transaction is one step unless another one can commit inside it.        *)
(***************************************************************************)
EXTENDS Integers, FiniteSets, Sequences, FiniteSetsExt

CONSTANTS
    Importers, Releases,     \* processes of the script; versions of it
    Days, Months, MonthOf,   \* the run's days and the month of each
    Ranges,                  \* ranges reviews are given for and backtests ask for
    Calendars,               \* what trading_calendar may hold, by day
    Publications,            \* what the provider may publish, by day: it restates
    MaxStarts, MaxReviews,   \* bounds: starts of an importer; reviews and audits
    NoRow, NoReview, NoRun

\* What the provider may ever have for a day.
Published == UNION {{f[d] : d \in Days} : f \in Publications}

ASSUME RangesAssumption ==
    /\ IsFiniteSet(Days) /\ Days \in Ranges /\ Ranges \subseteq SUBSET Days
    /\ 1 \in Months /\ Months \subseteq Nat \ {0}
    /\ Releases # {}
ASSUME NothingAssumption ==
    /\ NoRow \notin [value : Published, batch : Nat]
    /\ NoReview \notin [status : {"ready", "review_required", "rejected"}, at : Nat,
                        missing : {"complete", "unresolved"}]

VARIABLES
    calendar,    \* day -> "open", "closed" or "unresolved"; only migrations
                 \* write it, so it stays as it is at the start
    store,       \* market.certified_klines: day -> [value, batch] or NoRow
    batches,     \* market.data_batches: [status, response, release]
    run,         \* market.dataset_expansion_runs: [status, release] or NoRun
    checkpoints, \* market.dataset_import_checkpoints: month -> status
    reviews,     \* market.research_readiness_reviews: range -> review
    statuses,    \* market.security_status_reviews of the run
    audit,       \* history: the last audit, [at, passed]
    now,         \* the order of reviews and audits
    imp,         \* importer -> what its process holds
    starts,      \* number of starts of an importer (bound)
    session      \* the backtest

certifiedVars == <<calendar, store, batches, run, checkpoints, reviews, statuses, audit,
                   now, imp, starts, session>>

DaysOf(m) == {d \in Days : MonthOf[d] = m}
OpenIn(ds) == {d \in ds : calendar[d] = "open"}
Stored(ds) == {d \in ds : store[d] # NoRow}
Span(ds) == {d \in Days : Min(ds) <= d /\ d <= Max(ds)}

\* What one fetch of a month returns of a publication.
Response(f, m) == [d \in {e \in DaysOf(m) : f[e] # NoRow} |-> f[d]]

Idle == [at |-> "idle", month |-> 0, rows |-> <<>>, sampled |-> TRUE,
         release |-> CHOOSE r \in Releases : TRUE]
NoSession == [at |-> "idle", range |-> {}, bars |-> {}]

\* _calendar_error: exactly the confirmed trading days between the first and
\* the last row; what lies outside of them is not missed.
CalendarFits(rows) ==
    LET expected == OpenIn(Span(DOMAIN rows))
    IN expected # {} /\ DOMAIN rows = expected

CertifiedInit ==
    /\ calendar \in Calendars
    \* A pilot of another release may have imported the first month.
    /\ \/ /\ store = [d \in Days |-> NoRow] /\ batches = <<>>
       \/ \E f \in Publications :
             LET pilot == Response(f, 1)
             IN /\ DOMAIN pilot = OpenIn(DaysOf(1)) /\ CalendarFits(pilot)
                /\ \A d \in DOMAIN pilot : pilot[d] = "a"
                /\ batches = <<[status |-> "certified", release |-> "pilot", response |-> pilot]>>
                /\ store = [d \in Days |-> IF d \in DOMAIN pilot
                                           THEN [value |-> pilot[d], batch |-> 1] ELSE NoRow]
    /\ run = NoRun
    /\ checkpoints = [m \in Months |-> "none"]
    /\ reviews = [r \in Ranges |-> NoReview]
    /\ statuses = {}
    /\ audit = [at |-> 0, passed |-> FALSE] /\ now = 0
    /\ imp = [p \in Importers |-> Idle] /\ starts = 0
    /\ session = NoSession

----------------------------------------------------------------------------
(* The operator starts and kills processes of the script.                  *)

Holds(p, at) == imp[p].at = at

\* bind_run: a new run, or the replay of a run of the same release.
Bindable(release) == run = NoRun \/ run.release = release
Bind(p) ==
    /\ Holds(p, "idle") /\ starts < MaxStarts
    /\ starts' = starts + 1
    /\ \E release \in {r \in Releases : Bindable(r)} :
          /\ run' = [status |-> "running", release |-> release]
          /\ imp' = [imp EXCEPT ![p] = [Idle EXCEPT !.at = "month", !.month = 1,
                                                  !.release = release]]
    /\ UNCHANGED <<calendar, store, batches, checkpoints, reviews, statuses,
                   audit, now, session>>

\* A process that is killed leaves what it committed; it may be started again.
Kill(p) ==
    /\ imp[p].at # "idle"
    /\ imp' = [imp EXCEPT ![p] = Idle]
    /\ UNCHANGED <<calendar, store, batches, run, checkpoints, reviews, statuses,
                   audit, now, starts, session>>

----------------------------------------------------------------------------
(* One month: process_month.                                               *)

\* The month is finished: the next one, or the audit.
After(p, sampled) ==
    LET next == imp[p].month + 1
    IN [imp EXCEPT ![p] = [@ EXCEPT
           !.at = IF next \in Months THEN "month" ELSE "audit",
           !.month = IF next \in Months THEN next ELSE 0,
           !.rows = <<>>, !.sampled = imp[p].sampled /\ sampled]]

\* checkpoint(..., "running") in a transaction of its own, and
\* SohuDailyKlineImporter.fetch: rows of open and closed days alike.  Nothing
\* else is written while the request is out.
Fetch(p) ==
    /\ Holds(p, "month")
    /\ checkpoints' = [checkpoints EXCEPT ![imp[p].month] = "running"]
    /\ \E f \in Publications :
          LET rows == Response(f, imp[p].month)
          IN rows # <<>> /\ imp' = [imp EXCEPT ![p].at = "fetched", ![p].rows = rows]
    /\ UNCHANGED <<calendar, store, batches, run, reviews, statuses, audit, now,
                   starts, session>>

\* No rows, or a network that stays down: the script goes on.
FetchFails(p) ==
    /\ Holds(p, "month")
    /\ checkpoints' = [checkpoints EXCEPT ![imp[p].month] = "fetch_failed"]
    /\ imp' = After(p, FALSE)
    /\ UNCHANGED <<calendar, store, batches, run, reviews, statuses, audit, now,
                   starts, session>>

\* validate_existing_rows: the stored row is the fetched one, or it came from
\* another release with the very same response.
SameRow(p, d) ==
    LET batch == batches[store[d].batch]
    IN \/ batch.release = imp[p].release /\ store[d].value = imp[p].rows[d]
       \/ batch.release # imp[p].release /\ batch.response = imp[p].rows

\* existing_month_decision.
ExistingDecision(p) ==
    LET m == imp[p].month
        prior == Stored(DaysOf(m))
    IN IF prior # DOMAIN imp[p].rows \/ \E d \in prior : ~ SameRow(p, d)
       THEN "validation_failed"
       ELSE IF Cardinality(prior) # Cardinality(OpenIn(DaysOf(m)))
       THEN "review_required"
       ELSE "certified"

CheckExisting(p) ==
    /\ Holds(p, "fetched") /\ Stored(DaysOf(imp[p].month)) # {}
    /\ checkpoints' = [checkpoints EXCEPT ![imp[p].month] = ExistingDecision(p)]
    /\ imp' = After(p, TRUE)
    /\ UNCHANGED <<calendar, store, batches, run, reviews, statuses, audit, now,
                   starts, session>>

NothingStored(p) ==
    /\ Holds(p, "fetched") /\ Stored(DaysOf(imp[p].month)) = {}
    /\ imp' = [imp EXCEPT ![p].at = "ingest"]
    /\ UNCHANGED <<calendar, store, batches, run, checkpoints, reviews, statuses,
                   audit, now, starts, session>>

----------------------------------------------------------------------------
(* CertifiedStoreWriter.ingest, in the transaction that looked.            *)

\* validate_rows: one bad row rejects the batch.
Quality(rows) == \A d \in DOMAIN rows : rows[d] # "flawed"

Collision(rows) == Stored(Span(DOMAIN rows)) # {}

Batch(p, status) ==
    [status |-> status, response |-> imp[p].rows, release |-> imp[p].release]

\* The batch row and the checkpoint are committed, no bar is.
RejectBatch(p) ==
    LET rows == imp[p].rows
    IN /\ Holds(p, "ingest")
       /\ ~ Quality(rows) \/ ~ CalendarFits(rows) \/ Collision(rows)
       /\ batches' = Append(batches, Batch(p, "rejected"))
       /\ checkpoints' = [checkpoints EXCEPT ![imp[p].month] = "validation_failed"]
       /\ imp' = After(p, TRUE)
       /\ UNCHANGED <<calendar, store, run, reviews, statuses, audit, now,
                      starts, session>>

AcceptBatch(p) ==
    LET rows == imp[p].rows
    IN /\ Holds(p, "ingest")
       /\ Quality(rows) /\ CalendarFits(rows) /\ ~ Collision(rows)
       /\ imp' = [imp EXCEPT ![p].at = "insert"]
       /\ UNCHANGED <<calendar, store, batches, run, checkpoints, reviews,
                      statuses, audit, now, starts, session>>

\* Mutant: ON CONFLICT DO NOTHING, certified all the same.
InsertBatchOverOthers(p) ==
    LET rows == imp[p].rows
    IN /\ Holds(p, "insert")
       /\ batches' = Append(batches, Batch(p, "certified"))
       /\ store' = [d \in Days |-> IF d \in DOMAIN rows /\ store[d] = NoRow
                                   THEN [value |-> rows[d], batch |-> Len(batches) + 1]
                                   ELSE store[d]]
       /\ checkpoints' = [checkpoints EXCEPT ![imp[p].month] = "certified"]
       /\ imp' = After(p, TRUE)
       /\ UNCHANGED <<calendar, run, reviews, statuses, audit, now, starts, session>>

\* INSERT INTO certified_klines under its primary key, and the commit.
InsertBatch(p) ==
    LET rows == imp[p].rows
    IN /\ Holds(p, "insert") /\ Stored(DOMAIN rows) = {}
       /\ batches' = Append(batches, Batch(p, "certified"))
       /\ store' = [d \in Days |-> IF d \in DOMAIN rows
                                   THEN [value |-> rows[d], batch |-> Len(batches) + 1]
                                   ELSE store[d]]
       /\ checkpoints' = [checkpoints EXCEPT ![imp[p].month] = "certified"]
       /\ imp' = After(p, TRUE)
       /\ UNCHANGED <<calendar, run, reviews, statuses, audit, now, starts, session>>

\* Another importer stored a row meanwhile.  The failed INSERT has aborted the
\* transaction, so the "write_failed" checkpoint fails as well and the
\* exception ends the script.
InsertConflicts(p) ==
    /\ Holds(p, "insert") /\ Stored(DOMAIN imp[p].rows) # {}
    /\ imp' = [imp EXCEPT ![p] = Idle]
    /\ UNCHANGED <<calendar, store, batches, run, checkpoints, reviews, statuses,
                   audit, now, starts, session>>

----------------------------------------------------------------------------
(* audit_stock, and the end of the run.                                    *)

\* provider_validation_summary: every month sampled, and every sample equal
\* at the second provider.
AuditMayPass(p) == imp[p].sampled

Missing(range) ==
    IF OpenIn(range) \subseteq Stored(range) THEN "complete" ELSE "unresolved"

\* _write_readiness_reviews: never more than review_required.
AuditReview(at) == [status |-> "review_required", at |-> at, missing |-> Missing(Days)]

\* Mutant: the audit's review is inserted ON CONFLICT DO NOTHING.
AuditKeepsReview(p) ==
    /\ Holds(p, "audit") /\ AuditMayPass(p) /\ now < MaxReviews
    /\ now' = now + 1
    /\ reviews' = IF reviews[Days] # NoReview THEN reviews
                  ELSE [reviews EXCEPT ![Days] = AuditReview(now')]
    /\ audit' = [at |-> now', passed |-> TRUE]
    /\ imp' = [imp EXCEPT ![p].at = "finish"]
    /\ UNCHANGED <<calendar, store, batches, run, checkpoints, statuses, starts, session>>

\* The reviews of the run's range fall back to review_required, and the
\* normal_trade status of the run is withdrawn.
Audit(p) ==
    /\ Holds(p, "audit") /\ AuditMayPass(p) /\ now < MaxReviews
    /\ statuses' = (statuses \ {"normal_trade"}) \cup {"unresolved"}
    /\ now' = now + 1
    /\ reviews' = [reviews EXCEPT ![Days] = AuditReview(now')]
    /\ audit' = [at |-> now', passed |-> TRUE]
    /\ imp' = [imp EXCEPT ![p].at = "finish"]
    /\ UNCHANGED <<calendar, store, batches, run, checkpoints, starts, session>>

\* provider_validation_status may be pass, partial_pass or rejected; the
\* "review_required" of a failed comparison breaks the constraint, and with it
\* everything the audit wrote is rolled back.
AuditBreaks(p) ==
    /\ Holds(p, "audit") /\ now < MaxReviews
    /\ now' = now + 1
    /\ audit' = [at |-> now', passed |-> FALSE]
    /\ imp' = [imp EXCEPT ![p].at = "finish"]
    /\ UNCHANGED <<calendar, store, batches, run, checkpoints, reviews, statuses,
                   starts, session>>

FinishRun(p) ==
    /\ Holds(p, "finish")
    /\ run' = [run EXCEPT !.status = "review_required"]
    /\ imp' = [imp EXCEPT ![p] = Idle]
    /\ UNCHANGED <<calendar, store, batches, checkpoints, reviews, statuses, audit,
                   now, starts, session>>

----------------------------------------------------------------------------
(* Reviews and the backtest that relies on them.                           *)

\* ResearchReadinessService.evaluate, as far as this store decides it.
Decision(range, sound) ==
    IF Stored(range) = {} THEN "rejected"
    ELSE IF sound /\ Missing(range) = "complete" THEN "ready"
    ELSE "review_required"

Review(range) ==
    /\ now < MaxReviews
    /\ now' = now + 1
    /\ \E sound \in BOOLEAN :
          reviews' = [reviews EXCEPT ![range] =
             [status |-> Decision(range, sound), at |-> now', missing |-> Missing(range)]]
    /\ statuses' \in {statuses, statuses \cup {"normal_trade"}}
    /\ UNCHANGED <<calendar, store, batches, run, checkpoints, audit, imp, starts,
                   session>>

\* Mutant: a review that overlaps the range is taken for one that covers it.
CoveringInPart(range) == {r \in Ranges : r \cap range # {} /\ reviews[r] # NoReview}

\* get_review: of the reviews that cover a range, the narrowest, then the newest.
Covering(range) == {r \in Ranges : range \subseteq r /\ reviews[r] # NoReview}
ChosenReview(range) ==
    reviews[CHOOSE r \in Covering(range) :
               \A s \in Covering(range) : Cardinality(r) <= Cardinality(s)]

\* assert_dataset_ready and assert_ready.
Ready(range) ==
    /\ Stored(range) # {}
    /\ Covering(range) # {}
    /\ ChosenReview(range).status = "ready"
    /\ ChosenReview(range).missing = "complete"

Admit(range) ==
    /\ session.at = "idle" /\ Ready(range)
    /\ session' = [NoSession EXCEPT !.at = "admitted", !.range = range]
    /\ UNCHANGED <<calendar, store, batches, run, checkpoints, reviews, statuses,
                   audit, now, imp, starts>>

\* _load_bars asks again, then reads what is certified.
LoadBars ==
    /\ session.at = "admitted"
    /\ session' = IF Ready(session.range)
                  THEN [session EXCEPT !.at = "loaded", !.bars = Stored(session.range)]
                  ELSE NoSession
    /\ UNCHANGED <<calendar, store, batches, run, checkpoints, reviews, statuses,
                   audit, now, imp, starts>>

\* TrustedTradingCalendar and the security status over the whole range.
Confirmed(range) == \A d \in range : calendar[d] # "unresolved"
StartEngine ==
    /\ session.at = "loaded"
    /\ session' = IF /\ Confirmed(session.range) /\ OpenIn(session.range) # {}
                     /\ "normal_trade" \in statuses
                  THEN [session EXCEPT !.at = "running"] ELSE NoSession
    /\ UNCHANGED <<calendar, store, batches, run, checkpoints, reviews, statuses,
                   audit, now, imp, starts>>

\* The run ends and another one may be asked for.
EndSession ==
    /\ session.at = "running"
    /\ session' = NoSession
    /\ UNCHANGED <<calendar, store, batches, run, checkpoints, reviews, statuses,
                   audit, now, imp, starts>>

CertifiedNext ==
    \/ \E p \in Importers :
          \/ Bind(p) \/ Kill(p) \/ Fetch(p) \/ FetchFails(p)
          \/ CheckExisting(p) \/ NothingStored(p) \/ RejectBatch(p)
          \/ AcceptBatch(p) \/ InsertBatch(p) \/ InsertConflicts(p)
          \/ Audit(p) \/ AuditBreaks(p) \/ FinishRun(p)
    \/ \E range \in Ranges : Review(range) \/ Admit(range)
    \/ LoadBars \/ StartEngine \/ EndSession

----------------------------------------------------------------------------
(* Properties.                                                             *)

CertifiedTypeOK ==
    /\ \A d \in Days : store[d] = NoRow \/ store[d].batch \in 1 .. Len(batches)
    /\ \A m \in Months : checkpoints[m] \in
          {"none", "running", "fetch_failed", "validation_failed",
           "review_required", "certified"}
    /\ statuses \subseteq {"normal_trade", "unresolved"}
    /\ \A p \in Importers : imp[p].month \in Months \cup {0}

RowsOf(b) == {d \in Days : store[d] # NoRow /\ store[d].batch = b}

\* The store holds batches whole or not at all, whoever imports at the same
\* time: a certified batch has exactly the bars it fetched, on open days
\* without a hole; a rejected one has none.  A month reported certified has bars.
BatchesAreWhole ==
    /\ CertifiedTypeOK
    /\ \A b \in 1 .. Len(batches) :
          IF batches[b].status = "certified"
          THEN /\ RowsOf(b) = DOMAIN batches[b].response
               /\ \A d \in RowsOf(b) : store[d].value = batches[b].response[d]
               /\ RowsOf(b) = OpenIn(Span(RowsOf(b)))
          ELSE RowsOf(b) = {}
    /\ \A m \in Months : checkpoints[m] = "certified" => Stored(DaysOf(m)) # {}

\* A backtest that starts has a certified bar for every open day of its
\* range: the review it passed found none missing, and the store only grows.
RunsSeeEveryDay ==
    session.at = "running" => OpenIn(session.range) \subseteq session.bars

\* A "ready" review only outlives a later audit of the same range when that
\* audit failed, and so was rolled back, or when it was given again.
ReadyOutlivesBrokenAudits ==
    LET review == reviews[Days]
    IN review # NoReview /\ review.status = "ready" /\ audit.at > review.at
       => ~ audit.passed
=============================================================================
