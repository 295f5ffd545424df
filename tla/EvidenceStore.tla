--------------------------- MODULE EvidenceStore ---------------------------
(***************************************************************************)
(* Research evidence: the worker's collectors of announcements, annual     *)
(* reports and news, which write a batch, its rows and its outcome in      *)
(* three transactions; the append-only review of a news item; and what the *)
(* read-only API derives from them.  A document stands for the three       *)
(* columns of the rows' unique key: provider, document id and hash of the  *)
(* bytes.                                                                  *)
(***************************************************************************)
EXTENDS Naturals, FiniteSets, Sequences

CONSTANTS
    Batches,       \* runs of a collector for one stock
    Listed(_),     \* the documents a provider lists under an evidence type
    NewsRequests,  \* review requests, each [key, doc, conclusion]
    MaxNewsReviews,
    NoBatch

Types == {"announcement", "financial_report", "news"}
Documents == UNION {Listed(t) : t \in Types}
Statuses == {"running", "fetch_failed", "validation_failed", "success", "partial",
             "write_failed"}

\* A listing is finite, and no batch is not one.
ASSUME ListedAssumption ==
    /\ \A t \in Types : IsFiniteSet(Listed(t))
    /\ NoBatch \notin [type : Types, accepted : Nat, rejected : Nat, status : Statuses]

\* An observed row carries the document; a rejected one has no hash.
Row(b, t, i) == [batch |-> b, type |-> t, doc |-> i.doc, observed |-> i.sound]

VARIABLES
    collector,    \* batch -> where its collector stands
    batches,      \* batch -> its row in research_evidence_batches, or NoBatch
    fetched,      \* batch -> the items its collector holds, [doc, sound]
    evidence,     \* the rows of research_evidence
    details,      \* <<type, doc>>: rows of the two detail tables
    newsReviews   \* the rows of research_news_evidence_reviews, oldest first

evidenceVars == <<collector, batches, fetched, evidence, details, newsReviews>>

EvidenceInit ==
    /\ collector = [b \in Batches |-> "idle"]
    /\ batches = [b \in Batches |-> NoBatch]
    /\ fetched = [b \in Batches |-> {}]
    /\ evidence = {} /\ details = {} /\ newsReviews = <<>>

Sound(items) == {i \in items : i.sound}

\* fetch_*_with_provenance: what the provider lists now, each document once, and
\* sound or not by the store's normalisation.
Fetches(t) == {items \in SUBSET [doc : Listed(t), sound : BOOLEAN] :
                  \A i, j \in items : i.doc = j.doc => i = j}

\* The batch's first row, in a transaction of its own.  A failed fetch and a
\* batch that does not pass as a whole are final; of the latter all items count
\* as rejected, and none is looked at.
InsertBatch(b, t, status, items) ==
    /\ batches' = [batches EXCEPT ![b] =
          [type |-> t, status |-> status, accepted |-> 0,
           rejected |-> IF status = "validation_failed" THEN Cardinality(items) ELSE 0]]
    /\ fetched' = [fetched EXCEPT ![b] = items]
    /\ collector' = [collector EXCEPT ![b] =
          IF status = "running" THEN "inserted" ELSE "done"]
    /\ UNCHANGED <<evidence, details, newsReviews>>

\* One turn of a sync loop up to the batch row: the fetch answers, fails, or
\* answers that what it brings did not pass; an answer for a source, licence or
\* hash that is not the fixed one is emptied.
Collect(b, t) ==
    /\ collector[b] = "idle"
    /\ \/ \E items \in Fetches(t), status \in {"running", "validation_failed"} :
             InsertBatch(b, t, status, items)
       \/ InsertBatch(b, t, "fetch_failed", {})

\* The status a batch is given before its rows are written.
Outcome(items) ==
    CASE Sound(items) = {} -> "validation_failed"
      [] Sound(items) = items -> "success"
      [] OTHER -> "partial"

OnRecord(doc) == \E r \in evidence : r.observed /\ r.doc = doc

\* ON CONFLICT (provider, source_document_id, raw_hash) DO NOTHING: a rejected
\* row has no hash and never conflicts.
NewRows(b) == {r \in {Row(b, batches[b].type, i) : i \in fetched[b]} :
                  r.observed => ~OnRecord(r.doc)}

\* Mutant: details only for the rows this batch inserted.
DetailsOfNewRows(b) ==
    IF batches[b].type = "announcement" THEN {}
    ELSE {<<batches[b].type, r.doc>> : r \in {n \in NewRows(b) : n.observed}}

\* Details of every sound item, attached to the row already there if need be.
Details(b) ==
    IF batches[b].type = "announcement" THEN {}
    ELSE {<<batches[b].type, i.doc>> : i \in Sound(fetched[b])}

\* All rows and details in one transaction; on an error none of them, unless
\* only the answer to the commit was lost.  Without items there is none.
InsertEvidence(b) ==
    /\ collector[b] = "inserted"
    /\ \/ /\ evidence' = evidence \cup NewRows(b)
          /\ details' = details \cup Details(b)
          /\ \E at \in {"written", "unanswered"} :
                collector' = [collector EXCEPT ![b] = at]
       \/ /\ collector' = [collector EXCEPT ![b] = "failed"]
          /\ UNCHANGED <<evidence, details>>
    /\ fetched[b] = {} => collector'[b] = "written"
    /\ UNCHANGED <<batches, fetched, newsReviews>>

\* The third transaction: counts as normalised, whatever the conflicts left
\* out; whatever raised in the second one is a write that failed.
FinalizeBatch(b) ==
    /\ collector[b] \in {"written", "unanswered", "failed"}
    /\ batches' = [batches EXCEPT ![b] =
          IF collector[b] # "written"
          THEN [batches[b] EXCEPT !.status = "write_failed",
                         !.rejected = Cardinality(fetched[b])]
          ELSE [batches[b] EXCEPT !.status = Outcome(fetched[b]),
                         !.accepted = Cardinality(Sound(fetched[b])),
                         !.rejected = Cardinality(fetched[b] \ Sound(fetched[b]))]]
    /\ collector' = [collector EXCEPT ![b] =
          IF collector[b] = "unanswered" THEN "mistaken" ELSE "done"]
    /\ UNCHANGED <<fetched, evidence, details, newsReviews>>

\* The worker dies, or the database goes away, between two transactions.
CollectorDies(b) ==
    /\ collector[b] \in {"inserted", "written", "unanswered", "failed"}
    /\ collector' = [collector EXCEPT ![b] = "dead"]
    /\ UNCHANGED <<batches, fetched, evidence, details, newsReviews>>

\* _find_reviewable_news_evidence: an observed news row and its detail.
ReviewableNews(doc) ==
    /\ \E r \in evidence : r.observed /\ r.doc = doc /\ r.type = "news"
    /\ <<"news", doc>> \in details

RecordedUnder(reviews, key) == {i \in DOMAIN reviews : reviews[i].key = key}

\* Mutant: the insert knows no conflict, so a retry is a review of its own.
AppendReviewAgain(reviews, request) == Append(reviews, request)

\* ON CONFLICT (reviewer_principal_id, idempotency_key) DO NOTHING: a retry is
\* answered with the row there is, another request under that key with 409.
AppendReview(reviews, request) ==
    IF RecordedUnder(reviews, request.key) = {} THEN Append(reviews, request)
    ELSE reviews

\* A POST, the first time or again because its answer was lost.
ReviewNews(request) ==
    /\ ReviewableNews(request.doc)
    /\ newsReviews' = AppendReview(newsReviews, request)
    /\ Len(newsReviews') <= MaxNewsReviews
    /\ UNCHANGED <<collector, batches, fetched, evidence, details>>

EvidenceNext ==
    \/ \E b \in Batches :
          \/ \E t \in Types : Collect(b, t)
          \/ InsertEvidence(b) \/ FinalizeBatch(b) \/ CollectorDies(b)
    \/ \E request \in NewsRequests : ReviewNews(request)

(***************************************************************************)
(* What the API shows.                                                     *)
(***************************************************************************)
\* The newest row for the document decides.
LatestConclusion(doc) ==
    LET of == {i \in DOMAIN newsReviews : newsReviews[i].doc = doc}
    IN IF of = {} THEN "none"
       ELSE newsReviews[CHOOSE i \in of : \A j \in of : j <= i].conclusion

\* ResearchEvidenceReadinessService: the required fields of a profile that are
\* rejected, and those that stay unresolved.  Readiness is never granted.
RejectedFields(r) ==
    (IF r.observed THEN {} ELSE {"evidence_quality"})
    \cup (IF r.type = "news" /\ LatestConclusion(r.doc) = "title_link_irrelevant"
          THEN {"security_association"} ELSE {})

Verdict(r) == IF RejectedFields(r) = {} THEN "review_required" ELSE "rejected"

UnresolvedFields(r) ==
    {"provider_usage_permission"}
    \cup (CASE r.type = "announcement" ->
                 {"source_publication_time", "event_content_validation", "revision_lineage"}
            [] r.type = "financial_report" ->
                 {"report_period_end", "consolidation_scope", "currency_code",
                  "currency_unit", "audit_opinion", "financial_fact_provenance"}
                 \cup (IF <<r.type, r.doc>> \in details THEN {} ELSE {"revision_lineage"})
            [] r.type = "news" ->
                 {"article_body_hash", "source_publication_time", "security_association",
                  "content_validation", "coverage_scope", "reviewer_identity"})
    \cup (IF r.observed \/ r.type = "news" THEN {} ELSE {"original_document_hash"})

\* The rows of /deep-analysis: evidence joined with the batch it cites.
DeepAnalysis == {[row |-> r, batchStatus |-> batches[r.batch].status] : r \in evidence}

\* Outcomes a reader takes as final.
Finished(b) == collector[b] \in {"done", "mistaken"} /\ batches[b] # NoBatch

(***************************************************************************)
(* Properties.                                                             *)
(***************************************************************************)
\* The store's records have the shapes the migrations give them.
EvidenceTypeOK ==
    /\ collector \in [Batches -> {"idle", "inserted", "written", "unanswered", "failed",
                                  "done", "mistaken", "dead"}]
    /\ batches \in [Batches -> {NoBatch} \cup
          [type : Types, accepted : Nat, rejected : Nat, status : Statuses]]
    /\ evidence \subseteq
          [batch : Batches, type : Types, doc : Documents, observed : BOOLEAN]
    /\ details \subseteq Types \X Documents

\* What a batch says of itself is true of the rows: when it ends well, every
\* document it accepted is on record, once, under this or an earlier batch and
\* with the detail its type requires (_persist_batch counts before it writes,
\* and the insert skips what is there); when the write failed it left nothing,
\* unless the collector mistook a lost answer to its commit for a failure; and
\* evidence cites a batch still "running" only if the collector has not finished
\* or never will.
BatchesTellTheTruth ==
    /\ EvidenceTypeOK
    /\ \A b \in Batches : Finished(b) =>
          /\ batches[b].status # "running"
          /\ batches[b].status \in {"success", "partial"} =>
                /\ batches[b].accepted + batches[b].rejected = Cardinality(fetched[b])
                /\ \A i \in Sound(fetched[b]) :
                      /\ Cardinality({r \in evidence : r.observed /\ r.doc = i.doc}) = 1
                      /\ batches[b].type # "announcement" =>
                            <<batches[b].type, i.doc>> \in details
    /\ \A item \in DeepAnalysis :
          /\ item.batchStatus # "fetch_failed"
          /\ item.batchStatus = "write_failed" => collector[item.row.batch] = "mistaken"
          /\ item.batchStatus = "validation_failed" => ~item.row.observed
          /\ item.batchStatus = "running" =>
                collector[item.row.batch] \in {"written", "unanswered", "dead"}
          /\ item.row.type = batches[item.row.batch].type
=============================================================================
