-------------------------- MODULE ResearchEvidence --------------------------
(***************************************************************************)
(* The research evidence as a whole: evidence and its reviews, the terms   *)
(* of the source, and the snapshots that need both.                        *)
(***************************************************************************)
EXTENDS ReportSnapshots

researchVars == <<evidenceVars, usageVars, snapshotVars>>

ResearchInit == EvidenceInit /\ UsageInit /\ SnapshotInit

ResearchNext ==
    \/ EvidenceNext /\ UNCHANGED <<usageVars, snapshotVars>>
    \/ UsageNext /\ UNCHANGED <<evidenceVars, snapshotVars>>
    \/ SnapshotNext /\ UNCHANGED <<evidenceVars, usageVars>>

ResearchSpec == ResearchInit /\ [][ResearchNext]_researchVars

\* /evidence/readiness-audit: each row with its verdict and the state of its
\* source's terms.
ReadinessAudit ==
    {[row |-> r, verdict |-> Verdict(r), unresolved |-> UnresolvedFields(r),
      terms |-> Precheck] : r \in evidence}

\* /evidence/{id}: a row with the newest review of a news item, or the newest
\* snapshot of a report.
EvidenceItem(r) ==
    [row |-> r,
     review |-> IF r.type = "news" THEN LatestConclusion(r.doc) ELSE "none",
     snapshot |-> IF r.type = "financial_report" /\ r.doc \in Reports
                  THEN snapshots[r.doc] ELSE NoRun]

\* /evidence/{id}/financial-location-candidates, with the current parse.
LocationCandidates(doc) ==
    IF AcceptedParses(doc) = {} THEN {}
    ELSE {<<CurrentParse(doc).by, f>> : f \in Fields}

\* /evidence/{id}/financial-location-reviews: every review of the report.
LocationHistory(doc) ==
    {i \in DOMAIN locationReviews :
        \E a \in AcceptedParses(doc) : parses[a].by = locationReviews[i].run}

\* A reviewer's decision counts once: a request sent again after its answer was
\* lost leaves no second row, so it cannot overtake what another reviewer
\* decided in between; and the verdict of the readiness audit follows the
\* newest review the evidence item shows, never to more than "review_required"
\* (append_news_evidence_manual_review, evaluate).
DecisionsCountOnce ==
    /\ \A i, j \in DOMAIN newsReviews :
          newsReviews[i].key = newsReviews[j].key => i = j
    /\ \A item \in ReadinessAudit :
          /\ item.row.observed =>
                (item.verdict = "rejected" <=>
                    EvidenceItem(item.row).review = "title_link_irrelevant")
          /\ item.unresolved # {}

\* A snapshot an evidence item shows has its file.  It is lost to a run that
\* had found no file before this one appeared, and in two ways: another such run
\* could not record its own and took the common file back, or the run that
\* recorded it was not told so (persist_observed reads target_existed before it
\* writes, and takes every exception for a row that is not there).  A run that
\* starts later never removes it, nor does one that knows of its row.
SnapshotsKeepTheirFiles ==
    \A r \in evidence :
        LET snapshot == EvidenceItem(r).snapshot IN
        snapshot # NoRun /\ r.doc \notin files =>
            /\ remover[r.doc] \in claimants[r.doc]
            /\ remover[r.doc] = snapshot.by => snapshot.by \in unanswered

\* A reviewer judges what is current, for good: a location review never refers
\* to a parse that another one has replaced, and a retry adds none, so what the
\* history shows is among the candidates shown beside it.
ReviewedLocationsStayCurrent ==
    /\ \A doc \in Reports : \A i \in LocationHistory(doc) :
          <<locationReviews[i].run, locationReviews[i].field>> \in LocationCandidates(doc)
    /\ \A i, j \in DOMAIN locationReviews :
          locationReviews[i].key = locationReviews[j].key => i = j

=============================================================================
