------------------------- MODULE MCResearchEvidence -------------------------
EXTENDS ResearchEvidence, TLC

CONSTANTS report, notice, item,       \* documents
          yes1, yes2, no1             \* idempotency keys of the reviewers

\* CNINFO lists an annual report among its announcements as well.
ListedByType(t) == CASE t = "announcement" -> {report, notice}
                     [] t = "financial_report" -> {report}
                     [] t = "news" -> {item}
NewsIntents == {[key |-> yes1, doc |-> item, conclusion |-> "title_link_relevant"],
                [key |-> no1, doc |-> item, conclusion |-> "title_link_irrelevant"]}
LocationIntents == [key : {yes1, yes2}, run : ParseRuns, field : Fields]

\* The three parts share no variable; the snapshots read the others.  Each part
\* is explored while the rest is at its start, the snapshots beside the least
\* they need: one report on record, one terms document that was read and up to
\* two reviews of it, of different scopes, that leave the use open.  Three runs
\* race for the file without the parsers, two beside them.
SnapshotsRest == SnapshotInit
ReportIsIn ==
    /\ Cardinality({b \in Batches : collector[b] # "idle"}) = 1
    /\ evidence = {Row(b, "financial_report", [doc |-> report, sound |-> TRUE]) :
                      b \in {c \in Batches : collector[c] = "done"}}
    /\ evidence # {} /\ Len(terms) <= 1 /\ \A i \in DOMAIN terms : terms[i].text # Failed
    /\ \A k \in DOMAIN usageReviews : usageReviews[k].decision = "review_required"
    /\ \A j, k \in DOMAIN usageReviews :
          usageReviews[j].scope = usageReviews[k].scope => j = k
    /\ \/ \A p \in ParseRuns : parser[p] = IdleParser
       \/ Cardinality({p \in SnapshotRuns : run[p] # IdleRun}) <= 2
OnePartAtATime ==
    \/ SnapshotsRest /\ (EvidenceInit \/ UsageInit)
    \/ ReportIsIn

\* Nothing orders the batches, the runs of the snapshot script, the terms
\* documents and their texts.
Symmetry == Permutations(Batches) \cup Permutations(SnapshotRuns)
                \cup Permutations(Urls) \cup Permutations(Texts)
=============================================================================
