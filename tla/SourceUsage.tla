---------------------------- MODULE SourceUsage ----------------------------
(***************************************************************************)
(* Terms of use of the fixed source: what the collector of the official    *)
(* documents observed, the append-only pre-checks of the uses the source   *)
(* permits, and the context the research API derives from both.            *)
(***************************************************************************)
EXTENDS Naturals, Sequences

CONSTANTS Urls,       \* the terms documents of the source
          Texts,      \* versions of their bytes
          MaxTerms, MaxUsageReviews

Scopes == {"local_storage", "derived_research"}  \* those other code asks for
Decisions == {"review_required", "rejected"}

VARIABLES
    terms,         \* research_source_terms_evidence, oldest first: [url, text]
    usageReviews   \* research_source_usage_reviews, oldest first

usageVars == <<terms, usageReviews>>
UsageInit == terms = <<>> /\ usageReviews = <<>>

Failed == "failed"  \* a row without bytes: fetch or validation failed

\* append_observed_document: bytes seen before keep their old row.
ObserveTerms(url, text) ==
    /\ terms' = IF \E i \in DOMAIN terms : terms[i] = [url |-> url, text |-> text]
                THEN terms
                ELSE Append(terms, [url |-> url, text |-> text])
    /\ UNCHANGED usageReviews

\* append_failure: a row without hash never meets another.
FailTerms(url) ==
    /\ terms' = Append(terms, [url |-> url, text |-> Failed])
    /\ UNCHANGED usageReviews

\* append_usage_review of some terms row; the identity stays unverified.
ReviewUsage(i, scope, decision) ==
    /\ usageReviews' = Append(usageReviews,
          [terms |-> i, scope |-> scope, decision |-> decision])
    /\ UNCHANGED terms

UsageNext ==
    \/ /\ Len(terms) < MaxTerms
       /\ \E url \in Urls : FailTerms(url) \/ \E t \in Texts : ObserveTerms(url, t)
    \/ /\ Len(usageReviews) < MaxUsageReviews
       /\ \E i \in DOMAIN terms, s \in Scopes, d \in Decisions : ReviewUsage(i, s, d)

(***************************************************************************)
(* What the code reads.                                                    *)
(***************************************************************************)
Newest(S) == CHOOSE i \in S : \A j \in S : j <= i
RowsOf(url) == {i \in DOMAIN terms : terms[i].url = url}
LatestTerms == {Newest(RowsOf(url)) : url \in {u \in Urls : RowsOf(u) # {}}}
ReviewsIn(i, scope) ==
    {k \in DOMAIN usageReviews : usageReviews[k].terms = i /\ usageReviews[k].scope = scope}

\* Mutant: the newest review of a scope speaks for all documents of the source.
LatestReviewsOfScope ==
    {Newest({k \in DOMAIN usageReviews :
                usageReviews[k].scope = s /\ usageReviews[k].terms \in LatestTerms}) :
        s \in {t \in Scopes : \E i \in LatestTerms : ReviewsIn(i, t) # {}}}

\* _load_source_usage_context: the newest review per terms row and scope, of the
\* newest row per document.
LatestReviews ==
    {Newest(ReviewsIn(p[1], p[2])) :
        p \in {q \in LatestTerms \X Scopes : ReviewsIn(q[1], q[2]) # {}}}

\* The precheck the audit shows; an authorization is never granted.
Precheck ==
    IF \E k \in LatestReviews : usageReviews[k].decision = "rejected"
    THEN "rejected" ELSE "review_required"

\* get_candidate of the snapshot and of the page-location store: the newest of
\* the reviews that are review_required.
UsableReviews(scope) ==
    {k \in DOMAIN usageReviews :
        usageReviews[k].scope = scope /\ usageReviews[k].decision = "review_required"}

(***************************************************************************)
(* Properties.                                                             *)
(***************************************************************************)
\* The reviews of a document in a scope, whatever row they were given on; the
\* newest is the last word.
ReviewsOf(url, scope) ==
    {k \in DOMAIN usageReviews :
        usageReviews[k].scope = scope /\ terms[usageReviews[k].terms].url = url}

\* A use whose last word is a rejection is shown as rejected, unless the
\* document shown is a newer one than that word was about: a newer text, or the
\* failure to read it, which itself is shown instead.  No review of another
\* document or scope, and no older text, masks a rejection
\* (_load_source_usage_context).
RejectionsAreShown ==
    \A url \in Urls, scope \in Scopes :
        LET lastWord == usageReviews[Newest(ReviewsOf(url, scope))] IN
        ReviewsOf(url, scope) # {} /\ lastWord.decision = "rejected" =>
            \/ Precheck = "rejected"
            \/ \E i \in LatestTerms : terms[i].url = url /\ i > lastWord.terms
=============================================================================
