-------------------------- MODULE ReportSnapshots --------------------------
(***************************************************************************)
(* Annual reports kept on disk: the script that fetches a report's bytes   *)
(* again, writes them to the snapshot directory and records them; the      *)
(* script that parses a recorded snapshot into pages and locations; and    *)
(* the API's append-only review of a location.  The file system is not     *)
(* part of any transaction.                                                *)
(***************************************************************************)
EXTENDS EvidenceStore, SourceUsage

CONSTANTS
    Reports,           \* FIXED_FINANCIAL_EVIDENCE_IDS: documents
    SnapshotRuns, ParseRuns,
    Fields,            \* metadata fields looked for
    LocationRequests,  \* review requests, each [key, run, field]
    MaxLocationReviews,
    NoReport, NoRun

\* A request names a location that a parse wrote (location_id), and what stands
\* for no run is no run.
ASSUME RequestsAssumption ==
    /\ \A request \in LocationRequests : request.field \in Fields
    /\ NoRun \notin SnapshotRuns \cup [by : SnapshotRuns, review : Nat]

VARIABLES
    files,           \* reports whose PDF is in the snapshot directory
    snapshots,       \* report -> the observed row, [by, review], or NoRun
    failures,        \* <<report, status>> of the failure rows
    run,             \* snapshot run -> where it stands
    parser,          \* parse run -> where it stands
    parses,          \* accepted parse runs, oldest first: [by, report, status, found]
    locationReviews, \* research_financial_metadata_location_reviews
    claimants,       \* report -> runs that had found no file when it appeared
    remover,         \* report -> the run that removed the file, or NoRun
    unanswered       \* runs that recorded a snapshot and were not told so

snapshotVars == <<files, snapshots, failures, run, parser, parses,
                  locationReviews, claimants, remover, unanswered>>

IdleRun == [pc |-> "idle", report |-> NoReport, review |-> 0, existed |-> FALSE]
IdleParser == [pc |-> "idle", report |-> NoReport]

SnapshotInit ==
    /\ files = {} /\ snapshots = [d \in Reports |-> NoRun] /\ failures = {}
    /\ run = [p \in SnapshotRuns |-> IdleRun]
    /\ parser = [p \in ParseRuns |-> IdleParser]
    /\ parses = <<>> /\ locationReviews = <<>>
    /\ claimants = [d \in Reports |-> {}] /\ remover = [d \in Reports |-> NoRun]
    /\ unanswered = {}

At(p, pc) == run[p].pc = pc
Moves(p, pc) == run' = [run EXCEPT ![p].pc = pc]
Ends(p) == run' = [run EXCEPT ![p] = [IdleRun EXCEPT !.pc = "done"]]
NotParsing == UNCHANGED <<parser, parses, locationReviews>>

FailureRow(p, status) ==
    /\ failures' = failures \cup {<<run[p].report, status>>}
    /\ Ends(p)

\* get_candidate: an observed report, and a review to cite.
Candidate(doc) ==
    /\ \E r \in evidence : r.observed /\ r.doc = doc /\ r.type = "financial_report"
    /\ UsableReviews("local_storage") # {}

\* snapshot_one reads its candidate; the snapshot it saw decides what follows.
Start(p, doc) ==
    /\ At(p, "idle") /\ Candidate(doc)
    /\ run' = [run EXCEPT ![p] =
          [pc |-> IF snapshots[doc] = NoRun THEN "fetch" ELSE "validate", report |-> doc,
           review |-> Newest(UsableReviews("local_storage")), existed |-> FALSE]]
    /\ UNCHANGED <<files, snapshots, failures, claimants, remover, unanswered>> /\ NotParsing

\* validate_existing_snapshot: a row without its file is recorded as a failure,
\* and nothing fetches the file again.
ValidateExisting(p) ==
    /\ At(p, "validate")
    /\ IF run[p].report \in files THEN Ends(p) /\ UNCHANGED failures
       ELSE FailureRow(p, "validation_failed")
    /\ UNCHANGED <<files, snapshots, claimants, remover, unanswered>> /\ NotParsing

\* The bytes arrive and are those of the evidence, differ from them, or do not
\* arrive.
Fetch(p) ==
    /\ At(p, "fetch")
    /\ \/ Moves(p, "check") /\ UNCHANGED failures
       \/ \E status \in {"fetch_failed", "hash_mismatch", "validation_failed"} :
             FailureRow(p, status)
    /\ UNCHANGED <<files, snapshots, claimants, remover, unanswered>> /\ NotParsing

\* Mutant: persist_observed takes any file for its own, as it once did.
CheckTargetNever(p) ==
    /\ At(p, "check")
    /\ run' = [run EXCEPT ![p].pc = "write", ![p].existed = FALSE]
    /\ UNCHANGED <<files, snapshots, failures, claimants, remover, unanswered>> /\ NotParsing

\* target_existed is read before the write.
CheckTarget(p) ==
    /\ At(p, "check")
    /\ run' = [run EXCEPT ![p].pc = "write", ![p].existed = run[p].report \in files]
    /\ UNCHANGED <<files, snapshots, failures, claimants, remover, unanswered>> /\ NotParsing

\* The runs past their check of a report that took the file they are to write
\* for their own: persist_observed would remove it again.
Claims(doc) == {q \in SnapshotRuns : /\ run[q].report = doc /\ ~run[q].existed
                                     /\ run[q].pc \in {"write", "record", "cleanup"}}

\* write_snapshot_atomically: an equal file is kept, else a temporary one is
\* moved into place.  Out of disk it raises before the move.
WriteFile(p) ==
    /\ At(p, "write")
    /\ \/ /\ files' = files \cup {run[p].report}
          /\ claimants' = IF run[p].report \in files THEN claimants
                          ELSE [claimants EXCEPT ![run[p].report] = Claims(run[p].report)]
          /\ Moves(p, "record")
       \/ run[p].report \notin files /\ Ends(p) /\ UNCHANGED <<files, claimants>>
    /\ UNCHANGED <<snapshots, failures, remover, unanswered>> /\ NotParsing

\* _insert_snapshot: the first row of a report stands; or the database refuses;
\* or it commits and the answer is lost, which the run cannot tell from that.
Record(p) ==
    /\ At(p, "record")
    /\ \/ /\ snapshots' = IF snapshots[run[p].report] # NoRun THEN snapshots
                          ELSE [snapshots EXCEPT ![run[p].report] =
                                   [by |-> p, review |-> run[p].review]]
          /\ \/ Ends(p) /\ UNCHANGED unanswered
             \/ /\ Moves(p, "cleanup")
                /\ unanswered' = IF snapshots[run[p].report] # NoRun THEN unanswered
                                 ELSE unanswered \cup {p}
       \/ Moves(p, "cleanup") /\ UNCHANGED <<snapshots, unanswered>>
    /\ UNCHANGED <<files, failures, claimants, remover>> /\ NotParsing

\* The handler of that error removes what was not there before the write; the
\* error then ends the script.
CleanUp(p) ==
    /\ At(p, "cleanup")
    /\ IF ~run[p].existed /\ run[p].report \in files
       THEN /\ files' = files \ {run[p].report}
            /\ remover' = [remover EXCEPT ![run[p].report] = p]
       ELSE UNCHANGED <<files, remover>>
    /\ Ends(p) /\ UNCHANGED <<snapshots, failures, claimants, unanswered>> /\ NotParsing

\* The script is stopped anywhere; a file without a row stays behind.
Stop(p) ==
    /\ run[p].pc \notin {"idle", "done"}
    /\ Ends(p) /\ UNCHANGED <<files, snapshots, failures, claimants, remover, unanswered>> /\ NotParsing

AcceptedParses(doc) == {i \in DOMAIN parses : parses[i].report = doc}

\* locate_financial_report_metadata, up to its candidate: a snapshot row, a
\* review to cite, the file with its bytes, and no accepted parse so far.
StartParse(p, doc) ==
    /\ parser[p].pc = "idle"
    /\ snapshots[doc] # NoRun /\ UsableReviews("derived_research") # {}
    /\ doc \in files /\ AcceptedParses(doc) = {}
    /\ parser' = [parser EXCEPT ![p] = [pc |-> "parsing", report |-> doc]]
    /\ UNCHANGED <<files, snapshots, failures, run, parses, locationReviews, claimants, remover, unanswered>>

\* locate_metadata: a field found once is located, found more often ambiguous,
\* and otherwise has a row without a page.
Located(matches) == CASE matches = 0 -> "unresolved" [] matches = 1 -> "located"
                      [] OTHER -> "ambiguous"

\* Mutant: no index keeps a second accepted parse of the snapshot out.
AddParseAnyway(parse) == parses' = Append(parses, parse)

\* persist: the run, its pages and its locations in one transaction, which the
\* partial unique index refuses when an accepted parse is there.
AddParse(parse) ==
    parses' = IF AcceptedParses(parse.report) = {} THEN Append(parses, parse) ELSE parses

\* The text of some pages or of all was read; with no text at all, or when the
\* script is stopped, nothing is written.
Parse(p) ==
    /\ parser[p].pc = "parsing"
    /\ \/ \E status \in {"success", "partial"}, matches \in [Fields -> 0..2] :
             AddParse([by |-> p, report |-> parser[p].report, status |-> status,
                       found |-> [f \in Fields |-> Located(matches[f])]])
       \/ UNCHANGED parses
    /\ parser' = [parser EXCEPT ![p] = [IdleParser EXCEPT !.pc = "done"]]
    /\ UNCHANGED <<files, snapshots, failures, run, locationReviews, claimants, remover, unanswered>>

\* _find_observed_financial_location_evidence: the newest accepted parse of the
\* report's newest snapshot.
CurrentParse(doc) == parses[Newest(AcceptedParses(doc))]

\* _find_current_financial_location_candidate: a location with a text page.
Reviewable(by, field) ==
    \E doc \in Reports :
        /\ AcceptedParses(doc) # {}
        /\ CurrentParse(doc).by = by /\ CurrentParse(doc).found[field] # "unresolved"

\* append_financial_location_review, the first time or again.
ReviewLocation(request) ==
    /\ Reviewable(request.run, request.field)
    /\ locationReviews' = AppendReview(locationReviews, request)
    /\ Len(locationReviews') <= MaxLocationReviews
    /\ UNCHANGED <<files, snapshots, failures, run, parser, parses, claimants, remover, unanswered>>

SnapshotNext ==
    \/ \E p \in SnapshotRuns :
          \/ \E doc \in Reports : Start(p, doc)
          \/ ValidateExisting(p) \/ Fetch(p) \/ CheckTarget(p) \/ WriteFile(p)
          \/ Record(p) \/ CleanUp(p) \/ Stop(p)
    \/ \E p \in ParseRuns : Parse(p) \/ \E doc \in Reports : StartParse(p, doc)
    \/ \E request \in LocationRequests : ReviewLocation(request)
=============================================================================
