\* Two collectors, two terms documents in two versions, three runs of the
\* snapshot script and two of the parser.
SPECIFICATION ResearchSpec
CONSTANTS
    report = report
    notice = notice
    item = item
    yes1 = yes1
    yes2 = yes2
    no1 = no1
    Batches = {b1, b2}
    Listed <- ListedByType
    NewsRequests <- NewsIntents
    MaxNewsReviews = 3
    NoBatch = NoBatch
    Urls = {u1, u2}
    Texts = {x1, x2}
    MaxTerms = 3
    MaxUsageReviews = 2
    Reports = {report}
    SnapshotRuns = {s1, s2, s3}
    ParseRuns = {p1, p2}
    Fields = {"audit_opinion"}
    LocationRequests <- LocationIntents
    MaxLocationReviews = 2
    NoReport = NoReport
    NoRun = NoRun
SYMMETRY Symmetry
CONSTRAINT OnePartAtATime
INVARIANTS
    BatchesTellTheTruth
    DecisionsCountOnce
    RejectionsAreShown
    SnapshotsKeepTheirFiles
    ReviewedLocationsStayCurrent
CHECK_DEADLOCK FALSE
