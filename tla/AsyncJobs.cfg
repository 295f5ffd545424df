SPECIFICATION FairSpec
CONSTANTS
    Jobs = {j1}
    CeleryWorkers = {c1, c2}
    HttpWorkers = {h1}
    Beat = beat
    NoJob = nojob
    MaxRetries = 1
    MaxMessages = 2
    MaxFaults = 1
INVARIANTS
    JobRowsAreSound
    OneOwner
PROPERTIES
    ImplementsContract
    EveryJobEnds
