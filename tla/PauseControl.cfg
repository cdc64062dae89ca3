CONSTANTS
    Workers = {w1, w2}
    MaxReleases = 1
    MaxSynch = 1
SPECIFICATION FairSpec
CHECK_DEADLOCK FALSE
INVARIANTS
    TypeOK
    BlockedIsVisible
    EachPassHasItsRelease
    FreeLockIsUnusedRelease
PROPERTIES ReleaseResumes TeardownWaitsForOthers
