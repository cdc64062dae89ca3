CONSTANTS
    Workers = {w1, w2}
    MaxReleases = 6
    MaxSynch = 1
    SimLength = 3
CHECK_DEADLOCK FALSE
SPECIFICATION SessionFairSpec
PROPERTY StopEnds
