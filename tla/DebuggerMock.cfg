CONSTANTS
    Workers = {w1}
    MaxReleases = 6
    MaxSynch = 0
    Regs = {r1, r2}
    SimLength = 4
    NumWaitReset = 1
SPECIFICATION MockFairSpec
CHECK_DEADLOCK FALSE
INVARIANTS PausedMeansStopped AllRecorded
PROPERTIES LockstepSpec SessionEnds
