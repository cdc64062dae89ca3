CONSTANTS
    bp = bp
    up = up
    read = read
    con = con
    bad = bad
    Requests <- MCRequests
    Kind <- MCKind
    PoolSize = 3
    Free = Free
    None = None
    Sim = Sim
SPECIFICATION FairSpec
CHECK_DEADLOCK FALSE
INVARIANTS TypeOK OneConnectIsSafe IdleMeansConsistent
PROPERTIES Answered ConnectedTeardownReturns
