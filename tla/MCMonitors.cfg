CONSTANTS
    Workers = {w1, w2}
    Blocks = {b1, b2, b3}
    Tops <- MCTops
    InitTop <- MCInitTop
    Names <- MCNames
    Paths <- MCPaths
    Short <- MCShort
    Signals <- MCSignals
    Full <- MCFull
    Freed = Freed
    Garbled = Garbled
    Free = Free
    NoReport = NoReport
SPECIFICATION Spec
CHECK_DEADLOCK FALSE
SYMMETRY Symmetry
INVARIANTS
    TypeOK
    OnlyWantedReports
    WantedAreReported
    OneReportPerChange
    FreedIsNotUsed
    ReportNamesItsSignal
