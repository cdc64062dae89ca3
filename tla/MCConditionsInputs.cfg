CONSTANTS
    Ids = {id1, id2}
    Workers = {w1, w2}
    Symbols <- MCSymbols
    Time <- MCTime
    Exprs <- MCExprs
    Inputs <- MCInputs
    Recognised <- MCRecognised
    NoExpr = NoExpr
    Free = Free
SPECIFICATION Spec
CHECK_DEADLOCK FALSE
INVARIANT AcceptedReadsItsInputs
