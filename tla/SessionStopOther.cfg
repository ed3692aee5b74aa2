SPECIFICATION Spec
CONSTANTS
    h1 = h1
    h2 = h2
    t1 = t1
    t2 = t2
    Handlers = {h1}
    NumConnectors = 2
    StationIds = {1, 2}
    TxIds = {t1, t2}
    Statuses = {"Preparing"}
    Kinds = {"Start", "Stop"}
    DbOutcomes = {TRUE}
    NoTx = NoTx
    NoRow = NoRow
INVARIANT StopLeavesOtherSessions
CHECK_DEADLOCK FALSE
