SPECIFICATION Spec
CONSTANTS
    h1 = h1
    h2 = h2
    t1 = t1
    t2 = t2
    Handlers = {h1, h2}
    NumConnectors = 1
    StationIds = {1, 2}
    TxIds = {t1}
    Statuses = {"Preparing"}
    Kinds = {"Start", "Stop", "Status"}
    DbOutcomes = {TRUE, FALSE}
    NoTx = NoTx
    NoRow = NoRow
SYMMETRY Symmetry
INVARIANTS
    TypeOK
    CurrentIsOwnTransaction
    AcceptedStartIsRecorded
PROPERTY WriteBackRepairs
CHECK_DEADLOCK FALSE
