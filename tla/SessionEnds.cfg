SPECIFICATION FairSpec
CONSTANTS
    h1 = h1
    h2 = h2
    t1 = t1
    t2 = t2
    Handlers = {h1}
    NumConnectors = 1
    StationIds = {0, 1}
    TxIds = {t1}
    Statuses = {"Preparing"}
    Kinds = {"Start", "Stop", "Status", "Heartbeat"}
    DbOutcomes = {TRUE, FALSE}
    NoTx = NoTx
    NoRow = NoRow
PROPERTY HandlersEnd
CHECK_DEADLOCK FALSE
