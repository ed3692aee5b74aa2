SPECIFICATION Spec
CONSTANTS
    cp1 = cp1
    s1 = s1
    s2 = s2
    ChargePoints = {cp1}
    Sockets = {s1, s2}
    StationOf <- OneStation
    NumConnectors = 1
    MaxCrashes = 1
    DbOutcomes = {TRUE, FALSE}
    Talkers = {s1, s2}
    None = None
SYMMETRY SocketSymmetry
INVARIANTS
    TypeOK
    OfflineOnlyByUnregister
CHECK_DEADLOCK FALSE
