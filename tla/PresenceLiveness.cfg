SPECIFICATION FairSpec
CONSTANTS
    cp1 = cp1
    s1 = s1
    s2 = s2
    ChargePoints = {cp1}
    Sockets = {s1, s2}
    StationOf <- OneStation
    NumConnectors = 1
    MaxCrashes = 0
    DbOutcomes = {TRUE}
    Talkers = {}
    None = None
PROPERTIES
    SilentStationIsForgotten
    HandshakeEnds
    StalePresenceKeyExpires
    HeardCloseIsUnregistered
CHECK_DEADLOCK FALSE
