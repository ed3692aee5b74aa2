SPECIFICATION RegistrySpec
CONSTANTS
    cp1 = cp1
    cp2 = cp2
    s1 = s1
    s2 = s2
    s3 = s3
    s4 = s4
    ChargePoints = {cp1, cp2}
    Sockets = {s1, s2, s3, s4}
    StationOf <- StationOfSocket
    NumConnectors = 1
    MaxCrashes = 1
    None = None
SYMMETRY SocketSymmetry
INVARIANTS
    ClosedEntryIsOnItsWayOut
    DeadMeansPinged
PROPERTIES
    OnlyAnOverlapDisplaces
    ListingSpec
CHECK_DEADLOCK FALSE
