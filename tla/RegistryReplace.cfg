SPECIFICATION RegistrySpec
CONSTANTS
    cp1 = cp1
    cp2 = cp2
    s1 = s1
    s2 = s2
    s3 = s3
    s4 = s4
    ChargePoints = {cp1}
    Sockets = {s1, s2}
    StationOf <- StationOfSocket
    NumConnectors = 2
    MaxCrashes = 0
    None = None
PROPERTY ReplacementSurvives
CHECK_DEADLOCK FALSE
