SPECIFICATION FairSpec
CONSTANTS
    r1 = r1
    r2 = r2
    v1 = v1
    x1 = x1
    x2 = x2
    f1 = f1
    f2 = f2
    Requests = {r1, r2}
    Connectors = {1}
    Vehicles = {v1}
    Values = {x1, x2}
    Versions = {f1, f2}
    MaxObjects = 2
    Mixes <- FourMixes
    None = None
INVARIANTS
    RemoteTypeOK
    OwnVehicle
    RowWasAnswered
    OldVersionNeedsOverlap
PROPERTIES
    AcceptedChangeIsStored
    ReportsAreKept
    RequestsEnd
CHECK_DEADLOCK FALSE
