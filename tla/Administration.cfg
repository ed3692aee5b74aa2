SPECIFICATION Spec
CONSTANTS
    r1 = r1
    r2 = r2
    u1 = u1
    u2 = u2
    f1 = f1
    f2 = f2
    v1 = v1
    c1 = c1
    c2 = c2
    c3 = c3
    t1 = t1
    t2 = t2
    t3 = t3
    Requests = {r1, r2}
    Users = {u1, u2}
    Fleets = {f1, f2}
    Vehicles = {v1}
    Nobody = Nobody
    Changes = {c1, c2, c3}
    Prices = {0, 30}
    Fallback = 15
    MaxPrice = 1000
    True = True
    Nothing = Nothing
    Empty = Empty
    OtherText = OtherText
    Absent = Absent
    Inputs <- FewInputs
    Transactions = {t1, t2, t3}
    Times = {1, 2, 3}
    PageSize = 2
    Never = Never
SYMMETRY Symmetry
INVARIANTS
    AdministrationTypeOK
    VehicleHasOneSide
    FailedRequestWroteNothing
    SetPriceIsAdvertised
    EveryRowIsShown
PROPERTIES
    FirstFleetStays
    TagIsKept
    ChangeWasNoted
    EntryTellsTheChange
CHECK_DEADLOCK FALSE
