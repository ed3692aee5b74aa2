SPECIFICATION Spec
CONSTANTS
    h1 = h1
    h2 = h2
    t1 = t1
    Handlers = {h1, h2}
    Transactions = {t1}
    Readings <- FourReadings
    Messages <- OneOrTwoSamples
    Outcomes = {TRUE, FALSE}
    NoSoc = NoSoc
SYMMETRY HandlerSymmetry
INVARIANTS
    TypeOK
PROPERTIES
    ReadingKeptUntilStop
    FirstReadingStays
    MessageLeavesItsLastReading
    StopTakesLastReading
CHECK_DEADLOCK FALSE
