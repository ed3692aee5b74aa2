SPECIFICATION FairSpec
CONSTANTS
    u1 = u1
    u2 = u2
    u3 = u3
    Calls = {u1, u2, u3}
    NoOutcome = NoOutcome
INVARIANTS
    TypeOK
    WaitingCallIsReachable
    LeakIsTimeoutOrThrow
PROPERTIES
    FutureSpec
CHECK_DEADLOCK FALSE
