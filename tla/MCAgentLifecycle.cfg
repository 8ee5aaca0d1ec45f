SPECIFICATION FairSpec
CONSTANTS
    Callers = {c1, c2}
    Closers = {z1, z2}
    Nobody = Nobody
INVARIANTS
    TypeOK
    FailedCallLeavesNothing
    ClosedAgentIsDown
    OneSubprocess
    PublishedOutlivesCall
PROPERTIES
    CloseReturns
    CanceledCallReturns
    OrderlyClose
CHECK_DEADLOCK FALSE
