SPECIFICATION FairSpec
CONSTANTS
    Callers = {c1}
    Silent = {}
    Closers = {k1}
    Nobody = Nobody
    QueueSize = 1
    LinesSize = 1
    MaxPending = 1
PROPERTIES
    ShutdownReturns
    CallReturns
CHECK_DEADLOCK FALSE
