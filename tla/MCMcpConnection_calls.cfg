SPECIFICATION Spec
CONSTANTS
    Callers = {c1, c2}
    Silent = {c2}
    Closers = {k1}
    Nobody = Nobody
    QueueSize = 1
    LinesSize = 1
    MaxPending = 1
INVARIANTS
    NoServerAfterShutdown
PROPERTIES
    KeepsPromise
CHECK_DEADLOCK FALSE
