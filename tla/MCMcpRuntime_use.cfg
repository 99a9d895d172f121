SPECIFICATION Spec
CONSTANTS
    t1 = t1  t2 = t2  v1 = v1  v2 = v2
    Servers <- OneServer
    Prints <- TwoPrints
    Ops = {o1, o2, o3}
    Kinds <- UseKinds
    Conns <- Launches2
    Listings <- Lists
    InitialTrust <- AllApproved
    Limit = 1
    MaxEdits = 1
INVARIANTS CallReachesFrozen EveryChildOwned ShutdownDrains
CHECK_DEADLOCK FALSE
SYMMETRY Symmetry
