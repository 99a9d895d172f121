SPECIFICATION Spec
CONSTANTS
    t1 = t1  t2 = t2  v1 = v1  v2 = v2
    Servers <- OneServer
    Prints <- TwoPrints
    Ops = {o1, o2, o3}
    Kinds <- DecideKinds
    Conns <- Launch1
    Listings <- OneList
    InitialTrust <- AllApproved
    Limit = 1
    MaxEdits = 1
INVARIANTS OnlyCurrentInstalled DecisionsSerial
CHECK_DEADLOCK FALSE
SYMMETRY Symmetry
