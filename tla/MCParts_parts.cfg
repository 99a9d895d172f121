SPECIFICATION PartsSpec
CONSTANTS
    MaxEvent = 4
    MaxStream = 9
    Posts = {1, 2}
    Permits = 1
    AuxPermits = 1
    Turns = {1, 2}
    MaxAsks = 1
    None = None
    P1 = P1
    P2 = P2
    M1 = M1
    M2 = M2
    Q2 = Q2
    Order <- OneThenTwo
    Qualified <- SecondNamed
    FallbackModel <- SecondFallsBack
    DefaultModel = M1
    LastUsed = None
    StaleFallback = TRUE
    Weak = {M1}
    Requested <- FewRequests
    Lists <- SomeLists
    Kept <- NoneOldOrNew
    Flows = {f1, f2}
    MaxChanges = 1
    Tasks = {t1, t2}
    Paths = {a}
    MaxWorkers = 1
    A1 = A1
    A2 = A2
    MA = MA
    Providers = {P1, P2}
    Keyless = {P2}
    Installed = {A1, A2}
    ModelIds = {M1, M2, MA}
    Home <- OneEach
    Default = Default
    MaxSelection = 2
    Commands = {1}
    MaxNumber = 3
    ShardSize = 2
    ChainLength = 2
    MaxCommands = 3
    MaxEdits = 1
    Migrations <- Ledger
    Columns = {"told_phase"}
    Ids = {i1, i2}
    Names = {n1}
    ProfileNames = {P1, P2}
    Agents = {codex}
    Protocol <- OtherProtocols
    Workspaces = {w1, w2}
    Configs <- OneRemoved
    Wishes <- OneWish
    MaxRuns = 2
    MaxTroubles = 1
    MaxEvents = 1
SYMMETRY Symmetry
INVARIANTS
    SessionsKept
    BudgetIsExact
    HttpEndsClean
    OneAgentOneTurn
    FailoverIsHonest
    WorkersBounded
    AgentGetsItsModel
    NothingConsumed
CHECK_DEADLOCK FALSE
