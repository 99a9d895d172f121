SPECIFICATION FairSpec
CONSTANTS
    Sessions = {s1, s2}
    Stored = {s1}
    NoSession = NoSession
    Prompts = {p1}
    None = None
    Requests = {"submit", "resume", "switch", "new", "phase", "mode", "definition", "mcp"}
    MaxOps = 3
    MaxNew = 2
    MaxAsks = 1
    DrainMax = 1
INVARIANTS
    OneDriverPerSession
    ScreenAccounts
    NothingUnasked
PROPERTIES
    AdoptsWhatWasAsked
    CancelFrees
CHECK_DEADLOCK FALSE
