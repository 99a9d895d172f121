SPECIFICATION OutsideSpec
CONSTANTS
    Protocols = {"chat_completions", "messages", "responses"}
    Calls <- TwoCalls
    MaxText = 1
    MaxArgs = 2
    MaxRequests = 3
    None = None
    ToolCalls = {C1, C2}
    MaxLines = 4
    Checks = {C1, C2}
    Interval = 1
    StaleFallback = TRUE
    Evidence = {{"brew"}, {"npm"}, {"vendor"}, {"brew", "vendor"}}
    MaxClock = 2
    MaxNewest = 2
    MaxBegun = 2
    MaxReinstalls = 1
INVARIANTS
    AnswerArrivesWhole
    RequestsKeptApart
    ReadAsMeant
    ShownIsHonest
PROPERTIES
    KeepsPromise
CHECK_DEADLOCK FALSE
