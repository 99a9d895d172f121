SPECIFICATION BothSpec
CONSTANTS
    Protocols = {"chat_completions"}
    Grants = {}
    MaxTurns = 2
    MaxRounds = 0
    MaxSwitches = 2
    MaxModeChanges = 0
    MaxModeFailures = 0
    MaxCrashes = 0
INVARIANTS
    NewProviderNotBlind
CHECK_DEADLOCK FALSE
