SPECIFICATION BothSpec
CONSTANTS
    Protocols = {"chat_completions", "messages", "responses"}
    Grants = {}
    MaxTurns = 3
    MaxRounds = 1
    MaxSwitches = 2
    MaxModeChanges = 0
    MaxModeFailures = 0
    MaxCrashes = 1
INVARIANTS
    ModelKnowsMode
    PromptsInOrder
    FinishedRemembered
CHECK_DEADLOCK FALSE
