SPECIFICATION FairSpec
CONSTANTS
    MaxTurns = 2
    MaxRestarts = 1
    StreamSize = 1
INVARIANTS
    EndsWithItsAgent
    ContinuesThread
PROPERTIES
    CancelEndsTurn
CHECK_DEADLOCK FALSE
