SPECIFICATION FairSpec
CONSTANTS
    NoCall = NoCall
    outer = outer
    blob = blob
    shell = shell
    denied = denied
    remote = remote
    Calls = {blob, shell}
    Tool <- MCTool
    Policy <- MCPolicy
    Target <- MCTarget
    Previewable <- MCPreviewable
    LaunchApprovals = {"ask"}
    MaxTurns = 2
    MaxCancels = 1
    MaxModeChanges = 0
    MaxCrashes = 1
INVARIANTS
    NoStrayChild
    LogOrdered
    NoUnmatchedRequest
PROPERTIES
    CancelEndsTurn
CHECK_DEADLOCK FALSE
