SPECIFICATION Spec
CONSTANTS
    NoCall = NoCall
    outer = outer
    blob = blob
    shell = shell
    denied = denied
    remote = remote
    Calls = {remote, outer, denied}
    Tool <- MCTool
    Policy <- MCPolicy
    Target <- MCTarget
    Previewable <- MCPreviewable
    LaunchApprovals = {"ask", "approve_all", "full_access", "deny_all"}
    MaxTurns = 1
    MaxCancels = 1
    MaxModeChanges = 1
    MaxCrashes = 0
INVARIANTS
    Gated
    FinishedMeansAnswered
    OneLateEffect
CHECK_DEADLOCK FALSE
