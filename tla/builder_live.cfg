\* A database that works, a daemon that may die at any time.
SPECIFICATION FairSpec
CONSTANTS
    MaxSteps = 2
    Clients = {c1}
    Faults = {"github", "crash"}
    PatConfigured = TRUE
INVARIANTS
    StatusFollowsRow
PROPERTIES
    BuildSettles
    RefinesGoroutine
    WorkspaceReturns
    CancelOfRunningStepWins
CHECK_DEADLOCK FALSE
