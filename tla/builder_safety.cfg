\* Every fault, two clients, safety and refinement.
SPECIFICATION Spec
CONSTANTS
    MaxSteps = 2
    Clients = {c1, c2}
    Faults = {"db", "github", "stop", "crash"}
    PatConfigured = TRUE
SYMMETRY ClientSymmetry
INVARIANTS
    TypeOK
    VerdictSound
    EarlierStepsPassed
    ShellHasWorkspace
    NoShellAfterVerdict
    WatcherOutlivedByBuild
PROPERTIES
    OutcomeIsFinal
    RefinesLifecycle
CHECK_DEADLOCK FALSE
