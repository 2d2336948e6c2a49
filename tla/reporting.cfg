\* Two builds of one commit, two steps, one failing call, reload or crash.
SPECIFICATION Spec
CONSTANTS
    b1 = b1
    b2 = b2
    Builds <- TwoBuilds
    MaxSteps = 2
    Configs <- AllConfigs
    MaxTroubles = 1
SYMMETRY BuildSymmetry
INVARIANTS
    TypeOK
    ConclusionFollowsRow
    RunsAreClosed
    LastWordIsOutcome
PROPERTIES
    ConclusionIsFinal
CHECK_DEADLOCK FALSE
