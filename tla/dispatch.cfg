\* Two refs, two pushes, one retry, one crash or failed write.
SPECIFICATION FairSpec
CONSTANTS
    NRefs = 2
    NCommits = 2
    Unbuildable <- OneUnbuildable
    QueueCap = 1
    Limits = {1, 2}
    MaxPushes = 2
    MaxRetries = 1
    MaxFaults = 1
INVARIANTS
    TypeOK
    UnfinishedIsLive
    RefsFollowQueue
    OneBuildPerPush
PROPERTIES
    StartsWithinLimit
    CatchesUp
CHECK_DEADLOCK FALSE
