\* One request at a time, two refs, a crash or a failing call.
SPECIFICATION FairSpec
CONSTANTS
    c1 = c1
    c2 = c2
    Clients <- OneClient
    Poller = poller
    NRefs = 2
    MaxTip = 1
    MaxIds = 2
    MaxNumber = 3
    QueueCap = 1
    MaxTroubles = 1
PROPERTY
    CatchesUp
CHECK_DEADLOCK FALSE
