\* Two requests at a time, one ref that moves, a crash or a failing call.
SPECIFICATION Spec
CONSTANTS
    c1 = c1
    c2 = c2
    Clients <- TwoClients
    Poller = poller
    NRefs = 1
    MaxTip = 2
    MaxIds = 2
    MaxNumber = 1
    QueueCap = 1
    MaxTroubles = 1
INVARIANTS
    TypeOK
    SnapshotIsLeft
    DirectoriesAreKnown
PROPERTY
    AddedStaysTracked
SYMMETRY
    Interchangeable
CHECK_DEADLOCK FALSE
