\* Two users of one repository, the pruner and one fault.
SPECIFICATION Spec
CONSTANTS
    u1 = u1
    u2 = u2
    u3 = u3
    r1 = r1
    r2 = r2
    Repos <- OneRepo
    Users <- TwoUsers
    RepoOf <- SameRepo
    Twins = {}
    Prune = TRUE
    MaxRows = 2
    MaxFaults = 1
SYMMETRY UserSymmetry
INVARIANTS
    TypeOK
    BusyIsHeld
    SerialPoolIsSound
    OrphansAreLeftAlone
CHECK_DEADLOCK FALSE
