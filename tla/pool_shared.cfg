\* Two users of one repository, no pruner and no fault.
SPECIFICATION Spec
CONSTANTS
    u1 = u1
    u2 = u2
    u3 = u3
    r1 = r1
    r2 = r2
    Repos <- OneRepo
    Users <- TwoUsers
    RepoOf <- SameRepo
    Twins = {}
    Prune = FALSE
    MaxRows = 2
    MaxFaults = 0
SYMMETRY UserSymmetry
INVARIANTS
    OwnCheckout
CHECK_DEADLOCK FALSE
