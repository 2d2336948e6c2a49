\* Two users of o/n and one of o/n-1, no pruner and no fault.
SPECIFICATION Spec
CONSTANTS
    u1 = u1
    u2 = u2
    u3 = u3
    r1 = r1
    r2 = r2
    Repos <- TwoRepos
    Users <- ThreeUsers
    RepoOf <- LastUsesOther
    Twins <- NumberedName
    Prune = FALSE
    MaxRows = 3
    MaxFaults = 0
INVARIANTS
    PoolsAreDisjoint
CHECK_DEADLOCK FALSE
