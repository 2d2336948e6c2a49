\* Without any fault, a hanging shell and a deadline that finds no pid.
SPECIFICATION FairSpec
CONSTANTS
    MaxSteps = 2
    Clients = {c1}
    Faults = {}
    PatConfigured = TRUE
PROPERTIES
    TimeoutEndsBuild
CHECK_DEADLOCK FALSE
