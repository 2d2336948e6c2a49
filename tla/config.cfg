\* The defaults and another version of the settings, four writes, three stamps.
SPECIFICATION FairSpec
CONSTANTS
    plain = plain
    v1 = v1
    Versions <- UserVersions
    Plain <- plain
    Unset = unset
    MaxStamp = 3
    MaxEdits = 4
INVARIANTS
    TypeOK
    UpToDate
PROPERTY
    CatchesUpWithFile
CHECK_DEADLOCK FALSE
