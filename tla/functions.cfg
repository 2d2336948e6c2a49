\* Every pure function on every input of bounded size.
SPECIFICATION Spec
CONSTANTS
    Names <- MCNames
    HEAD = "HEAD"
    Globs <- MCGlobs
    Nested = "-"
    Valid <- MCValid
    Matches <- MCMatches
    Hex <- MCHex
    Lower <- MCLower
    MinLen = 2
    MaxDescription = 140
    HintLength = 18
    MaxText = 65535
    MaxError = 2000
    NoErrorText = 15
    Nodes <- MCNodes
    FewNodes <- MCFewNodes
    Refs <- MCRefs
    Tables <- MCTables
    Arguments <- MCArguments
    Newcomers <- MCNewcomers
    NameLengths <- MCNameLengths
    ErrorLengths <- MCErrorLengths
    IdLengths <- MCIdLengths
    HeadLengths <- MCHeadLengths
    TailLengths <- MCTailLengths
    SkipLengths <- MCSkipLengths
INVARIANTS
    FiltersDecideAsMeant
    PrefixesAreStable
    TargetsAreFound
    TextsFit
CHECK_DEADLOCK FALSE
