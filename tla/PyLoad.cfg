SPECIFICATION FairSpec
CONSTANTS
    SV = {s1, s2}
    Others <- MCOthers
    HELD = 1
    LineMax = 2
    AskMax = 2
    Files <- MCFiles
INVARIANTS
    FedOnlyWhenAsked
    FedIsDump
PROPERTIES
    LoadEnds
CHECK_DEADLOCK FALSE
