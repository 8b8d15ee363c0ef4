SPECIFICATION FairSpec
CONSTANTS
    SV = {s1, s2}
    Others <- MCOthers
    HELD = 1
    LineMax = 2
    AskMax = 2
    Files <- MCFiles
PROPERTIES
    RequestNotMissed
CHECK_DEADLOCK FALSE
