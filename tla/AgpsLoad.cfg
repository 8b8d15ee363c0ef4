SPECIFICATION FairSpec
CONSTANTS
    FRAMES_PER_READ = 2
    LineMax = 2
    AskMax = 2
    FileMax = 3
    Files <- MCFiles
INVARIANTS
    FedOnlyWhenAsked
    IniIsLast
    FedUpToPosition
PROPERTIES
    LoadEnds
CHECK_DEADLOCK FALSE
