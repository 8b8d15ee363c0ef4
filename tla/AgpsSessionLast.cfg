SPECIFICATION SessionSpec
CONSTANTS
    FRAMES_PER_READ = 2
    Sats = 1
    Stale = 0
    LineMax = 2
    AskMax = 1
    DUMP_SIZE = 268
    OldFiles <- MCOldFiles
INVARIANTS
    PositionIsLast
CHECK_DEADLOCK FALSE
