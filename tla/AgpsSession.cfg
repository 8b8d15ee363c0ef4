SPECIFICATION SessionFairSpec
CONSTANTS
    FRAMES_PER_READ = 2
    Sats = 1
    Stale = 1
    LineMax = 2
    AskMax = 1
    DUMP_SIZE = 428
    OldFiles <- MCOldFiles
INVARIANTS
    SavedAsCounted
    DumpBufferFits
    PositionSwitchedOff
    LoadedFromDump
PROPERTIES
    OldDumpKept
    DumpEnds
    CompleteDumpLoads
CHECK_DEADLOCK FALSE
