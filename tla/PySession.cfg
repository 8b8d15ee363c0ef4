SPECIFICATION SessionFairSpec
CONSTANTS
    SV = {s1, s2}
    HELD = 1
    LineMax = 2
    TxMax = 4
    AskMax = 1
    Others <- MCOthers
    OldFiles <- MCOldFiles
INVARIANTS
    SavedIsData
    LoadedFromDump
PROPERTIES
    OldDumpKept
    PositionSwitchedOff
    DumpEnds
CHECK_DEADLOCK FALSE
