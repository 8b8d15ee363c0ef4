SPECIFICATION SessionSpec
CONSTANTS
    SV = {s1, s2}
    Others <- MCOthers
    HELD = 1
    LineMax = 2
    TxMax = 4
    AskMax = 1
    OldFiles <- MCOldFiles
SYMMETRY Satellites
INVARIANTS
    UnknownIsPassedOver
CHECK_DEADLOCK FALSE
