SPECIFICATION MessagesSpec
CONSTANTS
    Bytes = {0, 1, 128, 255}
    PayloadMax = 3
    WORD = 128
    HALF = 8
    DAY = 3
    SECOND = 3
    EPOCH = 5
    C_LEAPS = 2
    PY_LEAPS = 1
    POSITION_ACCURACY_MIN_CM = 5
    POSITION_ACCURACY_MAX_CM = 9
    PACC = 7
    TIME_ACCURACY = 4
    Programs = {"c", "py"}
    Moments <- MCMoments
    Leaps = {1, 2, 3}
    PAccs = {0, 4, 5, 6, 8, 9, 10, 127}
    Repeats = {0, 1, 2, 3}
    Others = {}
    Frames <- MCFrames
INVARIANTS
    IntactIsAccepted
    DamagedIsRejected
    IniTypeOK
    TimeWithinAccuracy
    UnpackFits
    DecodedIsStruct
    SentAsDumped
    BothDumpTheSame
CHECK_DEADLOCK FALSE
