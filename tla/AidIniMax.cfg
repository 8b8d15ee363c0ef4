SPECIFICATION IniSpec
CONSTANTS
    WORD = 128
    HALF = 8
    DAY = 3
    SECOND = 3
    EPOCH = 5
    C_LEAPS = 2
    PY_LEAPS = 1
    POSITION_ACCURACY_MIN_CM = 5
    POSITION_ACCURACY_MAX_CM = 9
    PACC = 7
    TIME_ACCURACY = 4
    Programs = {"c"}
    Moments <- MCMoments
    Leaps = {1, 2, 3}
    PAccs = {0, 4, 5, 6, 8, 9, 10, 127}
INVARIANTS
    PositionWithheld
CHECK_DEADLOCK FALSE
