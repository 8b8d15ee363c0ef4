SPECIFICATION CodecSpec
CONSTANTS
    Repeats = {0, 1}
    Others = {0, 2, 4}
    Frames <- MCFrames
INVARIANT UnpackFits
CHECK_DEADLOCK FALSE
