SPECIFICATION FairSpec
CONSTANTS
    FRAME_SIZE = 3
    SYNC_SIZE = 2
    READ_SIZE = 3
    Lengths = {7, 9}
    MaxHeads = 2
    Needs = {3, 4, 6}
    Sources = {"tty", "pipe"}
    Streams <- MCStreams
PROPERTIES
    ArrivedIsHandled
CHECK_DEADLOCK FALSE
