SPECIFICATION FairSpec
CONSTANTS
    FRAME_SIZE = 3
    SYNC_SIZE = 2
    READ_SIZE = 3
    Lengths = {10}
    MaxHeads = 3
    Needs = {3, 4, 6}
    Sources = {"tty", "pipe"}
    Streams <- MCStreams
INVARIANTS
    NoFrameLost
PROPERTIES
    ImplementsDeframer
    PipeIsDrained
CHECK_DEADLOCK FALSE
