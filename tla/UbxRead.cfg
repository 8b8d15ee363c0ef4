SPECIFICATION FairSpec
CONSTANTS
    FRAME_SIZE = 3
    SYNC_SIZE = 2
    BUFFER_SIZE = 8
    HIGH_WATER = 4
    READ_SIZE = 4
    Lengths = {9}
    MaxHeads = 3
    Needs = {3, 5, 9}
    Bursts <- MCBursts
    Sources = {"tty", "file"}
    Streams <- MCStreams
INVARIANTS
    OverrunHasCause
    BufferIsWindow
    FramesInOrder
    NoFrameLost
PROPERTIES
    ImplementsDeframer
    FileIsDrained
CHECK_DEADLOCK FALSE
