\* A frame every second tick, with which sequence wraps; one post, index and picture at a time.
CONSTANTS
    SEQUENCE_DIV = 2
    SEQUENCE_WRAP = 2
    WRITEOUT_TOTAL_FRAMES = 1
    MaxPosts = 1
    MaxWaiting = 1
SPECIFICATION FairSpec
INVARIANTS
    TeardownOnlyWhenStopped
    FrameUnblocked
PROPERTIES
    FreezeEnds
    StopEnds
    FramePacing
CHECK_DEADLOCK FALSE
