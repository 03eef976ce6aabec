\* A ring of 4 is the smallest in which the compare of two slots leaves a spare
\* slot and the ring can wrap under a queue that is neither empty nor full.
CONSTANTS
    SCAN_BUF_SIZE = 4
    NUM_WO_BUF = 2
    MOTION_FRAMES_SEC = 2
    MOTION_FRAMES_DRIFT = 1
    WRITEOUT_TOTAL_FRAMES = 3
    Frames = 10
SPECIFICATION FairSpec
INVARIANTS
    FullCheckTooLate
    SelectedAccounted
PROPERTIES
    SelectedIsWritten
    Headroom
    WrittenSpacing
    ImplementsTickPhotos
CHECK_DEADLOCK FALSE
