\* The program's own numbers; longer than the ring without a tick.
CONSTANTS
    SCAN_BUF_SIZE = 90
    NUM_WO_BUF = 3
    FRAME_MS = 40
    Leads = {0, 1, 10, 80}
    FrameBound = 100
SPECIFICATION Spec
PROPERTIES
    TenPerSecond
    EveryTenthOnce
    SyncIsClose
    SyncEnds
CHECK_DEADLOCK FALSE
