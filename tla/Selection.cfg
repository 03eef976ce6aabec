\* The program's own numbers; a hand that moves for up to half a
\* second, multiples of SearchLength (5 and 10) included; counts of up to two seconds.
CONSTANTS
    MOTION_BOOKEND_FRAMES = 3
    MOTION_FRAMES_SEC = 25
    MOTION_FRAMES_DRIFT = 3
    MOTION_SELECTIONS_IGNORE = 5
    GOOD_FRAMES_SYNC = 9
    GOOD_FRAMES_ALWAYS = 4
    Bursts = {1, 2, 3, 4, 5, 6, 7, 8, 9, 10, 11, 12}
    FrameBound = 50
SPECIFICATION FairSpec
INVARIANTS
    SelectedAtRest
    HiddenTicks
PROPERTIES
    TickDelay
    FreezeOnlyAtSync
    SelectionSpacing
    StartupEnds
CHECK_DEADLOCK FALSE
