\* Three buffers as in resources.h, and pictures enough for each of them to be
\* filled twice.
CONSTANTS
    CAMERA_NUM_BUF = 3
    Pictures = 6
SPECIFICATION Spec
INVARIANTS
    ReleasedOnce
    NothingLeft
    FrameHasBuffers
PROPERTIES
    CloseIsLast
    PicturesInOrder
    ImplementsHandover
CHECK_DEADLOCK FALSE
