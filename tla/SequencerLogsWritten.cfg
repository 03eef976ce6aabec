\* What sequencer.c:9-10 promises once all threads are gone.
CONSTANTS
    SEQUENCE_DIV = 1
    SEQUENCE_WRAP = 1
    WRITEOUT_TOTAL_FRAMES = 1
    MaxPosts = 1
    MaxWaiting = 1
SPECIFICATION FairSpec
PROPERTY LogsWritten
CHECK_DEADLOCK FALSE
