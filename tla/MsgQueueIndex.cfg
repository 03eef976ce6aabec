\* What queue.c:7-8 says the queues do.
CONSTANTS
    num_elems = 2
    Calls = 4
SPECIFICATION Spec
INVARIANT PassedByIndex
CHECK_DEADLOCK FALSE
