\* What the message at queue.c:98 says of a refused call.
CONSTANTS
    num_elems = 2
    Calls = 4
SPECIFICATION Spec
PROPERTY RefusedWhenFull
CHECK_DEADLOCK FALSE
