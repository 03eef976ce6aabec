\* Two entries and four calls: the queue fills, empties and is refused.
CONSTANTS
    num_elems = 2
    Calls = 4
SPECIFICATION Spec
INVARIANTS
    FifoUntilRace
    CountUntilRace
    ReceivedWasGiven
    TimeOutMeansLate
CHECK_DEADLOCK FALSE
