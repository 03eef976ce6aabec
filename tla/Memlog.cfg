\* Three entries and up to four logged: the ring wraps; a file shorter or longer than the log.
CONSTANTS
    NSEC = 2
    MEMLOG_MAX = 3
    Events = {"S1_RUN", "ADATA"}
    DataEvents = {"ADATA"}
    Entries = 4
    Gaps = {0, 3}
    Older = {0, 3}
SPECIFICATION Spec
INVARIANTS
    KeepsLast
    DumpFaithful

    
CHECK_DEADLOCK FALSE
