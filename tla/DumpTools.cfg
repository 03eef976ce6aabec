\* Two files' numbers and three pictures: a number comes round while another file is
\* finished.  Two slots instead of one only repeat the dump of a slot.
CONSTANTS
    SCAN_BUF_SIZE = 1
    FILE_NUMBER_MAX = 2
    Pictures = 3
    Posts = 1
SPECIFICATION Spec
INVARIANTS
    PicturesWhole
    DumpsRight
CHECK_DEADLOCK FALSE
