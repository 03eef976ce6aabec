\* The test cases of tests.c and every set of three services with small periods.
CONSTANTS
    LCM = 10
    CustomPeriods = {2, 3, 4, 5, 6}
    CustomWcets = {1, 2, 3}
SPECIFICATION ScheduleSpec
INVARIANTS
    MissesCounted
    ProtocolFollowed
    TestsAgree
    OptimalWhenFits
CHECK_DEADLOCK FALSE
