------------------------------ MODULE Timespec ------------------------------
(***************************************************************************)
(* struct timespec and timespec_subtract (timetools.c), which the logs, the *)
(* synchronisation of processing() and the offline tools measure with.      *)
(***************************************************************************)
EXTENDS Integers

CONSTANT NSEC          \* nanoseconds in a second: 1000000000 in the code

ASSUME TimespecAssumption == NSEC \in Nat \ {0}

timespec == [tv_sec : Int, tv_nsec : Int]

\* what clock_gettime gives
Normalised == [tv_sec : Nat, tv_nsec : 0 .. NSEC - 1]

\* the instant a timespec stands for
Total(t) == NSEC * t.tv_sec + t.tv_nsec

Carry(y, seconds) == [tv_sec |-> y.tv_sec + seconds, tv_nsec |-> y.tv_nsec - NSEC * seconds]

\* "Perform the carry for the later subtraction by updating y": y as both ifs leave it
CarryTwice(x, y) ==
    LET y1 == IF x.tv_nsec < y.tv_nsec
                THEN Carry(y, (y.tv_nsec - x.tv_nsec) \div NSEC + 1) ELSE y
    IN  IF x.tv_nsec - y1.tv_nsec > NSEC
          THEN Carry(y1, -((x.tv_nsec - y1.tv_nsec) \div NSEC)) ELSE y1

\* result, what has become of y, and "1 if the difference is negative"
timespec_subtract(x, y) ==
    LET y2 == CarryTwice(x, y)
    IN  [result   |-> [tv_sec |-> x.tv_sec - y2.tv_sec, tv_nsec |-> x.tv_nsec - y2.tv_nsec],
         y        |-> y2,
         negative |-> x.tv_sec < y2.tv_sec]
=============================================================================
