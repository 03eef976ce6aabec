---------------------------- MODULE Feasibility ----------------------------
(***************************************************************************)
(* The two tests of src/feasibility for services of fixed priority, in the  *)
(* order of their index, and the services of tests.c.  A set of services is *)
(* [period, wcet], two sequences of the same length.  ceil and floor of a   *)
(* quotient of small doubles are exact.                                     *)
(***************************************************************************)
EXTENDS Integers, Sequences

Services(s) == 1 .. Len(s.period)
Ceil(a, b)  == (a + b - 1) \div b
SumTo(n, f) == LET sum[k \in 0 .. n] == IF k = 0 THEN 0 ELSE sum[k - 1] + f[k] IN sum[n]

\* The work that the first n services ask for in the first `time` ticks.
Released(s, n, time) ==
    SumTo(n, [j \in 1 .. n |-> Ceil(time, s.period[j]) * s.wcet[j]])

\* a mistake in Anext: a release just begun counts as not yet begun
AnextFloor(s, i, an) ==
    s.wcet[i] + SumTo(i - 1, [j \in 1 .. i - 1 |-> (an \div s.period[j]) * s.wcet[j]])

\* completion_time_feasibility: "anext", one pass of the while(1)
Anext(s, i, an) == s.wcet[i] + Released(s, i - 1, an)

\* its loop for service i: an starts as one run of each and ends when it repeats
CompletionTime(s, i) ==
    LET loop[an \in Nat] == LET anext == Anext(s, i, an)
                            IN  IF anext = an THEN an ELSE loop[anext]
    IN  loop[SumTo(i, s.wcet)]

\* The time after which all services start together again, and what the first n of
\* them ask for in it.
Round(s)    == LET p[k \in 0 .. Len(s.period)] == IF k = 0 THEN 1 ELSE p[k - 1] * s.period[k]
               IN  p[Len(s.period)]
Asked(s, n) == SumTo(n, [j \in 1 .. n |-> (Round(s) \div s.period[j]) * s.wcet[j]])

\* The loop ends only for a service to which those before it leave time.
Ends(s) == \A i \in Services(s) : Asked(s, i - 1) < Round(s)

completion_time_feasibility(s, deadline) ==
    \A i \in Services(s) : CompletionTime(s, i) <= deadline[i]

\* the updated version: "uint32_t *deadline = period"
completion_time_feasibility_updated(s) ==
    \A i \in Services(s) : CompletionTime(s, i) <= s.period[i]

\* "temp <= (num_periods*period[S])"
IT_FITS(s, S2, point) == Released(s, S2, point) <= point

\* scheduling_point_feasibility: the ends of the periods within period[S2].  The updated
\* version also rounds with period[i] before the loop over i sets i: the read of a place
\* outside the services is left out, since nothing uses what is rounded.
scheduling_point_feasibility(s) ==
    \A S2 \in Services(s) :
      \E S \in 1 .. S2 :
        \E num_periods \in 1 .. s.period[S2] \div s.period[S] :
          IT_FITS(s, S2, num_periods * s.period[S])

\* test_cases of tests.c
test_cases ==
 << [period |-> <<2, 10, 15>>,      wcet |-> <<1, 1, 2>>],
    [period |-> <<2, 5, 7>>,        wcet |-> <<1, 1, 2>>],
    [period |-> <<2, 5, 7, 13>>,    wcet |-> <<1, 1, 1, 2>>],
    [period |-> <<3, 5, 15>>,       wcet |-> <<1, 2, 3>>],
    [period |-> <<2, 4, 16>>,       wcet |-> <<1, 1, 4>>],
    [period |-> <<2, 5, 10>>,       wcet |-> <<1, 2, 1>>],
    [period |-> <<2, 5, 7, 13>>,    wcet |-> <<1, 1, 1, 2>>],
    [period |-> <<3, 5, 15>>,       wcet |-> <<1, 2, 4>>],
    [period |-> <<2, 5, 7, 13>>,    wcet |-> <<1, 1, 1, 2>>],
    [period |-> <<6, 8, 12, 24>>,   wcet |-> <<1, 2, 4, 6>>],
    [period |-> <<2, 5, 7, 14>>,    wcet |-> <<1, 1, 1, 2>>],
    [period |-> <<3, 6, 9>>,        wcet |-> <<1, 2, 3>>],
    [period |-> <<6, 8, 12, 24>>,   wcet |-> <<1, 2, 4, 6>>],
    [period |-> <<4, 8, 12, 16>>,   wcet |-> <<1, 2, 3, 4>>],
    [period |-> <<2, 5, 10>>,       wcet |-> <<1, 1, 3>>],
    [period |-> <<2, 5, 10>>,       wcet |-> <<1, 2, 3>>],
    [period |-> <<10, 40, 100>>,    wcet |-> <<1, 33, 72>>],
    [period |-> <<10, 40, 100>>,    wcet |-> <<1, 33, 72>>],
    [period |-> <<10, 40>>,         wcet |-> <<1, 33>>],
    [period |-> <<10, 40, 100>>,    wcet |-> <<1, 33, 6>>] >>
=============================================================================
