------------------------------ MODULE Schedule ------------------------------
(***************************************************************************)
(* schedule.c: the engine that runs a set of services tick by tick under    *)
(* rate monotonic, earliest deadline first or least laxity first, with the  *)
(* two tests of src/feasibility beside it.  Services are numbered from 1    *)
(* and ticks from 0.  The specification's own names begin with Schedule, so *)
(* that the proofs about it can stand beside those about MsgQueue.          *)
(***************************************************************************)
EXTENDS Feasibility, FiniteSets

CONSTANTS LCM,                 \* "Lowest Common Multiple": 10, whatever the services
          CustomPeriods,       \* the sets of three services that -c is tried with
          CustomWcets

ASSUME ScheduleAssumption == LCM \in Nat \ {0} /\ CustomPeriods \cup CustomWcets \subseteq Nat \ {0}

VARIABLES services, protocol,  \* the arguments
          Deadline, Runtime,   \* the dynamic counters of each service
          misses, events       \* -1: nothing happened

scheduleVars  == <<services, protocol, Deadline, Runtime, misses, events>>

TICKS == LCM * 2
Idle  == -1
Now   == Len(events)           \* the tick to come

ScheduleInit ==
    /\ \/ \E n \in 1 .. Len(test_cases) : services = test_cases[n]
       \/ \E T \in [1 .. 3 -> CustomPeriods], C \in [1 .. 3 -> CustomWcets] :
            services = [period |-> T, wcet |-> C]
    /\ protocol \in {"RM", "EDF", "LLF"}
    /\ Deadline = services.period
    /\ Runtime = [s \in Services(services) |-> 0]
    /\ misses = 0 /\ events = <<>>

First(S)       == CHOOSE s \in S : \A r \in S : s <= r
Least(S, rank) == First({s \in S : \A r \in S : rank[s] <= rank[r]})

\* a mistake in Choose: the laxity leaves out what has already run
ChooseLax(running, deadline, runtime) ==
    IF running = {} THEN Idle
    ELSE CASE protocol = "RM"  -> First(running)
           [] protocol = "EDF" -> Least(running, deadline)
           [] protocol = "LLF" ->
                Least(running, [s \in running |-> deadline[s] - services.wcet[s]])

\* the service to run among those that still need time
Choose(running, deadline, runtime) ==
    IF running = {} THEN Idle
    ELSE CASE protocol = "RM"  -> First(running)
           [] protocol = "EDF" -> Least(running, deadline)
           [] protocol = "LLF" ->
                Least(running, [s \in running |-> deadline[s] - (services.wcet[s] - runtime[s])])

\* a mistake in Renewed: only a service that ran to its end starts over
RenewedDone(s) == Deadline[s] = 0 /\ Runtime[s] = services.wcet[s]

\* "Check for deadline expiration, reset runtime"
Renewed(s) == Deadline[s] = 0

Tick ==
    /\ Now < TICKS
    /\ LET all      == Services(services)
           deadline == [s \in all |-> IF Deadline[s] = 0 THEN services.period[s] ELSE Deadline[s]]
           runtime  == [s \in all |-> IF Renewed(s) THEN 0 ELSE Runtime[s]]
           chosen   == Choose({s \in all : runtime[s] < services.wcet[s]}, deadline, runtime)
       IN  /\ misses' = misses + Cardinality({s \in all : /\ Deadline[s] = 0
                                                          /\ Runtime[s] # services.wcet[s]})
           /\ Runtime' = [s \in all |-> IF s = chosen THEN runtime[s] + 1 ELSE runtime[s]]
           /\ Deadline' = [s \in all |-> deadline[s] - 1]
           /\ events' = Append(events, chosen)
    /\ UNCHANGED <<services, protocol>>

ScheduleNext == Tick

ScheduleSpec == ScheduleInit /\ [][ScheduleNext]_scheduleVars

-----------------------------------------------------------------------------
(* Properties.  But for the types they speak of the printed schedule only,   *)
(* not of the counters that made it.                                        *)

ScheduleTypeOK ==
    /\ services.period \in Seq(Nat \ {0}) /\ services.wcet \in Seq(Nat \ {0})
    /\ Len(services.wcet) = Len(services.period)
    /\ protocol \in {"RM", "EDF", "LLF"}
    /\ Deadline \in [Services(services) -> Nat] /\ Runtime \in [Services(services) -> Nat]
    /\ misses \in Nat
    /\ events \in Seq(Services(services) \cup {Idle}) /\ Now <= TICKS

\* what service s was given from tick `from` until before tick `to`
Given(s, from, to) == Cardinality({u \in from .. to - 1 : events[u + 1] = s})

\* where tick u lies in the period of s, and what s still needs there
PeriodOf(s, u) == services.period[s] * (u \div services.period[s])
Needs(s, u)    == services.wcet[s] - Given(s, PeriodOf(s, u), u)
TimeLeft(s, u) == PeriodOf(s, u) + services.period[s] - u

\* where the period x = <<s, k>>, number k of service s, ends
PeriodEnd(x) == (x[2] + 1) * services.period[x[1]]

\* the periods that are over in which the service was not given its time
MissedPeriods ==
    {x \in Services(services) \X (0 .. TICKS) :
        /\ PeriodEnd(x) <= Now
        /\ Given(x[1], x[2] * services.period[x[1]], PeriodEnd(x)) < services.wcet[x[1]]}

\* those of them that no tick has come after
Unseen == {x \in MissedPeriods : PeriodEnd(x) = Now}

\* A period in which a service was not given its time is counted once, by the first tick
\* after it, and no other period is.  When the engine stops, the missed periods that end
\* with the last tick are in the printed schedule but not in the count.
MissesCounted == misses = Cardinality(MissedPeriods \ Unseen)

\* tick u went to the service that the protocol names, or to none when none needs it
Followed(u) ==
    LET needy == {s \in Services(services) : Needs(s, u) > 0}
        spare(s) == TimeLeft(s, u) - (IF protocol = "LLF" THEN Needs(s, u) ELSE 0)
    IN  IF needy = {} THEN events[u + 1] = Idle
        ELSE /\ events[u + 1] \in needy
             /\ \A r \in needy :
                  IF protocol = "RM" THEN events[u + 1] <= r
                  ELSE spare(events[u + 1]) <= spare(r)

\* The processor idles only when no service needs it, and the service that runs
\* is the one the protocol names: the first, the one whose period ends first, or the
\* one with the least time to spare.
ProtocolFollowed == Now > 0 => Followed(Now - 1)

\* Both tests, in both versions, and the engine agree when all services start together:
\* a set passes exactly if the printed schedule gives every service its time, and then
\* exactly if no miss is counted, as long as the first period of each is in it.
TestsAgree ==
    Now = TICKS /\ protocol = "RM" /\ Ends(services) =>
        LET fits == completion_time_feasibility(services, services.period)
        IN  /\ completion_time_feasibility_updated(services) = fits
            /\ scheduling_point_feasibility(services) = fits
            /\ (\A s \in Services(services) : services.period[s] <= TICKS) =>
                 (MissedPeriods = {} <=> fits)
            /\ (\A s \in Services(services) : services.period[s] < TICKS) => (misses = 0 <=> fits)

\* With earliest deadline first and with least laxity first no service misses anything,
\* in the periods that end with the last tick neither, when the services ask for no more
\* than the processor has.
OptimalWhenFits ==
    protocol \in {"EDF", "LLF"} /\ MissedPeriods # {} =>
      Asked(services, Len(services.period)) > Round(services)

=============================================================================
