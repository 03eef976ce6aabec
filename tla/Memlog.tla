------------------------------- MODULE Memlog -------------------------------
(***************************************************************************)
(* memlog.c: the log of one thread, a ring of entries that the thread fills *)
(* without a lock, and the dumps of it.  frame() dumps its log when it ends *)
(* (frame.c), main() dumps every log after joins that may have timed out,   *)
(* and so does the handler dump_logs (sequencer.c): both may run while the  *)
(* thread still logs, and both write the file frame() writes.               *)
(***************************************************************************)
EXTENDS Timespec, Sequences

CONSTANTS MEMLOG_MAX,  \* entries of the ring
          Events,      \* the events logged,
          DataEvents,  \* those of them that carry data (MEMLOG_E_ADATA_24 and above)
          Entries,     \* bound: entries logged
          Gaps,        \* what the clock may advance between two entries
          Older        \* lines the file may have from an earlier run

ASSUME MemlogAssumption ==
    /\ MEMLOG_MAX \in Nat \ {0}
    /\ "NONE" \notin Events /\ DataEvents \subseteq Events
    /\ Entries \in Nat /\ Gaps \subseteq Nat /\ Older \subseteq Nat

VARIABLES log, index,            \* memlog_t
          lpc,                   \* the thread: "idle", "stamp", "dumping", "ended"
          clock,                 \* CLOCK_MONOTONIC in nanoseconds
          dpc, i, t_prev, t, diff,  \* memlog_dump, for each of Dumpers
          offset,                \* of its descriptor, in lines
          file,                  \* the lines of the file
          logged,                \* history: every entry, its time in nanoseconds
          late, older            \* history: main dumped while the thread logged; first lines

logVars  == <<log, index, lpc, clock, logged>>
dumpVars == <<dpc, i, t_prev, t, diff, offset, file, late>>
vars     == <<logVars, dumpVars, older>>

Dumpers == {"frame", "main"}
Ring    == 0 .. MEMLOG_MAX - 1
Stamp(ns) == [tv_sec |-> ns \div NSEC, tv_nsec |-> ns % NSEC]
OldLine == [event_id |-> "NONE", time |-> Stamp(0), diff |-> Stamp(0), mark |-> FALSE]

\* memlog_init: calloc
memlog_init == [p \in Ring |-> [event_id |-> "NONE", time |-> Stamp(0)]]

Init ==
    /\ log = memlog_init /\ index = 0 /\ lpc = "idle" /\ clock = 1 /\ logged = <<>>
    /\ dpc = [d \in Dumpers |-> "none"]
    /\ i = [d \in Dumpers |-> 0] /\ offset = [d \in Dumpers |-> 0]
    /\ t_prev = [d \in Dumpers |-> Stamp(0)] /\ t = t_prev
    /\ diff = [d \in Dumpers |-> [result |-> Stamp(0), y |-> Stamp(0), negative |-> FALSE]]
    /\ \E n \in Older : older = n /\ file = [k \in 1 .. n |-> OldLine]
    /\ late = FALSE

-----------------------------------------------------------------------------
(* MEMLOG_LOG and MEMLOG_LOG24, with the place between the two stores       *)

\* a mistake in LogEvent: the place is taken before the entry is complete
LogEventTakes(e) ==
    /\ lpc = "idle" /\ Len(logged) < Entries
    /\ log' = [log EXCEPT ![index].event_id = e]
    /\ index' = IF index + 1 >= MEMLOG_MAX THEN 0 ELSE index + 1
    /\ lpc' = "stamp"
    /\ UNCHANGED <<clock, logged, dumpVars, older>>

LogEvent(e) ==
    /\ lpc = "idle" /\ Len(logged) < Entries
    /\ log' = [log EXCEPT ![index].event_id = e]
    /\ lpc' = "stamp"
    /\ UNCHANGED <<index, clock, logged, dumpVars, older>>

\* a mistake in NextIndex: the ring wraps one entry late
NextIndexLate(n) == IF n >= MEMLOG_MAX THEN 0 ELSE n + 1

\* "l->index++; if (l->index >= MEMLOG_MAX)"
NextIndex(n) == IF n + 1 >= MEMLOG_MAX THEN 0 ELSE n + 1

LogTime ==
    /\ lpc = "stamp"
    /\ \E gap \in Gaps : clock' = clock + gap
    /\ log' = [log EXCEPT ![index].time = Stamp(clock')]
    /\ logged' = Append(logged, [event_id |-> log[index].event_id, at |-> clock'])
    /\ index' = NextIndex(index)
    /\ lpc' = "idle"
    /\ UNCHANGED <<dumpVars, older>>

\* processing() and writeout() end without a dump of their own
LogEnds ==
    /\ lpc = "idle"
    /\ lpc' = "ended"
    /\ UNCHANGED <<log, index, clock, logged, dumpVars, older>>

-----------------------------------------------------------------------------
(* memlog_dump *)

\* frame() dumps at its end, main() when it likes: after the join, after the
\* five seconds of the join, or in the handler.  There is no O_TRUNC.
DumpStart(d) ==
    /\ dpc[d] = "none"
    /\ d = "frame" => lpc = "idle"
    /\ lpc' = IF d = "frame" THEN "dumping" ELSE lpc
    /\ late' = (late \/ (d = "main" /\ lpc \in {"idle", "stamp"}))
    /\ t_prev' = [t_prev EXCEPT ![d] = log[0].time]
    /\ dpc' = [dpc EXCEPT ![d] = "look"]
    /\ UNCHANGED <<log, index, clock, logged, i, t, diff, offset, file, older>>

\* "log error": the file does not open
DumpFails(d) ==
    /\ dpc[d] = "look" /\ i[d] = 0
    /\ dpc' = [dpc EXCEPT ![d] = "failed"]
    /\ lpc' = IF d = "frame" THEN "ended" ELSE lpc
    /\ UNCHANGED <<log, index, clock, logged, i, t_prev, t, diff, offset, file, late, older>>

Look(d) ==
    /\ dpc[d] = "look" /\ i[d] < MEMLOG_MAX
    /\ IF log[i[d]].event_id # "NONE"
         THEN /\ t' = [t EXCEPT ![d] = log[i[d]].time]
              /\ dpc' = [dpc EXCEPT ![d] = "subtract"]
              /\ UNCHANGED i
         ELSE /\ i' = [i EXCEPT ![d] = @ + 1]
              /\ UNCHANGED <<t, dpc>>
    /\ UNCHANGED <<logVars, t_prev, diff, offset, file, late, older>>

\* "timespec_subtract is destructive": it changes t_prev
Subtract(d) ==
    /\ dpc[d] = "subtract"
    /\ LET s == timespec_subtract(log[i[d]].time, t_prev[d])
       IN  /\ diff' = [diff EXCEPT ![d] = s]
           /\ t_prev' = [t_prev EXCEPT ![d] = s.y]
    /\ dpc' = [dpc EXCEPT ![d] = "print"]
    /\ UNCHANGED <<logVars, i, t, offset, file, late, older>>

\* the dprintf of one entry; "*not in order" is only said of events without data
Line(d) == [event_id |-> log[i[d]].event_id,
            time     |-> log[i[d]].time,
            diff     |-> diff[d].result,
            mark     |-> diff[d].negative /\ log[i[d]].event_id \notin DataEvents]

\* a mistake in PrintLine: the previous time is not kept
PrintLineForgets(d) ==
    /\ dpc[d] = "print"
    /\ file' = [k \in 1 .. Len(file) \cup {offset[d] + 1} |->
                  IF k = offset[d] + 1 THEN Line(d) ELSE file[k]]
    /\ offset' = [offset EXCEPT ![d] = @ + 1]
    /\ i' = [i EXCEPT ![d] = @ + 1]
    /\ dpc' = [dpc EXCEPT ![d] = "look"]
    /\ UNCHANGED <<logVars, t_prev, t, diff, late, older>>

PrintLine(d) ==
    /\ dpc[d] = "print"
    /\ file' = [k \in 1 .. Len(file) \cup {offset[d] + 1} |->
                  IF k = offset[d] + 1 THEN Line(d) ELSE file[k]]
    /\ offset' = [offset EXCEPT ![d] = @ + 1]
    /\ t_prev' = [t_prev EXCEPT ![d] = t[d]]
    /\ i' = [i EXCEPT ![d] = @ + 1]
    /\ dpc' = [dpc EXCEPT ![d] = "look"]
    /\ UNCHANGED <<logVars, t, diff, late, older>>

DumpEnds(d) ==
    /\ dpc[d] = "look" /\ i[d] = MEMLOG_MAX
    /\ dpc' = [dpc EXCEPT ![d] = "done"]
    /\ lpc' = IF d = "frame" THEN "ended" ELSE lpc
    /\ UNCHANGED <<log, index, clock, logged, i, t_prev, t, diff, offset, file, late, older>>

Dump(d) == DumpStart(d) \/ DumpFails(d) \/ Look(d) \/ Subtract(d) \/ PrintLine(d) \/ DumpEnds(d)

Next == \/ \E e \in Events : LogEvent(e)
        \/ LogTime \/ LogEnds
        \/ \E d \in Dumpers : Dump(d)

Spec == Init /\ [][Next]_vars

-----------------------------------------------------------------------------
(* Properties *)

TypeOK ==
    /\ log \in [Ring -> [event_id : Events \cup {"NONE"}, time : Normalised]]
    /\ index \in Ring
    /\ lpc \in {"idle", "stamp", "dumping", "ended"}
    /\ clock \in Nat
    /\ logged \in Seq([event_id : Events, at : Nat])
    /\ dpc \in [Dumpers -> {"none", "look", "subtract", "print", "failed", "done"}]
    /\ i \in [Dumpers -> 0 .. MEMLOG_MAX]
    /\ offset \in [Dumpers -> Nat]

\* what the ring should have of the n-th entry logged
Entry(n) == [event_id |-> logged[n].event_id, time |-> Stamp(logged[n].at)]

\* The ring holds the last MEMLOG_MAX entries with their times, one fewer while the
\* oldest is being replaced.
KeepsLast ==
    /\ index = Len(logged) % MEMLOG_MAX
    /\ \A n \in 1 .. Len(logged) :
         n + MEMLOG_MAX > Len(logged) + (IF lpc = "stamp" THEN 1 ELSE 0) =>
           log[(n - 1) % MEMLOG_MAX] = Entry(n)

\* A line whose event and time do not belong together is printed only of the very
\* entry the thread has begun and not yet stamped.
TornOnlyInMiddle ==
    [][\A d \in Dumpers :
         offset'[d] # offset[d] =>
           \/ lpc = "stamp" /\ i[d] = index
           \/ \E n \in 1 .. Len(logged) :
                /\ file'[offset'[d]].event_id = logged[n].event_id
                /\ Total(file'[offset'[d]].time) = logged[n].at]_vars

\* the places in use, and the newest of the entries that went to place p
Places    == 0 .. (IF Len(logged) < MEMLOG_MAX THEN Len(logged) ELSE MEMLOG_MAX) - 1
Newest(p) == CHOOSE n \in 1 .. Len(logged) : /\ n > Len(logged) - MEMLOG_MAX
                                             /\ (n - 1) % MEMLOG_MAX = p

\* what the line of place p should say; "not in order" belongs where the ring wraps
RightLine(p, line) ==
    LET e == logged[Newest(p)]
        before == IF p = 0 THEN e.at ELSE logged[Newest(p - 1)].at
    IN  /\ line.event_id = e.event_id
        /\ line.time = Stamp(e.at)
        /\ Total(line.diff) = e.at - before
        /\ line.mark <=> e.at < before /\ e.event_id \notin DataEvents

\* When the thread had stopped logging before main() began its dump, the file has
\* a right line for every entry, even if frame() still writes it too; and what the
\* file had after them before is still there.
DumpFaithful ==
    dpc["main"] = "done" /\ ~late =>
        /\ \A p \in Places : RightLine(p, file[p + 1])
        /\ \A k \in 1 .. Len(file) : k - 1 \notin Places => k <= older /\ file[k] = OldLine
        /\ older <= Len(file)

=============================================================================
