---------------------------- MODULE MemlogProofs ----------------------------
(***************************************************************************)
(* Proofs about the memory log and the arithmetic of its times, for every  *)
(* size of the ring and every number of entries.                           *)
(***************************************************************************)
EXTENDS Memlog, SequenceTheorems, TLAPS

-----------------------------------------------------------------------------
(* The inductive invariant *)

\* The thread has stored the event of the entry it is at; the dumps are at entries
\* that were logged; a thread that dumps does not log; and every other entry of the ring
\* was logged as it is.
LogInv ==
    /\ TypeOK
    /\ KeepsLast
    /\ lpc = "stamp" => log[index].event_id \in Events
    /\ \A d \in Dumpers : dpc[d] \in {"subtract", "print"} =>
         i[d] \in Ring /\ log[i[d]].event_id # "NONE"
    /\ dpc["frame"] \in {"look", "subtract", "print"} => lpc = "dumping"
    /\ \A p \in Ring : log[p].event_id # "NONE" /\ ~(lpc = "stamp" /\ p = index) =>
         \E n \in 1 .. Len(logged) : log[p] = Entry(n)

Used      == IF Len(logged) < MEMLOG_MAX THEN Len(logged) ELSE MEMLOG_MAX
Before(p) == IF p = 0 THEN log[0].time ELSE log[p - 1].time
Earlier(p)         == Total(log[p].time) < Total(Before(p))
Differs(result, p) == Total(result) = Total(log[p].time) - Total(Before(p))

\* RightLine, in terms of the ring as it is
GoodLine(p, line) ==
    /\ line.event_id = log[p].event_id /\ line.time = log[p].time
    /\ Differs(line.diff, p)
    /\ line.mark <=> Earlier(p) /\ log[p].event_id \notin DataEvents

\* A dump is at a place of a ring that does not change any more, has the time of the
\* entry before it, and has written a good line for every place up to there.
CopyInv(d) ==
    /\ dpc[d] = "none" => i[d] = 0
    /\ dpc[d] # "none" => lpc \in {"dumping", "ended"}
    /\ dpc[d] \in {"look", "subtract"} /\ i[d] < Used => t_prev[d] = Before(i[d])
    /\ dpc[d] \in {"subtract", "print"} => i[d] < Used /\ t[d] = log[i[d]].time
    /\ dpc[d] = "print" => /\ Differs(diff[d].result, i[d])
                           /\ diff[d].negative <=> Earlier(i[d])
    /\ dpc[d] = "done" => i[d] = MEMLOG_MAX
    /\ offset[d] = (IF i[d] < Used THEN i[d] ELSE Used) /\ offset[d] <= Len(file)
    /\ \A p \in 0 .. offset[d] - 1 : GoodLine(p, file[p + 1])

\* So both may write the one file, and what it has after the lines of the log is old.
LinesInv ==
    /\ DOMAIN t_prev = Dumpers /\ DOMAIN t = Dumpers /\ DOMAIN diff = Dumpers
    /\ \A p \in Ring : p >= Used /\ ~(lpc = "stamp" /\ p = index) => log[p].event_id = "NONE"
    /\ ~late => /\ \A d \in Dumpers : CopyInv(d)
                /\ older \in Nat /\ Len(file) \in Nat /\ DOMAIN file = 1 .. Len(file)
                /\ older <= Len(file)
                /\ \A k \in 1 .. Len(file) : k > Used => k <= older /\ file[k] = OldLine

-----------------------------------------------------------------------------
(* Proofs *)

\* Division of a natural number leaves one remainder only.
LEMMA Remainder ==
    ASSUME NEW d \in Nat \ {0}, NEW q \in Int, NEW p \in Int,
           NEW r \in 0 .. d - 1, NEW s \in 0 .. d - 1, d * q + r = d * p + s
    PROVE  r = s
<1>1. d * (q - p) = s - r
  OBVIOUS
<1>2. CASE q - p >= 1
  <2>1. d * (q - p) >= d
    BY <1>2
  <2> QED
    BY <1>1, <2>1
<1>3. CASE q - p <= -1
  <2>1. d * (q - p) <= -d
    BY <1>3
  <2> QED
    BY <1>1, <2>1
<1>4. CASE q - p = 0
  BY <1>1, <1>4
<1> QED
  BY <1>2, <1>3, <1>4

\* Division of a natural number has a quotient and a remainder.
LEMMA Division ==
    ASSUME NEW n \in Nat, NEW d \in Nat \ {0}
    PROVE  \E q \in Int : n = d * q + (n % d)
<1>1. n = d * (n \div d) + (n % d)
  BY SMTT(60)
<1>2. n \div d \in Int
  OBVIOUS
<1> QED
  BY <1>1, <1>2

\* Counting on by one moves the remainder by one, or back to 0.
LEMMA NextRemainder ==
    ASSUME NEW n \in Nat, NEW d \in Nat \ {0}
    PROVE  (n + 1) % d = IF (n % d) + 1 = d THEN 0 ELSE (n % d) + 1
<1> DEFINE r == n % d
           s == (n + 1) % d
<1>1. PICK q \in Int : n = d * q + r
  <2>1. \E q \in Int : n = d * q + (n % d)
    BY Division, Zenon
  <2> QED
    BY <2>1
<1>2. PICK p \in Int : n + 1 = d * p + s
  <2> DEFINE m == n + 1
  <2>1. m \in Nat
    OBVIOUS
  <2> HIDE DEF m
  <2>2. \E p \in Int : m = d * p + (m % d)
    BY <2>1, Division, Zenon
  <2> QED
    BY <2>2 DEF m
<1>3. r \in 0 .. d - 1 /\ s \in 0 .. d - 1
  OBVIOUS
<1> HIDE DEF r, s
<1>4. CASE r + 1 = d
  <2>1. d * (q + 1) = d * q + d
    OBVIOUS
  <2>2. d * (q + 1) + 0 = d * p + s
    BY <1>1, <1>2, <1>3, <1>4, <2>1
  <2>3. q + 1 \in Int /\ 0 \in 0 .. d - 1
    OBVIOUS
  <2>4. s = 0
    BY <1>3, <2>2, <2>3, Remainder
  <2> QED
    BY <1>4, <2>4 DEF r, s
<1>5. CASE r + 1 # d
  <2>1. d * q + (r + 1) = d * p + s
    BY <1>1, <1>2, <1>3
  <2>2. r + 1 \in 0 .. d - 1
    BY <1>3, <1>5
  <2>3. s = r + 1
    BY <1>3, <2>1, <2>2, Remainder
  <2> QED
    BY <1>5, <2>3 DEF r, s
<1> QED
  BY <1>4, <1>5

\* Two numbers less than a ring apart have different places in it.
LEMMA DistinctPlaces ==
    ASSUME NEW m \in Nat, NEW n \in Nat, NEW d \in Nat \ {0}, m < n, n < m + d
    PROVE  m % d # n % d
<1> DEFINE r == m % d
           s == n % d
<1>1. PICK q \in Int : m = d * q + r
  BY Division
<1>2. PICK p \in Int : n = d * p + s
  BY Division
<1> HIDE DEF r, s
<1> SUFFICES ASSUME r = s PROVE FALSE
  BY DEF r, s
<1>3. r \in Int
  BY DEF r
<1>4. d * (p - q) = n - m
  <2>1. d * (p - q) = d * p - d * q
    OBVIOUS
  <2> QED
    BY <1>1, <1>2, <1>3, <2>1
<1>5. CASE p - q >= 1
  <2>1. d * (p - q) >= d
    BY <1>5
  <2> QED
    BY <1>4, <2>1
<1>6. CASE p - q <= 0
  <2>1. d * (p - q) <= 0
    BY <1>6
  <2> QED
    BY <1>4, <2>1
<1> QED
  BY <1>5, <1>6

\* A number below the divisor has quotient 0.
LEMMA SmallQuotient ==
    ASSUME NEW d \in Nat \ {0}, NEW n \in 0 .. d - 1
    PROVE  n \div d = 0
<1>1. n = d * (n \div d) + (n % d) /\ n % d \in 0 .. d - 1
  BY SMTT(60)
<1>2. n = d * 0 + n
  OBVIOUS
<1> DEFINE q == n \div d
           r == n % d
<1>3. q \in Int
  OBVIOUS
<1>4. n = d * q + r /\ r \in 0 .. d - 1
  BY <1>1
<1> HIDE DEF q, r
<1>5. CASE q >= 1
  <2>1. d * q >= d
    BY <1>3, <1>5
  <2> QED
    BY <1>4, <2>1
<1>6. CASE q <= -1
  <2>1. d * q <= -d
    BY <1>3, <1>6
  <2> QED
    BY <1>4, <2>1
<1> QED
  BY <1>3, <1>5, <1>6 DEF q

\* A time that is normalised is the time in nanoseconds it was made of.
LEMMA StampTotal == ASSUME NEW ns \in Nat PROVE Stamp(ns) \in Normalised /\ Total(Stamp(ns)) = ns
<1>1. ns = NSEC * (ns \div NSEC) + (ns % NSEC)
  BY TimespecAssumption, SMTT(60)
<1>2. ns \div NSEC \in Nat /\ ns % NSEC \in 0 .. NSEC - 1
  BY TimespecAssumption
<1> QED
  BY <1>1, <1>2 DEF Stamp, Total, Normalised

\* timespec_subtract of two times the clock gave: the result is their exact difference,
\* normalised, y is another form of the time it was, and 1 is returned exactly when x is
\* the earlier one.
THEOREM SubtractExact ==
    ASSUME NEW x \in Normalised, NEW y \in Normalised
    PROVE  LET s == timespec_subtract(x, y)
           IN  /\ Total(s.result) = Total(x) - Total(y)
               /\ s.result.tv_nsec \in 0 .. NSEC - 1
               /\ Total(s.y) = Total(y)
               /\ s.negative <=> Total(x) < Total(y)
<1> USE TimespecAssumption
<1> DEFINE xs == x.tv_sec
           xn == x.tv_nsec
           ys == y.tv_sec
           yn == y.tv_nsec
<1>1. xs \in Nat /\ ys \in Nat /\ xn \in 0 .. NSEC - 1 /\ yn \in 0 .. NSEC - 1
  BY DEF Normalised
<1>2. CASE xn < yn
  <2>1. (yn - xn) \div NSEC = 0
    <3> DEFINE k == yn - xn
    <3>1. k \in 0 .. NSEC - 1
      BY <1>1, <1>2
    <3> HIDE DEF k
    <3>2. k \div NSEC = 0
      BY <3>1, SmallQuotient
    <3> QED
      BY <3>2 DEF k
  <2>2. CarryTwice(x, y) = [tv_sec |-> ys + 1, tv_nsec |-> yn - NSEC]
    BY <1>1, <1>2, <2>1 DEF CarryTwice, Carry
  <2>3. NSEC * (xs - (ys + 1)) = NSEC * xs - NSEC * ys - NSEC /\ NSEC * (ys + 1) = NSEC * ys + NSEC
    BY <1>1
  <2>4. xs < ys + 1 <=> NSEC * xs + xn < NSEC * ys + yn
    <3>1. CASE xs <= ys
      <4>1. NSEC * xs <= NSEC * ys
        BY <1>1, <3>1
      <4> QED
        BY <1>1, <1>2, <3>1, <4>1
    <3>2. CASE xs >= ys + 1
      <4>1. NSEC * xs >= NSEC * (ys + 1)
        BY <1>1, <3>2
      <4> QED
        BY <1>1, <3>2, <4>1, <2>3
    <3> QED
      BY <1>1, <3>1, <3>2
  <2>5. timespec_subtract(x, y) =
          [result   |-> [tv_sec |-> xs - (ys + 1), tv_nsec |-> xn - (yn - NSEC)],
           y        |-> [tv_sec |-> ys + 1, tv_nsec |-> yn - NSEC],
           negative |-> xs < ys + 1]
    BY <2>2 DEF timespec_subtract
  <2>6. NSEC * (xs - (ys + 1)) + (xn - (yn - NSEC)) = (NSEC * xs + xn) - (NSEC * ys + yn)
    BY <1>1, <2>3
  <2>7. NSEC * (ys + 1) + (yn - NSEC) = NSEC * ys + yn
    BY <1>1, <2>3
  <2>8. xn - (yn - NSEC) \in 0 .. NSEC - 1
    BY <1>1, <1>2
  <2> DEFINE s == timespec_subtract(x, y)
  <2>9. /\ s.result.tv_sec = xs - (ys + 1) /\ s.result.tv_nsec = xn - (yn - NSEC)
        /\ s.y.tv_sec = ys + 1 /\ s.y.tv_nsec = yn - NSEC
        /\ s.negative = (xs < ys + 1)
    BY <2>5
  <2> HIDE DEF s
  <2>10. Total(s.result) = Total(x) - Total(y)
    BY <2>6, <2>9 DEF Total
  <2>11. Total(s.y) = Total(y)
    BY <2>7, <2>9 DEF Total
  <2>12. s.negative <=> Total(x) < Total(y)
    BY <2>4, <2>9 DEF Total
  <2>13. s.result.tv_nsec \in 0 .. NSEC - 1
    BY <2>8, <2>9
  <2> QED
    BY <2>10, <2>11, <2>12, <2>13 DEF s
<1>3. CASE xn >= yn
  <2>2. CarryTwice(x, y) = y
    BY <1>1, <1>3 DEF CarryTwice
  <2>3. NSEC * (xs - ys) = NSEC * xs - NSEC * ys
    BY <1>1
  <2>4. xs < ys <=> NSEC * xs + xn < NSEC * ys + yn
    <3>1. CASE xs >= ys
      <4>1. NSEC * xs >= NSEC * ys
        BY <1>1, <3>1
      <4> QED
        BY <1>1, <1>3, <3>1, <4>1
    <3>2. CASE xs + 1 <= ys
      <4>1. NSEC * (xs + 1) <= NSEC * ys
        BY <1>1, <3>2
      <4>2. NSEC * (xs + 1) = NSEC * xs + NSEC
        BY <1>1
      <4> QED
        BY <1>1, <3>2, <4>1, <4>2
    <3> QED
      BY <1>1, <3>1, <3>2
  <2>5. timespec_subtract(x, y) =
          [result |-> [tv_sec |-> xs - ys, tv_nsec |-> xn - yn], y |-> y, negative |-> xs < ys]
    BY <2>2 DEF timespec_subtract
  <2>6. NSEC * (xs - ys) + (xn - yn) = (NSEC * xs + xn) - (NSEC * ys + yn)
    BY <1>1, <2>3
  <2>7. xn - yn \in 0 .. NSEC - 1
    BY <1>1, <1>3
  <2> DEFINE s == timespec_subtract(x, y)
  <2>9. /\ s.result.tv_sec = xs - ys /\ s.result.tv_nsec = xn - yn
        /\ s.y.tv_sec = ys /\ s.y.tv_nsec = yn
        /\ s.negative = (xs < ys)
    BY <2>5
  <2> HIDE DEF s
  <2>10. Total(s.result) = Total(x) - Total(y)
    BY <2>6, <2>9 DEF Total
  <2>11. Total(s.y) = Total(y)
    BY <1>1, <2>9 DEF Total
  <2>12. s.negative <=> Total(x) < Total(y)
    BY <2>4, <2>9 DEF Total
  <2>13. s.result.tv_nsec \in 0 .. NSEC - 1
    BY <2>7, <2>9
  <2> QED
    BY <2>10, <2>11, <2>12, <2>13 DEF s
<1> QED
  BY <1>1, <1>2, <1>3

-----------------------------------------------------------------------------
(* The ring *)

\* The zeroed log is in the invariant.
LEMMA LogInit == Init => LogInv
<1> SUFFICES ASSUME Init PROVE LogInv
  OBVIOUS
<1> USE MemlogAssumption, TimespecAssumption
<1>1. Stamp(0) \in Normalised
  BY StampTotal
<1>2. logged = <<>> /\ Len(logged) = 0 /\ index = 0 /\ 0 % MEMLOG_MAX = 0
  BY DEF Init
<1>3. \A p \in Ring : log[p].event_id = "NONE"
  BY DEF Init, memlog_init
<1>4. TypeOK
  <2>1. log \in [Ring -> [event_id : Events \cup {"NONE"}, time : Normalised]]
    BY <1>1 DEF Init, memlog_init
  <2>2. logged \in Seq([event_id : Events, at : Nat])
    BY DEF Init
  <2> QED
    BY <2>1, <2>2 DEF Init, TypeOK, Ring
<1>5. KeepsLast
  BY <1>2 DEF KeepsLast
<1>6. lpc = "idle" /\ \A d \in Dumpers : dpc[d] = "none"
  BY DEF Init
<1> QED
  BY <1>3, <1>4, <1>5, <1>6 DEF LogInv, Dumpers

\* Storing the event of the next entry: it goes where the oldest entry of a full ring is.
LEMMA LogEventStep == ASSUME LogInv, NEW e \in Events, LogEvent(e) PROVE LogInv'
<1> USE MemlogAssumption
<1> DEFINE stored == [log[index] EXCEPT !.event_id = e]
<1>1. index \in Ring /\ log[index] \in [event_id : Events \cup {"NONE"}, time : Normalised]
  BY DEF LogInv, TypeOK
<1>2. /\ log' = [log EXCEPT ![index] = stored]
      /\ stored.event_id = e /\ stored \in [event_id : Events \cup {"NONE"}, time : Normalised]
  BY <1>1 DEF LogEvent, LogInv, TypeOK
<1> HIDE DEF stored
<1>3. log'[index].event_id = e /\ \A p \in Ring : p # index => log'[p] = log[p]
  BY <1>1, <1>2 DEF LogInv, TypeOK
<1>4. lpc' = "stamp" /\ index' = index /\ logged' = logged
  BY DEF LogEvent
<1>5. TypeOK'
  <2>1. log' \in [Ring -> [event_id : Events \cup {"NONE"}, time : Normalised]]
    BY <1>1, <1>2 DEF LogInv, TypeOK
  <2> QED
    BY <2>1 DEF LogEvent, LogInv, TypeOK, dumpVars
<1>6. KeepsLast'
  <2>1. ASSUME NEW n \in 1 .. Len(logged), n + MEMLOG_MAX > Len(logged) + 1
        PROVE  log'[(n - 1) % MEMLOG_MAX] = Entry(n)
    <3>1. Len(logged) \in Nat /\ index = Len(logged) % MEMLOG_MAX /\ lpc = "idle"
      BY DEF LogInv, TypeOK, KeepsLast, LogEvent
    <3>2. (n - 1) % MEMLOG_MAX # Len(logged) % MEMLOG_MAX
      <4> DEFINE m == n - 1
                 k == Len(logged)
      <4>1. m \in Nat /\ k \in Nat /\ m < k /\ k < m + MEMLOG_MAX
        BY <2>1, <3>1
      <4> HIDE DEF m, k
      <4>2. m % MEMLOG_MAX # k % MEMLOG_MAX
        BY <4>1, DistinctPlaces
      <4> QED
        BY <4>2 DEF m, k
    <3>3. (n - 1) % MEMLOG_MAX \in Ring
      BY <3>1 DEF Ring
    <3>4. log[(n - 1) % MEMLOG_MAX] = Entry(n)
      BY <2>1, <3>1 DEF LogInv, KeepsLast
    <3> QED
      BY <1>3, <3>1, <3>2, <3>3, <3>4
  <2>2. \A n : Entry(n)' = Entry(n)
    BY <1>4 DEF Entry
  <2> QED
    BY <1>4, <2>1, <2>2 DEF KeepsLast, LogInv
<1>7. (lpc = "stamp" => log[index].event_id \in Events)'
  BY <1>3, <1>4
<1>8. (\A d \in Dumpers : dpc[d] \in {"subtract", "print"} =>
         i[d] \in Ring /\ log[i[d]].event_id # "NONE")'
  BY <1>3 DEF LogEvent, dumpVars, LogInv
<1>9. (\A p \in Ring : log[p].event_id # "NONE" /\ ~(lpc = "stamp" /\ p = index) =>
         \E n \in 1 .. Len(logged) : log[p] = Entry(n))'
  BY <1>3, <1>4 DEF LogEvent, LogInv, Entry
<1>10. (dpc["frame"] \in {"look", "subtract", "print"} => lpc = "dumping")'
  BY DEF LogEvent, dumpVars, LogInv
<1> QED
  BY <1>5, <1>6, <1>7, <1>8, <1>9, <1>10 DEF LogInv

\* Storing its time completes the entry.
LEMMA LogTimeStep == ASSUME LogInv, LogTime PROVE LogInv'
<1> USE MemlogAssumption
<1> DEFINE new == [event_id |-> log[index].event_id, at |-> clock']
           stored == [log[index] EXCEPT !.time = Stamp(clock')]
<1>1. /\ index \in Ring /\ log[index] \in [event_id : Events \cup {"NONE"}, time : Normalised]
      /\ lpc = "stamp" /\ log[index].event_id \in Events
      /\ index = Len(logged) % MEMLOG_MAX
  BY DEF LogInv, TypeOK, KeepsLast, LogTime
<1>2. clock' \in Nat
  BY DEF LogTime, LogInv, TypeOK
<1>3. /\ new \in [event_id : Events, at : Nat]
      /\ stored = [event_id |-> new.event_id, time |-> Stamp(new.at)]
      /\ stored \in [event_id : Events \cup {"NONE"}, time : Normalised]
  BY <1>1, <1>2, StampTotal
<1>4. log' = [log EXCEPT ![index] = stored] /\ logged' = Append(logged, new)
  BY <1>1 DEF LogTime, LogInv, TypeOK
<1> HIDE DEF new, stored
<1>5. log'[index] = stored /\ \A p \in Ring : p # index => log'[p] = log[p]
  BY <1>1, <1>4 DEF LogInv, TypeOK
<1>6. /\ logged' \in Seq([event_id : Events, at : Nat]) /\ Len(logged') = Len(logged) + 1
      /\ \A n \in 1 .. Len(logged) : logged'[n] = logged[n]
      /\ logged'[Len(logged) + 1] = new
  <2>1. logged \in Seq([event_id : Events, at : Nat])
    BY DEF LogInv, TypeOK
  <2> QED
    BY <1>3, <1>4, <2>1, AppendProperties
<1>7. /\ \A n \in 1 .. Len(logged) : Entry(n)' = Entry(n)
      /\ \A n \in 1 .. Len(logged') : n = Len(logged) + 1 => Entry(n)' = stored
  BY <1>3, <1>6 DEF Entry
<1>8. lpc' = "idle" /\ index' = NextIndex(index) /\ Len(logged) \in Nat
  BY DEF LogTime, LogInv, TypeOK
<1>9. index' = Len(logged') % MEMLOG_MAX /\ index' \in Ring
  <2> DEFINE k == Len(logged)
  <2>1. k \in Nat
    BY <1>8
  <2> HIDE DEF k
  <2>2. (k + 1) % MEMLOG_MAX = IF (k % MEMLOG_MAX) + 1 = MEMLOG_MAX THEN 0 ELSE (k % MEMLOG_MAX) + 1
    BY <2>1, NextRemainder
  <2> QED
    BY <1>1, <1>6, <1>8, <2>2 DEF k, NextIndex, Ring
<1>10. TypeOK'
  <2>1. log' \in [Ring -> [event_id : Events \cup {"NONE"}, time : Normalised]]
    BY <1>1, <1>3, <1>4 DEF LogInv, TypeOK
  <2> QED
    BY <1>2, <1>6, <1>8, <1>9, <2>1 DEF LogTime, LogInv, TypeOK, dumpVars
<1>11. KeepsLast'
  <2>1. ASSUME NEW n \in 1 .. Len(logged'), n + MEMLOG_MAX > Len(logged')
        PROVE  log'[(n - 1) % MEMLOG_MAX] = Entry(n)'
    <3>1. CASE n = Len(logged) + 1
      BY <1>1, <1>5, <1>7, <1>8, <3>1
    <3>2. CASE n # Len(logged) + 1
      <4>1. n \in 1 .. Len(logged) /\ n + MEMLOG_MAX > Len(logged) + 1
        BY <1>6, <1>8, <2>1, <3>2
      <4>2. (n - 1) % MEMLOG_MAX # Len(logged) % MEMLOG_MAX
        <5> DEFINE m == n - 1
                   k == Len(logged)
        <5>1. m \in Nat /\ k \in Nat /\ m < k /\ k < m + MEMLOG_MAX
          BY <1>8, <4>1
        <5> HIDE DEF m, k
        <5>2. m % MEMLOG_MAX # k % MEMLOG_MAX
          BY <5>1, DistinctPlaces
        <5> QED
          BY <5>2 DEF m, k
      <4>3. (n - 1) % MEMLOG_MAX \in Ring
        BY <4>1 DEF Ring
      <4>4. log[(n - 1) % MEMLOG_MAX] = Entry(n)
        BY <1>1, <4>1 DEF LogInv, KeepsLast
      <4> QED
        BY <1>1, <1>5, <1>7, <4>1, <4>2, <4>3, <4>4
    <3> QED
      BY <3>1, <3>2
  <2> QED
    BY <1>8, <1>9, <2>1 DEF KeepsLast
<1>12. (lpc = "stamp" => log[index].event_id \in Events)'
  BY <1>8
<1>13. (\A d \in Dumpers : dpc[d] \in {"subtract", "print"} =>
          i[d] \in Ring /\ log[i[d]].event_id # "NONE")'
  <2>1. dpc' = dpc /\ i' = i /\ stored.event_id # "NONE"
    BY <1>1, <1>3 DEF LogTime, dumpVars, new
  <2> QED
    BY <1>5, <2>1 DEF LogInv
<1>14. (\A p \in Ring : log[p].event_id # "NONE" /\ ~(lpc = "stamp" /\ p = index) =>
          \E n \in 1 .. Len(logged) : log[p] = Entry(n))'
  <2>1. ASSUME NEW p \in Ring, log'[p].event_id # "NONE"
        PROVE  \E n \in 1 .. Len(logged') : log'[p] = Entry(n)'
    <3>1. CASE p = index
      <4>1. Len(logged) + 1 \in 1 .. Len(logged')
        BY <1>6, <1>8
      <4> QED
        BY <1>5, <1>7, <3>1, <4>1
    <3>2. CASE p # index
      <4>1. PICK n \in 1 .. Len(logged) : log[p] = Entry(n)
        BY <1>5, <2>1, <3>2 DEF LogInv
      <4> QED
        BY <1>5, <1>6, <1>7, <1>8, <3>2, <4>1
    <3> QED
      BY <3>1, <3>2
  <2> QED
    BY <2>1 DEF Ring
<1>15. (dpc["frame"] \in {"look", "subtract", "print"} => lpc = "dumping")'
  BY DEF LogTime, dumpVars, LogInv
<1> QED
  BY <1>10, <1>11, <1>12, <1>13, <1>14, <1>15 DEF LogInv

\* What a dump leaves alone: the log, and the other dump except for the file.
LEMMA DumpFrame ==
    ASSUME LogInv, NEW d \in Dumpers, Dump(d)
    PROVE  /\ UNCHANGED <<log, index, clock, logged, older>> /\ (late => late')
           /\ lpc' = lpc \/ (lpc = "idle" /\ lpc' = "dumping") \/ (lpc = "dumping" /\ lpc' = "ended")
<1>1. CASE DumpStart(d)
  BY <1>1 DEF DumpStart
<1>2. CASE DumpFails(d) \/ DumpEnds(d)
  BY <1>2 DEF DumpFails, DumpEnds, LogInv
<1>3. CASE Look(d) \/ Subtract(d) \/ PrintLine(d)
  BY <1>3 DEF Look, Subtract, PrintLine, logVars
<1> QED
  BY <1>1, <1>2, <1>3 DEF Dump

\* What a dump does leaves the log alone.
LEMMA DumpStep == ASSUME LogInv, NEW d \in Dumpers, Dump(d) PROVE LogInv'
<1> USE MemlogAssumption
<1>1. /\ UNCHANGED <<log, index, clock, logged>>
      /\ lpc' = lpc \/ (lpc = "idle" /\ lpc' = "dumping") \/ (lpc = "dumping" /\ lpc' = "ended")
  BY DumpFrame
<1>2. lpc' \in {"idle", "stamp", "dumping", "ended"}
  BY <1>1 DEF LogInv, TypeOK
<1>3. /\ dpc' \in [Dumpers -> {"none", "look", "subtract", "print", "failed", "done"}]
      /\ i' \in [Dumpers -> 0 .. MEMLOG_MAX]
      /\ offset' \in [Dumpers -> Nat]
      /\ \A c \in Dumpers : dpc'[c] \in {"subtract", "print"} =>
           i'[c] \in Ring /\ log[i'[c]].event_id # "NONE"
  <2>1. CASE DumpStart(d)
    BY <2>1 DEF DumpStart, LogInv, TypeOK
  <2>2. CASE DumpFails(d)
    BY <2>2 DEF DumpFails, LogInv, TypeOK
  <2>3. CASE Look(d)
    <3>1. i[d] \in Ring /\ i[d] + 1 \in 0 .. MEMLOG_MAX
      BY <2>3 DEF Look, LogInv, TypeOK, Ring
    <3>2. CASE log[i[d]].event_id # "NONE"
      <4>1. dpc' = [dpc EXCEPT ![d] = "subtract"] /\ i' = i /\ offset' = offset
        BY <2>3, <3>2 DEF Look
      <4> QED
        BY <3>1, <3>2, <4>1 DEF LogInv, TypeOK
    <3>3. CASE log[i[d]].event_id = "NONE"
      <4>1. dpc' = dpc /\ i' = [i EXCEPT ![d] = @ + 1] /\ offset' = offset /\ dpc[d] = "look"
        BY <2>3, <3>3 DEF Look
      <4> QED
        BY <3>1, <4>1 DEF LogInv, TypeOK
    <3> QED
      BY <3>2, <3>3
  <2>4. CASE Subtract(d)
    BY <2>4 DEF Subtract, LogInv, TypeOK
  <2>5. CASE PrintLine(d)
    <3>1. i[d] \in Ring
      BY <2>5 DEF PrintLine, LogInv
    <3>2. i[d] + 1 \in 0 .. MEMLOG_MAX /\ offset[d] + 1 \in Nat
      BY <3>1 DEF LogInv, TypeOK, Ring
    <3>3. /\ dpc' = [dpc EXCEPT ![d] = "look"] /\ i' = [i EXCEPT ![d] = @ + 1]
          /\ offset' = [offset EXCEPT ![d] = @ + 1]
      BY <2>5 DEF PrintLine
    <3> QED
      BY <3>2, <3>3 DEF LogInv, TypeOK
  <2>6. CASE DumpEnds(d)
    BY <2>6 DEF DumpEnds, LogInv, TypeOK
  <2> QED
    BY <2>1, <2>2, <2>3, <2>4, <2>5, <2>6 DEF Dump
<1>4. TypeOK'
  BY <1>1, <1>2, <1>3 DEF LogInv, TypeOK
<1>5. KeepsLast'
  BY <1>1 DEF LogInv, KeepsLast, Entry
<1>6. (dpc["frame"] \in {"look", "subtract", "print"} => lpc = "dumping")'
  <2>1. CASE d = "frame"
    BY <2>1 DEF Dump, DumpStart, DumpFails, Look, Subtract, PrintLine, DumpEnds, logVars, LogInv, TypeOK
  <2>2. CASE d = "main"
    <3>1. lpc' = lpc
      BY <2>2 DEF Dump, DumpStart, DumpFails, Look, Subtract, PrintLine, DumpEnds, logVars
    <3>2. dpc' = dpc \/ \E place : dpc' = [dpc EXCEPT ![d] = place]
      BY DEF Dump, DumpStart, DumpFails, Look, Subtract, PrintLine, DumpEnds
    <3>3. dpc'["frame"] = dpc["frame"]
      BY <2>2, <3>2 DEF LogInv, TypeOK, Dumpers
    <3> QED
      BY <3>1, <3>3 DEF LogInv
  <2> QED
    BY <2>1, <2>2 DEF Dumpers
<1> QED
  BY <1>1, <1>3, <1>4, <1>5, <1>6 DEF LogInv, Entry

\* Every step preserves the invariant.
LEMMA LogStep == LogInv /\ [Next]_vars => LogInv'
<1> SUFFICES ASSUME LogInv, [Next]_vars PROVE LogInv'
  OBVIOUS
<1>1. CASE LogEnds \/ UNCHANGED vars
  <2>1. UNCHANGED <<log, index, clock, logged, dumpVars>>
    BY <1>1 DEF LogEnds, vars, logVars
  <2>2. lpc' = lpc \/ (lpc = "idle" /\ lpc' = "ended")
    BY <1>1 DEF LogEnds, vars, logVars
  <2>3. TypeOK'
    BY <2>1, <2>2 DEF LogInv, TypeOK, dumpVars
  <2>4. KeepsLast'
    BY <2>1, <2>2 DEF LogInv, KeepsLast, Entry
  <2> QED
    BY <2>1, <2>2, <2>3, <2>4 DEF LogInv, Entry, dumpVars
<1> QED
  BY <1>1, LogEventStep, LogTimeStep, DumpStep DEF Next

\* LogInv holds in every state of the log and its dumps.
THEOREM LogInvariance == Spec => []LogInv
BY LogInit, LogStep, PTL DEF Spec

\* The ring holds the last MEMLOG_MAX entries, however many were logged.
THEOREM LastAreKept == Spec => []KeepsLast
<1>1. LogInv => KeepsLast
  BY DEF LogInv
<1> QED
  BY <1>1, LogInvariance, PTL

\* A dump prints a torn line only of the entry the thread is in the middle of.
THEOREM TornIsInMiddle == Spec => TornOnlyInMiddle
<1>1. LogInv /\ [Next]_vars =>
        [\A d \in Dumpers :
           offset'[d] # offset[d] =>
             \/ lpc = "stamp" /\ i[d] = index
             \/ \E n \in 1 .. Len(logged) :
                  /\ file'[offset'[d]].event_id = logged[n].event_id
                  /\ Total(file'[offset'[d]].time) = logged[n].at]_vars
  <2> SUFFICES ASSUME LogInv, Next, NEW d \in Dumpers, offset'[d] # offset[d],
                      ~(lpc = "stamp" /\ i[d] = index)
               PROVE  \E n \in 1 .. Len(logged) :
                        /\ file'[offset'[d]].event_id = logged[n].event_id
                        /\ Total(file'[offset'[d]].time) = logged[n].at
    OBVIOUS
  <2>1. PrintLine(d)
    <3>1. PICK c \in Dumpers : PrintLine(c)
      BY DEF Next, LogEvent, LogTime, LogEnds, Dump, DumpStart, DumpFails, Look, Subtract, DumpEnds,
         dumpVars
    <3> QED
      BY <3>1 DEF PrintLine, LogInv, TypeOK
  <2>2. i[d] \in Ring /\ log[i[d]].event_id # "NONE" /\ offset[d] \in Nat
    BY <2>1 DEF PrintLine, LogInv, TypeOK
  <2>3. PICK n \in 1 .. Len(logged) : log[i[d]] = Entry(n)
    BY <2>2 DEF LogInv
  <2>4. offset'[d] = offset[d] + 1 /\ file'[offset[d] + 1] = Line(d)
    BY <2>1, <2>2 DEF PrintLine, LogInv, TypeOK
  <2>5. logged[n].at \in Nat
    <3>1. logged \in Seq([event_id : Events, at : Nat])
      BY DEF LogInv, TypeOK
    <3>2. logged[n] \in [event_id : Events, at : Nat]
      BY <3>1, ElementOfSeq, Zenon
    <3> QED
      BY <3>2
  <2>6. Line(d).event_id = logged[n].event_id /\ Line(d).time = Stamp(logged[n].at)
    BY <2>3 DEF Line, Entry
  <2> QED
    BY <2>4, <2>5, <2>6, StampTotal
<1> QED
  BY <1>1, LogInvariance, PTL DEF Spec, TornOnlyInMiddle

-----------------------------------------------------------------------------
(* What the dumps write *)

\* Every place in use has the entry that went there last.
LEMMA UsedPlace ==
    ASSUME LogInv, NEW p \in 0 .. Used - 1
    PROVE  p \in Ring /\ \E n \in 1 .. Len(logged) : /\ n > Len(logged) - MEMLOG_MAX
                                                     /\ (n - 1) % MEMLOG_MAX = p
<1> DEFINE L == Len(logged)
           r == L % MEMLOG_MAX
<1>1. L \in Nat /\ MEMLOG_MAX \in Nat \ {0}
  BY MemlogAssumption DEF LogInv, TypeOK
<1>2. p \in Nat /\ p \in 0 .. MEMLOG_MAX - 1 /\ (L < MEMLOG_MAX => p < L)
  BY <1>1 DEF Used
<1>3. r \in 0 .. MEMLOG_MAX - 1
  BY <1>1
<1>4. PICK q \in Int : L = MEMLOG_MAX * q + r
  BY <1>1, Division
<1> HIDE DEF r
<1>5. ASSUME NEW k \in Nat, NEW c \in Int, k = MEMLOG_MAX * c + p
      PROVE  k % MEMLOG_MAX = p
  <2>1. PICK b \in Int : k = MEMLOG_MAX * b + (k % MEMLOG_MAX)
    BY <1>1, Division
  <2>2. k % MEMLOG_MAX \in 0 .. MEMLOG_MAX - 1
    BY <1>1
  <2>3. MEMLOG_MAX * b + (k % MEMLOG_MAX) = MEMLOG_MAX * c + p
    BY <1>5, <2>1
  <2> DEFINE s == k % MEMLOG_MAX
  <2>4. s \in 0 .. MEMLOG_MAX - 1 /\ MEMLOG_MAX * b + s = MEMLOG_MAX * c + p
    BY <2>2, <2>3
  <2> HIDE DEF s
  <2>5. s = p
    BY <1>1, <1>2, <2>4, Remainder
  <2> QED
    BY <2>5 DEF s
<1>6. ASSUME NEW k \in Nat, k < L, k + 1 > L - MEMLOG_MAX, k % MEMLOG_MAX = p
      PROVE  \E n \in 1 .. L : n > L - MEMLOG_MAX /\ (n - 1) % MEMLOG_MAX = p
  <2>1. k + 1 \in 1 .. L /\ (k + 1) - 1 = k
    BY <1>1, <1>6
  <2> QED
    BY <1>6, <2>1
<1> HIDE DEF L
<1>7. CASE L < MEMLOG_MAX
  <2>1. p = MEMLOG_MAX * 0 + p
    BY <1>1, <1>2
  <2>2. p % MEMLOG_MAX = p
    BY <1>2, <1>5, <2>1
  <2> QED
    BY <1>1, <1>2, <1>6, <1>7, <2>2 DEF L, Ring
<1>8. CASE L >= MEMLOG_MAX /\ p < r
  <2>1. L - r + p = MEMLOG_MAX * q + p /\ L - r + p \in Nat
    BY <1>1, <1>2, <1>3, <1>4, <1>8
  <2> DEFINE k == L - r + p
  <2>2. k \in Nat /\ k < L /\ k + 1 > L - MEMLOG_MAX
    BY <1>1, <1>2, <1>3, <1>8, <2>1
  <2>3. k % MEMLOG_MAX = p
    BY <1>5, <2>1
  <2> QED
    BY <1>2, <1>6, <2>2, <2>3 DEF L, Ring
<1>9. CASE L >= MEMLOG_MAX /\ p >= r
  <2> DEFINE k == L - r - MEMLOG_MAX + p
  <2>1. MEMLOG_MAX * (q - 1) = MEMLOG_MAX * q - MEMLOG_MAX
    BY <1>1
  <2>2. k = MEMLOG_MAX * (q - 1) + p
    BY <1>1, <1>2, <1>3, <1>4, <2>1
  <2>3. q >= 1
    <3>1. CASE q <= 0
      <4>1. MEMLOG_MAX * q <= 0
        BY <1>1, <3>1
      <4> QED
        BY <1>1, <1>3, <1>4, <1>9, <4>1
    <3> QED
      BY <3>1
  <2>4. MEMLOG_MAX * (q - 1) >= 0
    BY <1>1, <2>3
  <2>5. k \in Nat /\ k < L /\ k + 1 > L - MEMLOG_MAX
    BY <1>1, <1>2, <1>3, <1>9, <2>2, <2>4
  <2>6. k % MEMLOG_MAX = p
    BY <1>5, <2>2, <2>5
  <2> QED
    BY <1>2, <1>6, <2>5, <2>6 DEF L, Ring
<1> QED
  BY <1>1, <1>2, <1>3, <1>7, <1>8, <1>9

\* The entry there is an entry that was logged.
LEMMA UsedEntry ==
    ASSUME LogInv, lpc # "stamp", NEW p \in 0 .. Used - 1
    PROVE  /\ p \in Ring /\ log[p].event_id \in Events /\ log[p].event_id # "NONE"
           /\ log[p].time \in Normalised
           /\ \A n \in 1 .. Len(logged) :
                n > Len(logged) - MEMLOG_MAX /\ (n - 1) % MEMLOG_MAX = p => log[p] = Entry(n)
<1>1. p \in Ring /\ Len(logged) \in Nat /\ MEMLOG_MAX \in Nat
  BY UsedPlace, MemlogAssumption DEF LogInv, TypeOK
<1>2. \A n \in 1 .. Len(logged) :
        n > Len(logged) - MEMLOG_MAX /\ (n - 1) % MEMLOG_MAX = p => log[p] = Entry(n)
  BY <1>1 DEF LogInv, KeepsLast
<1>3. PICK n \in 1 .. Len(logged) : log[p] = Entry(n)
  BY <1>2, UsedPlace
<1>4. logged[n].event_id \in Events
  <2>1. logged \in Seq([event_id : Events, at : Nat])
    BY DEF LogInv, TypeOK
  <2>2. logged[n] \in [event_id : Events, at : Nat]
    BY <2>1, ElementOfSeq, Zenon
  <2> QED
    BY <2>2
<1> QED
  BY <1>1, <1>2, <1>3, <1>4, MemlogAssumption DEF Entry, LogInv, TypeOK

\* The length of a function that is a sequence.
LEMMA LenOf == ASSUME NEW m \in Nat, NEW f, f = [k \in 1 .. m |-> f[k]] PROVE Len(f) = m
<1> DEFINE S == {f[k] : k \in 1 .. m}
<1>1. f \in [1 .. m -> S]
  OBVIOUS
<1> HIDE DEF S
<1>2. f \in Seq(S)
  BY <1>1, SeqDef
<1>3. Len(f) \in Nat /\ 1 .. Len(f) = 1 .. m
  BY <1>1, <1>2, LenProperties
<1> QED
  BY <1>3

\* Nothing is dumped yet, and the file has old lines only.
LEMMA LinesInit == Init => LinesInv
<1> SUFFICES ASSUME Init PROVE LinesInv
  OBVIOUS
<1> USE MemlogAssumption
<1>1. logged = <<>> /\ Len(logged) = 0 /\ Used = 0
  BY DEF Init, Used
<1>2. PICK n \in Older : older = n /\ file = [k \in 1 .. n |-> OldLine]
  BY DEF Init
<1>3. Len(file) = n /\ n \in Nat /\ DOMAIN file = 1 .. n
  BY <1>2, LenOf
<1>4. \A d \in Dumpers : CopyInv(d)
  BY <1>1, <1>3 DEF Init, CopyInv
<1>5. \A p \in Ring : log[p].event_id = "NONE"
  BY DEF Init, memlog_init
<1>6. DOMAIN t_prev = Dumpers /\ DOMAIN t = Dumpers /\ DOMAIN diff = Dumpers
  BY DEF Init
<1> QED
  BY <1>2, <1>3, <1>4, <1>5, <1>6 DEF LinesInv

\* What the thread logs: the dumps that count have not begun.
LEMMA LinesLogged ==
    ASSUME LogInv, LinesInv, (\E e \in Events : LogEvent(e)) \/ LogTime
    PROVE  LinesInv'
<1> USE MemlogAssumption
<1>1. /\ UNCHANGED <<dpc, i, offset, file, late, older>> /\ lpc \in {"idle", "stamp"}
      /\ Len(logged) \in Nat /\ index \in Ring /\ index = Len(logged) % MEMLOG_MAX
  <2>1. Len(logged) \in Nat /\ index \in Ring /\ index = Len(logged) % MEMLOG_MAX
    BY DEF LogInv, TypeOK, KeepsLast
  <2>2. CASE LogTime
    BY <2>1, <2>2 DEF LogTime, dumpVars
  <2>3. CASE \E e \in Events : LogEvent(e)
    BY <2>1, <2>3 DEF LogEvent, dumpVars
  <2> QED
    BY <2>2, <2>3
<1>2. Used \in 0 .. MEMLOG_MAX /\ Used' \in Nat /\ Used' >= Used
      /\ Len(logged') \in Nat
      /\ (LogTime => index < Used') /\ (\A e \in Events : LogEvent(e) => Used' = Used)
  <2>1. CASE LogTime
    <3>1. Len(logged') = Len(logged) + 1
      <4>1. PICK new : logged' = Append(logged, new)
        BY <2>1 DEF LogTime
      <4>2. logged \in Seq([event_id : Events, at : Nat])
        BY DEF LogInv, TypeOK
      <4> QED
        BY <4>1, <4>2
    <3>2. Len(logged) < MEMLOG_MAX => index = Len(logged)
      <4> DEFINE L == Len(logged)
      <4>1. L \in Nat
        BY <1>1
      <4> HIDE DEF L
      <4>2. ASSUME L < MEMLOG_MAX PROVE L % MEMLOG_MAX = L
        <5>1. L \div MEMLOG_MAX = 0
          BY <4>1, <4>2, SmallQuotient
        <5>2. L = MEMLOG_MAX * (L \div MEMLOG_MAX) + (L % MEMLOG_MAX)
          BY <4>1, SMTT(60)
        <5> QED
          BY <4>1, <5>1, <5>2
      <4> QED
        BY <1>1, <4>2 DEF L
    <3>3. ~ \E e \in Events : LogEvent(e)
      BY <2>1 DEF LogTime, LogEvent
    <3> QED
      BY <1>1, <3>1, <3>2, <3>3 DEF Used, Ring
  <2>2. CASE \E e \in Events : LogEvent(e)
    <3>1. logged' = logged /\ ~LogTime
      BY <2>2 DEF LogEvent, LogTime
    <3> QED
      BY <1>1, <3>1 DEF Used
  <2> QED
    BY <2>1, <2>2
<1>3. \A p \in Ring : p >= Used' /\ ~(lpc' = "stamp" /\ p = index') => log'[p].event_id = "NONE"
  <2>1. CASE LogTime
    <3>1. /\ lpc = "stamp" /\ lpc' = "idle"
          /\ \A p \in Ring : p # index => log'[p] = log[p]
      BY <2>1 DEF LogTime, LogInv, TypeOK
    <3> QED
      BY <1>1, <1>2, <2>1, <3>1 DEF LinesInv, Ring
  <2>2. CASE \E e \in Events : LogEvent(e)
    <3>1. /\ lpc = "idle" /\ lpc' = "stamp" /\ index' = index
          /\ \A p \in Ring : p # index => log'[p] = log[p]
      BY <2>2 DEF LogEvent, LogInv, TypeOK
    <3> QED
      BY <1>2, <2>2, <3>1 DEF LinesInv
  <2> QED
    BY <2>1, <2>2
<1>4. ASSUME ~late', NEW d \in Dumpers PROVE CopyInv(d)'
  <2>1. CopyInv(d) /\ ~late
    BY <1>1, <1>4 DEF LinesInv
  <2>2. dpc[d] = "none" /\ i[d] = 0 /\ offset[d] = 0 /\ 0 <= Len(file)
    BY <1>1, <1>2, <2>1 DEF CopyInv
  <2> QED
    BY <1>1, <1>2, <2>2 DEF CopyInv
<1>5. ASSUME ~late'
      PROVE  /\ older' \in Nat /\ Len(file') \in Nat /\ DOMAIN file' = 1 .. Len(file')
             /\ older' <= Len(file')
             /\ \A k \in 1 .. Len(file') : k > Used' => k <= older' /\ file'[k] = OldLine
  BY <1>1, <1>2, <1>5 DEF LinesInv
<1>6. DOMAIN t_prev' = Dumpers /\ DOMAIN t' = Dumpers /\ DOMAIN diff' = Dumpers
  BY DEF LogEvent, LogTime, dumpVars, LinesInv
<1> QED
  BY <1>3, <1>4, <1>5, <1>6 DEF LinesInv

\* A line is written at the place of its entry, over what the file had there.
LEMMA PrintedLine ==
    ASSUME LogInv, LinesInv, ~late, NEW d \in Dumpers, PrintLine(d)
    PROVE  /\ i[d] \in 0 .. Used - 1 /\ offset[d] = i[d]
           /\ GoodLine(i[d], file'[i[d] + 1])
           /\ Len(file') \in Nat /\ DOMAIN file' = 1 .. Len(file')
           /\ Len(file') = IF i[d] < Len(file) THEN Len(file) ELSE i[d] + 1
           /\ \A k \in 1 .. Len(file) : k # i[d] + 1 => file'[k] = file[k]
<1>1. CopyInv(d) /\ dpc[d] = "print" /\ i[d] \in Nat /\ Used \in Nat
  BY MemlogAssumption DEF LinesInv, PrintLine, LogInv, TypeOK, Used
<1>2. /\ i[d] \in 0 .. Used - 1 /\ offset[d] = i[d] /\ offset[d] <= Len(file)
      /\ Len(file) \in Nat /\ DOMAIN file = 1 .. Len(file)
  BY <1>1 DEF CopyInv, LinesInv
<1>3. GoodLine(i[d], Line(d))
  <2>1. /\ Line(d).event_id = log[i[d]].event_id /\ Line(d).time = log[i[d]].time
        /\ Line(d).diff = diff[d].result
        /\ Line(d).mark = (diff[d].negative /\ log[i[d]].event_id \notin DataEvents)
    BY DEF Line
  <2>2. Differs(Line(d).diff, i[d])
    BY <1>1, <2>1 DEF CopyInv
  <2>3. diff[d].negative <=> Earlier(i[d])
    BY <1>1, Zenon DEF CopyInv
  <2>4. Line(d).mark <=> Earlier(i[d]) /\ log[i[d]].event_id \notin DataEvents
    BY <2>1, <2>3, Zenon
  <2> QED
    BY <2>1, <2>2, <2>4, Zenon DEF GoodLine
<1> DEFINE m == IF i[d] < Len(file) THEN Len(file) ELSE i[d] + 1
<1>4. file' = [k \in 1 .. Len(file) \cup {i[d] + 1} |-> IF k = i[d] + 1 THEN Line(d) ELSE file[k]]
  BY <1>2 DEF PrintLine
<1>5. m \in Nat /\ i[d] + 1 \in 1 .. m /\ 1 .. Len(file) \cup {i[d] + 1} = 1 .. m
  BY <1>1, <1>2
<1>6. file' = [k \in 1 .. m |-> IF k = i[d] + 1 THEN Line(d) ELSE file[k]]
  BY <1>4, <1>5, Zenon
<1> HIDE DEF m
<1>7. file' = [k \in 1 .. m |-> file'[k]] /\ DOMAIN file' = 1 .. m
  BY <1>6
<1>8. Len(file') = m
  BY <1>5, <1>7, LenOf
<1>9. file'[i[d] + 1] = Line(d)
  BY <1>5, <1>6
<1>10. \A k \in 1 .. Len(file) : k # i[d] + 1 => file'[k] = file[k]
  BY <1>4
<1> QED
  BY <1>2, <1>3, <1>5, <1>7, <1>8, <1>9, <1>10 DEF m

\* A dump keeps the lines of both dumps good, and what is after them old.
LEMMA LinesDumped == ASSUME LogInv, LinesInv, NEW d \in Dumpers, Dump(d) PROVE LinesInv'
<1> USE MemlogAssumption
<1>1. /\ UNCHANGED <<log, index, logged, older>> /\ (late => late')
      /\ lpc' = lpc \/ (lpc = "idle" /\ lpc' = "dumping") \/ (lpc = "dumping" /\ lpc' = "ended")
  BY DumpFrame
<1>2. /\ Used' = Used /\ Used \in 0 .. MEMLOG_MAX /\ MEMLOG_MAX \in Nat
      /\ lpc \in {"idle", "stamp", "dumping", "ended"}
      /\ dpc \in [Dumpers -> {"none", "look", "subtract", "print", "failed", "done"}]
      /\ i \in [Dumpers -> 0 .. MEMLOG_MAX] /\ offset \in [Dumpers -> Nat]
      /\ DOMAIN t_prev = Dumpers /\ DOMAIN t = Dumpers /\ DOMAIN diff = Dumpers
  BY <1>1 DEF Used, LogInv, TypeOK, LinesInv
<1>3. DOMAIN t_prev' = Dumpers /\ DOMAIN t' = Dumpers /\ DOMAIN diff' = Dumpers
  BY <1>2 DEF Dump, DumpStart, DumpFails, Look, Subtract, PrintLine, DumpEnds
<1>4. \A p \in Ring : p >= Used' /\ ~(lpc' = "stamp" /\ p = index') => log'[p].event_id = "NONE"
  BY <1>1, <1>2 DEF LinesInv
<1> SUFFICES ASSUME ~late'
             PROVE  /\ \A c \in Dumpers : CopyInv(c)'
                    /\ older' \in Nat /\ Len(file') \in Nat /\ DOMAIN file' = 1 .. Len(file')
                    /\ older' <= Len(file')
                    /\ \A k \in 1 .. Len(file') : k > Used' => k <= older' /\ file'[k] = OldLine
  BY <1>3, <1>4 DEF LinesInv
<1>5. /\ ~late /\ \A c \in Dumpers : CopyInv(c)
      /\ older \in Nat /\ Len(file) \in Nat /\ DOMAIN file = 1 .. Len(file) /\ older <= Len(file)
      /\ \A k \in 1 .. Len(file) : k > Used => k <= older /\ file[k] = OldLine
  BY <1>1 DEF LinesInv
<1>6. PrintLine(d) \/ file' = file
  BY DEF Dump, DumpStart, DumpFails, Look, Subtract, DumpEnds
<1>7. /\ older' \in Nat /\ Len(file') \in Nat /\ DOMAIN file' = 1 .. Len(file')
      /\ older' <= Len(file') /\ Len(file) <= Len(file')
      /\ \A k \in 1 .. Len(file') : k > Used' => k <= older' /\ file'[k] = OldLine
  <2>1. CASE PrintLine(d)
    <3>1. /\ i[d] \in 0 .. Used - 1
          /\ Len(file') \in Nat /\ DOMAIN file' = 1 .. Len(file')
          /\ Len(file') = IF i[d] < Len(file) THEN Len(file) ELSE i[d] + 1
          /\ \A k \in 1 .. Len(file) : k # i[d] + 1 => file'[k] = file[k]
      BY <1>5, <2>1, PrintedLine
    <3>2. i[d] \in Nat /\ i[d] < Used /\ Len(file) <= Len(file')
      BY <1>2, <1>5, <3>1
    <3>3. ASSUME NEW k \in 1 .. Len(file'), k > Used PROVE k <= older /\ file'[k] = OldLine
      <4>1. k \in 1 .. Len(file) /\ k # i[d] + 1
        BY <1>2, <1>5, <3>1, <3>2, <3>3
      <4> QED
        BY <1>5, <3>1, <3>3, <4>1
    <3> QED
      BY <1>1, <1>2, <1>5, <3>1, <3>2, <3>3
  <2>2. CASE file' = file
    BY <1>1, <1>2, <1>5, <2>2
  <2> QED
    BY <1>6, <2>1, <2>2
<1>8. ASSUME NEW c \in Dumpers, NEW p \in 0 .. offset[c] - 1 PROVE GoodLine(p, file'[p + 1])
  <2>1. GoodLine(p, file[p + 1]) /\ p + 1 \in 1 .. Len(file) /\ p \in Nat
    BY <1>2, <1>5, <1>8 DEF CopyInv
  <2>2. CASE file'[p + 1] = file[p + 1]
    BY <2>1, <2>2
  <2>3. CASE PrintLine(d)
    <3>1. /\ GoodLine(i[d], file'[i[d] + 1]) /\ i[d] \in Nat
          /\ p + 1 # i[d] + 1 => file'[p + 1] = file[p + 1]
      BY <1>5, <2>1, <2>3, PrintedLine
    <3> QED
      BY <2>1, <2>2, <3>1
  <2> QED
    BY <1>6, <2>2, <2>3
<1>9. \A p, line : GoodLine(p, line)' <=> GoodLine(p, line)
  BY <1>1 DEF GoodLine, Differs, Earlier, Before
<1>10. ASSUME NEW c \in Dumpers, c # d PROVE CopyInv(c)'
  <2>1. /\ dpc'[c] = dpc[c] /\ i'[c] = i[c] /\ offset'[c] = offset[c]
        /\ t_prev'[c] = t_prev[c] /\ t'[c] = t[c] /\ diff'[c] = diff[c]
    BY <1>2, <1>10 DEF Dump, DumpStart, DumpFails, Look, Subtract, PrintLine, DumpEnds
  <2>2. CopyInv(c)
    BY <1>5
  <2>3. \A p \in 0 .. offset'[c] - 1 : GoodLine(p, file'[p + 1])
    BY <1>8, <2>1
  <2>4. dpc'[c] # "none" => lpc' \in {"dumping", "ended"}
    BY <1>1, <2>1, <2>2 DEF CopyInv
  <2>5. offset'[c] = (IF i'[c] < Used' THEN i'[c] ELSE Used') /\ offset'[c] <= Len(file')
    BY <1>2, <1>5, <1>7, <2>1, <2>2 DEF CopyInv
  <2>6. dpc'[c] \in {"look", "subtract"} /\ i'[c] < Used' => t_prev'[c] = Before(i[c])
    BY <1>2, <2>1, <2>2 DEF CopyInv
  <2>7. dpc'[c] = "print" => Differs(diff[c].result, i[c]) /\ (diff[c].negative <=> Earlier(i[c]))
    BY <2>1, <2>2, Zenon DEF CopyInv
  <2> QED
    BY <1>1, <1>2, <2>1, <2>2, <2>3, <2>4, <2>5, <2>6, <2>7
       DEF CopyInv, GoodLine, Differs, Earlier, Before
<1>11. CopyInv(d) /\ i[d] \in Nat /\ i[d] <= MEMLOG_MAX /\ Used \in Nat /\ Used <= MEMLOG_MAX
  BY <1>2, <1>5
<1>12. dpc[d] # "none" => lpc' \in {"dumping", "ended"} /\ lpc \in {"dumping", "ended"}
  BY <1>1, <1>11 DEF CopyInv
<1>13. ASSUME dpc'[d] # "none" => lpc' \in {"dumping", "ended"},
              dpc'[d] # "none", \A p \in 0 .. offset'[d] - 1 : GoodLine(p, file'[p + 1]),
              dpc'[d] \in {"look", "subtract"} /\ i'[d] < Used => t_prev'[d] = Before(i'[d]),
              dpc'[d] \in {"subtract", "print"} => i'[d] < Used /\ t'[d] = log[i'[d]].time,
              dpc'[d] = "print" => Differs(diff'[d].result, i'[d]),
              dpc'[d] = "print" => (diff'[d].negative <=> Earlier(i'[d])),
              dpc'[d] = "done" => i'[d] = MEMLOG_MAX,
              offset'[d] = IF i'[d] < Used THEN i'[d] ELSE Used, offset'[d] <= Len(file')
       PROVE  CopyInv(d)'
  BY <1>1, <1>2, <1>13 DEF CopyInv, GoodLine, Differs, Earlier, Before
<1>14. ASSUME UNCHANGED <<offset, file>>
       PROVE  /\ \A p \in 0 .. offset'[d] - 1 : GoodLine(p, file'[p + 1])
              /\ offset'[d] <= Len(file')
  BY <1>11, <1>14 DEF CopyInv
<1>15. ASSUME DumpStart(d) PROVE CopyInv(d)'
  <2>1. /\ dpc[d] = "none" /\ dpc'[d] = "look" /\ t_prev'[d] = log[0].time
        /\ UNCHANGED <<i, offset, file>> /\ i[d] = 0
    BY <1>2, <1>11, <1>15 DEF DumpStart, CopyInv
  <2>2. lpc' \in {"dumping", "ended"}
    <3>1. CASE d = "frame"
      BY <1>15, <3>1 DEF DumpStart
    <3>2. CASE d = "main"
      BY <1>2, <1>15, <3>2 DEF DumpStart
    <3> QED
      BY <3>1, <3>2 DEF Dumpers
  <2>3. t_prev'[d] = Before(i'[d])
    BY <2>1 DEF Before
  <2> QED
    BY <1>11, <1>13, <1>14, <2>1, <2>2, <2>3 DEF CopyInv
<1>16. ASSUME DumpFails(d) \/ DumpEnds(d) PROVE CopyInv(d)'
  <2>1. /\ dpc[d] = "look" /\ dpc'[d] \in {"failed", "done"} /\ (dpc'[d] = "done" => i[d] = MEMLOG_MAX)
        /\ UNCHANGED <<i, offset, file>>
    BY <1>2, <1>16 DEF DumpFails, DumpEnds
  <2> QED
    BY <1>11, <1>12, <1>13, <1>14, <2>1 DEF CopyInv
<1>17. ASSUME Look(d) PROVE CopyInv(d)'
  <2>1. /\ dpc[d] = "look" /\ i[d] \in Ring /\ lpc # "stamp"
        /\ UNCHANGED <<t_prev, offset, file>>
    BY <1>11, <1>12, <1>17 DEF Look, Ring
  <2>2. CASE log[i[d]].event_id # "NONE"
    <3>1. dpc'[d] = "subtract" /\ i' = i /\ t'[d] = log[i[d]].time
      BY <1>2, <1>17, <2>2 DEF Look
    <3>2. i[d] < Used
      BY <1>2, <1>11, <2>1, <2>2 DEF LinesInv
    <3> QED
      BY <1>11, <1>12, <1>13, <1>14, <2>1, <3>1, <3>2 DEF CopyInv
  <2>3. CASE log[i[d]].event_id = "NONE"
    <3>1. dpc'[d] = "look" /\ i'[d] = i[d] + 1
      BY <1>2, <1>17, <2>1, <2>3 DEF Look
    <3>2. i[d] >= Used
      <4>1. i[d] \in 0 .. Used - 1 => FALSE
        BY <2>1, <2>3, UsedEntry
      <4> QED
        BY <1>11, <4>1
    <3>3. offset'[d] = Used /\ ~(i'[d] < Used)
      BY <1>11, <2>1, <3>1, <3>2 DEF CopyInv
    <3> QED
      BY <1>12, <1>13, <1>14, <2>1, <3>1, <3>3
  <2> QED
    BY <2>2, <2>3
<1>18. ASSUME Subtract(d) PROVE CopyInv(d)'
  <2> DEFINE s == timespec_subtract(log[i[d]].time, t_prev[d])
  <2>1. /\ dpc[d] = "subtract" /\ dpc'[d] = "print" /\ diff'[d] = s
        /\ UNCHANGED <<i, t, offset, file>>
    BY <1>2, <1>18 DEF Subtract
  <2>2. /\ i[d] \in 0 .. Used - 1 /\ t[d] = log[i[d]].time /\ t_prev[d] = Before(i[d])
        /\ lpc # "stamp"
    BY <1>11, <1>12, <2>1 DEF CopyInv
  <2>3. log[i[d]].time \in Normalised /\ t_prev[d] \in Normalised
    <3>1. log[i[d]].time \in Normalised
      BY <2>2, UsedEntry
    <3>2. i[d] # 0 => i[d] - 1 \in 0 .. Used - 1
      BY <1>11, <2>2
    <3>3. i[d] # 0 => log[i[d] - 1].time \in Normalised
      BY <2>2, <3>2, UsedEntry
    <3> QED
      BY <2>2, <3>1, <3>3 DEF Before
  <2>4. /\ Total(s.result) = Total(log[i[d]].time) - Total(t_prev[d])
        /\ s.negative <=> Total(log[i[d]].time) < Total(t_prev[d])
    BY <2>3, SubtractExact
  <2> HIDE DEF s
  <2>5. Differs(diff'[d].result, i'[d]) /\ (diff'[d].negative <=> Earlier(i'[d]))
    <3>1. Differs(diff'[d].result, i'[d])
      BY <2>1, <2>2, <2>4 DEF Differs
    <3>2. Earlier(i[d]) <=> Total(log[i[d]].time) < Total(t_prev[d])
      BY <2>2 DEF Earlier
    <3>3. diff'[d].negative <=> Earlier(i'[d])
      BY <2>1, <2>4, <3>2, Zenon
    <3> QED
      BY <3>1, <3>3
  <2>6. offset'[d] = (IF i'[d] < Used THEN i'[d] ELSE Used) /\ i'[d] < Used
        /\ t'[d] = log[i'[d]].time
    BY <1>11, <2>1, <2>2 DEF CopyInv
  <2> QED
    BY <1>12, <1>13, <1>14, <2>1, <2>5, <2>6
<1>19. ASSUME PrintLine(d) PROVE CopyInv(d)'
  <2>1. /\ dpc[d] = "print" /\ dpc'[d] = "look" /\ i'[d] = i[d] + 1 /\ offset'[d] = offset[d] + 1
        /\ t_prev'[d] = t[d] /\ t[d] = log[i[d]].time
    BY <1>2, <1>11, <1>19 DEF PrintLine, CopyInv
  <2>2. /\ i[d] \in 0 .. Used - 1 /\ offset[d] = i[d] /\ GoodLine(i[d], file'[i[d] + 1])
        /\ Len(file') = IF i[d] < Len(file) THEN Len(file) ELSE i[d] + 1
    BY <1>5, <1>19, PrintedLine
  <2>3. \A p \in 0 .. offset'[d] - 1 : GoodLine(p, file'[p + 1])
    <3>1. ASSUME NEW p \in 0 .. offset'[d] - 1, p # i[d] PROVE p \in 0 .. offset[d] - 1
      BY <1>11, <2>1, <2>2, <3>1
    <3> QED
      BY <1>8, <2>2, <3>1
  <2>4. t_prev'[d] = Before(i'[d])
    <3>1. i'[d] # 0 /\ i'[d] - 1 = i[d]
      BY <1>11, <2>1
    <3> QED
      BY <2>1, <3>1 DEF Before
  <2>5. offset'[d] = (IF i'[d] < Used THEN i'[d] ELSE Used) /\ offset'[d] <= Len(file')
    BY <1>5, <1>11, <2>1, <2>2
  <2> QED
    BY <1>12, <1>13, <2>1, <2>3, <2>4, <2>5
<1>20. CopyInv(d)'
  BY <1>15, <1>16, <1>17, <1>18, <1>19 DEF Dump
<1> QED
  BY <1>7, <1>10, <1>20

\* LinesInv holds in every state of the log and its dumps.
THEOREM LinesInvariance == Spec => []LinesInv
<1>1. LogInv /\ LinesInv /\ [Next]_vars => LinesInv'
  <2> SUFFICES ASSUME LogInv, LinesInv, [Next]_vars PROVE LinesInv'
    OBVIOUS
  <2>1. CASE LogEnds
    <3>1. /\ UNCHANGED <<log, index, clock, logged, dumpVars, older>>
          /\ lpc = "idle" /\ lpc' = "ended"
      BY <2>1 DEF LogEnds
    <3>2. \A d \in Dumpers : CopyInv(d) => CopyInv(d)'
      BY <3>1 DEF CopyInv, dumpVars, Used, GoodLine, Differs, Earlier, Before
    <3> QED
      BY <3>1, <3>2 DEF LinesInv, dumpVars, Used
  <2>2. CASE UNCHANGED vars
    <3>1. \A d \in Dumpers : CopyInv(d) => CopyInv(d)'
      BY <2>2 DEF vars, logVars, dumpVars, CopyInv, Used, GoodLine, Differs, Earlier, Before
    <3> QED
      BY <2>2, <3>1 DEF vars, logVars, dumpVars, LinesInv, Used
  <2> QED
    BY <2>1, <2>2, LinesLogged, LinesDumped DEF Next
<1> QED
  BY <1>1, LinesInit, LogInvariance, PTL DEF Spec

\* The newest entry of a place is the one the ring has there.
LEMMA NewestEntry ==
    ASSUME LogInv, lpc # "stamp", NEW p \in 0 .. Used - 1
    PROVE  /\ log[p].event_id = logged[Newest(p)].event_id
           /\ log[p].time = Stamp(logged[Newest(p)].at)
           /\ Total(log[p].time) = logged[Newest(p)].at
<1>1. \E n \in 1 .. Len(logged) : n > Len(logged) - MEMLOG_MAX /\ (n - 1) % MEMLOG_MAX = p
  BY UsedPlace
<1>2. /\ Newest(p) \in 1 .. Len(logged)
      /\ Newest(p) > Len(logged) - MEMLOG_MAX /\ (Newest(p) - 1) % MEMLOG_MAX = p
  BY <1>1, Zenon DEF Newest
<1>3. log[p] = Entry(Newest(p))
  BY <1>2, UsedEntry
<1>4. logged[Newest(p)].at \in Nat
  <2>1. logged \in Seq([event_id : Events, at : Nat])
    BY DEF LogInv, TypeOK
  <2>2. logged[Newest(p)] \in [event_id : Events, at : Nat]
    BY <1>2, <2>1, ElementOfSeq, Zenon
  <2> QED
    BY <2>2
<1> QED
  BY <1>3, <1>4, StampTotal DEF Entry

\* memlog_dump: when the threads have stopped logging, main()'s dump has every entry of
\* the ring with its exact distance to the one before, although frame() may be writing
\* the same file, and spoils nothing that is after them.
THEOREM DumpStaysFaithful == Spec => []DumpFaithful
<1>1. LogInv /\ LinesInv => DumpFaithful
  <2> SUFFICES ASSUME LogInv, LinesInv, dpc["main"] = "done", ~late
               PROVE  /\ \A p \in Places : RightLine(p, file[p + 1])
                      /\ \A k \in 1 .. Len(file) :
                           k - 1 \notin Places => k <= older /\ file[k] = OldLine
                      /\ older <= Len(file)
    BY DEF DumpFaithful
  <2>1. /\ CopyInv("main") /\ older <= Len(file) /\ Len(file) \in Nat
        /\ \A k \in 1 .. Len(file) : k > Used => k <= older /\ file[k] = OldLine
    BY DEF LinesInv, Dumpers
  <2>2. Places = 0 .. Used - 1 /\ Used \in Nat /\ Used <= MEMLOG_MAX /\ MEMLOG_MAX \in Nat
    BY MemlogAssumption DEF Places, Used, LogInv, TypeOK
  <2>3. offset["main"] = Used /\ lpc # "stamp"
    BY <2>1, <2>2 DEF CopyInv
  <2>4. ASSUME NEW p \in Places PROVE RightLine(p, file[p + 1])
    <3> DEFINE line == file[p + 1]
               e == logged[Newest(p)]
               before == IF p = 0 THEN e.at ELSE logged[Newest(p - 1)].at
    <3>1. GoodLine(p, line) /\ p \in 0 .. Used - 1
      BY <2>1, <2>2, <2>3 DEF CopyInv
    <3>2. log[p].event_id = e.event_id /\ log[p].time = Stamp(e.at) /\ Total(log[p].time) = e.at
      BY <2>3, <3>1, NewestEntry
    <3>3. p # 0 => Total(log[p - 1].time) = logged[Newest(p - 1)].at
      <4>1. p # 0 => p - 1 \in 0 .. Used - 1
        BY <2>2, <3>1
      <4> QED
        BY <2>3, <4>1, NewestEntry
    <3>4. Total(Before(p)) = before
      BY <3>2, <3>3 DEF Before
    <3> HIDE DEF line, e, before
    <3>5. Total(line.diff) = e.at - before /\ (Earlier(p) <=> e.at < before)
      BY <3>1, <3>2, <3>4 DEF GoodLine, Differs, Earlier
    <3>6. line.mark <=> e.at < before /\ e.event_id \notin DataEvents
      BY <3>1, <3>2, <3>5, Zenon DEF GoodLine
    <3>7. line.event_id = e.event_id /\ line.time = Stamp(e.at)
      BY <3>1, <3>2 DEF GoodLine
    <3> QED
      BY <3>5, <3>6, <3>7, Zenon DEF RightLine, line, e, before
  <2>5. ASSUME NEW k \in 1 .. Len(file), k - 1 \notin Places PROVE k > Used
    BY <2>1, <2>2, <2>5
  <2> QED
    BY <2>1, <2>4, <2>5
<1> QED
  BY <1>1, LogInvariance, LinesInvariance, PTL

=============================================================================
