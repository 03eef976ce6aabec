-------------------------- MODULE SequencerProofs --------------------------
(***************************************************************************)
(* Proofs about the start, the pace and the stop of the program, for every *)
(* pace of the frames and every number of pictures.                        *)
(***************************************************************************)
EXTENDS Sequencer, TLAPS

-----------------------------------------------------------------------------
(* The inductive invariant *)

\* What the steps preserve: the thread that freezes has set the flag; since_post
\* is where sequence is between two frames; who was joined is done; and only what
\* belongs to it is released, after the last join; and the last tick comes with a
\* post of sem_framegrab.
FreezeInv == pc["processing"] \in {"freeze", "spin"} => freeze_system = 1

PaceInv == sequence % SEQUENCE_DIV = IF since_post = SEQUENCE_DIV THEN 0 ELSE since_post

JoinInv == /\ \A t \in Threads : ok_stop[t] = 1 => pc[t] = "done"
           /\ \/ freed = {}
              \/ /\ mpc \in {"dump", "exited"}
                 /\ freed = UNION {Owned(t) : t \in {u \in Threads : ok_stop[u] = 1}}

UnblockInv ==
    armed = 0 /\ mpc \notin {"barrier", "arm"} /\ freeze_system = 0 =>
        running = 0 /\ (pc["frame"] = "wait" => sem_framegrab > 0)

SequencerInv == /\ TypeOK /\ FreezeInv /\ TeardownOnlyWhenStopped /\ PaceInv
                /\ JoinInv /\ UnblockInv

-----------------------------------------------------------------------------
(* Proofs *)

\* Division of a natural number leaves one remainder only.
LEMMA Remainder ==
    ASSUME NEW d \in Nat \ {0}, NEW q \in Int, NEW p \in Int,
           NEW r \in 0 .. d - 1, NEW s \in 0 .. d - 1, d * q + r = d * p + s
    PROVE  r = s
<1>1. d * (q - p) = s - r
  OBVIOUS
<1>2. CASE q - p >= 1
  <2>1. d * (q - p) >= d
    BY <1>2
  <2> QED
    BY <1>1, <2>1
<1>3. CASE q - p <= -1
  <2>1. d * (q - p) <= -d
    BY <1>3
  <2> QED
    BY <1>1, <2>1
<1>4. CASE q - p = 0
  BY <1>1, <1>4
<1> QED
  BY <1>2, <1>3, <1>4

\* Division of a natural number has a quotient and a remainder.
LEMMA Division ==
    ASSUME NEW n \in Nat, NEW d \in Nat \ {0}
    PROVE  \E q \in Int : n = d * q + (n % d)
<1>1. n = d * (n \div d) + (n % d)
  BY SMTT(60)
<1>2. n \div d \in Int
  OBVIOUS
<1> QED
  BY <1>1, <1>2

\* Counting on by one moves the remainder by one, or back to 0.
LEMMA NextRemainder ==
    ASSUME NEW n \in Nat, NEW d \in Nat \ {0}
    PROVE  (n + 1) % d = IF (n % d) + 1 = d THEN 0 ELSE (n % d) + 1
<1> DEFINE r == n % d
           s == (n + 1) % d
<1>1. PICK q \in Int : n = d * q + r
  <2>1. \E q \in Int : n = d * q + (n % d)
    BY Division, Zenon
  <2> QED
    BY <2>1
<1>2. PICK p \in Int : n + 1 = d * p + s
  <2> DEFINE m == n + 1
  <2>1. m \in Nat
    OBVIOUS
  <2> HIDE DEF m
  <2>2. \E p \in Int : m = d * p + (m % d)
    BY <2>1, Division, Zenon
  <2> QED
    BY <2>2 DEF m
<1>3. r \in 0 .. d - 1 /\ s \in 0 .. d - 1
  OBVIOUS
<1> HIDE DEF r, s
<1>4. CASE r + 1 = d
  <2>1. d * (q + 1) = d * q + d
    OBVIOUS
  <2>2. d * (q + 1) + 0 = d * p + s
    BY <1>1, <1>2, <1>3, <1>4, <2>1
  <2>3. q + 1 \in Int /\ 0 \in 0 .. d - 1
    OBVIOUS
  <2>4. s = 0
    BY <1>3, <2>2, <2>3, Remainder
  <2> QED
    BY <1>4, <2>4 DEF r, s
<1>5. CASE r + 1 # d
  <2>1. d * q + (r + 1) = d * p + s
    BY <1>1, <1>2, <1>3
  <2>2. r + 1 \in 0 .. d - 1
    BY <1>3, <1>5
  <2>3. s = r + 1
    BY <1>3, <2>1, <2>2, Remainder
  <2> QED
    BY <1>5, <2>3 DEF r, s
<1> QED
  BY <1>4, <1>5

-----------------------------------------------------------------------------
\* The program starts in the invariant.
LEMMA SequencerInit == Init => SequencerInv
<1> SUFFICES ASSUME Init PROVE SequencerInv
  OBVIOUS
<1> USE SequencerAssumption DEF Init
<1>1. TypeOK
  BY DEF TypeOK, Threads, Consumers
<1>2. PaceInv
  <2>1. 0 % SEQUENCE_DIV = 0
    BY Z3
  <2> QED
    BY <2>1 DEF PaceInv
<1>3. FreezeInv /\ TeardownOnlyWhenStopped /\ JoinInv /\ UnblockInv
  BY DEF FreezeInv, TeardownOnlyWhenStopped, Joining, JoinInv, UnblockInv, Threads
<1> QED
  BY <1>1, <1>2, <1>3 DEF SequencerInv

\* The handler keeps the pace, and wakes main() only at the end.
LEMMA TickStep ==
    ASSUME SequencerInv, Tick
    PROVE  /\ armed' \in {0, 1} /\ pending' \in {0, 1} /\ posted' \in {0, 1}
           /\ sequence' \in 0 .. SEQUENCE_WRAP - 1
           /\ sem_framegrab' \in 0 .. MaxPosts /\ sem_teardown' \in 0 .. MaxPosts
           /\ since_post' \in 0 .. SEQUENCE_DIV
           /\ PaceInv'
           /\ sem_teardown' > 0 => sem_teardown > 0 \/ running = 0 \/ freeze_system = 1
           /\ armed' = 0 /\ freeze_system = 0 =>
                \/ armed = 0 /\ running = 1
                \/ running = 0 /\ sem_framegrab' > 0
<1>a. sequence \in Nat /\ SEQUENCE_DIV \in Nat \ {0}
  BY SequencerAssumption DEF SequencerInv, TypeOK
<1>b. (sequence + 1) % SEQUENCE_DIV = IF (sequence % SEQUENCE_DIV) + 1 = SEQUENCE_DIV
                                        THEN 0 ELSE (sequence % SEQUENCE_DIV) + 1
  BY <1>a, NextRemainder, Zenon
<1> USE SequencerAssumption DEF SequencerInv, TypeOK, Tick
<1>1. CASE TickRuns
  <2>1. (sequence + 1) % SEQUENCE_DIV = IF (sequence % SEQUENCE_DIV) + 1 = SEQUENCE_DIV
                                          THEN 0 ELSE (sequence % SEQUENCE_DIV) + 1
    BY <1>b
  <2>2. 0 % SEQUENCE_DIV = 0
    BY Z3
  <2>3. sequence' % SEQUENCE_DIV = (sequence + 1) % SEQUENCE_DIV
    BY <1>1, <2>2 DEF TickRuns
  <2> DEFINE place == sequence % SEQUENCE_DIV
             next == sequence' % SEQUENCE_DIV
  <2>4. since_post' = (IF place = 0 THEN 1 ELSE since_post + 1)
    BY <1>1 DEF TickRuns
  <2>5. next = IF place + 1 = SEQUENCE_DIV THEN 0 ELSE place + 1
    BY <2>1, <2>3
  <2>6. place = IF since_post = SEQUENCE_DIV THEN 0 ELSE since_post
    BY DEF PaceInv
  <2> HIDE DEF place, next
  <2>7. since_post' \in 0 .. SEQUENCE_DIV
    BY <2>4, <2>6
  <2>8. PaceInv'
    <3>1. next = IF since_post' = SEQUENCE_DIV THEN 0 ELSE since_post'
      BY <2>4, <2>5, <2>6
    <3> QED
      BY <3>1 DEF PaceInv, next
  <2>9. sequence' \in 0 .. SEQUENCE_WRAP - 1
    BY <1>1 DEF TickRuns
  <2>10. sem_framegrab' \in 0 .. MaxPosts
    BY <1>1 DEF TickRuns, AtMost
  <2>11. armed' = armed /\ sem_teardown' = sem_teardown /\ running = 1
    BY <1>1 DEF TickRuns
  <2>12. pending' \in {0, 1} /\ posted' \in {0, 1} /\ armed' \in {0, 1}
    BY <2>11
  <2>13. armed' = 0 => armed = 0 /\ running = 1
    BY <2>11
  <2> QED
    BY <2>7, <2>8, <2>9, <2>10, <2>11, <2>12, <2>13
<1>2. CASE TickStops
  <2>1. PaceInv'
    BY <1>2 DEF TickStops, PaceInv
  <2>2. /\ sem_framegrab' \in 0 .. MaxPosts /\ sem_teardown' \in 0 .. MaxPosts
        /\ freeze_system = 0 => running = 0 /\ sem_framegrab' > 0
    BY <1>2 DEF TickStops, AtMost
  <2> QED
    BY <1>2, <2>1, <2>2 DEF TickStops
<1> QED
  BY <1>1, <1>2

\* What a thread is moved to, and that a thread that is done stays done.
LEMMA GotoStep ==
    ASSUME TypeOK, NEW t \in Threads, NEW place, Goto(t, place),
           place \in {"init", "barrier", "start", "top", "wait", "grab", "receive",
                      "work", "freeze", "spin", "error", "done"},
           pc[t] # "done"
    PROVE  /\ pc' \in [Threads -> {"init", "barrier", "start", "top", "wait", "grab",
                                   "receive", "work", "freeze", "spin", "error", "done"}]
           /\ pc'[t] = place
           /\ \A u \in Threads : u # t => pc'[u] = pc[u]
           /\ \A u \in Threads : pc[u] = "done" => pc'[u] = "done"
BY DEF TypeOK, Goto

\* The parts of the invariant that a step of main() other than a join or the
\* release, of a signal or of a thread must keep: it moves pc so that nobody who
\* is done comes back, and leaves ok_stop and freed alone.
LEMMA JoinKept ==
    ASSUME JoinInv, UNCHANGED <<ok_stop, freed>>,
           \A u \in Threads : pc[u] = "done" => pc'[u] = "done",
           mpc \in {"dump", "exited"} => mpc' \in {"dump", "exited"}
    PROVE  JoinInv'
BY DEF JoinInv

\* The steps of main() preserve the invariant.
LEMMA MainStep == SequencerInv /\ (Barrier \/ MainNext) => SequencerInv'
<1> SUFFICES ASSUME SequencerInv, Barrier \/ MainNext PROVE SequencerInv'
  OBVIOUS
<1> USE SequencerAssumption DEF SequencerInv, timerVars, semVars, queueVars, endVars, flagVars
<1>1. CASE Barrier
  <2> "frame" \in Threads
    BY DEF Threads
  <2>1. /\ TypeOK' /\ \A u \in Threads : pc[u] = "done" => pc'[u] = "done"
        /\ pc'["processing"] = pc["processing"]
    BY <1>1, GotoStep DEF Barrier, TypeOK, Threads
  <2>2. JoinInv'
    BY <1>1, <2>1, JoinKept DEF Barrier
  <2> QED
    BY <1>1, <2>1, <2>2 DEF Barrier, FreezeInv, PaceInv, UnblockInv, TeardownOnlyWhenStopped, Joining
<1>2. CASE TimerSet
  BY <1>2, JoinKept DEF TimerSet, TypeOK, FreezeInv, PaceInv, UnblockInv, TeardownOnlyWhenStopped, Joining
<1>3. CASE MaskSignal
  BY <1>3, JoinKept DEF MaskSignal, TypeOK, FreezeInv, PaceInv, UnblockInv, TeardownOnlyWhenStopped, Joining
<1>4. CASE Teardown
  BY <1>4, JoinKept DEF Teardown, TypeOK, FreezeInv, PaceInv, UnblockInv, TeardownOnlyWhenStopped, Joining
<1>5. ASSUME NEW t \in Threads, NEW place \in {"join_frame", "join_processing", "join_writeout"},
             NEW next \in {"join_processing", "join_writeout", "free"}, Join(t, place, next)
      PROVE  SequencerInv'
  <2>1. TypeOK' /\ FreezeInv' /\ PaceInv' /\ UnblockInv' /\ TeardownOnlyWhenStopped'
    BY <1>5 DEF Join, TypeOK, FreezeInv, PaceInv, UnblockInv, TeardownOnlyWhenStopped, Joining
  <2>2. JoinInv'
    BY <1>5 DEF Join, JoinInv, TypeOK
  <2> QED
    BY <2>1, <2>2
<1>6. CASE JoinFrame
  BY <1>5, <1>6 DEF JoinFrame, Threads
<1>7. CASE JoinProcessing
  BY <1>5, <1>7 DEF JoinProcessing, Threads
<1>8. CASE JoinWriteout
  BY <1>5, <1>8 DEF JoinWriteout, Threads
<1>9. CASE FreeResources
  <2>1. freed' \subseteq UNION {Owned(t) : t \in Threads}
    BY <1>9 DEF FreeResources
  <2>2. TypeOK' /\ FreezeInv' /\ PaceInv' /\ UnblockInv' /\ TeardownOnlyWhenStopped'
    BY <1>9, <2>1 DEF FreeResources, TypeOK, FreezeInv, PaceInv, UnblockInv, TeardownOnlyWhenStopped, Joining
  <2>3. JoinInv'
    BY <1>9 DEF FreeResources, JoinInv
  <2> QED
    BY <2>2, <2>3
<1>10. CASE DumpLogs
  BY <1>10, JoinKept DEF DumpLogs, TypeOK, FreezeInv, PaceInv, UnblockInv, TeardownOnlyWhenStopped, Joining
<1> QED
  BY <1>1, <1>2, <1>3, <1>4, <1>6, <1>7, <1>8, <1>9, <1>10 DEF MainNext

\* The signals preserve it.
LEMMA SignalStep == SequencerInv /\ (TimerExpires \/ TickNext \/ CtrlC) => SequencerInv'
<1> SUFFICES ASSUME SequencerInv, TimerExpires \/ TickNext \/ CtrlC PROVE SequencerInv'
  OBVIOUS
<1> USE SequencerAssumption DEF SequencerInv, stateVars, semVars, queueVars, endVars, flagVars
<1>1. CASE TimerExpires
  BY <1>1, JoinKept DEF TimerExpires, TypeOK, FreezeInv, PaceInv, UnblockInv, TeardownOnlyWhenStopped, Joining
<1>2. ASSUME Tick, pc' \in [Threads -> {"init", "barrier", "start", "top", "wait", "grab",
                                        "receive", "work", "freeze", "spin", "error", "done"}],
             \A u \in Threads : pc[u] = "done" => pc'[u] = "done",
             pc'["processing"] \in {"freeze", "spin"} => pc["processing"] \in {"freeze", "spin"},
             UNCHANGED mpc
      PROVE  SequencerInv'
  <2>1. UNCHANGED <<running, freeze_system, waiting, total_frames_written_g, ok_stop, freed,
                    restart_tick, restart_int, mpc>>
    BY <1>2 DEF Tick
  <2>2. TypeOK'
    BY <1>2, <2>1, TickStep DEF TypeOK
  <2>3. FreezeInv'
    BY <1>2, <2>1 DEF FreezeInv
  <2>4. TeardownOnlyWhenStopped'
    BY <1>2, <2>1, TickStep DEF TeardownOnlyWhenStopped, Joining
  <2>5. JoinInv'
    BY <1>2, <2>1, JoinKept
  <2>6. UnblockInv'
    <3>1. freeze_system' = freeze_system /\ running' = running /\ mpc' = mpc
      BY <2>1
    <3> QED
      BY <1>2, <3>1, TickStep DEF UnblockInv
  <2> QED
    BY <1>2, <2>2, <2>3, <2>4, <2>5, <2>6, TickStep
<1>3. ASSUME NEW t \in Threads, TickInThread(t) PROVE SequencerInv'
  <2>1. CASE Goto(t, "error")
    BY <1>2, <1>3, <2>1, GotoStep DEF TickInThread, Threads
  <2>2. CASE UNCHANGED pc
    BY <1>2, <1>3, <2>2 DEF TickInThread, TypeOK
  <2> QED
    BY <1>3, <2>1, <2>2 DEF TickInThread
<1>4. CASE TickInMain
  BY <1>2, <1>4 DEF TickInMain, TypeOK
<1>5. CASE CtrlC
  BY <1>5, JoinKept
  DEF CtrlC, TypeOK, FreezeInv, PaceInv, UnblockInv, TeardownOnlyWhenStopped, Joining, timerVars
<1> QED
  BY <1>1, <1>3, <1>4, <1>5 DEF TickNext

\* The threads preserve it: only processing() freezes, and it sets the flag first.
LEMMA ThreadStep == ASSUME SequencerInv, NEW t \in Threads, ThreadNext(t) PROVE SequencerInv'
<1> USE SequencerAssumption
    DEF SequencerInv, timerVars, semVars, queueVars, endVars, flagVars, stateVars
<1>1. ASSUME NEW place \in {"init", "barrier", "start", "top", "wait", "grab", "receive",
                            "work", "freeze", "spin", "error", "done"},
             Goto(t, place), pc[t] # "done",
             t = "processing" /\ place \in {"freeze", "spin"} => freeze_system' = 1,
             freeze_system' \in {freeze_system, 1} , running' \in {running, 0},
             sem_framegrab' \in 0 .. MaxPosts, sem_teardown' \in 0 .. MaxPosts,
             t = "frame" /\ place = "wait" => running = 1,
             (t = "frame" /\ place # "wait") \/ UNCHANGED sem_framegrab,
             sem_teardown' > 0 => sem_teardown > 0 \/ freeze_system = 1,
             waiting' \in [Consumers -> 0 .. MaxWaiting],
             total_frames_written_g' \in Nat,
             UNCHANGED <<mpc, timerVars, posted, endVars, flagVars, since_post>>
      PROVE  SequencerInv'
  <2>1. /\ pc' \in [Threads -> {"init", "barrier", "start", "top", "wait", "grab", "receive",
                                "work", "freeze", "spin", "error", "done"}]
        /\ pc'[t] = place
        /\ \A u \in Threads : u # t => pc'[u] = pc[u]
        /\ \A u \in Threads : pc[u] = "done" => pc'[u] = "done"
    BY <1>1, GotoStep
  <2>2. TypeOK'
    BY <1>1, <2>1 DEF TypeOK
  <2>3. FreezeInv'
    BY <1>1, <2>1 DEF FreezeInv, Threads, TypeOK
  <2>4. TeardownOnlyWhenStopped'
    BY <1>1 DEF TeardownOnlyWhenStopped, Joining
  <2>5. JoinInv'
    BY <1>1, <2>1, JoinKept
  <2>6. PaceInv'
    BY <1>1 DEF PaceInv
  <2>7. UnblockInv'
    BY <1>1, <2>1 DEF UnblockInv, Threads, TypeOK
  <2> QED
    BY <2>2, <2>3, <2>4, <2>5, <2>6, <2>7
<1>2. CASE ErrorExit(t)
  BY <1>1, <1>2 DEF ErrorExit, TypeOK
<1>3. CASE ThreadStarts(t)
  BY <1>1, <1>3 DEF ThreadStarts, TypeOK
<1>4. CASE BestEffort(t)
  BY <1>1, <1>4 DEF BestEffort, TypeOK
<1>5. CASE Loop(t)
  BY <1>1, <1>5 DEF Loop, TypeOK
<1>6. CASE Receive(t)
  BY <1>1, <1>6 DEF Receive, TypeOK
<1>7. CASE t = "frame" /\ FrameWait
  BY <1>1, <1>7 DEF FrameWait, TypeOK
<1>8. CASE t = "frame" /\ FrameGrab
  <2>1. waiting' \in [Consumers -> 0 .. MaxWaiting]
    BY <1>8 DEF FrameGrab, TypeOK, AtMost, Consumers
  <2> QED
    BY <1>1, <1>8, <2>1 DEF FrameGrab, TypeOK
<1>9. CASE t = "processing" /\ ProcessFrame
  <2>1. waiting' \in [Consumers -> 0 .. MaxWaiting]
    BY <1>9 DEF ProcessFrame, TypeOK, AtMost, Consumers
  <2> QED
    BY <1>1, <1>9, <2>1 DEF ProcessFrame, TypeOK
<1>10. CASE t = "processing" /\ FreezePosts
  <2>1. sem_teardown' \in 0 .. MaxPosts
    BY <1>10 DEF FreezePosts, TypeOK, AtMost
  <2>2. freeze_system = 1
    BY <1>10 DEF FreezePosts, FreezeInv
  <2> QED
    BY <1>1, <1>10, <2>1, <2>2 DEF FreezePosts, TypeOK
<1>11. CASE t = "writeout" /\ WritePicture
  BY <1>1, <1>11 DEF WritePicture, TypeOK
<1> QED
  BY <1>2, <1>3, <1>4, <1>5, <1>6, <1>7, <1>8, <1>9, <1>10, <1>11 DEF ThreadNext

\* The invariant is inductive.
LEMMA SequencerStep == SequencerInv /\ [Next]_vars => SequencerInv'
<1> SUFFICES ASSUME SequencerInv, [Next]_vars PROVE SequencerInv'
  OBVIOUS
<1>1. CASE UNCHANGED vars
  BY <1>1 DEF vars, stateVars, timerVars, semVars, queueVars, endVars, flagVars, SequencerInv,
              TypeOK, FreezeInv, TeardownOnlyWhenStopped, Joining, PaceInv, JoinInv,
              UnblockInv, Blocked
<1> QED
  BY <1>1, MainStep, SignalStep, ThreadStep DEF Next

-----------------------------------------------------------------------------
\* The invariant holds in every state of the program.
THEOREM SequencerInvariance == Spec => []SequencerInv
BY SequencerInit, SequencerStep, PTL DEF Spec

\* Every variable stays in its range: sequence below its wrap, the pace within
\* SEQUENCE_DIV.
THEOREM SequencerTypeCorrect == Spec => []TypeOK
<1>1. SequencerInv => TypeOK
  BY DEF SequencerInv
<1> QED
  BY <1>1, SequencerInvariance, PTL

\* main() passes sem_wait(&sem_teardown) only when the program stops or froze.
THEOREM TeardownIsStop == Spec => []TeardownOnlyWhenStopped
<1>1. SequencerInv => TeardownOnlyWhenStopped
  BY DEF SequencerInv
<1> QED
  BY <1>1, SequencerInvariance, PTL

\* A thread touches what main() has released only when it was not joined, and
\* never what is released with it.
THEOREM ReleaseIsSafe == Spec => []ReleasedUnderLateOnly
<1>1. SequencerInv => ReleasedUnderLateOnly
  <2> SUFFICES ASSUME SequencerInv, NEW t \in Threads, Uses(t) \cap freed # {}
               PROVE  ok_stop[t] = 0 /\ (t = "frame" \/ Uses(t) \cap freed \cap Owned(t) = {})
    BY DEF ReleasedUnderLateOnly
  <2>1. pc[t] # "done"
    BY DEF Uses, Threads
  <2>2. ok_stop[t] = 0
    BY <2>1 DEF SequencerInv, TypeOK, JoinInv
  <2>3. ASSUME t # "frame" PROVE Uses(t) \cap freed \cap Owned(t) = {}
    <3>1. \A u \in Threads : u # t /\ u # "frame" => Owned(t) \cap Owned(u) = {}
      BY DEF Owned, Threads
    <3>2. Uses(t) \cap Owned(t) \cap Owned("frame") = {}
      BY <2>3 DEF Uses, Owned, Threads
    <3>3. \A u \in Threads : ok_stop[u] = 1 => u # t
      BY <2>2
    <3> QED
      BY <3>1, <3>2, <3>3 DEF SequencerInv, JoinInv
  <2> QED
    BY <2>2, <2>3
<1> QED
  BY <1>1, SequencerInvariance, PTL

\* Frames are asked for every SEQUENCE_DIV ticks, whatever the wrap.
THEOREM FramesArePaced == Spec => FramePacing
<1>1. SequencerInv /\ [Next]_vars
        => [since_post' = IF since_post = SEQUENCE_DIV THEN 1
                                                       ELSE since_post + 1]_<<sequence, since_post>>
  <2> SUFFICES ASSUME SequencerInv, Next, sequence' # sequence \/ since_post' # since_post
               PROVE  since_post' = IF since_post = SEQUENCE_DIV THEN 1 ELSE since_post + 1
    BY DEF vars, timerVars
  <2>1. TickRuns
    BY DEF Next, Barrier, MainNext, TimerSet, MaskSignal, Teardown, Join, JoinFrame,
           JoinProcessing, JoinWriteout, FreeResources, DumpLogs, TimerExpires, TickNext,
           TickInMain, TickInThread, Tick, TickStops, CtrlC, ThreadNext, ErrorExit,
           ThreadStarts, BestEffort, Loop, Receive, FrameWait, FrameGrab, ProcessFrame,
           FreezePosts, WritePicture, timerVars
  <2> DEFINE place == sequence % SEQUENCE_DIV
  <2>2. since_post' = (IF place = 0 THEN 1 ELSE since_post + 1)
    BY <2>1 DEF TickRuns
  <2>3. place = IF since_post = SEQUENCE_DIV THEN 0 ELSE since_post
    BY DEF SequencerInv, PaceInv
  <2>4. since_post \in Nat
    BY SequencerAssumption DEF SequencerInv, TypeOK
  <2> HIDE DEF place
  <2> QED
    BY <2>2, <2>3, <2>4
<1> QED
  BY <1>1, SequencerInvariance, PTL DEF Spec, FramePacing

\* After the last tick frame() does not wait for another one.
THEOREM FrameIsUnblocked == Spec => []FrameUnblocked
<1>1. SequencerInv => FrameUnblocked
  BY DEF SequencerInv, UnblockInv, FrameUnblocked, Blocked, Consumers
<1> QED
  BY <1>1, SequencerInvariance, PTL
=============================================================================
