----------------------------- MODULE Sequencer -----------------------------
(***************************************************************************)
(* How the synchronome starts, keeps time and stops: main() from the       *)
(* barrier to the end of the program, the handler of the interval timer,   *)
(* ctrl-c, and of the three threads what makes them wait and end.  The     *)
(* pictures are left out: frame() adds to the number of indexes waiting    *)
(* in frame_Q, processing() to that in writeout_Q (modules Pipeline and    *)
(* MsgQueue have the rest).                                                *)
(*                                                                         *)
(* The timer's signal is taken by any thread that does not block it, which *)
(* main() does once the timer is set.  The three struct sigaction of       *)
(* main() live on its stack and their sa_flags are never written, so       *)
(* whether a handler restarts the call it interrupts is decided by what    *)
(* was there: a choice in Init.  An interrupted sem_wait or mq_receive of  *)
(* a thread is an error, and an error ends the thread and clears running.  *)
(*                                                                         *)
(* main() returns from the last line, which ends the process: nothing      *)
(* happens once mpc = "exited".                                            *)
(***************************************************************************)
EXTENDS Integers

CONSTANTS SEQUENCE_DIV,          \* ticks from one frame to the next
          SEQUENCE_WRAP,         \* where sequence starts over
          WRITEOUT_TOTAL_FRAMES, \* pictures after which writeout() stops the program
          MaxPosts,              \* bound: counted posts of sem_framegrab
          MaxWaiting             \* bound: counted indexes in each queue

ASSUME SequencerAssumption ==
    /\ SEQUENCE_DIV \in Nat \ {0}
    /\ SEQUENCE_WRAP \in Nat \ {0}
    /\ SEQUENCE_WRAP % SEQUENCE_DIV = 0
    /\ WRITEOUT_TOTAL_FRAMES \in Nat \ {0}
    /\ MaxPosts \in Nat \ {0}
    /\ MaxWaiting \in Nat \ {0}

Threads   == {"frame", "processing", "writeout"}
Consumers == {"processing", "writeout"}      \* those that receive from a queue

VARIABLES
    running, freeze_system,
    mpc,                          \* main()
    pc,                           \* where each thread is
    armed, pending,               \* the timer, and its signal
    sequence,
    sem_framegrab, sem_teardown,
    posted,                       \* 1 once sem_processing and sem_writeout were posted
    waiting,                      \* waiting[t]: indexes in the queue thread t receives from
    total_frames_written_g,
    ok_stop,                      \* thread_*_ok_stop
    freed,                        \* what main() has released
    restart_tick, restart_int,    \* SA_RESTART in the two actions
    since_post                    \* history: ticks since a frame was asked for

stateVars == <<running, freeze_system, mpc, pc>>
timerVars == <<armed, pending, sequence>>
semVars   == <<sem_framegrab, sem_teardown, posted>>
queueVars == <<waiting, total_frames_written_g>>
endVars   == <<ok_stop, freed>>
flagVars  == <<restart_tick, restart_int>>
vars == <<stateVars, timerVars, semVars, queueVars, endVars, flagVars, since_post>>

Init ==
    /\ running = 1 /\ freeze_system = 0
    /\ mpc = "barrier"
    /\ pc = [t \in Threads |-> "init"]
    /\ armed = 0 /\ pending = 0 /\ sequence = 0
    /\ sem_framegrab = 0 /\ sem_teardown = 0 /\ posted = 0
    /\ waiting = [t \in Consumers |-> 0]
    /\ total_frames_written_g = 0
    /\ ok_stop = [t \in Threads |-> 0]
    /\ freed = {}
    /\ restart_tick \in {0, 1} /\ restart_int \in {0, 1}
    /\ since_post = 0

\* thread t goes on to place, unless the process has ended
Goto(t, place) == mpc # "exited" /\ pc' = [pc EXCEPT ![t] = place]

AtMost(n, bound) == IF n < bound THEN n ELSE bound

-----------------------------------------------------------------------------
(* main() *)

\* pthread_barrier_wait of main() and of frame(), the only two that wait
Barrier ==
    /\ mpc = "barrier" /\ pc["frame"] = "barrier"
    /\ mpc' = "arm"
    /\ Goto("frame", "top")
    /\ UNCHANGED <<running, freeze_system, timerVars, semVars, queueVars,
                   endVars, flagVars, since_post>>

TimerSet ==
    /\ mpc = "arm"
    /\ mpc' = "mask"
    /\ armed' = 1
    /\ UNCHANGED <<running, freeze_system, pc, pending, sequence, semVars,
                   queueVars, endVars, flagVars, since_post>>

MaskSignal ==
    /\ mpc = "mask"
    /\ mpc' = "teardown"
    /\ UNCHANGED <<running, freeze_system, pc, timerVars, semVars, queueVars,
                   endVars, flagVars, since_post>>

\* sem_wait(&sem_teardown)
Teardown ==
    /\ mpc = "teardown"
    /\ sem_teardown > 0
    /\ sem_teardown' = sem_teardown - 1
    /\ mpc' = "join_frame"
    /\ UNCHANGED <<running, freeze_system, pc, timerVars, sem_framegrab, posted,
                   queueVars, endVars, flagVars, since_post>>

\* "Give all threads 5 seconds to stop": each is joined, or its time runs out
Join(t, place, next) ==
    /\ mpc = place
    /\ mpc' = next
    /\ ok_stop' = [ok_stop EXCEPT ![t] = IF pc[t] = "done" THEN 1 ELSE 0]
    /\ UNCHANGED <<running, freeze_system, pc, timerVars, semVars, queueVars,
                   freed, flagVars, since_post>>

JoinFrame      == Join("frame", "join_frame", "join_processing")
JoinProcessing == Join("processing", "join_processing", "join_writeout")
JoinWriteout   == Join("writeout", "join_writeout", "free")

\* what main() releases for each thread that was joined
Owned(t) == CASE t = "frame"      -> {"frame_buffers", "wo_buffer"}
              [] t = "processing" -> {"scan_buffer"}
              [] t = "writeout"   -> {"wo_buffers"}

FreeResources ==
    /\ mpc = "free"
    /\ mpc' = "dump"
    /\ freed' = UNION {Owned(t) : t \in {u \in Threads : ok_stop[u] = 1}}
    /\ UNCHANGED <<running, freeze_system, pc, timerVars, semVars, queueVars,
                   ok_stop, flagVars, since_post>>

\* memlog_dump of the three logs, and the end of the process
DumpLogs ==
    /\ mpc = "dump"
    /\ mpc' = "exited"
    /\ UNCHANGED <<running, freeze_system, pc, timerVars, semVars, queueVars,
                   endVars, flagVars, since_post>>

MainNext == \/ TimerSet \/ MaskSignal \/ Teardown \/ JoinFrame
            \/ JoinProcessing \/ JoinWriteout \/ FreeResources \/ DumpLogs

-----------------------------------------------------------------------------
(* signals *)

\* the signal of an expiry that finds one pending is lost
TimerExpires ==
    /\ mpc # "exited"
    /\ armed = 1 /\ pending = 0
    /\ pending' = 1
    /\ UNCHANGED <<stateVars, armed, sequence, semVars, queueVars, endVars,
                   flagVars, since_post>>

\* the thread waits in a call that a signal can interrupt
Blocked(t) ==
    \/ t = "frame" /\ pc[t] = "wait" /\ sem_framegrab = 0
    \/ t \in Consumers /\ pc[t] = "start" /\ posted = 0
    \/ t \in Consumers /\ pc[t] = "receive" /\ waiting[t] = 0

\* a mistake in TickRuns: sequence is wrapped one tick late
TickRunsLateWrap ==
    /\ running = 1 /\ freeze_system = 0
    /\ sequence' = IF sequence = SEQUENCE_WRAP THEN 0 ELSE sequence + 1
    /\ \/ /\ sequence % SEQUENCE_DIV = 0
          /\ sem_framegrab' = AtMost(sem_framegrab + 1, MaxPosts)
          /\ since_post' = 1
       \/ /\ sequence % SEQUENCE_DIV # 0
          /\ since_post' = since_post + 1
          /\ UNCHANGED sem_framegrab
    /\ UNCHANGED <<armed, sem_teardown>>

\* sequencer(), while the system runs,
TickRuns ==
    /\ running = 1 /\ freeze_system = 0
    /\ sequence' = IF sequence + 1 = SEQUENCE_WRAP THEN 0 ELSE sequence + 1
    /\ \/ /\ sequence % SEQUENCE_DIV = 0
          /\ sem_framegrab' = AtMost(sem_framegrab + 1, MaxPosts)
          /\ since_post' = 1
       \/ /\ sequence % SEQUENCE_DIV # 0
          /\ since_post' = since_post + 1
          /\ UNCHANGED sem_framegrab
    /\ UNCHANGED <<armed, sem_teardown>>

\* mistakes in TickStops: one of the two posts is missing
TickStopsNoTeardown ==
    /\ running = 0 \/ freeze_system = 1
    /\ armed' = 0
    /\ sem_framegrab' = IF freeze_system = 0 THEN AtMost(sem_framegrab + 1, MaxPosts)
                                              ELSE sem_framegrab
    /\ UNCHANGED <<sequence, sem_teardown, since_post>>

TickStopsNoFramegrab ==
    /\ running = 0 \/ freeze_system = 1
    /\ armed' = 0
    /\ sem_teardown' = IF freeze_system = 0 THEN AtMost(sem_teardown + 1, MaxPosts)
                                             ELSE sem_teardown
    /\ UNCHANGED <<sequence, sem_framegrab, since_post>>

\* and when it stops: "unblock everyone", but leave it to the thread that froze
\* the system to wake main()
TickStops ==
    /\ running = 0 \/ freeze_system = 1
    /\ armed' = 0
    /\ IF freeze_system = 0
         THEN /\ sem_framegrab' = AtMost(sem_framegrab + 1, MaxPosts)
              /\ sem_teardown' = AtMost(sem_teardown + 1, MaxPosts)
         ELSE UNCHANGED <<sem_framegrab, sem_teardown>>
    /\ UNCHANGED <<sequence, since_post>>

Tick ==
    /\ pending = 1 /\ mpc # "exited"
    /\ pending' = 0
    /\ posted' = 1
    /\ TickRuns \/ TickStops
    /\ UNCHANGED <<running, freeze_system, queueVars, endVars, flagVars>>

\* the signal is taken by a thread, or by main() as long as that can take it
TickInThread(t) ==
    /\ pc[t] # "done"
    /\ Tick
    /\ IF Blocked(t) /\ restart_tick = 0
         THEN Goto(t, "error")
         ELSE UNCHANGED pc
    /\ UNCHANGED mpc

\* a mistake in TickInMain: main() does not block the signal
TickInMainUnmasked ==
    /\ mpc \in {"mask", "teardown"}
    /\ Tick
    /\ mpc' = IF mpc = "teardown" /\ restart_tick = 0 THEN "join_frame" ELSE mpc
    /\ UNCHANGED pc

TickInMain ==
    /\ mpc = "mask"
    /\ Tick
    /\ UNCHANGED <<pc, mpc>>

\* ctrl-c, or RT_SIGDEBUG.  The kernel prefers main() for it, and interrupts its
\* sem_wait, whose result is not looked at
CtrlC ==
    /\ mpc # "exited"
    /\ running = 1 \/ (mpc = "teardown" /\ restart_int = 0)
    /\ running' = 0
    /\ mpc' = IF mpc = "teardown" /\ restart_int = 0 THEN "join_frame" ELSE mpc
    /\ UNCHANGED <<freeze_system, pc, timerVars, semVars, queueVars, endVars,
                   flagVars, since_post>>

-----------------------------------------------------------------------------
(* the threads *)

\* error_exit
ErrorExit(t) ==
    /\ pc[t] = "error"
    /\ Goto(t, "done")
    /\ running' = 0
    /\ UNCHANGED <<freeze_system, mpc, timerVars, semVars, queueVars, endVars,
                   flagVars, since_post>>

\* memlog_init; then frame() meets main(), the others wait for the first tick
ThreadStarts(t) ==
    /\ pc[t] = "init"
    /\ Goto(t, IF t = "frame" THEN "barrier" ELSE "start")
    /\ UNCHANGED <<running, freeze_system, mpc, timerVars, semVars, queueVars,
                   endVars, flagVars, since_post>>

\* sem_wait, and the change of priority, which may fail
BestEffort(t) ==
    /\ t \in Consumers
    /\ pc[t] = "start" /\ posted = 1
    /\ Goto(t, "top") \/ Goto(t, "error")
    /\ UNCHANGED <<running, freeze_system, mpc, timerVars, semVars, queueVars,
                   endVars, flagVars, since_post>>

\* while(running)
Loop(t) ==
    /\ pc[t] = "top"
    /\ Goto(t, IF running = 0 THEN "done" ELSE IF t = "frame" THEN "wait" ELSE "receive")
    /\ UNCHANGED <<running, freeze_system, mpc, timerVars, semVars, queueVars,
                   endVars, flagVars, since_post>>

FrameWait ==
    /\ pc["frame"] = "wait"
    /\ sem_framegrab > 0
    /\ sem_framegrab' = sem_framegrab - 1
    /\ Goto("frame", "grab")
    /\ UNCHANGED <<running, freeze_system, mpc, timerVars, sem_teardown, posted,
                   queueVars, endVars, flagVars, since_post>>

\* a frame is copied to the scan ring and queued, or something of that fails
FrameGrab ==
    /\ pc["frame"] = "grab"
    /\ \/ /\ Goto("frame", "top")
          /\ waiting' = [waiting EXCEPT !["processing"] = AtMost(@ + 1, MaxWaiting)]
       \/ Goto("frame", "error") /\ UNCHANGED waiting
    /\ UNCHANGED <<running, freeze_system, mpc, timerVars, semVars,
                   total_frames_written_g, endVars, flagVars, since_post>>

\* dequeue_P
Receive(t) ==
    /\ t \in Consumers
    /\ pc[t] = "receive"
    /\ waiting[t] > 0
    /\ waiting' = [waiting EXCEPT ![t] = @ - 1]
    /\ Goto(t, "work")
    /\ UNCHANGED <<running, freeze_system, mpc, timerVars, semVars,
                   total_frames_written_g, endVars, flagVars, since_post>>

\* one round of processing(): the next frame without a look at running, the end
\* of a round, a selection, or a count that is off
ProcessFrame ==
    /\ pc["processing"] = "work"
    /\ \/ Goto("processing", "receive") /\ UNCHANGED <<waiting, freeze_system>>
       \/ Goto("processing", "top") /\ UNCHANGED <<waiting, freeze_system>>
       \/ /\ Goto("processing", "top")
          /\ waiting' = [waiting EXCEPT !["writeout"] = AtMost(@ + 1, MaxWaiting)]
          /\ UNCHANGED freeze_system
       \/ Goto("processing", "freeze") /\ freeze_system' = 1 /\ UNCHANGED waiting
    /\ UNCHANGED <<running, mpc, timerVars, semVars, total_frames_written_g,
                   endVars, flagVars, since_post>>

\* a mistake in FreezePosts: main() is not woken
FreezePostsNothing ==
    /\ pc["processing"] = "freeze"
    /\ Goto("processing", "spin")
    /\ UNCHANGED <<running, freeze_system, mpc, timerVars, semVars, queueVars,
                   endVars, flagVars, since_post>>

\* after the scan buffers are dumped main() is woken; "boo"
FreezePosts ==
    /\ pc["processing"] = "freeze"
    /\ Goto("processing", "spin")
    /\ sem_teardown' = AtMost(sem_teardown + 1, MaxPosts)
    /\ UNCHANGED <<running, freeze_system, mpc, timerVars, sem_framegrab, posted,
                   queueVars, endVars, flagVars, since_post>>

WritePicture ==
    /\ pc["writeout"] = "work"
    /\ total_frames_written_g' = total_frames_written_g + 1
    /\ IF total_frames_written_g + 1 = WRITEOUT_TOTAL_FRAMES
         THEN Goto("writeout", "done") /\ running' = 0
         ELSE Goto("writeout", "top") /\ UNCHANGED running
    /\ UNCHANGED <<freeze_system, mpc, timerVars, semVars, waiting, endVars,
                   flagVars, since_post>>

ThreadNext(t) ==
    \/ ErrorExit(t) \/ ThreadStarts(t) \/ BestEffort(t) \/ Loop(t) \/ Receive(t)
    \/ t = "frame" /\ (FrameWait \/ FrameGrab)
    \/ t = "processing" /\ (ProcessFrame \/ FreezePosts)
    \/ t = "writeout" /\ WritePicture

TickNext == TickInMain \/ \E t \in Threads : TickInThread(t)

Next == \/ Barrier \/ MainNext \/ TimerExpires \/ TickNext \/ CtrlC
        \/ \E t \in Threads : ThreadNext(t)

Spec == Init /\ [][Next]_vars

\* Every thread is scheduled, the timer expires and its signal is taken when there
\* is a thread to take it.  ctrl-c need not come.
Fairness ==
    /\ WF_vars(Barrier) /\ WF_vars(MainNext)
    /\ WF_vars(TimerExpires) /\ WF_vars(TickNext)
    /\ \A t \in Threads : WF_vars(ThreadNext(t))

FairSpec == Spec /\ Fairness

-----------------------------------------------------------------------------
(* Properties *)

TypeOK ==
    /\ running \in {0, 1} /\ freeze_system \in {0, 1}
    /\ mpc \in {"barrier", "arm", "mask", "teardown", "join_frame",
                "join_processing", "join_writeout", "free", "dump", "exited"}
    /\ pc \in [Threads -> {"init", "barrier", "start", "top", "wait", "grab", "receive",
                           "work", "freeze", "spin", "error", "done"}]
    /\ armed \in {0, 1} /\ pending \in {0, 1}
    /\ sequence \in 0 .. SEQUENCE_WRAP - 1
    /\ sem_framegrab \in 0 .. MaxPosts /\ sem_teardown \in 0 .. MaxPosts
    /\ posted \in {0, 1}
    /\ waiting \in [Consumers -> 0 .. MaxWaiting]
    /\ total_frames_written_g \in Nat
    /\ ok_stop \in [Threads -> {0, 1}]
    /\ freed \subseteq UNION {Owned(t) : t \in Threads}
    /\ restart_tick \in {0, 1} /\ restart_int \in {0, 1}
    /\ since_post \in 0 .. SEQUENCE_DIV

Joining == mpc \in {"join_frame", "join_processing", "join_writeout", "free", "dump", "exited"}

\* main() goes past sem_wait(&sem_teardown), whose result it does not check, only
\* when the program stops or froze: no tick of the timer makes it fall through.
TeardownOnlyWhenStopped == Joining \/ sem_teardown > 0 => running = 0 \/ freeze_system = 1

\* Frames are asked for every SEQUENCE_DIV ticks exactly, also where sequence
\* starts over.
FramePacing ==
    [][since_post' = IF since_post = SEQUENCE_DIV THEN 1 ELSE since_post + 1]_<<sequence, since_post>>

\* what a thread touches where it is
Uses(t) ==
    CASE t = "frame"      -> IF pc[t] = "grab" THEN {"frame_buffers", "scan_buffer"} ELSE {}
      [] t = "processing" -> IF pc[t] \in {"work", "freeze"} THEN {"scan_buffer", "wo_buffers"} ELSE {}
      [] t = "writeout"   -> IF pc[t] = "work" THEN {"wo_buffers", "wo_buffer"} ELSE {}

\* Buffers are shared by two threads and released with one of them.  A thread
\* can touch what is released only when its own five seconds ran out, and then
\* never what is released with itself.
ReleasedUnderLateOnly ==
    \A t \in Threads : Uses(t) \cap freed # {} =>
        ok_stop[t] = 0 /\ (t = "frame" \/ Uses(t) \cap freed \cap Owned(t) = {})

\* Once the last tick has disarmed the timer, frame() does not wait in vain for
\* the next one, unless the system froze: then nobody posts sem_framegrab.
FrameUnblocked ==
    armed = 0 /\ mpc \notin {"barrier", "arm"} /\ freeze_system = 0 => ~Blocked("frame")

\* nobody is left to take the signal that would wake main()
Deserted == mpc = "teardown" /\ sem_teardown = 0 /\ \A t \in Threads : pc[t] = "done"

\* Whatever stops the program, ctrl-c, an error or the last picture, brings it to
\* its end with the logs written, unless every thread was gone before the next
\* tick.
StopEnds == running = 0 ~> mpc = "exited" \/ Deserted

\* A count out of time always ends the program, although the timer is disarmed
\* and nobody clears running.
FreezeEnds == freeze_system = 1 ~> mpc = "exited"

\* "writing out the logs afer all child threads have joined" (sequencer.c:9-10):
\* once the threads are gone the logs are written.
LogsWritten == (\A t \in Threads : pc[t] = "done") ~> mpc = "exited"

=============================================================================
