# A TLA+ verification of the synchronome

The synchronome (`src/simple-capture`) photographs the second hand of a clock with a Raspberry Pi
camera at 25 Hz and keeps one picture per second: the one in which the hand is at rest. This
directory models its threads, queues, rings, the choice of frames in all three builds, the camera's
set-up, cleanup and buffers, its start and stop, its logs and its picture files, and the schedule
and feasibility programs beside it; checks them with TLC and proves most of the safety properties
with TLAPS.

All line numbers below are those of `src/simple-capture` unless another directory is named. The
build modelled is the default one: 1 Hz, one time sync, no sharpening, PPM, `-O0`; `Selection`
and `DumpTools` also have the one with `MODE_ALWAYS_DETECT_FRAME`, `Selection10Hz` is `MODE_10Hz`.

## 1. Inventory

| Component | State | Operations | Correct when |
|---|---|---|---|
| S0 sequencer, start and stop (`sequencer.c`, `setup.h`) | `running`, `freeze_system`, timer, `sequence`, four semaphores, barrier | start of the threads, timer handler `sequencer`, `ctrl_c`, `dump_logs`, timed joins, release, dump of the logs | frames are asked for at an even pace; every stop ends the program; nothing is released that is still used |
| S1 `frame()` (`frame.c`) | `scan_buffer_index`, `frame_id_g`, the scan ring (90 slots) | wait for a post, dequeue a camera buffer, copy to the ring, send the index, requeue | frames reach the ring complete, in order, and not over one that is needed |
| S2 `processing()` (`processing.c`) | last and current index, start-up counters, `num_frames_till_selection`, the write-out ring (100 slots) | receive, compare while starting up, select, copy, send, check the count, freeze, dump the ring | pictures are exactly 25 frames apart (10 Hz: 2 and 3 in turn) and show the hand at rest |
| S3 `writeout()` (`writeout.c`) | `total_frames_written_g` | receive, transform and write, stop after 1801 pictures | every selected picture is written once, in order |
| motion detector (`motion.c`) | `motion_state`, `bookend_frames`, `good_frames_in_a_row` | `next_motion_state` | a tick is found a fixed time after the hand moved |
| message queues (`queue.c`) | `count`, `b`, the POSIX queue | `init_queue`, `flush_queue`, `enqueue_P`, `dequeue_P` | first in first out, nothing lost, full is full |
| camera buffers (`camera_buffer.c`) | three mmap buffers, `camera_enqueue_count` | request, mmap, enqueue, dequeue, release | a buffer belongs to the driver or to `frame()`, never to both |
| camera set-up and cleanup (`camera_init.c`, `camera.c`) | `video_t` | open, check, init, start, refocus, `video_error_cleanup` | a failed step undoes exactly the steps before it |
| resources (`resources.c`, `buffer.c`) | the rings and single buffers | allocate, release | as above |
| memory log (`memlog.c`) | one ring of entries per thread | init, log, dump | the dump shows what was logged, in order |
| time arithmetic (`timetools.c`) | none | `timespec_subtract` | the difference of the two times |
| picture files (`dumptools.c`) | the globals `fd`, `filename`, `frame_num_s` | name, open, header, write, close, for two threads | the file is the picture |
| transformation, sharpening | pixels | YUYV to RGB/grey; filter | - |
| `jitter/` | tick count, log | a timer handler that logs itself | logs each tick, ends |
| `feasibility/`, `schedule/` | task tables; deadlines, run times, events | completion and scheduling point tests; the schedule under three protocols | tests and schedule agree |
| `realtime.c`, `v4l2_capabilities.c`, `capture.c`, `wcet/` | none of their own | operating system settings, printing, offline tools | - |

The services interact in four ways. The timer handler, which any thread that does not block its
signal may run, posts `sem_framegrab` every fourth tick. `frame()` sends ring indexes to
`processing()` on `frame_Q`, which sends others to `writeout()` on `writeout_Q`; the pictures
themselves stay in the two rings, whose slots are protected by nothing but the length of those
queues. `running` and `freeze_system` are plain globals that every loop looks at. And `main()`
waits in `sem_teardown`, joins each thread for five seconds and releases what it owns.

What is hard: all of this is concurrent and unlocked; the queue's two shared fields are written by
two threads; rings are filled before fullness is tested; errors end one thread at any point;
signals interrupt whatever call they find; and stopping needs every blocked thread to be woken.
The hazards, each at its line, are in `PROJECT.json` under `hazards`.

## 2. Plan

Done, in this order: `Pipeline` over `TickPhotos`; `Selection`; `MsgQueue`; `Sequencer`; `Camera`
over `BufferHandover`; `Timespec` and `Memlog`; the always-detect build in `Selection`;
`Feasibility` and `Schedule`; `DumpTools`; `Selection10Hz`; and proofs of all of them.

Left, in this order:

1. A thread that was not created (187 of `sequencer.c`) and `flush_queue`.
2. The clamping of the conversion to RGB and the borders of the filter, as operators.

## 3. Modules

| Module | Models | State and actions |
|---|---|---|
| `TickPhotos` | the promise: pictures exactly `Spacing` frames apart until it is withdrawn | abstract; refined by `Pipeline` |
| `Pipeline` | `frame()`, `processing()`, `writeout()`, both rings and queues, as they compose | `fpc`, `ppc`, `wpc` are places in the three loops; a copy into a slot has a begin and an end; a slot holds the id of its frame, or `Mixed` while it is overwritten |
| `Selection` | the two 1 Hz builds of `processing()` frame by frame with `next_motion_state` | one action per branch of the motion detector and per outcome of a frame; pictures are whether two frames differ and are less than 80 ms apart; the build and the clock are variables that never change |
| `Selection10Hz` | `processing()` of `MODE_10Hz`, frame by frame | as above; the time between two ticks is computed from their slots, whose frame may have been replaced meanwhile |
| `MsgQueue` | one `queue_container_t` between two threads | each load and store of `count`, each copy into and out of `b`, and the kernel's part of send and receive are steps of their own |
| `Sequencer` | start, timer, handler, `ctrl_c`, stop, joins, release | `mpc` is the place in `main()`, `pc` that of each thread, reduced to what makes it wait or end |
| `BufferHandover` | the promise about the mapped buffers: one owner each, at most one with `frame()` | abstract; refined by `Camera` |
| `Camera` | `main()` from the allocation of the rings to the threads, `camera_init.c`, `camera.c`, `camera_buffer.c`, `resources.c`, `video_error_cleanup`, and `frame()`'s side of the buffers | one action per call that can fail and per pass of a loop over the buffers; every resource is not yet held, held, released, or "bad" if released without being held; the driver fills, drops and frees |
| `Timespec` | `timespec_subtract` | operators; the carries are steps of a computation, `y` as it is left is part of the result |
| `Memlog` | `MEMLOG_LOG`, `MEMLOG_LOG24` and `memlog_dump`, with the thread that logs and dumps, and `main()` that may dump too | `lpc` is the place of the thread, `dpc[d]` that of a dump: each read of the log, the subtraction and the line are steps |
| `DumpTools` | `dumptools.c` under `writeout()` and `processing()`, and `frame()` copying on | one step for each statement that uses `fd`, `filename` or a descriptor: a system call loads its arguments and stores its result in one step, the test of `fd` that follows is a step of its own, and `snprintf` is one step, so that a name mixed from two is not in the model; files are sequences of chunks |
| `Feasibility` | the two tests in both versions, and `test_cases` | operators and recursive functions |
| `Schedule` | the engine of `schedule.c` | a tick is one pass of its loop: deadlines, choice, counters |
| `PipelineProofs`, `SelectionProofs`, `Selection10HzProofs`, `QueueScheduleProofs`, `SequencerProofs`, `CameraProofs`, `MemlogProofs`, `DumpToolsProofs` | proofs; those of `MsgQueue` and of `Schedule` stand in one module | see section 6 |

They share their boundaries. `Pipeline` takes a send, a receive and a change of the counter as one
step each; `MsgQueue` splits them and shows what this leaves out: its races can damage an index
or the count in ways `Pipeline` does not have, so what `Pipeline` shows is shown for executions
without these races (`FifoUntilRace`, `CountUntilRace`). `Pipeline` lets the motion detector
answer as it likes; `Selection` has its real answers. `Sequencer` counts indexes and
leaves the pictures to `Pipeline`. `Camera` has what comes before the picture `Pipeline` copies; it
takes ctrl-c, errors and the joins as a choice of how `frame()` and `main()` end, which `Sequencer`
has in full. `Memlog` takes from `Sequencer` that `main()` may dump a log whose thread still runs.
`DumpTools` takes from `Selection` that in the default build the system can freeze only before the
first selection (`FreezeOnlyAtSync`, proved): this is all that keeps `writeout()` and
`processing()` from dumping at once.

Definitions whose comment begins "a mistake in" are variants of the definition that follows them.
No specification uses them; they record, for each property, a slip in the code that the property
would catch (`mutants` in `PROJECT.json`).

### Choices in the models

* The camera, the clock, ctrl-c, interrupted calls and failing calls are nondeterministic.
* Ids are unbounded numbers in the model; `Frames`, `Calls`, `FrameBound`, `MaxPosts`,
  `MaxWaiting`, `Entries` and `Pictures` are the bounds of the runs, named in the guards. In
  `DumpTools` at most one write is cut short.
* Files in `Memlog` and `DumpTools` are lines or chunks at positions: what is overwritten and what
  is left of an earlier file is exact, lengths in bytes are not modelled.
* In `Feasibility` the rounding of quotients of small doubles is taken as exact, and
  `Ends` says for which services the loop of the completion time test ends. The updated scheduling
  point test first computes a value from `period[i]` before the loop that sets `i` (131 of
  `feasibility_tests_updated.c`): a place that is not initialised or past the end. The value is
  never used, and the read is left out.
* `sa_flags` of the three `struct sigaction` is never initialised (83-96 of `sequencer.c`): the
  two bits that matter are chosen in `Init` of `Sequencer`.
* Each of the five second joins either finds the thread gone or times out; nothing is assumed
  about how long a thread takes.
* `pthread_create` is assumed to succeed: its test for -1 can never fire, and a thread that was
  not created would leave `main()` at the barrier.
* The queues and semaphores are set up before the camera by calls whose failure exits at once; these
  are not modelled. What follows them until the threads exist is in `Camera`.
* The driver in `Camera` is what the code relies on: `munmap`, `free` and `close` of what is held
  succeed; `VIDIOC_REQBUFS` with count 0 is refused while `type` is 0, may be refused while a buffer
  is mapped, and otherwise ends the stream (the comment at 172 of `camera_buffer.c`); the driver gives
  at most the buffers asked for, fills any it has, returns the oldest picture first and drops a
  picture for which it has none.
* A ring is one resource, although it is allocated slot by slot; `init_processing` may leave a part
  allocated, `init_writeout` releases it.

## 4. Runs

| Run | Result | Shows |
|---|---|---|
| `pipeline` | holds | a needed slot is overwritten only with `SCAN_BUF_SIZE` - 2 (write-out: `NUM_WO_BUF` - 1) entries waiting; both "full" tests come after that damage; until then files are exactly `MOTION_FRAMES_SEC` apart and no selected picture disappears; a selected picture is written, unless the program stops or the ring is overrun; `TickPhotos` is implemented |
| `selection` | holds | whatever the pictures: a tick is reported a fixed number of frames after the change; the default build can freeze only at the tick that ends the start-up and its selections are 25 frames apart; the always-detect build freezes with the first selection that is off by more than 3. With a hand that moves for 1 to 12 frames: every picture is taken with the hand at rest, always at the same place in the second, and never a freeze; the start-up ends, unless the hand moves for 5 or 10 frames: then its ticks are hidden and the start-up goes on for ever |
| `selection_10hz` | holds | whatever the display: selections follow each other after 3 and 2 frames in turn, from the tick that ends the start-up on. With a display of tenths, seen in 2 of 5 frames: each tenth is selected once, never in the frame in which it appears; the start-up ends. Whatever the display: a tick that counts towards that end is less than 130 ms after the one before, or the ring has come round and the slot of the one before is stale |
| `queue` | holds | until the first race the queue is first in first out and `count` is its length (plus calls under way and failed sends); a send times out only if the receiver is late; no index is ever invented |
| `queue_index` | violated | one thread's `memcpy` into `b` over the other's message: an index received twice or too early |
| `queue_full` | violated | a lost update of `count`, or the count of a send that failed: refused although there is room |
| `sequencer` | holds | only a stop or a freeze lets `main()` pass `sem_teardown`; frames are asked for every `SEQUENCE_DIV` ticks also at the wrap; after the last tick `frame()` does not wait; every stop and every freeze brings `main()` to its end (but for the case of the next run) |
| `sequencer_logs_written` | violated | all threads gone before the next tick: the signal stays pending in the process, `main()` blocks it, and is never woken |
| `camera` | holds | whichever call fails, the cleanup releases everything that was acquired and nothing twice, with two exceptions that are in the properties: after a failed `mmap` the mappings are released twice, and the buffers of a short answer are freed only by the close; while `frame()` lives the driver has every other buffer and `camera_enqueue_count` is right; pictures are copied once each and in order; `BufferHandover` is implemented |
| `memlog` | holds | the ring keeps the last `MEMLOG_MAX` entries; a dump of a thread that has stopped has a right line for each, "not in order" only where the ring wraps, even while `frame()` writes the same file, and after them what the file had before; a dump of a thread that logs can tear only the entry the thread is at |
| `dumps` | holds | in the default build `writeout()` never writes while the ring is dumped, and every file is one picture until its number comes round; in the always-detect build the two can be in each other's files, but files finished before stay whole; until then a dump shows the slot it is named after unless `frame()` has copied into it |
| `schedule` | holds | each period in which a service was not given its time is counted once, by the first tick after it, and those that end with the last tick are not counted; each tick goes to the service the protocol names; both tests in both versions agree with each other and, within the horizon, with the printed schedule and the count; EDF and LLF miss nothing when the processor suffices |

A burst of five changed frames, or any multiple of the skipped frames plus two, hides every tick
(`HiddenTicks`): the search that begins with the first of them fails with the fifth, and when the
last such search fails the hand has just come to rest. The pictures show nothing of it: the
program compares frames for ever and selects none. What the camera sees of the clock decides
whether this can happen; a hand that is seen to move in one to four frames is far from it.

The engine of `schedule.c` looks at a period in the tick after it (143). With periods of 2, 4, 5 and
10 the last period ends with tick 20, and a miss in it is in the printed schedule but not in the
count (`Unseen`). Periods of 2, 4 and 5 with run times of 2, 1 and 1 under rate monotonic are
an example: the second service gets nothing in its period of ticks 16 to 19 either, and the count has
only the periods before. So a count of 0 does not say that every deadline shown was kept, and
`TestsAgree` speaks of the count only for periods shorter than the horizon.

Smaller disagreements of the code with its comments are visible in the models and have no run:
the barrier is made for two, while `sequencer.c:177` names four; `motion.c:11` asks for
`MOTION_GOOD_FRAMES_THRESHOLD` unchanged frames and the comparison for one more; `sequencer.c:9`
writes the logs after all threads have joined, the code also after a join that timed out;
"unblock everyone" (`sequencer.c:409`) leaves `processing()` and `writeout()` in `mq_receive`;
the 10 Hz start-up speaks of 20 ms and of 200 ms (207 and 209 of `processing.c`) and compares with
130; and the cases 15 to 17 of `feasibility/tests.c` are labelled U=100 but ask for more than the
processor has.

### Bounds

* `pipeline`: rings of 4 and 2 slots, a picture every 2nd frame, 10 frames, 3 pictures. Four slots
  are the fewest in which the two slots of a comparison leave a free one beside the one being
  filled; 10 frames wrap the scan ring twice and the write-out ring once, with both queues
  running from empty to full. The theorems hold for every size.
* `selection`: the program's own thresholds of both builds (3, 9 and 4, 25, 3, 5), and a hand that moves
  for 1 to 12 frames, beyond which a search begun with its last frame does not end within the
  second. The counts of frames stop at 50 (`FrameBound`), which no property tells from more:
  the longest distance any of them speaks of is two seconds, or the 28 frames of the check.
* `selection_10hz`: the program's own numbers; 100 frames without a tick are more than the ring
  of 90, so that the slot of the last tick is replaced, also early, with `frame()` up to 80
  frames ahead. The write-out ring of 3 only shortens a count nothing depends on.
* `queue`: 2 entries and 4 calls fill, refuse, empty and refill the queue.
* `camera`: the program's three buffers and six pictures, so that each buffer is used twice and
  pictures can be dropped; every call fails in some behaviour.
* `sequencer`: a frame every 2nd tick and a wrap with it, one post, index and picture at a time. A
  second post of a semaphore only repeats what a first one does; longer wraps are left to the
  theorem `FramesArePaced`.
* `memlog`: 3 entries and 4 logged, so that the ring wraps by one; seconds of 2 ns and steps of 0 or
  3 ns, so that a difference borrows, is zero, and is negative where the ring wraps; a file that
  is empty or already longer than the log; one dump by the thread and one by `main()` or the handler,
  in every interleaving.
* `dumps`: one slot, two file numbers and three pictures, so that a number comes round while
  another file is finished, and both dumps use the globals in every order; one frame after
  the freeze.
* `schedule`: the twenty test cases, and all 3375 sets of three services with periods of 2 to 6 and
  run times of 1 to 3, over the horizon of 20 ticks of the program.

### Deadlock

The programs end, and some threads wait for ever by design of the code (the freeze, `mq_receive`),
so runs do not check for deadlock; what must not stop is stated as a liveness property.

## 5. Fairness

* `Pipeline`: weak fairness of `processing()` and `writeout()` each, for the steps they take when
  not blocked: both are ordinary threads on their own processors. None for `frame()`, the camera,
  errors or ctrl-c.
* `Selection`, `Selection10Hz`: weak fairness of the next frame: the timer keeps posting while
  nothing is frozen.
* `Sequencer`: weak fairness of `main()`, of each thread, of the timer's expiry and of the
  delivery of its signal to some thread that can take it, which is what the kernel does. None for
  ctrl-c. Nothing makes a blocked `mq_receive` return.

## 6. Proofs

The proofs hold for every value of the constants that satisfies the named assumptions
(`PipelineAssumption`: rings of at least 3 and 2 slots; `SelectionAssumption`,
`QueueAssumption`, `SequencerAssumption`, `CameraAssumption`, `TimespecAssumption`,
`MemlogAssumption`, `Selection10HzAssumption`, `DumpToolsAssumption`, `ScheduleAssumption`: positive
sizes and times, and a wrap of `sequence` that is a multiple of the pace). `ClockAssumption` of `Selection` is about the program's
own numbers: a search begun at any frame the hand moves in ends within the same second. The numbers of
the code satisfy it for hands that move for up to 12 frames, those that hide every tick included. Each
component has one inductive invariant, defined at the head of its proofs, of which the types are
the first part; `Schedule` has two more, `OptimalInv` and `AllFollowed`. TLC checked each with the
constants of the component's run before it was proved (`OptimalInv` for the times up to 40 ticks
ahead); the runs check only what the invariants are there to show.

* `PipelineProofs`. Contiguity of `frame_Q` is inductive by itself. For the rest a writer must be
  related to both readers: `ScanInv` says, as long as no needed slot was overwritten, where the
  queue, the frame under examination and the one it is compared with lie behind
  `scan_buffer_index` and which ids they hold; `WoInv` says the same for the write-out ring; and
  `ContentInv` that the pictures on their way are `MOTION_FRAMES_SEC` apart and that
  `num_frames_till_selection` counts from the newest of them. From these follow the headroom of
  both rings, that "full" comes too late, the spacing of the files, and that each step is one of
  `TickPhotos` or a stutter (`Implements`).
* `SelectionProofs`. `MotionInv` ties the counters of the detector to the history of the
  comparisons, `RoundInv` `num_frames_till_selection` to the last tick or selection. They hold for
  both builds, with their thresholds. `SelectedAtRest` and `HiddenTicks` need to know where in its
  second a regular clock is. Of the parts of `PhaseInv`, `SearchInv` says that a search begins while
  the hand moves and counts its frames once it rests, and that from the first tick on searches
  follow each other from the first frame of the second (`Aligned`); so the last one begun while the
  hand moves ends at one place of the second (`TickPhase`, `PickInv`), where the hand is at rest by
  `ClockAssumption`, or fails as the hand comes to rest, and there is no tick. `PlaceInv` relates that
  place to the frames since the last tick, and `PaceInv` has it that no round is out of time. The
  first search may begin late, since nothing is compared before the second frame; the start-up
  takes three ticks at least, so no selection follows that one, and hidden ticks leave it at one.
* `Selection10HzProofs`. `CountInv` makes `num_frames_till_selection` the distance from the last
  selection and `is_even` the distance before it. With a display of tenths, `DisplayInv` lists the
  ten places the selection can be in relative to the display, two rhythms of five: the start-up
  can end on either of the two unchanged frames that follow a change. `SyncInv` has the last tick
  `since_pick` frames ago; its slot tells that time less the rounds of the ring that were filled since,
  which is right, or negative, or of a tick a round of the ring ago (`SlotTellsTime`).
* `QueueScheduleProofs`, first part, about `MsgQueue`. `BufferInv` says whose message `b` is until it is raced, `GivenInv` that every
  place a message can be in holds one that was given, `RoomInv` that a call that was let in has
  its place.
* `SequencerProofs`. `PaceInv` relates the ticks since the last frame to `sequence` modulo
  `SEQUENCE_DIV` (with lemmas on remainders), `FreezeInv` and `UnblockInv` say
  what the handler leaves behind, `JoinInv` that who was joined is gone and what is released
  belongs to one of those.
* `CameraProofs`. None of the properties is inductive: what a cleanup finds depends on the call that
  failed. `CameraInv` therefore says for every place in `main()` and every level of
  `video_error_cleanup` what is open (`FdInv`), allocated (`HeapInv`), mapped (`MapInv`) and with the
  driver (`DriverInv`), that `frame()` runs only between set-up and cleanup (`FrameInv`), and in which
  order the pictures lie in the buffers (`PictureInv`). The two exceptions need `failed`, a history
  variable. The refinement of `BufferHandover` takes the owner of a buffer from `queued`, `filled`
  and `current`.

* `MemlogProofs`. `SubtractExact` is about any two times of the clock and any length of a second:
  the two carries of `timespec_subtract` together make the difference exact and normalised. For the
  log, `LogInv` adds to `KeepsLast` that every other entry of the ring was logged as it is, that a
  dump is at an entry that was logged, and that a thread that dumps its log does not log; so a
  torn line can only be of the entry that is being replaced. `LinesInv` follows the dumps of a
  log that does not change any more: `CopyInv` relates the place, the offset and the previous time
  of each to the ring, and says that every line before the offset is good. Two dumps may
  write one file because the line of a place is the same in both; that each is good rests on
  `SubtractExact`.
* `DumpToolsProofs`. One invariant for two ways of running. While both threads dump at once
  nothing is known of `fd`; but no descriptor, and no name about to be opened, is of a file that
  counts as finished (`KeptInv`), and this needs no more than that the number of a file is given up
  when its name is taken. As long as one thread at a time dumps (`~overlap`), `AloneInv`
  says what descriptor its place implies, `FilesInv` and `SlotInv` what is in the file it is at;
  `RingInv` that the id of a slot names the file of that slot only. `BuildInv` has what makes the
  overlap impossible in the synchronised build.
* `QueueScheduleProofs`, second part, about `Schedule` and `Feasibility`. The properties speak of
  the printed schedule only. `CountersInv` relates to it
  the two counters the engine decides by: the deadline of a service is the end of its period, and
  its run time is what the schedule gave it since that period began. So what the schedule says a
  service needs in a tick is what the engine saw (`NeedsNow`), and it ran the service of least rank
  (`TickRuns`). A deadline that
  expires is the end of exactly one period, so the misses a tick counts match, one to one, the
  periods that end with the tick before it (`MissesStep`); those that end with the last tick are
  counted by none (`Unseen`).

  That nothing is missed by earliest deadline first and least laxity first (`OptimalIfItFits`) rests on
  `OptimalInv`: for every time ahead, what the services still have to get by then fits into
  the ticks before it. At the start this is that they ask for no more than a round has
  (`DueFits`). A tick keeps it when it goes to the service whose period ends first, or that has the
  least time to spare (`IsUrgent`, `DemandStep`): either that lowers what is due by a time, or
  no service that still needs the tick is due by then, and what is due of their later periods fits
  as it did at the start.

  That the tests are right (`TestsAreRight`) goes through one meaning of both, `InTime`: at some time in
  the first period of a service, all the work released till then, its own and of those before it, is
  done. The loop of the completion time test leads to the first time at which a pass adds
  nothing (`Repeats`, `IsNext`), which is such a time, and none before it is
  (`CompletionTimeRight`). The scheduling points suffice because between two ends of periods nothing
  is released (`SchedulingPointRight`). `BothTestsAgree` says so without the engine. For the engine, `AllFollowed` says that
  every tick printed so far followed the protocol, which makes the schedule a run of rate monotonic
  (`EngineRuns`): a period missed would begin a window of ticks that all went to the
  service or to those before it and still were not enough (`InTimeNoMiss`); a first period that is
  not missed has the time `InTime` asks for (`NoMissInTime`).

  Induction is replaced by the least element of a set of numbers (`LeastExists`, `InAllNumbers`), which
  follows from the well-foundedness of strict inclusion between finite sets. A recursive function
  such as `SumTo`, `Round` or the loop of `CompletionTime` is a `CHOOSE`: the
  proofs first show that a function with its equation exists, and then use the equation only.
  What the theorems assume is what the properties say: `Ends`, with which every loop of the
  completion time test ends (`LoopBound`), and for the engine a horizon longer than every period.

Two theorems are about properties no run checks, as they add little to the others: a thread touches
released buffers only when its own join timed out (`ReleaseIsSafe`), which follows mostly from what a
join means, and a picture is dropped only when `frame()` is behind by all buffers but its own
(`DropsOnlyWhenBehind`), which follows from `FrameHasBuffers` and from when the driver drops.

Only model-checked: the liveness properties (`SelectedIsWritten`, `StartupEnds`, `SyncEnds`,
`StopEnds`, `FreezeEnds`), which need fairness and ENABLED. Every other property of a run that holds
is proved for all values of the constants, with the operators as they stand in the modules.

## 7. Not modelled

* `jitter/`: a handler that logs its own ticks and a thread that waits for their number. Its log and
  subtraction are older copies of `memlog.c` and `timetools.c`; what it measures is the time between
  two interrupts, which no model has.
* The pixels: conversion and sharpening (`transformation.c`, `sharpen.c`) are pure loops whose result
  nothing looks at; `frame_changes` is an input of the choice of frames.
* The text of headers, logs and schedules, and everything else written to the console;
  `memlog_gnuplot_dump`.
* The operating system calls of `realtime.c` and `v4l2_capabilities.c`, whose failure is an
  input of `Sequencer` where it matters.
* The stand-alone capture, the profiling builds, the offline tools of `wcet/` and the scripts:
  sequential programs over files without state that could go wrong between steps. (`verify_frames.c`
  subtracts times with the destructive `timespec_subtract` of `Timespec`.)
* `flush_queue`, which runs before there is a thread, and `destroy_queue`, which is never called.
* Code under `#if 0`.
