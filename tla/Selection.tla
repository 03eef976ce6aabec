----------------------------- MODULE Selection -----------------------------
(***************************************************************************)
(* How processing() chooses frames in the 1 Hz builds, one frame received  *)
(* from frame_Q per step.  While it starts up, next_motion_state looks for *)
(* the tick of the clock in the comparison of each frame with the one      *)
(* before.  After MOTION_SELECTIONS_IGNORE ticks found in a row the default*)
(* build (one time sync) takes every MOTION_FRAMES_SEC-th frame and        *)
(* compares no more; that with MODE_ALWAYS_DETECT_FRAME selects ticks.     *)
(*                                                                         *)
(* The pictures are reduced to what is asked of them: whether frame_changes*)
(* exceeds MOTION_THRESHOLD (changed), and whether the time stamps of two  *)
(* frames are less than 80 ms apart (a member of Stamps).  The second hand *)
(* is either unknown (clock = "any": every comparison may go either way)   *)
(* or that of a clock whose hand moves for the first `burst` frames of     *)
(* every MOTION_FRAMES_SEC (clock = "regular").                            *)
(***************************************************************************)
EXTENDS Integers

CONSTANTS MOTION_BOOKEND_FRAMES, MOTION_FRAMES_SEC, MOTION_FRAMES_DRIFT,
          MOTION_SELECTIONS_IGNORE,
          GOOD_FRAMES_SYNC, GOOD_FRAMES_ALWAYS,   \* thresholds of the two builds
          Bursts,      \* how many frames the hand of a regular clock may move for
          FrameBound   \* bound: a count of frames that has reached it stays there

ASSUME SelectionAssumption ==
    /\ MOTION_BOOKEND_FRAMES \in Nat \ {0}
    /\ GOOD_FRAMES_SYNC \in Nat /\ GOOD_FRAMES_ALWAYS \in Nat
    /\ MOTION_FRAMES_SEC \in Nat \ {0}
    /\ MOTION_FRAMES_DRIFT \in Nat
    /\ MOTION_SELECTIONS_IGNORE \in Nat \ {0}
    /\ Bursts \subseteq Nat
    /\ FrameBound \in Nat
    /\ FrameBound > MOTION_FRAMES_SEC + MOTION_FRAMES_DRIFT
    /\ FrameBound >= 2 * MOTION_FRAMES_SEC
    /\ FrameBound > GOOD_FRAMES_SYNC /\ FrameBound > GOOD_FRAMES_ALWAYS

\* The program's numbers against a regular clock: its hand moves, a search begun at
\* any frame it moves in ends within the same second, and the start-up takes more than
\* the two first ticks, which may be less than a second apart.
ASSUME ClockAssumption ==
    /\ Bursts \subseteq Nat \ {0}
    /\ \A n \in Bursts : /\ n + MOTION_BOOKEND_FRAMES + GOOD_FRAMES_SYNC < MOTION_FRAMES_SEC
                         /\ n + MOTION_BOOKEND_FRAMES + GOOD_FRAMES_ALWAYS < MOTION_FRAMES_SEC
    /\ MOTION_SELECTIONS_IGNORE > 2

VARIABLES
    \* the build and the clock, which never change
    MODE_ALWAYS_DETECT_FRAME, MOTION_GOOD_FRAMES_THRESHOLD, clock, burst,
    motion_state, bookend_frames, good_frames_in_a_row,
    last_buffer_index,        \* 0 as long as it is -1, then 1
    is_startup, startup_frames_ignore, num_frames_till_selection,
    freeze_system,
    total_frames_selected_g,  \* 0, or 1 for one and more
    phase,                    \* place of the next frame in the clock's second
    \* history: frames since the change that began the search, length of the
    \* last run of unchanged frames, frames since the last tick or selection
    \* and its phase
    since_change, unchanged_run, since_pick, pick_phase

settings    == <<MODE_ALWAYS_DETECT_FRAME, MOTION_GOOD_FRAMES_THRESHOLD, clock, burst>>
motionVars  == <<motion_state, bookend_frames, good_frames_in_a_row>>
counterVars == <<is_startup, startup_frames_ignore, num_frames_till_selection,
                 freeze_system, total_frames_selected_g>>
historyVars == <<since_change, unchanged_run, since_pick, pick_phase>>
vars == <<settings, motionVars, last_buffer_index, counterVars, phase, historyVars>>

Init ==
    /\ MODE_ALWAYS_DETECT_FRAME \in {0, 1}
    /\ MOTION_GOOD_FRAMES_THRESHOLD =
         IF MODE_ALWAYS_DETECT_FRAME = 1 THEN GOOD_FRAMES_ALWAYS ELSE GOOD_FRAMES_SYNC
    /\ \/ clock = "any" /\ burst = 0 /\ phase = 0
       \/ clock = "regular" /\ burst \in Bursts /\ phase \in 0 .. MOTION_FRAMES_SEC - 1
    /\ motion_state = "SEARCHING"
    /\ bookend_frames = 0
    /\ good_frames_in_a_row = 0
    /\ last_buffer_index = 0
    /\ is_startup = 1
    /\ startup_frames_ignore = 0
    /\ num_frames_till_selection = 0
    /\ freeze_system = 0
    /\ total_frames_selected_g = 0
    /\ since_change = 0 /\ unchanged_run = 0 /\ since_pick = 0 /\ pick_phase = 0

\* what the comparison of the next frame with the one before can say
Comparisons == IF clock = "any" THEN {0, 1}
               ELSE IF phase < burst THEN {1} ELSE {0}

\* what the check that two frames are less than 80 ms apart can say; the other
\* build has no such check
Stamps == IF clock = "any" /\ MODE_ALWAYS_DETECT_FRAME = 0 THEN {0, 1} ELSE {1}

\* one frame more; from FrameBound on, which is out of time, counts are not told apart
Raised(n) == IF n < FrameBound THEN n + 1 ELSE n

\* the next frame is received
FrameArrives ==
    /\ freeze_system = 0
    /\ phase' = IF clock = "any" \/ phase + 1 = MOTION_FRAMES_SEC THEN 0 ELSE phase + 1
    /\ UNCHANGED settings

-----------------------------------------------------------------------------
(* next_motion_state: one action per branch.  Only Detect returns           *)
(* MOTION_DETECTED.                                                         *)

Seen(changed) ==
    /\ since_change' = IF motion_state = "SEARCHING" THEN 0 ELSE since_change + 1
    /\ unchanged_run' = IF changed = 1 THEN 0 ELSE Raised(unchanged_run)

Searching(changed) ==
    /\ motion_state = "SEARCHING"
    /\ motion_state' = IF changed = 1 THEN "BOOKEND" ELSE "SEARCHING"
    /\ UNCHANGED <<bookend_frames, good_frames_in_a_row>>

\* a mistake in Bookend: one frame fewer is skipped
BookendShort(changed) ==
    /\ motion_state = "BOOKEND"
    /\ IF bookend_frames + 2 = MOTION_BOOKEND_FRAMES
         THEN bookend_frames' = 0 /\ motion_state' = "COUNTING"
         ELSE bookend_frames' = bookend_frames + 1 /\ UNCHANGED motion_state
    /\ UNCHANGED good_frames_in_a_row

\* a mistake in Bookend: the count is compared before it is raised, one more is skipped
BookendLong(changed) ==
    /\ motion_state = "BOOKEND"
    /\ IF bookend_frames = MOTION_BOOKEND_FRAMES
         THEN bookend_frames' = 0 /\ motion_state' = "COUNTING"
         ELSE bookend_frames' = bookend_frames + 1 /\ UNCHANGED motion_state
    /\ UNCHANGED good_frames_in_a_row

Bookend(changed) ==
    /\ motion_state = "BOOKEND"
    /\ IF bookend_frames + 1 = MOTION_BOOKEND_FRAMES
         THEN bookend_frames' = 0 /\ motion_state' = "COUNTING"
         ELSE bookend_frames' = bookend_frames + 1 /\ UNCHANGED motion_state
    /\ UNCHANGED good_frames_in_a_row

\* a mistake in Counting: a changed frame leaves the counter
CountingNoReset(changed) ==
    /\ motion_state = "COUNTING"
    /\ \/ /\ changed = 0
          /\ good_frames_in_a_row + 1 <= MOTION_GOOD_FRAMES_THRESHOLD
          /\ good_frames_in_a_row' = good_frames_in_a_row + 1
          /\ UNCHANGED motion_state
       \/ /\ changed = 1
          /\ motion_state' = "SEARCHING"
          /\ UNCHANGED good_frames_in_a_row
    /\ UNCHANGED bookend_frames

Counting(changed) ==
    /\ motion_state = "COUNTING"
    /\ \/ /\ changed = 0
          /\ good_frames_in_a_row + 1 <= MOTION_GOOD_FRAMES_THRESHOLD
          /\ good_frames_in_a_row' = good_frames_in_a_row + 1
          /\ UNCHANGED motion_state
       \/ /\ changed = 1
          /\ motion_state' = "SEARCHING"
          /\ good_frames_in_a_row' = 0
    /\ UNCHANGED bookend_frames

Detect(changed) ==
    /\ motion_state = "COUNTING"
    /\ changed = 0
    /\ good_frames_in_a_row + 1 > MOTION_GOOD_FRAMES_THRESHOLD
    /\ motion_state' = "SEARCHING"
    /\ good_frames_in_a_row' = 0
    /\ UNCHANGED bookend_frames

-----------------------------------------------------------------------------
(* processing() *)

\* history: a tick is found or a frame is selected, or neither
Picked    == since_pick' = 0 /\ pick_phase' = phase
NotPicked == since_pick' = Raised(since_pick) /\ UNCHANGED pick_phase

\* "Need at least two frames to start comparing"
FirstFrame ==
    /\ last_buffer_index = 0
    /\ FrameArrives
    /\ last_buffer_index' = 1
    /\ UNCHANGED <<motionVars, counterVars, historyVars>>

\* frames are compared during the start-up, and in the other build always
Compared == is_startup = 1 \/ MODE_ALWAYS_DETECT_FRAME = 1

NoTick(changed) ==
    /\ last_buffer_index = 1 /\ Compared
    /\ FrameArrives
    /\ Seen(changed)
    /\ Searching(changed) \/ Bookend(changed) \/ Counting(changed)
    /\ num_frames_till_selection' = Raised(num_frames_till_selection)
    /\ NotPicked
    /\ UNCHANGED <<last_buffer_index, is_startup, startup_frames_ignore,
                   freeze_system, total_frames_selected_g>>

\* a tick between frames 80 ms or more apart: synchronise from the beginning
SyncFailed(changed) ==
    /\ last_buffer_index = 1 /\ is_startup = 1
    /\ 0 \in Stamps
    /\ FrameArrives
    /\ Seen(changed)
    /\ Detect(changed)
    /\ startup_frames_ignore' = 0
    /\ num_frames_till_selection' = 0
    /\ Picked
    /\ UNCHANGED <<last_buffer_index, is_startup, freeze_system, total_frames_selected_g>>

\* "timing off +/-120ms!"
TimingOff(n) == \/ n > MOTION_FRAMES_SEC + MOTION_FRAMES_DRIFT
                \/ n < MOTION_FRAMES_SEC - MOTION_FRAMES_DRIFT

\* a mistake in RoundEnds: the frame that ends a round counts as the next one's first
RoundEndsAtOne(n) ==
    \/ TimingOff(n) /\ freeze_system' = 1 /\ num_frames_till_selection' = n
    \/ ~TimingOff(n) /\ UNCHANGED freeze_system /\ num_frames_till_selection' = 1

\* the check of the count that ends every round outside of the start-up
RoundEnds(n) ==
    \/ TimingOff(n) /\ freeze_system' = 1 /\ num_frames_till_selection' = n
    \/ ~TimingOff(n) /\ UNCHANGED freeze_system /\ num_frames_till_selection' = 0

\* a mistake in Sync: it goes on to the check of the count
SyncChecked(changed) ==
    /\ last_buffer_index = 1 /\ is_startup = 1
    /\ 1 \in Stamps
    /\ startup_frames_ignore + 1 # MOTION_SELECTIONS_IGNORE
    /\ FrameArrives
    /\ Seen(changed)
    /\ Detect(changed)
    /\ startup_frames_ignore' = startup_frames_ignore + 1
    /\ RoundEnds(Raised(num_frames_till_selection))
    /\ Picked
    /\ UNCHANGED <<last_buffer_index, is_startup, total_frames_selected_g>>

Sync(changed) ==
    /\ last_buffer_index = 1 /\ is_startup = 1
    /\ 1 \in Stamps
    /\ startup_frames_ignore + 1 # MOTION_SELECTIONS_IGNORE
    /\ FrameArrives
    /\ Seen(changed)
    /\ Detect(changed)
    /\ startup_frames_ignore' = startup_frames_ignore + 1
    /\ num_frames_till_selection' = 0
    /\ Picked
    /\ UNCHANGED <<last_buffer_index, is_startup, freeze_system, total_frames_selected_g>>

\* the last tick of the start-up: it clears is_startup, so the check runs
LastSync(changed) ==
    /\ last_buffer_index = 1 /\ is_startup = 1
    /\ 1 \in Stamps
    /\ startup_frames_ignore + 1 = MOTION_SELECTIONS_IGNORE
    /\ FrameArrives
    /\ Seen(changed)
    /\ Detect(changed)
    /\ startup_frames_ignore' = startup_frames_ignore + 1
    /\ is_startup' = 0
    /\ RoundEnds(Raised(num_frames_till_selection))
    /\ Picked
    /\ UNCHANGED <<last_buffer_index, total_frames_selected_g>>

\* MODE_ALWAYS_DETECT_FRAME: every tick is selected
SelectTick(changed) ==
    /\ last_buffer_index = 1 /\ is_startup = 0 /\ MODE_ALWAYS_DETECT_FRAME = 1
    /\ FrameArrives
    /\ Seen(changed)
    /\ Detect(changed)
    /\ total_frames_selected_g' = 1
    /\ RoundEnds(Raised(num_frames_till_selection))
    /\ Picked
    /\ UNCHANGED <<last_buffer_index, is_startup, startup_frames_ignore>>

\* "We should be synced, grab a frame every second"
SelectFrame ==
    /\ last_buffer_index = 1 /\ ~Compared
    /\ num_frames_till_selection + 1 = MOTION_FRAMES_SEC
    /\ FrameArrives
    /\ total_frames_selected_g' = 1
    /\ RoundEnds(Raised(num_frames_till_selection))
    /\ Picked
    /\ UNCHANGED <<motionVars, last_buffer_index, is_startup,
                   startup_frames_ignore, since_change, unchanged_run>>

PassFrame ==
    /\ last_buffer_index = 1 /\ ~Compared
    /\ num_frames_till_selection + 1 # MOTION_FRAMES_SEC
    /\ FrameArrives
    /\ num_frames_till_selection' = Raised(num_frames_till_selection)
    /\ NotPicked
    /\ UNCHANGED <<motionVars, last_buffer_index, is_startup,
                   startup_frames_ignore, freeze_system,
                   total_frames_selected_g, since_change, unchanged_run>>

ComparedFrame(changed) == \/ NoTick(changed) \/ SyncFailed(changed)
                          \/ Sync(changed) \/ LastSync(changed) \/ SelectTick(changed)

Next == \/ FirstFrame \/ SelectFrame \/ PassFrame
        \/ \E changed \in Comparisons : ComparedFrame(changed)

Spec == Init /\ [][Next]_vars

\* the sequencer keeps posting and frame() keeps delivering
FairSpec == Spec /\ WF_vars(Next)

-----------------------------------------------------------------------------
(* Properties *)

TypeOK ==
    /\ MODE_ALWAYS_DETECT_FRAME \in {0, 1}
    /\ MOTION_GOOD_FRAMES_THRESHOLD \in {GOOD_FRAMES_SYNC, GOOD_FRAMES_ALWAYS}
    /\ motion_state \in {"SEARCHING", "BOOKEND", "COUNTING"}
    /\ bookend_frames \in 0 .. MOTION_BOOKEND_FRAMES - 1
    /\ good_frames_in_a_row \in 0 .. MOTION_GOOD_FRAMES_THRESHOLD
    /\ last_buffer_index \in {0, 1}
    /\ is_startup \in {0, 1}
    /\ startup_frames_ignore \in 0 .. MOTION_SELECTIONS_IGNORE
    /\ num_frames_till_selection \in 0 .. FrameBound
    /\ freeze_system \in {0, 1}
    /\ total_frames_selected_g \in {0, 1}
    /\ phase \in 0 .. MOTION_FRAMES_SEC - 1
    /\ burst \in Nat
    /\ since_change \in Nat /\ unchanged_run \in 0 .. FrameBound /\ since_pick \in 0 .. FrameBound
    /\ pick_phase \in 0 .. MOTION_FRAMES_SEC - 1

TickFound == Compared /\ last_buffer_index = 1 /\ since_pick' = 0

\* However the frames before it differed, a tick is reported a fixed number of
\* frames after the change that began the search, the skipped ones included, and
\* only when every frame since the skipped ones was like the one before.
TickDelay ==
    [][TickFound => /\ since_change' = MOTION_BOOKEND_FRAMES + MOTION_GOOD_FRAMES_THRESHOLD + 1
                    /\ unchanged_run' > MOTION_GOOD_FRAMES_THRESHOLD]_vars

\* "Bork!" says that this tick came too early or too late after the one before.
\* In the default build it can strike only once, at the tick that ends the start-up:
\* once selecting, processing() can never find its timing off, whatever the camera
\* shows.
FreezeOnlyAtSync ==
    [][freeze_system' # freeze_system =>
         /\ TimingOff(since_pick + 1)
         /\ MODE_ALWAYS_DETECT_FRAME = 1 \/ (/\ is_startup = 1 /\ is_startup' = 0
                                              /\ total_frames_selected_g = 0)]_vars

\* After the start-up exactly every MOTION_FRAMES_SEC-th frame is selected, counted
\* from the last tick; when each tick is detected, a selection off by more than
\* MOTION_FRAMES_DRIFT is the last one.
SelectionSpacing ==
    [][is_startup = 0 /\ since_pick' = 0 =>
         IF MODE_ALWAYS_DETECT_FRAME = 0 THEN since_pick + 1 = MOTION_FRAMES_SEC
         ELSE freeze_system' = 1 \/ ~TimingOff(since_pick + 1)]_vars

\* A search that meets a changed frame right after the skipped ones has used up this
\* many frames when the next search begins.
SearchLength == MOTION_BOOKEND_FRAMES + 2

\* The place in the second of a tick: searches follow each other from the second's
\* first frame on, and the last one begun while the hand moves finds it.
TickPhase == (burst - 1) - ((burst - 1) % SearchLength)
               + MOTION_BOOKEND_FRAMES + MOTION_GOOD_FRAMES_THRESHOLD + 1

\* With a regular clock, however long its hand moves, every selected frame shows the
\* hand at rest and always at the same place of the second, and the system is never
\* frozen.
SelectedAtRest ==
    clock = "regular" =>
        /\ freeze_system = 0
        /\ is_startup = 0 => pick_phase >= burst /\ pick_phase = TickPhase

\* the last search of a second ends in failure as the hand comes to rest
Hidden == burst % SearchLength = 0

\* A hand that moves for a multiple of SearchLength frames hides its ticks from the
\* detector: but for one in the second the program starts in, none is found, and the
\* start-up goes on for ever without a freeze or a selection.
HiddenTicks ==
    clock = "regular" /\ Hidden =>
        is_startup = 1 /\ startup_frames_ignore <= 1 /\ total_frames_selected_g = 0

\* With every other such clock the start-up comes to an end.
StartupEnds == clock = "regular" /\ ~Hidden ~> total_frames_selected_g = 1

=============================================================================
