--------------------------- MODULE Selection10Hz ---------------------------
(***************************************************************************)
(* How processing() chooses frames in the MODE_10Hz build, one frame       *)
(* received from frame_Q per step.  It synchronises on five ticks that     *)
(* follow each other closely and then selects the third and the second     *)
(* next frame in turn: ten pictures a second out of 25 frames.             *)
(*                                                                         *)
(* A frame differs from the one before or not.  The display is unknown     *)
(* (clock = "any") or shows tenths of a second (clock = "regular"): within *)
(* five frames the first and the third show a new one.  Frames are FRAME_MS*)
(* apart; of the time stamps only their differences show.                  *)
(***************************************************************************)
EXTENDS Integers

CONSTANTS SCAN_BUF_SIZE, NUM_WO_BUF, FRAME_MS,
          Leads,       \* how many frames frame() may be ahead of processing()
          FrameBound   \* bound: frames without a tick in the start-up

ASSUME Selection10HzAssumption ==
    /\ SCAN_BUF_SIZE \in Nat \ {0} /\ NUM_WO_BUF \in Nat \ {0} /\ FRAME_MS \in Nat \ {0}
    /\ Leads \subseteq 0 .. SCAN_BUF_SIZE - 1 /\ FrameBound \in Nat

VARIABLES
    clock, phase,             \* the display, and the place of the next frame in its five
    last_buffer_index,        \* 0 as long as it is -1, then 1
    is_startup, startup_count, zero_pixels,
    last_sync_frame,          \* frames since that one, or -1
    num_frames_till_selection, is_even, wo_buffer_index,
    exited,
    \* history: new tenths shown and frames since the last tick or selection, and the
    \* distance of the last two, 0 before the second
    shown, since_pick, gap

syncVars   == <<is_startup, startup_count, zero_pixels, last_sync_frame>>
selectVars == <<num_frames_till_selection, is_even, wo_buffer_index, exited>>
historyVars == <<shown, since_pick, gap>>
vars == <<clock, phase, last_buffer_index, syncVars, selectVars, historyVars>>

Period == 5                   \* frames in two tenths of a second

Init ==
    /\ clock \in {"any", "regular"}
    /\ phase \in IF clock = "regular" THEN 0 .. Period - 1 ELSE {0}
    /\ last_buffer_index = 0
    /\ is_startup = 1 /\ startup_count = 0 /\ zero_pixels = 0 /\ last_sync_frame = -1
    /\ num_frames_till_selection = 0 /\ is_even = 0 /\ wo_buffer_index = 0 /\ exited = 0
    /\ shown = 0 /\ since_pick = 0 /\ gap = 0

NewTenth == clock = "regular" /\ phase \in {0, 2}

\* frame_changes of the next frame: is the result more than 0?
Changes == IF clock = "any" THEN {TRUE, FALSE} ELSE {NewTenth}

FrameArrives ==
    /\ exited = 0
    /\ phase' = IF clock = "any" THEN 0 ELSE (phase + 1) % Period
    /\ UNCHANGED clock

Picked    == /\ shown' = 0 /\ since_pick' = 0
             /\ gap' = IF is_startup = 1 THEN 0 ELSE since_pick + 1
NotPicked == /\ shown' = IF NewTenth THEN shown + 1 ELSE shown
             /\ since_pick' = since_pick + 1 /\ UNCHANGED gap

\* "Need at least two frames to start comparing"
FirstFrame ==
    /\ last_buffer_index = 0
    /\ FrameArrives
    /\ last_buffer_index' = 1
    /\ UNCHANGED <<syncVars, selectVars, historyVars>>

-----------------------------------------------------------------------------
(* The start-up: a tick is the first unchanged frame after changed ones      *)

StartupFrame ==
    /\ last_buffer_index = 1 /\ is_startup = 1
    /\ since_pick < FrameBound
    /\ FrameArrives
    /\ UNCHANGED <<last_buffer_index, selectVars>>

NoTick ==
    /\ StartupFrame
    /\ \E changed \in Changes :
         /\ changed \/ zero_pixels = 0
         /\ zero_pixels' = IF changed THEN 1 ELSE 0
    /\ last_sync_frame' = IF last_sync_frame = -1 THEN -1 ELSE last_sync_frame + 1
    /\ NotPicked
    /\ UNCHANGED <<is_startup, startup_count>>

Tick ==
    /\ StartupFrame
    /\ FALSE \in Changes /\ zero_pixels = 1
    /\ zero_pixels' = 0
    /\ last_sync_frame' = 0

\* Time between the frame of the last tick and this one, as their slots tell it: when
\* frame() is `lead` frames ahead, the slot may meanwhile hold a newer frame.
TimeDiff(lead) ==
    LET age == last_sync_frame + 1
    IN  FRAME_MS * (age - SCAN_BUF_SIZE * ((age + lead) \div SCAN_BUF_SIZE))

FirstTick ==
    /\ last_sync_frame = -1
    /\ Tick /\ Picked
    /\ UNCHANGED <<is_startup, startup_count>>

\* a mistake in TickClose: the 80 ms of the 1 Hz build
TickCloseStrict ==
    /\ last_sync_frame # -1
    /\ \E lead \in Leads :
         /\ TimeDiff(lead) \in 0 .. 129
         /\ startup_count' = IF TimeDiff(lead) < 80 THEN startup_count + 1 ELSE 0
    /\ Tick /\ Picked
    /\ is_startup' = IF startup_count' = 5 THEN 0 ELSE 1

\* a mistake in TickClose: 200 ms, as its comment says
TickCloseWide ==
    /\ last_sync_frame # -1
    /\ \E lead \in Leads : TimeDiff(lead) \in 0 .. 199
    /\ Tick /\ Picked
    /\ startup_count' = startup_count + 1
    /\ is_startup' = IF startup_count + 1 = 5 THEN 0 ELSE 1

\* "20ms jitter check": it compares with 130 ms
TickClose ==
    /\ last_sync_frame # -1
    /\ \E lead \in Leads : TimeDiff(lead) \in 0 .. 129
    /\ Tick /\ Picked
    /\ startup_count' = startup_count + 1
    /\ is_startup' = IF startup_count + 1 = 5 THEN 0 ELSE 1

TickFar ==
    /\ last_sync_frame # -1
    /\ \E lead \in Leads : TimeDiff(lead) \in 130 .. 999
    /\ Tick /\ Picked
    /\ startup_count' = 0
    /\ UNCHANGED is_startup

\* more than a second, or a slot that is newer than this frame: not looked at
TickUnknown ==
    /\ last_sync_frame # -1
    /\ \E lead \in Leads : TimeDiff(lead) < 0 \/ TimeDiff(lead) > 999
    /\ Tick /\ Picked
    /\ UNCHANGED <<is_startup, startup_count>>

-----------------------------------------------------------------------------
(* The selection                                                             *)

\* mistakes in Awaited: the two distances are swapped, and only one is used
AwaitedSwapped == IF is_even = 1 THEN 3 ELSE 2
AwaitedSame    == 3

Awaited == IF is_even = 1 THEN 2 ELSE 3

SelectFrame ==
    /\ last_buffer_index = 1 /\ is_startup = 0
    /\ FrameArrives
    /\ num_frames_till_selection + 1 = Awaited
    /\ \/ /\ num_frames_till_selection' = 0
          /\ is_even' = 1 - is_even
          /\ wo_buffer_index' = (wo_buffer_index + 1) % NUM_WO_BUF
          /\ UNCHANGED exited
       \/ \* writeout_Q is full
          /\ exited' = 1
          /\ UNCHANGED <<num_frames_till_selection, is_even, wo_buffer_index>>
    /\ Picked
    /\ UNCHANGED <<last_buffer_index, syncVars>>

PassFrame ==
    /\ last_buffer_index = 1 /\ is_startup = 0
    /\ FrameArrives
    /\ num_frames_till_selection + 1 # Awaited
    /\ num_frames_till_selection' = num_frames_till_selection + 1
    /\ NotPicked
    /\ UNCHANGED <<last_buffer_index, syncVars, is_even, wo_buffer_index, exited>>

Next == \/ FirstFrame \/ NoTick \/ FirstTick \/ TickClose \/ TickFar \/ TickUnknown
        \/ SelectFrame \/ PassFrame

\* the sequencer keeps posting and frame() keeps delivering
Spec == Init /\ [][Next]_vars /\ WF_vars(Next)

-----------------------------------------------------------------------------
(* Properties *)

TypeOK ==
    /\ clock \in {"any", "regular"} /\ phase \in 0 .. Period - 1
    /\ is_startup \in {0, 1} /\ is_even \in {0, 1} /\ zero_pixels \in {0, 1}
    /\ num_frames_till_selection \in Nat /\ shown \in Nat /\ since_pick \in Nat

Selects == is_startup = 0 /\ since_pick' = 0

\* The first selection comes three frames after the last tick, and any two neighbouring
\* distances make five frames: ten pictures a second, whatever the display shows.
TenPerSecond ==
    [][Selects => since_pick + 1 + (IF gap = 0 THEN 2 ELSE gap) = Period]_vars

\* With a display of tenths each of them is selected exactly once, and never on the
\* frame in which it appears.
EveryTenthOnce ==
    [][Selects /\ clock = "regular" => shown = 1 /\ ~NewTenth]_vars

\* A tick that counts as close to the one before is less than 130 ms after it.  Only when
\* none was found while the whole ring was filled again can it be any later: the slot of
\* the one before then has the time of a newer frame.
SyncIsClose ==
    [][startup_count' > startup_count =>
         FRAME_MS * (since_pick + 1) < 130 \/ since_pick + 1 >= SCAN_BUF_SIZE]_vars

\* With such a display the start-up comes to an end.
SyncEnds == clock = "regular" ~> is_startup = 0

=============================================================================
