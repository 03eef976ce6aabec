------------------------ MODULE Selection10HzProofs ------------------------
(***************************************************************************)
(* Proofs about the choice of frames in the MODE_10Hz build, for every size*)
(* of the rings, every spacing of the frames and every start-up.           *)
(***************************************************************************)
EXTENDS Selection10Hz, TLAPS

-----------------------------------------------------------------------------
(* The inductive invariant *)

\* The count is the distance from the last tick or selection, and is_even says which
\* distance came before.
CountInv ==
    /\ last_buffer_index = 0 => zero_pixels = 0
    /\ is_startup = 1 => is_even = 0 /\ num_frames_till_selection = 0 /\ gap = 0
    /\ is_startup = 0 => /\ last_buffer_index = 1
                         /\ num_frames_till_selection = since_pick
                         /\ since_pick < Awaited
                         /\ IF is_even = 1 THEN gap = 3 ELSE gap \in {0, 2}

\* With a display of tenths: a tick can only be the second or the fourth frame of the
\* five, and from there on the place of the next frame follows the count.
DisplayInv ==
    clock = "regular" =>
        /\ is_startup = 1 /\ zero_pixels = 1 => phase \in {1, 3}
        /\ is_startup = 0 =>
             <<is_even, num_frames_till_selection, phase, shown>> \in
                {<<0, 0, 2, 0>>, <<0, 1, 3, 1>>, <<0, 2, 4, 1>>, <<1, 0, 0, 0>>, <<1, 1, 1, 1>>,
                 <<0, 0, 4, 0>>, <<0, 1, 0, 0>>, <<0, 2, 1, 1>>, <<1, 0, 2, 0>>, <<1, 1, 3, 1>>}

Inv10Hz == TypeOK /\ (exited = 0 => CountInv /\ DisplayInv)

-----------------------------------------------------------------------------
(* Proofs *)

\* processing() starts in the invariant.
LEMMA Init10Hz == Init => Inv10Hz
<1> SUFFICES ASSUME Init PROVE Inv10Hz
  OBVIOUS
<1>1. phase \in 0 .. Period - 1
  BY DEF Init, Period
<1> QED
  BY <1>1 DEF Init, Inv10Hz, TypeOK, CountInv, DisplayInv, Period

\* A frame moves the place by one.
LEMMA PhaseStep ==
    ASSUME TypeOK, FrameArrives
    PROVE  /\ phase' \in 0 .. Period - 1 /\ clock' = clock /\ exited = 0
           /\ clock = "regular" => phase' = IF phase = 4 THEN 0 ELSE phase + 1
BY DEF TypeOK, FrameArrives, Period

\* What is picked or not stays of its type.
LEMMA HistoryStep ==
    ASSUME TypeOK, Picked \/ NotPicked PROVE shown' \in Nat /\ since_pick' \in Nat
BY DEF TypeOK, Picked, NotPicked

\* A frame of the start-up that is no tick.
LEMMA NoTickStep == ASSUME Inv10Hz, NoTick PROVE Inv10Hz'
<1>1. /\ TypeOK /\ CountInv /\ DisplayInv /\ FrameArrives
      /\ is_startup = 1 /\ last_buffer_index = 1
  BY DEF NoTick, StartupFrame, FrameArrives, Inv10Hz
<1>2. PICK changed \in Changes : /\ changed \/ zero_pixels = 0
                                 /\ zero_pixels' = IF changed THEN 1 ELSE 0
  BY DEF NoTick
<1>3. UNCHANGED <<is_startup, is_even, num_frames_till_selection, gap, last_buffer_index>> /\ NotPicked
  BY DEF NoTick, StartupFrame, selectVars, NotPicked
<1>4. TypeOK'
  BY <1>1, <1>2, <1>3, PhaseStep, HistoryStep DEF TypeOK
<1>5. CountInv'
  BY <1>1, <1>3 DEF CountInv
<1>6. DisplayInv'
  <2>1. CASE clock = "regular" /\ zero_pixels' = 1
    <3>1. NewTenth
      BY <1>2, <2>1 DEF Changes
    <3> QED
      BY <1>1, <1>3, <2>1, <3>1, PhaseStep DEF DisplayInv, NewTenth
  <2>2. CASE clock # "regular" \/ zero_pixels' # 1
    BY <1>1, <1>3, <2>2, PhaseStep DEF DisplayInv
  <2> QED
    BY <2>1, <2>2
<1> QED
  BY <1>4, <1>5, <1>6 DEF Inv10Hz

\* A tick of the start-up, whatever is made of it.
LEMMA TickStep ==
    ASSUME Inv10Hz, Tick, Picked, is_startup' \in {0, 1} PROVE Inv10Hz'
<1>1. /\ TypeOK /\ CountInv /\ DisplayInv /\ FrameArrives
      /\ is_startup = 1 /\ last_buffer_index = 1
  BY DEF Tick, StartupFrame, FrameArrives, Inv10Hz
<1>2. UNCHANGED <<is_even, num_frames_till_selection, last_buffer_index>> /\ zero_pixels' = 0
  BY DEF Tick, StartupFrame, selectVars
<1>3. shown' = 0 /\ since_pick' = 0 /\ gap' = 0
  BY <1>1 DEF Picked
<1>4. TypeOK'
  BY <1>1, <1>2, <1>3, PhaseStep DEF TypeOK
<1>5. CountInv'
  BY <1>1, <1>2, <1>3 DEF CountInv, Awaited
<1>6. clock = "regular" => phase \in {1, 3}
  BY <1>1 DEF Tick, DisplayInv
<1>7. DisplayInv'
  BY <1>1, <1>2, <1>3, <1>6, PhaseStep DEF DisplayInv, CountInv
<1> QED
  BY <1>4, <1>5, <1>7 DEF Inv10Hz

\* A frame that is selected; when the queue is full nothing follows.
LEMMA SelectStep == ASSUME Inv10Hz, SelectFrame PROVE Inv10Hz'
<1>1. /\ TypeOK /\ CountInv /\ DisplayInv /\ FrameArrives
      /\ is_startup = 0 /\ last_buffer_index = 1
  BY DEF SelectFrame, FrameArrives, Inv10Hz
<1>2. /\ UNCHANGED <<is_startup, zero_pixels, last_buffer_index>>
      /\ shown' = 0 /\ since_pick' = 0 /\ gap' = since_pick + 1
      /\ num_frames_till_selection + 1 = Awaited
  BY <1>1 DEF SelectFrame, Picked, syncVars
<1>3. \/ num_frames_till_selection' = 0 /\ is_even' = 1 - is_even /\ exited' = exited
      \/ exited' = 1 /\ UNCHANGED <<num_frames_till_selection, is_even>>
  BY DEF SelectFrame
<1>4. TypeOK'
  <2>1. num_frames_till_selection' \in Nat /\ is_even' \in {0, 1}
    BY <1>1, <1>3 DEF TypeOK
  <2> QED
    BY <1>1, <1>2, <2>1, PhaseStep DEF TypeOK
<1>5. CASE exited' = 1
  BY <1>4, <1>5 DEF Inv10Hz
<1>6. CASE num_frames_till_selection' = 0 /\ is_even' = 1 - is_even
  <2>1. CountInv'
    BY <1>1, <1>2, <1>6 DEF CountInv, Awaited, TypeOK
  <2>2. DisplayInv'
    BY <1>1, <1>2, <1>6, PhaseStep DEF DisplayInv, Awaited, TypeOK
  <2> QED
    BY <1>4, <2>1, <2>2 DEF Inv10Hz
<1> QED
  BY <1>3, <1>5, <1>6

\* A frame that is passed over.
LEMMA PassStep == ASSUME Inv10Hz, PassFrame PROVE Inv10Hz'
<1>1. /\ TypeOK /\ CountInv /\ DisplayInv /\ FrameArrives
      /\ is_startup = 0 /\ last_buffer_index = 1
  BY DEF PassFrame, FrameArrives, Inv10Hz
<1>2. /\ UNCHANGED <<is_startup, zero_pixels, last_buffer_index, is_even, gap>>
      /\ since_pick' = since_pick + 1 /\ shown' = IF NewTenth THEN shown + 1 ELSE shown
      /\ num_frames_till_selection' = num_frames_till_selection + 1
      /\ num_frames_till_selection + 1 # Awaited
  BY <1>1 DEF PassFrame, NotPicked, syncVars
<1>3. TypeOK'
  BY <1>1, <1>2, PhaseStep DEF TypeOK
<1>4. CountInv'
  BY <1>1, <1>2 DEF CountInv, Awaited, TypeOK
<1>5. DisplayInv'
  BY <1>1, <1>2, PhaseStep DEF DisplayInv, Awaited, TypeOK, NewTenth
<1> QED
  BY <1>3, <1>4, <1>5 DEF Inv10Hz

\* Every frame preserves the invariant.
LEMMA Step10Hz == Inv10Hz /\ [Next]_vars => Inv10Hz'
<1> SUFFICES ASSUME Inv10Hz, [Next]_vars PROVE Inv10Hz'
  OBVIOUS
<1>1. CASE FirstFrame
  <2>1. TypeOK /\ CountInv /\ DisplayInv /\ FrameArrives /\ is_startup = 1
    BY <1>1 DEF FirstFrame, FrameArrives, Inv10Hz, CountInv, TypeOK
  <2>2. UNCHANGED <<syncVars, selectVars, historyVars>>
    BY <1>1 DEF FirstFrame
  <2>3. TypeOK'
    BY <2>1, <2>2, PhaseStep DEF TypeOK, syncVars, selectVars, historyVars
  <2>4. CountInv'
    BY <1>1, <2>1, <2>2 DEF FirstFrame, CountInv, syncVars, selectVars,
       historyVars
  <2>5. zero_pixels = 0
    BY <1>1, <2>1 DEF FirstFrame, CountInv
  <2> QED
    BY <2>1, <2>2, <2>3, <2>4, <2>5 DEF Inv10Hz, DisplayInv, syncVars
<1>2. CASE FirstTick \/ TickClose \/ TickFar \/ TickUnknown
  <2>1. Tick /\ Picked /\ is_startup' \in {0, 1}
    BY <1>2 DEF FirstTick, TickClose, TickFar, TickUnknown, Inv10Hz, TypeOK
  <2> QED
    BY <2>1, TickStep
<1>3. CASE UNCHANGED vars
  BY <1>3 DEF vars, syncVars, selectVars, historyVars, Inv10Hz, TypeOK,
     CountInv, DisplayInv, Awaited
<1> QED
  BY <1>1, <1>2, <1>3, NoTickStep, SelectStep, PassStep DEF Next

\* Inv10Hz holds in every state of processing().
THEOREM Invariance10Hz == Spec => []Inv10Hz
BY Init10Hz, Step10Hz, PTL DEF Spec

\* A step that selects is SelectFrame.
LEMMA SelectsIsSelectFrame ==
    ASSUME Inv10Hz, Next, Selects
    PROVE  SelectFrame /\ CountInv /\ DisplayInv
<1>1. exited = 0
  BY DEF Next, FirstFrame, NoTick, FirstTick, TickClose, TickFar,
     TickUnknown, SelectFrame, PassFrame,
     Tick, StartupFrame, FrameArrives
<1>2. last_buffer_index = 1 /\ since_pick \in Nat
  BY <1>1 DEF Inv10Hz, CountInv, Selects, TypeOK
<1> QED
  BY <1>1, <1>2 DEF Inv10Hz, Selects, Next, FirstFrame, NoTick,
     FirstTick, TickClose, TickFar,
     TickUnknown, PassFrame, NotPicked, Tick, StartupFrame

\* Two pictures in every five frames, whatever the display shows.
THEOREM TenAreSelected == Spec => TenPerSecond
<1>1. Inv10Hz /\ [Next]_vars =>
        [Selects => since_pick + 1 + (IF gap = 0 THEN 2 ELSE gap) = Period]_vars
  <2> SUFFICES ASSUME Inv10Hz, Next, Selects
               PROVE  since_pick + 1 + (IF gap = 0 THEN 2 ELSE gap) = Period
    OBVIOUS
  <2>1. /\ num_frames_till_selection + 1 = Awaited /\ is_startup = 0 /\ CountInv /\ TypeOK
    BY SelectsIsSelectFrame DEF SelectFrame, Inv10Hz
  <2>2. since_pick + 1 = Awaited /\ IF is_even = 1 THEN gap = 3 ELSE gap \in {0, 2}
    BY <2>1 DEF CountInv
  <2>3. CASE is_even = 1
    BY <2>2, <2>3 DEF Awaited, Period
  <2>4. CASE is_even # 1
    BY <2>2, <2>4 DEF Awaited, Period
  <2> QED
    BY <2>3, <2>4
<1> QED
  BY <1>1, Invariance10Hz, PTL DEF Spec, TenPerSecond

\* Every tenth a regular display shows is selected once and at rest.
THEOREM EachTenthOnce == Spec => EveryTenthOnce
<1>1. Inv10Hz /\ [Next]_vars =>
        [Selects /\ clock = "regular" => shown = 1 /\ ~NewTenth]_vars
  <2> SUFFICES ASSUME Inv10Hz, Next, Selects, clock = "regular"
               PROVE  shown = 1 /\ ~NewTenth
    OBVIOUS
  <2>1. num_frames_till_selection + 1 = Awaited /\ DisplayInv /\ is_startup = 0
    BY SelectsIsSelectFrame DEF SelectFrame
  <2> QED
    BY <2>1 DEF DisplayInv, Awaited, NewTenth, Inv10Hz, TypeOK
<1> QED
  BY <1>1, Invariance10Hz, PTL DEF Spec, EveryTenthOnce

\* In the start-up the slot of the last tick is as old as the count since it.
SyncInv == /\ startup_count \in Nat
           /\ is_startup = 1 /\ last_sync_frame # -1 => last_sync_frame = since_pick

\* Every frame keeps it.
LEMMA SyncStep == ASSUME TypeOK, SyncInv, [Next]_vars PROVE SyncInv'
<1>1. CASE FirstFrame \/ UNCHANGED vars
  BY <1>1 DEF FirstFrame, SyncInv, vars, syncVars, historyVars
<1>2. CASE NoTick
  BY <1>2 DEF NoTick, NotPicked, SyncInv, TypeOK
<1>3. CASE FirstTick \/ TickClose \/ TickFar \/ TickUnknown
  <2>1. Tick /\ Picked
    BY <1>3 DEF FirstTick, TickClose, TickFar, TickUnknown
  <2>2. startup_count' \in Nat
    BY <1>3 DEF FirstTick, TickClose, TickFar, TickUnknown, SyncInv
  <2> QED
    BY <2>1, <2>2 DEF Tick, Picked, SyncInv
<1>4. CASE SelectFrame \/ PassFrame
  BY <1>4 DEF SelectFrame, PassFrame, syncVars, SyncInv
<1> QED
  BY <1>1, <1>2, <1>3, <1>4 DEF Next

\* A slot that tells a time of the past was either not filled again, or it is a round of
\* the ring old.
LEMMA SlotTellsTime ==
    ASSUME NEW age \in Nat, NEW lead \in Nat, last_sync_frame + 1 = age, TimeDiff(lead) >= 0
    PROVE  TimeDiff(lead) = FRAME_MS * age \/ age >= SCAN_BUF_SIZE
<1> DEFINE S == SCAN_BUF_SIZE
<1>1. S \in Nat \ {0} /\ FRAME_MS \in Nat \ {0}
  BY Selection10HzAssumption
<1>2. PICK q \in Nat : q = (age + lead) \div S
  BY <1>1
<1>3. TimeDiff(lead) = FRAME_MS * (age - S * q)
  BY <1>2 DEF TimeDiff
<1>4. CASE q = 0
  BY <1>1, <1>3, <1>4
<1>5. CASE q # 0
  <2>1. PICK p \in Nat : p = S * q /\ p >= S
    <3>1. S * q \in Nat /\ S * q >= S
      BY <1>1, <1>5
    <3> QED
      BY <3>1
  <2>2. FRAME_MS * (age - p) >= 0
    BY <1>3, <2>1
  <2>3. age - p >= 0
    BY <1>1, <2>2
  <2> QED
    BY <1>1, <2>1, <2>3
<1> QED
  BY <1>4, <1>5

\* A tick counts as close only if it is, or after a round of the ring without one.
THEOREM SyncsAreClose == Spec => SyncIsClose
<1>1. Init => SyncInv
  BY DEF Init, SyncInv
<1>2. Inv10Hz => TypeOK
  BY DEF Inv10Hz
<1>3. TypeOK /\ SyncInv /\ [Next]_vars => SyncInv'
  BY SyncStep
<1>4. TypeOK /\ SyncInv /\ [Next]_vars =>
        [startup_count' > startup_count =>
           FRAME_MS * (since_pick + 1) < 130 \/ since_pick + 1 >= SCAN_BUF_SIZE]_vars
  <2> SUFFICES ASSUME TypeOK, SyncInv, Next, startup_count' > startup_count
               PROVE  FRAME_MS * (since_pick + 1) < 130 \/ since_pick + 1 >= SCAN_BUF_SIZE
    OBVIOUS
  <2>1. CASE TickClose
    <3>1. is_startup = 1 /\ last_sync_frame = since_pick /\ since_pick + 1 \in Nat
      BY <2>1 DEF TickClose, Tick, StartupFrame, SyncInv, TypeOK
    <3>2. PICK lead \in Leads : TimeDiff(lead) \in 0 .. 129
      BY <2>1 DEF TickClose
    <3>3. lead \in Nat
      BY Selection10HzAssumption
    <3> QED
      BY <3>1, <3>2, <3>3, SlotTellsTime
  <2>2. CASE ~TickClose
    <3>1. startup_count' = startup_count \/ startup_count' = 0
      BY <2>2 DEF Next, FirstFrame, NoTick, FirstTick, TickFar, TickUnknown, SelectFrame,
         PassFrame, syncVars
    <3> QED
      BY <3>1 DEF SyncInv
  <2> QED
    BY <2>1, <2>2
<1> QED
  BY <1>1, <1>2, <1>3, <1>4, Invariance10Hz, PTL DEF Spec, SyncIsClose

=============================================================================
