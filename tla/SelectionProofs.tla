-------------------------- MODULE SelectionProofs --------------------------
(***************************************************************************)
(* Proofs about the choice of frames, for every setting of the thresholds. *)
(***************************************************************************)
EXTENDS Selection, TLAPS

-----------------------------------------------------------------------------
(* The inductive invariant *)

\* The counters of the motion detector are zero outside of the state that uses
\* them, and inside it they agree with what was seen.
MotionInv ==
    /\ motion_state # "BOOKEND" => bookend_frames = 0
    /\ motion_state # "COUNTING" => good_frames_in_a_row = 0
    /\ motion_state = "BOOKEND" => since_change = bookend_frames
    /\ motion_state = "COUNTING" =>
         /\ since_change = MOTION_BOOKEND_FRAMES + good_frames_in_a_row
         /\ unchanged_run >= good_frames_in_a_row

\* num_frames_till_selection is the distance from the last tick or selection.
RoundInv ==
    /\ freeze_system = 0 => num_frames_till_selection = since_pick
    /\ is_startup = 1 => total_frames_selected_g = 0
    /\ last_buffer_index = 0 => is_startup = 1 /\ startup_frames_ignore = 0 /\ motion_state = "SEARCHING"
    /\ is_startup = 1 => startup_frames_ignore < MOTION_SELECTIONS_IGNORE

SelectionInv == TypeOK /\ MotionInv /\ RoundInv

\* frames compared since the search began, the one that began it included
Searched == IF motion_state = "BOOKEND" THEN bookend_frames + 1
            ELSE MOTION_BOOKEND_FRAMES + good_frames_in_a_row + 1

\* the place in the second of the frame that began the search under way
Begun      == phase - Searched
InSearch   == Compared /\ motion_state # "SEARCHING"
Aligned(n) == n % SearchLength = 0

\* A search that ends with a tick ends within the second, and no round was out of time.
PaceInv ==
    /\ burst \in Nat \ {0}
    /\ burst + MOTION_BOOKEND_FRAMES + MOTION_GOOD_FRAMES_THRESHOLD < MOTION_FRAMES_SEC
    /\ freeze_system = 0
    /\ is_startup = 0 => startup_frames_ignore = MOTION_SELECTIONS_IGNORE

\* A search begins while the hand moves, and counts frames once it rests.  After the
\* first tick, which is found at rest, searches follow each other from the first frame
\* of the second on.
SearchInv ==
    /\ InSearch =>
         /\ Begun \in 0 .. burst - 1
         /\ good_frames_in_a_row > 0 => Begun + MOTION_BOOKEND_FRAMES + 1 >= burst
         /\ startup_frames_ignore > 0 => Aligned(Begun)
    /\ startup_frames_ignore > 0 /\ Compared /\ ~InSearch /\ phase < burst => Aligned(phase)

\* From the second on ticks are found at TickPhase, and not at all if they are hidden.
PickInv ==
    /\ startup_frames_ignore > 0 => pick_phase >= burst
    /\ startup_frames_ignore > 1 => ~Hidden /\ pick_phase = TickPhase

\* The next frame is since_pick frames further than the one after the last pick, in the
\* same second, where no search goes on, or in the next one, where a search goes on
\* until TickPhase or begins while the hand moves.
PlaceInv ==
    startup_frames_ignore > 0 /\ ~Hidden =>
      \/ /\ phase = pick_phase + 1 + since_pick
         /\ ~InSearch
      \/ /\ phase = pick_phase + 1 + since_pick - MOTION_FRAMES_SEC
         /\ phase <= TickPhase
         /\ Compared /\ ~InSearch => phase < burst

PhaseInv == PaceInv /\ SearchInv /\ PickInv /\ PlaceInv

ClockInv == clock = "regular" => PhaseInv

-----------------------------------------------------------------------------
(* Proofs *)

\* processing() starts in the invariant.
LEMMA SelectionInit == Init => SelectionInv
<1> SUFFICES ASSUME Init PROVE SelectionInv
  OBVIOUS
<1>1. MOTION_GOOD_FRAMES_THRESHOLD \in {GOOD_FRAMES_SYNC, GOOD_FRAMES_ALWAYS}
  BY SelectionAssumption DEF Init
<1>2. burst \in Nat /\ phase \in 0 .. MOTION_FRAMES_SEC - 1
  <2>1. CASE clock = "any" /\ burst = 0 /\ phase = 0
    BY <2>1, SelectionAssumption
  <2>2. CASE clock = "regular" /\ burst \in Bursts /\ phase \in 0 .. MOTION_FRAMES_SEC - 1
    BY <2>2, SelectionAssumption
  <2> QED
    BY <2>1, <2>2 DEF Init
<1>3. TypeOK
  BY <1>1, <1>2, SelectionAssumption DEF Init, TypeOK
<1> QED
  BY <1>3, SelectionAssumption DEF Init, SelectionInv, MotionInv, RoundInv

\* The motion detector keeps its counters in order on every frame, and on a tick
\* it has seen exactly what TickDelay says.
LEMMA MotionStep ==
    ASSUME TypeOK, MotionInv, NEW changed \in {0, 1}, Seen(changed), UNCHANGED settings,
           Searching(changed) \/ Bookend(changed) \/ Counting(changed) \/ Detect(changed)
    PROVE  /\ MotionInv'
           /\ motion_state' \in {"SEARCHING", "BOOKEND", "COUNTING"}
           /\ bookend_frames' \in 0 .. MOTION_BOOKEND_FRAMES - 1
           /\ good_frames_in_a_row' \in 0 .. MOTION_GOOD_FRAMES_THRESHOLD
           /\ since_change' \in Nat /\ unchanged_run' \in 0 .. FrameBound
<1> USE SelectionAssumption DEF TypeOK, MotionInv, Seen, settings, Raised
<1>1. CASE Searching(changed)
  BY <1>1 DEF Searching
<1>2. CASE Bookend(changed)
  BY <1>2 DEF Bookend
<1>3. CASE Counting(changed)
  BY <1>3 DEF Counting
<1>4. CASE Detect(changed)
  BY <1>4 DEF Detect
<1> QED
  BY <1>1, <1>2, <1>3, <1>4

\* A tick is reported MOTION_BOOKEND_FRAMES + MOTION_GOOD_FRAMES_THRESHOLD + 1
\* frames after the change, on the last of so many unchanged frames.
LEMMA DetectDelay ==
    ASSUME TypeOK, MotionInv, NEW changed \in {0, 1}, Seen(changed), Detect(changed)
    PROVE  /\ since_change' = MOTION_BOOKEND_FRAMES + MOTION_GOOD_FRAMES_THRESHOLD + 1
           /\ unchanged_run' > MOTION_GOOD_FRAMES_THRESHOLD
BY SelectionAssumption DEF TypeOK, MotionInv, Seen, Detect, Raised

\* Comparisons are Boolean.
LEMMA ComparisonType == Comparisons \subseteq {0, 1}
BY DEF Comparisons

\* The place of the next frame stays within a second.
LEMMA PhaseType == TypeOK /\ FrameArrives => phase' \in 0 .. MOTION_FRAMES_SEC - 1
BY SelectionAssumption DEF TypeOK, FrameArrives

\* A count stays within its bound and grows until there.
LEMMA RaisedType ==
    ASSUME NEW n \in 0 .. FrameBound
    PROVE  Raised(n) \in 0 .. FrameBound /\ Raised(n) # 0 /\ (n < FrameBound => Raised(n) = n + 1)
BY SelectionAssumption DEF Raised

\* The check of a count cannot tell it from the distance it stands for.
LEMMA RaisedOff ==
    ASSUME NEW n \in 0 .. FrameBound PROVE TimingOff(Raised(n)) <=> TimingOff(n + 1)
BY SelectionAssumption DEF Raised, TimingOff

\* Every frame preserves the invariant.
LEMMA SelectionStep == SelectionInv /\ [Next]_vars => SelectionInv'
<1> SUFFICES ASSUME SelectionInv, [Next]_vars PROVE SelectionInv'
  OBVIOUS
<1> USE SelectionAssumption, PhaseType DEF SelectionInv, settings, motionVars, counterVars,
  historyVars
<1>r. Raised(num_frames_till_selection) \in 0 .. FrameBound /\ Raised(since_pick) \in 0 .. FrameBound
  BY RaisedType DEF TypeOK
<1>1. CASE FirstFrame
  <2>1. MotionInv'
    BY <1>1 DEF FirstFrame, FrameArrives, MotionInv
  <2>2. TypeOK'
    BY <1>r, <1>1 DEF FirstFrame, FrameArrives, TypeOK
  <2>3. RoundInv'
    BY <1>1 DEF FirstFrame, RoundInv
  <2> QED
    BY <2>1, <2>2, <2>3
<1>2. CASE SelectFrame
  <2>1. MotionInv'
    BY <1>2 DEF SelectFrame, FrameArrives, MotionInv
  <2>2. RoundInv'
    BY <1>2 DEF SelectFrame, FrameArrives, RoundInv, RoundEnds, Picked, Compared
  <2>3. TypeOK'
    BY <1>r, <1>2 DEF SelectFrame, FrameArrives, TypeOK, RoundEnds, Picked
  <2> QED
    BY <2>1, <2>2, <2>3
<1>3. CASE PassFrame
  <2>1. MotionInv'
    BY <1>3 DEF PassFrame, FrameArrives, MotionInv
  <2>2. RoundInv'
    BY <1>3 DEF PassFrame, FrameArrives, RoundInv, NotPicked
  <2>3. TypeOK'
    BY <1>r, <1>3 DEF PassFrame, FrameArrives, TypeOK, NotPicked
  <2> QED
    BY <2>1, <2>2, <2>3
<1>4. ASSUME NEW changed \in Comparisons, ComparedFrame(changed)
      PROVE  SelectionInv'
  <2>0. changed \in {0, 1}
    BY ComparisonType
  <2>1. CASE NoTick(changed)
    <3>1. Seen(changed) /\ UNCHANGED settings
          /\ (Searching(changed) \/ Bookend(changed) \/ Counting(changed))
      BY <2>1 DEF NoTick, FrameArrives
    <3>2. /\ MotionInv'
          /\ motion_state' \in {"SEARCHING", "BOOKEND", "COUNTING"}
          /\ bookend_frames' \in 0 .. MOTION_BOOKEND_FRAMES - 1
          /\ good_frames_in_a_row' \in 0 .. MOTION_GOOD_FRAMES_THRESHOLD
          /\ since_change' \in Nat /\ unchanged_run' \in 0 .. FrameBound
      BY <2>0, <3>1, MotionStep
    <3>3. RoundInv'
      BY <2>1 DEF NoTick, FrameArrives, TypeOK, RoundInv, NotPicked
    <3>4. TypeOK'
      BY <1>r, <2>1, <3>2 DEF NoTick, FrameArrives, TypeOK, RoundInv, NotPicked
    <3> QED
      BY <3>2, <3>3, <3>4
  <2>2. CASE SyncFailed(changed)
    <3>1. Seen(changed) /\ Detect(changed) /\ UNCHANGED settings
      BY <2>2 DEF SyncFailed, FrameArrives
    <3>2. /\ MotionInv'
          /\ motion_state' \in {"SEARCHING", "BOOKEND", "COUNTING"}
          /\ bookend_frames' \in 0 .. MOTION_BOOKEND_FRAMES - 1
          /\ good_frames_in_a_row' \in 0 .. MOTION_GOOD_FRAMES_THRESHOLD
          /\ since_change' \in Nat /\ unchanged_run' \in 0 .. FrameBound
      BY <2>0, <3>1, MotionStep
    <3>3. RoundInv'
      BY <2>2 DEF SyncFailed, FrameArrives, TypeOK, RoundInv, Picked
    <3>4. TypeOK'
      BY <1>r, <2>2, <3>2 DEF SyncFailed, FrameArrives, TypeOK, RoundInv, Picked
    <3> QED
      BY <3>2, <3>3, <3>4
  <2>3. CASE Sync(changed)
    <3>1. Seen(changed) /\ Detect(changed) /\ UNCHANGED settings
      BY <2>3 DEF Sync, FrameArrives
    <3>2. /\ MotionInv'
          /\ motion_state' \in {"SEARCHING", "BOOKEND", "COUNTING"}
          /\ bookend_frames' \in 0 .. MOTION_BOOKEND_FRAMES - 1
          /\ good_frames_in_a_row' \in 0 .. MOTION_GOOD_FRAMES_THRESHOLD
          /\ since_change' \in Nat /\ unchanged_run' \in 0 .. FrameBound
      BY <2>0, <3>1, MotionStep
    <3>3. RoundInv'
      BY <2>3 DEF Sync, FrameArrives, TypeOK, RoundInv, Picked
    <3>4. TypeOK'
      BY <1>r, <2>3, <3>2 DEF Sync, FrameArrives, TypeOK, RoundInv, Picked
    <3> QED
      BY <3>2, <3>3, <3>4
  <2>4. CASE LastSync(changed)
    <3>1. Seen(changed) /\ Detect(changed) /\ UNCHANGED settings
      BY <2>4 DEF LastSync, FrameArrives
    <3>2. /\ MotionInv'
          /\ motion_state' \in {"SEARCHING", "BOOKEND", "COUNTING"}
          /\ bookend_frames' \in 0 .. MOTION_BOOKEND_FRAMES - 1
          /\ good_frames_in_a_row' \in 0 .. MOTION_GOOD_FRAMES_THRESHOLD
          /\ since_change' \in Nat /\ unchanged_run' \in 0 .. FrameBound
      BY <2>0, <3>1, MotionStep
    <3>3. RoundInv'
      BY <2>4 DEF LastSync, FrameArrives, TypeOK, RoundInv, Picked, RoundEnds
    <3>4. TypeOK'
      BY <1>r, <2>4, <3>2 DEF LastSync, FrameArrives, TypeOK, RoundInv, Picked, RoundEnds
    <3> QED
      BY <3>2, <3>3, <3>4
  <2>5. CASE SelectTick(changed)
    <3>1. Seen(changed) /\ Detect(changed) /\ UNCHANGED settings
      BY <2>5 DEF SelectTick, FrameArrives
    <3>2. /\ MotionInv'
          /\ motion_state' \in {"SEARCHING", "BOOKEND", "COUNTING"}
          /\ bookend_frames' \in 0 .. MOTION_BOOKEND_FRAMES - 1
          /\ good_frames_in_a_row' \in 0 .. MOTION_GOOD_FRAMES_THRESHOLD
          /\ since_change' \in Nat /\ unchanged_run' \in 0 .. FrameBound
      BY <2>0, <3>1, MotionStep
    <3>3. RoundInv'
      BY <2>5 DEF SelectTick, FrameArrives, TypeOK, RoundInv, Picked, RoundEnds
    <3>4. TypeOK'
      BY <1>r, <2>5, <3>2 DEF SelectTick, FrameArrives, TypeOK, RoundInv, Picked, RoundEnds
    <3> QED
      BY <3>2, <3>3, <3>4
  <2> QED
    BY <1>4, <2>1, <2>2, <2>3, <2>4, <2>5 DEF ComparedFrame
<1>5. CASE UNCHANGED vars
  BY <1>5 DEF vars, TypeOK, MotionInv, RoundInv
<1> QED
  BY <1>1, <1>2, <1>3, <1>4, <1>5 DEF Next

\* SelectionInv holds in every state of processing().
THEOREM SelectionInvariance == Spec => []SelectionInv
BY SelectionInit, SelectionStep, PTL DEF Spec

\* Every counter of the selection stays in its type.
THEOREM SelectionTypeCorrect == Spec => []TypeOK
<1>1. SelectionInv => TypeOK
  BY DEF SelectionInv
<1> QED
  BY <1>1, SelectionInvariance, PTL

\* A tick is reported a fixed number of frames after the change that began the
\* search for it.
THEOREM TickIsDelayed == Spec => TickDelay
<1>1. SelectionInv /\ [Next]_vars =>
        [TickFound => /\ since_change' = MOTION_BOOKEND_FRAMES + MOTION_GOOD_FRAMES_THRESHOLD + 1
                      /\ unchanged_run' > MOTION_GOOD_FRAMES_THRESHOLD]_vars
  <2> SUFFICES ASSUME SelectionInv, Next, TickFound
               PROVE  /\ since_change' = MOTION_BOOKEND_FRAMES + MOTION_GOOD_FRAMES_THRESHOLD + 1
                      /\ unchanged_run' > MOTION_GOOD_FRAMES_THRESHOLD
    OBVIOUS
  <2>1. PICK changed \in Comparisons : ComparedFrame(changed)
    BY DEF Next, TickFound, FirstFrame, SelectFrame, PassFrame, Compared
  <2>2. since_pick' # Raised(since_pick)
    BY RaisedType DEF TickFound, SelectionInv, TypeOK
  <2>3. Seen(changed) /\ Detect(changed)
    BY <2>1, <2>2 DEF ComparedFrame, NoTick, NotPicked, SyncFailed, Sync, LastSync, SelectTick
  <2> QED
    BY <2>3, ComparisonType, DetectDelay DEF SelectionInv
<1> QED
  BY <1>1, SelectionInvariance, PTL DEF Spec, TickDelay

\* The system can freeze only at a tick or selection out of time, which in the
\* default build can only be the tick that ends the start-up.
THEOREM FreezesOnlyAtSync == Spec => FreezeOnlyAtSync
<1>1. SelectionInv /\ [Next]_vars =>
        [freeze_system' # freeze_system =>
           /\ TimingOff(since_pick + 1)
           /\ MODE_ALWAYS_DETECT_FRAME = 1 \/ (/\ is_startup = 1 /\ is_startup' = 0
                                                /\ total_frames_selected_g = 0)]_vars
  <2> SUFFICES ASSUME SelectionInv, Next, freeze_system' # freeze_system
               PROVE  /\ TimingOff(since_pick + 1)
                      /\ MODE_ALWAYS_DETECT_FRAME = 1 \/ (/\ is_startup = 1 /\ is_startup' = 0
                                                           /\ total_frames_selected_g = 0)
    OBVIOUS
  <2>1. num_frames_till_selection + 1 = MOTION_FRAMES_SEC =>
          ~TimingOff(Raised(num_frames_till_selection))
    BY SelectionAssumption DEF TimingOff, Raised, SelectionInv, TypeOK
  <2>2. PICK changed \in Comparisons : LastSync(changed) \/ SelectTick(changed)
    BY <2>1 DEF Next, FirstFrame, SelectFrame, PassFrame, ComparedFrame, NoTick, SyncFailed,
       Sync, RoundEnds, counterVars
  <2>3. TimingOff(Raised(num_frames_till_selection)) /\ freeze_system = 0
    BY <2>2 DEF LastSync, SelectTick, RoundEnds, FrameArrives
  <2>4. TimingOff(since_pick + 1)
    BY <2>3, RaisedOff DEF SelectionInv, RoundInv, TypeOK
  <2> QED
    BY <2>2, <2>4 DEF LastSync, SelectTick, SelectionInv, RoundInv
<1> QED
  BY <1>1, SelectionInvariance, PTL DEF Spec, FreezeOnlyAtSync

\* Selections are exactly MOTION_FRAMES_SEC frames apart, or, when each tick is
\* detected, close to that.
THEOREM SelectionsAreSpaced == Spec => SelectionSpacing
<1>1. SelectionInv /\ [Next]_vars =>
        [is_startup = 0 /\ since_pick' = 0 =>
           IF MODE_ALWAYS_DETECT_FRAME = 0 THEN since_pick + 1 = MOTION_FRAMES_SEC
           ELSE freeze_system' = 1 \/ ~TimingOff(since_pick + 1)]_vars
  <2> SUFFICES ASSUME SelectionInv, Next, is_startup = 0, since_pick' = 0
               PROVE  IF MODE_ALWAYS_DETECT_FRAME = 0 THEN since_pick + 1 = MOTION_FRAMES_SEC
                      ELSE freeze_system' = 1 \/ ~TimingOff(since_pick + 1)
    OBVIOUS
  <2>1. last_buffer_index = 1 /\ since_pick' # Raised(since_pick)
    BY RaisedType DEF SelectionInv, RoundInv, TypeOK
  <2>2. SelectFrame \/ \E changed \in Comparisons : SelectTick(changed)
    BY <2>1 DEF Next, FirstFrame, PassFrame, NotPicked, ComparedFrame, NoTick, SyncFailed, Sync,
       LastSync
  <2>3. CASE SelectFrame
    <3>1. since_pick + 1 = MOTION_FRAMES_SEC
      BY <2>3 DEF SelectFrame, FrameArrives, SelectionInv, RoundInv
    <3> QED
      BY <2>3, <3>1 DEF SelectFrame, Compared, SelectionInv, TypeOK
  <2>4. ASSUME NEW changed \in Comparisons, SelectTick(changed)
        PROVE  freeze_system' = 1 \/ ~TimingOff(since_pick + 1)
    BY <2>4, RaisedOff DEF SelectTick, RoundEnds, FrameArrives, SelectionInv, RoundInv, TypeOK
  <2> QED
    BY <2>2, <2>3, <2>4 DEF SelectTick
<1> QED
  BY <1>1, SelectionInvariance, PTL DEF Spec, SelectionSpacing

-----------------------------------------------------------------------------
(* Remainders *)

\* A remainder is what is left over a multiple.
LEMMA RemainderIs ==
    ASSUME NEW d \in Nat \ {0}, NEW q \in Nat, NEW r \in 0 .. d - 1
    PROVE  (d * q + r) % d = r
<1>1. d * q + r \in Int
  OBVIOUS
<1> QED
  BY <1>1, SMTT(60)

\* A number is a multiple and its remainder.
LEMMA Division ==
    ASSUME NEW n \in Nat, NEW d \in Nat \ {0}
    PROVE  n % d \in 0 .. d - 1 /\ \E q \in Nat : n = d * q + (n % d)
<1>1. n = d * (n \div d) + (n % d)
  BY SMTT(60)
<1>2. n \div d \in Nat
  BY SMTT(60)
<1>3. n % d \in 0 .. d - 1
  OBVIOUS
<1> QED
  BY <1>1, <1>2, <1>3

\* The remainder of a number less than d after a multiple of d.
LEMMA AfterMultiple ==
    ASSUME NEW d \in Nat \ {0}, NEW s \in Nat, s % d = 0, NEW r \in 0 .. d - 1
    PROVE  (s + r) % d = r
<1>1. PICK q \in Nat : s = d * q + (s % d)
  BY Division, Zenon
<1>2. s = d * q
  BY <1>1
<1> QED
  BY <1>2, RemainderIs

\* The multiple after a multiple.
LEMMA NextMultiple ==
    ASSUME NEW d \in Nat \ {0}, NEW s \in Nat, s % d = 0
    PROVE  (s + d) % d = 0
<1>1. PICK q \in Nat : s = d * q + (s % d)
  BY Division, Zenon
<1>2. s + d = d * (q + 1) + 0 /\ q + 1 \in Nat /\ 0 \in 0 .. d - 1
  BY <1>1
<1> QED
  BY <1>2, RemainderIs

\* No multiple lies between a number's last multiple and the number.
LEMMA LastMultiple ==
    ASSUME NEW d \in Nat \ {0}, NEW s \in Nat, s % d = 0, NEW n \in Nat, s <= n
    PROVE  s <= n - (n % d)
<1>1. PICK q \in Nat : s = d * q + (s % d)
  BY Division, Zenon
<1>2. n % d \in 0 .. d - 1 /\ \E p \in Nat : n = d * p + (n % d)
  BY Division
<1>3. PICK p \in Nat : n = d * p + (n % d)
  BY <1>2
<1> DEFINE r == n % d
<1>4. r \in 0 .. d - 1 /\ n = d * p + r /\ s = d * q
  BY <1>1, <1>2, <1>3
<1> HIDE DEF r
<1>5. CASE q <= p
  <2>1. d * (p - q) \in Nat
    <3>1. p - q \in Nat
      BY <1>5
    <3> QED
      BY <3>1
  <2>2. d * (p - q) = d * p - d * q
    OBVIOUS
  <2>3. s <= n - r
    BY <1>4, <2>1, <2>2
  <2> QED
    BY <2>3 DEF r
<1>6. CASE q >= p + 1
  <2>1. d * (q - p - 1) \in Nat
    <3>1. q - p - 1 \in Nat
      BY <1>6
    <3> QED
      BY <3>1
  <2>2. d * (q - p - 1) = d * q - d * p - d
    OBVIOUS
  <2> QED
    BY <1>4, <2>1, <2>2
<1> QED
  BY <1>5, <1>6

-----------------------------------------------------------------------------
(* A clock whose hand moves for some frames of every second *)

\* The first frame of a second and every frame a failed search later.
LEMMA AlignedFacts ==
    /\ Aligned(0)
    /\ \A s \in Nat : Aligned(s) => Aligned(s + SearchLength)
<1>1. SearchLength \in Nat \ {0}
  BY SelectionAssumption DEF SearchLength
<1>2. 0 % SearchLength = 0
  BY <1>1, Z3
<1>3. ASSUME NEW s \in Nat, s % SearchLength = 0 PROVE (s + SearchLength) % SearchLength = 0
  <2> DEFINE d == SearchLength
  <2>1. d \in Nat \ {0} /\ s % d = 0
    BY <1>1, <1>3
  <2> HIDE DEF d
  <2>2. (s + d) % d = 0
    BY <2>1, NextMultiple
  <2> QED
    BY <2>2 DEF d
<1> QED
  BY <1>2, <1>3 DEF Aligned

\* Where TickPhase lies: no aligned search that the hand begins ends in a tick after it,
\* one that finds the hand at rest ends in a tick there, and if the hand comes to rest
\* as such a search ends, ticks are hidden.
LEMMA TickPhaseFacts ==
    ASSUME burst \in Nat \ {0}, MOTION_GOOD_FRAMES_THRESHOLD \in Nat
    PROVE  /\ TickPhase \in Nat
           /\ TickPhase <= burst + MOTION_BOOKEND_FRAMES + MOTION_GOOD_FRAMES_THRESHOLD
           /\ ~Hidden => TickPhase >= burst + MOTION_GOOD_FRAMES_THRESHOLD
           /\ \A s \in 0 .. burst - 1 : Aligned(s) =>
                /\ s + MOTION_BOOKEND_FRAMES + MOTION_GOOD_FRAMES_THRESHOLD + 1 <= TickPhase
                /\ s + MOTION_BOOKEND_FRAMES + 1 >= burst =>
                     /\ TickPhase = s + MOTION_BOOKEND_FRAMES + MOTION_GOOD_FRAMES_THRESHOLD + 1
                     /\ ~Hidden
                /\ s + SearchLength = burst => Hidden
<1> DEFINE d == SearchLength
           n == burst - 1
           r == n % d
<1>1. /\ d \in Nat \ {0} /\ d = MOTION_BOOKEND_FRAMES + 2 /\ MOTION_BOOKEND_FRAMES \in Nat
      /\ n \in Nat /\ burst = n + 1
  BY SelectionAssumption DEF SearchLength
<1>2. TickPhase = n - r + MOTION_BOOKEND_FRAMES + MOTION_GOOD_FRAMES_THRESHOLD + 1
  BY DEF TickPhase
<1>3. Hidden <=> (n + 1) % d = 0
  <2>1. burst % d = (n + 1) % d
    BY <1>1
  <2> QED
    BY <2>1 DEF Hidden
<1>4. \A s : Aligned(s) <=> s % d = 0
  BY DEF Aligned
<1> HIDE DEF d, n
<1>5. r \in 0 .. d - 1 /\ \E q \in Nat : n = d * q + r
  BY <1>1, Division
<1>6. r <= n
  <2>1. PICK q \in Nat : n = d * q + r
    BY <1>5
  <2>2. d * q \in Nat
    BY <1>1
  <2> HIDE DEF r
  <2> QED
    BY <1>5, <2>1, <2>2
<1>7. n - r \in Nat /\ (n - r) % d = 0
  <2>1. PICK q \in Nat : n = d * q + r
    BY <1>5
  <2>2. n - r = d * q + 0 /\ 0 \in 0 .. d - 1 /\ n - r \in Nat
    <3> HIDE DEF r
    <3>1. d * q \in Nat
      BY <1>1
    <3> QED
      BY <1>1, <1>5, <1>6, <2>1, <3>1
  <2>3. (d * q + 0) % d = 0
    BY <1>1, <2>2, RemainderIs
  <2> HIDE DEF r
  <2> QED
    BY <2>2, <2>3
<1> HIDE DEF r
<1>8. r = d - 1 => Hidden
  <2>1. ((n - r) + d) % d = 0
    BY <1>1, <1>7, NextMultiple
  <2>2. r = d - 1 => n + 1 = (n - r) + d
    BY <1>1, <1>5
  <2> QED
    BY <1>3, <2>1, <2>2
<1>9. ASSUME NEW s \in 0 .. burst - 1, s % d = 0
      PROVE  /\ s <= n - r
             /\ s + MOTION_BOOKEND_FRAMES + 1 >= burst => r = n - s /\ ~Hidden
             /\ s + d = burst => Hidden
  <2>1. s \in Nat /\ s <= n
    BY <1>1
  <2>2. s <= n - r
    <3>1. s <= n - (n % d)
      BY <1>1, <1>9, <2>1, LastMultiple
    <3> QED
      BY <3>1 DEF r
  <2>3. ASSUME s + MOTION_BOOKEND_FRAMES + 1 >= burst PROVE r = n - s /\ ~Hidden
    <3>1. n - s \in 0 .. d - 1 /\ n - s + 1 \in 0 .. d - 1 /\ s + (n - s) = n /\ s + (n - s + 1) = n + 1
      BY <1>1, <2>1, <2>3
    <3>2. (s + (n - s)) % d = n - s
      BY <1>1, <1>9, <2>1, <3>1, AfterMultiple
    <3>3. (s + (n - s + 1)) % d = n - s + 1
      BY <1>1, <1>9, <2>1, <3>1, AfterMultiple
    <3>4. n % d = n - s /\ (n + 1) % d = n - s + 1
      BY <3>1, <3>2, <3>3
    <3> QED
      BY <1>1, <1>3, <2>1, <3>4 DEF r
  <2>4. s + d = burst => Hidden
    <3>1. (s + d) % d = 0
      BY <1>1, <1>9, <2>1, NextMultiple
    <3> QED
      BY <1>1, <1>3, <3>1
  <2> QED
    BY <2>2, <2>3, <2>4
<1>10. /\ TickPhase \in Nat
       /\ TickPhase <= burst + MOTION_BOOKEND_FRAMES + MOTION_GOOD_FRAMES_THRESHOLD
       /\ ~Hidden => TickPhase >= burst + MOTION_GOOD_FRAMES_THRESHOLD
  BY <1>1, <1>2, <1>5, <1>7, <1>8
<1>11. ASSUME NEW s \in 0 .. burst - 1, Aligned(s)
       PROVE  /\ s + MOTION_BOOKEND_FRAMES + MOTION_GOOD_FRAMES_THRESHOLD + 1 <= TickPhase
              /\ s + MOTION_BOOKEND_FRAMES + 1 >= burst =>
                   /\ TickPhase = s + MOTION_BOOKEND_FRAMES + MOTION_GOOD_FRAMES_THRESHOLD + 1
                   /\ ~Hidden
              /\ s + SearchLength = burst => Hidden
  <2>1. s % d = 0
    BY <1>4, <1>11
  <2>2. /\ s <= n - r
        /\ s + MOTION_BOOKEND_FRAMES + 1 >= burst => r = n - s /\ ~Hidden
        /\ s + d = burst => Hidden
    BY <1>9, <2>1
  <2>3. s + SearchLength = burst => Hidden
    BY <2>2 DEF d
  <2> QED
    BY <1>1, <1>2, <1>5, <2>2, <2>3
<1> QED
  BY <1>10, <1>11

\* processing() starts before any tick, whatever the place in the second.
LEMMA ClockInit == Init => ClockInv
<1> SUFFICES ASSUME Init, clock = "regular" PROVE PhaseInv
  BY DEF ClockInv
<1> USE SelectionAssumption, ClockAssumption
<1>1. PaceInv
  <2>1. burst \in Bursts /\ burst \in Nat \ {0}
    BY DEF Init
  <2>2. MOTION_GOOD_FRAMES_THRESHOLD \in {GOOD_FRAMES_SYNC, GOOD_FRAMES_ALWAYS}
    BY DEF Init
  <2>3. burst + MOTION_BOOKEND_FRAMES + MOTION_GOOD_FRAMES_THRESHOLD < MOTION_FRAMES_SEC
    BY <2>1, <2>2
  <2> QED
    BY <2>1, <2>3 DEF Init, PaceInv
<1>2. startup_frames_ignore = 0 /\ ~InSearch
  BY DEF Init, InSearch
<1> QED
  BY <1>1, <1>2 DEF PhaseInv, SearchInv, PickInv, PlaceInv

\* What a frame of a regular clock finds: which comparison it is, where it lies, and how
\* far the last pick is away.
LEMMA FrameFacts ==
    ASSUME SelectionInv, PhaseInv, clock = "regular", FrameArrives
    PROVE  /\ burst \in Nat \ {0} /\ burst < MOTION_FRAMES_SEC
           /\ MOTION_GOOD_FRAMES_THRESHOLD \in Nat /\ startup_frames_ignore \in Nat
           /\ phase \in 0 .. MOTION_FRAMES_SEC - 1
           /\ phase' = IF phase + 1 = MOTION_FRAMES_SEC THEN 0 ELSE phase + 1
           /\ Comparisons = IF phase < burst THEN {1} ELSE {0}
           /\ UNCHANGED <<burst, MOTION_GOOD_FRAMES_THRESHOLD, MODE_ALWAYS_DETECT_FRAME>>
           /\ TickPhase' = TickPhase /\ Hidden' = Hidden
           /\ since_pick \in Nat /\ pick_phase \in Nat
           /\ startup_frames_ignore > 0 /\ ~Hidden => Raised(since_pick) = since_pick + 1
<1> USE SelectionAssumption
<1>1. /\ burst \in Nat \ {0} /\ burst < MOTION_FRAMES_SEC
      /\ MOTION_GOOD_FRAMES_THRESHOLD \in Nat /\ startup_frames_ignore \in Nat
      /\ phase \in 0 .. MOTION_FRAMES_SEC - 1
      /\ since_pick \in 0 .. FrameBound /\ pick_phase \in 0 .. MOTION_FRAMES_SEC - 1
  BY DEF PhaseInv, PaceInv, SelectionInv, TypeOK
<1>2. UNCHANGED settings /\ phase' = IF phase + 1 = MOTION_FRAMES_SEC THEN 0 ELSE phase + 1
  BY DEF FrameArrives
<1>3. UNCHANGED <<burst, MOTION_GOOD_FRAMES_THRESHOLD, MODE_ALWAYS_DETECT_FRAME>>
  BY <1>2 DEF settings
<1>4. TickPhase' = TickPhase /\ Hidden' = Hidden
  BY <1>3 DEF TickPhase, Hidden
<1>5. ASSUME startup_frames_ignore > 0, ~Hidden PROVE since_pick < FrameBound
  <2>1. pick_phase >= 1
    BY <1>1, <1>5 DEF PhaseInv, PickInv
  <2>2. phase = pick_phase + 1 + since_pick \/ phase = pick_phase + 1 + since_pick - MOTION_FRAMES_SEC
    BY <1>5 DEF PhaseInv, PlaceInv
  <2> QED
    BY <1>1, <2>1, <2>2
<1>6. startup_frames_ignore > 0 /\ ~Hidden => Raised(since_pick) = since_pick + 1
  BY <1>1, <1>5, RaisedType
<1> QED
  BY <1>1, <1>2, <1>3, <1>4, <1>6 DEF Comparisons

\* A frame that begins a search.
LEMMA BeginPhase ==
    ASSUME SelectionInv, PhaseInv, clock = "regular", NEW changed \in Comparisons,
           NoTick(changed), Searching(changed), changed = 1
    PROVE  SearchInv' /\ PlaceInv'
<1> USE SelectionAssumption
<1>1. FrameArrives /\ NotPicked /\ Compared /\ UNCHANGED <<is_startup, startup_frames_ignore>>
  BY DEF NoTick
<1>2. /\ motion_state = "SEARCHING" /\ motion_state' = "BOOKEND" /\ bookend_frames' = 0
      /\ good_frames_in_a_row' = 0
  BY DEF Searching, SelectionInv, MotionInv
<1>3. phase < burst /\ phase' = phase + 1
  BY <1>1, FrameFacts
<1>4. Compared' /\ InSearch' /\ ~InSearch /\ Begun' = phase
  <2>1. Compared' = Compared
    BY <1>1, FrameFacts DEF Compared
  <2> QED
    BY <1>1, <1>2, <1>3, <2>1, FrameFacts DEF InSearch, Begun, Searched
<1>5. startup_frames_ignore > 0 => Aligned(phase)
  BY <1>1, <1>3, <1>4 DEF PhaseInv, SearchInv
<1>6. SearchInv'
  <2>1. Begun' \in 0 .. burst' - 1
    BY <1>1, <1>3, <1>4, FrameFacts
  <2>2. startup_frames_ignore' > 0 => Aligned(Begun)'
    BY <1>1, <1>4, <1>5 DEF Aligned, SearchLength
  <2> QED
    BY <1>2, <1>4, <2>1, <2>2 DEF SearchInv
<1>7. PlaceInv'
  <2> SUFFICES ASSUME startup_frames_ignore > 0, ~Hidden
               PROVE  /\ phase' = pick_phase' + 1 + since_pick' - MOTION_FRAMES_SEC
                      /\ phase' <= TickPhase'
    BY <1>1, <1>4, FrameFacts DEF PlaceInv
  <2>1. since_pick' = since_pick + 1 /\ pick_phase' = pick_phase
    BY <1>1, FrameFacts DEF NotPicked
  <2>2. pick_phase >= burst
    BY DEF PhaseInv, PickInv
  <2>3. phase = pick_phase + 1 + since_pick - MOTION_FRAMES_SEC
    BY <1>1, <1>3, <2>2, FrameFacts DEF PhaseInv, PlaceInv
  <2>4. TickPhase >= burst + MOTION_GOOD_FRAMES_THRESHOLD /\ TickPhase \in Nat
    BY <1>1, FrameFacts, TickPhaseFacts
  <2> QED
    BY <1>1, <1>3, <2>1, <2>3, <2>4, FrameFacts
<1> QED
  BY <1>6, <1>7

\* A frame that is passed while the hand rests.
LEMMA RestPhase ==
    ASSUME SelectionInv, PhaseInv, clock = "regular", NEW changed \in Comparisons,
           NoTick(changed), Searching(changed), changed # 1
    PROVE  SearchInv' /\ PlaceInv'
<1> USE SelectionAssumption
<1>1. FrameArrives /\ NotPicked /\ Compared /\ UNCHANGED <<is_startup, startup_frames_ignore>>
  BY DEF NoTick
<1>2. motion_state = "SEARCHING" /\ motion_state' = "SEARCHING"
  BY DEF Searching
<1>3. phase >= burst
  BY <1>1, FrameFacts
<1>4. Compared' /\ ~InSearch' /\ ~InSearch
  <2>1. Compared' = Compared
    BY <1>1, FrameFacts DEF Compared
  <2> QED
    BY <1>1, <1>2, <2>1 DEF InSearch
<1>5. phase' = 0 \/ phase' >= burst'
  BY <1>1, <1>3, FrameFacts
<1>6. SearchInv'
  <2>1. phase' < burst' => Aligned(phase)'
    <3>1. Aligned(0)' = Aligned(0)
      BY DEF Aligned, SearchLength
    <3>2. phase' < burst' => phase' = 0
      BY <1>1, <1>5, FrameFacts
    <3>3. 0 % SearchLength = 0
      BY AlignedFacts DEF Aligned
    <3> QED
      BY <3>2, <3>3 DEF Aligned, SearchLength
  <2> QED
    BY <1>4, <2>1 DEF SearchInv
<1>7. PlaceInv'
  <2> SUFFICES ASSUME startup_frames_ignore > 0, ~Hidden
               PROVE  \/ phase' = pick_phase' + 1 + since_pick'
                      \/ /\ phase' = pick_phase' + 1 + since_pick' - MOTION_FRAMES_SEC
                         /\ phase' = 0
    BY <1>1, <1>4, FrameFacts, TickPhaseFacts DEF PlaceInv
  <2>1. since_pick' = since_pick + 1 /\ pick_phase' = pick_phase
    BY <1>1, FrameFacts DEF NotPicked
  <2>2. phase = pick_phase + 1 + since_pick
    BY <1>1, <1>3, <1>4, FrameFacts DEF PhaseInv, PlaceInv
  <2> QED
    BY <1>1, <2>1, <2>2, FrameFacts
<1> QED
  BY <1>6, <1>7

\* A frame that goes on with a search.
LEMMA SearchPhase ==
    ASSUME SelectionInv, PhaseInv, clock = "regular", NEW changed \in Comparisons,
           NoTick(changed), Bookend(changed) \/ Counting(changed)
    PROVE  SearchInv' /\ PlaceInv'
<1> USE SelectionAssumption
<1>1. FrameArrives /\ NotPicked /\ Compared /\ UNCHANGED <<is_startup, startup_frames_ignore>>
  BY DEF NoTick
<1>2. /\ bookend_frames \in 0 .. MOTION_BOOKEND_FRAMES - 1
      /\ good_frames_in_a_row \in 0 .. MOTION_GOOD_FRAMES_THRESHOLD
      /\ motion_state # "BOOKEND" => bookend_frames = 0
      /\ motion_state # "COUNTING" => good_frames_in_a_row = 0
  BY DEF SelectionInv, TypeOK, MotionInv
<1>3. InSearch /\ motion_state \in {"BOOKEND", "COUNTING"} /\ Compared'
  BY <1>1, FrameFacts DEF Bookend, Counting, InSearch, Compared
<1>4. /\ Begun \in 0 .. burst - 1
      /\ good_frames_in_a_row > 0 => Begun + MOTION_BOOKEND_FRAMES + 1 >= burst
      /\ startup_frames_ignore > 0 => Aligned(Begun)
  BY <1>3 DEF PhaseInv, SearchInv
<1>5. phase = Begun + Searched
  BY <1>1, <1>2, FrameFacts DEF Begun, Searched
<1>6. startup_frames_ignore > 0 /\ ~Hidden =>
        /\ phase = pick_phase + 1 + since_pick - MOTION_FRAMES_SEC
        /\ since_pick' = since_pick + 1 /\ pick_phase' = pick_phase
  BY <1>1, <1>3, FrameFacts DEF PhaseInv, PlaceInv, NotPicked
<1>7. burst + MOTION_BOOKEND_FRAMES + MOTION_GOOD_FRAMES_THRESHOLD < MOTION_FRAMES_SEC
  BY DEF PhaseInv, PaceInv
<1>8. Aligned(Begun) =>
        /\ Begun + MOTION_BOOKEND_FRAMES + MOTION_GOOD_FRAMES_THRESHOLD + 1 <= TickPhase
        /\ Begun + SearchLength = burst => Hidden
  BY <1>1, <1>4, FrameFacts, TickPhaseFacts
<1>9. CASE motion_state' # "SEARCHING"
  <2>1. /\ Searched' = Searched + 1
        /\ Searched <= MOTION_BOOKEND_FRAMES + MOTION_GOOD_FRAMES_THRESHOLD
        /\ good_frames_in_a_row' > 0 => Begun + MOTION_BOOKEND_FRAMES + 1 >= burst
    <3>1. CASE Bookend(changed)
      BY <1>1, <1>2, <3>1, FrameFacts DEF Bookend, Searched
    <3>2. CASE Counting(changed)
      <4>1. /\ motion_state = "COUNTING" /\ motion_state' = "COUNTING" /\ changed = 0
            /\ good_frames_in_a_row + 1 <= MOTION_GOOD_FRAMES_THRESHOLD
            /\ good_frames_in_a_row' = good_frames_in_a_row + 1
        BY <1>9, <3>2 DEF Counting
      <4>2. phase >= burst
        BY <1>1, <4>1, FrameFacts
      <4>3. Searched = MOTION_BOOKEND_FRAMES + good_frames_in_a_row + 1
            /\ Searched' = MOTION_BOOKEND_FRAMES + good_frames_in_a_row' + 1
        BY <4>1 DEF Searched
      <4>4. Begun + MOTION_BOOKEND_FRAMES + 1 >= burst
        BY <1>1, <1>2, <1>4, <1>5, <4>2, <4>3, FrameFacts
      <4> QED
        BY <1>1, <1>2, <4>1, <4>3, <4>4, FrameFacts
    <3> QED
      BY <3>1, <3>2
  <2>2. phase' = phase + 1 /\ Begun' = Begun /\ InSearch'
    <3>1. phase + 1 < MOTION_FRAMES_SEC
      BY <1>1, <1>2, <1>4, <1>5, <1>7, <2>1, FrameFacts DEF Searched
    <3>2. phase' = phase + 1
      BY <1>1, <3>1, FrameFacts
    <3>3. Searched \in Int
      BY <1>2 DEF Searched
    <3> QED
      BY <1>1, <1>3, <1>9, <2>1, <3>2, <3>3, FrameFacts DEF Begun, InSearch
  <2>3. SearchInv'
    <3>1. Aligned(Begun) => Aligned(Begun)'
      BY <2>2 DEF Aligned, SearchLength
    <3>2. /\ Begun' \in 0 .. burst' - 1
          /\ good_frames_in_a_row' > 0 => Begun' + MOTION_BOOKEND_FRAMES + 1 >= burst'
          /\ startup_frames_ignore' > 0 => Aligned(Begun)'
      BY <1>1, <1>4, <2>1, <2>2, <3>1, FrameFacts
    <3> QED
      BY <2>2, <3>2 DEF SearchInv
  <2>4. PlaceInv'
    <3> SUFFICES ASSUME startup_frames_ignore > 0, ~Hidden
                 PROVE  /\ phase' = pick_phase' + 1 + since_pick' - MOTION_FRAMES_SEC
                        /\ phase' <= TickPhase'
      BY <1>1, <2>2, FrameFacts DEF PlaceInv
    <3>1. Searched \in Int
      BY <1>2 DEF Searched
    <3>2. phase + 1 <= TickPhase
      BY <1>1, <1>4, <1>5, <1>8, <2>1, <3>1, FrameFacts, TickPhaseFacts
    <3> QED
      BY <1>1, <1>6, <2>2, <3>2, FrameFacts
  <2> QED
    BY <2>3, <2>4
<1>10. CASE motion_state' = "SEARCHING"
  <2>1. /\ Counting(changed) /\ motion_state = "COUNTING" /\ changed = 1
        /\ Searched = MOTION_BOOKEND_FRAMES + good_frames_in_a_row + 1
    BY <1>3, <1>10 DEF Bookend, Counting, Searched
  <2>2. phase < burst
    BY <1>1, <2>1, FrameFacts
  <2>3. good_frames_in_a_row = 0
    BY <1>1, <1>2, <1>4, <1>5, <2>1, <2>2, FrameFacts
  <2>4. phase' = phase + 1 /\ phase' = Begun + SearchLength
    BY <1>1, <1>4, <1>5, <1>7, <2>1, <2>2, <2>3, FrameFacts DEF SearchLength
  <2>5. ~InSearch'
    BY <1>10 DEF InSearch
  <2>6. SearchInv'
    <3>1. Aligned(Begun) => Aligned(Begun + SearchLength)
      BY <1>4, AlignedFacts
    <3>2. Aligned(Begun) => Aligned(phase)'
      BY <2>4, <3>1 DEF Aligned, SearchLength
    <3> QED
      BY <1>1, <1>4, <2>5, <3>2 DEF SearchInv
  <2>7. PlaceInv'
    <3> SUFFICES ASSUME startup_frames_ignore > 0, ~Hidden
                 PROVE  /\ phase' = pick_phase' + 1 + since_pick' - MOTION_FRAMES_SEC
                        /\ phase' <= TickPhase' /\ phase' < burst'
      BY <1>1, <2>5, FrameFacts DEF PlaceInv
    <3>1. TickPhase >= burst + MOTION_GOOD_FRAMES_THRESHOLD /\ TickPhase \in Nat
      BY <1>1, FrameFacts, TickPhaseFacts
    <3>2. phase' < burst
      BY <1>1, <1>4, <1>8, <2>2, <2>4, FrameFacts
    <3> QED
      BY <1>1, <1>6, <2>4, <3>1, <3>2, FrameFacts
  <2> QED
    BY <2>6, <2>7
<1> QED
  BY <1>9, <1>10

\* A frame that is compared without a tick.
LEMMA NoTickPhase ==
    ASSUME SelectionInv, PhaseInv, clock = "regular", NEW changed \in Comparisons, NoTick(changed)
    PROVE  PhaseInv'
<1>1. FrameArrives /\ NotPicked
      /\ UNCHANGED <<is_startup, startup_frames_ignore, freeze_system>>
  BY DEF NoTick
<1>2. PaceInv' /\ PickInv'
  BY <1>1, FrameFacts DEF PhaseInv, PaceInv, PickInv, NotPicked
<1>3. SearchInv' /\ PlaceInv'
  BY BeginPhase, RestPhase, SearchPhase DEF NoTick
<1> QED
  BY <1>2, <1>3 DEF PhaseInv

\* Where a tick is found: at rest; after the first at TickPhase, unless ticks are hidden;
\* and after the second a whole second after the one before.
LEMMA TickPlace ==
    ASSUME SelectionInv, PhaseInv, clock = "regular", Compared, NEW changed \in Comparisons,
           FrameArrives, Detect(changed)
    PROVE  /\ phase >= burst
           /\ startup_frames_ignore > 0 => phase = TickPhase /\ ~Hidden
           /\ startup_frames_ignore > 1 => since_pick + 1 = MOTION_FRAMES_SEC
<1> USE SelectionAssumption
<1>1. /\ motion_state = "COUNTING" /\ changed = 0
      /\ good_frames_in_a_row = MOTION_GOOD_FRAMES_THRESHOLD
  BY FrameFacts DEF Detect, SelectionInv, TypeOK
<1>2. InSearch /\ Searched = MOTION_BOOKEND_FRAMES + MOTION_GOOD_FRAMES_THRESHOLD + 1
  BY <1>1 DEF InSearch, Searched
<1>3. /\ Begun \in 0 .. burst - 1
      /\ MOTION_GOOD_FRAMES_THRESHOLD > 0 => Begun + MOTION_BOOKEND_FRAMES + 1 >= burst
      /\ startup_frames_ignore > 0 => Aligned(Begun)
  BY <1>1, <1>2 DEF PhaseInv, SearchInv
<1>4. phase >= burst
  BY <1>1, FrameFacts
<1>5. phase = Begun + MOTION_BOOKEND_FRAMES + MOTION_GOOD_FRAMES_THRESHOLD + 1
  BY <1>2, FrameFacts DEF Begun
<1>6. Begun + MOTION_BOOKEND_FRAMES + 1 >= burst
  BY <1>3, <1>4, <1>5, FrameFacts
<1>7. startup_frames_ignore > 0 => phase = TickPhase /\ ~Hidden
  BY <1>3, <1>5, <1>6, FrameFacts, TickPhaseFacts
<1>8. ASSUME startup_frames_ignore > 1 PROVE since_pick + 1 = MOTION_FRAMES_SEC
  <2>1. startup_frames_ignore > 0
    BY <1>8, FrameFacts
  <2>2. pick_phase = phase
    BY <1>7, <1>8, <2>1 DEF PhaseInv, PickInv
  <2>3. phase = pick_phase + 1 + since_pick - MOTION_FRAMES_SEC
    BY <1>2, <1>7, <2>1 DEF PhaseInv, PlaceInv
  <2> QED
    BY <2>2, <2>3, FrameFacts
<1> QED
  BY <1>4, <1>7, <1>8

\* A count of one second is never out of time.
LEMMA SecondInTime ==
    num_frames_till_selection + 1 = MOTION_FRAMES_SEC /\ num_frames_till_selection \in Nat =>
      ~TimingOff(Raised(num_frames_till_selection))
BY SelectionAssumption DEF TimingOff, Raised

\* The frame of a tick: the search for the next one begins when the second does.
LEMMA TickPhaseStep ==
    ASSUME SelectionInv, PhaseInv, clock = "regular", NEW changed \in Comparisons,
           Sync(changed) \/ LastSync(changed) \/ SelectTick(changed)
    PROVE  PhaseInv'
<1> USE SelectionAssumption, ClockAssumption
<1>1. Compared /\ Detect(changed) /\ FrameArrives /\ since_pick' = 0 /\ pick_phase' = phase
  BY DEF Sync, LastSync, SelectTick, Compared, Picked
<1>2. /\ phase >= burst
      /\ startup_frames_ignore > 0 => phase = TickPhase /\ ~Hidden
      /\ startup_frames_ignore > 1 => since_pick + 1 = MOTION_FRAMES_SEC
  BY <1>1, TickPlace
<1>3. startup_frames_ignore \in 0 .. MOTION_SELECTIONS_IGNORE
      /\ num_frames_till_selection = since_pick /\ num_frames_till_selection \in Nat
  BY DEF SelectionInv, TypeOK, RoundInv, PhaseInv, PaceInv
<1>4. /\ freeze_system' = 0
      /\ is_startup' = 0 => startup_frames_ignore' = MOTION_SELECTIONS_IGNORE
      /\ \/ startup_frames_ignore' = startup_frames_ignore + 1
         \/ startup_frames_ignore' = startup_frames_ignore /\ startup_frames_ignore > 1
  <2>1. CASE Sync(changed)
    BY <1>3, <2>1 DEF Sync, PhaseInv, PaceInv
  <2>2. CASE LastSync(changed)
    <3>1. startup_frames_ignore > 1
      BY <1>3, <2>2 DEF LastSync
    <3>2. ~TimingOff(Raised(num_frames_till_selection))
      BY <1>2, <1>3, <3>1, SecondInTime
    <3> QED
      BY <1>3, <2>2, <3>2 DEF LastSync, RoundEnds, PhaseInv, PaceInv
  <2>3. CASE SelectTick(changed)
    <3>1. startup_frames_ignore = MOTION_SELECTIONS_IGNORE
      BY <2>3 DEF SelectTick, PhaseInv, PaceInv
    <3>2. ~TimingOff(Raised(num_frames_till_selection))
      BY <1>2, <1>3, <3>1, SecondInTime
    <3> QED
      BY <2>3, <3>1, <3>2 DEF SelectTick, RoundEnds, PhaseInv, PaceInv
  <2> QED
    BY <2>1, <2>2, <2>3
<1>5. ~InSearch'
  BY <1>1 DEF Detect, InSearch
<1>6. PaceInv'
  BY <1>1, <1>4, FrameFacts DEF PhaseInv, PaceInv
<1>7. phase' = 0 \/ phase' >= burst'
  BY <1>1, <1>2, FrameFacts
<1>8. SearchInv'
  <2>1. phase' < burst' => phase' = 0
    BY <1>1, <1>7, FrameFacts
  <2>2. 0 % SearchLength = 0
    BY AlignedFacts DEF Aligned
  <2>3. phase' < burst' => Aligned(phase)'
    BY <2>1, <2>2 DEF Aligned, SearchLength
  <2> QED
    BY <1>5, <2>3 DEF SearchInv
<1>9. PickInv'
  <2>1. startup_frames_ignore' > 1 => startup_frames_ignore > 0
    BY <1>3, <1>4
  <2> QED
    BY <1>1, <1>2, <2>1, FrameFacts DEF PickInv
<1>10. PlaceInv'
  <2>1. \/ phase' = pick_phase' + 1 + since_pick'
        \/ phase' = pick_phase' + 1 + since_pick' - MOTION_FRAMES_SEC /\ phase' = 0
    BY <1>1, FrameFacts
  <2>2. TickPhase' \in Nat /\ burst' \in Nat \ {0}
    BY <1>1, FrameFacts, TickPhaseFacts
  <2> QED
    BY <1>5, <2>1, <2>2 DEF PlaceInv
<1> QED
  BY <1>6, <1>8, <1>9, <1>10 DEF PhaseInv

\* A frame of the default build after the start-up: each second's frame at TickPhase
\* is the one selected.
LEMMA UncomparedPhase ==
    ASSUME SelectionInv, PhaseInv, clock = "regular", SelectFrame \/ PassFrame
    PROVE  PhaseInv'
<1> USE SelectionAssumption, ClockAssumption
<1>1. /\ FrameArrives /\ ~Compared /\ is_startup = 0 /\ UNCHANGED <<is_startup, startup_frames_ignore>>
  BY DEF SelectFrame, PassFrame, Compared, SelectionInv, TypeOK
<1>2. startup_frames_ignore = MOTION_SELECTIONS_IGNORE /\ startup_frames_ignore > 1
  BY <1>1 DEF PhaseInv, PaceInv
<1>3. ~Hidden /\ pick_phase = TickPhase /\ pick_phase >= burst
  BY <1>2 DEF PhaseInv, PickInv
<1>4. ~Compared' /\ ~InSearch'
  BY <1>1, FrameFacts DEF Compared, InSearch
<1>5. SearchInv'
  BY <1>4 DEF SearchInv
<1>6. \/ phase = pick_phase + 1 + since_pick
      \/ phase = pick_phase + 1 + since_pick - MOTION_FRAMES_SEC /\ phase <= TickPhase
  BY <1>2, <1>3 DEF PhaseInv, PlaceInv
<1>7. num_frames_till_selection = since_pick /\ num_frames_till_selection \in Nat
  BY DEF SelectionInv, TypeOK, RoundInv, PhaseInv, PaceInv
<1>8. TickPhase \in Nat
  BY <1>1, FrameFacts, TickPhaseFacts
<1>9. CASE SelectFrame
  <2>1. since_pick + 1 = MOTION_FRAMES_SEC /\ since_pick' = 0 /\ pick_phase' = phase
    BY <1>7, <1>9 DEF SelectFrame, Picked
  <2>2. freeze_system' = 0
    BY <1>7, <1>9, <2>1, SecondInTime DEF SelectFrame, RoundEnds, PhaseInv, PaceInv
  <2>3. phase = TickPhase
    BY <1>1, <1>3, <1>6, <1>8, <2>1, FrameFacts
  <2>4. PaceInv' /\ PickInv'
    BY <1>1, <1>3, <2>1, <2>2, <2>3, FrameFacts DEF PhaseInv, PaceInv, PickInv
  <2>5. \/ phase' = pick_phase' + 1 + since_pick'
        \/ phase' = pick_phase' + 1 + since_pick' - MOTION_FRAMES_SEC /\ phase' <= TickPhase'
    BY <1>1, <1>8, <2>1, FrameFacts
  <2>6. PlaceInv'
    BY <1>4, <2>5 DEF PlaceInv
  <2> QED
    BY <1>5, <2>4, <2>6 DEF PhaseInv
<1>10. CASE PassFrame
  <2>1. since_pick + 1 # MOTION_FRAMES_SEC /\ freeze_system' = freeze_system
        /\ since_pick' = since_pick + 1 /\ pick_phase' = pick_phase
    BY <1>1, <1>2, <1>3, <1>7, <1>10, FrameFacts DEF PassFrame, NotPicked
  <2>2. PaceInv' /\ PickInv'
    BY <1>1, <2>1, FrameFacts DEF PhaseInv, PaceInv, PickInv
  <2>3. \/ phase' = pick_phase' + 1 + since_pick'
        \/ phase' = pick_phase' + 1 + since_pick' - MOTION_FRAMES_SEC /\ phase' <= TickPhase'
    <3>1. /\ phase \in 0 .. MOTION_FRAMES_SEC - 1
          /\ phase' = IF phase + 1 = MOTION_FRAMES_SEC THEN 0 ELSE phase + 1
          /\ TickPhase' = TickPhase
      BY <1>1, FrameFacts
    <3>2. since_pick \in Nat /\ MOTION_FRAMES_SEC \in Nat
      BY <1>7
    <3>3. CASE phase = pick_phase + 1 + since_pick
      BY <1>3, <1>8, <2>1, <3>1, <3>2, <3>3
    <3>4. CASE phase = pick_phase + 1 + since_pick - MOTION_FRAMES_SEC /\ phase <= TickPhase
      <4>1. phase # TickPhase
        BY <1>3, <1>8, <2>1, <3>2, <3>4
      <4>2. TickPhase < MOTION_FRAMES_SEC
        BY <1>3 DEF SelectionInv, TypeOK
      <4> QED
        BY <1>3, <1>8, <2>1, <3>1, <3>2, <3>4, <4>1, <4>2
    <3> QED
      BY <1>6, <3>3, <3>4
  <2>4. PlaceInv'
    BY <1>4, <2>3 DEF PlaceInv
  <2> QED
    BY <1>5, <2>2, <2>4 DEF PhaseInv
<1> QED
  BY <1>9, <1>10

\* Every frame of a regular clock preserves the invariant.
LEMMA ClockStep == SelectionInv /\ ClockInv /\ [Next]_vars => ClockInv'
<1> SUFFICES ASSUME SelectionInv, ClockInv, [Next]_vars, clock' = "regular" PROVE PhaseInv'
  BY DEF ClockInv
<1>0. clock = "regular" /\ PhaseInv
  BY DEF Next, ComparedFrame, FirstFrame, SelectFrame, PassFrame, NoTick, SyncFailed, Sync,
     LastSync, SelectTick, FrameArrives, settings, vars, ClockInv
<1>1. CASE FirstFrame
  <2>1. UNCHANGED <<settings, motionVars, counterVars, historyVars>>
    BY <1>1 DEF FirstFrame, FrameArrives
  <2>2. startup_frames_ignore' = 0 /\ motion_state' = "SEARCHING"
    BY <1>1, <2>1 DEF FirstFrame, SelectionInv, RoundInv, motionVars, counterVars
  <2>3. PaceInv'
    BY <1>0, <2>1 DEF PhaseInv, PaceInv, settings, counterVars
  <2> QED
    BY <2>2, <2>3 DEF PhaseInv, SearchInv, PickInv, PlaceInv, InSearch
<1>2. CASE SelectFrame \/ PassFrame
  BY <1>0, <1>2, UncomparedPhase
<1>3. ASSUME NEW changed \in Comparisons, ComparedFrame(changed) PROVE PhaseInv'
  <2>1. ~SyncFailed(changed)
    BY <1>0 DEF SyncFailed, Stamps
  <2> QED
    BY <1>0, <1>3, <2>1, NoTickPhase, TickPhaseStep DEF ComparedFrame
<1>4. CASE UNCHANGED vars
  <2>1. UNCHANGED <<Compared, InSearch, Begun, TickPhase, Hidden>>
    BY <1>4 DEF vars, settings, motionVars, counterVars, Compared, InSearch, Begun, Searched,
       TickPhase, Hidden
  <2>2. PaceInv' /\ PickInv' /\ PlaceInv'
    BY <1>0, <1>4, <2>1 DEF vars, settings, motionVars, counterVars, historyVars, PhaseInv,
       PaceInv, PickInv, PlaceInv
  <2>3. SearchInv'
    BY <1>0, <1>4, <2>1 DEF vars, settings, motionVars, counterVars, PhaseInv, SearchInv,
       Aligned, SearchLength
  <2> QED
    BY <2>2, <2>3 DEF PhaseInv
<1> QED
  BY <1>1, <1>2, <1>3, <1>4 DEF Next

\* ClockInv holds in every state of processing().
THEOREM ClockInvariance == Spec => []ClockInv
BY ClockInit, ClockStep, SelectionInvariance, PTL DEF Spec

\* With a regular clock every selected frame shows the hand at rest, at one place of the
\* second, and the system is never frozen.
THEOREM SelectionAtRest == Spec => []SelectedAtRest
<1>1. SelectionInv /\ ClockInv => SelectedAtRest
  <2> SUFFICES ASSUME SelectionInv, PhaseInv
               PROVE  /\ freeze_system = 0
                      /\ is_startup = 0 => pick_phase >= burst /\ pick_phase = TickPhase
    BY DEF ClockInv, SelectedAtRest
  <2>1. freeze_system = 0
    BY DEF PhaseInv, PaceInv
  <2>2. is_startup = 0 => startup_frames_ignore > 1
    BY SelectionAssumption, ClockAssumption DEF PhaseInv, PaceInv
  <2>3. startup_frames_ignore > 1 => pick_phase >= burst /\ pick_phase = TickPhase
    <3>1. startup_frames_ignore > 1 => startup_frames_ignore > 0
      BY DEF SelectionInv, TypeOK
    <3> QED
      BY <3>1 DEF PhaseInv, PickInv
  <2> QED
    BY <2>1, <2>2, <2>3
<1> QED
  BY <1>1, ClockInvariance, SelectionInvariance, PTL

\* A hand that comes to rest as a failing search ends is never found: the start-up does
\* not end.
THEOREM TicksAreHidden == Spec => []HiddenTicks
<1>1. SelectionInv /\ ClockInv => HiddenTicks
  <2> SUFFICES ASSUME SelectionInv, PhaseInv, Hidden
               PROVE  is_startup = 1 /\ startup_frames_ignore <= 1 /\ total_frames_selected_g = 0
    BY DEF ClockInv, HiddenTicks
  <2>1. startup_frames_ignore <= 1
    BY DEF PhaseInv, PickInv, SelectionInv, TypeOK
  <2>2. is_startup = 1
    BY <2>1, SelectionAssumption, ClockAssumption DEF PhaseInv, PaceInv, SelectionInv, TypeOK
  <2> QED
    BY <2>1, <2>2 DEF SelectionInv, RoundInv
<1> QED
  BY <1>1, ClockInvariance, SelectionInvariance, PTL

=============================================================================
