--------------------------- MODULE PipelineProofs ---------------------------
(***************************************************************************)
(* Proofs about the three threads of Pipeline, for rings of every size.    *)
(* IInv is inductive: TypeStep, ContiguousStep, ScanFilledStep,            *)
(* WoFilledStep, StartupStep, ScanStep, WoStep and ContentStep each        *)
(* preserve one part of it, with the parts it leans on as hypotheses.      *)
(* ScanType and WoType are the facts of TypeOK those lemmas need.          *)
(***************************************************************************)
EXTENDS Pipeline, SequenceTheorems, TLAPS

-----------------------------------------------------------------------------
(* The inductive invariant *)

One(b) == IF b THEN 1 ELSE 0

\* the frame in the slot being filled has its id but is not in frame_Q yet
Fresh == One(fpc \in {"enqueue", "send"})

Filling   == fpc \in {"copy", "enqueue", "send"}
Examining == ppc \in {"compare", "select", "copy"}
Selecting == ppc \in {"select", "copy", "enqueue", "send"}
WoFilling == ppc \in {"copy", "enqueue", "send"}

\* id of the oldest frame in frame_Q, or of the next to enter it
HeadId == frame_id_g - Fresh - Len(frame_Q)

\* what ids a slot that counts can hold, overrun or not
Captured == {Mixed} \cup 0 .. frame_id_g - 1

\* Slots that were never filled are never read: in the scan ring,
ScanFilled ==
    /\ \A s \in ScanSlots : scan_buffer[s] \in Captured \cup {None}
    /\ \A k \in 1 .. Len(frame_Q) : scan_buffer[frame_Q[k]] # None
    /\ Filling => scan_buffer[scan_buffer_index] # None
    /\ Fresh = 1 => scan_buffer[scan_buffer_index] = frame_id_g - 1
    /\ Examining => scan_buffer[current_index] # None

\* and in the write-out ring.
WoFilled ==
    /\ \A s \in WoSlots : wo_buffers[s] \in Captured \cup {None}
    /\ \A k \in 1 .. Len(writeout_Q) : wo_buffers[writeout_Q[k]] # None
    /\ WoFilling => wo_buffers[wo_buffer_index] # None
    /\ wpc = "write" => wo_buffers[wo_index] # None
    /\ written_id \in Captured \cup {None}

\* While starting up nothing is selected.
StartupInv ==
    /\ ppc = "compare" => is_startup = 1
    /\ Selecting => is_startup = 0
    /\ is_startup = 0 \/ Examining => last_buffer_index # None
    /\ ppc = "start" => last_buffer_index = None
    /\ is_startup = 1 =>
         /\ writeout_Q = <<>> /\ wpc # "write" /\ written_id = None
         /\ total_frames_selected_g = 0 /\ total_frames_written_g = 0

\* how far behind scan_buffer_index the slot last_buffer_index lies
LastDistance == Len(frame_Q) + One(ppc = "compare") + 1

\* frame() fills a slot only while the queue has an entry for it.
RoomInv ==
    /\ Filling => Len(frame_Q) < SCAN_BUF_SIZE
    /\ frame_Q_count + One(ppc = "receive") <= Len(frame_Q) + One(fpc = "send")

\* A frame that is kept for comparison has left frame_Q.
TakenInv == HeadId >= 0 /\ (last_buffer_index # None => HeadId >= 1)

\* The slots named in frame_Q hold consecutive frames.
QueuedInv ==
    \A k \in 1 .. Len(frame_Q) : scan_buffer[frame_Q[k]] = HeadId + k - 1

\* The slot processing() examines is the one just before those of frame_Q.
ExaminedInv ==
    Examining =>
      /\ Len(frame_Q) + One(Filling) < SCAN_BUF_SIZE
      /\ current_index = Back(scan_buffer_index, Len(frame_Q) + 1, SCAN_BUF_SIZE)
      /\ scan_buffer[current_index] = HeadId - 1

\* And the slot it compares with lies one further back, or took its place.
ComparedInv ==
    is_startup = 1 /\ last_buffer_index # None =>
      /\ LastDistance + One(Filling) <= SCAN_BUF_SIZE
      /\ last_buffer_index = Back(scan_buffer_index, LastDistance, SCAN_BUF_SIZE)

ScanInv == overrun = 0 => RoomInv /\ TakenInv /\ QueuedInv /\ ExaminedInv /\ ComparedInv

\* The same for the write-out ring: room while a slot is filled,
WoRoomInv ==
    /\ WoFilling => Len(writeout_Q) < NUM_WO_BUF
    /\ writeout_Q_count + One(wpc = "receive") <= Len(writeout_Q) + One(ppc = "send")

\* the slots named in writeout_Q, oldest last,
WoQueueContiguous ==
    \A k \in 1 .. Len(writeout_Q) :
        writeout_Q[k] = Back(wo_buffer_index, Len(writeout_Q) - k + 1, NUM_WO_BUF)

\* and the slot writeout() reads just before them.
WritingInv ==
    wpc = "write" =>
      /\ Len(writeout_Q) + One(WoFilling) < NUM_WO_BUF
      /\ wo_index = Back(wo_buffer_index, Len(writeout_Q) + 1, NUM_WO_BUF)

WoInv == wo_overrun = 0 => WoRoomInv /\ WoQueueContiguous /\ WritingInv /\ SelectedAccounted

\* the newest picture on its way to flash, and the one before writeout_Q[1]
BeforeHead == IF wpc = "write" THEN wo_buffers[wo_index] ELSE written_id
Newest     == IF writeout_Q = <<>> THEN BeforeHead
                                   ELSE wo_buffers[writeout_Q[Len(writeout_Q)]]

\* The picture being written, and those waiting behind it, follow each other
\* MOTION_FRAMES_SEC frames apart.
WritingContent ==
    wpc = "write" =>
      /\ wo_buffers[wo_index] \in 0 .. frame_id_g - 1
      /\ written_id = None \/ wo_buffers[wo_index] = written_id + MOTION_FRAMES_SEC

WaitingAt(k) ==
    /\ wo_buffers[writeout_Q[k]] \in 0 .. frame_id_g - 1
    /\ k = 1 => \/ BeforeHead = None
                \/ wo_buffers[writeout_Q[k]] = BeforeHead + MOTION_FRAMES_SEC
    /\ k > 1 => wo_buffers[writeout_Q[k]] = wo_buffers[writeout_Q[k-1]] + MOTION_FRAMES_SEC

WaitingContent == \A k \in 1 .. Len(writeout_Q) : WaitingAt(k)

\* num_frames_till_selection counts on from the newest of them,
CountInv ==
    is_startup = 0 /\ Newest # None =>
      /\ ppc \in {"outer", "inner", "receive"} =>
           HeadId - 1 = Newest + num_frames_till_selection
      /\ Selecting => HeadId - 1 = Newest + MOTION_FRAMES_SEC

\* and the slot just filled holds the frame taken last.
SelectedContent == ppc \in {"enqueue", "send"} => wo_buffers[wo_buffer_index] = HeadId - 1

ContentInv == overrun = 0 /\ wo_overrun = 0 =>
                WritingContent /\ WaitingContent /\ CountInv /\ SelectedContent

IInv == /\ TypeOK /\ FrameQueueContiguous /\ ScanFilled /\ WoFilled /\ StartupInv
        /\ ScanInv /\ WoInv /\ ContentInv

-----------------------------------------------------------------------------
(* Proofs *)

\* What a receive does to the entries of a queue.
LEMMA TailFacts ==
    ASSUME NEW S, NEW q \in Seq(S), q # <<>>
    PROVE  /\ Tail(q) \in Seq(S)
           /\ Len(q) >= 1
           /\ Len(Tail(q)) = Len(q) - 1
           /\ Head(q) = q[1] /\ q[1] \in S
           /\ \A k \in 1 .. Len(q) - 1 : Tail(q)[k] = q[k + 1]
OBVIOUS

\* The slot k places behind i: a slot of the ring, one further back once the ring
\* has advanced, and i itself only for no place or the whole ring.
LEMMA BackFacts ==
    ASSUME NEW n \in Nat, n >= 1, NEW i \in 0 .. n - 1, NEW k \in 0 .. n
    PROVE  /\ Back(i, k, n) \in 0 .. n - 1
           /\ Advance(i, n) \in 0 .. n - 1
           /\ k + 1 <= n => Back(Advance(i, n), k + 1, n) = Back(i, k, n)
           /\ Back(i, k, n) = i <=> k \in {0, n}
BY SMT DEF Back, Advance

\* A ring index stays in its ring.
LEMMA AdvanceType == /\ \A i \in ScanSlots : Advance(i, SCAN_BUF_SIZE) \in ScanSlots
                     /\ \A i \in WoSlots : Advance(i, NUM_WO_BUF) \in WoSlots
BY PipelineAssumption DEF ScanSlots, WoSlots, Advance

\* The threads start in their types.
LEMMA TypeInit == Init => TypeOK
BY PipelineAssumption DEF Init, TypeOK, ScanSlots, WoSlots, None

\* Every step of every thread keeps the types.
LEMMA TypeStep == TypeOK /\ [Next]_vars => TypeOK'
<1> SUFFICES ASSUME TypeOK, [Next]_vars PROVE TypeOK'
  OBVIOUS
<1> USE PipelineAssumption DEF TypeOK, None, Mixed
<1> USE DEF frameVars, frameQVars, procVars, writeQVars, writeVars, historyVars
<1>1. CASE FrameLoop BY <1>1 DEF FrameLoop
<1>2. CASE FrameFails BY <1>2 DEF FrameFails
<1>3. CASE FrameCopyBegin BY <1>3 DEF FrameCopyBegin
<1>4. CASE FrameCopyEnd BY <1>4 DEF FrameCopyEnd
<1>5. CASE FrameEnqueue BY <1>5 DEF FrameEnqueue
<1>6. CASE FrameSend
  <2>1. /\ Append(frame_Q, scan_buffer_index) \in Seq(ScanSlots)
        /\ Len(Append(frame_Q, scan_buffer_index)) <= SCAN_BUF_SIZE
    BY <1>6, AppendProperties DEF FrameSend
  <2>2. Advance(scan_buffer_index, SCAN_BUF_SIZE) \in ScanSlots
    BY AdvanceType
  <2>3. /\ fpc' \in {"top", "done"} /\ running' \in {0, running}
        /\ total_frames_queued_g' \in {total_frames_queued_g, total_frames_queued_g + 1}
        /\ frame_Q' = Append(frame_Q, scan_buffer_index)
        /\ scan_buffer_index' = Advance(scan_buffer_index, SCAN_BUF_SIZE)
        /\ UNCHANGED <<scan_buffer, frame_id_g, frame_Q_count, procVars, writeQVars, writeVars,
                       historyVars>>
    BY <1>6 DEF FrameSend
  <2> QED
    BY <2>1, <2>2, <2>3
<1>7. CASE FrameSendFails BY <1>7 DEF FrameSendFails
<1>8. CASE ProcStart BY <1>8 DEF ProcStart
<1>9. CASE ProcStop BY <1>9 DEF ProcStop
<1>10. CASE ProcDequeue BY <1>10 DEF ProcDequeue
<1>11. CASE ProcReceive
  <2>1. /\ Head(frame_Q) \in ScanSlots /\ Tail(frame_Q) \in Seq(ScanSlots)
        /\ Len(Tail(frame_Q)) <= SCAN_BUF_SIZE
    BY <1>11, TailFacts DEF ProcReceive
  <2>2. /\ ppc' \in {"outer", "compare", "select", "inner"}
        /\ frame_Q' = Tail(frame_Q) /\ current_index' = Head(frame_Q)
        /\ last_buffer_index' \in {last_buffer_index, Head(frame_Q)}
        /\ num_frames_till_selection' \in {0, num_frames_till_selection + 1}
        /\ UNCHANGED <<running, frameVars, is_startup, frame_Q_count, wo_buffers, wo_buffer_index,
                       total_frames_selected_g, writeQVars, writeVars, historyVars>>
    BY <1>11 DEF ProcReceive
  <2>3. last_buffer_index \in ScanSlots \cup {None} /\ num_frames_till_selection \in Nat
    OBVIOUS
  <2> HIDE DEF TypeOK
  <2>4. /\ current_index' \in ScanSlots /\ last_buffer_index' \in ScanSlots \cup {None}
        /\ num_frames_till_selection' \in Nat
    BY <2>1, <2>2, <2>3
  <2> QED
    BY <2>1, <2>2, <2>4 DEF TypeOK
<1>12. CASE ProcReceiveFails BY <1>12 DEF ProcReceiveFails
<1>13. CASE ProcCompare BY <1>13 DEF ProcCompare
<1>14. CASE ProcCopyBegin BY <1>14 DEF ProcCopyBegin
<1>15. CASE ProcCopyEnd BY <1>15 DEF ProcCopyEnd
<1>16. CASE ProcEnqueue BY <1>16 DEF ProcEnqueue
<1>17. CASE ProcEnqueueFull BY <1>17, AdvanceType DEF ProcEnqueueFull, Selected
<1>18. CASE ProcSend BY <1>18, AdvanceType DEF ProcSend, Selected
<1>19. CASE ProcSendFails BY <1>19, AdvanceType DEF ProcSendFails, Selected
<1>20. CASE WriteStart BY <1>20 DEF WriteStart
<1>21. CASE WriteStop BY <1>21 DEF WriteStop
<1>22. CASE WriteDequeue BY <1>22 DEF WriteDequeue
<1>23. CASE WriteReceive
  <2>1. /\ Head(writeout_Q) \in WoSlots /\ Tail(writeout_Q) \in Seq(WoSlots)
        /\ Len(Tail(writeout_Q)) <= NUM_WO_BUF
    BY <1>23, TailFacts DEF WriteReceive
  <2> QED
    BY <1>23, <2>1 DEF WriteReceive
<1>24. CASE WriteReceiveFails BY <1>24 DEF WriteReceiveFails
<1>25. CASE WriteFile BY <1>25 DEF WriteFile
<1>26. CASE StopRequested BY <1>26 DEF StopRequested
<1>27. CASE UNCHANGED vars BY <1>27 DEF vars
<1> QED
  BY <1>1, <1>2, <1>3, <1>4, <1>5, <1>6, <1>7, <1>8, <1>9, <1>10, <1>11,
     <1>12, <1>13, <1>14, <1>15, <1>16, <1>17, <1>18, <1>19, <1>20, <1>21,
     <1>22, <1>23, <1>24, <1>25, <1>26, <1>27 DEF Next, FrameNext, ProcNext,
     WriteNext

\* Fewer than n places back is another slot, n places back is the same one.
LEMMA BackDiffers ==
    ASSUME NEW n \in Nat, NEW i \in 0 .. n - 1, NEW k \in 1 .. n - 1
    PROVE  Back(i, k, n) # i /\ Back(i, n, n) = i
BY DEF Back

\* the types the lemmas on the scan ring need
ScanType == /\ scan_buffer \in [ScanSlots -> Int]
    /\ scan_buffer_index \in ScanSlots
    /\ frame_id_g \in Nat
    /\ frame_Q \in Seq(ScanSlots) /\ Len(frame_Q) <= SCAN_BUF_SIZE
    /\ Len(frame_Q) \in Nat
    /\ frame_Q_count \in Int
    /\ current_index \in ScanSlots
    /\ last_buffer_index \in ScanSlots \cup {None}
    /\ is_startup \in {0, 1} /\ overrun \in {0, 1}

\* The queue of indexes stays a run of consecutive slots: a send adds the slot
\* frame() leaves, a receive takes the oldest one.
LEMMA ContiguousStep ==
    ScanType /\ FrameQueueContiguous /\ [Next]_vars => FrameQueueContiguous'
<1> SUFFICES ASSUME ScanType, FrameQueueContiguous, [Next]_vars
             PROVE  FrameQueueContiguous'
  OBVIOUS
<1> USE PipelineAssumption
<1> USE DEF frameVars, frameQVars, procVars, writeQVars, writeVars, historyVars
<1>1. CASE FrameSend
  <2>1. /\ frame_Q' = Append(frame_Q, scan_buffer_index)
        /\ scan_buffer_index' = Advance(scan_buffer_index, SCAN_BUF_SIZE)
        /\ Len(frame_Q) < SCAN_BUF_SIZE
    BY <1>1 DEF FrameSend
  <2>2. /\ Len(frame_Q') = Len(frame_Q) + 1
        /\ \A k \in 1 .. Len(frame_Q) : frame_Q'[k] = frame_Q[k]
        /\ frame_Q'[Len(frame_Q) + 1] = scan_buffer_index
    BY <2>1, AppendProperties DEF ScanType
  <2>3. \A k \in 0 .. SCAN_BUF_SIZE - 1 :
           Back(scan_buffer_index', k + 1, SCAN_BUF_SIZE) = Back(scan_buffer_index, k, SCAN_BUF_SIZE)
    BY <2>1, BackFacts DEF ScanType, ScanSlots
  <2>4. ASSUME NEW k \in 1 .. Len(frame_Q)
        PROVE  frame_Q'[k] = Back(scan_buffer_index', Len(frame_Q') - k + 1, SCAN_BUF_SIZE)
    <3>1. Len(frame_Q) - k + 1 \in 0 .. SCAN_BUF_SIZE - 1
      BY <2>1 DEF ScanType
    <3>2. Len(frame_Q') - k + 1 = (Len(frame_Q) - k + 1) + 1
      BY <2>2 DEF ScanType
    <3> QED
      BY <2>2, <2>3, <3>1, <3>2 DEF FrameQueueContiguous
  <2>5. Back(scan_buffer_index', 1, SCAN_BUF_SIZE) = scan_buffer_index
    <3>1. Back(scan_buffer_index, 0, SCAN_BUF_SIZE) = scan_buffer_index
      BY DEF Back, ScanType, ScanSlots
    <3>2. Back(scan_buffer_index', 0 + 1, SCAN_BUF_SIZE) = Back(scan_buffer_index, 0, SCAN_BUF_SIZE)
      BY <2>3
    <3> QED
      BY <3>1, <3>2
  <2>6. \A k \in 1 .. Len(frame_Q') : k \in 1 .. Len(frame_Q) \/ k = Len(frame_Q) + 1
    BY <2>2 DEF ScanType
  <2>7. frame_Q'[Len(frame_Q) + 1] =
          Back(scan_buffer_index', Len(frame_Q') - (Len(frame_Q) + 1) + 1, SCAN_BUF_SIZE)
    <3>1. Len(frame_Q') - (Len(frame_Q) + 1) + 1 = 1
      BY <2>2 DEF ScanType
    <3> QED
      BY <2>2, <2>5, <3>1
  <2> QED
    BY <2>4, <2>6, <2>7 DEF FrameQueueContiguous
<1>2. CASE ProcReceive
  <2>1. frame_Q # <<>> /\ frame_Q' = Tail(frame_Q) /\ scan_buffer_index' = scan_buffer_index
    BY <1>2 DEF ProcReceive
  <2>2. /\ Len(frame_Q') = Len(frame_Q) - 1
        /\ \A k \in 1 .. Len(frame_Q) - 1 : frame_Q'[k] = frame_Q[k + 1]
    BY <2>1, TailFacts DEF ScanType
  <2>3. ASSUME NEW k \in 1 .. Len(frame_Q')
        PROVE  frame_Q'[k] = Back(scan_buffer_index, Len(frame_Q') - k + 1, SCAN_BUF_SIZE)
    <3>1. k + 1 \in 1 .. Len(frame_Q) /\ Len(frame_Q) - (k + 1) + 1 = Len(frame_Q') - k + 1
      BY <2>2 DEF ScanType
    <3> QED
      BY <2>2, <3>1 DEF FrameQueueContiguous, ScanType
  <2> QED
    BY <2>1, <2>3 DEF FrameQueueContiguous
<1>3. CASE UNCHANGED <<frame_Q, scan_buffer_index>>
  BY <1>3 DEF FrameQueueContiguous
<1> QED
  BY <1>1, <1>2, <1>3 DEF Next, FrameNext, ProcNext, WriteNext, FrameLoop, FrameFails,
     FrameCopyBegin, FrameCopyEnd, FrameEnqueue, FrameSendFails, ProcStart, ProcStop,
     ProcDequeue, ProcReceiveFails, ProcCompare, ProcCopyBegin, ProcCopyEnd,
     ProcEnqueue, ProcEnqueueFull, ProcSend, ProcSendFails, WriteStart, WriteStop,
     WriteDequeue, WriteReceive, WriteReceiveFails, WriteFile, StopRequested, vars

\* The use of the scan ring before its first overrun is preserved.
LEMMA ScanStep == 
    ScanType /\ FrameQueueContiguous /\ ScanFilled /\ StartupInv /\ ScanInv /\ [Next]_vars => ScanInv'
<1> SUFFICES ASSUME ScanType, FrameQueueContiguous, ScanFilled, StartupInv, ScanInv, [Next]_vars,
                    overrun' = 0
             PROVE  RoomInv' /\ TakenInv' /\ QueuedInv' /\ ExaminedInv' /\ ComparedInv'
  BY DEF ScanInv
<1>h. HeadId \in Int
  BY DEF HeadId, Fresh, One, ScanType
<1>0. overrun = 0
  <2> USE DEF frameVars, frameQVars, procVars, writeQVars, writeVars, historyVars, ScanType
  <2>1. CASE FrameCopyBegin
    BY <2>1 DEF FrameCopyBegin
  <2>2. CASE UNCHANGED overrun
    BY <2>2
  <2> QED
   BY <2>1, <2>2 DEF Next, FrameNext, ProcNext, WriteNext, FrameLoop, FrameFails,
     FrameCopyEnd, FrameEnqueue, FrameSend, FrameSendFails, ProcStart, ProcStop,
     ProcDequeue, ProcReceive, ProcReceiveFails, ProcCompare, ProcCopyBegin, ProcCopyEnd,
     ProcEnqueue, ProcEnqueueFull, ProcSend, ProcSendFails, WriteStart, WriteStop,
     WriteDequeue, WriteReceive, WriteReceiveFails, WriteFile, StopRequested, vars
<1> USE <1>0, <1>h, PipelineAssumption DEF None, One, Examining, Filling, LastDistance, ScanInv
<1> USE DEF frameVars, frameQVars, procVars, writeQVars, writeVars, historyVars
<1>1. CASE FrameCopyBegin
  <2>1. /\ fpc = "wait" /\ fpc' = "copy" /\ scan_buffer_index \notin ScanInUse
        /\ scan_buffer' = [scan_buffer EXCEPT ![scan_buffer_index] = Mixed]
        /\ UNCHANGED <<scan_buffer_index, frame_id_g, frame_Q, frame_Q_count, ppc, current_index, last_buffer_index, is_startup>>
    BY <1>1 DEF FrameCopyBegin
  <2>2. \A k \in 1 .. Len(frame_Q) : frame_Q[k] \in ScanSlots /\ frame_Q[k] # scan_buffer_index
    BY <2>1 DEF ScanInUse, ScanType
  <2>3. Len(frame_Q) < SCAN_BUF_SIZE
    <3>1. Back(scan_buffer_index, SCAN_BUF_SIZE, SCAN_BUF_SIZE) = scan_buffer_index
      BY DEF Back, ScanType, ScanSlots
    <3>2. Len(frame_Q) = SCAN_BUF_SIZE => frame_Q[1] = scan_buffer_index
      BY <3>1 DEF ScanType, FrameQueueContiguous
    <3> QED
      BY <2>2, <3>2 DEF ScanType
  <2>4. RoomInv'
    BY <2>1, <2>3 DEF RoomInv
  <2>h. HeadId' = HeadId
    BY <2>1 DEF HeadId, Fresh, ScanType
  <2>t. TakenInv'
    BY <2>h, <2>1 DEF TakenInv
  <2>5. QueuedInv'
    BY <2>h, <2>1, <2>2 DEF QueuedInv, ScanType
  <2>6. ExaminedInv'
    BY <2>h, <2>1 DEF ExaminedInv, ScanType, ScanInUse, Back, ScanSlots
  <2>7. ComparedInv'
    BY <2>1 DEF ComparedInv, ScanType, ScanInUse, Back, ScanSlots
  <2> QED BY <2>t, <2>4, <2>5, <2>6, <2>7
<1>2. CASE FrameCopyEnd
  <2>1. /\ fpc = "copy" /\ fpc' = "enqueue" 
        /\ scan_buffer' = [scan_buffer EXCEPT ![scan_buffer_index] = frame_id_g]
        /\ frame_id_g' = frame_id_g + 1
        /\ UNCHANGED <<scan_buffer_index, frame_Q, frame_Q_count, ppc, current_index, last_buffer_index, is_startup>>
    BY <1>2 DEF FrameCopyEnd
  <2>2. \A k \in 1 .. Len(frame_Q) : frame_Q[k] \in ScanSlots /\ frame_Q[k] # scan_buffer_index
    <3> SUFFICES ASSUME NEW k \in 1 .. Len(frame_Q)
                 PROVE  frame_Q[k] \in ScanSlots /\ frame_Q[k] # scan_buffer_index
      OBVIOUS
    <3>1. Len(frame_Q) - k + 1 \in 1 .. SCAN_BUF_SIZE - 1
      BY <2>1 DEF ScanType, RoomInv
    <3>2. /\ frame_Q[k] \in ScanSlots
          /\ frame_Q[k] = Back(scan_buffer_index, Len(frame_Q) - k + 1, SCAN_BUF_SIZE)
      BY DEF ScanType, FrameQueueContiguous
    <3>3. SCAN_BUF_SIZE \in Nat /\ scan_buffer_index \in 0 .. SCAN_BUF_SIZE - 1
      BY DEF ScanType, ScanSlots
    <3>4. Back(scan_buffer_index, Len(frame_Q) - k + 1, SCAN_BUF_SIZE) # scan_buffer_index
      BY <3>1, <3>3, BackDiffers
    <3> QED
      BY <3>2, <3>4
  <2>4. RoomInv'
    BY <2>1 DEF RoomInv
  <2>h. HeadId' = HeadId
    BY <2>1 DEF HeadId, Fresh, ScanType
  <2>t. TakenInv'
    BY <2>h, <2>1 DEF TakenInv, ScanType
  <2>5. QueuedInv'
    BY <2>h, <2>1, <2>2 DEF QueuedInv, ScanType
  <2>6. ExaminedInv'
    <3> SUFFICES ASSUME Examining
                 PROVE  /\ Len(frame_Q) + 1 < SCAN_BUF_SIZE
                        /\ current_index = Back(scan_buffer_index, Len(frame_Q) + 1, SCAN_BUF_SIZE)
                        /\ scan_buffer'[current_index] = HeadId - 1
      BY <2>h, <2>1 DEF ExaminedInv
    <3>1. /\ Len(frame_Q) + 1 < SCAN_BUF_SIZE
          /\ current_index = Back(scan_buffer_index, Len(frame_Q) + 1, SCAN_BUF_SIZE)
          /\ scan_buffer[current_index] = HeadId - 1
      BY <2>1 DEF ExaminedInv
    <3>2. /\ SCAN_BUF_SIZE \in Nat /\ scan_buffer_index \in 0 .. SCAN_BUF_SIZE - 1
          /\ Len(frame_Q) + 1 \in 1 .. SCAN_BUF_SIZE - 1
      BY <3>1 DEF ScanType, ScanSlots
    <3>3. current_index # scan_buffer_index
      BY <3>1, <3>2, BackDiffers
    <3> QED
      BY <2>1, <3>1, <3>3 DEF ScanType
  <2>7. ComparedInv'
    BY <2>1 DEF ComparedInv
  <2> QED BY <2>t, <2>4, <2>5, <2>6, <2>7
<1>3. CASE FrameEnqueue
  <2>1. /\ fpc = "enqueue" /\ fpc' \in {"send", "done"} 
        /\ frame_Q_count = SCAN_BUF_SIZE => fpc' = "done"
        /\ fpc' = "done" => frame_Q_count' = frame_Q_count /\ frame_Q_count = SCAN_BUF_SIZE
        /\ fpc' = "send" => frame_Q_count' = frame_Q_count + 1
        /\ UNCHANGED <<scan_buffer_index, frame_id_g, scan_buffer, frame_Q, ppc, current_index, last_buffer_index, is_startup>>
    BY <1>3 DEF FrameEnqueue
  <2>2. fpc' = "send"
    BY <2>1 DEF RoomInv, ScanType
  <2>4. RoomInv'
    BY <2>1, <2>2 DEF RoomInv, ScanType
  <2>h. HeadId' = HeadId
    BY <2>1, <2>2 DEF HeadId, Fresh, ScanType
  <2>t. TakenInv'
    BY <2>h, <2>1, <2>2 DEF TakenInv
  <2>5. QueuedInv'
    BY <2>h, <2>1, <2>2 DEF QueuedInv
  <2>6. ExaminedInv'
    BY <2>h, <2>1, <2>2 DEF ExaminedInv
  <2>7. ComparedInv'
    BY <2>1, <2>2 DEF ComparedInv
  <2> QED BY <2>t, <2>4, <2>5, <2>6, <2>7
<1>4. CASE FrameSend
  <2>1. /\ fpc = "send" /\ fpc' \in {"top", "done"}
        /\ frame_Q' = Append(frame_Q, scan_buffer_index)
        /\ scan_buffer_index' = Advance(scan_buffer_index, SCAN_BUF_SIZE)
        /\ UNCHANGED <<scan_buffer, frame_id_g, frame_Q_count, ppc, current_index, last_buffer_index, is_startup>>
    BY <1>4 DEF FrameSend
  <2>2. /\ Len(frame_Q') = Len(frame_Q) + 1
        /\ \A k \in 1 .. Len(frame_Q) : frame_Q'[k] = frame_Q[k]
        /\ frame_Q'[Len(frame_Q) + 1] = scan_buffer_index
    BY <2>1, AppendProperties DEF ScanType
  <2>3. scan_buffer[scan_buffer_index] = frame_id_g - 1
    BY <2>1 DEF ScanFilled, Fresh
  <2>4. HeadId' = HeadId /\ HeadId + Len(frame_Q) = frame_id_g - 1
    BY <2>1, <2>2 DEF ScanType, HeadId, Fresh
  <2>5. RoomInv'
    BY <2>1, <2>2 DEF RoomInv, ScanType
  <2>t. TakenInv'
    BY <2>1, <2>4 DEF TakenInv
  <2>6. QueuedInv'
    <3>1. \A k \in 1 .. Len(frame_Q) : scan_buffer'[frame_Q'[k]] = HeadId' + k - 1
      BY <2>1, <2>2, <2>4 DEF QueuedInv
    <3>2. scan_buffer'[frame_Q'[Len(frame_Q) + 1]] = HeadId' + (Len(frame_Q) + 1) - 1
      BY <2>1, <2>2, <2>3, <2>4 DEF ScanType
    <3>3. \A k \in 1 .. Len(frame_Q') : k \in 1 .. Len(frame_Q) \/ k = Len(frame_Q) + 1
      BY <2>2 DEF ScanType
    <3> QED
      BY <3>1, <3>2, <3>3 DEF QueuedInv
  <2>7. \A k \in 1 .. SCAN_BUF_SIZE - 1 :
           Back(scan_buffer_index', k + 1, SCAN_BUF_SIZE) = Back(scan_buffer_index, k, SCAN_BUF_SIZE)
    BY <2>1, BackFacts DEF ScanType, ScanSlots
  <2>8. ExaminedInv'
    BY <2>1, <2>2, <2>4, <2>7 DEF ExaminedInv, ScanType
  <2>9. ComparedInv'
    BY <2>1, <2>2, <2>7 DEF ComparedInv, ScanType
  <2> QED
    BY <2>t, <2>5, <2>6, <2>8, <2>9
<1>5. CASE FrameSendFails
  BY <1>5 DEF FrameSendFails, RoomInv, ScanType, HeadId, Fresh
<1>6. CASE ProcReceive
  <2>1. /\ ppc = "receive" /\ ppc' \in {"outer", "compare", "select", "inner"}
        /\ frame_Q # <<>>
        /\ frame_Q' = Tail(frame_Q)
        /\ current_index' = Head(frame_Q)
        /\ \/ last_buffer_index' = current_index' /\ ppc' \in {"outer", "inner"}
           \/ last_buffer_index' = last_buffer_index /\ last_buffer_index # None /\ ppc' \in {"compare", "select"}
        /\ is_startup = 1 /\ last_buffer_index # None => ppc' = "compare"
        /\ ppc' = "compare" => is_startup = 1
        /\ UNCHANGED <<scan_buffer, fpc, frame_id_g, scan_buffer_index, frame_Q_count, is_startup>>
    BY <1>6 DEF ProcReceive
  <2>2. /\ Len(frame_Q) >= 1
        /\ Len(frame_Q') = Len(frame_Q) - 1
        /\ current_index' = frame_Q[1] /\ frame_Q[1] \in ScanSlots
        /\ \A k \in 1 .. Len(frame_Q) - 1 : frame_Q'[k] = frame_Q[k + 1]
    BY <2>1, TailFacts DEF ScanType
  <2>3. HeadId' = HeadId + 1
    BY <2>1, <2>2 DEF ScanType, HeadId, Fresh
  <2>31. HeadId >= 0
    BY DEF TakenInv
  <2>4. /\ current_index' = Back(scan_buffer_index, Len(frame_Q), SCAN_BUF_SIZE)
        /\ scan_buffer[current_index'] = HeadId
    BY <2>2, <2>3 DEF FrameQueueContiguous, QueuedInv, ScanType
  <2>5. RoomInv'
    BY <2>1, <2>2 DEF RoomInv, ScanType
  <2>t. TakenInv'
    BY <2>1, <2>3, <2>31 DEF TakenInv
  <2>6. QueuedInv'
    BY <2>1, <2>2, <2>3 DEF QueuedInv, ScanType
  <2>7. ExaminedInv'
    BY <2>1, <2>2, <2>3, <2>4 DEF ExaminedInv, RoomInv, ScanType
  <2>8. ComparedInv'
    <3>1. CASE ppc' \in {"outer", "inner"}
      <4>0. One(ppc' = "compare") = 0
        BY <3>1
      <4>1. LastDistance' = Len(frame_Q)
        BY <2>2, <4>0 DEF ScanType
      <4>2. LastDistance' + One(Filling') <= SCAN_BUF_SIZE
        <5>1. Filling' => Len(frame_Q) < SCAN_BUF_SIZE
          BY <2>1 DEF RoomInv
        <5> HIDE DEF LastDistance, Filling
        <5> QED
          BY <4>1, <5>1 DEF ScanType
      <4>3. last_buffer_index' = Back(scan_buffer_index', Len(frame_Q), SCAN_BUF_SIZE)
        BY <2>1, <2>4, <3>1
      <4> HIDE DEF LastDistance, One
      <4> QED
        BY <4>1, <4>2, <4>3 DEF ComparedInv
    <3>2. CASE ppc' = "compare"
      BY <2>1, <2>2, <3>2 DEF ComparedInv, ScanType
    <3>3. CASE ppc' = "select"
      BY <2>1, <3>3 DEF ComparedInv
    <3> QED
      BY <2>1, <3>1, <3>2, <3>3
  <2> QED
    BY <2>t, <2>5, <2>6, <2>7, <2>8
<1>7. CASE ProcCompare
  <2>1. /\ ppc = "compare" /\ ppc' \in {"outer", "inner", "frozen"}
        /\ last_buffer_index' = current_index
        /\ UNCHANGED <<scan_buffer, fpc, frame_id_g, scan_buffer_index, frame_Q, frame_Q_count, current_index>>
        /\ is_startup' = 1 => is_startup = 1
    BY <1>7 DEF ProcCompare
  <2>5. RoomInv'
    BY <2>1 DEF RoomInv, ScanType
  <2>h. HeadId' = HeadId
    BY <2>1 DEF HeadId, Fresh, ScanType
  <2>t. TakenInv'
    BY <2>h, <2>1 DEF TakenInv, StartupInv
  <2>6. QueuedInv'
    BY <2>h, <2>1 DEF QueuedInv, StartupInv
  <2>7. ExaminedInv'
    BY <2>h, <2>1 DEF ExaminedInv
  <2>8. ComparedInv'
    <3>1. LastDistance' = Len(frame_Q) + 1
      BY <2>1 DEF ScanType
    <3>2. LastDistance' + One(Filling') <= SCAN_BUF_SIZE
      <4>1. Len(frame_Q) + One(Filling') < SCAN_BUF_SIZE
        BY <2>1 DEF ExaminedInv
      <4> HIDE DEF LastDistance, Filling
      <4> QED
        BY <3>1, <4>1 DEF ScanType
    <3>3. last_buffer_index' = Back(scan_buffer_index', Len(frame_Q) + 1, SCAN_BUF_SIZE)
      BY <2>1 DEF ExaminedInv
    <3> HIDE DEF LastDistance, One
    <3> QED
      BY <3>1, <3>2, <3>3 DEF ComparedInv
  <2> QED
    BY <2>t, <2>5, <2>6, <2>7, <2>8
<1>8. ASSUME UNCHANGED <<scan_buffer, fpc, frame_id_g, scan_buffer_index, frame_Q, current_index, is_startup>>,
             \/ frame_Q_count' = frame_Q_count /\ (ppc' = "receive" <=> ppc = "receive")
             \/ frame_Q_count' = frame_Q_count - 1 /\ ppc' = "receive" /\ ppc # "receive"
             \/ frame_Q_count' = frame_Q_count /\ ppc = "receive" /\ ppc' # "receive",
             Examining' => Examining,
             ppc' = "compare" <=> ppc = "compare",
             is_startup = 1 => last_buffer_index' = last_buffer_index,
             last_buffer_index' # None => last_buffer_index # None
      PROVE  RoomInv' /\ TakenInv' /\ QueuedInv' /\ ExaminedInv' /\ ComparedInv'
  <2>5. RoomInv'
    BY <1>8 DEF RoomInv, ScanType
  <2>h. HeadId' = HeadId
    BY <1>8 DEF HeadId, Fresh, ScanType
  <2>t. TakenInv'
    BY <2>h, <1>8 DEF TakenInv
  <2>6. QueuedInv'
    BY <2>h, <1>8 DEF QueuedInv, StartupInv
  <2>7. ExaminedInv'
    BY <2>h, <1>8 DEF ExaminedInv
  <2>8. ComparedInv'
    BY <1>8 DEF ComparedInv
  <2> QED
    BY <2>t, <2>5, <2>6, <2>7, <2>8
<1>9. CASE ProcStart \/ ProcStop \/ ProcDequeue \/ ProcReceiveFails
  BY <1>8, <1>9 DEF ProcStart, ProcStop, ProcDequeue, ProcReceiveFails
<1>10. CASE ProcCopyBegin \/ ProcCopyEnd \/ ProcEnqueue
  BY <1>8, <1>10 DEF ProcCopyBegin, ProcCopyEnd, ProcEnqueue
<1>11. CASE ProcEnqueueFull \/ ProcSend \/ ProcSendFails
  <2>1. is_startup = 0 /\ last_buffer_index # None
     BY <1>11 DEF ProcEnqueueFull, ProcSend, ProcSendFails, StartupInv, Selecting
  <2> QED
   BY <1>8, <1>11, <2>1 DEF ProcEnqueueFull, ProcSend, ProcSendFails, Selected
<1>12. CASE WriteNext \/ StopRequested \/ UNCHANGED vars
  BY <1>8, <1>12 DEF WriteNext, WriteStart, WriteStop, WriteDequeue, WriteReceive,
     WriteReceiveFails, WriteFile, StopRequested, vars
<1>13. CASE FrameLoop \/ FrameFails
  BY <1>13 DEF FrameLoop, FrameFails, RoomInv, TakenInv, QueuedInv, ExaminedInv, ComparedInv, HeadId, Fresh
<1> QED
  BY <1>1, <1>2, <1>3, <1>4, <1>5, <1>6, <1>7, <1>9, <1>10, <1>11, <1>12, <1>13 DEF Next, FrameNext, ProcNext

\* No slot of the scan ring is read before it was filled.
LEMMA ScanFilledStep == ScanType /\ ScanFilled /\ [Next]_vars => ScanFilled'
<1> SUFFICES ASSUME ScanType, ScanFilled, [Next]_vars PROVE ScanFilled'
  OBVIOUS
<1> USE PipelineAssumption DEF ScanType, ScanFilled, Captured, Mixed, None, Filling, Fresh, One, Examining
<1> USE DEF frameVars, frameQVars, procVars, writeQVars, writeVars, historyVars
<1>1. CASE FrameCopyBegin
  BY <1>1 DEF FrameCopyBegin
<1>2. CASE FrameCopyEnd
  BY <1>2 DEF FrameCopyEnd
<1>3. CASE FrameSend
  <2>1. /\ Len(frame_Q') = Len(frame_Q) + 1
        /\ \A k \in 1 .. Len(frame_Q) : frame_Q'[k] = frame_Q[k]
        /\ frame_Q'[Len(frame_Q) + 1] = scan_buffer_index
    BY <1>3, AppendProperties DEF FrameSend
  <2>2. \A k \in 1 .. Len(frame_Q') : k \in 1 .. Len(frame_Q) \/ k = Len(frame_Q) + 1
    BY <2>1
  <2> QED
    BY <1>3, <2>1, <2>2 DEF FrameSend
<1>4. CASE ProcReceive
  BY <1>4, TailFacts DEF ProcReceive
<1>5. CASE FrameLoop \/ FrameFails \/ FrameEnqueue \/ FrameSendFails
  BY <1>5 DEF FrameLoop, FrameFails, FrameEnqueue, FrameSendFails
<1>6. ASSUME UNCHANGED <<frameVars, frame_Q, current_index>>, Examining' => Examining
      PROVE  ScanFilled'
  BY <1>6
<1> QED
  BY <1>1, <1>2, <1>3, <1>4, <1>5, <1>6 DEF Next, FrameNext, ProcNext, WriteNext,
     ProcStart, ProcStop, ProcDequeue, ProcReceiveFails, ProcCompare, ProcCopyBegin,
     ProcCopyEnd, ProcEnqueue, ProcEnqueueFull, ProcSend, ProcSendFails, Selected, WriteStart,
     WriteStop, WriteDequeue, WriteReceive, WriteReceiveFails, WriteFile,
     StopRequested, vars

\* and those on the write-out ring
WoType == /\ wo_buffers \in [WoSlots -> Int]
    /\ wo_buffer_index \in WoSlots
    /\ writeout_Q \in Seq(WoSlots) /\ Len(writeout_Q) <= NUM_WO_BUF
    /\ Len(writeout_Q) \in Nat
    /\ writeout_Q_count \in Int
    /\ wo_index \in WoSlots
    /\ total_frames_selected_g \in Nat
    /\ total_frames_written_g \in Nat
    /\ wo_overrun \in {0,1}

\* No slot of the write-out ring is read before it was filled.
LEMMA WoFilledStep == ScanType /\ WoType /\ ScanFilled /\ WoFilled /\ [Next]_vars => WoFilled'
<1> SUFFICES ASSUME ScanType, WoType, ScanFilled, WoFilled, [Next]_vars PROVE WoFilled'
  OBVIOUS
<1> USE PipelineAssumption DEF WoType, WoFilled, Captured, Mixed, None, WoFilling
<1> USE DEF frameVars, frameQVars, procVars, writeQVars, writeVars, historyVars
<1>1. CASE ProcCopyBegin
  BY <1>1 DEF ProcCopyBegin
<1>2. CASE ProcCopyEnd
  <2>1. scan_buffer[current_index] \in {Mixed} \cup 0 .. frame_id_g - 1
    BY <1>2 DEF ProcCopyEnd, ScanFilled, Examining, ScanType
  <2> QED
    BY <1>2, <2>1 DEF ProcCopyEnd
<1>3. CASE ProcSend
  <2>1. /\ Len(writeout_Q') = Len(writeout_Q) + 1
        /\ \A k \in 1 .. Len(writeout_Q) : writeout_Q'[k] = writeout_Q[k]
        /\ writeout_Q'[Len(writeout_Q) + 1] = wo_buffer_index
    BY <1>3, AppendProperties DEF ProcSend
  <2>2. \A k \in 1 .. Len(writeout_Q') : k \in 1 .. Len(writeout_Q) \/ k = Len(writeout_Q) + 1
    BY <2>1
  <2> QED
    BY <1>3, <2>1, <2>2 DEF ProcSend, Selected
<1>4. CASE WriteReceive
  BY <1>4, TailFacts DEF WriteReceive
<1>5. CASE WriteFile
  BY <1>5 DEF WriteFile
<1>6. CASE FrameCopyEnd
  BY <1>6 DEF FrameCopyEnd, ScanType
<1>7. ASSUME UNCHANGED <<frame_id_g, wo_buffers, writeout_Q, wo_index, written_id>>,
             WoFilling' => WoFilling /\ wo_buffer_index' = wo_buffer_index,
             wpc' = "write" => wpc = "write"
      PROVE  WoFilled'
  BY <1>7
<1> QED
  BY <1>1, <1>2, <1>3, <1>4, <1>5, <1>6, <1>7 DEF Next, FrameNext, ProcNext, WriteNext,
     FrameLoop, FrameFails, FrameCopyBegin, FrameEnqueue, FrameSend, FrameSendFails,
     ProcStart, ProcStop, ProcDequeue, ProcReceive, ProcReceiveFails, ProcCompare,
     ProcEnqueue, ProcEnqueueFull, ProcSendFails, Selected, WriteStart,
     WriteStop, WriteDequeue, WriteReceiveFails, StopRequested, vars

\* Nothing is selected before the start-up is over.
LEMMA StartupStep == ScanType /\ StartupInv /\ [Next]_vars => StartupInv'
<1> SUFFICES ASSUME ScanType, StartupInv, [Next]_vars PROVE StartupInv'
  OBVIOUS
<1>0. /\ current_index # None /\ is_startup \in {0, 1}
      /\ frame_Q # <<>> => Head(frame_Q) # None
  <2>1. ASSUME frame_Q # <<>> PROVE Head(frame_Q) # None
    <3>1. Head(frame_Q) \in ScanSlots
      BY <2>1, TailFacts DEF ScanType
    <3> QED BY <3>1, PipelineAssumption DEF ScanSlots, None
  <2> QED BY <2>1, PipelineAssumption DEF ScanType, ScanSlots, None
<1> USE <1>0 DEF StartupInv, Selecting, Examining
<1> USE DEF frameVars, frameQVars, procVars, writeQVars, writeVars, historyVars
<1>1. CASE ProcStart \/ ProcStop \/ ProcDequeue \/ ProcReceiveFails
  BY <1>1 DEF ProcStart, ProcStop, ProcDequeue, ProcReceiveFails
<1>2. CASE ProcReceive
  BY <1>2 DEF ProcReceive
<1>3. CASE ProcCompare
  BY <1>3 DEF ProcCompare
<1>4. CASE ProcCopyBegin \/ ProcCopyEnd \/ ProcEnqueue
  BY <1>4 DEF ProcCopyBegin, ProcCopyEnd, ProcEnqueue
<1>5. CASE ProcEnqueueFull \/ ProcSend \/ ProcSendFails
  BY <1>5 DEF ProcEnqueueFull, ProcSend, ProcSendFails, Selected
<1>6. CASE WriteNext
  BY <1>6 DEF WriteNext, WriteStart, WriteStop, WriteDequeue, WriteReceive,
     WriteReceiveFails, WriteFile
<1>7. ASSUME UNCHANGED <<procVars, writeQVars, writeVars>> PROVE StartupInv'
  BY <1>7
<1> QED
  BY <1>1, <1>2, <1>3, <1>4, <1>5, <1>6, <1>7 DEF Next, ProcNext, FrameNext, FrameLoop,
     FrameFails, FrameCopyBegin, FrameCopyEnd, FrameEnqueue, FrameSend, FrameSendFails,
     StopRequested, vars

\* The use of the write-out ring before its first overrun is preserved.
LEMMA WoStep == WoType /\ WoInv /\ [Next]_vars => WoInv'
<1> SUFFICES ASSUME WoType, WoInv, [Next]_vars, wo_overrun' = 0
             PROVE  WoRoomInv' /\ WoQueueContiguous' /\ WritingInv' /\ SelectedAccounted'
  BY DEF WoInv
<1> USE DEF frameVars, frameQVars, procVars, writeQVars, writeVars, historyVars
<1>0. wo_overrun = 0
  <2>1. CASE ProcCopyBegin
    BY <2>1 DEF ProcCopyBegin, WoType
  <2>2. CASE UNCHANGED wo_overrun
    BY <2>2
  <2> QED
    BY <2>1, <2>2 DEF Next, FrameNext, ProcNext, WriteNext, FrameLoop, FrameFails, FrameCopyBegin,
     FrameCopyEnd, FrameEnqueue, FrameSend, FrameSendFails, ProcStart, ProcStop,
     ProcDequeue, ProcReceive, ProcReceiveFails, ProcCompare, ProcCopyEnd,
     ProcEnqueue, ProcEnqueueFull, ProcSend, ProcSendFails, WriteStart, WriteStop,
     WriteDequeue, WriteReceive, WriteReceiveFails, WriteFile, StopRequested, vars
<1> USE <1>0, PipelineAssumption DEF WoInv, One, WoFilling
<1>1. CASE ProcCopyBegin
  <2>1. /\ ppc = "select" /\ ppc' = "copy" /\ wo_buffer_index \notin WoInUse
        /\ UNCHANGED <<wo_buffer_index, writeout_Q, writeout_Q_count, wpc, wo_index,
                       total_frames_selected_g, total_frames_written_g>>
    BY <1>1 DEF ProcCopyBegin
  <2>2. Len(writeout_Q) < NUM_WO_BUF
    <3>1. Back(wo_buffer_index, NUM_WO_BUF, NUM_WO_BUF) = wo_buffer_index
      BY DEF Back, WoType, WoSlots
    <3>2. Len(writeout_Q) = NUM_WO_BUF => writeout_Q[1] = wo_buffer_index
      BY <3>1 DEF WoType, WoQueueContiguous
    <3> QED
      BY <2>1, <3>2 DEF WoType, WoInUse
  <2>3. WoRoomInv'
    BY <2>1, <2>2 DEF WoRoomInv
  <2>4. WoQueueContiguous'
    BY <2>1 DEF WoQueueContiguous
  <2>5. WritingInv'
    BY <2>1 DEF WritingInv, WoType, WoInUse, Back, WoSlots
  <2>6. SelectedAccounted'
    BY <2>1 DEF SelectedAccounted
  <2> QED BY <2>3, <2>4, <2>5, <2>6
<1>2. CASE ProcEnqueue
  <2>1. /\ ppc = "enqueue" /\ ppc' = "send" /\ writeout_Q_count' = writeout_Q_count + 1
        /\ UNCHANGED <<wo_buffer_index, writeout_Q, wpc, wo_index,
                       total_frames_selected_g, total_frames_written_g>>
    BY <1>2 DEF ProcEnqueue
  <2>2. WoRoomInv'
    BY <2>1 DEF WoRoomInv, WoType
  <2> QED
    BY <2>1, <2>2 DEF WoQueueContiguous, WritingInv, SelectedAccounted
<1>3. CASE ProcEnqueueFull \/ ProcSendFails
  <2>1. FALSE
    BY <1>3 DEF ProcEnqueueFull, ProcSendFails, WoRoomInv, WoType
  <2> QED BY <2>1
<1>4. CASE ProcSend
  <2>1. /\ ppc = "send" /\ ppc' = "outer"
        /\ writeout_Q' = Append(writeout_Q, wo_buffer_index)
        /\ wo_buffer_index' = Advance(wo_buffer_index, NUM_WO_BUF)
        /\ total_frames_selected_g' = total_frames_selected_g + 1
        /\ UNCHANGED <<writeout_Q_count, wpc, wo_index, total_frames_written_g>>
    BY <1>4 DEF ProcSend, Selected
  <2>2. /\ Len(writeout_Q') = Len(writeout_Q) + 1
        /\ \A k \in 1 .. Len(writeout_Q) : writeout_Q'[k] = writeout_Q[k]
        /\ writeout_Q'[Len(writeout_Q) + 1] = wo_buffer_index
    BY <2>1, AppendProperties DEF WoType
  <2>3. \A k \in 0 .. NUM_WO_BUF - 1 :
           Back(wo_buffer_index', k + 1, NUM_WO_BUF) = Back(wo_buffer_index, k, NUM_WO_BUF)
    BY <2>1, BackFacts DEF WoType, WoSlots
  <2>4. WoRoomInv'
    BY <2>1, <2>2 DEF WoRoomInv, WoType
  <2>5. WoQueueContiguous'
    <3>1. ASSUME NEW k \in 1 .. Len(writeout_Q)
          PROVE writeout_Q'[k] = Back(wo_buffer_index', Len(writeout_Q') - k + 1, NUM_WO_BUF)
      <4>1. Len(writeout_Q) - k + 1 \in 0 .. NUM_WO_BUF - 1
        BY <2>1 DEF WoType, WoRoomInv
      <4> QED
        BY <2>2, <2>3, <4>1 DEF WoQueueContiguous, WoType
    <3>2. wo_buffer_index = Back(wo_buffer_index', 1, NUM_WO_BUF)
      BY <2>1 DEF WoType, WoSlots, Advance, Back
    <3>3. \A k \in 1 .. Len(writeout_Q') : k \in 1 .. Len(writeout_Q) \/ k = Len(writeout_Q) + 1
      BY <2>2 DEF WoType
    <3>4. Len(writeout_Q') - (Len(writeout_Q) + 1) + 1 = 1
      BY <2>2 DEF WoType
    <3> QED
      BY <2>2, <3>1, <3>2, <3>3, <3>4 DEF WoQueueContiguous
  <2>6. WritingInv'
    BY <2>1, <2>2, <2>3 DEF WritingInv, WoType
  <2>7. SelectedAccounted'
    BY <2>1, <2>2 DEF SelectedAccounted, WoType
  <2> QED BY <2>4, <2>5, <2>6, <2>7
<1>5. CASE WriteDequeue
  BY <1>5 DEF WriteDequeue, WoRoomInv, WoQueueContiguous, WritingInv, SelectedAccounted, WoType
<1>6. CASE WriteReceive
  <2>1. /\ wpc = "receive" /\ wpc' = "write"
        /\ writeout_Q # <<>>
        /\ writeout_Q' = Tail(writeout_Q)
        /\ wo_index' = Head(writeout_Q)
        /\ UNCHANGED <<writeout_Q_count, ppc, wo_buffer_index,
                       total_frames_selected_g, total_frames_written_g>>
    BY <1>6 DEF WriteReceive
  <2>2. /\ Len(writeout_Q) >= 1
        /\ Len(writeout_Q') = Len(writeout_Q) - 1
        /\ wo_index' = writeout_Q[1] /\ writeout_Q[1] \in WoSlots
        /\ \A k \in 1 .. Len(writeout_Q) - 1 : writeout_Q'[k] = writeout_Q[k + 1]
    BY <2>1, TailFacts DEF WoType
  <2>3. WoRoomInv'
    BY <2>1, <2>2 DEF WoRoomInv, WoType
  <2>4. WoQueueContiguous'
    BY <2>1, <2>2 DEF WoQueueContiguous, WoType
  <2>5. WritingInv'
    BY <2>1, <2>2 DEF WritingInv, WoRoomInv, WoQueueContiguous, WoType
  <2>6. SelectedAccounted'
    BY <2>1, <2>2 DEF SelectedAccounted, WoType
  <2> QED BY <2>3, <2>4, <2>5, <2>6
<1>7. CASE WriteFile
  <2>1. /\ wpc = "write" /\ wpc' \in {"top", "done"}
        /\ total_frames_written_g' = total_frames_written_g + 1
        /\ UNCHANGED <<writeout_Q, writeout_Q_count, ppc, wo_buffer_index, total_frames_selected_g>>
    BY <1>7 DEF WriteFile
  <2>2. WoRoomInv' /\ WoQueueContiguous' /\ WritingInv'
    BY <2>1 DEF WoRoomInv, WoQueueContiguous, WritingInv
  <2>3. SelectedAccounted'
    BY <2>1 DEF SelectedAccounted, WoType
  <2> QED BY <2>2, <2>3
<1>8. CASE WriteStart \/ WriteStop \/ WriteReceiveFails
  <2>1. /\ wpc # "write" /\ wpc' \in {"top", "done"}
        /\ UNCHANGED <<writeout_Q, writeout_Q_count, ppc, wo_buffer_index, total_frames_selected_g, total_frames_written_g>>
    BY <1>8 DEF WriteStart, WriteStop, WriteReceiveFails
  <2>2. WoRoomInv'
    BY <2>1 DEF WoRoomInv, WoType
  <2> QED
    BY <2>1, <2>2 DEF WoQueueContiguous, WritingInv, SelectedAccounted
<1>9. ASSUME UNCHANGED <<wo_buffer_index, writeQVars, writeVars, total_frames_selected_g>>,
             WoFilling' <=> WoFilling, ppc' = "send" <=> ppc = "send"
      PROVE  WoRoomInv' /\ WoQueueContiguous' /\ WritingInv' /\ SelectedAccounted'
  BY <1>9 DEF WoRoomInv, WoQueueContiguous, WritingInv, SelectedAccounted
<1> QED
  BY <1>1, <1>2, <1>3, <1>4, <1>5, <1>6, <1>7, <1>8, <1>9 DEF Next, ProcNext, FrameNext, WriteNext, FrameLoop,
     FrameFails, FrameCopyBegin, FrameCopyEnd, FrameEnqueue, FrameSend, FrameSendFails,
     ProcStart, ProcStop, ProcDequeue, ProcReceive, ProcReceiveFails, ProcCompare, ProcCopyEnd,
     StopRequested, vars

\* While a slot is filled it is none of those writeout() still reads.
LEMMA WoSlotFree ==
    ASSUME WoType, WoInv, wo_overrun = 0, WoFilling
    PROVE  /\ \A k \in 1 .. Len(writeout_Q) : writeout_Q[k] \in WoSlots /\ writeout_Q[k] # wo_buffer_index
           /\ wpc = "write" => wo_index # wo_buffer_index
<1>1. /\ WoRoomInv /\ WoQueueContiguous /\ WritingInv
      /\ Len(writeout_Q) \in Nat /\ \A k \in 1 .. Len(writeout_Q) : writeout_Q[k] \in WoSlots
  BY DEF WoInv, WoType
<1>2. NUM_WO_BUF \in Nat /\ wo_buffer_index \in 0 .. NUM_WO_BUF - 1
  BY PipelineAssumption DEF WoType, WoSlots
<1>3. Len(writeout_Q) < NUM_WO_BUF
  BY <1>1 DEF WoRoomInv
<1>4. ASSUME NEW k \in 1 .. Len(writeout_Q)
      PROVE  writeout_Q[k] # wo_buffer_index
  <2>1. Len(writeout_Q) - k + 1 \in 1 .. NUM_WO_BUF - 1
    BY <1>1, <1>2, <1>3
  <2>2. writeout_Q[k] = Back(wo_buffer_index, Len(writeout_Q) - k + 1, NUM_WO_BUF)
    BY <1>1 DEF WoQueueContiguous
  <2>3. Back(wo_buffer_index, Len(writeout_Q) - k + 1, NUM_WO_BUF) # wo_buffer_index
    BY <1>2, <2>1, BackDiffers
  <2> QED
    BY <2>2, <2>3
<1>5. ASSUME wpc = "write" PROVE wo_index # wo_buffer_index
  <2>1. /\ Len(writeout_Q) + 1 < NUM_WO_BUF
        /\ wo_index = Back(wo_buffer_index, Len(writeout_Q) + 1, NUM_WO_BUF)
    BY <1>1, <1>2, <1>5 DEF WritingInv, One
  <2>2. Len(writeout_Q) + 1 \in 1 .. NUM_WO_BUF - 1
    BY <1>1, <1>2, <2>1
  <2>3. Back(wo_buffer_index, Len(writeout_Q) + 1, NUM_WO_BUF) # wo_buffer_index
    BY <1>2, <2>2, BackDiffers
  <2> QED
    BY <2>1, <2>3
<1> QED
  BY <1>1, <1>4, <1>5

Parts == WritingContent /\ WaitingContent /\ CountInv /\ SelectedContent

\* As long as neither ring overran, the frames on their way to flash keep their
\* distance, through every step of the three threads.
LEMMA ContentStep ==
    ScanType /\ WoType /\ written_id \in Int /\ num_frames_till_selection \in Nat
    /\ StartupInv /\ ScanInv /\ WoInv /\ ContentInv /\ [Next]_vars /\ WoInv' => ContentInv'
<1> SUFFICES ASSUME ScanType, WoType, written_id \in Int, num_frames_till_selection \in Nat,
                    StartupInv, ScanInv, WoInv, ContentInv, [Next]_vars, WoInv',
                    overrun' = 0, wo_overrun' = 0
             PROVE  Parts'
  BY DEF ContentInv, Parts
<1> USE DEF frameVars, frameQVars, procVars, writeQVars, writeVars, historyVars
<1>0. overrun = 0 /\ wo_overrun = 0
  <2>1. CASE ProcCopyBegin
    BY <2>1 DEF ProcCopyBegin, WoType
  <2>2. CASE FrameCopyBegin
    BY <2>2 DEF FrameCopyBegin, ScanType
  <2>3. CASE UNCHANGED historyVars
    BY <2>3
  <2> QED
    BY <2>1, <2>2, <2>3 DEF Next, FrameNext, ProcNext, WriteNext, FrameLoop, FrameFails,
     FrameCopyEnd, FrameEnqueue, FrameSend, FrameSendFails, ProcStart, ProcStop,
     ProcDequeue, ProcReceive, ProcReceiveFails, ProcCompare, ProcCopyEnd,
     ProcEnqueue, ProcEnqueueFull, ProcSend, ProcSendFails, WriteStart, WriteStop,
     WriteDequeue, WriteReceive, WriteReceiveFails, WriteFile, StopRequested, vars
<1>p. WritingContent /\ WaitingContent /\ CountInv /\ SelectedContent
  BY <1>0 DEF ContentInv
<1>r. RoomInv /\ TakenInv /\ ExaminedInv /\ WoRoomInv /\ WoQueueContiguous
  BY <1>0 DEF ScanInv, WoInv
<1>h. HeadId \in Int
  BY DEF HeadId, Fresh, One, ScanType
<1> USE <1>h, PipelineAssumption DEF None, Mixed
\* a step that leaves the pictures alone and takes no frame
<1>s. ASSUME UNCHANGED <<wo_buffers, wo_buffer_index, writeout_Q, wo_index, written_id,
                         is_startup, num_frames_till_selection>>,
             wpc' = "write" <=> wpc = "write",
             HeadId' = HeadId, frame_id_g' \in {frame_id_g, frame_id_g + 1},
             ppc' \in {"outer", "inner", "receive"} => ppc \in {"outer", "inner", "receive"} \/ is_startup = 1,
             Selecting' => Selecting,
             ppc' \in {"enqueue", "send"} => ppc \in {"enqueue", "send"}
      PROVE  Parts'
  <2>1. BeforeHead' = BeforeHead /\ Newest' = Newest
    BY <1>s DEF BeforeHead, Newest
  <2>2. WritingContent'
    BY <1>p, <1>s DEF WritingContent, ScanType
  <2>3. WaitingContent'
    BY <1>p, <1>s, <2>1 DEF WaitingContent, WaitingAt, ScanType
  <2>4. CountInv'
    BY <1>p, <1>s, <2>1 DEF CountInv, ScanType
  <2>5. SelectedContent'
    BY <1>p, <1>s DEF SelectedContent
  <2> QED BY <2>2, <2>3, <2>4, <2>5 DEF Parts
<1>1. CASE FrameNext
  <2>1. CASE FrameEnqueue
    BY <2>1, <1>r, <1>s DEF FrameEnqueue, RoomInv, ScanType, Filling, One, HeadId, Fresh, Selecting
  <2>2. CASE FrameSend
    <3>1. Len(frame_Q') = Len(frame_Q) + 1
      BY <2>2, AppendProperties DEF FrameSend, ScanType
    <3>2. HeadId' = HeadId
      BY <2>2, <3>1 DEF FrameSend, ScanType, HeadId, Fresh, One
    <3> QED
      BY <2>2, <1>s, <3>2 DEF FrameSend, Selecting
  <2>3. CASE FrameSendFails
    BY <2>3, <1>r DEF FrameSendFails, RoomInv, Filling, ScanType
  <2>4. CASE FrameCopyEnd
    <3>1. HeadId' = HeadId
      BY <2>4 DEF FrameCopyEnd, ScanType, HeadId, Fresh, One
    <3> QED
      BY <2>4, <1>s, <3>1 DEF FrameCopyEnd, Selecting
  <2>5. CASE FrameLoop \/ FrameFails \/ FrameCopyBegin
    <3>1. HeadId' = HeadId
      BY <2>5 DEF FrameLoop, FrameFails, FrameCopyBegin, HeadId, Fresh
    <3> QED
      BY <2>5, <1>s, <3>1 DEF FrameLoop, FrameFails, FrameCopyBegin, Selecting
  <2> QED BY <1>1, <2>1, <2>2, <2>3, <2>4, <2>5 DEF FrameNext
<1>2. CASE ProcReceive
  <2>1. /\ ppc = "receive" /\ frame_Q # <<>> /\ frame_Q' = Tail(frame_Q)
        /\ UNCHANGED <<wo_buffers, wo_buffer_index, writeout_Q, wo_index, wpc, written_id,
                       is_startup, frame_id_g, fpc>>
        /\ ppc' \notin {"enqueue", "send"}
    BY <1>2 DEF ProcReceive
  <2>2. Len(frame_Q') = Len(frame_Q) - 1
    BY <2>1, TailFacts DEF ScanType
  <2>3. HeadId' = HeadId + 1
    BY <2>1, <2>2 DEF HeadId, Fresh, One, ScanType
  <2>4. BeforeHead' = BeforeHead /\ Newest' = Newest
    BY <2>1 DEF BeforeHead, Newest
  <2>5. WritingContent' /\ WaitingContent' /\ SelectedContent'
    BY <1>p, <2>1, <2>4 DEF WritingContent, WaitingContent, WaitingAt, SelectedContent
  <2>6. CountInv'
    <3> SUFFICES ASSUME is_startup = 0, Newest # None
                 PROVE  /\ ppc' \in {"outer", "inner", "receive"} =>
                             HeadId' - 1 = Newest + num_frames_till_selection'
                        /\ Selecting' => HeadId' - 1 = Newest + MOTION_FRAMES_SEC
      BY <2>1, <2>4 DEF CountInv
    <3>1. HeadId - 1 = Newest + num_frames_till_selection
      BY <1>p, <2>1 DEF CountInv
    <3>2. /\ num_frames_till_selection' = num_frames_till_selection + 1
          /\ ppc' \in {"inner", "select"}
          /\ ppc' = "select" => num_frames_till_selection + 1 = MOTION_FRAMES_SEC
      BY <1>2 DEF ProcReceive, StartupInv
    <3>3. Newest \in Int
      BY <2>1 DEF Newest, BeforeHead, WoType
    <3> QED
      BY <2>3, <3>1, <3>2, <3>3 DEF Selecting
  <2> QED BY <2>5, <2>6 DEF Parts
<1>3. CASE ProcCompare
  <2>1. /\ is_startup = 1 /\ ppc' \in {"outer", "inner", "frozen"}
        /\ UNCHANGED <<wo_buffers, wo_buffer_index, writeout_Q, wo_index, wpc, written_id,
                       frame_id_g, fpc, frame_Q>>
    BY <1>3 DEF ProcCompare, StartupInv
  <2>2. BeforeHead' = BeforeHead /\ Newest' = Newest /\ Newest = None
    BY <2>1 DEF BeforeHead, Newest, StartupInv
  <2> QED
    BY <1>p, <2>1, <2>2 DEF Parts, WritingContent, WaitingContent, WaitingAt, CountInv, SelectedContent
<1>4. CASE ProcCopyBegin \/ ProcCopyEnd
  <2>1. /\ ppc \in {"select", "copy"} /\ ppc' \in {"copy", "enqueue"}
        /\ UNCHANGED <<wo_buffer_index, writeout_Q, wo_index, wpc, written_id,
                       is_startup, num_frames_till_selection, frame_id_g, fpc, frame_Q>>
        /\ HeadId' = HeadId
    BY <1>4 DEF ProcCopyBegin, ProcCopyEnd, HeadId, Fresh
  <2>2. \A s \in WoSlots : s # wo_buffer_index => wo_buffers'[s] = wo_buffers[s]
    BY <1>4 DEF ProcCopyBegin, ProcCopyEnd, WoType
  <2>3. /\ \A k \in 1 .. Len(writeout_Q) : wo_buffers'[writeout_Q[k]] = wo_buffers[writeout_Q[k]]
        /\ wpc = "write" => wo_buffers'[wo_index] = wo_buffers[wo_index]
    <3>2. /\ \A k \in 1 .. Len(writeout_Q) : writeout_Q[k] \in WoSlots /\ writeout_Q[k] # wo_buffer_index
          /\ wpc = "write" => wo_index # wo_buffer_index
      <4>1. CASE ppc' = "enqueue"
        <5>1. WoFilling
          BY <1>4, <4>1 DEF ProcCopyBegin, ProcCopyEnd, WoFilling
        <5> QED BY <5>1, <1>0, WoSlotFree
      <4>2. CASE ppc' = "copy"
        <5>1. wo_buffer_index \notin WoInUse
          BY <1>4, <4>2 DEF ProcCopyBegin, ProcCopyEnd
        <5> QED BY <5>1 DEF WoInUse, WoType
      <4> QED BY <2>1, <4>1, <4>2
    <3> QED BY <2>2, <3>2 DEF WoType
  <2>4. BeforeHead' = BeforeHead /\ Newest' = Newest
    BY <2>1, <2>3 DEF BeforeHead, Newest, WoType
  <2>5. WritingContent'
    BY <1>p, <2>1, <2>3 DEF WritingContent
  <2>6. WaitingContent'
    <3> SUFFICES ASSUME NEW k \in 1 .. Len(writeout_Q)
                 PROVE  WaitingAt(k)'
      BY <2>1 DEF WaitingContent
    <3>1. k > 1 => k - 1 \in 1 .. Len(writeout_Q)
      BY DEF WoType
    <3> QED
      BY <1>p, <2>1, <2>3, <2>4, <3>1 DEF WaitingContent, WaitingAt
  <2>7. CountInv'
    BY <1>p, <2>1, <2>4 DEF CountInv, Selecting
  <2>8. SelectedContent'
    BY <1>4, <1>r, <2>1 DEF SelectedContent, ProcCopyBegin, ProcCopyEnd, ExaminedInv, Examining, WoType
  <2> QED BY <2>5, <2>6, <2>7, <2>8 DEF Parts
<1>5. CASE ProcEnqueueFull \/ ProcSendFails
  BY <1>5, <1>r DEF ProcEnqueueFull, ProcSendFails, WoRoomInv, WoType, WoFilling, One
<1>6. CASE ProcSend
  <2>1. /\ ppc = "send" /\ ppc' = "outer"
        /\ writeout_Q' = Append(writeout_Q, wo_buffer_index)
        /\ num_frames_till_selection' = 0
        /\ UNCHANGED <<wo_buffers, wo_index, wpc, written_id, is_startup, frame_id_g, fpc, frame_Q>>
        /\ HeadId' = HeadId
    BY <1>6 DEF ProcSend, Selected, HeadId, Fresh
  <2>2. /\ Len(writeout_Q') = Len(writeout_Q) + 1
        /\ \A k \in 1 .. Len(writeout_Q) : writeout_Q'[k] = writeout_Q[k]
        /\ writeout_Q'[Len(writeout_Q) + 1] = wo_buffer_index
    BY <2>1, AppendProperties DEF WoType
  <2>3. wo_buffers[wo_buffer_index] = HeadId - 1
    BY <1>p, <2>1 DEF SelectedContent
  <2>4. is_startup = 0 /\ HeadId - 1 \in 0 .. frame_id_g - 1
    <3>1. is_startup = 0 /\ last_buffer_index # None
      BY <2>1 DEF StartupInv, Selecting
    <3> QED
      BY <1>r, <3>1 DEF TakenInv, HeadId, Fresh, One, ScanType
  <2>5. Newest = None \/ HeadId - 1 = Newest + MOTION_FRAMES_SEC
    BY <1>p, <2>1, <2>4 DEF CountInv, Selecting
  <2>6. BeforeHead' = BeforeHead /\ Newest' = HeadId - 1
    BY <2>1, <2>2, <2>3 DEF BeforeHead, Newest, WoType
  <2>7. WritingContent' /\ SelectedContent'
    BY <1>p, <2>1 DEF WritingContent, SelectedContent
  <2>8. WaitingContent'
    <3>1. \A k \in 1 .. Len(writeout_Q') : k \in 1 .. Len(writeout_Q) \/ k = Len(writeout_Q) + 1
      BY <2>2 DEF WoType
    <3>2. ASSUME NEW k \in 1 .. Len(writeout_Q)
          PROVE  WaitingAt(k)'
      <4>1. k > 1 => k - 1 \in 1 .. Len(writeout_Q)
        BY DEF WoType
      <4> QED
        BY <1>p, <2>1, <2>2, <2>6, <4>1 DEF WaitingContent, WaitingAt
    <3>3. ASSUME Len(writeout_Q) = 0
          PROVE  BeforeHead' = None \/ HeadId - 1 = BeforeHead' + MOTION_FRAMES_SEC
      BY <2>5, <2>6, <3>3 DEF Newest, WoType
    <3>4. ASSUME Len(writeout_Q) > 0
          PROVE  HeadId - 1 = wo_buffers'[writeout_Q'[Len(writeout_Q)]] + MOTION_FRAMES_SEC
      <4>1. Newest = wo_buffers[writeout_Q[Len(writeout_Q)]]
        BY <3>4 DEF Newest, WoType
      <4>2. Newest \in Nat
        BY <1>p, <3>4, <4>1 DEF WaitingContent, WaitingAt, WoType, ScanType
      <4> QED
        BY <2>1, <2>2, <2>5, <3>4, <4>1, <4>2 DEF WoType
    <3>5. ASSUME NEW k, k = Len(writeout_Q) + 1 PROVE WaitingAt(k)'
      BY <2>1, <2>2, <2>3, <2>4, <3>3, <3>4, <3>5 DEF WoType, WaitingAt
    <3> QED BY <3>1, <3>2, <3>5 DEF WaitingContent
  <2>9. CountInv'
    BY <2>1, <2>6 DEF CountInv, Selecting
  <2> QED BY <2>7, <2>8, <2>9 DEF Parts
<1>7. CASE WriteReceive
  <2>1. /\ wpc = "receive" /\ wpc' = "write"
        /\ writeout_Q # <<>> /\ writeout_Q' = Tail(writeout_Q)
        /\ wo_index' = Head(writeout_Q)
        /\ UNCHANGED <<wo_buffers, wo_buffer_index, written_id, is_startup, ppc,
                       num_frames_till_selection, frame_id_g, fpc, frame_Q>>
        /\ HeadId' = HeadId
    BY <1>7 DEF WriteReceive, HeadId, Fresh
  <2>2. /\ Len(writeout_Q) >= 1
        /\ Len(writeout_Q') = Len(writeout_Q) - 1
        /\ wo_index' = writeout_Q[1] /\ writeout_Q[1] \in WoSlots
        /\ \A k \in 1 .. Len(writeout_Q) - 1 : writeout_Q'[k] = writeout_Q[k + 1]
    BY <2>1, TailFacts DEF WoType
  <2>3. BeforeHead' = wo_buffers[writeout_Q[1]] /\ BeforeHead = written_id
    BY <2>1, <2>2 DEF BeforeHead
  <2>4. Newest' = Newest
    <3>1. CASE Len(writeout_Q) = 1
      BY <2>1, <2>2, <2>3, <3>1 DEF Newest, WoType
    <3>2. CASE Len(writeout_Q) > 1
      <4>1. Len(writeout_Q') = Len(writeout_Q) - 1 /\ Len(writeout_Q) - 1 \in 1 .. Len(writeout_Q) - 1
        BY <2>2, <3>2 DEF WoType
      <4>2. writeout_Q'[Len(writeout_Q')] = writeout_Q[Len(writeout_Q)]
        BY <2>2, <4>1 DEF WoType
      <4>3. writeout_Q' # <<>>
        BY <4>1
      <4> QED
        BY <2>1, <4>2, <4>3 DEF Newest
    <3> QED BY <2>2, <3>1, <3>2 DEF WoType
  <2>5. WritingContent'
    BY <1>p, <2>1, <2>2, <2>3 DEF WritingContent, WaitingContent, WaitingAt, WoType
  <2>6. WaitingContent'
    <3> SUFFICES ASSUME NEW k \in 1 .. Len(writeout_Q) - 1
                 PROVE  WaitingAt(k)'
      BY <2>2 DEF WaitingContent
    <3>1. k + 1 \in 1 .. Len(writeout_Q) /\ (k > 1 => k - 1 \in 1 .. Len(writeout_Q) - 1)
      BY DEF WoType
    <3>2. /\ wo_buffers[writeout_Q[k + 1]] \in 0 .. frame_id_g - 1
          /\ wo_buffers[writeout_Q[k + 1]] = wo_buffers[writeout_Q[k]] + MOTION_FRAMES_SEC
      BY <1>p, <3>1 DEF WaitingContent, WaitingAt, WoType
    <3>3. k > 1 => writeout_Q'[k-1] = writeout_Q[k]
      BY <2>2, <3>1
    <3> QED
      BY <2>1, <2>2, <2>3, <3>2, <3>3 DEF WaitingAt
  <2>7. CountInv' /\ SelectedContent'
    BY <1>p, <2>1, <2>4 DEF CountInv, SelectedContent, Selecting
  <2> QED BY <2>5, <2>6, <2>7 DEF Parts
<1>8. CASE WriteFile
  <2>1. /\ wpc = "write" /\ wpc' # "write" /\ written_id' = wo_buffers[wo_index]
        /\ UNCHANGED <<wo_buffers, wo_buffer_index, writeout_Q, is_startup, ppc,
                       num_frames_till_selection, frame_id_g, fpc, frame_Q>>
        /\ HeadId' = HeadId
    BY <1>8 DEF WriteFile, HeadId, Fresh
  <2>2. BeforeHead' = BeforeHead /\ Newest' = Newest
    BY <2>1 DEF BeforeHead, Newest
  <2> QED
    BY <1>p, <2>1, <2>2 DEF Parts, WritingContent, WaitingContent, WaitingAt, CountInv, SelectedContent, Selecting
<1>9. CASE ProcStart
  <2>1. is_startup = 1
    BY <1>9 DEF ProcStart, StartupInv, ScanType
  <2> QED
    BY <1>9, <1>s, <2>1 DEF ProcStart, HeadId, Fresh, Selecting
<1>10. CASE ProcStop \/ ProcDequeue \/ ProcReceiveFails \/ ProcEnqueue
  BY <1>10, <1>s DEF ProcStop, ProcDequeue, ProcReceiveFails, ProcEnqueue, HeadId, Fresh, Selecting
<1>11. CASE WriteStart \/ WriteStop \/ WriteDequeue \/ WriteReceiveFails \/ StopRequested \/ UNCHANGED vars
  BY <1>11, <1>s DEF WriteStart, WriteStop, WriteDequeue, WriteReceiveFails, StopRequested, vars, HeadId, Fresh, Selecting
<1> QED
  BY <1>1, <1>2, <1>3, <1>4, <1>5, <1>6, <1>7, <1>8, <1>9, <1>10, <1>11 DEF Next, ProcNext, WriteNext

-----------------------------------------------------------------------------
\* The parts of TypeOK the two rings need.
LEMMA TypeParts == TypeOK => ScanType /\ WoType
BY DEF TypeOK, ScanType, WoType

\* The inductive invariant holds at the start,
LEMMA IInvInit == Init => IInv
<1> SUFFICES ASSUME Init PROVE IInv
  OBVIOUS
<1>1. TypeOK
  BY TypeInit
<1> QED
  BY <1>1, PipelineAssumption
  DEF Init, IInv, FrameQueueContiguous, ScanFilled, WoFilled, StartupInv, ScanInv, RoomInv,
      TakenInv, QueuedInv, ExaminedInv, ComparedInv, WoInv, WoRoomInv, WoQueueContiguous,
      WritingInv, SelectedAccounted, ContentInv, WritingContent, WaitingContent, CountInv,
      SelectedContent, Filling, Fresh, HeadId, Examining, Selecting, WoFilling, One, Captured,
      None, Mixed

\* and every step preserves it.
LEMMA IInvStep == IInv /\ [Next]_vars => IInv'
<1> SUFFICES ASSUME IInv, [Next]_vars PROVE IInv'
  OBVIOUS
<1>1. ScanType /\ WoType /\ written_id \in Int /\ num_frames_till_selection \in Nat
  BY TypeParts DEF IInv, TypeOK
<1>2. TypeOK' /\ FrameQueueContiguous'
  BY <1>1, TypeStep, ContiguousStep DEF IInv
<1>3. ScanFilled' /\ WoFilled' /\ StartupInv'
  BY <1>1, ScanFilledStep, WoFilledStep, StartupStep DEF IInv
<1>4. ScanInv' /\ WoInv'
  BY <1>1, ScanStep, WoStep DEF IInv
<1>5. ContentInv'
  BY <1>1, <1>4, ContentStep DEF IInv
<1> QED
  BY <1>2, <1>3, <1>4, <1>5 DEF IInv

\* IInv holds in every state of the pipeline.
THEOREM Invariance == Spec => []IInv
BY IInvInit, IInvStep, PTL DEF Spec

\* Every variable of the three threads stays in its type, for every ring size.
THEOREM TypeCorrect == Spec => []TypeOK
<1>1. IInv => TypeOK
  BY DEF IInv
<1> QED
  BY <1>1, Invariance, PTL

\* The indexes in frame_Q are consecutive slots ending just behind frame()'s own.
THEOREM FrameQueueIsContiguous == Spec => []FrameQueueContiguous
<1>1. IInv => FrameQueueContiguous
  BY DEF IInv
<1> QED
  BY <1>1, Invariance, PTL

\* enqueue_P refuses, and mq_timedsend blocks, only when a slot that was still
\* needed has been overwritten before.
THEOREM FullCheckIsTooLate == Spec => []FullCheckTooLate
<1>1. IInv => FullCheckTooLate
  <2> SUFFICES ASSUME IInv PROVE FullCheckTooLate
    OBVIOUS
  <2>1. ScanType /\ WoType
    BY TypeParts DEF IInv
  <2>2. overrun = 0 => RoomInv
    BY DEF IInv, ScanInv
  <2>3. wo_overrun = 0 => WoRoomInv
    BY DEF IInv, WoInv
  <2> QED
    BY <2>1, <2>2, <2>3 DEF FullCheckTooLate, RoomInv, WoRoomInv, ScanType, WoType,
       Filling, WoFilling, One
<1> QED
  BY <1>1, Invariance, PTL

\* No picture counted as selected disappears before the write-out ring overruns.
THEOREM SelectedIsAccounted == Spec => []SelectedAccounted
<1>1. IInv => SelectedAccounted
  BY DEF IInv, WoInv, SelectedAccounted
<1> QED
  BY <1>1, Invariance, PTL

\* A scan slot still needed is overwritten only with SCAN_BUF_SIZE - 2 or more
\* frames waiting in frame_Q.
THEOREM ScanRingHeadroom == Spec => ScanHeadroom
<1>1. IInv /\ [Next]_vars =>
        [overrun' = 1 /\ overrun = 0 => Len(frame_Q) >= SCAN_BUF_SIZE - 2]_vars
  <2> SUFFICES ASSUME IInv, [Next]_vars, overrun' = 1, overrun = 0
               PROVE  Len(frame_Q) >= SCAN_BUF_SIZE - 2
    OBVIOUS
  <2>1. ScanType
    BY TypeParts DEF IInv
  <2>2. FrameCopyBegin
    <3>1. ~ UNCHANGED overrun
      OBVIOUS
    <3> QED
      BY <3>1 DEF Next, FrameNext, ProcNext, WriteNext, FrameLoop, FrameFails, FrameCopyEnd,
         FrameEnqueue, FrameSend, FrameSendFails, ProcStart, ProcStop, ProcDequeue,
         ProcReceive, ProcReceiveFails, ProcCompare, ProcCopyBegin, ProcCopyEnd,
         ProcEnqueue, ProcEnqueueFull, ProcSend, ProcSendFails, WriteStart, WriteStop,
         WriteDequeue, WriteReceive, WriteReceiveFails, WriteFile, StopRequested, vars,
         frameVars, frameQVars, procVars, writeQVars, writeVars, historyVars
  <2>3. scan_buffer_index \in ScanInUse
    BY <2>2 DEF FrameCopyBegin
  <2>4. ASSUME Len(frame_Q) + 2 < SCAN_BUF_SIZE PROVE FALSE
    <3>1. ASSUME NEW d \in 1 .. Len(frame_Q) + 2
          PROVE  Back(scan_buffer_index, d, SCAN_BUF_SIZE) # scan_buffer_index
      BY <2>1, <2>4, PipelineAssumption, BackDiffers DEF ScanType, ScanSlots
    <3>2. ASSUME NEW k \in 1 .. Len(frame_Q) PROVE frame_Q[k] # scan_buffer_index
      <4>1. Len(frame_Q) - k + 1 \in 1 .. Len(frame_Q) + 2
        BY <2>1 DEF ScanType
      <4> QED
        BY <3>1, <4>1 DEF IInv, FrameQueueContiguous
    <3>3. Examining => current_index # scan_buffer_index
      <4>1. Len(frame_Q) + 1 \in 1 .. Len(frame_Q) + 2
        BY <2>1 DEF ScanType
      <4> QED
        BY <3>1, <4>1 DEF IInv, ScanInv, ExaminedInv
    <3>4. is_startup = 1 /\ last_buffer_index # None => last_buffer_index # scan_buffer_index
      <4>1. LastDistance \in 1 .. Len(frame_Q) + 2
        BY <2>1 DEF ScanType, LastDistance, One
      <4> QED
        BY <3>1, <4>1 DEF IInv, ScanInv, ComparedInv
    <3> QED
      BY <2>3, <3>2, <3>3, <3>4 DEF ScanInUse, Examining
  <2> QED
    BY <2>1, <2>4, PipelineAssumption DEF ScanType
<1> QED
  BY <1>1, Invariance, PTL DEF Spec, ScanHeadroom

\* A picture not yet on flash is overwritten only with writeout_Q full or one
\* short of it.
THEOREM WriteoutRingHeadroom == Spec => WriteoutHeadroom
<1>1. IInv /\ [Next]_vars =>
        [wo_overrun' = 1 /\ wo_overrun = 0 => Len(writeout_Q) >= NUM_WO_BUF - 1]_vars
  <2> SUFFICES ASSUME IInv, [Next]_vars, wo_overrun' = 1, wo_overrun = 0
               PROVE  Len(writeout_Q) >= NUM_WO_BUF - 1
    OBVIOUS
  <2>1. WoType
    BY TypeParts DEF IInv
  <2>2. ProcCopyBegin
    <3>1. ~ UNCHANGED wo_overrun
      OBVIOUS
    <3> QED
      BY <3>1 DEF Next, FrameNext, ProcNext, WriteNext, FrameLoop, FrameFails, FrameCopyBegin,
         FrameCopyEnd, FrameEnqueue, FrameSend, FrameSendFails, ProcStart, ProcStop,
         ProcDequeue, ProcReceive, ProcReceiveFails, ProcCompare, ProcCopyEnd,
         ProcEnqueue, ProcEnqueueFull, ProcSend, ProcSendFails, WriteStart, WriteStop,
         WriteDequeue, WriteReceive, WriteReceiveFails, WriteFile, StopRequested, vars,
         frameVars, frameQVars, procVars, writeQVars, writeVars, historyVars
  <2>3. wo_buffer_index \in WoInUse
    BY <2>2 DEF ProcCopyBegin
  <2>4. ASSUME Len(writeout_Q) + 1 < NUM_WO_BUF PROVE FALSE
    <3>1. ASSUME NEW d \in 1 .. Len(writeout_Q) + 1
          PROVE  Back(wo_buffer_index, d, NUM_WO_BUF) # wo_buffer_index
      BY <2>1, <2>4, PipelineAssumption, BackDiffers DEF WoType, WoSlots
    <3>2. ASSUME NEW k \in 1 .. Len(writeout_Q) PROVE writeout_Q[k] # wo_buffer_index
      <4>1. Len(writeout_Q) - k + 1 \in 1 .. Len(writeout_Q) + 1
        BY <2>1 DEF WoType
      <4> QED
        BY <3>1, <4>1 DEF IInv, WoInv, WoQueueContiguous
    <3>3. wpc = "write" => wo_index # wo_buffer_index
      <4>1. Len(writeout_Q) + 1 \in 1 .. Len(writeout_Q) + 1
        BY <2>1 DEF WoType
      <4> QED
        BY <3>1, <4>1 DEF IInv, WoInv, WritingInv
    <3> QED
      BY <2>3, <3>2, <3>3 DEF WoInUse
  <2> QED
    BY <2>1, <2>4, PipelineAssumption DEF WoType
<1> QED
  BY <1>1, Invariance, PTL DEF Spec, WriteoutHeadroom

\* Either ring is overrun only by a consumer late by nearly the whole ring.
THEOREM RingHeadroom == Spec => Headroom
BY ScanRingHeadroom, WriteoutRingHeadroom DEF Headroom

\* Only WriteFile counts a written picture.
LEMMA OnlyWriteFile ==
    ASSUME TypeOK, [Next]_vars, ~ UNCHANGED total_frames_written_g
    PROVE  WriteFile
BY DEF Next, FrameNext, ProcNext, WriteNext, FrameLoop, FrameFails, FrameCopyBegin,
   FrameCopyEnd, FrameEnqueue, FrameSend, FrameSendFails, ProcStart, ProcStop,
   ProcDequeue, ProcReceive, ProcReceiveFails, ProcCompare, ProcCopyBegin, ProcCopyEnd,
   ProcEnqueue, ProcEnqueueFull, ProcSend, ProcSendFails, WriteStart, WriteStop,
   WriteDequeue, WriteReceive, WriteReceiveFails, StopRequested, vars,
   frameVars, frameQVars, procVars, writeQVars, writeVars, historyVars

\* Without an overrun consecutive files show frames exactly MOTION_FRAMES_SEC apart.
THEOREM WrittenIsSpaced == Spec => WrittenSpacing
<1>1. IInv /\ [Next]_vars =>
        [total_frames_written_g' # total_frames_written_g /\ overrun = 0 /\ wo_overrun = 0
           => \/ written_id = None /\ written_id' \in 0 .. frame_id_g - 1
              \/ written_id' = written_id + MOTION_FRAMES_SEC]_vars
  <2> SUFFICES ASSUME IInv, [Next]_vars, ~ UNCHANGED total_frames_written_g,
                      overrun = 0, wo_overrun = 0
               PROVE  \/ written_id = None /\ written_id' \in 0 .. frame_id_g - 1
                      \/ written_id' = written_id + MOTION_FRAMES_SEC
    OBVIOUS
  <2>1. WriteFile
    BY OnlyWriteFile DEF IInv
  <2>2. WritingContent
    BY DEF IInv, ContentInv
  <2> QED
    BY <2>1, <2>2 DEF WriteFile, WritingContent
<1> QED
  BY <1>1, Invariance, PTL DEF Spec, WrittenSpacing

\* The three threads implement the promise of TickPhotos.
THEOREM Implements == Spec => ImplementsTickPhotos
<1>1. Init => Photos!Init
  BY DEF Init, Photos!Init, None, Photos!None
<1>2. IInv /\ [Next]_vars => [Photos!Next]_(Photos!vars)
  <2> SUFFICES ASSUME IInv, [Next]_vars PROVE [Photos!Next]_(Photos!vars)
    OBVIOUS
  <2>0. TypeOK
    BY DEF IInv
  <2> USE DEF frameVars, frameQVars, procVars, writeQVars, writeVars, historyVars
  <2>1. CASE FrameCopyEnd
    BY <2>1 DEF FrameCopyEnd, Photos!Next, Photos!Capture
  <2>2. CASE FrameCopyBegin \/ ProcCopyBegin
    BY <2>0, <2>2 DEF FrameCopyBegin, ProcCopyBegin, TypeOK, Photos!Next, Photos!Degrade, Photos!vars
  <2>3. CASE WriteFile
    <3>1. CASE overrun = 0 /\ wo_overrun = 0
      <4>1. WritingContent
        BY <3>1 DEF IInv, ContentInv
      <4> QED
        BY <2>3, <3>1, <4>1 DEF WriteFile, WritingContent, Photos!Next, Photos!TakePhoto,
           None, Photos!None
    <3>2. CASE ~(overrun = 0 /\ wo_overrun = 0)
      <4>1. wo_buffers[wo_index] \in {Mixed} \cup 0 .. frame_id_g - 1
        BY <2>0, <2>3 DEF IInv, WoFilled, Captured, WriteFile, TypeOK, None, Mixed
      <4> QED
        BY <2>3, <3>2, <4>1 DEF WriteFile, Photos!Next, Photos!TakePoorPhoto, Mixed, Photos!Mixed
    <3> QED
      BY <3>1, <3>2
  <2>4. CASE UNCHANGED <<frame_id_g, written_id, total_frames_written_g, overrun, wo_overrun>>
    BY <2>4 DEF Photos!vars
  <2> QED
    BY <2>1, <2>2, <2>3, <2>4 DEF Next, FrameNext, ProcNext, WriteNext, FrameLoop, FrameFails,
       FrameEnqueue, FrameSend, FrameSendFails, ProcStart, ProcStop,
       ProcDequeue, ProcReceive, ProcReceiveFails, ProcCompare, ProcCopyEnd,
       ProcEnqueue, ProcEnqueueFull, ProcSend, ProcSendFails, WriteStart, WriteStop,
       WriteDequeue, WriteReceive, WriteReceiveFails, StopRequested, vars
<1> QED
  BY <1>1, <1>2, Invariance, PTL DEF Spec, ImplementsTickPhotos, Photos!Spec

=============================================================================
