------------------------------ MODULE Pipeline ------------------------------
(***************************************************************************)
(* The image path of the synchronome in its default build (1 Hz, one time  *)
(* sync).  Three threads pass buffers by index:                            *)
(*                                                                         *)
(*   frame()       copies a camera buffer into the next slot of the scan   *)
(*                 ring and sends the slot's index on frame_Q;             *)
(*   processing()  receives indexes, looks for the tick while it starts    *)
(*                 up, then selects every MOTION_FRAMES_SEC-th frame,      *)
(*                 copies it into the write-out ring and sends that index  *)
(*                 on writeout_Q;                                          *)
(*   writeout()    receives indexes and writes the picture to flash.       *)
(*                                                                         *)
(* The two rings have exactly as many slots as their queues have entries   *)
(* and nothing but the queue's occupancy tells a writer that a slot is     *)
(* free, so every copy into or out of a slot has a begin and an end here.  *)
(*                                                                         *)
(* Abstractions.  Pixels are left out: a slot holds the id of the frame    *)
(* in it, or Mixed while it is being overwritten.  What the motion         *)
(* detector says of a pair of frames is a choice (module Selection has     *)
(* it).  A send and a receive on a queue are one step each, as are the     *)
(* increment and the decrement of its counter (module MsgQueue splits      *)
(* them).                                                                  *)
(***************************************************************************)
EXTENDS Integers, Sequences

CONSTANTS SCAN_BUF_SIZE,         \* slots of the scan ring and entries of frame_Q
          NUM_WO_BUF,            \* slots of the write-out ring and entries of writeout_Q
          MOTION_FRAMES_SEC,     \* frames from one selection to the next
          MOTION_FRAMES_DRIFT,   \* how far from that a count may be
          WRITEOUT_TOTAL_FRAMES, \* writeout() stops the program after so many
          Frames                 \* bound: the frames the camera delivers

ASSUME PipelineAssumption ==
    /\ SCAN_BUF_SIZE \in Nat /\ SCAN_BUF_SIZE >= 3
    /\ NUM_WO_BUF \in Nat /\ NUM_WO_BUF >= 2
    /\ MOTION_FRAMES_SEC \in Nat \ {0}
    /\ MOTION_FRAMES_DRIFT \in Nat
    /\ WRITEOUT_TOTAL_FRAMES \in Nat \ {0}
    /\ Frames \in Nat

None  == -1       \* no frame, no index
Mixed == -2       \* a slot in the middle of being overwritten

VARIABLES
    running,             \* cleared by ctrl-c, by a thread's error exit, by writeout()
    \* frame()
    fpc, scan_buffer, scan_buffer_index, frame_id_g, total_frames_queued_g,
    \* frame_Q: the message queue and its sanity check counter
    frame_Q, frame_Q_count,
    \* processing()
    ppc, current_index, last_buffer_index, is_startup, num_frames_till_selection,
    wo_buffers, wo_buffer_index, total_frames_selected_g,
    \* writeout_Q
    writeout_Q, writeout_Q_count,
    \* writeout(); written_id is the id in the last file written
    wpc, wo_index, written_id, total_frames_written_g,
    \* history: a writer began to overwrite a slot that was still needed
    overrun, wo_overrun

frameVars   == <<fpc, scan_buffer, scan_buffer_index, frame_id_g, total_frames_queued_g>>
frameQVars  == <<frame_Q, frame_Q_count>>
procVars    == <<ppc, current_index, last_buffer_index, is_startup,
                 num_frames_till_selection, wo_buffers, wo_buffer_index,
                 total_frames_selected_g>>
writeQVars  == <<writeout_Q, writeout_Q_count>>
writeVars   == <<wpc, wo_index, written_id, total_frames_written_g>>
historyVars == <<overrun, wo_overrun>>
vars == <<running, frameVars, frameQVars, procVars, writeQVars, writeVars, historyVars>>

ScanSlots == 0 .. SCAN_BUF_SIZE - 1
WoSlots   == 0 .. NUM_WO_BUF - 1

\* a mistake in Advance: the wrap one slot early
AdvanceEarlyWrap(i, n) == IF i + 2 = n THEN 0 ELSE i + 1

\* "ghetto circular buffer": the index after i in a ring of n slots
Advance(i, n) == IF i + 1 = n THEN 0 ELSE i + 1

Init ==
    /\ running = 1
    /\ fpc = "top"
    /\ scan_buffer = [s \in ScanSlots |-> None]
    /\ scan_buffer_index = 0
    /\ frame_id_g = 0
    /\ total_frames_queued_g = 0
    /\ frame_Q = <<>> /\ frame_Q_count = 0
    /\ ppc = "start"
    /\ current_index = 0           \* local, set by the first receive before it is read
    /\ last_buffer_index = None
    /\ is_startup = 1
    /\ num_frames_till_selection = 0
    /\ wo_buffers = [s \in WoSlots |-> None]
    /\ wo_buffer_index = 0
    /\ total_frames_selected_g = 0
    /\ writeout_Q = <<>> /\ writeout_Q_count = 0
    /\ wpc = "start"
    /\ wo_index = 0                \* as current_index
    /\ written_id = None
    /\ total_frames_written_g = 0
    /\ overrun = 0 /\ wo_overrun = 0

-----------------------------------------------------------------------------
(* frame() *)

\* while(running), then sem_wait(&sem_framegrab) until the sequencer posts
FrameLoop ==
    /\ fpc = "top"
    /\ fpc' = IF running = 1 THEN "wait" ELSE "done"
    /\ UNCHANGED <<running, scan_buffer, scan_buffer_index, frame_id_g,
                   total_frames_queued_g, frameQVars, procVars, writeQVars,
                   writeVars, historyVars>>

\* sem_wait or VIDIOC_DQBUF fails: error_exit
FrameFails ==
    /\ fpc = "wait"
    /\ fpc' = "done"
    /\ running' = 0
    /\ UNCHANGED <<scan_buffer, scan_buffer_index, frame_id_g,
                   total_frames_queued_g, frameQVars, procVars, writeQVars,
                   writeVars, historyVars>>

\* slots whose content processing() still needs: the frame it examines, and the
\* one before it for as long as frames are compared
ScanInUse ==
    {frame_Q[k] : k \in 1 .. Len(frame_Q)}
      \cup (IF ppc \in {"compare", "select", "copy"} THEN {current_index} ELSE {})
      \cup (IF is_startup = 1 /\ last_buffer_index # None THEN {last_buffer_index} ELSE {})

\* a camera buffer is dequeued and COPY_BUFFER starts on the next slot; nothing
\* looks whether that slot is free
FrameCopyBegin ==
    /\ fpc = "wait"
    /\ frame_id_g < Frames
    /\ fpc' = "copy"
    /\ scan_buffer' = [scan_buffer EXCEPT ![scan_buffer_index] = Mixed]
    /\ overrun' = IF scan_buffer_index \in ScanInUse THEN 1 ELSE overrun
    /\ UNCHANGED <<running, scan_buffer_index, frame_id_g, total_frames_queued_g,
                   frameQVars, procVars, writeQVars, writeVars, wo_overrun>>

FrameCopyEnd ==
    /\ fpc = "copy"
    /\ fpc' = "enqueue"
    /\ scan_buffer' = [scan_buffer EXCEPT ![scan_buffer_index] = frame_id_g]
    /\ frame_id_g' = frame_id_g + 1
    /\ UNCHANGED <<running, scan_buffer_index, total_frames_queued_g,
                   frameQVars, procVars, writeQVars, writeVars, historyVars>>

\* enqueue_P up to the counter: rejected when the counter says full
FrameEnqueue ==
    /\ fpc = "enqueue"
    /\ IF frame_Q_count = SCAN_BUF_SIZE
         THEN fpc' = "done" /\ running' = 0 /\ UNCHANGED frame_Q_count
         ELSE fpc' = "send" /\ UNCHANGED running
              /\ frame_Q_count' = frame_Q_count + 1
    /\ UNCHANGED <<scan_buffer, scan_buffer_index, frame_id_g,
                   total_frames_queued_g, frame_Q, procVars, writeQVars,
                   writeVars, historyVars>>

\* the message is sent, the ring index advances, the camera buffer goes back
\* with VIDIOC_QBUF, which may fail
FrameSend ==
    /\ fpc = "send"
    /\ Len(frame_Q) < SCAN_BUF_SIZE
    /\ frame_Q' = Append(frame_Q, scan_buffer_index)
    /\ scan_buffer_index' = Advance(scan_buffer_index, SCAN_BUF_SIZE)
    /\ \/ /\ fpc' = "top"
          /\ total_frames_queued_g' = total_frames_queued_g + 1
          /\ UNCHANGED running
       \/ /\ fpc' = "done"
          /\ running' = 0
          /\ UNCHANGED total_frames_queued_g
    /\ UNCHANGED <<scan_buffer, frame_id_g, frame_Q_count, procVars, writeQVars,
                   writeVars, historyVars>>

\* mq_timedsend gives up on a full queue: error_exit, the counter stays raised
FrameSendFails ==
    /\ fpc = "send"
    /\ Len(frame_Q) = SCAN_BUF_SIZE
    /\ fpc' = "done"
    /\ running' = 0
    /\ UNCHANGED <<scan_buffer, scan_buffer_index, frame_id_g,
                   total_frames_queued_g, frameQVars, procVars, writeQVars,
                   writeVars, historyVars>>

-----------------------------------------------------------------------------
(* processing() *)

\* one sem_wait and the change of priority, either of which may fail
ProcStart ==
    /\ ppc = "start"
    /\ \/ ppc' = "outer" /\ UNCHANGED running
       \/ ppc' = "done" /\ running' = 0
    /\ UNCHANGED <<frameVars, frameQVars, current_index, last_buffer_index,
                   is_startup, num_frames_till_selection, wo_buffers,
                   wo_buffer_index, total_frames_selected_g, writeQVars,
                   writeVars, historyVars>>

\* while(running); the inner while(1) does not look at running
ProcStop ==
    /\ ppc = "outer" /\ running = 0
    /\ ppc' = "done"
    /\ UNCHANGED <<running, frameVars, frameQVars, current_index,
                   last_buffer_index, is_startup, num_frames_till_selection,
                   wo_buffers, wo_buffer_index, total_frames_selected_g,
                   writeQVars, writeVars, historyVars>>

\* a mistake in ProcDequeue: the counter is not lowered
ProcDequeueKeepsCount ==
    /\ ppc = "inner" \/ (ppc = "outer" /\ running = 1)
    /\ ppc' = "receive"
    /\ UNCHANGED <<running, frameVars, frameQVars, current_index, last_buffer_index,
                   is_startup, num_frames_till_selection, wo_buffers,
                   wo_buffer_index, total_frames_selected_g, writeQVars,
                   writeVars, historyVars>>

\* dequeue_P lowers the counter before it blocks
ProcDequeue ==
    /\ ppc = "inner" \/ (ppc = "outer" /\ running = 1)
    /\ ppc' = "receive"
    /\ frame_Q_count' = frame_Q_count - 1
    /\ UNCHANGED <<running, frameVars, frame_Q, current_index, last_buffer_index,
                   is_startup, num_frames_till_selection, wo_buffers,
                   wo_buffer_index, total_frames_selected_g, writeQVars,
                   writeVars, historyVars>>

\* an index arrives.  The first one is only kept; while starting up the frame is
\* compared with the one before; afterwards only the count matters
ProcReceive ==
    /\ ppc = "receive"
    /\ frame_Q # <<>>
    /\ frame_Q' = Tail(frame_Q)
    /\ current_index' = Head(frame_Q)
    /\ \/ /\ last_buffer_index = None
          /\ ppc' = "outer"
          /\ last_buffer_index' = Head(frame_Q)
          /\ num_frames_till_selection' = 0
       \/ /\ last_buffer_index # None
          /\ num_frames_till_selection' = num_frames_till_selection + 1
          /\ \/ /\ is_startup = 1
                /\ ppc' = "compare"
                /\ UNCHANGED last_buffer_index
             \/ /\ is_startup = 0
                /\ num_frames_till_selection + 1 = MOTION_FRAMES_SEC
                /\ ppc' = "select"
                /\ UNCHANGED last_buffer_index
             \/ /\ is_startup = 0
                /\ num_frames_till_selection + 1 # MOTION_FRAMES_SEC
                /\ ppc' = "inner"
                /\ last_buffer_index' = Head(frame_Q)
    /\ UNCHANGED <<running, frameVars, frame_Q_count, is_startup, wo_buffers,
                   wo_buffer_index, total_frames_selected_g, writeQVars,
                   writeVars, historyVars>>

\* mq_receive is interrupted while it blocks on an empty queue: error_exit
ProcReceiveFails ==
    /\ ppc = "receive"
    /\ frame_Q = <<>>
    /\ ppc' = "done"
    /\ running' = 0
    /\ UNCHANGED <<frameVars, frameQVars, current_index, last_buffer_index,
                   is_startup, num_frames_till_selection, wo_buffers,
                   wo_buffer_index, total_frames_selected_g, writeQVars,
                   writeVars, historyVars>>

\* frame_changes on the two slots: no tick; a tick that does not complete the
\* sync; or the tick that does.  The last one falls through to the check of the
\* count, and a count out of range freezes the system
ProcCompare ==
    /\ ppc = "compare"
    /\ last_buffer_index' = current_index
    /\ \/ /\ ppc' = "inner"
          /\ UNCHANGED <<is_startup, num_frames_till_selection>>
       \/ /\ ppc' = "outer"
          /\ num_frames_till_selection' = 0
          /\ UNCHANGED is_startup
       \/ /\ is_startup' = 0
          /\ IF num_frames_till_selection \in MOTION_FRAMES_SEC - MOTION_FRAMES_DRIFT ..
                                             MOTION_FRAMES_SEC + MOTION_FRAMES_DRIFT
               THEN ppc' = "outer" /\ num_frames_till_selection' = 0
               ELSE ppc' = "frozen" /\ UNCHANGED num_frames_till_selection
    /\ UNCHANGED <<running, frameVars, frameQVars, current_index, wo_buffers,
                   wo_buffer_index, total_frames_selected_g, writeQVars,
                   writeVars, historyVars>>

\* slots of the write-out ring that hold pictures not yet on flash
WoInUse ==
    {writeout_Q[k] : k \in 1 .. Len(writeout_Q)}
      \cup (IF wpc = "write" THEN {wo_index} ELSE {})

ProcCopyBegin ==
    /\ ppc = "select"
    /\ ppc' = "copy"
    /\ wo_buffers' = [wo_buffers EXCEPT ![wo_buffer_index] = Mixed]
    /\ wo_overrun' = IF wo_buffer_index \in WoInUse THEN 1 ELSE wo_overrun
    /\ UNCHANGED <<running, frameVars, frameQVars, current_index,
                   last_buffer_index, is_startup, num_frames_till_selection,
                   wo_buffer_index, total_frames_selected_g, writeQVars,
                   writeVars, overrun>>

ProcCopyEnd ==
    /\ ppc = "copy"
    /\ ppc' = "enqueue"
    /\ wo_buffers' = [wo_buffers EXCEPT ![wo_buffer_index] = scan_buffer[current_index]]
    /\ UNCHANGED <<running, frameVars, frameQVars, current_index,
                   last_buffer_index, is_startup, num_frames_till_selection,
                   wo_buffer_index, total_frames_selected_g, writeQVars,
                   writeVars, historyVars>>

\* mistakes in Selected: the frame just selected counts as the first of the next
\* round, and the selection is not counted
SelectedFromOne ==
    /\ ppc' = "outer"
    /\ total_frames_selected_g' = total_frames_selected_g + 1
    /\ wo_buffer_index' = Advance(wo_buffer_index, NUM_WO_BUF)
    /\ last_buffer_index' = current_index
    /\ num_frames_till_selection' = 1

SelectedUncounted ==
    /\ ppc' = "outer"
    /\ wo_buffer_index' = Advance(wo_buffer_index, NUM_WO_BUF)
    /\ last_buffer_index' = current_index
    /\ num_frames_till_selection' = 0
    /\ UNCHANGED total_frames_selected_g

\* what follows enqueue_P whatever it returned: its result is not looked at
Selected ==
    /\ ppc' = "outer"
    /\ total_frames_selected_g' = total_frames_selected_g + 1
    /\ wo_buffer_index' = Advance(wo_buffer_index, NUM_WO_BUF)
    /\ last_buffer_index' = current_index
    /\ num_frames_till_selection' = 0

ProcEnqueue ==
    /\ ppc = "enqueue"
    /\ writeout_Q_count # NUM_WO_BUF
    /\ ppc' = "send"
    /\ writeout_Q_count' = writeout_Q_count + 1
    /\ UNCHANGED <<running, frameVars, frameQVars, current_index,
                   last_buffer_index, is_startup, num_frames_till_selection,
                   wo_buffers, wo_buffer_index, total_frames_selected_g,
                   writeout_Q, writeVars, historyVars>>

ProcEnqueueFull ==
    /\ ppc = "enqueue"
    /\ writeout_Q_count = NUM_WO_BUF
    /\ Selected
    /\ UNCHANGED <<running, frameVars, frameQVars, current_index, is_startup,
                   wo_buffers, writeQVars, writeVars, historyVars>>

\* a mistake in ProcSend: the message is not sent
ProcSendLost ==
    /\ ppc = "send"
    /\ Len(writeout_Q) < NUM_WO_BUF
    /\ Selected
    /\ UNCHANGED <<running, frameVars, frameQVars, current_index, is_startup,
                   wo_buffers, writeQVars, writeVars, historyVars>>

ProcSend ==
    /\ ppc = "send"
    /\ Len(writeout_Q) < NUM_WO_BUF
    /\ writeout_Q' = Append(writeout_Q, wo_buffer_index)
    /\ Selected
    /\ UNCHANGED <<running, frameVars, frameQVars, current_index, is_startup,
                   wo_buffers, writeout_Q_count, writeVars, historyVars>>

\* the send times out: the picture is lost and the counter stays raised
ProcSendFails ==
    /\ ppc = "send"
    /\ Len(writeout_Q) = NUM_WO_BUF
    /\ Selected
    /\ UNCHANGED <<running, frameVars, frameQVars, current_index, is_startup,
                   wo_buffers, writeQVars, writeVars, historyVars>>

-----------------------------------------------------------------------------
(* writeout() *)

WriteStart ==
    /\ wpc = "start"
    /\ \/ wpc' = "top" /\ UNCHANGED running
       \/ wpc' = "done" /\ running' = 0
    /\ UNCHANGED <<frameVars, frameQVars, procVars, writeQVars, wo_index,
                   written_id, total_frames_written_g, historyVars>>

WriteStop ==
    /\ wpc = "top" /\ running = 0
    /\ wpc' = "done"
    /\ UNCHANGED <<running, frameVars, frameQVars, procVars, writeQVars, wo_index,
                   written_id, total_frames_written_g, historyVars>>

WriteDequeue ==
    /\ wpc = "top" /\ running = 1
    /\ wpc' = "receive"
    /\ writeout_Q_count' = writeout_Q_count - 1
    /\ UNCHANGED <<running, frameVars, frameQVars, procVars, writeout_Q, wo_index,
                   written_id, total_frames_written_g, historyVars>>

WriteReceive ==
    /\ wpc = "receive"
    /\ writeout_Q # <<>>
    /\ wpc' = "write"
    /\ wo_index' = Head(writeout_Q)
    /\ writeout_Q' = Tail(writeout_Q)
    /\ UNCHANGED <<running, frameVars, frameQVars, procVars, writeout_Q_count,
                   written_id, total_frames_written_g, historyVars>>

WriteReceiveFails ==
    /\ wpc = "receive"
    /\ writeout_Q = <<>>
    /\ wpc' = "done"
    /\ running' = 0
    /\ UNCHANGED <<frameVars, frameQVars, procVars, writeQVars, wo_index,
                   written_id, total_frames_written_g, historyVars>>

\* a mistake in WriteFile: the slot being filled is written, not the one received
WriteFileNewest ==
    /\ wpc = "write"
    /\ written_id' = wo_buffers[wo_buffer_index]
    /\ total_frames_written_g' = total_frames_written_g + 1
    /\ wpc' = "top"
    /\ UNCHANGED <<running, frameVars, frameQVars, procVars, writeQVars, wo_index,
                   historyVars>>

\* do_transformations ends with the file named after the id in the slot
WriteFile ==
    /\ wpc = "write"
    /\ written_id' = wo_buffers[wo_index]
    /\ total_frames_written_g' = total_frames_written_g + 1
    /\ IF total_frames_written_g + 1 = WRITEOUT_TOTAL_FRAMES
         THEN wpc' = "done" /\ running' = 0
         ELSE wpc' = "top" /\ UNCHANGED running
    /\ UNCHANGED <<frameVars, frameQVars, procVars, writeQVars, wo_index,
                   historyVars>>

-----------------------------------------------------------------------------
\* ctrl-c or RT_SIGDEBUG: a signal handler clears running
StopRequested ==
    /\ running = 1
    /\ running' = 0
    /\ UNCHANGED <<frameVars, frameQVars, procVars, writeQVars, writeVars,
                   historyVars>>

FrameNext == \/ FrameLoop \/ FrameFails \/ FrameCopyBegin \/ FrameCopyEnd
             \/ FrameEnqueue \/ FrameSend \/ FrameSendFails
ProcNext  == \/ ProcStart \/ ProcStop \/ ProcDequeue \/ ProcReceive
             \/ ProcReceiveFails \/ ProcCompare \/ ProcCopyBegin \/ ProcCopyEnd
             \/ ProcEnqueue \/ ProcEnqueueFull \/ ProcSend \/ ProcSendFails
WriteNext == \/ WriteStart \/ WriteStop \/ WriteDequeue \/ WriteReceive
             \/ WriteReceiveFails \/ WriteFile

Next == FrameNext \/ ProcNext \/ WriteNext \/ StopRequested

Spec == Init /\ [][Next]_vars

\* processing() and writeout() are runnable whenever they are not blocked in a
\* queue; nothing is promised about interruptions, time-outs or the camera
Fairness ==
    /\ WF_vars(ProcStart \/ ProcStop \/ ProcDequeue \/ ProcReceive \/ ProcCompare
                \/ ProcCopyBegin \/ ProcCopyEnd \/ ProcEnqueue \/ ProcEnqueueFull
                \/ ProcSend)
    /\ WF_vars(WriteStart \/ WriteStop \/ WriteDequeue \/ WriteReceive \/ WriteFile)

FairSpec == Spec /\ Fairness

-----------------------------------------------------------------------------
(* Properties *)

TypeOK ==
    /\ running \in {0, 1}
    /\ fpc \in {"top", "wait", "copy", "enqueue", "send", "done"}
    /\ scan_buffer \in [ScanSlots -> Int]
    /\ scan_buffer_index \in ScanSlots
    /\ frame_id_g \in Nat
    /\ total_frames_queued_g \in Nat
    /\ frame_Q \in Seq(ScanSlots) /\ Len(frame_Q) <= SCAN_BUF_SIZE
    /\ frame_Q_count \in Int
    /\ ppc \in {"start", "outer", "inner", "receive", "compare", "select", "copy",
                "enqueue", "send", "frozen", "done"}
    /\ current_index \in ScanSlots
    /\ last_buffer_index \in ScanSlots \cup {None}
    /\ is_startup \in {0, 1}
    /\ num_frames_till_selection \in Nat
    /\ wo_buffers \in [WoSlots -> Int]
    /\ wo_buffer_index \in WoSlots
    /\ total_frames_selected_g \in Nat
    /\ writeout_Q \in Seq(WoSlots) /\ Len(writeout_Q) <= NUM_WO_BUF
    /\ writeout_Q_count \in Int
    /\ wpc \in {"start", "top", "receive", "write", "done"}
    /\ wo_index \in WoSlots
    /\ written_id \in Int
    /\ total_frames_written_g \in Nat
    /\ overrun \in {0, 1}
    /\ wo_overrun \in {0, 1}

\* The slot k places behind i in a ring of n slots, for k in 0 .. n
Back(i, k, n) == IF i >= k THEN i - k ELSE i - k + n

\* The indexes waiting in frame_Q are the consecutive slots that end just behind
\* the slot frame() fills next, whatever failed and wherever the ring wrapped.
FrameQueueContiguous ==
    \A k \in 1 .. Len(frame_Q) :
        frame_Q[k] = Back(scan_buffer_index, Len(frame_Q) - k + 1, SCAN_BUF_SIZE)

\* frame() overwrites a slot that processing() still needs only when at least
\* SCAN_BUF_SIZE - 2 frames wait in frame_Q: that is all the time processing()
\* has to fall behind, three and a half seconds with the program's numbers.
ScanHeadroom ==
    [][overrun' = 1 /\ overrun = 0 => Len(frame_Q) >= SCAN_BUF_SIZE - 2]_vars

\* The same for the write-out ring: a picture that is not yet on flash is
\* overwritten only when the queue is full or one short of it.
WriteoutHeadroom ==
    [][wo_overrun' = 1 /\ wo_overrun = 0 => Len(writeout_Q) >= NUM_WO_BUF - 1]_vars

\* Both: a ring is overrun only by a consumer late by nearly the whole ring.
Headroom == ScanHeadroom /\ WriteoutHeadroom

\* The "(safety) enqueue_P full" test and the time-out of the send come too late
\* to protect the ring: when either of them stops frame(), or drops a picture of
\* processing(), a slot that was still needed has already been overwritten.
FullCheckTooLate ==
    /\ fpc = "enqueue" /\ frame_Q_count = SCAN_BUF_SIZE => overrun = 1
    /\ fpc = "send" /\ Len(frame_Q) = SCAN_BUF_SIZE => overrun = 1
    /\ ppc = "enqueue" /\ writeout_Q_count = NUM_WO_BUF => wo_overrun = 1
    /\ ppc = "send" /\ Len(writeout_Q) = NUM_WO_BUF => wo_overrun = 1

\* As long as no needed slot was overwritten, each file on flash is the frame
\* exactly MOTION_FRAMES_SEC after the one written before it: no frame lost,
\* doubled, torn or out of order on the way through both rings and queues.
WrittenSpacing ==
    [][total_frames_written_g' # total_frames_written_g /\ overrun = 0 /\ wo_overrun = 0
         => \/ written_id = None /\ written_id' \in 0 .. frame_id_g - 1
            \/ written_id' = written_id + MOTION_FRAMES_SEC]_vars

\* Every picture counted as selected is written, waiting, or was refused by a
\* queue that had overrun: without an overrun none disappears.
SelectedAccounted ==
    wo_overrun = 0 =>
        total_frames_selected_g = total_frames_written_g + Len(writeout_Q)
                                    + (IF wpc = "write" THEN 1 ELSE 0)

\* The pipeline keeps the promise of TickPhotos: the spacing for as long as no
\* slot was overwritten too early, and never a picture from an empty slot.
Photos == INSTANCE TickPhotos WITH
              Spacing  <- MOTION_FRAMES_SEC,
              captured <- frame_id_g,
              photo    <- written_id,
              photos   <- total_frames_written_g,
              degraded <- IF overrun = 0 /\ wo_overrun = 0 THEN 0 ELSE 1

ImplementsTickPhotos == Photos!Spec

\* While the program runs, every picture put into the write-out ring before an
\* overrun reaches flash.
SelectedIsWritten ==
    \A n \in 1 .. Frames :
        (total_frames_selected_g >= n /\ wo_overrun = 0)
            ~> (total_frames_written_g >= n \/ running = 0 \/ wo_overrun = 1)

=============================================================================
