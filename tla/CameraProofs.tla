---------------------------- MODULE CameraProofs ----------------------------
(***************************************************************************)
(* Proofs about the camera's set-up, its cleanup and the handover of its   *)
(* buffers, for every number of buffers and of pictures.                   *)
(***************************************************************************)
EXTENDS Camera, FiniteSetTheorems, TLAPS

-----------------------------------------------------------------------------
(* The inductive invariant *)

NotOpened == {"scan", "wo_ring", "open"}
NotMapped == NotOpened \cup {"check", "request"}
Enqueued  == {"wo", "er", "stream"}
AllMapped == {"enqueue", "refocus", "run"} \cup Enqueued

\* video_error_cleanup runs on an open camera, and ends with a closed one.
FdInv ==
    /\ fd # "bad"
    /\ mpc \in NotOpened => fd = "none"
    /\ mpc \in AllMapped \cup {"check", "request", "map"} => fd = "open" /\ level = NotCalled
    /\ mpc \in NotOpened => level = NotCalled
    /\ level = NotCalled => failed = "none"
    /\ mpc = "cleanup" => level >= ERROR_LEVEL_0
    /\ mpc \in {"free", "exited"} => level \in {NotCalled, ERROR_LEVEL_0}
    /\ level >= ERROR_LEVEL_1 => fd = "open"
    /\ level = ERROR_LEVEL_0 => fd = "closed"

\* The singles are freed by level 3 and by nothing else, the rings at the very end.
HeapInv ==
    /\ \A r \in Rings : heap[r] # "bad" /\ (mpc # "exited" => heap[r] # "freed")
    /\ \A r \in Singles :
         /\ heap[r] # "bad"
         /\ mpc \in NotMapped \cup {"map", "enqueue", "wo"} => heap[r] = "null"
         /\ heap[r] = "freed" => level \in ERROR_LEVEL_0 .. ERROR_LEVEL_2
         /\ heap[r] = "held" => level \notin ERROR_LEVEL_0 .. ERROR_LEVEL_2

\* What is mapped when; after a failed mmap nothing is.
MapInv ==
    /\ mpc \in NotMapped => num_buffers = 0
    /\ num_buffers = 0 => \A b \in Buffers : mapping[b] = "null"
    /\ mpc = "map" => /\ num_buffers = CAMERA_NUM_BUF /\ i < CAMERA_NUM_BUF
                      /\ \A b \in Buffers : mapping[b] = IF b < i THEN "mapped" ELSE "null"
    /\ mpc \in AllMapped \/ level >= ERROR_LEVEL_3 =>
           /\ num_buffers = CAMERA_NUM_BUF /\ failed # "mmap"
           /\ \A b \in Buffers : mapping[b] = "mapped"
    /\ level = NotCalled => \A b \in Buffers : mapping[b] \in {"null", "mapped"}
    /\ level = ERROR_LEVEL_2 =>
           \A b \in Buffers : IF failed = "mmap" THEN mapping[b] # "mapped"
                                                ELSE mapping[b] \in {"null", "mapped"}
    /\ level \in {ERROR_LEVEL_0, ERROR_LEVEL_1} =>
           \A b \in Buffers : /\ mapping[b] # "mapped"
                              /\ failed # "mmap" => mapping[b] # "bad"

\* What the driver has when; without a type it cannot be asked to free it.
DriverInv ==
    /\ queued \cap filled = {}
    /\ mpc \in NotMapped \cup {"map"} => camera_enqueue_count = 0
    /\ mpc \in NotMapped \cup {"map", "enqueue"} \cup Enqueued => streaming = 0 /\ filled = {}
    /\ mpc = "map" => queued = {}
    /\ mpc = "enqueue" => /\ i < CAMERA_NUM_BUF
                          /\ queued = 0 .. i - 1 /\ camera_enqueue_count = i
    /\ mpc \in Enqueued => queued = Buffers /\ camera_enqueue_count = CAMERA_NUM_BUF
    /\ mpc = "refocus" => /\ streaming = 1 /\ queued \cup filled = Buffers
                          /\ camera_enqueue_count = CAMERA_NUM_BUF
    /\ num_buffers = 0 => /\ streaming = 0 /\ queued = {} /\ filled = {}
                          /\ requested = 1 => failed = "short"
    /\ level \in {ERROR_LEVEL_0, ERROR_LEVEL_1} => /\ streaming = 0 /\ queued = {} /\ filled = {}
                                                   /\ requested = 1 => failed = "short"
    /\ level = ERROR_LEVEL_0 => requested = 0
    /\ mpc \in NotMapped => requested = 0

\* frame() and main() do not use the camera at the same time.
FrameInv ==
    /\ fpc = "none" => mpc \notin {"run"}
    /\ fpc # "none" => mpc \in {"run", "cleanup", "free", "exited"}
    /\ fpc \notin {"none", "done"} => level = NotCalled
    /\ fpc \in {"copy", "requeue"} => current \in Buffers
    /\ fpc \in {"none", "wait", "dequeue"} => current = NoBuf
    /\ current \notin queued \cup filled
    /\ FrameAlive =>
         /\ streaming = 1 /\ num_buffers > 0 /\ \A b \in Buffers : mapping[b] = "mapped"
         /\ queued \cup filled = Buffers \ {current}
         /\ camera_enqueue_count = IF current = NoBuf THEN CAMERA_NUM_BUF
                                                      ELSE CAMERA_NUM_BUF - 1

\* The pictures waiting are newer than the one frame() has, which is newer than
\* the last.
PictureInv ==
    /\ got <= taken
    /\ \A b \in Buffers : content[b] <= taken
    /\ \A b \in filled : content[b] > got
    /\ \A b, c \in filled : b # c => content[b] # content[c]
    /\ fpc = "copy" => /\ content[current] > got
                       /\ \A b \in filled : content[b] > content[current]

CameraInv == /\ TypeOK /\ FdInv /\ HeapInv /\ MapInv /\ DriverInv /\ FrameInv /\ PictureInv

-----------------------------------------------------------------------------
(* Proofs *)

\* The steps of main() and of frame() that do not touch the driver.
OffDriver == \/ InitProcessing \/ InitWriteout \/ OpenCamera \/ AllocateSingles \/ Refocus
             \/ TimerFails \/ JoinFrame \/ FreeRings \/ CleanupSingles \/ CleanupReturns
             \/ FrameWait \/ FrameCopy

\* The steps that are not main()'s.
OffMain == FrameWait \/ CameraDequeue \/ FrameCopy \/ FrameRequeue \/ TakePicture

\* The steps that are not frame()'s and do not start it.
OffFrame == \/ InitProcessing \/ InitWriteout \/ OpenCamera \/ CheckInit \/ RequestBuffers
            \/ MapBuffer \/ EnqueueBuffer \/ AllocateSingles \/ StartStreaming
            \/ TimerFails \/ JoinFrame \/ FreeRings \/ CleanupStream \/ CleanupSingles
            \/ CleanupBuffers \/ CleanupClose \/ CleanupReturns \/ TakePicture

LEMMA OffDriverStep ==
    ASSUME OffDriver PROVE UNCHANGED <<driverVars, picVars, camera_enqueue_count>>
BY DEF OffDriver, InitProcessing, InitWriteout, OpenCamera, AllocateSingles, AllocateSingle,
       Refocus, TimerFails, JoinFrame, FreeRings, CleanupSingles, CleanupReturns, FrameWait,
       FrameCopy

LEMMA OffMainStep == ASSUME OffMain PROVE UNCHANGED <<mainVars, memVars, fd>>
BY DEF OffMain, FrameWait, CameraDequeue, FrameCopy, FrameRequeue, TakePicture

LEMMA OffFrameStep == ASSUME OffFrame PROVE UNCHANGED frameVars
BY DEF OffFrame, InitProcessing, InitWriteout, OpenCamera, CheckInit, RequestBuffers, MapBuffer,
       EnqueueBuffer, AllocateSingles, AllocateSingle, StartStreaming, TimerFails, JoinFrame,
       FreeRings, CleanupStream, CleanupSingles, CleanupBuffers, CleanupClose, CleanupReturns,
       TakePicture

-----------------------------------------------------------------------------
(* Types *)

LEMMA MainTypeStep == ASSUME CameraInv, Next PROVE MainTypeOK'
<1> USE DEF CameraInv, TypeOK
<1>1. CASE OffMain
  BY <1>1, OffMainStep DEF MainTypeOK, mainVars
<1>2. CASE InitProcessing \/ InitWriteout \/ OpenCamera \/ CheckInit
  BY <1>2 DEF InitProcessing, InitWriteout, OpenCamera, CheckInit, Proceed, Fail, MainTypeOK,
     NotCalled, ERROR_LEVEL_0, ERROR_FULL_INIT
<1>3. CASE RequestBuffers
  BY <1>3, CameraAssumption DEF RequestBuffers, Proceed, Fail, MainTypeOK,
     NotCalled, ERROR_LEVEL_2, ERROR_FULL_INIT
<1>4. CASE MapBuffer
  BY <1>4, CameraAssumption DEF MapBuffer, LoopOn, Proceed, Fail, MainTypeOK, MemTypeOK,
     NotCalled, ERROR_LEVEL_2, ERROR_FULL_INIT
<1>5. CASE EnqueueBuffer
  BY <1>5, CameraAssumption DEF EnqueueBuffer, LoopOn, Proceed, Fail, MainTypeOK, MemTypeOK,
     NotCalled, ERROR_LEVEL_2, ERROR_FULL_INIT
<1>6. CASE AllocateSingles \/ StartStreaming \/ Refocus
  BY <1>6 DEF AllocateSingles, AllocateSingle, StartStreaming, Refocus, Proceed, Fail, MainTypeOK,
     NotCalled, ERROR_LEVEL_3, ERROR_FULL_INIT
<1>7. CASE TimerFails \/ JoinFrame \/ FreeRings \/ CleanupReturns
  BY <1>7 DEF TimerFails, JoinFrame, FreeRings, CleanupReturns, Proceed, Fail, MainTypeOK,
     NotCalled, ERROR_FULL_INIT
<1>8. CASE CleanupStream \/ CleanupSingles \/ CleanupBuffers \/ CleanupClose
  BY <1>8 DEF CleanupStream, CleanupSingles, CleanupBuffers, CleanupClose, Level, MainTypeOK,
     NotCalled, ERROR_FULL_INIT, ERROR_LEVEL_3, ERROR_LEVEL_2, ERROR_LEVEL_1
<1> QED BY <1>1, <1>2, <1>3, <1>4, <1>5, <1>6, <1>7, <1>8 DEF Next, OffMain

LEMMA MemTypeStep == ASSUME CameraInv, Next PROVE MemTypeOK'
<1> USE DEF CameraInv, TypeOK
<1>1. CASE OffMain
  BY <1>1, OffMainStep DEF MemTypeOK, memVars, mapVars
<1>2. CASE InitProcessing \/ InitWriteout \/ AllocateSingles
  BY <1>2 DEF InitProcessing, InitWriteout, AllocateSingles, AllocateSingle, MemTypeOK, mapVars
<1>3. CASE FreeRings \/ CleanupSingles
  BY <1>3 DEF FreeRings, CleanupSingles, Deallocated, MemTypeOK, mapVars
<1>4. CASE OpenCamera \/ CheckInit \/ CleanupClose
  BY <1>4 DEF OpenCamera, CheckInit, CleanupClose, CloseCamera, MemTypeOK, memVars, mapVars
<1>5. CASE RequestBuffers
  BY <1>5 DEF RequestBuffers, MemTypeOK
<1>6. CASE MapBuffer
  BY <1>6 DEF MapBuffer, Deallocate, Unmapped, MemTypeOK
<1>7. CASE CleanupBuffers
  BY <1>7 DEF CleanupBuffers, Deallocate, Unmapped, MemTypeOK
<1>8. CASE \/ EnqueueBuffer \/ StartStreaming \/ Refocus \/ TimerFails \/ JoinFrame
           \/ CleanupStream \/ CleanupReturns
  BY <1>8 DEF EnqueueBuffer, StartStreaming, Refocus, TimerFails, JoinFrame, CleanupStream,
     CleanupReturns, MemTypeOK, memVars, mapVars
<1> QED BY <1>1, <1>2, <1>3, <1>4, <1>5, <1>6, <1>7, <1>8 DEF Next, OffMain

LEMMA DriverTypeStep == ASSUME CameraInv, Next PROVE DriverTypeOK'
<1> USE DEF CameraInv, TypeOK
<1>1. CASE OffDriver
  BY <1>1, OffDriverStep DEF DriverTypeOK, driverVars, picVars
<1>2. CASE CheckInit \/ CleanupClose
  BY <1>2 DEF CheckInit, CleanupClose, CloseCamera, DriverStops, DriverTypeOK, driverVars, picVars
<1>3. CASE RequestBuffers
  BY <1>3 DEF RequestBuffers, DriverTypeOK, driverVars, picVars
<1>4. CASE MapBuffer \/ CleanupBuffers
  BY <1>4 DEF MapBuffer, CleanupBuffers, Deallocate, FreeCameraBuffers, DriverStops,
     DriverTypeOK, driverVars, picVars
<1>5. CASE EnqueueBuffer
  <2>1. i \in Buffers /\ camera_enqueue_count + 1 \in 0 .. CAMERA_NUM_BUF
    BY <1>5, CameraAssumption DEF EnqueueBuffer, DriverInv, MainTypeOK, Buffers
  <2> QED BY <1>5, <2>1 DEF EnqueueBuffer, DriverTypeOK, picVars
<1>6. CASE StartStreaming \/ CleanupStream
  BY <1>6 DEF StartStreaming, CleanupStream, DriverStops, DriverTypeOK, picVars
<1>7. CASE CameraDequeue
  BY <1>7, CameraAssumption DEF CameraDequeue, DriverTypeOK, picVars
<1>8. CASE FrameRequeue
  <2>1. current \in Buffers /\ camera_enqueue_count = CAMERA_NUM_BUF - 1
    BY <1>8 DEF FrameRequeue, FrameAt, FrameInv, FrameAlive, Buffers, NoBuf
  <2> QED BY <1>8, <2>1, CameraAssumption DEF FrameRequeue, DriverTypeOK, picVars
<1>9. CASE TakePicture
  BY <1>9, CameraAssumption DEF TakePicture, DriverTypeOK
<1> QED BY <1>1, <1>2, <1>3, <1>4, <1>5, <1>6, <1>7, <1>8, <1>9 DEF Next, OffDriver

LEMMA FrameTypeStep == ASSUME CameraInv, Next PROVE FrameTypeOK'
<1> USE DEF CameraInv, TypeOK
<1>1. CASE OffFrame
  BY <1>1, OffFrameStep DEF FrameTypeOK, frameVars
<1>2. CASE Refocus \/ FrameWait
  BY <1>2 DEF Refocus, FrameWait, FrameTypeOK, frameVars
<1>3. CASE CameraDequeue
  BY <1>3 DEF CameraDequeue, FrameTypeOK, DriverTypeOK, frameVars
<1>4. CASE FrameCopy
  BY <1>4 DEF FrameCopy, FrameAt, FrameInv, FrameTypeOK, DriverTypeOK, frameVars
<1>5. CASE FrameRequeue
  BY <1>5 DEF FrameRequeue, FrameTypeOK, frameVars
<1> QED BY <1>1, <1>2, <1>3, <1>4, <1>5 DEF Next, OffFrame

-----------------------------------------------------------------------------
(* The camera, and what is allocated *)

LEMMA FdStep == ASSUME CameraInv, Next PROVE FdInv'
<1> USE DEF CameraInv, TypeOK, FdInv, NotOpened, AllMapped, Enqueued,
        NotCalled, ERROR_LEVEL_0, ERROR_LEVEL_1, ERROR_LEVEL_2, ERROR_LEVEL_3, ERROR_FULL_INIT
<1>1. CASE OffMain
  BY <1>1, OffMainStep DEF mainVars
<1>2. CASE InitProcessing \/ InitWriteout \/ OpenCamera \/ CheckInit
  BY <1>2 DEF InitProcessing, InitWriteout, OpenCamera, CheckInit, CloseCamera, Proceed, Fail
<1>3. CASE RequestBuffers \/ MapBuffer \/ EnqueueBuffer
  BY <1>3 DEF RequestBuffers, MapBuffer, EnqueueBuffer, LoopOn, Proceed, Fail
<1>4. CASE AllocateSingles \/ StartStreaming \/ Refocus
  BY <1>4 DEF AllocateSingles, AllocateSingle, StartStreaming, Refocus, Proceed, Fail
<1>5. CASE TimerFails \/ JoinFrame \/ FreeRings \/ CleanupReturns
  BY <1>5 DEF TimerFails, JoinFrame, FreeRings, CleanupReturns, Proceed, Fail
<1>6. CASE CleanupStream \/ CleanupSingles \/ CleanupBuffers \/ CleanupClose
  BY <1>6 DEF CleanupStream, CleanupSingles, CleanupBuffers, CleanupClose, CloseCamera, Level,
     MainTypeOK
<1> QED BY <1>1, <1>2, <1>3, <1>4, <1>5, <1>6 DEF Next, OffMain

LEMMA HeapStep == ASSUME CameraInv, Next PROVE HeapInv'
<1> USE DEF CameraInv, TypeOK, FdInv, HeapInv, NotOpened, NotMapped, AllMapped, Enqueued,
        NotCalled, ERROR_LEVEL_0, ERROR_LEVEL_1, ERROR_LEVEL_2, ERROR_LEVEL_3, ERROR_FULL_INIT,
        Rings, Singles
<1>1. CASE OffMain
  BY <1>1, OffMainStep DEF mainVars, memVars
<1>2. CASE InitProcessing \/ InitWriteout
  BY <1>2 DEF InitProcessing, InitWriteout, Proceed, MemTypeOK
<1>3. CASE OpenCamera \/ CheckInit \/ RequestBuffers
  BY <1>3 DEF OpenCamera, CheckInit, RequestBuffers, Proceed, Fail, memVars
<1>4. CASE MapBuffer \/ EnqueueBuffer
  BY <1>4 DEF MapBuffer, EnqueueBuffer, LoopOn, Proceed, Fail, memVars
<1>5. CASE AllocateSingles
  BY <1>5 DEF AllocateSingles, AllocateSingle, Proceed, Fail, MemTypeOK
<1>6. CASE StartStreaming \/ Refocus \/ TimerFails \/ JoinFrame \/ CleanupReturns
  BY <1>6 DEF StartStreaming, Refocus, TimerFails, JoinFrame, CleanupReturns, Proceed, Fail, memVars
<1>7. CASE FreeRings
  BY <1>7 DEF FreeRings, Proceed, Deallocated, MemTypeOK
<1>8. CASE CleanupSingles
  BY <1>8 DEF CleanupSingles, Level, Deallocated, MemTypeOK
<1>9. CASE CleanupStream \/ CleanupBuffers \/ CleanupClose
  BY <1>9 DEF CleanupStream, CleanupBuffers, CleanupClose, Level, memVars
<1> QED BY <1>1, <1>2, <1>3, <1>4, <1>5, <1>6, <1>7, <1>8, <1>9 DEF Next, OffMain

LEMMA MapStep == ASSUME CameraInv, Next PROVE MapInv'
<1> USE DEF CameraInv, TypeOK, FdInv, MapInv, NotOpened, NotMapped, AllMapped, Enqueued,
        NotCalled, ERROR_LEVEL_0, ERROR_LEVEL_1, ERROR_LEVEL_2, ERROR_LEVEL_3, ERROR_FULL_INIT
<1>1. CASE OffMain
  BY <1>1, OffMainStep DEF mainVars, memVars, mapVars
<1>2. CASE InitProcessing \/ InitWriteout \/ OpenCamera \/ CheckInit
  BY <1>2, CameraAssumption DEF InitProcessing, InitWriteout, OpenCamera, CheckInit, Proceed, Fail,
     memVars, mapVars
<1>3. CASE RequestBuffers
  BY <1>3, CameraAssumption DEF RequestBuffers, Proceed, Fail, Buffers
<1>4. CASE MapBuffer
  <2>1. CASE LoopOn("map", "enqueue") /\ mapping' = [mapping EXCEPT ![i] = "mapped"]
    <3>1. /\ num_buffers = CAMERA_NUM_BUF /\ num_buffers' = CAMERA_NUM_BUF /\ failed' = failed
          /\ level = NotCalled /\ level' = NotCalled /\ i \in 0 .. CAMERA_NUM_BUF - 1
      BY <1>4, <2>1, CameraAssumption DEF MapBuffer, LoopOn, Proceed, MainTypeOK
    <3>2. \A b \in Buffers : mapping'[b] = IF b < i + 1 THEN "mapped" ELSE "null"
      BY <1>4, <2>1, <3>1 DEF MapBuffer, MemTypeOK, Buffers
    <3>3. CASE i + 1 < num_buffers
      BY <2>1, <3>1, <3>2, <3>3, CameraAssumption DEF LoopOn, Proceed
    <3>4. CASE ~(i + 1 < num_buffers)
      <4>1. \A b \in Buffers : mapping'[b] = "mapped"
        BY <3>1, <3>2, <3>4, CameraAssumption DEF Buffers
      <4>2. mpc' = "enqueue"
        BY <2>1, <3>4 DEF LoopOn, Proceed
      <4>3. failed # "mmap"
        BY <1>4 DEF MapBuffer
      <4> QED BY <3>1, <4>1, <4>2, <4>3, CameraAssumption
    <3> QED BY <3>3, <3>4
  <2>2. CASE Fail("query", ERROR_LEVEL_2) /\ UNCHANGED <<i, mapping>>
    BY <1>4, <2>2, CameraAssumption DEF MapBuffer, Fail
  <2>3. CASE Fail("mmap", ERROR_LEVEL_2) /\ Deallocate([mapping EXCEPT ![i] = "failed"])
    BY <1>4, <2>3, CameraAssumption DEF MapBuffer, Fail, Deallocate, Unmapped, MemTypeOK, Buffers
  <2> QED BY <1>4, <2>1, <2>2, <2>3 DEF MapBuffer
<1>5. CASE EnqueueBuffer
  BY <1>5, CameraAssumption DEF EnqueueBuffer, LoopOn, Proceed, Fail, memVars, mapVars
<1>6. CASE AllocateSingles \/ StartStreaming \/ Refocus
  BY <1>6, CameraAssumption DEF AllocateSingles, AllocateSingle, StartStreaming, Refocus, Proceed,
     Fail, memVars, mapVars
<1>7. CASE TimerFails \/ JoinFrame \/ FreeRings \/ CleanupReturns
  BY <1>7 DEF TimerFails, JoinFrame, FreeRings, CleanupReturns, Proceed, Fail, memVars, mapVars
<1>8. CASE CleanupStream \/ CleanupSingles \/ CleanupClose
  BY <1>8, CameraAssumption DEF CleanupStream, CleanupSingles, CleanupClose, Level, MainTypeOK,
     memVars, mapVars
<1>9. CASE CleanupBuffers
  BY <1>9, CameraAssumption DEF CleanupBuffers, Deallocate, Unmapped, Level, MemTypeOK, Buffers
<1> QED BY <1>1, <1>2, <1>3, <1>4, <1>5, <1>6, <1>7, <1>8, <1>9 DEF Next, OffMain

-----------------------------------------------------------------------------
(* The driver, and frame() *)

\* Where a pass of a loop leads.
LEMMA LoopOnGoes ==
    ASSUME NEW place, NEW next, LoopOn(place, next)
    PROVE  /\ UNCHANGED <<level, failed>>
           /\ mpc' = place \/ (mpc' = next /\ i' = 0)
BY DEF LoopOn, Proceed

LEMMA DriverStep == ASSUME CameraInv, Next PROVE DriverInv'
<1> USE DEF CameraInv, TypeOK, FdInv, DriverInv, NotOpened, NotMapped, AllMapped, Enqueued,
        NotCalled, ERROR_LEVEL_0, ERROR_LEVEL_1, ERROR_LEVEL_2, ERROR_LEVEL_3, ERROR_FULL_INIT
<1>1. CASE InitProcessing \/ InitWriteout \/ OpenCamera
  BY <1>1 DEF InitProcessing, InitWriteout, OpenCamera, Proceed, memVars, mapVars, driverVars
<1>2. CASE CheckInit
  BY <1>2 DEF CheckInit, CloseCamera, DriverStops, Proceed, Fail, MapInv, memVars, mapVars,
     driverVars
<1>3. CASE RequestBuffers
  BY <1>3, CameraAssumption DEF RequestBuffers, Proceed, Fail, MapInv, driverVars
<1>4. CASE MapBuffer
  <2>1. /\ num_buffers' = CAMERA_NUM_BUF /\ num_buffers' > 0 /\ mpc = "map"
        /\ camera_enqueue_count' = 0
        /\ queued' = {} /\ filled' = {} /\ streaming' = 0
    BY <1>4, CameraAssumption DEF MapBuffer, Deallocate, FreeCameraBuffers, DriverStops, MapInv,
       driverVars
  <2>2. CASE LoopOn("map", "enqueue") /\ UNCHANGED driverVars
    <3>1. mpc' = "map" \/ (mpc' = "enqueue" /\ i' = 0)
      BY <2>2, LoopOnGoes
    <3>2. level' = NotCalled
      BY <2>1, <2>2 DEF LoopOn, Proceed
    <3>3. queued' = 0 .. 0 - 1
      BY <2>1
    <3> QED BY <2>1, <3>1, <3>2, <3>3, CameraAssumption
  <2>3. CASE mpc' = "cleanup" /\ level' = ERROR_LEVEL_2
    BY <2>1, <2>3
  <2> QED BY <1>4, <2>2, <2>3 DEF MapBuffer, Fail
<1>5. CASE EnqueueBuffer
  <2>1. /\ num_buffers' = CAMERA_NUM_BUF /\ num_buffers' > 0 /\ mpc = "enqueue" /\ i \in Nat
        /\ camera_enqueue_count' = i + 1 /\ filled' = {} /\ streaming' = 0
    BY <1>5, CameraAssumption DEF EnqueueBuffer, MapInv, MainTypeOK, memVars, mapVars
  <2>2. CASE LoopOn("enqueue", "wo") /\ queued' = queued \cup {i}
    <3>1. queued' = 0 .. i
      BY <2>1, <2>2
    <3>2. IF i + 1 < CAMERA_NUM_BUF THEN mpc' = "enqueue" /\ i' = i + 1
                                    ELSE mpc' = "wo" /\ i' = 0
      BY <1>5, <2>1, <2>2 DEF EnqueueBuffer, LoopOn, Proceed, memVars, mapVars
    <3>3. level' = NotCalled
      BY <2>1, <2>2 DEF LoopOn, Proceed
    <3> QED BY <2>1, <3>1, <3>2, <3>3, CameraAssumption DEF Buffers
  <2>3. CASE mpc' = "cleanup" /\ level' = ERROR_LEVEL_2
    BY <2>1, <2>3
  <2> QED BY <1>5, <2>2, <2>3 DEF EnqueueBuffer, Fail
<1>6. CASE AllocateSingles
  BY <1>6, CameraAssumption DEF AllocateSingles, AllocateSingle, Proceed, Fail, MapInv, mapVars,
     driverVars
<1>7. CASE StartStreaming
  BY <1>7, CameraAssumption DEF StartStreaming, Proceed, Fail, MapInv, memVars, mapVars
<1>8. CASE Refocus \/ TimerFails \/ JoinFrame \/ FreeRings \/ CleanupReturns
  BY <1>8 DEF Refocus, TimerFails, JoinFrame, FreeRings, CleanupReturns, Proceed, Fail,
     memVars, mapVars, driverVars, MapInv
<1>9. CASE CleanupStream \/ CleanupSingles
  BY <1>9, CameraAssumption DEF CleanupStream, CleanupSingles, DriverStops, Level, MapInv,
     MainTypeOK, memVars, mapVars, driverVars
<1>10. CASE CleanupBuffers
  <2>1. \A b \in Buffers : num_buffers > 0 => Unmapped(mapping)[b] # "mapped"
    BY CameraAssumption DEF Unmapped, MemTypeOK, Buffers
  <2>2. queued' = {} /\ filled' = {} /\ streaming' = 0
    BY <1>10, <2>1, CameraAssumption DEF CleanupBuffers, Deallocate, FreeCameraBuffers,
       DriverStops, MemTypeOK, driverVars
  <2>3. requested' = 1 => failed' = "short"
    BY <1>10, <2>1, CameraAssumption DEF CleanupBuffers, Deallocate, FreeCameraBuffers,
       Level, MemTypeOK, driverVars
  <2>4. mpc' = "cleanup" /\ level' = ERROR_LEVEL_1
    BY <1>10 DEF CleanupBuffers, Level
  <2> QED BY <2>2, <2>3, <2>4
<1>11. CASE CleanupClose
  BY <1>11 DEF CleanupClose, CloseCamera, DriverStops, Level, memVars, mapVars
<1>12. CASE FrameWait \/ FrameCopy
  BY <1>12 DEF FrameWait, FrameCopy, mainVars, memVars, mapVars, driverVars
<1>13. CASE CameraDequeue
  BY <1>13 DEF CameraDequeue, FrameAt, FrameInv, mainVars, memVars, mapVars
<1>14. CASE FrameRequeue
  BY <1>14 DEF FrameRequeue, FrameAt, FrameInv, FrameAlive, mainVars, memVars, mapVars
<1>15. CASE TakePicture
  BY <1>15 DEF TakePicture, mainVars, memVars, mapVars
<1> QED BY <1>1, <1>2, <1>3, <1>4, <1>5, <1>6, <1>7, <1>8, <1>9, <1>10, <1>11, <1>12, <1>13,
           <1>14, <1>15 DEF Next

LEMMA FrameStep == ASSUME CameraInv, Next PROVE FrameInv'
<1> USE DEF CameraInv, TypeOK, FdInv, FrameInv, FrameAlive, NotOpened, NotMapped, AllMapped,
        Enqueued, NotCalled, ERROR_LEVEL_0, ERROR_LEVEL_1, ERROR_LEVEL_2, ERROR_LEVEL_3,
        ERROR_FULL_INIT
<1>1. CASE InitProcessing \/ InitWriteout \/ OpenCamera \/ CheckInit
  BY <1>1 DEF InitProcessing, InitWriteout, OpenCamera, CheckInit, CloseCamera, DriverStops,
     Proceed, Fail, driverVars, frameVars
<1>2. CASE RequestBuffers \/ MapBuffer
  BY <1>2 DEF RequestBuffers, MapBuffer, Deallocate, FreeCameraBuffers, DriverStops, LoopOn,
     Proceed, Fail, driverVars, frameVars
<1>3. CASE EnqueueBuffer
  BY <1>3 DEF EnqueueBuffer, LoopOn, Proceed, Fail, frameVars, MainTypeOK, NoBuf
<1>4. CASE AllocateSingles \/ StartStreaming
  BY <1>4 DEF AllocateSingles, AllocateSingle, StartStreaming, Proceed, Fail, driverVars, frameVars
<1>5. CASE Refocus
  BY <1>5, CameraAssumption DEF Refocus, Proceed, Fail, driverVars, memVars, mapVars,
     DriverInv, MapInv, NoBuf, Buffers
<1>6. CASE TimerFails \/ JoinFrame \/ FreeRings \/ CleanupReturns
  BY <1>6 DEF TimerFails, JoinFrame, FreeRings, CleanupReturns, Proceed, Fail, memVars, mapVars,
     driverVars, frameVars
<1>7. CASE CleanupStream \/ CleanupSingles \/ CleanupBuffers \/ CleanupClose
  BY <1>7 DEF CleanupStream, CleanupSingles, CleanupBuffers, CleanupClose, CloseCamera, Deallocate,
     FreeCameraBuffers, DriverStops, Level, driverVars, frameVars
<1>8. CASE FrameWait \/ FrameCopy
  BY <1>8 DEF FrameWait, FrameCopy, FrameAt, mainVars, memVars, mapVars, driverVars
<1>9. CASE CameraDequeue
  BY <1>9, CameraAssumption DEF CameraDequeue, FrameAt, mainVars, memVars, mapVars,
     DriverInv, DriverTypeOK, NoBuf, Buffers
<1>10. CASE FrameRequeue
  BY <1>10, CameraAssumption DEF FrameRequeue, FrameAt, mainVars, memVars, mapVars,
     DriverTypeOK, NoBuf, Buffers
<1>11. CASE TakePicture
  BY <1>11 DEF TakePicture, mainVars, memVars, mapVars, frameVars
<1> QED BY <1>1, <1>2, <1>3, <1>4, <1>5, <1>6, <1>7, <1>8, <1>9, <1>10, <1>11 DEF Next

\* Nothing but a new picture can put a waiting one out of order.
LEMMA FewerPictures ==
    ASSUME PictureInv, filled' \in SUBSET filled, UNCHANGED <<picVars, frameVars>>
    PROVE  PictureInv'
BY DEF PictureInv, picVars, frameVars

LEMMA PictureStep == ASSUME CameraInv, Next PROVE PictureInv'
<1> USE DEF CameraInv, TypeOK
<1>1. CASE OffDriver /\ OffFrame
  BY <1>1, OffDriverStep, OffFrameStep, FewerPictures DEF driverVars
<1>2. CASE CheckInit \/ RequestBuffers \/ MapBuffer \/ CleanupBuffers
  <2>1. filled' \in SUBSET filled /\ UNCHANGED picVars
    BY <1>2 DEF CheckInit, RequestBuffers, MapBuffer, CleanupBuffers, CloseCamera, Deallocate,
       FreeCameraBuffers, DriverStops, driverVars
  <2> QED BY <1>2, <2>1, OffFrameStep, FewerPictures DEF OffFrame
<1>3. CASE EnqueueBuffer \/ StartStreaming \/ CleanupStream \/ CleanupClose
  <2>1. filled' \in SUBSET filled /\ UNCHANGED picVars
    BY <1>3 DEF EnqueueBuffer, StartStreaming, CleanupStream, CleanupClose, CloseCamera, DriverStops
  <2> QED BY <1>3, <2>1, OffFrameStep, FewerPictures DEF OffFrame
<1>4. CASE Refocus \/ FrameWait
  BY <1>4 DEF Refocus, FrameWait, FrameAt, PictureInv, driverVars, picVars
<1>5. CASE CameraDequeue
  <2>1. \A b \in filled : b \in Buffers /\ content[b] \in Nat
    BY CameraAssumption DEF DriverTypeOK
  <2> QED BY <1>5, <2>1 DEF CameraDequeue, PictureInv, picVars
<1>6. CASE FrameCopy
  <2>1. current \in Buffers
    BY <1>6 DEF FrameCopy, FrameAt, FrameInv
  <2> QED BY <1>6, <2>1 DEF FrameCopy, FrameAt, PictureInv, driverVars, picVars
<1>7. CASE FrameRequeue
  BY <1>7 DEF FrameRequeue, FrameAt, PictureInv, picVars
<1>8. CASE TakePicture
  <2>1. /\ taken \in Nat /\ got \in Nat /\ taken' = taken + 1 /\ UNCHANGED <<fpc, current, got>>
        /\ \A b \in Buffers : content[b] \in Nat
    BY <1>8, CameraAssumption DEF TakePicture, DriverTypeOK, FrameTypeOK, frameVars
  <2>2. CASE UNCHANGED <<filled, content>>
    BY <2>1, <2>2, CameraAssumption DEF PictureInv, FrameInv, DriverTypeOK
  <2>3. CASE \E b \in queued : /\ filled' = filled \cup {b}
                              /\ content' = [content EXCEPT ![b] = taken + 1]
    <3>1. PICK b \in queued : /\ filled' = filled \cup {b}
                             /\ content' = [content EXCEPT ![b] = taken + 1]
      BY <2>3
    <3>2. b \in Buffers /\ b \notin filled /\ (fpc = "copy" => current \in Buffers /\ current # b)
      BY DEF DriverTypeOK, DriverInv, FrameInv
    <3>3. /\ content'[b] = taken + 1
          /\ \A c \in Buffers : c # b => content'[c] = content[c]
      BY <3>1, <3>2 DEF DriverTypeOK
    <3>4. \A c \in filled : c \in Buffers /\ c # b
      BY <3>2 DEF DriverTypeOK
    <3> QED BY <2>1, <3>1, <3>2, <3>3, <3>4 DEF PictureInv
  <2> QED BY <1>8, <2>2, <2>3 DEF TakePicture
<1> QED BY <1>1, <1>2, <1>3, <1>4, <1>5, <1>6, <1>7, <1>8 DEF Next, OffDriver, OffFrame

LEMMA Start == Init => CameraInv
<1> SUFFICES ASSUME Init PROVE CameraInv
  OBVIOUS
<1> USE CameraAssumption DEF Init
<1>1. TypeOK
  BY DEF TypeOK, MainTypeOK, MemTypeOK, DriverTypeOK, FrameTypeOK, Buffers, NoBuf, NotCalled,
     ERROR_FULL_INIT
<1>2. FdInv /\ HeapInv
  BY DEF FdInv, HeapInv, NotOpened, AllMapped, NotMapped, Enqueued, Rings, Singles, NotCalled,
     ERROR_LEVEL_0, ERROR_LEVEL_1, ERROR_LEVEL_2
<1>3. MapInv
  BY DEF MapInv, NotOpened, AllMapped, NotMapped, Enqueued, NotCalled, ERROR_LEVEL_0,
     ERROR_LEVEL_1, ERROR_LEVEL_2, ERROR_LEVEL_3
<1>4. DriverInv
  BY DEF DriverInv, NotOpened, NotMapped, Enqueued, NotCalled, ERROR_LEVEL_0, ERROR_LEVEL_1
<1>5. FrameInv /\ PictureInv
  BY DEF FrameInv, FrameAlive, PictureInv, Buffers, NoBuf
<1> QED BY <1>1, <1>2, <1>3, <1>4, <1>5 DEF CameraInv

LEMMA Stutter == CameraInv /\ UNCHANGED vars => CameraInv'
<1> SUFFICES ASSUME CameraInv, UNCHANGED vars PROVE CameraInv'
  OBVIOUS
<1> USE DEF vars, mainVars, memVars, mapVars, driverVars, picVars, frameVars
<1>1. TypeOK'
  BY DEF CameraInv, TypeOK, MainTypeOK, MemTypeOK, DriverTypeOK, FrameTypeOK
<1>2. FdInv' /\ HeapInv'
  BY DEF CameraInv, FdInv, HeapInv
<1>3. MapInv' /\ DriverInv'
  BY DEF CameraInv, MapInv, DriverInv
<1>4. FrameInv' /\ PictureInv'
  BY DEF CameraInv, FrameInv, FrameAlive, PictureInv
<1> QED BY <1>1, <1>2, <1>3, <1>4 DEF CameraInv

LEMMA CameraStep == CameraInv /\ Next => CameraInv'
BY MainTypeStep, MemTypeStep, DriverTypeStep, FrameTypeStep, FdStep, HeapStep, MapStep, DriverStep,
   FrameStep, PictureStep DEF CameraInv, TypeOK

\* What main() has reached decides what is open, allocated, mapped and with the
\* driver, and with which level video_error_cleanup is called (camera_init.c:13-70,
\* camera.c:385-410): the invariant the theorems below follow from.
THEOREM CameraInvariance == Spec => []CameraInv
<1>1. CameraInv /\ [Next]_vars => CameraInv'
  BY CameraStep, Stutter
<1> QED BY Start, <1>1, PTL DEF Spec

\* Every variable keeps its type, in particular i stays in the arrays that
\* camera_mmap_buffers and camera_init_internal_buffers index with it.
THEOREM TypesCorrect == Spec => []TypeOK
<1>1. CameraInv => TypeOK
  BY DEF CameraInv
<1> QED BY CameraInvariance, <1>1, PTL

\* Whatever fails, video_error_cleanup and main() release nothing twice (the mappings
\* after a failed mmap excepted).
THEOREM NoDoubleRelease == Spec => []ReleasedOnce
<1>1. CameraInv => ReleasedOnce
  <2> SUFFICES ASSUME CameraInv PROVE ReleasedOnce
    OBVIOUS
  <2>1. fd # "bad"
    BY DEF CameraInv, FdInv
  <2>2. \A r \in DOMAIN heap : heap[r] # "bad"
    BY DEF CameraInv, HeapInv, TypeOK, MemTypeOK
  <2>3. ASSUME failed # "mmap", NEW b \in Buffers PROVE mapping[b] # "bad"
    <3>1. /\ level \in NotCalled .. ERROR_FULL_INIT
          /\ mpc \in NotMapped \cup AllMapped \cup {"map", "cleanup", "free", "exited"}
      BY DEF CameraInv, TypeOK, MainTypeOK, NotMapped, NotOpened, AllMapped, Enqueued
    <3>2. CASE level \in ERROR_LEVEL_0 .. ERROR_FULL_INIT
      BY <2>3, <3>1, <3>2 DEF CameraInv, MapInv, ERROR_LEVEL_0, ERROR_LEVEL_1,
         ERROR_LEVEL_2, ERROR_LEVEL_3, ERROR_FULL_INIT
    <3>3. CASE level = NotCalled
      BY <2>3, <3>1, <3>3 DEF CameraInv, MapInv, FdInv, NotCalled, ERROR_LEVEL_0
    <3> QED BY <3>1, <3>2, <3>3 DEF NotCalled, ERROR_LEVEL_0, ERROR_FULL_INIT
  <2> QED BY <2>1, <2>2, <2>3 DEF ReleasedOnce
<1> QED BY CameraInvariance, <1>1, PTL

\* Each level of video_error_cleanup releases what had been reached when it was called:
\* after the last one nothing of the camera's set-up is left.
THEOREM NothingIsLeft == Spec => []NothingLeft
<1>1. CameraInv => NothingLeft
  <2> SUFFICES ASSUME CameraInv, level = ERROR_LEVEL_0 PROVE
        /\ fd # "open" /\ requested = 0 /\ streaming = 0
        /\ \A b \in Buffers : mapping[b] # "mapped"
        /\ \A r \in Singles : heap[r] # "held"
    BY DEF NothingLeft
  <2>1. fd # "open"
    BY DEF CameraInv, FdInv
  <2>2. requested = 0 /\ streaming = 0
    BY DEF CameraInv, DriverInv
  <2>3. \A b \in Buffers : mapping[b] # "mapped"
    BY DEF CameraInv, MapInv
  <2>4. \A r \in Singles : heap[r] # "held"
    BY DEF CameraInv, HeapInv, ERROR_LEVEL_0, ERROR_LEVEL_2
  <2> QED BY <2>1, <2>2, <2>3, <2>4
<1> QED BY CameraInvariance, <1>1, PTL

LEMMA BuffersCardinality ==
    /\ IsFiniteSet(Buffers) /\ Cardinality(Buffers) = CAMERA_NUM_BUF
    /\ \A b \in Buffers : Cardinality(Buffers \ {b}) = CAMERA_NUM_BUF - 1
<1>1. IsFiniteSet(Buffers) /\ Cardinality(Buffers) = CAMERA_NUM_BUF
  BY CameraAssumption, FS_Interval DEF Buffers
<1> QED BY <1>1, FS_RemoveElement

\* While frame() lives, the camera is streaming from mapped buffers, the driver has all
\* of them but the one frame() copies from, and camera_enqueue_count is their number.
THEOREM FrameAlwaysHasBuffers == Spec => []FrameHasBuffers
<1>1. CameraInv => FrameHasBuffers
  <2> SUFFICES ASSUME CameraInv, FrameAlive PROVE
        /\ streaming = 1 /\ \A b \in Buffers : mapping[b] = "mapped"
        /\ camera_enqueue_count = Cardinality(queued \cup filled)
        /\ fpc \in {"wait", "dequeue"} => queued \cup filled = Buffers
        /\ fpc \in {"copy", "requeue"} => current \in Buffers
                                      /\ queued \cup filled = Buffers \ {current}
    BY DEF FrameHasBuffers
  <2> USE DEF CameraInv, FrameInv
  <2>1. CASE fpc \in {"wait", "dequeue"}
    <3>1. current = NoBuf /\ queued \cup filled = Buffers
      BY <2>1 DEF NoBuf, Buffers
    <3> QED BY <2>1, <3>1, BuffersCardinality
  <2>2. CASE fpc \in {"copy", "requeue"}
    <3>1. current \in Buffers /\ current # NoBuf
      BY <2>2 DEF NoBuf, Buffers
    <3> QED BY <2>2, <3>1, BuffersCardinality
  <2> QED BY <2>1, <2>2 DEF FrameAlive
<1> QED BY CameraInvariance, <1>1, PTL

\* The file descriptor is closed after the unmapping, the end of the stream and the
\* freeing of the driver's buffers, those of a short answer excepted.
THEOREM CameraClosedLast == Spec => CloseIsLast
<1>1. CameraInv /\ [Next]_vars =>
        [fd = "open" /\ fd' # "open" =>
          /\ streaming = 0
          /\ requested = 1 => failed = "short"
          /\ \A b \in Buffers : mapping[b] # "mapped"]_vars
  <2> SUFFICES ASSUME CameraInv, Next, fd = "open", fd' # "open" PROVE
          /\ streaming = 0
          /\ requested = 1 => failed = "short"
          /\ \A b \in Buffers : mapping[b] # "mapped"
    OBVIOUS
  <2>1. CASE CheckInit
    <3>1. mpc = "check"
      BY <2>1 DEF CheckInit, Proceed
    <3> QED BY <3>1, CameraAssumption DEF CameraInv, DriverInv, MapInv, NotMapped
  <2>2. CASE CleanupClose
    <3>1. level = ERROR_LEVEL_1
      BY <2>2 DEF CleanupClose, Level
    <3> QED BY <3>1 DEF CameraInv, DriverInv, MapInv
  <2>3. CASE OffMain
    BY <2>3, OffMainStep
  <2>4. CASE \/ InitProcessing \/ InitWriteout \/ OpenCamera \/ RequestBuffers \/ MapBuffer
             \/ EnqueueBuffer \/ AllocateSingles \/ StartStreaming \/ Refocus \/ TimerFails
             \/ JoinFrame \/ FreeRings \/ CleanupStream \/ CleanupSingles \/ CleanupBuffers
             \/ CleanupReturns
    BY <2>4 DEF InitProcessing, InitWriteout, OpenCamera, RequestBuffers, MapBuffer, EnqueueBuffer,
       AllocateSingles, AllocateSingle, StartStreaming, Refocus, TimerFails, JoinFrame, FreeRings,
       CleanupStream, CleanupSingles, CleanupBuffers, CleanupReturns
  <2> QED BY <2>1, <2>2, <2>3, <2>4 DEF Next, OffMain
<1> QED BY CameraInvariance, <1>1, PTL DEF Spec, CloseIsLast

\* frame() copies each picture once and in the order in which the camera took them.
THEOREM CopiedInOrder == Spec => PicturesInOrder
<1>1. CameraInv /\ [Next]_vars => [fpc = "copy" /\ fpc' # "copy" => got' > got]_vars
  <2> SUFFICES ASSUME CameraInv, Next, fpc = "copy", fpc' # "copy" PROVE got' > got
    OBVIOUS
  <2>1. CASE FrameCopy
    BY <2>1 DEF FrameCopy, CameraInv, PictureInv
  <2>2. CASE OffFrame
    BY <2>2, OffFrameStep DEF frameVars
  <2>3. CASE Refocus
    BY <2>3 DEF Refocus, Proceed, Fail, CameraInv, FrameInv
  <2>4. CASE FrameWait \/ CameraDequeue \/ FrameRequeue
    BY <2>4 DEF FrameWait, CameraDequeue, FrameRequeue, FrameAt
  <2> QED BY <2>1, <2>2, <2>3, <2>4 DEF Next, OffFrame
<1> QED BY CameraInvariance, <1>1, PTL DEF Spec, PicturesInOrder

\* The camera drops a picture only if frame() has left all buffers but its own filled.
THEOREM DropsOnlyWhenBehind == Spec => DroppedOnlyWhenBehind
<1>1. CameraInv /\ [Next]_vars =>
        [FrameAlive /\ taken' # taken /\ filled' = filled =>
            Cardinality(filled) >= CAMERA_NUM_BUF - 1]_vars
  <2> SUFFICES ASSUME CameraInv, Next, FrameAlive, taken' # taken, filled' = filled
               PROVE  Cardinality(filled) >= CAMERA_NUM_BUF - 1
    OBVIOUS
  <2>1. TakePicture
    <3>1. CASE OffDriver
      BY <3>1, OffDriverStep DEF picVars
    <3>2. CASE \/ CheckInit \/ RequestBuffers \/ MapBuffer \/ EnqueueBuffer \/ StartStreaming
               \/ CleanupStream \/ CleanupBuffers \/ CleanupClose \/ CameraDequeue \/ FrameRequeue
      BY <3>2 DEF CheckInit, RequestBuffers, MapBuffer, EnqueueBuffer, StartStreaming,
         CleanupStream, CleanupBuffers, CleanupClose, CameraDequeue, FrameRequeue, picVars
    <3> QED BY <3>1, <3>2 DEF Next, OffDriver
  <2>2. queued = {}
    <3>1. ASSUME NEW b \in queued, filled' = filled \cup {b} PROVE FALSE
      BY <3>1 DEF CameraInv, DriverInv
    <3> QED BY <2>1, <3>1 DEF TakePicture
  <2>3. filled = Buffers \ {current}
    BY <2>2 DEF CameraInv, FrameInv
  <2>4. filled = Buffers \/ current \in Buffers
    BY <2>3
  <2> QED BY <2>3, <2>4, BuffersCardinality, CameraAssumption
<1> QED BY CameraInvariance, <1>1, PTL DEF Spec, DroppedOnlyWhenBehind

-----------------------------------------------------------------------------
(* The handover of the buffers *)

LEMMA SameOwners == ASSUME UNCHANGED <<queued, filled, current>> PROVE Owner' = Owner
BY DEF Owner

\* The program enqueues a buffer, frame() returns one or the driver takes none.
LEMMA GiveStep ==
    ASSUME CameraInv, NEW b \in Buffers, queued' = queued \cup {b}, UNCHANGED filled,
           current' = current \/ (current = b /\ current' = NoBuf)
    PROVE  Owner' = Owner \/ Handover!Give(b)
<1> NoBuf \notin Buffers
  BY DEF NoBuf, Buffers
<1>1. \A c \in Buffers : Owner'[c] = IF c = b THEN "driver" ELSE Owner[c]
  <2>1. CASE current' = current
    BY <2>1 DEF Owner
  <2>2. CASE current = b /\ current' = NoBuf
    BY <2>2 DEF Owner
  <2> QED BY <2>1, <2>2
<1>2. Owner' = [Owner EXCEPT ![b] = "driver"]
  BY <1>1 DEF Owner
<1>3. Owner[b] = "driver" => Owner' = Owner
  BY <1>1 DEF Owner
<1> QED BY <1>2, <1>3 DEF Handover!Give

LEMMA RevokeStep ==
    ASSUME queued' = {}, filled' = {}, UNCHANGED current, current \notin queued \cup filled
    PROVE  Handover!Revoke
BY DEF Owner, Handover!Revoke

LEMMA TakeStep ==
    ASSUME CameraInv, CameraDequeue
    PROVE  Owner' = Owner \/ \E b \in Buffers : Handover!Take(b)
<1>1. CASE UNCHANGED <<filled, current>>
  BY <1>1, SameOwners DEF CameraDequeue
<1>2. CASE \E b \in filled : filled' = filled \ {b} /\ current' = b
  <2>1. PICK b \in filled : filled' = filled \ {b} /\ current' = b
    BY <1>2
  <2>2. /\ b \in Buffers /\ b \notin queued /\ current = NoBuf /\ UNCHANGED queued
        /\ NoBuf \notin Buffers
    BY DEF CameraDequeue, FrameAt, CameraInv, TypeOK, DriverTypeOK, DriverInv, FrameInv, NoBuf,
       Buffers
  <2>3. Owner[b] = "driver" /\ \A c \in Buffers : Owner[c] # "frame"
    BY <2>2 DEF Owner
  <2>4. Owner' = [Owner EXCEPT ![b] = "frame"]
    BY <2>1, <2>2 DEF Owner
  <2> QED BY <2>2, <2>3, <2>4 DEF Handover!Take, Handover!FrameHasOne
<1> QED BY <1>1, <1>2 DEF CameraDequeue

LEMMA HandoverStep == ASSUME CameraInv, Next PROVE [Handover!Next]_Owner
<1>1. CASE OffDriver /\ ~Refocus /\ ~FrameWait /\ ~FrameCopy
  BY <1>1, OffDriverStep, OffFrameStep, SameOwners DEF OffDriver, OffFrame, driverVars, frameVars
<1>2. CASE Refocus \/ FrameWait \/ FrameCopy
  BY <1>2, SameOwners DEF Refocus, FrameWait, FrameCopy, driverVars
<1>3. CASE \/ CheckInit \/ RequestBuffers \/ MapBuffer \/ CleanupStream \/ CleanupBuffers
           \/ CleanupClose
  <2>1. UNCHANGED current
    BY <1>3, OffFrameStep DEF OffFrame, frameVars
  <2>2. UNCHANGED <<queued, filled>> \/ (queued' = {} /\ filled' = {})
    BY <1>3 DEF CheckInit, RequestBuffers, MapBuffer, CleanupStream, CleanupBuffers, CleanupClose,
       CloseCamera, Deallocate, FreeCameraBuffers, DriverStops, driverVars
  <2>3. current \notin queued \cup filled
    BY DEF CameraInv, FrameInv
  <2> QED BY <2>1, <2>2, <2>3, SameOwners, RevokeStep DEF Handover!Next
<1>4. CASE EnqueueBuffer
  <2>1. i \in Buffers
    BY <1>4, CameraAssumption DEF EnqueueBuffer, CameraInv, TypeOK, MainTypeOK, DriverInv, Buffers
  <2>2. UNCHANGED <<filled, current>> /\ (UNCHANGED queued \/ queued' = queued \cup {i})
    BY <1>4 DEF EnqueueBuffer, frameVars
  <2> QED BY <2>1, <2>2, SameOwners, GiveStep DEF Handover!Next
<1>5. CASE StartStreaming
  BY <1>5, SameOwners DEF StartStreaming, frameVars
<1>6. CASE CameraDequeue
  BY <1>6, TakeStep DEF Handover!Next
<1>7. CASE FrameRequeue
  <2>1. current \in Buffers
    BY <1>7 DEF FrameRequeue, FrameAt, CameraInv, FrameInv
  <2>2. \/ UNCHANGED <<queued, filled, current>>
        \/ queued' = queued \cup {current} /\ UNCHANGED filled /\ current' = NoBuf
    BY <1>7 DEF FrameRequeue
  <2> QED BY <2>1, <2>2, SameOwners, GiveStep DEF Handover!Next
<1>8. CASE TakePicture
  <2>1. queued' \cup filled' = queued \cup filled /\ UNCHANGED current
    BY <1>8 DEF TakePicture, frameVars
  <2> QED BY <2>1 DEF Owner
<1> QED BY <1>1, <1>2, <1>3, <1>4, <1>5, <1>6, <1>7, <1>8 DEF Next, OffDriver

\* What main(), frame() and the driver do with the buffers is what BufferHandover
\* allows: a buffer has one owner at a time, and frame() never has two.
THEOREM HandoverImplemented == Spec => ImplementsHandover
<1>1. Init => Handover!Init
  BY DEF Init, Owner, Handover!Init, NoBuf, Buffers
<1>2. CameraInv /\ [Next]_vars => [Handover!Next]_Owner
  <2>1. ASSUME UNCHANGED vars PROVE Owner' = Owner
    BY <2>1, SameOwners DEF vars, driverVars, frameVars
  <2> QED BY <2>1, HandoverStep
<1> QED BY CameraInvariance, <1>1, <1>2, PTL DEF Spec, ImplementsHandover, Handover!Spec

=============================================================================
