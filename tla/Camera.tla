------------------------------- MODULE Camera -------------------------------
(***************************************************************************)
(* The camera and what belongs to it: how main() allocates the rings,      *)
(* opens, checks and starts the camera (camera_init.c, camera.c,           *)
(* camera_buffer.c, resources.c), what video_error_cleanup undoes when a   *)
(* call fails or when frame() has been joined, and how frame() gets the    *)
(* mapped buffers from the driver and returns them.                        *)
(*                                                                         *)
(* Every call that can fail may fail.  The driver is modelled from how the *)
(* code uses it: it fills any buffer it has, gives back the oldest picture *)
(* first, drops a picture for which it has no buffer, and frees its        *)
(* buffers on VIDIOC_REQBUFS with count 0, for which it needs the type;    *)
(* whether it does so while one is mapped is left open.                    *)
(*                                                                         *)
(* A resource that is released without being held is "bad" from then on:   *)
(* neither free, munmap nor close may be called twice.                     *)
(***************************************************************************)
EXTENDS Integers, FiniteSets

CONSTANTS CAMERA_NUM_BUF,  \* buffers asked of the driver
          Pictures         \* bound: pictures the camera takes

ASSUME CameraAssumption == /\ CAMERA_NUM_BUF \in Nat \ {0}
                           /\ Pictures \in Nat

Buffers == 0 .. CAMERA_NUM_BUF - 1
NoBuf   == -1
Rings   == {"scan_buffer", "wo_buffers"}
Singles == {"wo_buffer", "er_buffer"}

ERROR_FULL_INIT == 4
ERROR_LEVEL_3   == 3
ERROR_LEVEL_2   == 2
ERROR_LEVEL_1   == 1
ERROR_LEVEL_0   == 0
NotCalled       == -1

VARIABLES
    mpc,                   \* main()
    i,                     \* its loop over the buffers
    level,                 \* where video_error_cleanup is
    failed,                \* history: the step that failed
    heap,                  \* what resources.c allocates
    fd, num_buffers,       \* video_t; type and memory are set with num_buffers
    mapping,               \* frame_buffers[b].start
    requested, streaming,  \* the driver: it has buffers; it fills them
    queued, filled,        \* those it may fill; those frame() can have
    content, taken,        \* the picture in each buffer; pictures so far
    camera_enqueue_count,
    fpc, current, got      \* frame(), current_b.index, the last picture it copied

mainVars   == <<mpc, i, level, failed>>
mapVars    == <<mapping, num_buffers>>
memVars    == <<heap, mapVars>>
driverVars == <<requested, streaming, queued, filled>>
picVars    == <<content, taken>>
frameVars  == <<fpc, current, got>>
vars == <<mainVars, memVars, fd, driverVars, picVars, camera_enqueue_count, frameVars>>

MainTypeOK ==
    /\ mpc \in {"scan", "wo_ring", "open", "check", "request", "map", "enqueue", "wo", "er",
                "stream", "refocus", "run", "cleanup", "free", "exited"}
    /\ i \in 0 .. CAMERA_NUM_BUF
    /\ level \in NotCalled .. ERROR_FULL_INIT
    /\ failed \in {"none", "check", "request", "short", "query", "mmap", "enqueue", "buffers",
                   "stream", "refocus"}

MemTypeOK ==
    /\ heap \in [Rings \cup Singles -> {"null", "held", "freed", "bad"}]
    /\ fd \in {"none", "open", "closed", "bad"}
    /\ num_buffers \in {0, CAMERA_NUM_BUF}
    /\ mapping \in [Buffers -> {"null", "mapped", "failed", "unmapped", "bad"}]

DriverTypeOK ==
    /\ requested \in 0 .. 1
    /\ streaming \in 0 .. 1
    /\ queued \in SUBSET Buffers
    /\ filled \in SUBSET Buffers
    /\ content \in [Buffers -> 0 .. Pictures]
    /\ taken \in 0 .. Pictures
    /\ camera_enqueue_count \in 0 .. CAMERA_NUM_BUF

FrameTypeOK ==
    /\ fpc \in {"none", "wait", "dequeue", "copy", "requeue", "done"}
    /\ current \in Buffers \cup {NoBuf}
    /\ got \in 0 .. Pictures

TypeOK == MainTypeOK /\ MemTypeOK /\ DriverTypeOK /\ FrameTypeOK

Init ==
    /\ mpc = "scan" /\ i = 0 /\ level = NotCalled /\ failed = "none"
    /\ heap = [r \in Rings \cup Singles |-> "null"]
    /\ fd = "none" /\ num_buffers = 0
    /\ mapping = [b \in Buffers |-> "null"]
    /\ requested = 0 /\ streaming = 0 /\ queued = {} /\ filled = {}
    /\ content = [b \in Buffers |-> 0] /\ taken = 0
    /\ camera_enqueue_count = 0
    /\ fpc = "none" /\ current = NoBuf /\ got = 0

-----------------------------------------------------------------------------
(* Releasing *)

\* deallocate_buffer: start is not reset, so that only what was never allocated
\* is passed over.
Deallocated(S) ==
    [r \in DOMAIN heap |-> IF r \notin S \/ heap[r] = "null" THEN heap[r]
                           ELSE IF heap[r] = "held" THEN "freed" ELSE "bad"]

\* _munmap_camera_buffers, for the mappings m: nor is this start reset.
Unmapped(m) ==
    [b \in Buffers |-> IF b >= num_buffers \/ m[b] = "null" THEN m[b]
                       ELSE IF m[b] = "mapped" THEN "unmapped" ELSE "bad"]

\* The driver no longer has any buffer, and does not stream.
DriverStops == streaming' = 0 /\ queued' = {} /\ filled' = {}

\* _free_camera_buffers, when the mappings are m: type is 0 until num_buffers is
\* set, and the driver refuses it.
FreeCameraBuffers(m) ==
    \/ /\ num_buffers > 0
       /\ requested' = 0
       /\ DriverStops
    \/ /\ num_buffers = 0 \/ \E b \in Buffers : m[b] = "mapped"
       /\ UNCHANGED driverVars

\* a mistake in camera_deallocate_internal_buffers: the order of the two calls.
DeallocateFreeFirst(m) == mapping' = Unmapped(m) /\ FreeCameraBuffers(m)

\* camera_deallocate_internal_buffers
Deallocate(m) == mapping' = Unmapped(m) /\ FreeCameraBuffers(Unmapped(m))

-----------------------------------------------------------------------------
(* main() before the threads *)

Fail(step, state) == mpc' = "cleanup" /\ level' = state /\ failed' = step

Proceed(from, to) ==
    /\ mpc = from
    /\ mpc' = to
    /\ UNCHANGED <<level, failed>>

\* init_processing: what it has allocated before a failure is left to the exit.
InitProcessing ==
    /\ \/ /\ Proceed("scan", "wo_ring")
          /\ heap' = [heap EXCEPT !["scan_buffer"] = "held"]
       \/ /\ Proceed("scan", "exited")
          /\ \E some \in {"null", "held"} : heap' = [heap EXCEPT !["scan_buffer"] = some]
    /\ UNCHANGED <<i, fd, mapVars, driverVars, picVars, camera_enqueue_count, frameVars>>

\* init_writeout: here it is released.
InitWriteout ==
    /\ \/ /\ Proceed("wo_ring", "open")
          /\ heap' = [heap EXCEPT !["wo_buffers"] = "held"]
       \/ /\ Proceed("wo_ring", "exited")
          /\ \E some \in {"null", "freed"} : heap' = [heap EXCEPT !["wo_buffers"] = some]
    /\ UNCHANGED <<i, fd, mapVars, driverVars, picVars, camera_enqueue_count, frameVars>>

OpenCamera ==
    /\ \/ Proceed("open", "check") /\ fd' = "open"
       \/ Proceed("open", "exited") /\ UNCHANGED fd
    /\ UNCHANGED <<i, memVars, driverVars, picVars, camera_enqueue_count, frameVars>>

\* close_camera: the driver frees what it still has for this fd.
CloseCamera ==
    /\ fd' = IF fd = "open" THEN "closed" ELSE "bad"
    /\ requested' = 0
    /\ DriverStops

\* a mistake in camera_init_all: the camera is closed, and cleaned up as if it was not.
CheckInitLevel1 ==
    /\ \/ Proceed("check", "request") /\ UNCHANGED <<fd, driverVars>>
       \/ mpc = "check" /\ CloseCamera /\ Fail("check", ERROR_LEVEL_1)
    /\ UNCHANGED <<i, memVars, picVars, camera_enqueue_count, frameVars>>

\* camera_check_init; after a failure camera_init_all closes the camera itself.
CheckInit ==
    /\ \/ Proceed("check", "request") /\ UNCHANGED <<fd, driverVars>>
       \/ mpc = "check" /\ CloseCamera /\ Fail("check", ERROR_LEVEL_0)
    /\ UNCHANGED <<i, memVars, picVars, camera_enqueue_count, frameVars>>

\* camera_request_buffers: the driver may refuse, or give too few buffers, which
\* are freed before type is set.
RequestBuffers ==
    /\ \/ /\ Proceed("request", "map")
          /\ num_buffers' = CAMERA_NUM_BUF
          /\ i' = 0
          /\ requested' = 1
          /\ UNCHANGED <<streaming, queued, filled>>
       \/ /\ mpc = "request"
          /\ Fail("request", ERROR_LEVEL_2)
          /\ UNCHANGED <<num_buffers, i, driverVars>>
       \/ /\ mpc = "request"
          /\ Fail("short", ERROR_LEVEL_2)
          /\ requested' = 1
          /\ UNCHANGED <<num_buffers, i, streaming, queued, filled>>
    /\ UNCHANGED <<heap, mapping, fd, picVars, camera_enqueue_count, frameVars>>

\* The next pass of a loop over the buffers, or its end.
LoopOn(place, next) ==
    IF i + 1 < num_buffers THEN Proceed(place, place) /\ i' = i + 1
                           ELSE Proceed(place, next) /\ i' = 0

\* One pass of camera_mmap_buffers.  A failing mmap leaves MAP_FAILED in start and
\* releases everything, which the cleanup then does again.
MapBuffer ==
    /\ mpc = "map"
    /\ \/ /\ LoopOn("map", "enqueue")
          /\ mapping' = [mapping EXCEPT ![i] = "mapped"]
          /\ UNCHANGED driverVars
       \/ /\ Fail("query", ERROR_LEVEL_2)
          /\ FreeCameraBuffers(mapping)
          /\ UNCHANGED <<i, mapping>>
       \/ /\ Fail("mmap", ERROR_LEVEL_2)
          /\ Deallocate([mapping EXCEPT ![i] = "failed"])
          /\ UNCHANGED i
    /\ UNCHANGED <<heap, num_buffers, fd, picVars, camera_enqueue_count, frameVars>>

\* One pass of the loop of camera_init_internal_buffers: the count is raised whether
\* or not the driver took the buffer; its flags may be wrong although it did.
EnqueueBuffer ==
    /\ mpc = "enqueue"
    /\ camera_enqueue_count' = camera_enqueue_count + 1
    /\ \/ LoopOn("enqueue", "wo") /\ queued' = queued \cup {i}
       \/ /\ Fail("enqueue", ERROR_LEVEL_2)
          /\ queued' \in {queued, queued \cup {i}}
          /\ UNCHANGED i
    /\ UNCHANGED <<memVars, fd, requested, streaming, filled, picVars, frameVars>>

\* allocate_single_wo_buffer, allocate_single_er_buffer
AllocateSingle(place, r, next) ==
    /\ mpc = place
    /\ \/ Proceed(place, next) /\ heap' = [heap EXCEPT ![r] = "held"]
       \/ Fail("buffers", ERROR_LEVEL_3) /\ UNCHANGED heap
    /\ UNCHANGED <<i, mapVars, fd, driverVars, picVars, camera_enqueue_count, frameVars>>

AllocateSingles ==
    \/ AllocateSingle("wo", "wo_buffer", "er")
    \/ AllocateSingle("er", "er_buffer", "stream")

\* a mistake in camera_start_streaming: the level forgets the single buffers.
StartStreamingLevel2 ==
    /\ mpc = "stream"
    /\ \/ Proceed("stream", "refocus") /\ streaming' = 1
       \/ Fail("stream", ERROR_LEVEL_2) /\ UNCHANGED streaming
    /\ UNCHANGED <<i, memVars, fd, requested, queued, filled, picVars, camera_enqueue_count,
                   frameVars>>

\* start_streaming
StartStreaming ==
    /\ mpc = "stream"
    /\ \/ Proceed("stream", "refocus") /\ streaming' = 1
       \/ Fail("stream", ERROR_LEVEL_3) /\ UNCHANGED streaming
    /\ UNCHANGED <<i, memVars, fd, requested, queued, filled, picVars, camera_enqueue_count,
                   frameVars>>

\* try_refocus: it sleeps while the camera already takes pictures.
Refocus ==
    /\ mpc = "refocus"
    /\ \/ Proceed("refocus", "run") /\ fpc' = "wait"
       \/ Fail("refocus", ERROR_LEVEL_3) /\ UNCHANGED fpc
    /\ UNCHANGED <<i, memVars, fd, driverVars, picVars, camera_enqueue_count, current, got>>

-----------------------------------------------------------------------------
(* main() after the threads *)

\* timer_create or timer_settime fails: the program exits without any cleanup.
TimerFails ==
    /\ Proceed("run", "exited")
    /\ UNCHANGED <<i, memVars, fd, driverVars, picVars, camera_enqueue_count, frameVars>>

\* frame() is joined in time or it is not; only in the first case the camera is
\* cleaned up.
JoinFrame ==
    /\ mpc = "run"
    /\ \/ fpc = "done" /\ Fail("none", ERROR_FULL_INIT)
       \/ Proceed("run", "free")
    /\ UNCHANGED <<i, memVars, fd, driverVars, picVars, camera_enqueue_count, frameVars>>

\* video_error_cleanup falls through from one case to the next.
Level(l) == /\ mpc = "cleanup" /\ level = l
            /\ level' = l - 1
            /\ UNCHANGED <<mpc, i, failed>>

\* stop_streaming takes all buffers from the driver, or fails.
CleanupStream ==
    /\ Level(ERROR_FULL_INIT)
    /\ \/ DriverStops
       \/ UNCHANGED <<streaming, queued, filled>>
    /\ UNCHANGED <<memVars, fd, requested, picVars, camera_enqueue_count, frameVars>>

CleanupSingles ==
    /\ Level(ERROR_LEVEL_3)
    /\ heap' = Deallocated(Singles)
    /\ UNCHANGED <<mapVars, fd, driverVars, picVars, camera_enqueue_count, frameVars>>

CleanupBuffers ==
    /\ Level(ERROR_LEVEL_2)
    /\ Deallocate(mapping)
    /\ UNCHANGED <<heap, num_buffers, fd, picVars, camera_enqueue_count, frameVars>>

CleanupClose ==
    /\ Level(ERROR_LEVEL_1)
    /\ CloseCamera
    /\ UNCHANGED <<memVars, picVars, camera_enqueue_count, frameVars>>

CleanupReturns ==
    /\ level = ERROR_LEVEL_0
    /\ Proceed("cleanup", IF fpc = "none" THEN "exited" ELSE "free")
    /\ UNCHANGED <<i, memVars, fd, driverVars, picVars, camera_enqueue_count, frameVars>>

\* deallocate_processing and deallocate_writeout, each only if its thread was joined.
FreeRings ==
    /\ Proceed("free", "exited")
    /\ \E joined \in SUBSET Rings : heap' = Deallocated(joined)
    /\ UNCHANGED <<i, mapVars, fd, driverVars, picVars, camera_enqueue_count, frameVars>>

-----------------------------------------------------------------------------
(* frame(), and the driver *)

FrameAt(place) == mpc # "exited" /\ fpc = place

\* frame() is asked for a picture, or ends.
FrameWait ==
    /\ FrameAt("wait")
    /\ fpc' \in {"dequeue", "done"}
    /\ UNCHANGED <<mainVars, memVars, fd, driverVars, picVars, camera_enqueue_count, current, got>>

\* camera_dequeue_buf: the oldest picture, for which the call waits; or an error,
\* which lowers the count all the same.  With a count of 0 it does not call.
CameraDequeue ==
    /\ FrameAt("dequeue")
    /\ camera_enqueue_count' = IF camera_enqueue_count > 0 THEN camera_enqueue_count - 1 ELSE 0
    /\ \/ /\ fpc' = "done"
          /\ UNCHANGED <<filled, current>>
       \/ /\ camera_enqueue_count > 0
          /\ \E b \in filled :
                /\ \A c \in filled : content[b] <= content[c]
                /\ filled' = filled \ {b}
                /\ current' = b
          /\ fpc' = "copy"
    /\ UNCHANGED <<mainVars, memVars, fd, requested, streaming, queued, picVars, got>>

\* a mistake in frame(): the index the driver returned is not used.
FrameCopyFirst ==
    /\ FrameAt("copy")
    /\ got' = content[0]
    /\ fpc' \in {"requeue", "done"}
    /\ UNCHANGED <<mainVars, memVars, fd, driverVars, picVars, camera_enqueue_count, current>>

\* a mistake in frame(): when the queue is full the frame is passed over, and with it
\* the return of the buffer.
FrameCopySkips ==
    /\ FrameAt("copy")
    /\ got' = content[current]
    /\ fpc' \in {"requeue", "wait", "done"}
    /\ UNCHANGED <<mainVars, memVars, fd, driverVars, picVars, camera_enqueue_count, current>>

\* The copy to the scan ring; then enqueue_P may end the thread, which keeps the buffer.
FrameCopy ==
    /\ FrameAt("copy")
    /\ got' = content[current]
    /\ fpc' \in {"requeue", "done"}
    /\ UNCHANGED <<mainVars, memVars, fd, driverVars, picVars, camera_enqueue_count, current>>

\* a mistake in camera_enqueue_buf: the count is not raised.
FrameRequeueUncounted ==
    /\ FrameAt("requeue")
    /\ UNCHANGED camera_enqueue_count
    /\ \/ queued' = queued \cup {current} /\ current' = NoBuf /\ fpc' = "wait"
       \/ fpc' = "done" /\ UNCHANGED <<queued, current>>
    /\ UNCHANGED <<mainVars, memVars, fd, requested, streaming, filled, picVars, got>>

\* camera_enqueue_buf
FrameRequeue ==
    /\ FrameAt("requeue")
    /\ camera_enqueue_count' = camera_enqueue_count + 1
    /\ \/ queued' = queued \cup {current} /\ current' = NoBuf /\ fpc' = "wait"
       \/ fpc' = "done" /\ UNCHANGED <<queued, current>>
    /\ UNCHANGED <<mainVars, memVars, fd, requested, streaming, filled, picVars, got>>

\* The camera takes a picture, into one of the buffers it has or into none.
TakePicture ==
    /\ mpc # "exited"
    /\ streaming = 1 /\ taken < Pictures
    /\ taken' = taken + 1
    /\ \/ \E b \in queued :
            /\ queued' = queued \ {b}
            /\ filled' = filled \cup {b}
            /\ content' = [content EXCEPT ![b] = taken + 1]
       \/ queued = {} /\ UNCHANGED <<queued, filled, content>>
    /\ UNCHANGED <<mainVars, memVars, fd, requested, streaming, camera_enqueue_count, frameVars>>

Next ==
    \/ InitProcessing \/ InitWriteout \/ OpenCamera \/ CheckInit \/ RequestBuffers
    \/ MapBuffer \/ EnqueueBuffer \/ AllocateSingles \/ StartStreaming \/ Refocus
    \/ TimerFails \/ JoinFrame \/ FreeRings
    \/ CleanupStream \/ CleanupSingles \/ CleanupBuffers \/ CleanupClose \/ CleanupReturns
    \/ FrameWait \/ CameraDequeue \/ FrameCopy \/ FrameRequeue
    \/ TakePicture

Spec == Init /\ [][Next]_vars

-----------------------------------------------------------------------------
(* Properties *)

FrameAlive == mpc # "exited" /\ fpc \in {"wait", "dequeue", "copy", "requeue"}

\* Whatever call fails, nothing is released twice or without having been allocated,
\* with one exception: when an mmap fails, camera_mmap_buffers (camera_buffer.c:90-94)
\* releases the mappings that camera_init_all then releases again.
ReleasedOnce ==
    /\ fd # "bad" /\ \A r \in DOMAIN heap : heap[r] # "bad"
    /\ failed # "mmap" => \A b \in Buffers : mapping[b] # "bad"

\* video_error_cleanup was called with the level of what had been reached: when it
\* is through, nothing the camera set-up had acquired is left.
NothingLeft ==
    level = ERROR_LEVEL_0 =>
        /\ fd # "open" /\ requested = 0 /\ streaming = 0
        /\ \A b \in Buffers : mapping[b] # "mapped"
        /\ \A r \in Singles : heap[r] # "held"

\* The camera is closed last: its memory is unmapped, its stream stopped and its
\* buffers freed before, except the too few buffers of a short answer, which
\* camera_request_buffers tries to free before it has set their type.
CloseIsLast ==
    [][fd = "open" /\ fd' # "open" =>
          /\ streaming = 0
          /\ requested = 1 => failed = "short"
          /\ \A b \in Buffers : mapping[b] # "mapped"]_vars

\* Between two frames the driver has every buffer, so that VIDIOC_DQBUF can return
\* and the count never stops frame(); during a frame it has all but the one frame()
\* copies from, which is mapped and which the driver therefore does not write to.
FrameHasBuffers ==
    FrameAlive =>
        /\ streaming = 1 /\ \A b \in Buffers : mapping[b] = "mapped"
        /\ camera_enqueue_count = Cardinality(queued \cup filled)
        /\ fpc \in {"wait", "dequeue"} => queued \cup filled = Buffers
        /\ fpc \in {"copy", "requeue"} => current \in Buffers
                                      /\ queued \cup filled = Buffers \ {current}

\* The camera drops a picture only when frame() is behind by all buffers but the
\* one it has.
DroppedOnlyWhenBehind ==
    [][FrameAlive /\ taken' # taken /\ filled' = filled =>
          Cardinality(filled) >= CAMERA_NUM_BUF - 1]_vars

\* Each picture frame() copies is newer than the one before.
PicturesInOrder == [][fpc = "copy" /\ fpc' # "copy" => got' > got]_vars

\* Who has a buffer, for BufferHandover.
Owner == [b \in Buffers |-> IF b \in queued \cup filled THEN "driver"
                            ELSE IF b = current THEN "frame" ELSE "program"]

Handover == INSTANCE BufferHandover WITH owner <- Owner

\* The buffers go from the program to the driver, to frame() and back as
\* BufferHandover says.
ImplementsHandover == Handover!Spec

=============================================================================
