----------------------------- MODULE TickPhotos -----------------------------
(***************************************************************************)
(* What the synchronome promises of its picture series, without threads,   *)
(* rings or queues: frames are captured one after the other, and the       *)
(* pictures taken from them are exactly Spacing frames apart.  The promise *)
(* may be withdrawn once and for all (degraded); even then a picture shows *)
(* captured frames and nothing else.                                       *)
(***************************************************************************)
EXTENDS Integers

CONSTANT Spacing        \* frames from one picture to the next

None  == -1             \* no picture yet
Mixed == -2             \* a picture of more than one frame

VARIABLES captured,     \* frames captured so far, numbered from 0
          photo,        \* the frame in the last picture
          photos,       \* pictures taken
          degraded      \* 1 when spacing is no longer promised

vars == <<captured, photo, photos, degraded>>

Init == captured = 0 /\ photo = None /\ photos = 0 /\ degraded = 0

Capture ==
    /\ captured' = captured + 1
    /\ UNCHANGED <<photo, photos, degraded>>

Degrade ==
    /\ degraded' = 1
    /\ UNCHANGED <<captured, photo, photos>>

\* the first picture may be of any frame
TakePhoto ==
    /\ degraded = 0
    /\ photo' \in 0 .. captured - 1
    /\ photo = None \/ photo' = photo + Spacing
    /\ photos' = photos + 1
    /\ UNCHANGED <<captured, degraded>>

TakePoorPhoto ==
    /\ degraded = 1
    /\ photo' \in {Mixed} \cup 0 .. captured - 1
    /\ photos' = photos + 1
    /\ UNCHANGED <<captured, degraded>>

Next == Capture \/ Degrade \/ TakePhoto \/ TakePoorPhoto

Spec == Init /\ [][Next]_vars

=============================================================================
