--------------------------- MODULE BufferHandover ---------------------------
(***************************************************************************)
(* What the camera driver and frame() promise each other about the mapped  *)
(* buffers: a buffer belongs to the driver, to frame() or, while none of   *)
(* them uses it, to the program; frame() has at most one at a time, gets   *)
(* it from the driver only, and the program takes back what the driver has *)
(* all at once.                                                            *)
(***************************************************************************)
CONSTANT Buffers

VARIABLE owner

Init == owner = [b \in Buffers |-> "program"]

FrameHasOne == \E b \in Buffers : owner[b] = "frame"

\* The program or frame() hands a buffer to the driver.
Give(b) == /\ owner[b] # "driver"
           /\ owner' = [owner EXCEPT ![b] = "driver"]

\* frame() gets a buffer from the driver when it has none.
Take(b) == /\ owner[b] = "driver"
           /\ ~FrameHasOne
           /\ owner' = [owner EXCEPT ![b] = "frame"]

\* The stream ends: the driver has no buffer any more.
Revoke == owner' = [b \in Buffers |-> IF owner[b] = "driver" THEN "program" ELSE owner[b]]

Next == \/ \E b \in Buffers : Give(b) \/ Take(b)
        \/ Revoke

Spec == Init /\ [][Next]_owner

=============================================================================
