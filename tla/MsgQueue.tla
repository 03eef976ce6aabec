------------------------------ MODULE MsgQueue ------------------------------
(***************************************************************************)
(* A queue_container_t between two threads: enqueue_P in one, dequeue_P in *)
(* the other, every access to the two fields they share as a step of its   *)
(* own.  Neither field is protected: count is read, changed and stored by  *)
(* both threads, and b is the buffer through which both of them hand their *)
(* message to the kernel or take it from there.                            *)
(*                                                                         *)
(* The POSIX queue itself is the kernel's: mq_timedsend copies the message *)
(* from b when it is called and appends it when there is room; mq_receive  *)
(* takes the oldest message when there is one, then copies it to b.        *)
(*                                                                         *)
(* The messages are numbered by the calls of enqueue_P, so that a message  *)
(* lost, doubled or overtaken shows; a message is a ring index of the size *)
(* of an int, which both sides copy in one access.                         *)
(***************************************************************************)
EXTENDS Integers, Sequences

CONSTANTS num_elems,  \* entries of the queue
          Calls       \* bound: calls of enqueue_P

ASSUME QueueAssumption == num_elems \in Nat \ {0} /\ Calls \in Nat

VARIABLES
    count, b,               \* the fields of queue_container_t
    mq,                     \* the messages in the kernel's queue
    spc, s_count, s_msg,    \* enqueue_P: place, count it read, message in the kernel
    rpc, r_count, r_msg,    \* dequeue_P: the same
    calls,                  \* calls of enqueue_P so far, and the message of this one
    \* history
    sent, received,         \* messages sent and received, in order
    kept_counts,            \* raised counts whose message was never sent
    b_raced, count_raced    \* 1 once a thread wrote the field under the other

sendVars    == <<spc, s_count, s_msg>>
recvVars    == <<rpc, r_count, r_msg>>
historyVars == <<sent, received, kept_counts, b_raced, count_raced>>
vars == <<count, b, mq, sendVars, recvVars, calls, historyVars>>

Init ==
    /\ count = 0 /\ b = 0 /\ mq = <<>>
    /\ spc = "idle" /\ s_count = 0 /\ s_msg = 0
    /\ rpc = "idle" /\ r_count = 0 /\ r_msg = 0
    /\ calls = 0
    /\ sent = <<>> /\ received = <<>> /\ kept_counts = 0
    /\ b_raced = 0 /\ count_raced = 0

-----------------------------------------------------------------------------
(* enqueue_P *)

\* "(safety) enqueue_P full": the call is refused
Refuse ==
    /\ spc = "idle"
    /\ calls < Calls
    /\ count = num_elems
    /\ calls' = calls + 1
    /\ UNCHANGED <<count, b, mq, sendVars, recvVars, historyVars>>

\* a mistake in Enqueue: the queue is not looked at
EnqueueUnchecked ==
    /\ spc = "idle"
    /\ calls < Calls
    /\ calls' = calls + 1
    /\ spc' = "load"
    /\ UNCHANGED <<count, b, mq, s_count, s_msg, recvVars, historyVars>>

Enqueue ==
    /\ spc = "idle"
    /\ calls < Calls
    /\ count # num_elems
    /\ calls' = calls + 1
    /\ spc' = "load"
    /\ UNCHANGED <<count, b, mq, s_count, s_msg, recvVars, historyVars>>

\* q->count++ in two steps
SendLoad ==
    /\ spc = "load"
    /\ s_count' = count
    /\ spc' = "store"
    /\ UNCHANGED <<count, b, mq, s_msg, recvVars, calls, historyVars>>

SendStore ==
    /\ spc = "store"
    /\ count' = s_count + 1
    /\ count_raced' = IF count = s_count THEN count_raced ELSE 1
    /\ spc' = "copy"
    /\ UNCHANGED <<b, mq, s_count, s_msg, recvVars, calls, sent, received,
                   kept_counts, b_raced>>

\* a mistake in SendCopy: the index is not copied
SendCopyNothing ==
    /\ spc = "copy"
    /\ spc' = "enter"
    /\ UNCHANGED <<count, b, mq, s_count, s_msg, recvVars, calls, historyVars>>

\* memcpy into q->b
SendCopy ==
    /\ spc = "copy"
    /\ b' = calls
    /\ b_raced' = IF rpc = "copy" THEN 1 ELSE b_raced
    /\ spc' = "enter"
    /\ UNCHANGED <<count, mq, s_count, s_msg, recvVars, calls, sent, received,
                   kept_counts, count_raced>>

\* mq_timedsend: the kernel reads the message
SendEnter ==
    /\ spc = "enter"
    /\ s_msg' = b
    /\ spc' = "send"
    /\ UNCHANGED <<count, b, mq, s_count, recvVars, calls, historyVars>>

\* and appends it when there is room
Send ==
    /\ spc = "send"
    /\ Len(mq) < num_elems
    /\ mq' = Append(mq, s_msg)
    /\ sent' = Append(sent, calls)
    /\ spc' = "idle"
    /\ UNCHANGED <<count, b, s_count, s_msg, recvVars, calls, received,
                   kept_counts, b_raced, count_raced>>

\* or gives up: the time is over, or a signal arrived.  The count stays raised.
\* frame() ends then, processing() does not look and goes on
SendFails ==
    /\ spc = "send"
    /\ Len(mq) = num_elems
    /\ kept_counts' = kept_counts + 1
    /\ spc' \in {"idle", "done"}
    /\ UNCHANGED <<count, b, mq, s_count, s_msg, recvVars, calls, sent, received,
                   b_raced, count_raced>>

-----------------------------------------------------------------------------
(* dequeue_P *)

\* q->count-- in two steps
RecvLoad ==
    /\ rpc = "idle"
    /\ r_count' = count
    /\ rpc' = "store"
    /\ UNCHANGED <<count, b, mq, sendVars, r_msg, calls, historyVars>>

\* a mistake in RecvStore: the count is stored as it was
RecvStoreKeeps ==
    /\ rpc = "store"
    /\ count' = r_count
    /\ count_raced' = IF count = r_count THEN count_raced ELSE 1
    /\ rpc' = "receive"
    /\ UNCHANGED <<b, mq, sendVars, r_count, r_msg, calls, sent, received,
                   kept_counts, b_raced>>

RecvStore ==
    /\ rpc = "store"
    /\ count' = r_count - 1
    /\ count_raced' = IF count = r_count THEN count_raced ELSE 1
    /\ rpc' = "receive"
    /\ UNCHANGED <<b, mq, sendVars, r_count, r_msg, calls, sent, received,
                   kept_counts, b_raced>>

\* mq_receive: the kernel takes the oldest message
Receive ==
    /\ rpc = "receive"
    /\ mq # <<>>
    /\ r_msg' = Head(mq)
    /\ mq' = Tail(mq)
    /\ rpc' = "leave"
    /\ UNCHANGED <<count, b, sendVars, r_count, calls, historyVars>>

\* or a signal interrupts the wait for one: the thread ends
ReceiveFails ==
    /\ rpc = "receive"
    /\ mq = <<>>
    /\ rpc' = "done"
    /\ UNCHANGED <<count, b, mq, sendVars, r_count, r_msg, calls, historyVars>>

\* and copies it to q->b
RecvLeave ==
    /\ rpc = "leave"
    /\ b' = r_msg
    /\ b_raced' = IF spc = "enter" THEN 1 ELSE b_raced
    /\ rpc' = "copy"
    /\ UNCHANGED <<count, mq, sendVars, r_count, r_msg, calls, sent, received,
                   kept_counts, count_raced>>

\* memcpy out of q->b
RecvCopy ==
    /\ rpc = "copy"
    /\ received' = Append(received, b)
    /\ rpc' = "idle"
    /\ UNCHANGED <<count, b, mq, sendVars, r_count, r_msg, calls, sent,
                   kept_counts, b_raced, count_raced>>

-----------------------------------------------------------------------------
SendNext == \/ Refuse \/ Enqueue \/ SendLoad \/ SendStore \/ SendCopy
            \/ SendEnter \/ Send \/ SendFails
RecvNext == \/ RecvLoad \/ RecvStore \/ Receive \/ ReceiveFails
            \/ RecvLeave \/ RecvCopy

Next == SendNext \/ RecvNext

Spec == Init /\ [][Next]_vars

-----------------------------------------------------------------------------
(* Properties *)

TypeOK ==
    /\ count \in Int /\ b \in 0 .. Calls
    /\ mq \in Seq(0 .. Calls) /\ Len(mq) <= num_elems
    /\ spc \in {"idle", "load", "store", "copy", "enter", "send", "done"}
    /\ s_count \in Int /\ s_msg \in 0 .. Calls
    /\ rpc \in {"idle", "store", "receive", "leave", "copy", "done"}
    /\ r_count \in Int /\ r_msg \in 0 .. Calls
    /\ calls \in 0 .. Calls
    /\ sent \in Seq(0 .. Calls) /\ received \in Seq(0 .. Calls)
    /\ kept_counts \in Nat
    /\ b_raced \in {0, 1} /\ count_raced \in {0, 1}

\* the message dequeue_P has taken and not yet handed over
InHand == IF rpc \in {"leave", "copy"} THEN 1 ELSE 0

\* Until one thread writes b while the other has a message in it, what is received
\* is what was sent, in that order, and nothing is lost on the way.
FifoUntilRace ==
    b_raced = 0 =>
      /\ Len(sent) = Len(received) + InHand + Len(mq)
      /\ \A k \in 1 .. Len(received) : received[k] = sent[k]
      /\ InHand = 1 => r_msg = sent[Len(received) + 1]
      /\ \A k \in 1 .. Len(mq) : mq[k] = sent[Len(received) + InHand + k]

\* Until one thread stores count over a change of the other, count is the length
\* of the queue, but for the calls under way and the counts failed sends left
\* behind: those stay for ever and make the queue smaller.
CountUntilRace ==
    count_raced = 0 =>
      count = Len(mq) + kept_counts + (IF spc \in {"copy", "enter", "send"} THEN 1 ELSE 0)
                - (IF rpc \in {"receive", "done"} THEN 1 ELSE 0)

\* A send finds no room, so that its time can run out, only while dequeue_P has
\* lowered count and not received, or has ended: never because of the program's
\* own counting, as long as that did not race.
TimeOutMeansLate ==
    count_raced = 0 /\ spc = "send" /\ Len(mq) = num_elems => rpc \in {"receive", "done"}

\* Races or not, dequeue_P never returns an index that enqueue_P was not given.
ReceivedWasGiven == \A k \in 1 .. Len(received) : received[k] \in 1 .. calls

\* "Queues for passing image buffers around ... by *index only*" (queue.c:7-8):
\* the indexes received are those that were sent.
PassedByIndex == \A k \in 1 .. Len(received) : k <= Len(sent) /\ received[k] = sent[k]

\* "(safety) enqueue_P full" (queue.c:98) is said of a queue that is full.
RefusedWhenFull == [][Refuse => Len(mq) = num_elems]_vars

=============================================================================
