------------------------ MODULE QueueScheduleProofs ------------------------
(***************************************************************************)
(* Proofs about two components that share no state: enqueue_P and           *)
(* dequeue_P, for queues of every size and any number of calls, and the     *)
(* engine of schedule.c with the two tests of src/feasibility, for every    *)
(* number of ticks and set of services.  The parts: the queue; the engine   *)
(* and its counters; sums and quotients; no miss under the earliest         *)
(* deadline and the least laxity; the tests; the engine under rate          *)
(* monotonic, which misses nothing exactly if the tests pass.               *)
(***************************************************************************)
EXTENDS MsgQueue, Schedule, FiniteSetTheorems, SequenceTheorems, WellFoundedInduction, TLAPS

-----------------------------------------------------------------------------
(* The inductive invariant of the queue *)

\* Until b is written under a thread, the message it holds is that thread's.
BufferInv ==
    b_raced = 0 =>
      /\ spc = "enter" => b = calls
      /\ spc = "send" => s_msg = calls
      /\ rpc = "copy" => b = r_msg

\* Everywhere a message can be on its way, it is one that enqueue_P was given.
GivenInv ==
    /\ spc \notin {"idle", "done"} => calls >= 1
    /\ spc = "enter" => b >= 1 /\ b <= calls
    /\ spc = "send" => s_msg >= 1 /\ s_msg <= calls
    /\ \A k \in 1 .. Len(mq) : mq[k] >= 1 /\ mq[k] <= calls
    /\ rpc \in {"leave", "copy"} => r_msg >= 1 /\ r_msg <= calls
    /\ rpc = "copy" => b >= 1 /\ b <= calls

\* A call that was not refused keeps its room.
RoomInv ==
    count_raced = 0 =>
      /\ count <= num_elems
      /\ spc \in {"load", "store"} => count < num_elems

QueueInv == /\ TypeOK /\ BufferInv /\ GivenInv /\ ReceivedWasGiven
            /\ FifoUntilRace /\ CountUntilRace /\ RoomInv

-----------------------------------------------------------------------------
(* Proofs *)

\* What a receive does to the entries of a queue.
LEMMA TailFacts ==
    ASSUME NEW S, NEW q \in Seq(S), q # <<>>
    PROVE  /\ Tail(q) \in Seq(S)
           /\ Len(q) >= 1
           /\ Len(Tail(q)) = Len(q) - 1
           /\ Head(q) = q[1] /\ q[1] \in S
           /\ \A k \in 1 .. Len(q) - 1 : Tail(q)[k] = q[k + 1]
OBVIOUS

\* A queue starts empty and in order.
LEMMA QueueInit == Init => QueueInv
BY QueueAssumption DEF Init, QueueInv, TypeOK, BufferInv, GivenInv, ReceivedWasGiven,
   FifoUntilRace, CountUntilRace, RoomInv, InHand

\* Every step of the two threads keeps the types.
LEMMA QueueType == TypeOK /\ [Next]_vars => TypeOK'
<1> SUFFICES ASSUME TypeOK, [Next]_vars PROVE TypeOK'
  OBVIOUS
<1> USE QueueAssumption DEF TypeOK, sendVars, recvVars, historyVars
<1>1. CASE Refuse BY <1>1 DEF Refuse
<1>2. CASE Enqueue BY <1>2 DEF Enqueue
<1>3. CASE SendLoad BY <1>3 DEF SendLoad
<1>4. CASE SendStore BY <1>4 DEF SendStore
<1>5. CASE SendCopy BY <1>5 DEF SendCopy
<1>6. CASE SendEnter BY <1>6 DEF SendEnter
<1>7. CASE Send BY <1>7, AppendProperties DEF Send
<1>8. CASE SendFails BY <1>8 DEF SendFails
<1>9. CASE RecvLoad BY <1>9 DEF RecvLoad
<1>10. CASE RecvStore BY <1>10 DEF RecvStore
<1>11. CASE Receive BY <1>11, TailFacts DEF Receive
<1>12. CASE ReceiveFails BY <1>12 DEF ReceiveFails
<1>13. CASE RecvLeave BY <1>13 DEF RecvLeave
<1>14. CASE RecvCopy BY <1>14, AppendProperties DEF RecvCopy
<1>15. CASE UNCHANGED vars BY <1>15 DEF vars
<1> QED
  BY <1>1, <1>2, <1>3, <1>4, <1>5, <1>6, <1>7, <1>8,
     <1>9, <1>10, <1>11, <1>12, <1>13, <1>14, <1>15 DEF Next, SendNext, RecvNext

\* count agrees with the queue and leaves room for the call under way.
LEMMA CountStep ==
    TypeOK /\ CountUntilRace /\ RoomInv /\ [Next]_vars => CountUntilRace' /\ RoomInv'
<1> SUFFICES ASSUME TypeOK, CountUntilRace, RoomInv, [Next]_vars
             PROVE  CountUntilRace' /\ RoomInv'
  OBVIOUS
<1> USE QueueAssumption DEF CountUntilRace, RoomInv, sendVars, recvVars, historyVars
<1>0. /\ count \in Int /\ s_count \in Int /\ r_count \in Int /\ kept_counts \in Nat
      /\ Len(mq) \in Nat /\ count_raced \in {0, 1}
  BY DEF TypeOK
<1>1. CASE Refuse \/ Enqueue \/ SendLoad \/ SendStore
  <2>1. CASE Refuse
    BY <1>0, <2>1 DEF Refuse
  <2>2. CASE Enqueue
    BY <1>0, <2>2 DEF Enqueue
  <2>3. CASE SendLoad
    BY <1>0, <2>3 DEF SendLoad
  <2>4. CASE SendStore
    BY <1>0, <2>4 DEF SendStore
  <2> QED
    BY <1>1, <2>1, <2>2, <2>3, <2>4
<1>2. CASE SendCopy \/ SendEnter \/ SendFails
  <2>1. CASE SendCopy
    BY <1>0, <2>1 DEF SendCopy
  <2>2. CASE SendEnter
    BY <1>0, <2>2 DEF SendEnter
  <2>3. CASE SendFails
    BY <1>0, <2>3 DEF SendFails
  <2> QED
    BY <1>2, <2>1, <2>2, <2>3
<1>3. CASE Send
  <2>1. Len(mq') = Len(mq) + 1
    BY <1>3, AppendProperties DEF Send, TypeOK
  <2> QED
    BY <1>0, <1>3, <2>1 DEF Send
<1>4. CASE RecvLoad \/ RecvStore \/ ReceiveFails \/ RecvLeave \/ RecvCopy
  <2>1. CASE RecvLoad
    BY <1>0, <2>1 DEF RecvLoad
  <2>2. CASE RecvStore
    BY <1>0, <2>2 DEF RecvStore
  <2>3. CASE ReceiveFails
    BY <1>0, <2>3 DEF ReceiveFails
  <2>4. CASE RecvLeave
    BY <1>0, <2>4 DEF RecvLeave
  <2>5. CASE RecvCopy
    BY <1>0, <2>5 DEF RecvCopy
  <2> QED
    BY <1>4, <2>1, <2>2, <2>3, <2>4, <2>5
<1>5. CASE Receive
  <2>1. Len(mq') = Len(mq) - 1
    BY <1>5, TailFacts DEF Receive, TypeOK
  <2> QED
    BY <1>0, <1>5, <2>1 DEF Receive
<1>6. CASE UNCHANGED vars
  BY <1>6 DEF vars
<1> QED
  BY <1>1, <1>2, <1>3, <1>4, <1>5, <1>6 DEF Next, SendNext, RecvNext

\* The messages on their way keep their order as long as b does not race.
LEMMA FifoStep ==
    TypeOK /\ BufferInv /\ FifoUntilRace /\ [Next]_vars => BufferInv' /\ FifoUntilRace'
<1> SUFFICES ASSUME TypeOK, BufferInv, FifoUntilRace, [Next]_vars, b_raced' = 0
             PROVE  BufferInv' /\ FifoUntilRace'
  BY DEF BufferInv, FifoUntilRace
<1> USE QueueAssumption DEF sendVars, recvVars, historyVars
<1>0. /\ Len(mq) \in Nat /\ Len(sent) \in Nat /\ Len(received) \in Nat
      /\ mq \in Seq(0 .. Calls) /\ sent \in Seq(0 .. Calls) /\ received \in Seq(0 .. Calls)
      /\ calls \in 0 .. Calls /\ s_msg \in 0 .. Calls /\ b \in 0 .. Calls /\ r_msg \in 0 .. Calls
      /\ b_raced \in {0, 1}
  BY DEF TypeOK
<1>1. b_raced = 0
  <2>1. CASE SendCopy \/ RecvLeave
    BY <1>0, <2>1 DEF SendCopy, RecvLeave
  <2>2. CASE UNCHANGED b_raced
    BY <2>2
  <2> QED
    BY <2>1, <2>2 DEF Next, SendNext, RecvNext, Refuse, Enqueue, SendLoad, SendStore,
       SendEnter, Send, SendFails, RecvLoad, RecvStore, Receive, ReceiveFails, RecvCopy, vars
<1>2. BufferInv'
  BY <1>0, <1>1 DEF BufferInv, Next, SendNext, RecvNext, Refuse, Enqueue, SendLoad, SendStore,
     SendCopy, SendEnter, Send, SendFails, RecvLoad, RecvStore, Receive, ReceiveFails,
     RecvLeave, RecvCopy, vars
<1>i. InHand \in {0, 1}
  BY DEF InHand
<1>l. Len(sent) = Len(received) + InHand + Len(mq)
  BY <1>1 DEF FifoUntilRace
<1>q. \A k \in 1 .. Len(mq) : mq[k] = sent[Len(received) + InHand + k]
  BY <1>1 DEF FifoUntilRace
<1>3. CASE Send
  <2>1. /\ s_msg = calls
        /\ mq' = Append(mq, s_msg) /\ sent' = Append(sent, calls)
        /\ UNCHANGED <<rpc, r_msg, received>>
    BY <1>1, <1>3 DEF Send, BufferInv
  <2>2. /\ Len(mq') = Len(mq) + 1 /\ mq'[Len(mq) + 1] = calls
        /\ \A k \in 1 .. Len(mq) : mq'[k] = mq[k]
    BY <1>0, <2>1, AppendProperties
  <2>3. /\ Len(sent') = Len(sent) + 1 /\ sent'[Len(sent) + 1] = calls
        /\ \A k \in 1 .. Len(sent) : sent'[k] = sent[k]
    BY <1>0, <2>1, AppendProperties
  <2>4. InHand' = InHand /\ InHand \in {0, 1}
    BY <2>1 DEF InHand
  <2>5. \A k \in 1 .. Len(received) : received'[k] = sent'[k]
    BY <1>0, <1>1, <2>1, <2>3, <2>4 DEF FifoUntilRace
  <2>6. InHand = 1 => r_msg' = sent'[Len(received) + 1]
    BY <1>0, <1>1, <2>1, <2>3, <2>4 DEF FifoUntilRace
  <2>7. ASSUME NEW k \in 1 .. Len(mq')
        PROVE  mq'[k] = sent'[Len(received) + InHand + k]
    <3>1. CASE k \in 1 .. Len(mq)
      <4>1. Len(received) + InHand + k \in 1 .. Len(sent)
        BY <1>0, <1>i, <1>l, <3>1
      <4> QED
        BY <1>q, <2>2, <2>3, <3>1, <4>1
    <3>2. CASE k = Len(mq) + 1
      BY <1>0, <1>i, <1>l, <2>2, <2>3, <3>2
    <3> QED
      BY <1>0, <2>2, <3>1, <3>2
  <2>8. Len(sent') = Len(received') + InHand' + Len(mq')
    BY <1>0, <1>1, <2>1, <2>2, <2>3, <2>4 DEF FifoUntilRace
  <2> QED
    BY <1>2, <2>1, <2>4, <2>5, <2>6, <2>7, <2>8 DEF FifoUntilRace
<1>4. CASE Receive
  <2>1. /\ mq # <<>> /\ mq' = Tail(mq) /\ r_msg' = Head(mq)
        /\ InHand = 0 /\ InHand' = 1
        /\ UNCHANGED <<sent, received>>
    BY <1>4 DEF Receive, InHand
  <2>2. /\ Len(mq) >= 1 /\ Len(mq') = Len(mq) - 1 /\ r_msg' = mq[1]
        /\ \A k \in 1 .. Len(mq) - 1 : mq'[k] = mq[k + 1]
    BY <1>0, <2>1, TailFacts
  <2>3. \A k \in 1 .. Len(mq) : mq[k] = sent[Len(received) + k]
    BY <1>0, <1>1, <2>1 DEF FifoUntilRace
  <2>4. r_msg' = sent[Len(received) + 1]
    BY <1>0, <2>2, <2>3
  <2>5. ASSUME NEW k \in 1 .. Len(mq')
        PROVE  mq'[k] = sent[Len(received) + 1 + k]
    <3>1. k + 1 \in 1 .. Len(mq) /\ Len(received) + (k + 1) = Len(received) + 1 + k
      BY <1>0, <2>2
    <3> QED
      BY <1>0, <2>2, <2>3, <3>1
  <2>6. Len(sent) = Len(received) + 1 + Len(mq')
    BY <1>0, <1>l, <2>1, <2>2
  <2> QED
    BY <1>1, <1>2, <2>1, <2>4, <2>5, <2>6 DEF FifoUntilRace
<1>5. CASE RecvCopy
  <2>1. /\ b = r_msg /\ received' = Append(received, b)
        /\ InHand = 1 /\ InHand' = 0
        /\ UNCHANGED <<sent, mq>>
    BY <1>1, <1>5 DEF RecvCopy, InHand, BufferInv
  <2>2. /\ Len(received') = Len(received) + 1 /\ received'[Len(received) + 1] = b
        /\ \A k \in 1 .. Len(received) : received'[k] = received[k]
    BY <1>0, <2>1, AppendProperties
  <2>3. \A k \in 1 .. Len(received') : received'[k] = sent[k]
    BY <1>0, <1>1, <2>1, <2>2 DEF FifoUntilRace
  <2>4. \A k \in 1 .. Len(mq) : mq[k] = sent[Len(received') + k]
    BY <1>0, <1>1, <2>1, <2>2 DEF FifoUntilRace
  <2>5. Len(sent) = Len(received') + Len(mq)
    BY <1>0, <1>1, <2>1, <2>2 DEF FifoUntilRace
  <2>6. \A k \in 1 .. Len(mq') : mq'[k] = sent'[Len(received') + InHand' + k]
    <3>1. \A k \in 1 .. Len(mq) : Len(received') + InHand' + k = Len(received') + k
      BY <1>0, <2>1, <2>2
    <3> QED
      BY <2>1, <2>4, <3>1
  <2>7. Len(sent') = Len(received') + InHand' + Len(mq')
    BY <1>0, <2>1, <2>2, <2>5
  <2> QED
    BY <1>2, <2>1, <2>3, <2>6, <2>7 DEF FifoUntilRace
<1>6. CASE UNCHANGED <<sent, received, mq, r_msg, InHand>>
  BY <1>1, <1>2, <1>6 DEF FifoUntilRace
<1> QED
  BY <1>2, <1>3, <1>4, <1>5, <1>6 DEF Next, SendNext, RecvNext, Refuse, Enqueue, SendLoad,
     SendStore, SendCopy, SendEnter, SendFails, RecvLoad, RecvStore, ReceiveFails,
     RecvLeave, InHand, vars

\* Raced or not, nothing is on its way that enqueue_P was not given.
LEMMA GivenStep ==
    TypeOK /\ GivenInv /\ ReceivedWasGiven /\ [Next]_vars => GivenInv' /\ ReceivedWasGiven'
<1> SUFFICES ASSUME TypeOK, GivenInv, ReceivedWasGiven, [Next]_vars
             PROVE  GivenInv' /\ ReceivedWasGiven'
  OBVIOUS
<1> USE QueueAssumption DEF GivenInv, ReceivedWasGiven, sendVars, recvVars, historyVars
<1>0. /\ Len(mq) \in Nat /\ Len(received) \in Nat
      /\ mq \in Seq(0 .. Calls) /\ received \in Seq(0 .. Calls)
      /\ calls \in 0 .. Calls /\ s_msg \in 0 .. Calls /\ b \in 0 .. Calls /\ r_msg \in 0 .. Calls
      /\ \A k \in 1 .. Len(mq) : mq[k] \in 0 .. Calls
      /\ \A k \in 1 .. Len(received) : received[k] \in 0 .. Calls
  BY DEF TypeOK
<1>1. CASE Refuse \/ Enqueue \/ SendLoad \/ SendStore
  <2>1. CASE Refuse
    BY <1>0, <2>1 DEF Refuse
  <2>2. CASE Enqueue
    BY <1>0, <2>2 DEF Enqueue
  <2>3. CASE SendLoad
    BY <1>0, <2>3 DEF SendLoad
  <2>4. CASE SendStore
    BY <1>0, <2>4 DEF SendStore
  <2> QED
    BY <1>1, <2>1, <2>2, <2>3, <2>4
<1>2. CASE SendCopy \/ SendEnter \/ SendFails
  <2>1. CASE SendCopy
    BY <1>0, <2>1 DEF SendCopy
  <2>2. CASE SendEnter
    BY <1>0, <2>2 DEF SendEnter
  <2>3. CASE SendFails
    BY <1>0, <2>3 DEF SendFails
  <2> QED
    BY <1>2, <2>1, <2>2, <2>3
<1>3. CASE Send
  <2>1. /\ spc = "send" /\ spc' = "idle" /\ mq' = Append(mq, s_msg)
        /\ UNCHANGED <<b, rpc, r_msg, calls, received>>
    BY <1>3 DEF Send
  <2>2. /\ Len(mq') = Len(mq) + 1 /\ mq'[Len(mq) + 1] = s_msg
        /\ \A k \in 1 .. Len(mq) : mq'[k] = mq[k]
    BY <1>0, <2>1, AppendProperties
  <2> QED
    BY <1>0, <2>1, <2>2
<1>4. CASE RecvLoad \/ RecvStore \/ ReceiveFails \/ RecvLeave
  <2>1. CASE RecvLoad
    BY <1>0, <2>1 DEF RecvLoad
  <2>2. CASE RecvStore
    BY <1>0, <2>2 DEF RecvStore
  <2>3. CASE ReceiveFails
    BY <1>0, <2>3 DEF ReceiveFails
  <2>4. CASE RecvLeave
    BY <1>0, <2>4 DEF RecvLeave
  <2> QED
    BY <1>4, <2>1, <2>2, <2>3, <2>4
<1>5. CASE Receive
  <2>1. /\ rpc = "receive" /\ rpc' = "leave" /\ mq # <<>>
        /\ mq' = Tail(mq) /\ r_msg' = Head(mq)
        /\ UNCHANGED <<b, spc, s_msg, calls, received>>
    BY <1>5 DEF Receive
  <2>2. /\ Len(mq) >= 1 /\ Len(mq') = Len(mq) - 1 /\ r_msg' = mq[1]
        /\ \A k \in 1 .. Len(mq) - 1 : mq'[k] = mq[k + 1]
    BY <1>0, <2>1, TailFacts
  <2> HIDE DEF GivenInv, ReceivedWasGiven
  <2>0. \A k \in 1 .. Len(mq) : mq[k] >= 1 /\ mq[k] <= calls
    BY DEF GivenInv
  <2>3. ASSUME NEW k \in 1 .. Len(mq') PROVE mq'[k] >= 1 /\ mq'[k] <= calls
    <3>1. k \in 1 .. Len(mq) - 1 /\ k + 1 \in 1 .. Len(mq)
      BY <1>0, <2>2
    <3> QED
      BY <2>0, <2>2, <3>1
  <2>4. r_msg' >= 1 /\ r_msg' <= calls
    BY <1>0, <2>0, <2>2
  <2>5. GivenInv'
    BY <2>1, <2>3, <2>4 DEF GivenInv
  <2>6. ReceivedWasGiven'
    BY <2>1 DEF ReceivedWasGiven
  <2> QED
    BY <2>5, <2>6
<1>6. CASE RecvCopy
  <2>1. /\ rpc = "copy" /\ rpc' = "idle" /\ received' = Append(received, b)
        /\ UNCHANGED <<b, mq, spc, s_msg, r_msg, calls>>
    BY <1>6 DEF RecvCopy
  <2>2. /\ Len(received') = Len(received) + 1 /\ received'[Len(received) + 1] = b
        /\ \A k \in 1 .. Len(received) : received'[k] = received[k]
    BY <1>0, <2>1, AppendProperties
  <2>3. b \in 1 .. calls
    BY <1>0, <2>1
  <2> HIDE DEF GivenInv
  <2>4. ReceivedWasGiven'
    BY <1>0, <2>1, <2>2, <2>3
  <2>5. GivenInv'
    BY <2>1 DEF GivenInv
  <2> QED
    BY <2>4, <2>5
<1>7. CASE UNCHANGED vars
  BY <1>7 DEF vars
<1> QED
  BY <1>1, <1>2, <1>3, <1>4, <1>5, <1>6, <1>7 DEF Next, SendNext, RecvNext

\* QueueInv holds in every state of a queue.
THEOREM QueueInvariance == Spec => []QueueInv
<1>1. QueueInv /\ [Next]_vars => QueueInv'
  BY QueueType, CountStep, FifoStep, GivenStep DEF QueueInv
<1> QED
  BY <1>1, QueueInit, PTL DEF Spec

\* What is received is what was sent, in order, until b is written under a thread.
THEOREM QueueIsFifo == Spec => []FifoUntilRace
<1>1. QueueInv => FifoUntilRace
  BY DEF QueueInv
<1> QED
  BY <1>1, QueueInvariance, PTL

\* count is the length of the queue, and more only by what failed sends left, until
\* it is stored over a change of the other thread.
THEOREM QueueIsCounted == Spec => []CountUntilRace
<1>1. QueueInv => CountUntilRace
  BY DEF QueueInv
<1> QED
  BY <1>1, QueueInvariance, PTL

\* No race makes dequeue_P return an index that enqueue_P was never given.
THEOREM NothingIsInvented == Spec => []ReceivedWasGiven
<1>1. QueueInv => ReceivedWasGiven
  BY DEF QueueInv
<1> QED
  BY <1>1, QueueInvariance, PTL

\* A send waits for room only for a dequeue_P that is under way or has ended.
THEOREM TimeOutIsLateReceiver == Spec => []TimeOutMeansLate
<1>1. QueueInv => TimeOutMeansLate
  BY QueueAssumption DEF QueueInv, TypeOK, CountUntilRace, RoomInv, TimeOutMeansLate
<1> QED
  BY <1>1, QueueInvariance, PTL

-----------------------------------------------------------------------------
(* The engine of schedule.c.                                                *)

\* The deadline of s is the end of its period k, and its run time what it was given
\* since that period began.
CountersInv ==
    \A s \in Services(services) :
      LET T == services.period[s]
      IN  /\ Deadline[s] < T \/ (Now = 0 /\ Deadline[s] = T)
          /\ Runtime[s] <= services.wcet[s]
          /\ \E k \in Nat : /\ Now + Deadline[s] = (k + 1) * T
                            /\ Runtime[s] = Given(s, k * T, Now)

\* The missed periods that end before time n.  Those that end before Now are counted.
MissedBefore(n) ==
    {x \in Services(services) \X (0 .. TICKS) :
        LET T == services.period[x[1]]
        IN  /\ (x[2] + 1) * T < n
            /\ Given(x[1], x[2] * T, (x[2] + 1) * T) < services.wcet[x[1]]}

CountedPeriods == MissedBefore(Now)
CountedInv == misses = Cardinality(CountedPeriods)

EngineInv == ScheduleTypeOK /\ CountersInv /\ CountedInv

\* A finite set has an element of least rank: the elements below an element of S
\* form a finite set, and one such set has no proper subset among them.
LEMMA LeastExists ==
    ASSUME NEW S, IsFiniteSet(S), S # {}, NEW rank \in [S -> Int]
    PROVE  \E s \in S : \A r \in S : rank[s] <= rank[r]
<1> DEFINE Below(s) == {r \in S : rank[r] < rank[s]}
           Sets == {Below(s) : s \in S}
           order == StrictSubsetOrdering(S)
<1>1. Sets \subseteq FiniteSubsetsOf(S) /\ Sets # {}
  <2>1. ASSUME NEW s \in S PROVE Below(s) \in FiniteSubsetsOf(S)
    <3>1. Below(s) \in SUBSET S
      OBVIOUS
    <3> QED
      BY <3>1, FS_Subset DEF FiniteSubsetsOf
  <2> HIDE DEF Below
  <2> QED
    BY <2>1
<1>2. PICK x \in Sets : \A y \in Sets : ~(<<y, x>> \in order)
  <2>1. IsWellFoundedOn(order, FiniteSubsetsOf(S))
    BY FS_StrictSubsetOrderingWellFounded
  <2> HIDE DEF Sets, order
  <2> QED
    BY <1>1, <2>1, WFMin
<1>3. PICK s \in S : x = Below(s)
  BY <1>2
<1>4. ASSUME NEW r \in S, rank[r] < rank[s] PROVE FALSE
  <2>1. Below(r) \in Sets /\ Below(r) \subseteq x /\ r \in x /\ r \notin Below(r)
    BY <1>3, <1>4
  <2>2. <<Below(r), x>> \in order
    BY <1>3, <2>1 DEF StrictSubsetOrdering
  <2> QED
    BY <1>2, <2>1, <2>2
<1> QED
  BY <1>4

\* First and Least pick an element of the set, with the rank they are named for.
LEMMA FirstIsFirst ==
    ASSUME NEW S, IsFiniteSet(S), S # {}, S \subseteq Nat
    PROVE  First(S) \in S /\ \A r \in S : First(S) <= r
<1> DEFINE rank == [s \in S |-> s]
<1>1. rank \in [S -> Int]
  OBVIOUS
<1> HIDE DEF rank
<1>2. PICK s \in S : \A r \in S : rank[s] <= rank[r]
  BY <1>1, LeastExists
<1>3. \A r \in S : s <= r
  BY <1>2 DEF rank
<1> QED
  BY <1>3 DEF First

LEMMA LeastIsLeast ==
    ASSUME NEW S, IsFiniteSet(S), S # {}, S \subseteq Nat, NEW rank \in [S -> Int]
    PROVE  Least(S, rank) \in S /\ \A r \in S : rank[Least(S, rank)] <= rank[r]
<1> DEFINE L == {s \in S : \A r \in S : rank[s] <= rank[r]}
<1>1. L # {} /\ L \subseteq Nat
  BY LeastExists
<1>2. IsFiniteSet(L)
  <2>1. L \in SUBSET S
    OBVIOUS
  <2> HIDE DEF L
  <2> QED
    BY <2>1, FS_Subset
<1>3. First(L) \in L
  <2> HIDE DEF L
  <2> QED
    BY <1>1, <1>2, FirstIsFirst
<1> QED
  BY <1>3 DEF Least

\* The services of a type-correct state.
LEMMA ServiceTypes ==
    ASSUME ScheduleTypeOK, NEW s \in Services(services)
    PROVE  /\ services.period[s] \in Nat \ {0} /\ services.wcet[s] \in Nat \ {0}
           /\ Deadline[s] \in Nat /\ Runtime[s] \in Nat /\ s \in Nat
<1>1. s \in 1 .. Len(services.period) /\ s \in 1 .. Len(services.wcet) /\ Len(services.period) \in Nat
  BY LenProperties DEF ScheduleTypeOK, Services
<1>2. services.period[s] \in Nat \ {0} /\ services.wcet[s] \in Nat \ {0}
  <2>1. services.period \in Seq(Nat \ {0}) /\ services.wcet \in Seq(Nat \ {0})
    BY DEF ScheduleTypeOK
  <2> QED
    BY <1>1, <2>1, ElementOfSeq, Zenon
<1>3. Deadline[s] \in Nat /\ Runtime[s] \in Nat
  BY DEF ScheduleTypeOK
<1> QED
  BY <1>1, <1>2, <1>3

\* A set of services: as many run times as periods, none of them zero.
Times == Nat \ {0}
IsServiceSet(t) == /\ t.period \in Seq(Times) /\ t.wcet \in Seq(Times)
                   /\ Len(t.wcet) = Len(t.period)

\* Sets of two, three and four services.
LEMMA TwoServices ==
    \A T1, T2, C1, C2 \in Times : IsServiceSet([period |-> <<T1, T2>>, wcet |-> <<C1, C2>>])
BY DEF IsServiceSet, Times

LEMMA ThreeServices ==
    \A T1, T2, T3, C1, C2, C3 \in Times :
      IsServiceSet([period |-> <<T1, T2, T3>>, wcet |-> <<C1, C2, C3>>])
BY DEF IsServiceSet, Times

LEMMA FourServices ==
    \A T1, T2, T3, T4, C1, C2, C3, C4 \in Times :
      IsServiceSet([period |-> <<T1, T2, T3, T4>>, wcet |-> <<C1, C2, C3, C4>>])
BY DEF IsServiceSet, Times

\* The test cases of tests.c are sets of services.
LEMMA TestCasesRight == \A n \in 1 .. Len(test_cases) : IsServiceSet(test_cases[n])
<1> USE TwoServices, ThreeServices, FourServices
<1>0. /\ 1 \in Times /\ 2 \in Times /\ 3 \in Times /\ 4 \in Times /\ 5 \in Times /\ 6 \in Times
      /\ 7 \in Times /\ 8 \in Times /\ 9 \in Times /\ 10 \in Times /\ 12 \in Times /\ 13 \in Times
      /\ 14 \in Times /\ 15 \in Times /\ 16 \in Times /\ 24 \in Times /\ 33 \in Times
      /\ 40 \in Times /\ 72 \in Times /\ 100 \in Times
  BY DEF Times
<1>1. IsServiceSet(test_cases[1]) BY <1>0 DEF test_cases
<1>2. IsServiceSet(test_cases[2]) BY <1>0 DEF test_cases
<1>3. IsServiceSet(test_cases[3]) BY <1>0 DEF test_cases
<1>4. IsServiceSet(test_cases[4]) BY <1>0 DEF test_cases
<1>5. IsServiceSet(test_cases[5]) BY <1>0 DEF test_cases
<1>6. IsServiceSet(test_cases[6]) BY <1>0 DEF test_cases
<1>7. IsServiceSet(test_cases[7]) BY <1>0 DEF test_cases
<1>8. IsServiceSet(test_cases[8]) BY <1>0 DEF test_cases
<1>9. IsServiceSet(test_cases[9]) BY <1>0 DEF test_cases
<1>10. IsServiceSet(test_cases[10]) BY <1>0 DEF test_cases
<1>11. IsServiceSet(test_cases[11]) BY <1>0 DEF test_cases
<1>12. IsServiceSet(test_cases[12]) BY <1>0 DEF test_cases
<1>13. IsServiceSet(test_cases[13]) BY <1>0 DEF test_cases
<1>14. IsServiceSet(test_cases[14]) BY <1>0 DEF test_cases
<1>15. IsServiceSet(test_cases[15]) BY <1>0 DEF test_cases
<1>16. IsServiceSet(test_cases[16]) BY <1>0 DEF test_cases
<1>17. IsServiceSet(test_cases[17]) BY <1>0 DEF test_cases
<1>18. IsServiceSet(test_cases[18]) BY <1>0 DEF test_cases
<1>19. IsServiceSet(test_cases[19]) BY <1>0 DEF test_cases
<1>20. IsServiceSet(test_cases[20]) BY <1>0 DEF test_cases
<1>21. Len(test_cases) = 20
  BY DEF test_cases
<1> QED
  BY <1>1, <1>2, <1>3, <1>4, <1>5, <1>6, <1>7, <1>8, <1>9, <1>10, <1>11,
     <1>12, <1>13, <1>14, <1>15, <1>16, <1>17, <1>18, <1>19, <1>20, <1>21

\* Three numbers are a sequence of length three.
LEMMA ThreeAreASeq == ASSUME NEW P, NEW T \in [1 .. 3 -> P] PROVE T \in Seq(P) /\ Len(T) = 3
<1>1. T = [i \in 1 .. 3 |-> T[i]]
  OBVIOUS
<1>2. [i \in 1 .. 3 |-> T[i]] \in Seq(P) /\ Len([i \in 1 .. 3 |-> T[i]]) = 3
  OBVIOUS
<1> QED
  BY <1>1, <1>2

\* The schedule starts in the invariant.
LEMMA EngineInit == ScheduleInit => EngineInv
<1> SUFFICES ASSUME ScheduleInit PROVE EngineInv
  OBVIOUS
<1>1. IsServiceSet(services)
  <2>1. CASE \E n \in 1 .. Len(test_cases) : services = test_cases[n]
    BY <2>1, TestCasesRight
  <2>2. ASSUME NEW T \in [1 .. 3 -> CustomPeriods], NEW C \in [1 .. 3 -> CustomWcets],
               services = [period |-> T, wcet |-> C]
        PROVE  IsServiceSet(services)
    <3>1. T \in [1 .. 3 -> Nat \ {0}] /\ C \in [1 .. 3 -> Nat \ {0}]
      BY ScheduleAssumption
    <3>2. /\ T \in Seq(Nat \ {0}) /\ Len(T) = 3
          /\ C \in Seq(Nat \ {0}) /\ Len(C) = 3
      BY <3>1, ThreeAreASeq
    <3> QED
      BY <2>2, <3>2 DEF IsServiceSet, Times
  <2> QED
    BY <2>1, <2>2 DEF ScheduleInit
<1>2. Services(services) \subseteq Nat /\ \A s \in Services(services) :
        services.period[s] \in Nat \ {0} /\ services.wcet[s] \in Nat \ {0}
  BY <1>1 DEF Services, IsServiceSet, Times
<1>3. Deadline \in [Services(services) -> Nat] /\ Runtime \in [Services(services) -> Nat]
  BY <1>1, <1>2 DEF ScheduleInit, Services, IsServiceSet, Times
<1>4. Now = 0 /\ TICKS \in Nat
  BY ScheduleAssumption DEF ScheduleInit, Now, TICKS
<1>5. ScheduleTypeOK
  BY <1>1, <1>3, <1>4 DEF ScheduleInit, ScheduleTypeOK, IsServiceSet, Times
<1>6. CountersInv
  <2> SUFFICES ASSUME NEW s \in Services(services)
               PROVE  /\ Now = 0 /\ Deadline[s] = services.period[s]
                      /\ Runtime[s] <= services.wcet[s]
                      /\ Now + Deadline[s] = (0 + 1) * services.period[s]
                      /\ Runtime[s] = Given(s, 0 * services.period[s], Now)
    BY DEF CountersInv
  <2>1. Given(s, 0 * services.period[s], Now) = 0
    <3>1. {u \in 0 * services.period[s] .. Now - 1 : events[u + 1] = s} = {}
      BY <1>2, <1>4
    <3> QED
      BY <3>1, FS_EmptySet DEF Given
  <2> QED
    BY <1>2, <1>4, <2>1 DEF ScheduleInit
<1>7. CountedInv
  <2>1. CountedPeriods = {}
    BY <1>2, <1>4 DEF CountedPeriods, MissedBefore
  <2> QED
    BY <2>1, FS_EmptySet DEF CountedInv, ScheduleInit
<1> QED
  BY <1>5, <1>6, <1>7 DEF EngineInv

\* An appended tick leaves what was given before as it was.
LEMMA GivenKept ==
    ASSUME ScheduleTypeOK, NEW c, events' = Append(events, c),
           NEW s, NEW from \in Nat, NEW to \in Nat, to <= Now
    PROVE  Given(s, from, to)' = Given(s, from, to)
<1>1. \A u \in from .. to - 1 : events'[u + 1] = events[u + 1]
  BY DEF ScheduleTypeOK, Now
<1>2. {u \in from .. to - 1 : events'[u + 1] = s} = {u \in from .. to - 1 : events[u + 1] = s}
  BY <1>1
<1> QED
  BY <1>2 DEF Given

\* What a service was given grows by the tick it is given.
LEMMA GivenMore ==
    ASSUME ScheduleTypeOK, NEW c, events' = Append(events, c), NEW n \in Nat, n = Now,
           NEW s, NEW from \in Nat, from <= n
    PROVE  Given(s, from, n + 1)' = Given(s, from, n) + (IF c = s THEN 1 ELSE 0)
<1> DEFINE old == {u \in from .. n - 1 : events[u + 1] = s}
           new == {u \in from .. n : events'[u + 1] = s}
<1>1. events'[n + 1] = c /\ \A u \in from .. n - 1 : events'[u + 1] = events[u + 1]
  BY DEF ScheduleTypeOK, Now
<1>2. new = IF c = s THEN old \cup {n} ELSE old
  <2>1. from .. n = (from .. n - 1) \cup {n}
    OBVIOUS
  <2> QED
    BY <1>1, <2>1
<1>3. IsFiniteSet(old) /\ n \notin old
  <2>1. old \in SUBSET (from .. n - 1) /\ IsFiniteSet(from .. n - 1)
    BY FS_Interval
  <2>2. n \notin old
    OBVIOUS
  <2> HIDE DEF old
  <2> QED
    BY <2>1, <2>2, FS_Subset
<1>4. Given(s, from, n) = Cardinality(old) /\ Given(s, from, n + 1)' = Cardinality(new)
  <2>1. {u \in from .. (n + 1) - 1 : events'[u + 1] = s} = new
    <3>1. from .. (n + 1) - 1 = from .. n
      OBVIOUS
    <3> QED
      BY <3>1
  <2> HIDE DEF new
  <2> QED
    BY <2>1 DEF Given
<1>5. Cardinality(new) = Cardinality(old) + (IF c = s THEN 1 ELSE 0)
  <2>1. Cardinality(old) \in Nat
    BY <1>3, FS_CardinalityType
  <2> HIDE DEF old, new
  <2>2. Cardinality(old \cup {n}) = Cardinality(old) + 1
    BY <1>3, FS_AddElement
  <2> QED
    BY <1>2, <2>1, <2>2
<1> QED
  BY <1>4, <1>5

\* Multiples of a positive number.
LEMMA TimesFacts ==
    ASSUME NEW k \in Nat, NEW T \in Nat \ {0}
    PROVE  /\ k * T \in Nat /\ k <= k * T
           /\ (k + 1) * T = k * T + T
           /\ (k + 1 + 1) * T = (k + 1) * T + T
<1>1. k * T \in Nat
  OBVIOUS
<1>2. (k + 1) * T = k * T + T
  OBVIOUS
<1>3. (k + 1 + 1) * T = (k + 1) * T + T
  OBVIOUS
<1>4. k <= k * T
  <2>1. k * (T - 1) \in Nat
    OBVIOUS
  <2>2. k * T = k * (T - 1) + k
    OBVIOUS
  <2> QED
    BY <1>1, <2>1, <2>2
<1> QED
  BY <1>1, <1>2, <1>3, <1>4

\* Multiples of T less than T apart are the same.
LEMMA SameMultiple ==
    ASSUME NEW T \in Nat \ {0}, NEW j \in Int, NEW k \in Int, NEW d \in 0 .. T - 1,
           j * T = k * T + d
    PROVE  j = k /\ d = 0
<1>1. CASE j >= k + 1
  <2>1. (j - k - 1) * T \in Nat
    <3>1. j - k - 1 \in Nat
      BY <1>1
    <3> QED
      BY <3>1
  <2>2. (j - k - 1) * T = j * T - k * T - T
    OBVIOUS
  <2> QED
    BY <2>1, <2>2
<1>2. CASE j <= k - 1
  <2>1. (k - j - 1) * T \in Nat
    <3>1. k - j - 1 \in Nat
      BY <1>2
    <3> QED
      BY <3>1
  <2>2. (k - j - 1) * T = k * T - j * T - T
    OBVIOUS
  <2> QED
    BY <2>1, <2>2
<1>3. CASE j = k
  BY <1>3
<1> QED
  BY <1>1, <1>2, <1>3

\* So equal multiples are the same multiple.
LEMMA SameFactor ==
    ASSUME NEW T \in Nat \ {0}, NEW j \in Int, NEW k \in Int, j * T = k * T
    PROVE  j = k
<1>1. j * T = k * T + 0 /\ 0 \in 0 .. T - 1
  OBVIOUS
<1> QED
  BY <1>1, SameMultiple, Zenon

\* The quotient of a number that lies r after a multiple of T.
LEMMA Quotient ==
    ASSUME NEW T \in Nat \ {0}, NEW k \in Nat, NEW r \in 0 .. T - 1
    PROVE  (k * T + r) \div T = k
<1>1. k * T + r = T * k + r /\ k * T + r \in Int
  OBVIOUS
<1> QED
  BY <1>1, SMTT(60)

\* Deadline and Runtime as a tick finds them once expired deadlines are renewed.
DeadlineNow(s) == IF Deadline[s] = 0 THEN services.period[s] ELSE Deadline[s]
RuntimeNow(s)  == IF Deadline[s] = 0 THEN 0 ELSE Runtime[s]
Running        == {s \in Services(services) : RuntimeNow(s) < services.wcet[s]}
Spare(s)       ==
    DeadlineNow(s) - (IF protocol = "LLF" THEN services.wcet[s] - RuntimeNow(s) ELSE 0)

\* The service is one that the protocol may run.
IsChoice(c) ==
    IF Running = {} THEN c = Idle
    ELSE /\ c \in Running
         /\ \A r \in Running : IF protocol = "RM" THEN c <= r ELSE Spare(c) <= Spare(r)

\* A tick renews what has expired, counts it if it is missed, and runs such a service.
LEMMA TickRuns ==
    ASSUME ScheduleTypeOK, Tick
    PROVE  \E c \in Services(services) \cup {Idle} :
             /\ IsChoice(c)
             /\ events' = Append(events, c)
             /\ Deadline' = [s \in Services(services) |-> DeadlineNow(s) - 1]
             /\ Runtime' = [s \in Services(services) |->
                              IF s = c THEN RuntimeNow(s) + 1 ELSE RuntimeNow(s)]
<1> DEFINE all      == Services(services)
           deadline == [s \in all |-> DeadlineNow(s)]
           runtime  == [s \in all |-> RuntimeNow(s)]
           lax      == [s \in Running |-> deadline[s] - (services.wcet[s] - runtime[s])]
           c        == Choose(Running, deadline, runtime)
<1>1. /\ events' = Append(events, c)
      /\ Deadline' = [s \in all |-> DeadlineNow(s) - 1]
      /\ Runtime' = [s \in all |-> IF s = c THEN RuntimeNow(s) + 1 ELSE RuntimeNow(s)]
  <2>1. Running = {s \in all : runtime[s] < services.wcet[s]}
    BY DEF Running
  <2>2. /\ deadline = [s \in all |-> IF Deadline[s] = 0 THEN services.period[s] ELSE Deadline[s]]
        /\ runtime = [s \in all |-> IF Renewed(s) THEN 0 ELSE Runtime[s]]
    BY DEF DeadlineNow, RuntimeNow, Renewed
  <2>3. /\ events' = Append(events, c)
        /\ Deadline' = [s \in all |-> deadline[s] - 1]
        /\ Runtime' = [s \in all |-> IF s = c THEN runtime[s] + 1 ELSE runtime[s]]
    <3> DEFINE D == [s \in all |-> IF Deadline[s] = 0 THEN services.period[s] ELSE Deadline[s]]
               R == [s \in all |-> IF Renewed(s) THEN 0 ELSE Runtime[s]]
               W == {s \in all : R[s] < services.wcet[s]}
    <3>1. /\ events' = Append(events, Choose(W, D, R))
          /\ Deadline' = [s \in all |-> D[s] - 1]
          /\ Runtime' = [s \in all |-> IF s = Choose(W, D, R) THEN R[s] + 1 ELSE R[s]]
      BY Zenon DEF Tick
    <3>2. D = deadline /\ R = runtime
      BY <2>2
    <3>3. W = Running
      BY <2>1, <3>2
    <3> HIDE DEF D, R, W, deadline, runtime
    <3> QED
      BY <3>1, <3>2, <3>3
  <2> QED
    BY <2>3
<1>2. Running \subseteq all /\ all \subseteq Nat /\ IsFiniteSet(Running)
  <2>1. all \subseteq Nat /\ IsFiniteSet(all)
    <3>1. Len(services.period) \in Int
      BY LenProperties DEF ScheduleTypeOK
    <3>2. all = 1 .. Len(services.period)
      BY DEF Services
    <3> HIDE DEF all
    <3> QED
      BY <3>1, <3>2, FS_Interval
  <2>2. Running \in SUBSET all
    BY DEF Running
  <2> QED
    BY <2>1, <2>2, FS_Subset
<1>3. \A s \in all : /\ services.wcet[s] \in Nat /\ DeadlineNow(s) \in Nat /\ RuntimeNow(s) \in Nat
                     /\ deadline[s] = DeadlineNow(s) /\ runtime[s] = RuntimeNow(s)
  BY ServiceTypes DEF DeadlineNow, RuntimeNow
<1>4. IsChoice(c) /\ c \in all \cup {Idle}
  <2> HIDE DEF all, deadline, runtime
  <2>1. CASE Running = {}
    <3>1. c = Idle
      BY <2>1 DEF Choose
    <3> HIDE DEF c
    <3> QED
      BY <2>1, <3>1 DEF IsChoice
  <2>2. CASE Running # {} /\ protocol = "RM"
    <3>1. c = First(Running)
      BY <2>2 DEF Choose
    <3>2. c \in Running /\ \A r \in Running : c <= r
      BY <1>2, <2>2, <3>1, FirstIsFirst
    <3> QED
      BY <1>2, <2>2, <3>2 DEF IsChoice
  <2>3. CASE Running # {} /\ protocol = "EDF"
    <3> DEFINE rank == [s \in Running |-> deadline[s]]
    <3>1. rank \in [Running -> Int]
      BY <1>2, <1>3
    <3>2. c = Least(Running, rank)
      <4>1. c = Least(Running, deadline)
        BY <2>3 DEF Choose
      <4>2. \A s, r \in Running : deadline[s] <= deadline[r] <=> rank[s] <= rank[r]
        OBVIOUS
      <4>3. {s \in Running : \A r \in Running : deadline[s] <= deadline[r]}
              = {s \in Running : \A r \in Running : rank[s] <= rank[r]}
        <5> HIDE DEF rank
        <5> QED
          BY <4>2
      <4> QED
        BY <4>1, <4>3 DEF Least
    <3> HIDE DEF rank, c
    <3>3. c \in Running /\ \A r \in Running : rank[c] <= rank[r]
      BY <1>2, <2>3, <3>1, <3>2, LeastIsLeast
    <3>4. \A r \in Running : rank[r] = Spare(r)
      BY <1>2, <1>3, <2>3 DEF rank, Spare
    <3> QED
      BY <1>2, <2>3, <3>3, <3>4 DEF IsChoice
  <2>4. CASE Running # {} /\ protocol = "LLF"
    <3>1. lax \in [Running -> Int]
      BY <1>2, <1>3
    <3>2. c = Least(Running, lax)
      BY <2>4 DEF Choose
    <3> HIDE DEF lax, c
    <3>3. c \in Running /\ \A r \in Running : lax[c] <= lax[r]
      BY <1>2, <2>4, <3>1, <3>2, LeastIsLeast
    <3>4. \A r \in Running : lax[r] = Spare(r)
      BY <1>2, <1>3, <2>4 DEF lax, Spare
    <3> QED
      BY <1>2, <2>4, <3>3, <3>4 DEF IsChoice
  <2> QED
    BY <2>1, <2>2, <2>3, <2>4 DEF ScheduleTypeOK
<1> QED
  BY <1>1, <1>4

\* Once expired deadlines are renewed, the deadline of s is the end of the period the
\* tick lies in, and the run time what s was given in that period.
LEMMA PeriodNow ==
    ASSUME EngineInv, NEW s \in Services(services), NEW T, T = services.period[s]
    PROVE  /\ DeadlineNow(s) \in 1 .. T /\ RuntimeNow(s) \in 0 .. services.wcet[s]
           /\ \E j \in Nat : /\ Now + DeadlineNow(s) = (j + 1) * T /\ j * T \in 0 .. Now
                             /\ RuntimeNow(s) = Given(s, j * T, Now)
<1>1. T \in Nat \ {0} /\ services.wcet[s] \in Nat /\ Deadline[s] \in Nat /\ Runtime[s] \in Nat
  BY ServiceTypes DEF EngineInv
<1>2. Now \in Nat
  BY LenProperties DEF EngineInv, ScheduleTypeOK, Now
<1>3. /\ Deadline[s] < T \/ (Now = 0 /\ Deadline[s] = T)
      /\ Runtime[s] <= services.wcet[s]
  BY DEF EngineInv, CountersInv
<1>4. PICK k \in Nat : Now + Deadline[s] = (k + 1) * T /\ Runtime[s] = Given(s, k * T, Now)
  BY DEF EngineInv, CountersInv
<1>5. k * T \in Nat /\ (k + 1) * T = k * T + T /\ (k + 1 + 1) * T = (k + 1) * T + T
  BY <1>1, TimesFacts
<1>6. CASE Deadline[s] = 0
  <2>1. Given(s, (k + 1) * T, Now) = 0
    <3>1. (k + 1) * T = Now
      BY <1>2, <1>4, <1>6
    <3>2. {u \in (k + 1) * T .. Now - 1 : events[u + 1] = s} = {}
      BY <1>2, <3>1
    <3> QED
      BY <3>2, FS_EmptySet DEF Given
  <2>2. DeadlineNow(s) = T /\ RuntimeNow(s) = 0
    BY <1>6 DEF DeadlineNow, RuntimeNow
  <2>3. k + 1 \in Nat /\ (k + 1) * T = Now
    BY <1>2, <1>4, <1>6
  <2> QED
    BY <1>1, <1>2, <1>5, <2>1, <2>2, <2>3
<1>7. CASE Deadline[s] # 0
  <2>1. DeadlineNow(s) = Deadline[s] /\ RuntimeNow(s) = Runtime[s]
    BY <1>7 DEF DeadlineNow, RuntimeNow
  <2>2. k * T \in 0 .. Now
    <3>1. PICK m \in Nat : m = k * T
      BY <1>5
    <3>2. Now + Deadline[s] = m + T /\ Deadline[s] <= T
      BY <1>1, <1>3, <1>4, <1>5, <3>1
    <3>3. m <= Now
      BY <1>1, <1>2, <3>2
    <3> QED
      BY <1>2, <3>1, <3>3
  <2> QED
    BY <1>1, <1>3, <1>4, <1>7, <2>1, <2>2
<1> QED
  BY <1>6, <1>7

\* The counters of every service after a tick.
LEMMA CountersStep ==
    ASSUME EngineInv, NEW c, IsChoice(c), events' = Append(events, c), services' = services,
           Deadline' = [s \in Services(services) |-> DeadlineNow(s) - 1],
           Runtime' = [s \in Services(services) |->
                         IF s = c THEN RuntimeNow(s) + 1 ELSE RuntimeNow(s)]
    PROVE  CountersInv'
<1>1. ScheduleTypeOK
  BY DEF EngineInv
<1>2. PICK n \in Nat : n = Now
  BY <1>1, LenProperties DEF ScheduleTypeOK, Now
<1>3. Now' = n + 1
  BY <1>1, <1>2 DEF ScheduleTypeOK, Now
<1> SUFFICES ASSUME NEW s \in Services(services)
             PROVE  /\ Deadline'[s] < services.period[s]
                    /\ Runtime'[s] <= services.wcet[s]
                    /\ \E k \in Nat : /\ n + 1 + Deadline'[s] = (k + 1) * services.period[s]
                                      /\ Runtime'[s] = Given(s, k * services.period[s], n + 1)'
  BY <1>3 DEF CountersInv, Services
<1> DEFINE T == services.period[s]
<1>4. T \in Nat \ {0} /\ services.wcet[s] \in Nat
  BY <1>1, ServiceTypes
<1>5. DeadlineNow(s) \in 1 .. T /\ RuntimeNow(s) \in 0 .. services.wcet[s]
  BY PeriodNow
<1>6. PICK j \in Nat : /\ n + DeadlineNow(s) = (j + 1) * T /\ j * T \in 0 .. n
                       /\ RuntimeNow(s) = Given(s, j * T, n)
  BY <1>2, PeriodNow
<1>7. Given(s, j * T, n + 1)' = Given(s, j * T, n) + (IF c = s THEN 1 ELSE 0)
  <2>1. PICK from \in Nat : from = j * T
    BY <1>6
  <2>2. from <= n
    BY <1>6, <2>1
  <2>3. Given(s, from, n + 1)' = Given(s, from, n) + (IF c = s THEN 1 ELSE 0)
    BY <1>1, <1>2, <2>2, GivenMore
  <2> QED
    BY <2>1, <2>3
<1>8. Deadline'[s] = DeadlineNow(s) - 1
  OBVIOUS
<1>9. Runtime'[s] = RuntimeNow(s) + (IF c = s THEN 1 ELSE 0)
  BY <1>5
<1>10. c = s => RuntimeNow(s) < services.wcet[s]
  BY <1>1, ServiceTypes DEF IsChoice, Running, Idle
<1>11. Deadline'[s] < T /\ n + 1 + Deadline'[s] = n + DeadlineNow(s)
  BY <1>4, <1>5, <1>8
<1>12. Runtime'[s] <= services.wcet[s]
  BY <1>4, <1>5, <1>9, <1>10
<1>13. Runtime'[s] = Given(s, j * T, n + 1)'
  BY <1>6, <1>7, <1>9
<1> QED
  BY <1>6, <1>11, <1>12, <1>13

\* The services whose deadline has expired without their time.
Missed == {s \in Services(services) : Deadline[s] = 0 /\ Runtime[s] # services.wcet[s]}

\* A period that is over when a tick begins is one whose deadline expires there.
LEMMA PeriodOver ==
    ASSUME EngineInv, NEW s \in Services(services), NEW k \in Nat, NEW T, T = services.period[s],
           (k + 1) * T = Now
    PROVE  Deadline[s] = 0 /\ Runtime[s] = Given(s, k * T, Now)
<1>1. T \in Nat \ {0} /\ Deadline[s] \in Nat /\ Now \in Nat
  BY ServiceTypes, LenProperties DEF EngineInv, ScheduleTypeOK, Now
<1>2. PICK j \in Nat : Now + Deadline[s] = (j + 1) * T /\ Runtime[s] = Given(s, j * T, Now)
  BY DEF EngineInv, CountersInv
<1>3. Now # 0
  <2>1. k * T \in Nat /\ (k + 1) * T = k * T + T
    BY <1>1, TimesFacts
  <2> QED
    BY <1>1, <2>1
<1>4. Deadline[s] \in 0 .. T - 1
  BY <1>1, <1>3 DEF EngineInv, CountersInv
<1>5. (j + 1) * T = (k + 1) * T + Deadline[s]
  BY <1>1, <1>2
<1>6. j + 1 = k + 1 /\ Deadline[s] = 0
  <2>1. j + 1 \in Int /\ k + 1 \in Int
    OBVIOUS
  <2> QED
    BY <1>1, <1>4, <1>5, <2>1, SameMultiple, Zenon
<1>7. j = k
  BY <1>6
<1> QED
  BY <1>2, <1>6, <1>7

\* The misses a tick counts are the periods that are over when it begins.
LEMMA MissesStep ==
    ASSUME EngineInv, NEW c, events' = Append(events, c), services' = services,
           misses' = misses + Cardinality(Missed), Now < TICKS
    PROVE  CountedInv' /\ Cardinality(Missed) \in Nat
<1> DEFINE S == Services(services)
           Ended == {x \in S \X (0 .. TICKS) : /\ (x[2] + 1) * services.period[x[1]] = Now
                                               /\ x[1] \in Missed}
<1>1. ScheduleTypeOK /\ misses = Cardinality(CountedPeriods)
  BY DEF EngineInv, CountedInv
<1>2. PICK n \in Nat : n = Now
  BY <1>1, LenProperties DEF ScheduleTypeOK, Now
<1>3. Now' = n + 1 /\ TICKS \in Nat /\ n < TICKS
  BY <1>1, <1>2, ScheduleAssumption DEF ScheduleTypeOK, Now, TICKS
<1>4. CountedPeriods' = CountedPeriods \cup Ended
  <2> SUFFICES ASSUME NEW s \in S, NEW k \in 0 .. TICKS
               PROVE  <<s, k>> \in CountedPeriods' <=> <<s, k>> \in CountedPeriods \cup Ended
    BY DEF CountedPeriods, MissedBefore, Services
  <2> DEFINE T == services.period[s]
  <2>1. T \in Nat \ {0} /\ services.wcet[s] \in Nat
    BY <1>1, ServiceTypes
  <2>2. PICK from \in Nat : from = k * T
    BY <2>1
  <2>3. PICK to \in Nat : to = (k + 1) * T
    BY <2>1
  <2>4. /\ <<s, k>> \in CountedPeriods' <=> to < n + 1 /\ Given(s, from, to)' < services.wcet[s]
        /\ <<s, k>> \in CountedPeriods  <=> to < n /\ Given(s, from, to) < services.wcet[s]
        /\ <<s, k>> \in Ended <=> to = n /\ s \in Missed
    <3>1. <<s, k>> \in CountedPeriods'
            <=> (k + 1) * T < Now' /\ Given(s, k * T, (k + 1) * T)' < services.wcet[s]
      BY DEF CountedPeriods, MissedBefore, Services
    <3>2. <<s, k>> \in CountedPeriods
            <=> (k + 1) * T < Now /\ Given(s, k * T, (k + 1) * T) < services.wcet[s]
      BY DEF CountedPeriods, MissedBefore
    <3>3. <<s, k>> \in Ended <=> (k + 1) * T = Now /\ s \in Missed
      OBVIOUS
    <3> QED
      BY <1>2, <1>3, <2>2, <2>3, <3>1, <3>2, <3>3
  <2>5. to <= n => Given(s, from, to)' = Given(s, from, to)
    BY <1>1, <1>2, GivenKept
  <2>6. ASSUME to = n PROVE Given(s, from, to) < services.wcet[s] <=> s \in Missed
    <3>1. Deadline[s] = 0 /\ Runtime[s] = Given(s, from, n)
      BY <1>2, <2>2, <2>3, <2>6, PeriodOver
    <3>2. Runtime[s] <= services.wcet[s] /\ Runtime[s] \in Nat
      BY <1>1, ServiceTypes DEF EngineInv, CountersInv
    <3> QED
      BY <2>1, <2>6, <3>1, <3>2 DEF Missed
  <2> QED
    BY <2>4, <2>5, <2>6
<1>5. IsFiniteSet(CountedPeriods) /\ IsFiniteSet(Ended) /\ CountedPeriods \cap Ended = {}
  <2>1. IsFiniteSet(S) /\ IsFiniteSet(0 .. TICKS)
    <3>1. Len(services.period) \in Int /\ TICKS \in Int
      BY <1>1, <1>3, LenProperties DEF ScheduleTypeOK
    <3> QED
      BY <3>1, FS_Interval DEF Services
  <2>2. IsFiniteSet(S \X (0 .. TICKS))
    BY <2>1, FS_Product
  <2>3. CountedPeriods \in SUBSET (S \X (0 .. TICKS)) /\ Ended \in SUBSET (S \X (0 .. TICKS))
    BY DEF CountedPeriods, MissedBefore
  <2>4. CountedPeriods \cap Ended = {}
    BY <1>2 DEF CountedPeriods, MissedBefore
  <2> HIDE DEF S, Ended
  <2> QED
    BY <2>2, <2>3, <2>4, FS_Subset
<1>6. Cardinality(Missed) = Cardinality(Ended)
  <2> DEFINE service == [x \in Ended |-> x[1]]
  <2>1. service \in [Ended -> Missed]
    OBVIOUS
  <2>2. ASSUME NEW x \in Ended, NEW y \in Ended, x[1] = y[1] PROVE x = y
    <3>1. /\ x = <<x[1], x[2]>> /\ x[1] \in S /\ x[2] \in Nat /\ (x[2] + 1) * services.period[x[1]] = n
          /\ y = <<y[1], y[2]>> /\ y[1] \in S /\ y[2] \in Nat /\ (y[2] + 1) * services.period[x[1]] = n
      BY <1>2, <2>2
    <3>2. services.period[x[1]] \in Nat \ {0}
      BY <1>1, <3>1, ServiceTypes
    <3>3. x[2] + 1 = y[2] + 1
      <4>1. PICK T \in Nat \ {0} : T = services.period[x[1]]
        BY <3>2
      <4>2. (x[2] + 1) * T = (y[2] + 1) * T
        BY <3>1, <4>1
      <4>3. x[2] + 1 \in Int /\ y[2] + 1 \in Int
        BY <3>1
      <4> QED
        BY <4>2, <4>3, SameFactor, Zenon
    <3> QED
      BY <2>2, <3>1, <3>3
  <2>3. ASSUME NEW s \in Missed PROVE \E x \in Ended : x[1] = s
    <3> DEFINE T == services.period[s]
    <3>1. s \in S /\ Deadline[s] = 0 /\ T \in Nat \ {0}
      BY <1>1, ServiceTypes DEF Missed
    <3>2. PICK k \in Nat : n + Deadline[s] = (k + 1) * T
      BY <1>2, <3>1 DEF EngineInv, CountersInv
    <3>3. (k + 1) * T = n
      BY <3>1, <3>2
    <3>4. k <= TICKS
      <4>1. (k + 1) * T = k * T + T /\ k <= k * T /\ k * T \in Nat
        BY <3>1, TimesFacts
      <4> QED
        BY <1>3, <3>1, <3>3, <4>1
    <3>5. <<s, k>> \in Ended
      BY <1>2, <1>3, <3>1, <3>3, <3>4
    <3> QED
      BY <3>5
  <2>4. service \in Bijection(Ended, Missed)
    <3>1. \A x, y \in Ended : service[x] = service[y] => x = y
      BY <2>2
    <3>2. \A s \in Missed : \E x \in Ended : service[x] = s
      BY <2>3
    <3> HIDE DEF service, Ended
    <3> QED
      BY <2>1, <3>1, <3>2 DEF Bijection, Injection, IsInjective, Surjection
  <2> HIDE DEF service, Ended
  <2> QED
    BY <1>5, <2>4, FS_Bijection DEF ExistsBijection
<1>7. Cardinality(CountedPeriods') = misses + Cardinality(Ended) /\ Cardinality(Ended) \in Nat
  <2>1. Cardinality(CountedPeriods) \in Nat /\ Cardinality(Ended) \in Nat /\ Cardinality({}) = 0
    BY <1>5, FS_CardinalityType, FS_EmptySet
  <2> HIDE DEF Ended
  <2>2. Cardinality(CountedPeriods \cup Ended)
          = Cardinality(CountedPeriods) + Cardinality(Ended) - Cardinality(CountedPeriods \cap Ended)
    BY <1>5, FS_Union
  <2>3. Cardinality(CountedPeriods') = Cardinality(CountedPeriods \cup Ended)
    BY <1>4
  <2>4. Cardinality(CountedPeriods \cap Ended) = 0
    BY <1>5, <2>1
  <2> QED
    BY <1>1, <2>1, <2>2, <2>3, <2>4
<1> QED
  BY <1>6, <1>7 DEF CountedInv

\* What the printed schedule says a service needs in a tick, and has left, is what the
\* counters said when the tick began.
LEMMA NeedsNow ==
    ASSUME EngineInv, NEW c, events' = Append(events, c), services' = services,
           NEW n \in Nat, n = Now, NEW s \in Services(services)
    PROVE  /\ Needs(s, n)' = services.wcet[s] - RuntimeNow(s)
           /\ TimeLeft(s, n)' = DeadlineNow(s)
<1>1. PICK T \in Nat \ {0} : T = services.period[s]
  BY ServiceTypes DEF EngineInv
<1>2. PICK j \in Nat : /\ n + DeadlineNow(s) = (j + 1) * T /\ j * T \in 0 .. n
                       /\ RuntimeNow(s) = Given(s, j * T, n)
  BY <1>1, PeriodNow
<1>3. PICK from \in Nat : from = j * T
  BY <1>2
<1>4. DeadlineNow(s) \in 1 .. T /\ n = from + (T - DeadlineNow(s))
  <2>1. (j + 1) * T = j * T + T
    OBVIOUS
  <2>2. DeadlineNow(s) \in 1 .. T
    BY <1>1, PeriodNow
  <2> QED
    BY <1>2, <1>3, <2>1, <2>2
<1>5. n \div T = j
  <2>1. T - DeadlineNow(s) \in 0 .. T - 1
    BY <1>4
  <2>2. (j * T + (T - DeadlineNow(s))) \div T = j
    BY <2>1, Quotient, Zenon
  <2> QED
    BY <1>3, <1>4, <2>2
<1>6. PeriodOf(s, n)' = from
  <2>1. T * j = j * T
    OBVIOUS
  <2> QED
    BY <1>1, <1>3, <1>5, <2>1 DEF PeriodOf
<1>7. Needs(s, n)' = services.wcet[s] - Given(s, from, n)'
  BY <1>6 DEF Needs, Given
<1>8. Given(s, from, n)' = Given(s, from, n)
  BY GivenKept DEF EngineInv
<1>9. TimeLeft(s, n)' = from + T - n
  BY <1>1, <1>6 DEF TimeLeft
<1> QED
  BY <1>2, <1>3, <1>4, <1>7, <1>8, <1>9

\* The property speaks of the last tick.
LastFollowed == \A u \in Nat : Now = u + 1 => Followed(u)

LEMMA LastTick == ScheduleTypeOK /\ LastFollowed => ProtocolFollowed
<1> SUFFICES ASSUME ScheduleTypeOK, LastFollowed PROVE ProtocolFollowed
  OBVIOUS
<1>1. PICK n \in Nat : n = Now
  BY LenProperties DEF ScheduleTypeOK, Now
<1>2. CASE n = 0
  BY <1>1, <1>2 DEF ProtocolFollowed
<1>3. CASE n # 0
  <2>1. PICK u \in Nat : u = n - 1
    BY <1>3
  <2>2. Followed(u)
    BY <1>1, <1>3, <2>1 DEF LastFollowed
  <2> QED
    BY <1>1, <2>1, <2>2 DEF ProtocolFollowed
<1> QED
  BY <1>2, <1>3

\* A tick keeps the types.
LEMMA TypeStep ==
    ASSUME ScheduleTypeOK, NEW c \in Services(services) \cup {Idle}, events' = Append(events, c),
           Now < TICKS,
           \A s \in Services(services) : DeadlineNow(s) \in Nat \ {0} /\ RuntimeNow(s) \in Nat,
           UNCHANGED <<services, protocol>>,
           Deadline' = [s \in Services(services) |-> DeadlineNow(s) - 1],
           Runtime' = [s \in Services(services) |->
                         IF s = c THEN RuntimeNow(s) + 1 ELSE RuntimeNow(s)],
           misses' \in Nat
    PROVE  ScheduleTypeOK'
<1>1. Deadline' \in [Services(services) -> Nat] /\ Runtime' \in [Services(services) -> Nat]
  OBVIOUS
<1>2. events' \in Seq(Services(services) \cup {Idle}) /\ Len(events') = Len(events) + 1
  BY DEF ScheduleTypeOK
<1>3. Now' <= TICKS'
  BY <1>2, ScheduleAssumption DEF ScheduleTypeOK, Now, TICKS
<1> QED
  BY <1>1, <1>2, <1>3 DEF ScheduleTypeOK, Services

\* A tick keeps the invariant and follows the protocol.
LEMMA TickStep == ASSUME EngineInv, Tick PROVE EngineInv' /\ ProtocolFollowed'
<1>1. ScheduleTypeOK /\ UNCHANGED <<services, protocol>> /\ Now < TICKS
  BY DEF EngineInv, Tick
<1>2. PICK c \in Services(services) \cup {Idle} :
             /\ IsChoice(c)
             /\ events' = Append(events, c)
             /\ Deadline' = [s \in Services(services) |-> DeadlineNow(s) - 1]
             /\ Runtime' = [s \in Services(services) |->
                              IF s = c THEN RuntimeNow(s) + 1 ELSE RuntimeNow(s)]
  BY <1>1, TickRuns
<1>3. misses' = misses + Cardinality(Missed) /\ misses \in Nat
  BY <1>1 DEF Tick, Missed, ScheduleTypeOK
<1>4. CountedInv' /\ misses' \in Nat
  BY <1>1, <1>2, <1>3, MissesStep
<1>5. ScheduleTypeOK'
  <2>1. ASSUME NEW s \in Services(services)
        PROVE  DeadlineNow(s) \in Nat \ {0} /\ RuntimeNow(s) \in Nat
    <3>1. services.period[s] \in Nat \ {0} /\ services.wcet[s] \in Nat
      BY <1>1, ServiceTypes
    <3>2. DeadlineNow(s) \in 1 .. services.period[s] /\ RuntimeNow(s) \in 0 .. services.wcet[s]
      BY PeriodNow
    <3> QED
      BY <3>1, <3>2
  <2> QED
    BY <1>1, <1>2, <1>4, <2>1, TypeStep
<1>6. CountersInv'
  BY <1>1, <1>2, CountersStep
<1>7. ProtocolFollowed'
  <2>1. (ScheduleTypeOK /\ LastFollowed => ProtocolFollowed)'
    BY LastTick, PTL
  <2>2. PICK n \in Nat : n = Now
    BY <1>1, LenProperties DEF ScheduleTypeOK, Now
  <2>3. Now' = n + 1 /\ events'[n + 1] = c
    BY <1>1, <1>2, <2>2 DEF ScheduleTypeOK, Now
  <2>4. \A s \in Services(services) : /\ Needs(s, n)' = services.wcet[s] - RuntimeNow(s)
                                      /\ TimeLeft(s, n)' = DeadlineNow(s)
    BY <1>1, <1>2, <2>2, NeedsNow
  <2>5. Services(services)' = Services(services)
    BY <1>1 DEF Services
  <2>6. {s \in Services(services)' : Needs(s, n)' > 0} = Running
    BY <1>1, <2>4, <2>5, ServiceTypes DEF Running, RuntimeNow
  <2>7. Followed(n)'
    BY <1>1, <1>2, <2>3, <2>4, <2>5, <2>6 DEF Followed, IsChoice, Spare, Running, Idle
  <2>8. LastFollowed'
    BY <2>3, <2>7 DEF LastFollowed
  <2> QED
    BY <1>5, <2>1, <2>8
<1> QED
  BY <1>4, <1>5, <1>6, <1>7 DEF EngineInv

\* EngineInv holds after every number of ticks.
THEOREM EngineInvariance == ScheduleSpec => []EngineInv
<1>1. EngineInv /\ UNCHANGED scheduleVars => EngineInv'
  <2> SUFFICES ASSUME EngineInv, UNCHANGED scheduleVars PROVE EngineInv'
    OBVIOUS
  <2>1. ScheduleTypeOK'
    BY DEF scheduleVars, EngineInv, ScheduleTypeOK, Services, Now, TICKS
  <2>2. CountersInv'
    <3> SUFFICES ASSUME NEW s \in Services(services)
                 PROVE  LET T == services.period[s]
                        IN  /\ Deadline[s] < T \/ (Now = 0 /\ Deadline[s] = T)
                            /\ Runtime[s] <= services.wcet[s]
                            /\ \E k \in Nat : /\ Now + Deadline[s] = (k + 1) * T
                                              /\ Runtime[s] = Given(s, k * T, Now)'
      BY DEF scheduleVars, CountersInv, Services, Now
    <3>1. PICK k \in Nat : /\ Now + Deadline[s] = (k + 1) * services.period[s]
                           /\ Runtime[s] = Given(s, k * services.period[s], Now)
      BY DEF EngineInv, CountersInv
    <3>2. Given(s, k * services.period[s], Now)' = Given(s, k * services.period[s], Now)
      BY DEF scheduleVars, Given, Now
    <3> QED
      BY <3>1, <3>2 DEF scheduleVars, EngineInv, CountersInv
  <2>3. CountedInv'
    BY DEF scheduleVars, EngineInv, CountedInv, CountedPeriods, MissedBefore, Given, Services, Now, TICKS
  <2> QED
    BY <2>1, <2>2, <2>3 DEF EngineInv
<1>2. EngineInv /\ [ScheduleNext]_scheduleVars => EngineInv'
  BY <1>1, TickStep DEF ScheduleNext
<1> QED
  BY <1>2, EngineInit, PTL DEF ScheduleSpec

\* The schedule's counters have their types.
THEOREM ScheduleTypeCorrect == ScheduleSpec => []ScheduleTypeOK
<1>1. EngineInv => ScheduleTypeOK
  BY DEF EngineInv
<1> QED
  BY <1>1, EngineInvariance, PTL

\* The missed periods by their ends: all that are over, and those a tick has come after.
LEMMA MissedPeriodsAre ==
    ASSUME ScheduleTypeOK
    PROVE  /\ MissedPeriods = MissedBefore(Now + 1)
           /\ MissedPeriods \ Unseen = CountedPeriods
<1>1. PICK n \in Nat : n = Now
  BY LenProperties DEF ScheduleTypeOK, Now
<1>2. ASSUME NEW x \in Services(services) \X (0 .. TICKS)
      PROVE  /\ x \in MissedPeriods <=> x \in MissedBefore(n + 1)
             /\ x \in MissedPeriods \ Unseen <=> x \in MissedBefore(n)
  <2>1. PICK e \in Nat : e = PeriodEnd(x)
    <3>1. x[1] \in Services(services) /\ x[2] \in Nat
      BY ScheduleAssumption DEF TICKS
    <3>2. PICK T \in Nat : T = services.period[x[1]]
      BY <3>1, ServiceTypes
    <3>3. (x[2] + 1) * T \in Nat
      BY <3>1
    <3> QED
      BY <3>2, <3>3 DEF PeriodEnd
  <2>2. ASSUME NEW m
        PROVE  x \in MissedBefore(m)
                 <=> /\ e < m
                     /\ Given(x[1], x[2] * services.period[x[1]], e) < services.wcet[x[1]]
    BY <2>1 DEF MissedBefore, PeriodEnd
  <2>3. x \in MissedPeriods
          <=> /\ e <= n
              /\ Given(x[1], x[2] * services.period[x[1]], e) < services.wcet[x[1]]
    BY <1>1, <2>1 DEF MissedPeriods
  <2>4. x \in Unseen <=> x \in MissedPeriods /\ e = n
    BY <1>1, <2>1 DEF Unseen
  <2>5. (e <= n <=> e < n + 1) /\ (e <= n /\ e # n <=> e < n)
    BY <2>1
  <2> QED
    BY <2>2, <2>3, <2>4, <2>5
<1>3. ASSUME NEW m PROVE MissedBefore(m) \subseteq Services(services) \X (0 .. TICKS)
  BY DEF MissedBefore
<1>4. MissedPeriods \subseteq Services(services) \X (0 .. TICKS)
  BY DEF MissedPeriods
<1> QED
  BY <1>1, <1>2, <1>3, <1>4 DEF CountedPeriods

\* Nothing is counted exactly if no period that was counted is missed.
LEMMA NoneCounted ==
    ASSUME ScheduleTypeOK, CountedInv
    PROVE  misses = 0 <=> CountedPeriods = {}
<1>1. IsFiniteSet(CountedPeriods)
  <2>1. IsFiniteSet(Services(services)) /\ IsFiniteSet(0 .. TICKS)
    <3>1. Len(services.period) \in Int /\ TICKS \in Int
      BY ScheduleAssumption, LenProperties DEF ScheduleTypeOK, TICKS
    <3> QED
      BY <3>1, FS_Interval DEF Services
  <2>2. IsFiniteSet(Services(services) \X (0 .. TICKS))
    BY <2>1, FS_Product
  <2>3. CountedPeriods \in SUBSET (Services(services) \X (0 .. TICKS))
    BY DEF CountedPeriods, MissedBefore
  <2> QED
    BY <2>2, <2>3, FS_Subset
<1> QED
  BY <1>1, FS_EmptySet DEF CountedInv

\* Each missed period is counted once, by the first tick after it, for every set of services.
THEOREM MissesAreCounted == ScheduleSpec => []MissesCounted
<1>1. EngineInv => MissesCounted
  BY MissedPeriodsAre DEF EngineInv, CountedInv, MissesCounted
<1> QED
  BY <1>1, EngineInvariance, PTL

\* Every tick goes to the service that the protocol names.
THEOREM ProtocolIsFollowed == ScheduleSpec => []ProtocolFollowed
<1>1. ScheduleInit => ProtocolFollowed
  BY DEF ScheduleInit, ProtocolFollowed, Now
<1>2. ProtocolFollowed /\ UNCHANGED scheduleVars => ProtocolFollowed'
  BY DEF scheduleVars, ProtocolFollowed, Followed, Needs, TimeLeft, PeriodOf, Given, Services, Now
<1>3. EngineInv /\ ProtocolFollowed /\ [ScheduleNext]_scheduleVars => ProtocolFollowed'
  BY <1>2, TickStep DEF ScheduleNext
<1> QED
  BY <1>1, <1>3, EngineInvariance, PTL DEF ScheduleSpec

-----------------------------------------------------------------------------
(* Sums.                                                                    *)

\* Induction over the natural numbers, stated for sets: the least number outside X
\* would have a predecessor in it.
LEMMA InAllNumbers ==
    ASSUME NEW X, 0 \in X, \A n \in Nat : n \in X => n + 1 \in X
    PROVE  Nat \subseteq X
<1> SUFFICES ASSUME NEW m \in Nat, m \notin X PROVE FALSE
  OBVIOUS
<1> DEFINE S == {n \in 0 .. m : n \notin X}
           rank == [n \in S |-> n]
<1>1. IsFiniteSet(S) /\ S # {} /\ rank \in [S -> Int]
  <2>1. S \in SUBSET (0 .. m) /\ m \in S /\ S \subseteq Int
    OBVIOUS
  <2>2. IsFiniteSet(0 .. m)
    BY FS_Interval
  <2>3. rank \in [S -> Int]
    BY <2>1
  <2> HIDE DEF S, rank
  <2> QED
    BY <2>1, <2>2, <2>3, FS_Subset
<1>2. PICK n \in S : \A r \in S : rank[n] <= rank[r]
  <2> HIDE DEF S, rank
  <2> QED
    BY <1>1, LeastExists
<1>3. n \in Nat /\ n # 0 /\ n - 1 \in Nat /\ n - 1 \in 0 .. m
  OBVIOUS
<1>4. n - 1 \in X
  <2>1. n - 1 \notin S
    BY <1>2, <1>3
  <2> QED
    BY <1>3, <2>1
<1>5. n - 1 + 1 \in X
  BY <1>3, <1>4
<1> QED
  BY <1>3, <1>5

\* The partial sums of h, and the recursive function by which SumTo defines them.
PartialSums(n, h, sum) ==
    /\ sum \in [0 .. n -> Nat] /\ SumTo(n, h) = sum[n] /\ sum[0] = 0
    /\ \A k \in 0 .. n - 1 : sum[k + 1] = sum[k] + h[k + 1]
Sums(n, h, sum) == sum = [k \in 0 .. n |-> IF k = 0 THEN 0 ELSE sum[k - 1] + h[k]]

\* They exist, by induction over their number, and are numbers.
LEMMA SumsExist ==
    ASSUME NEW n \in Nat, NEW h, \A k \in 1 .. n : h[k] \in Nat
    PROVE  \E sum : PartialSums(n, h, sum)
<1> DEFINE X == {m \in Nat : m <= n => \E sum \in [0 .. m -> Nat] : Sums(m, h, sum)}
<1>1. 0 \in X
  <2>1. [k \in 0 .. 0 |-> 0] \in [0 .. 0 -> Nat] /\ Sums(0, h, [k \in 0 .. 0 |-> 0])
    BY DEF Sums
  <2> QED
    BY <2>1
<1>2. ASSUME NEW m \in Nat, m \in X PROVE m + 1 \in X
  <2> SUFFICES ASSUME m + 1 <= n PROVE \E sum \in [0 .. m + 1 -> Nat] : Sums(m + 1, h, sum)
    OBVIOUS
  <2>1. PICK sum \in [0 .. m -> Nat] : Sums(m, h, sum)
    BY <1>2
  <2> DEFINE more == [k \in 0 .. m + 1 |-> IF k <= m THEN sum[k] ELSE sum[m] + h[m + 1]]
  <2>2. more \in [0 .. m + 1 -> Nat]
    OBVIOUS
  <2>3. \A k \in 0 .. m : sum[k] = IF k = 0 THEN 0 ELSE sum[k - 1] + h[k]
    BY <2>1 DEF Sums
  <2>4. \A k \in 0 .. m + 1 : more[k] = IF k = 0 THEN 0 ELSE more[k - 1] + h[k]
    BY <2>3
  <2>5. Sums(m + 1, h, more)
    <3> HIDE DEF more
    <3> QED
      BY <2>2, <2>4 DEF Sums
  <2> QED
    BY <2>2, <2>5
<1>3. \E sum \in [0 .. n -> Nat] : Sums(n, h, sum)
  <2>1. Nat \subseteq X
    <3> HIDE DEF X
    <3> QED
      BY <1>1, <1>2, InAllNumbers
  <2> QED
    BY <2>1
<1> DEFINE s == CHOOSE sum : Sums(n, h, sum)
<1>4. SumTo(n, h) = s[n]
  BY DEF SumTo, Sums
<1>5. Sums(n, h, s)
  BY <1>3
<1> HIDE DEF s
<1>6. /\ s[0] = 0 /\ \A k \in 0 .. n - 1 : s[k + 1] = s[k] + h[k + 1]
      /\ s = [k \in 0 .. n |-> s[k]]
  <2>1. s = [k \in 0 .. n |-> IF k = 0 THEN 0 ELSE s[k - 1] + h[k]]
    BY <1>5 DEF Sums
  <2>2. \A k \in 0 .. n : s[k] = IF k = 0 THEN 0 ELSE s[k - 1] + h[k]
    BY <2>1
  <2>3. ASSUME NEW k \in 0 .. n - 1 PROVE s[k + 1] = s[k] + h[k + 1]
    BY <2>2
  <2>4. s[0] = 0
    BY <2>2
  <2>5. s = [k \in 0 .. n |-> s[k]]
    BY <2>1, <2>2
  <2> QED
    BY <2>3, <2>4, <2>5
<1> DEFINE Y == {m \in Nat : m <= n => s[m] \in Nat}
<1>7. Nat \subseteq Y
  <2>1. 0 \in Y
    BY <1>6
  <2>2. ASSUME NEW m \in Nat, m \in Y PROVE m + 1 \in Y
    <3> SUFFICES ASSUME m + 1 <= n PROVE s[m + 1] \in Nat
      OBVIOUS
    <3>1. m \in 0 .. n - 1 /\ m + 1 \in 1 .. n /\ s[m] \in Nat
      BY <2>2
    <3>2. s[m + 1] = s[m] + h[m + 1] /\ h[m + 1] \in Nat
      BY <1>6, <3>1
    <3> QED
      BY <3>1, <3>2
  <2> HIDE DEF Y
  <2> QED
    BY <2>1, <2>2, InAllNumbers
<1>8. s \in [0 .. n -> Nat]
  BY <1>6, <1>7
<1> QED
  BY <1>4, <1>6, <1>8 DEF PartialSums

\* Two inequalities between multiples add up.
LEMMA AddUp ==
    ASSUME NEW K \in Nat, NEW L \in Nat, NEW x \in Nat, NEW y \in Nat, NEW z \in Nat, NEW w \in Nat,
           K * x <= L * z, K * y <= L * w
    PROVE  K * (x + y) <= L * (z + w)
<1>1. K * (x + y) = K * x + K * y /\ L * (z + w) = L * z + L * w
  OBVIOUS
<1>2. K * x \in Nat /\ K * y \in Nat /\ L * z \in Nat /\ L * w \in Nat
  OBVIOUS
<1> QED
  BY <1>1, <1>2

\* Multiples are ordered as their factors are.
LEMMA TimesGrows == ASSUME NEW x \in Nat, NEW y \in Nat, NEW z \in Nat, y <= z PROVE x * y <= x * z
<1>1. z - y \in Nat /\ z = y + (z - y)
  OBVIOUS
<1>2. x * (z - y) \in Nat /\ x * (y + (z - y)) = x * y + x * (z - y) /\ x * y \in Nat
  BY <1>1
<1> QED
  BY <1>1, <1>2

\* A product that is not greater has a factor that is not greater.
LEMMA TimesCancel ==
    ASSUME NEW x \in Nat \ {0}, NEW y \in Nat, NEW z \in Nat, x * y <= x * z PROVE y <= z
<1> SUFFICES ASSUME z + 1 <= y PROVE FALSE
  OBVIOUS
<1>1. x * (z + 1) <= x * y
  BY TimesGrows
<1>2. x * (z + 1) = x * z + x /\ x * z \in Nat /\ x * y \in Nat
  OBVIOUS
<1> QED
  BY <1>1, <1>2

\* Two inequalities, one with a margin, add up.
LEMMA AddLess ==
    ASSUME NEW x \in Nat, NEW y \in Nat, NEW z \in Nat, NEW w \in Nat, NEW e \in Nat,
           x + e <= z, y <= w
    PROVE  x + y + e <= z + w
OBVIOUS

\* Summands that are fractions of others: so are the sums.
LEMMA SumScaled ==
    ASSUME NEW n \in Nat, NEW f, NEW g, \A k \in 1 .. n : f[k] \in Nat /\ g[k] \in Nat,
           NEW K \in Nat, NEW L \in Nat, \A k \in 1 .. n : K * f[k] <= L * g[k]
    PROVE  K * SumTo(n, f) <= L * SumTo(n, g) /\ SumTo(n, f) \in Nat /\ SumTo(n, g) \in Nat
<1>1. PICK sumf : PartialSums(n, f, sumf)
  <2>1. \A k \in 1 .. n : f[k] \in Nat
    OBVIOUS
  <2> QED
    BY <2>1, SumsExist
<1>2. PICK sumg : PartialSums(n, g, sumg)
  BY SumsExist
<1>3. /\ SumTo(n, f) = sumf[n] /\ sumf[0] = 0 /\ sumf \in [0 .. n -> Nat]
      /\ \A k \in 0 .. n - 1 : sumf[k + 1] = sumf[k] + f[k + 1]
  BY <1>1 DEF PartialSums
<1>4. /\ SumTo(n, g) = sumg[n] /\ sumg[0] = 0 /\ sumg \in [0 .. n -> Nat]
      /\ \A k \in 0 .. n - 1 : sumg[k + 1] = sumg[k] + g[k + 1]
  BY <1>2 DEF PartialSums
<1> DEFINE X == {m \in Nat : m <= n => K * sumf[m] <= L * sumg[m]}
<1>5. 0 \in X
  BY <1>3, <1>4
<1>6. ASSUME NEW m \in Nat, m \in X PROVE m + 1 \in X
  <2> SUFFICES ASSUME m + 1 <= n PROVE K * sumf[m + 1] <= L * sumg[m + 1]
    OBVIOUS
  <2>1. m \in 0 .. n - 1 /\ m + 1 \in 1 .. n
    OBVIOUS
  <2>2. /\ sumf[m] \in Nat /\ sumg[m] \in Nat /\ f[m + 1] \in Nat /\ g[m + 1] \in Nat
        /\ K * sumf[m] <= L * sumg[m] /\ K * f[m + 1] <= L * g[m + 1]
    BY <1>6, <1>3, <1>4, <2>1
  <2>3. sumf[m + 1] = sumf[m] + f[m + 1] /\ sumg[m + 1] = sumg[m] + g[m + 1]
    BY <1>3, <1>4, <2>1
  <2>4. K * (sumf[m] + f[m + 1]) <= L * (sumg[m] + g[m + 1])
    BY <2>2, AddUp, Zenon
  <2> QED
    BY <2>3, <2>4, Zenon
<1>7. Nat \subseteq X
  <2> HIDE DEF X
  <2> QED
    BY <1>5, <1>6, InAllNumbers
<1> QED
  BY <1>3, <1>4, <1>7

\* No summand grows and one falls by d: the sum falls by d or more.
LEMMA SumLess ==
    ASSUME NEW n \in Nat, NEW f, NEW g,
           \A k \in 1 .. n : f[k] \in Nat /\ g[k] \in Nat /\ f[k] <= g[k],
           NEW c \in 1 .. n, NEW d \in Nat, f[c] + d <= g[c]
    PROVE  SumTo(n, f) + d <= SumTo(n, g) /\ SumTo(n, f) \in Nat /\ SumTo(n, g) \in Nat
<1>1. PICK sumf : PartialSums(n, f, sumf)
  <2>1. \A k \in 1 .. n : f[k] \in Nat
    OBVIOUS
  <2> QED
    BY <2>1, SumsExist
<1>2. PICK sumg : PartialSums(n, g, sumg)
  BY SumsExist
<1>3. /\ SumTo(n, f) = sumf[n] /\ sumf[0] = 0 /\ sumf \in [0 .. n -> Nat]
      /\ \A k \in 0 .. n - 1 : sumf[k + 1] = sumf[k] + f[k + 1]
  BY <1>1 DEF PartialSums
<1>4. /\ SumTo(n, g) = sumg[n] /\ sumg[0] = 0 /\ sumg \in [0 .. n -> Nat]
      /\ \A k \in 0 .. n - 1 : sumg[k + 1] = sumg[k] + g[k + 1]
  BY <1>2 DEF PartialSums
<1> DEFINE X == {m \in Nat : m <= n => sumf[m] + (IF c <= m THEN d ELSE 0) <= sumg[m]}
<1>5. 0 \in X
  BY <1>3, <1>4
<1>6. ASSUME NEW m \in Nat, m \in X PROVE m + 1 \in X
  <2> SUFFICES ASSUME m + 1 <= n PROVE sumf[m + 1] + (IF c <= m + 1 THEN d ELSE 0) <= sumg[m + 1]
    OBVIOUS
  <2>1. m \in 0 .. n - 1 /\ m + 1 \in 1 .. n
    OBVIOUS
  <2>2. /\ sumf[m] \in Nat /\ sumg[m] \in Nat /\ f[m + 1] \in Nat /\ g[m + 1] \in Nat
        /\ sumf[m] + (IF c <= m THEN d ELSE 0) <= sumg[m] /\ f[m + 1] <= g[m + 1]
    BY <1>6, <1>3, <1>4, <2>1
  <2>3. sumf[m + 1] = sumf[m] + f[m + 1] /\ sumg[m + 1] = sumg[m] + g[m + 1]
    BY <1>3, <1>4, <2>1
  <2>4. CASE c = m + 1
    BY <2>2, <2>3, <2>4
  <2>5. CASE c # m + 1
    <3>1. c <= m + 1 <=> c <= m
      BY <2>5
    <3>2. (IF c <= m THEN d ELSE 0) \in Nat
      OBVIOUS
    <3>3. sumf[m] + f[m + 1] + (IF c <= m THEN d ELSE 0) <= sumg[m] + g[m + 1]
      BY <2>2, <3>2, AddLess, Zenon
    <3> QED
      BY <2>3, <3>1, <3>3, Zenon
  <2> QED
    BY <2>4, <2>5
<1>7. Nat \subseteq X
  <2> HIDE DEF X
  <2> QED
    BY <1>5, <1>6, InAllNumbers
<1> QED
  BY <1>3, <1>4, <1>7

\* Sums of numbers are numbers, and grow with their summands.
LEMMA SumGrows ==
    ASSUME NEW n \in Nat, NEW f, NEW g,
           \A k \in 1 .. n : f[k] \in Nat /\ g[k] \in Nat /\ f[k] <= g[k]
    PROVE  SumTo(n, f) <= SumTo(n, g) /\ SumTo(n, f) \in Nat /\ SumTo(n, g) \in Nat
<1>1. \A k \in 1 .. n : 1 * f[k] <= 1 * g[k]
  OBVIOUS
<1>2. 1 * SumTo(n, f) <= 1 * SumTo(n, g) /\ SumTo(n, f) \in Nat /\ SumTo(n, g) \in Nat
  BY <1>1, SumScaled
<1> QED
  BY <1>2

\* A summand is no more than the sum.
LEMMA SumHasSummand ==
    ASSUME NEW n \in Nat, NEW f, \A k \in 1 .. n : f[k] \in Nat, NEW c \in 1 .. n
    PROVE  f[c] <= SumTo(n, f) /\ SumTo(n, f) \in Nat
<1> DEFINE g == [k \in 1 .. n |-> 0]
<1>1. \A k \in 1 .. n : g[k] \in Nat /\ f[k] \in Nat /\ g[k] <= f[k]
  OBVIOUS
<1>2. g[c] + f[c] <= f[c] /\ f[c] \in Nat
  OBVIOUS
<1> HIDE DEF g
<1>3. SumTo(n, g) + f[c] <= SumTo(n, f) /\ SumTo(n, g) \in Nat /\ SumTo(n, f) \in Nat
  BY <1>1, <1>2, SumLess
<1> QED
  BY <1>2, <1>3

\* A sum is the sum of all but the last summand, and the last.
LEMMA SumLast ==
    ASSUME NEW n \in Nat, NEW f, NEW g, \A k \in 1 .. n + 1 : f[k] \in Nat,
           \A k \in 1 .. n : g[k] = f[k]
    PROVE  SumTo(n + 1, f) = SumTo(n, g) + f[n + 1] /\ SumTo(n, g) \in Nat
<1>1. PICK sumf : PartialSums(n + 1, f, sumf)
  BY SumsExist
<1>2. PICK sumg : PartialSums(n, g, sumg)
  <2>1. \A k \in 1 .. n : g[k] \in Nat
    OBVIOUS
  <2> QED
    BY <2>1, SumsExist
<1>3. /\ SumTo(n + 1, f) = sumf[n + 1] /\ sumf[0] = 0
      /\ \A k \in 0 .. n : sumf[k + 1] = sumf[k] + f[k + 1]
  BY <1>1 DEF PartialSums
<1>4. /\ SumTo(n, g) = sumg[n] /\ sumg[0] = 0 /\ sumg[n] \in Nat
      /\ \A k \in 0 .. n - 1 : sumg[k + 1] = sumg[k] + g[k + 1]
  BY <1>2 DEF PartialSums
<1> DEFINE X == {m \in Nat : m <= n => sumf[m] = sumg[m]}
<1>5. 0 \in X
  BY <1>3, <1>4
<1>6. ASSUME NEW m \in Nat, m \in X PROVE m + 1 \in X
  <2> SUFFICES ASSUME m + 1 <= n PROVE sumf[m + 1] = sumg[m + 1]
    OBVIOUS
  <2>1. m \in 0 .. n /\ m \in 0 .. n - 1 /\ m + 1 \in 1 .. n /\ sumf[m] = sumg[m]
    BY <1>6
  <2> QED
    BY <1>3, <1>4, <2>1
<1>7. Nat \subseteq X
  <2> HIDE DEF X
  <2> QED
    BY <1>5, <1>6, InAllNumbers
<1>8. sumf[n] = sumg[n]
  BY <1>7
<1> QED
  BY <1>3, <1>4, <1>8

\* One summand more by d: so is the sum.
LEMMA SumOne ==
    ASSUME NEW n \in Nat, NEW f, NEW g, \A k \in 1 .. n : f[k] \in Nat,
           NEW c \in 1 .. n, NEW d \in Nat,
           g[c] = f[c] + d, \A k \in 1 .. n : k # c => g[k] = f[k]
    PROVE  SumTo(n, g) = SumTo(n, f) + d /\ SumTo(n, f) \in Nat
<1>1. PICK sumf : PartialSums(n, f, sumf)
  BY SumsExist
<1>2. PICK sumg : PartialSums(n, g, sumg)
  <2>1. \A k \in 1 .. n : g[k] \in Nat
    OBVIOUS
  <2> QED
    BY <2>1, SumsExist
<1>3. /\ SumTo(n, f) = sumf[n] /\ sumf[0] = 0 /\ sumf \in [0 .. n -> Nat]
      /\ \A k \in 0 .. n - 1 : sumf[k + 1] = sumf[k] + f[k + 1]
  BY <1>1 DEF PartialSums
<1>4. /\ SumTo(n, g) = sumg[n] /\ sumg[0] = 0
      /\ \A k \in 0 .. n - 1 : sumg[k + 1] = sumg[k] + g[k + 1]
  BY <1>2 DEF PartialSums
<1> DEFINE X == {m \in Nat : m <= n => sumg[m] = sumf[m] + (IF c <= m THEN d ELSE 0)}
<1>5. 0 \in X
  <2>1. ~(c <= 0)
    OBVIOUS
  <2>2. sumg[0] = sumf[0] + 0
    BY <1>3, <1>4
  <2> QED
    BY <2>1, <2>2
<1>6. ASSUME NEW m \in Nat, m \in X PROVE m + 1 \in X
  <2> SUFFICES ASSUME m + 1 <= n
               PROVE  sumg[m + 1] = sumf[m + 1] + (IF c <= m + 1 THEN d ELSE 0)
    OBVIOUS
  <2>1. m \in 0 .. n - 1 /\ m + 1 \in 1 .. n /\ m \in 0 .. n
    OBVIOUS
  <2>2. PICK x \in Nat, y \in Nat : x = sumf[m] /\ y = f[m + 1]
    BY <1>3, <2>1
  <2>3. sumg[m] = x + (IF c <= m THEN d ELSE 0) /\ sumf[m + 1] = x + y
    BY <1>3, <1>6, <2>1, <2>2
  <2>4. g[m + 1] = y + (IF m + 1 = c THEN d ELSE 0)
    BY <2>1, <2>2
  <2>5. sumg[m + 1] = sumg[m] + g[m + 1]
    BY <1>4, <2>1
  <2>6. c <= m + 1 <=> c <= m \/ m + 1 = c
    OBVIOUS
  <2>7. CASE m + 1 = c
    BY <2>3, <2>4, <2>5, <2>6, <2>7
  <2>8. CASE m + 1 # c
    BY <2>3, <2>4, <2>5, <2>6, <2>8
  <2> QED
    BY <2>7, <2>8
<1>7. n \in X
  <2> HIDE DEF X
  <2> QED
    BY <1>5, <1>6, InAllNumbers
<1> QED
  BY <1>3, <1>4, <1>7

\* Summands that are sums: so is the sum.
AddsTo(n, f, g, h) == \A k \in 1 .. n : f[k] \in Nat /\ g[k] \in Nat /\ h[k] = f[k] + g[k]

LEMMA SumAdd ==
    ASSUME NEW n \in Nat, NEW f, NEW g, NEW h, AddsTo(n, f, g, h)
    PROVE  /\ SumTo(n, h) = SumTo(n, f) + SumTo(n, g)
           /\ SumTo(n, f) \in Nat /\ SumTo(n, g) \in Nat
<1>1. \A k \in 1 .. n : f[k] \in Nat /\ g[k] \in Nat /\ h[k] = f[k] + g[k]
  BY DEF AddsTo
<1>2. PICK sumf : PartialSums(n, f, sumf)
  <2>1. \A k \in 1 .. n : f[k] \in Nat
    BY <1>1
  <2> QED
    BY <2>1, SumsExist
<1>3. PICK sumg : PartialSums(n, g, sumg)
  <2>1. \A k \in 1 .. n : g[k] \in Nat
    BY <1>1
  <2> QED
    BY <2>1, SumsExist
<1>4. PICK sumh : PartialSums(n, h, sumh)
  <2>1. \A k \in 1 .. n : h[k] \in Nat
    BY <1>1
  <2> QED
    BY <2>1, SumsExist
<1>5. /\ SumTo(n, f) = sumf[n] /\ sumf[0] = 0 /\ sumf \in [0 .. n -> Nat]
      /\ \A k \in 0 .. n - 1 : sumf[k + 1] = sumf[k] + f[k + 1]
  BY <1>2 DEF PartialSums
<1>6. /\ SumTo(n, g) = sumg[n] /\ sumg[0] = 0 /\ sumg \in [0 .. n -> Nat]
      /\ \A k \in 0 .. n - 1 : sumg[k + 1] = sumg[k] + g[k + 1]
  BY <1>3 DEF PartialSums
<1>7. /\ SumTo(n, h) = sumh[n] /\ sumh[0] = 0
      /\ \A k \in 0 .. n - 1 : sumh[k + 1] = sumh[k] + h[k + 1]
  BY <1>4 DEF PartialSums
<1> DEFINE X == {m \in Nat : m <= n => sumh[m] = sumf[m] + sumg[m]}
<1>8. 0 \in X
  <2>1. sumh[0] = 0 /\ sumf[0] = 0 /\ sumg[0] = 0
    BY <1>5, <1>6, <1>7
  <2> QED
    BY <2>1
<1>9. ASSUME NEW m \in Nat, m \in X PROVE m + 1 \in X
  <2> SUFFICES ASSUME m + 1 <= n PROVE sumh[m + 1] = sumf[m + 1] + sumg[m + 1]
    OBVIOUS
  <2>1. m \in 0 .. n - 1 /\ m + 1 \in 1 .. n /\ m \in 0 .. n
    OBVIOUS
  <2>2. PICK x \in Nat, y \in Nat, z \in Nat, v \in Nat :
          x = sumf[m] /\ y = sumg[m] /\ z = f[m + 1] /\ v = g[m + 1]
    BY <1>1, <1>5, <1>6, <2>1
  <2>3. sumf[m + 1] = x + z
    BY <1>5, <2>1, <2>2
  <2>4. sumg[m + 1] = y + v
    BY <1>6, <2>1, <2>2
  <2>5. sumh[m + 1] = sumh[m] + h[m + 1]
    BY <1>7, <2>1
  <2>6. sumh[m] = x + y
    BY <1>9, <2>1, <2>2
  <2>7. h[m + 1] = z + v
    BY <1>1, <2>1, <2>2
  <2> QED
    BY <2>3, <2>4, <2>5, <2>6, <2>7
<1>10. n \in X
  <2> HIDE DEF X
  <2> QED
    BY <1>8, <1>9, InAllNumbers
<1> QED
  BY <1>5, <1>6, <1>7, <1>10

-----------------------------------------------------------------------------
(* How often a period fits into a time.                                     *)

\* A quotient is the number of whole multiples.
LEMMA QuotientFacts ==
    ASSUME NEW m \in Nat, NEW T \in Nat \ {0}
    PROVE  m \div T \in Nat /\ T * (m \div T) <= m /\ m < T * (m \div T) + T
OBVIOUS

\* The partial products of the periods of s, which define Round.
PartialProducts(s, p) ==
    /\ p \in [0 .. Len(s.period) -> Nat] /\ Round(s) = p[Len(s.period)] /\ p[0] = 1
    /\ \A k \in 0 .. Len(s.period) - 1 : p[k + 1] = p[k] * s.period[k + 1]

\* The recursive function by which Round defines them.
Products(s, n, p) == p = [k \in 0 .. n |-> IF k = 0 THEN 1 ELSE p[k - 1] * s.period[k]]

\* They exist, by induction over their number.
LEMMA ProductsExist ==
    ASSUME NEW s, NEW N \in Nat, N = Len(s.period), \A k \in 1 .. N : s.period[k] \in Nat
    PROVE  \E p : PartialProducts(s, p)
<1> DEFINE T == s.period
           X == {m \in Nat : m <= N => \E p \in [0 .. m -> Nat] : Products(s, m, p)}
<1>1. 0 \in X
  <2>1. [k \in 0 .. 0 |-> 1] \in [0 .. 0 -> Nat] /\ Products(s, 0, [k \in 0 .. 0 |-> 1])
    BY DEF Products
  <2> QED
    BY <2>1
<1>2. ASSUME NEW m \in Nat, m \in X PROVE m + 1 \in X
  <2> SUFFICES ASSUME m + 1 <= N PROVE \E p \in [0 .. m + 1 -> Nat] : Products(s, m + 1, p)
    OBVIOUS
  <2>1. PICK p \in [0 .. m -> Nat] : Products(s, m, p)
    BY <1>2
  <2> DEFINE next == p[m] * T[m + 1]
             more == [k \in 0 .. m + 1 |-> IF k <= m THEN p[k] ELSE next]
  <2>2. next \in Nat
    OBVIOUS
  <2>3. more \in [0 .. m + 1 -> Nat]
    <3> HIDE DEF next
    <3> QED
      BY <2>2
  <2>4. \A k \in 0 .. m : p[k] = IF k = 0 THEN 1 ELSE p[k - 1] * T[k]
    BY <2>1 DEF Products
  <2>5. \A k \in 0 .. m + 1 : more[k] = IF k = 0 THEN 1 ELSE more[k - 1] * T[k]
    <3> SUFFICES ASSUME NEW k \in 0 .. m + 1
                 PROVE  more[k] = IF k = 0 THEN 1 ELSE more[k - 1] * T[k]
      OBVIOUS
    <3>1. CASE k <= m
      <4>1. more[k] = p[k] /\ (k # 0 => more[k - 1] = p[k - 1])
        BY <3>1
      <4> QED
        BY <2>4, <3>1, <4>1
    <3>2. CASE k = m + 1
      <4>1. more[k] = next /\ more[k - 1] = p[m] /\ k # 0
        BY <3>2
      <4> QED
        BY <3>2, <4>1
    <3> QED
      BY <3>1, <3>2
  <2>6. Products(s, m + 1, more)
    <3> HIDE DEF next
    <3> QED
      BY <2>3, <2>5 DEF Products, T
  <2> QED
    BY <2>3, <2>6
<1>3. \E p \in [0 .. N -> Nat] : Products(s, N, p)
  <2>1. N \in X
    <3> HIDE DEF X
    <3> QED
      BY <1>1, <1>2, InAllNumbers
  <2> QED
    BY <2>1
<1> DEFINE q == CHOOSE p : Products(s, N, p)
<1>4. Round(s) = q[N]
  BY DEF Round, Products
<1>5. Products(s, N, q)
  BY <1>3
<1> HIDE DEF q
<1>6. \A k \in 0 .. N : q[k] = IF k = 0 THEN 1 ELSE q[k - 1] * T[k]
  BY <1>5 DEF Products
<1> DEFINE Y == {m \in Nat : m <= N => q[m] \in Nat}
<1>7. Nat \subseteq Y
  <2>1. 0 \in Y
    BY <1>6
  <2>2. ASSUME NEW m \in Nat, m \in Y PROVE m + 1 \in Y
    <3> SUFFICES ASSUME m + 1 <= N PROVE q[m + 1] \in Nat
      OBVIOUS
    <3>1. m + 1 \in 1 .. N /\ q[m] \in Nat /\ T[m + 1] \in Nat /\ m + 1 # 0 /\ m + 1 - 1 = m
      BY <2>2
    <3>2. q[m + 1] = q[m] * T[m + 1]
      BY <1>6, <3>1
    <3> QED
      BY <3>1, <3>2
  <2> HIDE DEF Y
  <2> QED
    BY <2>1, <2>2, InAllNumbers
<1>8. q \in [0 .. N -> Nat]
  <2>1. q = [k \in 0 .. N |-> q[k]]
    BY <1>5 DEF Products
  <2> QED
    BY <1>7, <2>1
<1>9. \A k \in 0 .. N - 1 : q[k + 1] = q[k] * T[k + 1]
  BY <1>6
<1> QED
  BY <1>4, <1>6, <1>8, <1>9 DEF PartialProducts

\* A round is a positive number.
LEMMA RoundPositive ==
    ASSUME NEW s, IsServiceSet(s), NEW p, PartialProducts(s, p)
    PROVE  Round(s) \in Nat \ {0} /\ \A k \in 0 .. Len(s.period) : p[k] \in Nat \ {0}
<1> DEFINE N == Len(s.period)
<1>1. N \in Nat /\ \A k \in 1 .. N : s.period[k] \in Nat \ {0}
  BY LenProperties, ElementOfSeq DEF IsServiceSet, Times
<1>2. /\ p \in [0 .. N -> Nat] /\ Round(s) = p[N] /\ p[0] = 1
      /\ \A k \in 0 .. N - 1 : p[k + 1] = p[k] * s.period[k + 1]
  BY DEF PartialProducts
<1> DEFINE X == {m \in Nat : m <= N => p[m] # 0}
<1>3. 0 \in X
  BY <1>1, <1>2
<1>4. ASSUME NEW m \in Nat, m \in X PROVE m + 1 \in X
  <2> SUFFICES ASSUME m + 1 <= N PROVE p[m + 1] # 0
    OBVIOUS
  <2>1. m \in 0 .. N - 1 /\ m + 1 \in 1 .. N /\ m \in 0 .. N
    OBVIOUS
  <2>2. PICK x \in Nat \ {0}, y \in Nat \ {0} : x = p[m] /\ y = s.period[m + 1]
    <3>1. p[m] \in Nat \ {0}
      BY <1>2, <1>4, <2>1
    <3>2. s.period[m + 1] \in Nat \ {0}
      BY <1>1, <2>1
    <3> QED
      BY <3>1, <3>2
  <2>3. p[m + 1] = x * y
    BY <1>2, <2>1, <2>2
  <2>4. x * y # 0
    OBVIOUS
  <2> QED
    BY <2>3, <2>4
<1>5. Nat \subseteq X
  <2> HIDE DEF X
  <2> QED
    BY <1>3, <1>4, InAllNumbers
<1> QED
  BY <1>1, <1>2, <1>5

\* It is a whole number of every period.
LEMMA RoundFacts ==
    ASSUME NEW s, IsServiceSet(s), NEW i \in Services(s)
    PROVE  /\ Round(s) \in Nat \ {0} /\ Round(s) \div s.period[i] \in Nat
           /\ (Round(s) \div s.period[i]) * s.period[i] = Round(s)
<1> DEFINE N == Len(s.period)
           T == s.period[i]
<1>1. N \in Nat /\ i \in 1 .. N /\ \A k \in 1 .. N : s.period[k] \in Nat \ {0}
  BY LenProperties, ElementOfSeq DEF IsServiceSet, Services, Times
<1>2. PICK p : PartialProducts(s, p)
  BY <1>1, ProductsExist
<1>3. /\ Round(s) = p[N] /\ \A k \in 0 .. N - 1 : p[k + 1] = p[k] * s.period[k + 1]
      /\ Round(s) \in Nat \ {0} /\ \A k \in 0 .. N : p[k] \in Nat \ {0}
  BY <1>2, RoundPositive DEF PartialProducts
<1> DEFINE X == {m \in Nat : m <= N /\ i <= m => \E q \in Nat : p[m] = q * T}
<1>4. 0 \in X
  BY <1>1
<1>5. ASSUME NEW m \in Nat, m \in X PROVE m + 1 \in X
  <2> SUFFICES ASSUME m + 1 <= N, i <= m + 1 PROVE \E q \in Nat : p[m + 1] = q * T
    OBVIOUS
  <2>1. m \in 0 .. N - 1 /\ m + 1 \in 1 .. N /\ m \in 0 .. N
    OBVIOUS
  <2>2. PICK x \in Nat, y \in Nat, t \in Nat : x = p[m] /\ y = s.period[m + 1] /\ t = T
    BY <1>1, <1>3, <2>1
  <2>3. p[m + 1] = x * y
    BY <1>3, <2>1, <2>2
  <2>4. CASE i = m + 1
    BY <2>2, <2>3, <2>4
  <2>5. CASE i <= m
    <3>1. PICK q \in Nat : x = q * T
      BY <1>5, <2>1, <2>2, <2>5
    <3>2. q * y \in Nat /\ (q * t) * y = (q * y) * t
      OBVIOUS
    <3> QED
      BY <2>2, <2>3, <3>1, <3>2
  <2> QED
    BY <1>1, <2>4, <2>5
<1>6. \E q \in Nat : p[N] = q * T
  <2>1. N \in X
    <3> HIDE DEF X
    <3> QED
      BY <1>1, <1>4, <1>5, InAllNumbers
  <2> HIDE DEF T
  <2> QED
    BY <1>1, <2>1
<1>7. PICK q \in Nat : Round(s) = q * T
  BY <1>3, <1>6
<1>8. Round(s) \div T = q
  <2>1. PICK t \in Nat \ {0} : t = T
    BY <1>1
  <2>2. 0 \in 0 .. t - 1
    OBVIOUS
  <2>3. (q * t + 0) \div t = q
    BY <2>2, Quotient, Zenon
  <2>4. q * t + 0 = q * t
    OBVIOUS
  <2> QED
    BY <1>7, <2>1, <2>3, <2>4
<1> QED
  BY <1>3, <1>7, <1>8

\* What the services ask for in a round is a number too.
LEMMA AskedFacts ==
    ASSUME NEW s, IsServiceSet(s), NEW n \in 0 .. Len(s.period)
    PROVE  Round(s) \in Nat \ {0} /\ Asked(s, n) \in Nat
<1> DEFINE g == [j \in 1 .. n |-> (Round(s) \div s.period[j]) * s.wcet[j]]
<1>1. /\ n \in Nat /\ 1 .. n \subseteq Services(s) /\ Len(s.period) \in Nat
      /\ \A j \in Services(s) : s.period[j] \in Nat \ {0} /\ s.wcet[j] \in Nat \ {0}
  BY LenProperties, ElementOfSeq DEF IsServiceSet, Services, Times
<1>2. Round(s) \in Nat \ {0}
  <2>1. \A k \in 1 .. Len(s.period) : s.period[k] \in Nat
    BY <1>1 DEF Services
  <2> QED
    BY <1>1, <2>1, ProductsExist, RoundPositive
<1>3. \A j \in 1 .. n : g[j] \in Nat /\ g[j] <= g[j]
  <2> SUFFICES ASSUME NEW j \in 1 .. n PROVE g[j] \in Nat /\ g[j] <= g[j]
    OBVIOUS
  <2>1. PICK q \in Nat, c \in Nat : q = Round(s) \div s.period[j] /\ c = s.wcet[j]
    BY <1>1, RoundFacts
  <2>2. q * c \in Nat
    OBVIOUS
  <2> QED
    BY <2>1, <2>2
<1>4. SumTo(n, g) \in Nat
  <2> HIDE DEF g
  <2> QED
    BY <1>1, <1>3, SumGrows
<1> QED
  BY <1>2, <1>4 DEF Asked

\* The work of the first n services that is due at time m when they start together
\* with their deadlines at the ends of their periods.
DueBy(n, T, C, m) == SumTo(n, [j \in 1 .. n |-> C[j] * (m \div T[j])])

\* Services that ask for no more than a round has never ask for more than there is.
LEMMA DueFits ==
    ASSUME NEW s, IsServiceSet(s), NEW n \in 0 .. Len(s.period), Asked(s, n) <= Round(s),
           NEW m \in Nat
    PROVE  DueBy(n, s.period, s.wcet, m) \in Nat /\ DueBy(n, s.period, s.wcet, m) <= m
<1> DEFINE f == [j \in 1 .. n |-> s.wcet[j] * (m \div s.period[j])]
           g == [j \in 1 .. n |-> (Round(s) \div s.period[j]) * s.wcet[j]]
           R == Round(s)
<1>1. /\ n \in Nat /\ 1 .. n \subseteq Services(s)
      /\ \A j \in Services(s) : s.period[j] \in Nat \ {0} /\ s.wcet[j] \in Nat \ {0}
  BY LenProperties, ElementOfSeq DEF IsServiceSet, Services, Times
<1>2. R \in Nat \ {0}
  BY AskedFacts
<1>3. ASSUME NEW j \in 1 .. n
      PROVE  f[j] \in Nat /\ g[j] \in Nat /\ R * f[j] <= m * g[j]
  <2>1. PICK q \in Nat, t \in Nat \ {0}, c \in Nat, d \in Nat :
            /\ q = R \div s.period[j] /\ t = s.period[j] /\ c = s.wcet[j] /\ d = m \div s.period[j]
            /\ R = q * t /\ t * d <= m
    BY <1>1, RoundFacts, QuotientFacts
  <2>2. f[j] = c * d /\ g[j] = q * c
    BY <2>1
  <2>3. c * d \in Nat /\ q * c \in Nat
    OBVIOUS
  <2>4. (q * t) * (c * d) = (q * c) * (t * d)
    OBVIOUS
  <2>6. (q * c) * (t * d) <= m * (q * c)
    <3>1. t * d \in Nat
      OBVIOUS
    <3>2. (q * c) * (t * d) <= (q * c) * m
      BY <2>1, <2>3, <3>1, TimesGrows, Zenon
    <3>3. (q * c) * m = m * (q * c)
      BY <2>3
    <3> QED
      BY <3>2, <3>3, Zenon
  <2> QED
    BY <2>1, <2>2, <2>3, <2>4, <2>6
<1>4. R * SumTo(n, f) <= m * SumTo(n, g) /\ SumTo(n, f) \in Nat /\ SumTo(n, g) \in Nat
  <2> HIDE DEF f, g, R
  <2> QED
    BY <1>1, <1>2, <1>3, SumScaled
<1>5. DueBy(n, s.period, s.wcet, m) = SumTo(n, f) /\ Asked(s, n) = SumTo(n, g)
  BY DEF DueBy, Asked
<1>6. ASSUME NEW x \in Nat, NEW y \in Nat, NEW r \in Nat \ {0}, r * x <= m * y, y <= r
      PROVE  x <= m
  <2>1. m * y <= m * r
    BY <1>6, TimesGrows
  <2>2. m * r = r * m /\ r * x \in Int /\ m * y \in Int /\ r * m \in Int
    OBVIOUS
  <2>3. r * x <= r * m
    BY <1>6, <2>1, <2>2
  <2> QED
    BY <2>3, TimesCancel, Zenon
<1> QED
  <2> HIDE DEF f, g, R
  <2>1. SumTo(n, g) <= R
    BY <1>5 DEF R
  <2> QED
    BY <1>2, <1>4, <1>5, <1>6, <2>1

-----------------------------------------------------------------------------
(* Nothing is missed by the earliest deadline and the least laxity.         *)

\* A quotient grows with what is divided, and by one with every period.
LEMMA QuotientGrows ==
    ASSUME NEW T \in Nat \ {0}, NEW x \in Nat, NEW y \in Nat, x <= y
    PROVE  x \div T <= y \div T
OBVIOUS

\* One period later the quotient is one more.
LEMMA QuotientNext ==
    ASSUME NEW T \in Nat \ {0}, NEW x \in Nat PROVE (x + T) \div T = x \div T + 1
<1> DEFINE k == x \div T
           r == x - k * T
<1>1. k \in Nat /\ x = k * T + r /\ r \in 0 .. T - 1
  <2>1. k \in Nat /\ T * k <= x /\ x < T * k + T
    BY QuotientFacts
  <2> HIDE DEF k
  <2>2. T * k = k * T
    BY <2>1
  <2>3. k * T \in Nat
    BY <2>1
  <2> QED
    BY <2>1, <2>2, <2>3
<1> HIDE DEF k, r
<1>2. (k + 1) * T = k * T + T /\ k + 1 \in Nat
  BY <1>1
<1>3. x + T = (k + 1) * T + r
  BY <1>1, <1>2
<1>4. ((k + 1) * T + r) \div T = k + 1
  BY <1>1, <1>2, Quotient, Zenon
<1> QED
  BY <1>3, <1>4 DEF k

\* The work due by time of a service with period T and run time C whose period ends at
\* end and that has run for ran ticks of it: of the periods that end by then.
DueOf(T, C, end, ran, time) ==
    IF time < end THEN 0 ELSE C - ran + C * ((time - end) \div T)

\* It is a number that grows with time, is what the service still needs at the end of its
\* period, and falls by one with every tick the service runs, if that end is not too late.
LEMMA DueFacts ==
    ASSUME NEW T \in Nat \ {0}, NEW C \in Nat, NEW end \in Nat, NEW ran \in 0 .. C,
           NEW time \in Nat
    PROVE  /\ DueOf(T, C, end, ran, time) \in Nat
           /\ DueOf(T, C, end, ran, end) = C - ran
           /\ time < end => DueOf(T, C, end, ran, time) = 0
           /\ end <= time /\ ran < C =>
                DueOf(T, C, end, ran + 1, time) + 1 = DueOf(T, C, end, ran, time)
           /\ \A later \in Nat : time <= later =>
                DueOf(T, C, end, ran, time) <= DueOf(T, C, end, ran, later)
<1>1. ASSUME NEW t \in Nat, end <= t
      PROVE  /\ (t - end) \div T \in Nat /\ C * ((t - end) \div T) \in Nat
             /\ DueOf(T, C, end, ran, t) = C - ran + C * ((t - end) \div T)
             /\ DueOf(T, C, end, ran + 1, t) = C - (ran + 1) + C * ((t - end) \div T)
  <2>1. t - end \in Nat /\ ~(t < end)
    BY <1>1
  <2>2. PICK q \in Nat : q = (t - end) \div T
    BY <2>1, QuotientFacts
  <2>3. C * q \in Nat
    OBVIOUS
  <2> QED
    BY <2>1, <2>2, <2>3 DEF DueOf
<1>2. ASSUME NEW t \in Nat, t < end PROVE DueOf(T, C, end, ran, t) = 0
  BY <1>2 DEF DueOf
<1>3. ASSUME NEW t \in Nat PROVE DueOf(T, C, end, ran, t) \in Nat
  <2>1. CASE t < end
    BY <1>2, <2>1
  <2>2. CASE end <= t
    <3>1. PICK w \in Nat : DueOf(T, C, end, ran, t) = C - ran + w
      BY <1>1, <2>2
    <3> QED
      BY <3>1
  <2> QED
    BY <2>1, <2>2
<1>4. DueOf(T, C, end, ran, end) = C - ran
  <2>1. (end - end) \div T = 0
    OBVIOUS
  <2>2. C * ((end - end) \div T) = 0
    BY <2>1
  <2> QED
    BY <1>1, <2>2
<1>5. ASSUME end <= time, ran < C
      PROVE  DueOf(T, C, end, ran + 1, time) + 1 = DueOf(T, C, end, ran, time)
  <2>1. PICK w \in Nat : /\ DueOf(T, C, end, ran, time) = C - ran + w
                         /\ DueOf(T, C, end, ran + 1, time) = C - (ran + 1) + w
    BY <1>1, <1>5
  <2> QED
    BY <2>1
<1>6. ASSUME NEW later \in Nat, time <= later
      PROVE  DueOf(T, C, end, ran, time) <= DueOf(T, C, end, ran, later)
  <2>1. CASE time < end
    BY <1>2, <1>3, <2>1
  <2>2. CASE end <= time
    <3>1. PICK x \in Nat, y \in Nat : x = (time - end) \div T /\ y = (later - end) \div T
      <4>1. time - end \in Nat /\ later - end \in Nat
        BY <1>6, <2>2
      <4> QED
        BY <4>1, QuotientFacts
    <3>2. x <= y
      <4>1. time - end \in Nat /\ later - end \in Nat /\ time - end <= later - end
        BY <1>6, <2>2
      <4> QED
        BY <3>1, <4>1, QuotientGrows
    <3>3. C * x <= C * y /\ C * x \in Nat /\ C * y \in Nat
      BY <3>2, TimesGrows
    <3>4. /\ DueOf(T, C, end, ran, time) = C - ran + C * x
          /\ DueOf(T, C, end, ran, later) = C - ran + C * y
      BY <1>1, <1>6, <2>2, <3>1
    <3> QED
      BY <3>3, <3>4
  <2> QED
    BY <2>1, <2>2
<1> QED
  BY <1>2, <1>3, <1>4, <1>5, <1>6

\* Of a service that needs no more, or whose period ends too late, only later periods
\* are due.
LEMMA DueLater ==
    ASSUME NEW T \in Nat \ {0}, NEW C \in Nat, NEW end \in Nat, NEW ran \in 0 .. C,
           NEW from \in Nat, from <= end, NEW time \in Nat, from <= time, ran = C \/ time < end
    PROVE  /\ DueOf(T, C, end, ran, time) <= C * ((time - from) \div T)
           /\ C * ((time - from) \div T) \in Nat
<1>1. PICK y \in Nat : y = (time - from) \div T
  <2>1. time - from \in Nat
    OBVIOUS
  <2> QED
    BY <2>1, QuotientFacts
<1>2. C * y \in Nat
  OBVIOUS
<1>3. CASE time < end
  BY <1>1, <1>2, <1>3 DEF DueOf
<1>4. CASE end <= time
  <2>1. time - end \in Nat /\ time - from \in Nat /\ time - end <= time - from
    BY <1>4
  <2>2. PICK x \in Nat : x = (time - end) \div T
    BY <2>1, QuotientFacts
  <2>3. x <= y
    BY <1>1, <2>1, <2>2, QuotientGrows
  <2>4. C * x <= C * y /\ C * x \in Nat
    BY <2>3, TimesGrows
  <2>5. DueOf(T, C, end, ran, time) = C - ran + C * x /\ ran = C
    BY <1>4, <2>2 DEF DueOf
  <2> QED
    BY <1>1, <1>2, <2>4, <2>5
<1> QED
  BY <1>3, <1>4

\* The start of a new period, after one in which the service got its time, changes
\* nothing of what is due.
LEMMA DueRenewed ==
    ASSUME NEW T \in Nat \ {0}, NEW C \in Nat, NEW now \in Nat, NEW time \in Nat, now <= time
    PROVE  DueOf(T, C, now, C, time) = DueOf(T, C, now + T, 0, time)
<1>1. PICK d \in Nat : time = now + d
  <2>1. time - now \in Nat /\ time = now + (time - now)
    OBVIOUS
  <2> QED
    BY <2>1
<1>2. DueOf(T, C, now, C, time) = C * (d \div T)
  <2>1. time - now = d /\ ~(time < now)
    BY <1>1
  <2>2. PICK q \in Nat : q = d \div T
    BY QuotientFacts
  <2>3. C * q \in Nat
    OBVIOUS
  <2> QED
    BY <2>1, <2>2, <2>3 DEF DueOf
<1>3. CASE d < T
  <2>1. d \div T = 0
    BY <1>3
  <2>2. C * (d \div T) = 0
    BY <2>1
  <2>3. DueOf(T, C, now + T, 0, time) = 0
    BY <1>1, <1>3 DEF DueOf
  <2> QED
    BY <1>2, <2>2, <2>3
<1>4. CASE T <= d
  <2>1. PICK x \in Nat : d = x + T
    <3>1. d - T \in Nat /\ d = (d - T) + T
      BY <1>4
    <3> QED
      BY <3>1
  <2>2. PICK q \in Nat : q = x \div T
    BY QuotientFacts
  <2>3. d \div T = q + 1
    BY <2>1, <2>2, QuotientNext
  <2>4. C * (q + 1) = C + C * q /\ C * q \in Nat
    OBVIOUS
  <2>5. DueOf(T, C, now + T, 0, time) = C - 0 + C * q
    <3>1. ~(time < now + T) /\ time - (now + T) = x
      BY <1>1, <2>1
    <3> QED
      BY <2>2, <3>1 DEF DueOf
  <2> QED
    BY <1>2, <2>3, <2>4, <2>5
<1> QED
  BY <1>3, <1>4

\* What is due by every time fits into the ticks that are left before it.
DueInTime(N, T, C, end, ran, n) ==
    \A t \in Nat : n <= t =>
      SumTo(N, [j \in 1 .. N |-> DueOf(T[j], C[j], end[j], ran[j], t)]) <= t - n

\* c is a service whose period ends first, or that has the least time to spare, of those
\* that still need time, or none of them does.
IsUrgent(N, C, end, ran, c) ==
    LET needy == {j \in 1 .. N : ran[j] < C[j]}
    IN  IF needy = {} THEN c = Idle
        ELSE /\ c \in needy
             /\ \/ \A j \in needy : end[c] <= end[j]
                \/ \A j \in needy : end[c] - (C[c] - ran[c]) <= end[j] - (C[j] - ran[j])

\* A tick given to such a service leaves it so.
LEMMA DemandStep ==
    ASSUME NEW N \in Nat, NEW T, NEW C, NEW n \in Nat, NEW end, NEW ran,
           \A j \in 1 .. N : /\ T[j] \in Nat \ {0} /\ C[j] \in Nat
                             /\ end[j] \in Nat /\ n + 1 <= end[j] /\ ran[j] \in 0 .. C[j],
           \A m \in Nat : DueBy(N, T, C, m) <= m,
           DueInTime(N, T, C, end, ran, n),
           NEW c, IsUrgent(N, C, end, ran, c), NEW more,
           \A j \in 1 .. N : more[j] = IF j = c THEN ran[j] + 1 ELSE ran[j]
    PROVE  DueInTime(N, T, C, end, more, n + 1)
<1> SUFFICES ASSUME NEW t \in Nat, n + 1 <= t
             PROVE  SumTo(N, [j \in 1 .. N |-> DueOf(T[j], C[j], end[j], more[j], t)])
                      <= t - (n + 1)
  BY DEF DueInTime
<1> DEFINE D(time) == [j \in 1 .. N |-> DueOf(T[j], C[j], end[j], ran[j], time)]
           E == [j \in 1 .. N |-> DueOf(T[j], C[j], end[j], more[j], t)]
           F == [j \in 1 .. N |-> C[j] * ((t - (n + 1)) \div T[j])]
<1> SUFFICES SumTo(N, E) <= t - (n + 1)
  OBVIOUS
<1>1. ASSUME NEW j \in 1 .. N
      PROVE  /\ T[j] \in Nat \ {0} /\ C[j] \in Nat /\ end[j] \in Nat /\ ran[j] \in 0 .. C[j]
             /\ ran[j] \in Nat /\ n + 1 \in Nat /\ n + 1 <= end[j]
             /\ more[j] = IF j = c THEN ran[j] + 1 ELSE ran[j]
  OBVIOUS
<1>2. ASSUME NEW j \in 1 .. N
      PROVE  /\ \A time \in Nat : D(time)[j] = DueOf(T[j], C[j], end[j], ran[j], time)
             /\ E[j] = DueOf(T[j], C[j], end[j], more[j], t)
             /\ F[j] = C[j] * ((t - (n + 1)) \div T[j])
  OBVIOUS
<1>3. \A time \in Nat : n <= time => SumTo(N, D(time)) <= time - n
  BY DEF DueInTime
<1>4. SumTo(N, F) <= t - (n + 1)
  <2>1. t - (n + 1) \in Nat
    OBVIOUS
  <2>2. DueBy(N, T, C, t - (n + 1)) = SumTo(N, F)
    BY DEF DueBy
  <2> QED
    BY <2>1, <2>2
<1> HIDE DEF D, E, F
<1>5. ASSUME NEW j \in 1 .. N, NEW time \in Nat
      PROVE  /\ D(time)[j] \in Nat
             /\ \A x \in Nat : time <= x => D(time)[j] <= D(x)[j]
             /\ D(end[j])[j] = C[j] - ran[j]
             /\ time < end[j] => D(time)[j] = 0
  <2>1. PICK T1 \in Nat \ {0}, C1 \in Nat, e1 \in Nat, r1 \in Nat :
             T1 = T[j] /\ C1 = C[j] /\ e1 = end[j] /\ r1 = ran[j] /\ r1 \in 0 .. C1
    BY <1>1
  <2>2. \A x \in Nat : D(x)[j] = DueOf(T1, C1, e1, r1, x)
    BY <1>2, <2>1
  <2>3. /\ DueOf(T1, C1, e1, r1, time) \in Nat
        /\ DueOf(T1, C1, e1, r1, e1) = C1 - r1
        /\ time < e1 => DueOf(T1, C1, e1, r1, time) = 0
        /\ \A x \in Nat : time <= x =>
             DueOf(T1, C1, e1, r1, time) <= DueOf(T1, C1, e1, r1, x)
    <3>1. r1 \in 0 .. C1
      BY <2>1
    <3> QED
      BY <3>1, DueFacts
  <2> QED
    BY <2>1, <2>2, <2>3
<1>6. ASSUME NEW j \in 1 .. N, j = c PROVE ran[j] < C[j]
  BY <1>1, <1>6 DEF IsUrgent, Idle
<1>7. ASSUME NEW j \in 1 .. N
      PROVE  /\ E[j] \in Nat /\ E[j] <= D(t)[j]
             /\ j = c /\ end[j] <= t => E[j] + 1 <= D(t)[j]
  <2>1. PICK T1 \in Nat \ {0}, C1 \in Nat, e1 \in Nat, r1 \in Nat :
             T1 = T[j] /\ C1 = C[j] /\ e1 = end[j] /\ r1 = ran[j] /\ r1 \in 0 .. C1
    BY <1>1
  <2>2. D(t)[j] = DueOf(T1, C1, e1, r1, t) /\ D(t)[j] \in Nat
    BY <1>2, <1>5, <2>1
  <2>3. CASE j # c
    <3>1. E[j] = DueOf(T1, C1, e1, r1, t)
      BY <1>1, <1>2, <2>1, <2>3
    <3> QED
      BY <2>2, <2>3, <3>1
  <2>4. CASE j = c /\ e1 <= t
    <3>1. E[j] = DueOf(T1, C1, e1, r1 + 1, t)
      BY <1>1, <1>2, <2>1, <2>4
    <3>2. r1 < C1 /\ r1 \in 0 .. C1 /\ r1 + 1 \in 0 .. C1
      BY <1>6, <2>1, <2>4
    <3>3. DueOf(T1, C1, e1, r1 + 1, t) + 1 = DueOf(T1, C1, e1, r1, t)
      BY <2>4, <3>2, DueFacts
    <3>4. DueOf(T1, C1, e1, r1 + 1, t) \in Nat
      BY <2>1, <3>2, DueFacts
    <3> QED
      BY <2>2, <3>1, <3>3, <3>4
  <2>5. CASE j = c /\ t < e1
    <3>1. E[j] = DueOf(T1, C1, e1, r1 + 1, t)
      BY <1>1, <1>2, <2>1, <2>5
    <3>2. DueOf(T1, C1, e1, r1 + 1, t) = 0
      BY <2>5 DEF DueOf
    <3> QED
      BY <2>1, <2>2, <2>5, <3>1, <3>2
  <2> QED
    BY <2>3, <2>4, <2>5
<1>8. SumTo(N, E) <= SumTo(N, D(t)) /\ SumTo(N, E) \in Nat /\ SumTo(N, D(t)) \in Nat
  <2>1. \A j \in 1 .. N : E[j] \in Nat /\ D(t)[j] \in Nat /\ E[j] <= D(t)[j]
    BY <1>5, <1>7
  <2> QED
    BY <2>1, SumGrows
<1>9. ASSUME \A j \in 1 .. N : ran[j] = C[j] \/ t < end[j]
      PROVE  SumTo(N, D(t)) <= t - (n + 1)
  <2>1. ASSUME NEW j \in 1 .. N PROVE D(t)[j] \in Nat /\ F[j] \in Nat /\ D(t)[j] <= F[j]
    <3>1. PICK T1 \in Nat \ {0}, C1 \in Nat, e1 \in Nat, r1 \in Nat, m \in Nat :
              /\ T1 = T[j] /\ C1 = C[j] /\ e1 = end[j] /\ r1 = ran[j] /\ r1 \in 0 .. C1
              /\ m = n + 1
      BY <1>1
    <3>2. m <= e1 /\ m <= t /\ (r1 = C1 \/ t < e1)
      BY <1>1, <1>9, <3>1
    <3>3. /\ DueOf(T1, C1, e1, r1, t) <= C1 * ((t - m) \div T1)
          /\ C1 * ((t - m) \div T1) \in Nat
      BY <3>1, <3>2, DueLater
    <3> QED
      BY <1>2, <1>5, <3>1, <3>3
  <2>2. SumTo(N, D(t)) <= SumTo(N, F) /\ SumTo(N, D(t)) \in Nat /\ SumTo(N, F) \in Nat
    BY <2>1, SumGrows
  <2> QED
    BY <1>4, <2>2
<1>10. ASSUME NEW j \in 1 .. N, j = c, end[j] <= t PROVE SumTo(N, E) <= t - (n + 1)
  <2>1. E[j] + 1 <= D(t)[j]
    BY <1>7, <1>10
  <2>2. \A k \in 1 .. N : E[k] \in Nat /\ D(t)[k] \in Nat /\ E[k] <= D(t)[k]
    BY <1>5, <1>7
  <2>3. SumTo(N, E) + 1 <= SumTo(N, D(t))
    BY <2>1, <2>2, SumLess
  <2>4. SumTo(N, D(t)) <= t - n
    BY <1>3
  <2> QED
    BY <1>8, <2>3, <2>4
<1>11. ASSUME NEW k \in 1 .. N, k = c, t < end[k], NEW i \in 1 .. N, ran[i] # C[i], end[i] <= t
       PROVE  SumTo(N, D(t)) <= t - (n + 1)
  <2>1. PICK e \in Nat, C1 \in Nat, r1 \in Nat, e2 \in Nat, C2 \in Nat, r2 \in Nat :
             /\ e = end[k] /\ C1 = C[k] /\ r1 = ran[k] /\ r1 <= C1
             /\ e2 = end[i] /\ C2 = C[i] /\ r2 = ran[i] /\ r2 < C2
    <3>1. ran[i] < C[i] /\ ran[k] <= C[k]
      BY <1>1, <1>11
    <3> QED
      BY <1>1, <3>1
  <2>2. e - (C1 - r1) <= e2 - (C2 - r2)
    <3>1. ~(e <= e2)
      BY <1>11, <2>1
    <3>2. i \in {j \in 1 .. N : ran[j] < C[j]}
      BY <2>1
    <3> QED
      BY <1>11, <2>1, <3>1, <3>2 DEF IsUrgent
  <2>3. SumTo(N, D(t)) + (C1 - r1) <= SumTo(N, D(e)) /\ SumTo(N, D(e)) \in Nat
    <3>1. C1 - r1 \in Nat
      BY <2>1
    <3>2. D(t)[k] = 0 /\ D(e)[k] = C1 - r1
      BY <1>5, <1>11, <2>1
    <3>3. D(t)[k] + (C1 - r1) <= D(e)[k]
      BY <3>1, <3>2
    <3>4. t <= e
      BY <1>11, <2>1
    <3>5. \A j \in 1 .. N : D(t)[j] \in Nat /\ D(e)[j] \in Nat /\ D(t)[j] <= D(e)[j]
      BY <1>5, <3>4
    <3> QED
      BY <3>1, <3>3, <3>5, SumLess
  <2>4. SumTo(N, D(e)) <= e - n
    <3>1. n <= e
      BY <1>1, <2>1
    <3> QED
      BY <1>3, <3>1
  <2>5. e2 <= t
    BY <1>11, <2>1
  <2>6. PICK x \in Nat, y \in Nat : x = SumTo(N, D(t)) /\ y = SumTo(N, D(e))
    BY <1>8, <2>3
  <2>7. x + (C1 - r1) <= y /\ y <= e - n
    BY <2>3, <2>4, <2>6
  <2>8. e2 - (C2 - r2) <= t - 1
    BY <2>1, <2>5
  <2>9. x <= t - (n + 1)
    <3>1. PICK d \in Int, z \in Int : d = C1 - r1 /\ z = e2 - (C2 - r2)
      BY <2>1
    <3> QED
      BY <2>1, <2>2, <2>7, <2>8, <3>1
  <2> QED
    BY <2>6, <2>9
<1>12. CASE \A j \in 1 .. N : ran[j] = C[j] \/ t < end[j]
  BY <1>8, <1>9, <1>12
<1>13. ASSUME NEW i \in 1 .. N, ran[i] # C[i], ~(t < end[i])
       PROVE  SumTo(N, E) <= t - (n + 1)
  <2>1. end[i] <= t /\ ran[i] < C[i]
    BY <1>1, <1>13
  <2>2. c \in 1 .. N
    BY <2>1 DEF IsUrgent
  <2>3. CASE end[c] <= t
    BY <1>10, <2>2, <2>3
  <2>4. CASE t < end[c]
    BY <1>8, <1>11, <1>13, <2>1, <2>2, <2>4
  <2> QED
    BY <1>1, <2>2, <2>3, <2>4
<1> QED
  BY <1>12, <1>13

\* The invariant: while the services ask for no more than there is, nothing is missed and
\* what is due by every time fits into the ticks before it.
EndOf(s) == Now + Deadline[s]
OptimalInv ==
    LET N == Len(services.period)
    IN  protocol \in {"EDF", "LLF"} /\ Asked(services, N) <= Round(services) =>
          /\ misses = 0
          /\ DueInTime(N, services.period, services.wcet,
                       [s \in Services(services) |-> EndOf(s)], Runtime, Now)

\* It holds when all services start together.
LEMMA OptimalInit == ScheduleInit /\ ScheduleTypeOK => OptimalInv
<1> SUFFICES ASSUME ScheduleInit, ScheduleTypeOK,
                    Asked(services, Len(services.period)) <= Round(services)
             PROVE  /\ misses = 0
                    /\ DueInTime(Len(services.period), services.period, services.wcet,
                                 [s \in Services(services) |-> EndOf(s)], Runtime, Now)
  BY DEF OptimalInv
<1> DEFINE N == Len(services.period)
           T == services.period
           C == services.wcet
           end == [s \in Services(services) |-> EndOf(s)]
<1>1. /\ misses = 0 /\ Deadline = T /\ Runtime = [s \in Services(services) |-> 0] /\ Now = 0
      /\ N \in Nat /\ Services(services) = 1 .. N /\ IsServiceSet(services)
  BY LenProperties DEF ScheduleInit, ScheduleTypeOK, Services, Now, IsServiceSet, Times
<1>2. ASSUME NEW j \in 1 .. N
      PROVE  T[j] \in Nat \ {0} /\ C[j] \in Nat /\ end[j] = T[j] /\ Runtime[j] = 0
  BY <1>1, ServiceTypes DEF EndOf
<1> HIDE DEF end
<1>3. ASSUME NEW t \in Nat
      PROVE  SumTo(N, [j \in 1 .. N |-> DueOf(T[j], C[j], end[j], Runtime[j], t)]) <= t
  <2>1. ASSUME NEW j \in 1 .. N
        PROVE  DueOf(T[j], C[j], end[j], Runtime[j], t) = C[j] * (t \div T[j])
    <3>1. PICK T1 \in Nat \ {0}, C1 \in Nat : T1 = T[j] /\ C1 = C[j]
      BY <1>2
    <3>2. DueOf(T1, C1, 0, C1, t) = DueOf(T1, C1, 0 + T1, 0, t)
      BY DueRenewed
    <3>3. DueOf(T1, C1, 0, C1, t) = C1 * (t \div T1)
      <4>1. PICK q \in Nat : q = t \div T1
        BY QuotientFacts
      <4>2. C1 * q \in Nat
        OBVIOUS
      <4>3. t - 0 = t /\ ~(t < 0)
        OBVIOUS
      <4> QED
        BY <4>1, <4>2, <4>3 DEF DueOf
    <3>4. 0 + T1 = T1
      OBVIOUS
    <3> QED
      BY <1>2, <3>1, <3>2, <3>3, <3>4
  <2>2. SumTo(N, [j \in 1 .. N |-> DueOf(T[j], C[j], end[j], Runtime[j], t)])
          = DueBy(N, T, C, t)
    <3>1. [j \in 1 .. N |-> DueOf(T[j], C[j], end[j], Runtime[j], t)]
            = [j \in 1 .. N |-> C[j] * (t \div T[j])]
      BY <2>1
    <3> QED
      BY <3>1 DEF DueBy
  <2>3. DueBy(N, T, C, t) <= t
    BY <1>1, DueFits
  <2> QED
    BY <2>2, <2>3
<1>4. \A t \in Nat : t - 0 = t
  OBVIOUS
<1>5. DueInTime(N, T, C, end, Runtime, 0)
  BY <1>3, <1>4 DEF DueInTime
<1> QED
  BY <1>1, <1>5 DEF end

\* What a service whose period is over was due, it was given.
LEMMA DueIsDone ==
    ASSUME EngineInv, OptimalInv, protocol \in {"EDF", "LLF"},
           Asked(services, Len(services.period)) <= Round(services),
           NEW j \in Services(services), Deadline[j] = 0
    PROVE  Runtime[j] = services.wcet[j]
<1> DEFINE N == Len(services.period)
           T == services.period
           C == services.wcet
           old == [s \in Services(services) |-> EndOf(s)]
<1>1. DueInTime(N, T, C, old, Runtime, Now)
  BY DEF OptimalInv
<1>2. PICK n \in Nat : n = Now
  BY LenProperties DEF EngineInv, ScheduleTypeOK, Now
<1>3. N \in Nat /\ Services(services) = 1 .. N
  BY LenProperties DEF EngineInv, ScheduleTypeOK, Services
<1>4. ASSUME NEW i \in 1 .. N
      PROVE  /\ T[i] \in Nat \ {0} /\ C[i] \in Nat /\ Runtime[i] \in 0 .. C[i]
             /\ Deadline[i] \in Nat /\ old[i] = n + Deadline[i] /\ old[i] \in Nat
  <2>1. /\ T[i] \in Nat \ {0} /\ C[i] \in Nat /\ Deadline[i] \in Nat /\ Runtime[i] \in Nat
    BY <1>3, ServiceTypes DEF EngineInv
  <2>2. Runtime[i] <= C[i]
    BY <1>3 DEF EngineInv, CountersInv
  <2>3. old[i] = n + Deadline[i]
    BY <1>2, <1>3 DEF EndOf
  <2> QED
    BY <2>1, <2>2, <2>3
<1> HIDE DEF old
<1> DEFINE f == [i \in 1 .. N |-> DueOf(T[i], C[i], old[i], Runtime[i], n)]
<1>5. \A i \in 1 .. N : f[i] \in Nat
  <2>1. ASSUME NEW i \in 1 .. N PROVE DueOf(T[i], C[i], old[i], Runtime[i], n) \in Nat
    BY <1>4, DueFacts
  <2> QED
    BY <2>1
<1>6. f[j] = C[j] - Runtime[j]
  <2>1. PICK T1 \in Nat \ {0}, C1 \in Nat, r1 \in Nat :
             T1 = T[j] /\ C1 = C[j] /\ r1 = Runtime[j] /\ r1 \in 0 .. C1
    <3>1. T[j] \in Nat \ {0} /\ C[j] \in Nat /\ Runtime[j] \in 0 .. C[j] /\ Runtime[j] \in Nat
      BY <1>3, <1>4
    <3> QED
      BY <3>1, Zenon
  <2>2. DueOf(T1, C1, n, r1, n) = C1 - r1
    <3>1. r1 \in 0 .. C1
      BY <2>1
    <3> QED
      BY <3>1, DueFacts
  <2>3. old[j] = n
    BY <1>3, <1>4
  <2> QED
    BY <1>3, <2>1, <2>2, <2>3
<1>7. SumTo(N, f) <= n - n
  BY <1>1, <1>2 DEF DueInTime
<1> HIDE DEF f
<1>8. f[j] <= SumTo(N, f) /\ SumTo(N, f) \in Nat /\ f[j] \in Nat
  BY <1>3, <1>5, SumHasSummand
<1> QED
  BY <1>3, <1>4, <1>6, <1>7, <1>8

\* Every tick keeps it.
LEMMA OptimalStep == ASSUME EngineInv, OptimalInv, Tick PROVE OptimalInv'
<1> DEFINE N == Len(services.period)
           T == services.period
           C == services.wcet
           S == Services(services)
           old  == [s \in S |-> EndOf(s)]
           end  == [s \in S |-> Now + DeadlineNow(s)]
           ran  == [s \in S |-> RuntimeNow(s)]
<1>1. ScheduleTypeOK /\ UNCHANGED <<services, protocol>> /\ misses' = misses + Cardinality(Missed)
  BY DEF EngineInv, Tick, Missed
<1> SUFFICES ASSUME protocol \in {"EDF", "LLF"}, Asked(services, N) <= Round(services)
             PROVE  /\ misses' = 0
                    /\ DueInTime(N, T, C, [s \in S |-> EndOf(s)'], Runtime', Now')
  BY <1>1 DEF OptimalInv, Services
<1>2. misses = 0 /\ DueInTime(N, T, C, old, Runtime, Now)
  BY DEF OptimalInv
<1>3. PICK n \in Nat : n = Now
  BY <1>1, LenProperties DEF ScheduleTypeOK, Now
<1>4. N \in Nat /\ S = 1 .. N /\ IsServiceSet(services)
  BY <1>1, LenProperties DEF ScheduleTypeOK, Services, IsServiceSet, Times
<1>5. ASSUME NEW j \in 1 .. N
      PROVE  /\ T[j] \in Nat \ {0} /\ C[j] \in Nat
             /\ Deadline[j] \in Nat /\ Runtime[j] \in 0 .. C[j] /\ old[j] = n + Deadline[j]
             /\ DeadlineNow(j) \in 1 .. T[j] /\ ran[j] = RuntimeNow(j) /\ ran[j] \in 0 .. C[j]
             /\ end[j] = n + DeadlineNow(j)
  <2>1. /\ T[j] \in Nat \ {0} /\ C[j] \in Nat /\ Deadline[j] \in Nat /\ Runtime[j] \in Nat
    BY <1>1, <1>4, ServiceTypes
  <2>2. Runtime[j] <= C[j]
    BY <1>4 DEF EngineInv, CountersInv
  <2>3. DeadlineNow(j) \in 1 .. T[j] /\ RuntimeNow(j) \in 0 .. C[j]
    BY <1>4, PeriodNow
  <2>4. j \in S /\ old[j] = n + Deadline[j]
    BY <1>3, <1>4 DEF EndOf
  <2>5. ran[j] = RuntimeNow(j) /\ end[j] = n + DeadlineNow(j)
    BY <1>3, <2>4
  <2> QED
    BY <2>1, <2>2, <2>3, <2>4, <2>5
<1> HIDE DEF old, end, ran
<1>6. ASSUME NEW t \in Nat, n <= t
      PROVE  SumTo(N, [j \in 1 .. N |-> DueOf(T[j], C[j], old[j], Runtime[j], t)]) <= t - n
  BY <1>2, <1>3, <1>6 DEF DueInTime
<1>7. ASSUME NEW j \in 1 .. N, Deadline[j] = 0 PROVE Runtime[j] = C[j]
  BY <1>4, <1>7, DueIsDone
<1>8. misses' = 0
  <2>1. Missed = {}
    BY <1>4, <1>7 DEF Missed
  <2> QED
    BY <1>1, <1>2, <2>1, FS_EmptySet
<1>9. DueInTime(N, T, C, end, ran, n)
  <2>1. ASSUME NEW t \in Nat, n <= t, NEW j \in 1 .. N
        PROVE  DueOf(T[j], C[j], end[j], ran[j], t) = DueOf(T[j], C[j], old[j], Runtime[j], t)
    <3>1. CASE Deadline[j] = 0
      <4>1. PICK T1 \in Nat \ {0}, C1 \in Nat : T1 = T[j] /\ C1 = C[j]
        BY <1>5
      <4>2. old[j] = n /\ Runtime[j] = C1 /\ end[j] = n + T1 /\ ran[j] = 0
        BY <1>5, <1>7, <3>1, <4>1 DEF DeadlineNow, RuntimeNow
      <4>3. DueOf(T1, C1, n, C1, t) = DueOf(T1, C1, n + T1, 0, t)
        BY <2>1, DueRenewed
      <4> QED
        BY <4>1, <4>2, <4>3
    <3>2. CASE Deadline[j] # 0
      <4>1. old[j] = end[j] /\ ran[j] = Runtime[j]
        BY <1>5, <3>2 DEF DeadlineNow, RuntimeNow
      <4> QED
        BY <4>1
    <3> QED
      BY <3>1, <3>2
  <2>2. ASSUME NEW t \in Nat, n <= t
        PROVE  SumTo(N, [j \in 1 .. N |-> DueOf(T[j], C[j], end[j], ran[j], t)]) <= t - n
    <3>1. [j \in 1 .. N |-> DueOf(T[j], C[j], end[j], ran[j], t)]
            = [j \in 1 .. N |-> DueOf(T[j], C[j], old[j], Runtime[j], t)]
      BY <2>1, <2>2
    <3> QED
      BY <1>6, <2>2, <3>1
  <2> QED
    BY <2>2 DEF DueInTime
<1>10. PICK c \in S \cup {Idle} :
             /\ IsChoice(c)
             /\ events' = Append(events, c)
             /\ Deadline' = [s \in S |-> DeadlineNow(s) - 1]
             /\ Runtime' = [s \in S |-> IF s = c THEN RuntimeNow(s) + 1 ELSE RuntimeNow(s)]
  BY <1>1, TickRuns
<1>11. IsUrgent(N, C, end, ran, c)
  <2>1. Running = {j \in 1 .. N : ran[j] < C[j]}
    BY <1>4, <1>5 DEF Running
  <2>2. CASE Running = {}
    BY <1>10, <2>1, <2>2 DEF IsChoice, IsUrgent
  <2>3. CASE Running # {}
    <3>1. c \in Running /\ \A r \in Running : Spare(c) <= Spare(r)
      BY <1>10, <2>3 DEF IsChoice
    <3>2. CASE protocol = "EDF"
      <4>1. ASSUME NEW r \in Running PROVE end[c] <= end[r]
        <5>1. DeadlineNow(c) - 0 <= DeadlineNow(r) - 0
          BY <3>1, <3>2 DEF Spare
        <5>2. c \in 1 .. N /\ r \in 1 .. N
          BY <2>1, <3>1
        <5> QED
          BY <1>5, <5>1, <5>2
      <4> QED
        BY <2>1, <2>3, <3>1, <4>1 DEF IsUrgent
    <3>3. CASE protocol = "LLF"
      <4>1. ASSUME NEW r \in Running
            PROVE  end[c] - (C[c] - ran[c]) <= end[r] - (C[r] - ran[r])
        <5>1. c \in 1 .. N /\ r \in 1 .. N
          BY <2>1, <3>1
        <5>2. DeadlineNow(c) - (C[c] - ran[c]) <= DeadlineNow(r) - (C[r] - ran[r])
          BY <1>5, <3>1, <3>3, <5>1 DEF Spare
        <5>3. ASSUME NEW j \in 1 .. N
              PROVE  end[j] = n + DeadlineNow(j) /\ DeadlineNow(j) \in Nat /\ C[j] - ran[j] \in Nat
          BY <1>5
        <5>4. ASSUME NEW x \in Nat, NEW y \in Nat, NEW v \in Nat, NEW w \in Nat, x - v <= y - w
              PROVE  n + x - v <= n + y - w
          BY <5>4
        <5>5. PICK x \in Nat, y \in Nat, v \in Nat, w \in Nat :
                x = DeadlineNow(c) /\ y = DeadlineNow(r) /\ v = C[c] - ran[c] /\ w = C[r] - ran[r]
          BY <5>1, <5>3
        <5>6. x - v <= y - w
          BY <5>2, <5>5
        <5>7. end[c] = n + x /\ end[r] = n + y
          BY <5>1, <5>3, <5>5
        <5> QED
          BY <5>4, <5>5, <5>6, <5>7
      <4> QED
        BY <2>1, <2>3, <3>1, <4>1 DEF IsUrgent
    <3> QED
      BY <3>2, <3>3
  <2> QED
    BY <2>2, <2>3
<1>12. DueInTime(N, T, C, end, Runtime', n + 1)
  <2>1. \A m \in Nat : DueBy(N, T, C, m) <= m
    BY <1>4, DueFits
  <2>2. \A j \in 1 .. N : /\ T[j] \in Nat \ {0} /\ C[j] \in Nat
                          /\ end[j] \in Nat /\ n + 1 <= end[j] /\ ran[j] \in 0 .. C[j]
    BY <1>5
  <2>3. \A j \in 1 .. N : Runtime'[j] = IF j = c THEN ran[j] + 1 ELSE ran[j]
    BY <1>4, <1>5, <1>10
  <2> QED
    BY <1>4, <1>9, <1>11, <2>1, <2>2, <2>3, DemandStep
<1>13. Now' = n + 1 /\ [s \in S |-> EndOf(s)'] = end
  <2>1. Now' = n + 1
    BY <1>1, <1>3, <1>10 DEF ScheduleTypeOK, Now
  <2>2. ASSUME NEW s \in S PROVE EndOf(s)' = end[s]
    BY <1>4, <1>5, <1>10, <2>1 DEF EndOf
  <2> QED
    BY <2>1, <2>2 DEF end
<1> QED
  BY <1>8, <1>12, <1>13

\* With earliest deadline first and with least laxity first every set of services that
\* asks for no more than the processor has is scheduled without a miss.
THEOREM OptimalIfItFits == ScheduleSpec => []OptimalWhenFits
<1>1. EngineInv /\ OptimalInv => OptimalWhenFits
  <2> SUFFICES ASSUME EngineInv, OptimalInv, protocol \in {"EDF", "LLF"}, MissedPeriods # {}
               PROVE  Asked(services, Len(services.period)) > Round(services)
    BY DEF OptimalWhenFits
  <2> DEFINE N == Len(services.period)
  <2>1. IsServiceSet(services) /\ N \in 0 .. N
    BY LenProperties DEF EngineInv, ScheduleTypeOK, IsServiceSet, Times
  <2>2. Round(services) \in Nat /\ Asked(services, N) \in Nat
    BY <2>1, AskedFacts
  <2>3. CASE misses # 0
    <3>1. ~(Asked(services, N) <= Round(services))
      BY <2>3 DEF OptimalInv
    <3> QED
      BY <2>2, <3>1
  <2>4. CASE misses = 0
    <3>1. ScheduleTypeOK /\ CountedInv
      BY DEF EngineInv
    <3>2. PICK x \in MissedPeriods : x \in Unseen
      BY <2>4, <3>1, NoneCounted, MissedPeriodsAre
    <3>3. PICK s \in Services(services), k \in Nat : x[1] = s /\ x[2] = k
      BY ScheduleAssumption DEF MissedPeriods, TICKS
    <3>4. /\ (k + 1) * services.period[s] = Now
          /\ Given(s, k * services.period[s], Now) < services.wcet[s]
      BY <3>2, <3>3 DEF Unseen, MissedPeriods, PeriodEnd
    <3>5. Deadline[s] = 0 /\ Runtime[s] = Given(s, k * services.period[s], Now)
      BY <3>4, PeriodOver
    <3>6. Runtime[s] < services.wcet[s] /\ services.wcet[s] \in Nat
      BY <3>1, <3>4, <3>5, ServiceTypes
    <3>7. ~(Asked(services, N) <= Round(services))
      BY <3>5, <3>6, DueIsDone
    <3> QED
      BY <2>2, <3>7
  <2> QED
    BY <2>3, <2>4
<1>2. ScheduleInit => OptimalInv
  BY EngineInit, OptimalInit DEF EngineInv
<1>3. EngineInv /\ OptimalInv /\ [ScheduleNext]_scheduleVars => OptimalInv'
  <2>1. OptimalInv /\ UNCHANGED scheduleVars => OptimalInv'
    BY DEF scheduleVars, OptimalInv, EndOf, Services, Now
  <2> QED
    BY <2>1, OptimalStep DEF ScheduleNext
<1> QED
  BY <1>1, <1>2, <1>3, EngineInvariance, PTL DEF ScheduleSpec

-----------------------------------------------------------------------------
(* The two tests of src/feasibility.                                        *)

\* Ceil is the least number of periods that cover a time.
LEMMA CeilLeast ==
    ASSUME NEW x \in Nat, NEW T \in Nat \ {0}
    PROVE  Ceil(x, T) \in Nat /\ \A m \in Nat : Ceil(x, T) <= m <=> x <= T * m
<1>1. PICK q \in Nat : q = Ceil(x, T) /\ T * q <= x + T - 1 /\ x + T - 1 < T * q + T
  <2>1. x + T - 1 \in Nat
    OBVIOUS
  <2> QED
    BY <2>1, QuotientFacts DEF Ceil
<1> SUFFICES ASSUME NEW m \in Nat PROVE q <= m <=> x <= T * m
  BY <1>1
<1>2. T * q \in Nat /\ T * m \in Nat
  OBVIOUS
<1>3. CASE q <= m
  <2>1. T * q <= T * m
    BY <1>3, TimesGrows
  <2>2. x <= T * q
    BY <1>1, <1>2
  <2> QED
    BY <1>2, <1>3, <2>1, <2>2
<1>4. CASE m + 1 <= q
  <2>1. T * (m + 1) <= T * q
    BY <1>4, TimesGrows
  <2>2. T * (m + 1) = T * m + T
    OBVIOUS
  <2>3. ~(x <= T * m)
    BY <1>1, <1>2, <2>1, <2>2
  <2> QED
    BY <1>4, <2>3
<1> QED
  BY <1>3, <1>4

\* It grows with the time, and is one in the first period.
LEMMA CeilGrows ==
    ASSUME NEW x \in Nat, NEW y \in Nat, x <= y, NEW T \in Nat \ {0}
    PROVE  Ceil(x, T) <= Ceil(y, T)
<1>1. PICK m \in Nat : m = Ceil(y, T) /\ (m <= m <=> y <= T * m)
  BY CeilLeast
<1>2. T * m \in Nat
  OBVIOUS
<1>3. x <= T * m
  BY <1>1, <1>2
<1>4. Ceil(x, T) <= m <=> x <= T * m
  BY CeilLeast
<1> QED
  BY <1>1, <1>3, <1>4

\* Within its first period a service is released once.
LEMMA CeilOne == ASSUME NEW T \in Nat \ {0}, NEW x \in 1 .. T PROVE Ceil(x, T) = 1
<1>1. Ceil(x, T) \in Nat /\ (Ceil(x, T) <= 1 <=> x <= T * 1) /\ (Ceil(x, T) <= 0 <=> x <= T * 0)
  BY CeilLeast
<1> QED
  BY <1>1

\* The times of a set of services.
LEMMA ServiceSetTypes ==
    ASSUME NEW s, IsServiceSet(s)
    PROVE  /\ Len(s.period) \in Nat /\ Services(s) = 1 .. Len(s.period)
           /\ \A j \in 1 .. Len(s.period) : s.period[j] \in Nat \ {0} /\ s.wcet[j] \in Nat \ {0}
BY LenProperties, ElementOfSeq DEF IsServiceSet, Services, Times

\* The work released grows with time.
LEMMA ReleasedGrows ==
    ASSUME NEW s, IsServiceSet(s), NEW n \in 0 .. Len(s.period),
           NEW x \in Nat, NEW y \in Nat, \A j \in 1 .. n : Ceil(x, s.period[j]) <= Ceil(y, s.period[j])
    PROVE  Released(s, n, x) <= Released(s, n, y) /\ Released(s, n, x) \in Nat
<1> DEFINE W(t) == [j \in 1 .. n |-> Ceil(t, s.period[j]) * s.wcet[j]]
<1>1. n \in Nat
  BY ServiceSetTypes
<1>2. ASSUME NEW j \in 1 .. n PROVE W(x)[j] \in Nat /\ W(y)[j] \in Nat /\ W(x)[j] <= W(y)[j]
  <2>1. PICK T \in Nat \ {0}, C \in Nat : T = s.period[j] /\ C = s.wcet[j]
    <3>1. j \in 1 .. Len(s.period)
      BY <1>1, ServiceSetTypes
    <3> QED
      BY <3>1, ServiceSetTypes
  <2>2. PICK a \in Nat, c \in Nat : a = Ceil(x, T) /\ c = Ceil(y, T) /\ a <= c
    <3>1. Ceil(x, T) \in Nat /\ Ceil(y, T) \in Nat
      BY CeilLeast
    <3> QED
      BY <2>1, <3>1
  <2>3. C * a <= C * c /\ C * a = a * C /\ C * c = c * C /\ a * C \in Nat /\ c * C \in Nat
    BY <2>2, TimesGrows
  <2>4. W(x)[j] = a * C /\ W(y)[j] = c * C
    BY <2>1, <2>2
  <2> QED
    BY <2>3, <2>4
<1>3. SumTo(n, W(x)) <= SumTo(n, W(y)) /\ SumTo(n, W(x)) \in Nat
  <2> HIDE DEF W
  <2> QED
    BY <1>1, <1>2, SumGrows
<1> QED
  BY <1>3 DEF Released

\* One pass of the loop for service i adds its run time to the work of those before it:
\* in the first period of i that is the work released by all of them.
LEMMA AnextFacts ==
    ASSUME NEW s, IsServiceSet(s), NEW i \in Services(s), NEW x \in Nat
    PROVE  /\ Anext(s, i, x) \in Nat
           /\ \A y \in Nat : x <= y => Anext(s, i, x) <= Anext(s, i, y)
           /\ x \in 1 .. s.period[i] => Anext(s, i, x) = Released(s, i, x)
<1>1. /\ i \in Nat \ {0} /\ i - 1 \in Nat /\ i - 1 \in 0 .. Len(s.period) /\ i - 1 + 1 = i
      /\ s.wcet[i] \in Nat /\ s.period[i] \in Nat \ {0}
      /\ \A j \in 1 .. i : s.period[j] \in Nat \ {0} /\ s.wcet[j] \in Nat
  BY ServiceSetTypes
<1>2. ASSUME NEW y \in Nat, x <= y
      PROVE  Released(s, i - 1, x) <= Released(s, i - 1, y) /\ Released(s, i - 1, x) \in Nat
  <2>1. \A j \in 1 .. i - 1 : Ceil(x, s.period[j]) <= Ceil(y, s.period[j])
    BY <1>1, <1>2, CeilGrows
  <2> QED
    BY <1>1, <2>1, ReleasedGrows
<1>3. Released(s, i - 1, x) \in Nat
  BY <1>2
<1>4. ASSUME x \in 1 .. s.period[i] PROVE Anext(s, i, x) = Released(s, i, x)
  <2> DEFINE f == [j \in 1 .. i |-> Ceil(x, s.period[j]) * s.wcet[j]]
             g == [j \in 1 .. i - 1 |-> Ceil(x, s.period[j]) * s.wcet[j]]
  <2>1. \A k \in 1 .. i - 1 : g[k] = f[k]
    BY <1>1
  <2>2. ASSUME NEW k \in 1 .. i PROVE f[k] \in Nat
    <3>1. PICK a \in Nat, c \in Nat : a = Ceil(x, s.period[k]) /\ c = s.wcet[k]
      BY <1>1, CeilLeast
    <3>2. a * c \in Nat
      OBVIOUS
    <3> QED
      BY <3>1, <3>2
  <2>3. f[i] = s.wcet[i]
    <3>1. Ceil(x, s.period[i]) = 1
      BY <1>1, <1>4, CeilOne
    <3>2. f[i] = 1 * s.wcet[i]
      BY <1>1, <3>1
    <3> QED
      BY <1>1, <3>2
  <2>4. Released(s, i, x) = SumTo(i, f) /\ Released(s, i - 1, x) = SumTo(i - 1, g)
    BY DEF Released
  <2> HIDE DEF f, g
  <2>5. SumTo(i - 1 + 1, f) = SumTo(i - 1, g) + f[i - 1 + 1]
    BY <1>1, <2>1, <2>2, SumLast
  <2> QED
    BY <1>1, <1>3, <2>3, <2>4, <2>5 DEF Anext
<1>5. Anext(s, i, x) \in Nat
  BY <1>1, <1>3 DEF Anext
<1>6. ASSUME NEW y \in Nat, x <= y PROVE Anext(s, i, x) <= Anext(s, i, y)
  <2>1. PICK c \in Nat, p \in Nat : c = s.wcet[i] /\ p = Released(s, i - 1, x)
    BY <1>1, <1>3
  <2>2. PICK q \in Nat : q = Released(s, i - 1, y)
    <3>1. \A j \in 1 .. i - 1 : Ceil(y, s.period[j]) <= Ceil(y, s.period[j])
      BY <1>1, CeilGrows
    <3> QED
      BY <1>1, <3>1, ReleasedGrows
  <2>3. p <= q
    BY <1>2, <1>6, <2>1, <2>2
  <2> QED
    BY <2>1, <2>2, <2>3 DEF Anext
<1> QED
  BY <1>4, <1>5, <1>6

\* Every set of numbers has a least one.
LEMMA LeastNumber ==
    ASSUME NEW S, S \subseteq Nat, S # {} PROVE \E n \in S : \A r \in S : n <= r
<1>1. PICK m \in S : TRUE
  OBVIOUS
<1> DEFINE U == {n \in 0 .. m : n \in S}
           rank == [n \in U |-> n]
<1>2. IsFiniteSet(U) /\ U # {} /\ rank \in [U -> Int]
  <2>1. U \in SUBSET (0 .. m) /\ m \in U /\ U \subseteq Int
    OBVIOUS
  <2>2. IsFiniteSet(0 .. m)
    BY FS_Interval
  <2>3. rank \in [U -> Int]
    BY <2>1
  <2> HIDE DEF U, rank
  <2> QED
    BY <2>1, <2>2, <2>3, FS_Subset
<1>3. PICK n \in U : \A r \in U : rank[n] <= rank[r]
  <2> HIDE DEF U, rank
  <2> QED
    BY <1>2, LeastExists
<1>4. ASSUME NEW r \in S PROVE n <= r
  <2>1. CASE r <= m
    <3>1. r \in U
      BY <2>1
    <3> QED
      BY <1>3, <3>1
  <2>2. CASE m < r
    BY <2>2
  <2> QED
    BY <2>1, <2>2
<1> QED
  BY <1>4

\* Every bounded set of numbers has a greatest one.
LEMMA GreatestNumber ==
    ASSUME NEW m \in Nat, NEW S, S \subseteq 0 .. m, S # {} PROVE \E n \in S : \A r \in S : r <= n
<1> DEFINE U == {m - n : n \in S}
<1>1. U \subseteq Nat /\ U # {}
  <2>1. PICK n \in S : TRUE
    OBVIOUS
  <2>2. m - n \in U
    OBVIOUS
  <2>3. \A z \in S : m - z \in Nat
    OBVIOUS
  <2> QED
    BY <2>2, <2>3
<1>2. PICK u \in U : \A r \in U : u <= r
  <2> HIDE DEF U
  <2> QED
    BY <1>1, LeastNumber
<1>3. PICK n \in S : u = m - n
  OBVIOUS
<1>4. ASSUME NEW r \in S PROVE r <= n
  <2>1. m - n <= m - r
    BY <1>2, <1>3
  <2> QED
    BY <2>1
<1> QED
  BY <1>4

\* A function that repeats a growing one until its argument repeats.
Repeats(A, f) == f = [x \in Nat |-> IF A[x] = x THEN x ELSE f[A[x]]]

\* The first number from x on that A does not exceed, and the last up to x that does not
\* exceed what A makes of it.
IsNext(A, x, y) ==
    /\ y \in Nat /\ x <= y /\ A[y] <= y
    /\ \A z \in Nat : x <= z /\ A[z] <= z => y <= z
IsLast(A, x, y) ==
    /\ y \in Nat /\ y <= x /\ y <= A[y]
    /\ \A z \in Nat : z <= x /\ z <= A[z] => z <= y

\* A function on numbers that grows with its argument.
Grows(A) == A \in [Nat -> Nat] /\ \A x, y \in Nat : x <= y => A[x] <= A[y]

\* Both exist if A does not exceed some number from x on.
LEMMA NextAndLast ==
    ASSUME NEW A, Grows(A), NEW x \in Nat, NEW m \in Nat, x <= m, A[m] <= m
    PROVE  (\E y \in Nat : IsNext(A, x, y)) /\ (\E y \in Nat : IsLast(A, x, y))
<1> DEFINE S == {z \in Nat : x <= z /\ A[z] <= z}
           R == {z \in 0 .. x : z <= A[z]}
<1>1. \E y \in Nat : IsNext(A, x, y)
  <2>1. S \subseteq Nat /\ S # {}
    OBVIOUS
  <2>2. PICK y \in S : \A z \in S : y <= z
    <3> HIDE DEF S
    <3> QED
      BY <2>1, LeastNumber
  <2> QED
    BY <2>2 DEF IsNext
<1>2. \E y \in Nat : IsLast(A, x, y)
  <2>1. R \subseteq 0 .. x /\ 0 \in R
    BY DEF Grows
  <2>2. PICK y \in R : \A z \in R : z <= y
    <3> HIDE DEF R
    <3> QED
      BY <2>1, GreatestNumber
  <2> QED
    BY <2>2 DEF IsLast
<1> QED
  BY <1>1, <1>2

\* Such a function exists when A does not exceed some number beyond every number: it leads
\* up to the next of them, or down to the last that does not exceed what A makes of it.
LEMMA RepeatsExists ==
    ASSUME NEW A, Grows(A), \A x \in Nat : \E m \in Nat : x <= m /\ A[m] <= m
    PROVE  \E f : Repeats(A, f)
<1> DEFINE Up(x)   == CHOOSE y : IsNext(A, x, y)
           Down(x) == CHOOSE y : IsLast(A, x, y)
           g == [x \in Nat |-> IF x <= A[x] THEN Up(x) ELSE Down(x)]
<1>1. ASSUME NEW x \in Nat PROVE IsNext(A, x, Up(x)) /\ IsLast(A, x, Down(x))
  <2>1. (\E y : IsNext(A, x, y)) /\ (\E y : IsLast(A, x, y))
    BY NextAndLast
  <2> QED
    BY <2>1
<1>2. ASSUME NEW x \in Nat, NEW y, NEW z, IsNext(A, x, y), IsNext(A, x, z) PROVE y = z
  BY <1>2 DEF IsNext
<1>3. ASSUME NEW x \in Nat, NEW y, NEW z, IsLast(A, x, y), IsLast(A, x, z) PROVE y = z
  BY <1>3 DEF IsLast
<1> HIDE DEF Up, Down
<1>4. ASSUME NEW x \in Nat PROVE g[x] = IF A[x] = x THEN x ELSE g[A[x]]
  <2>1. PICK w \in Nat : w = A[x]
    BY DEF Grows
  <2>2. CASE w = x
    <3>1. IsNext(A, x, x)
      BY <2>1, <2>2 DEF IsNext
    <3>2. Up(x) = x
      BY <1>1, <1>2, <3>1
    <3>3. g[x] = Up(x)
      <4>1. x <= A[x]
        BY <2>1, <2>2
      <4> QED
        BY <4>1
    <3> HIDE DEF g
    <3> QED
      BY <2>1, <2>2, <3>2, <3>3
  <2>3. CASE x < w
    <3>1. w <= A[w]
      BY <2>1, <2>3 DEF Grows
    <3>2. PICK u \in Nat : u = Up(x) /\ IsNext(A, x, u)
      BY <1>1 DEF IsNext
    <3>3. w <= u
      BY <2>1, <3>2 DEF IsNext, Grows
    <3>4. IsNext(A, w, u)
      BY <2>3, <3>2, <3>3 DEF IsNext
    <3>5. Up(w) = Up(x)
      BY <1>1, <1>2, <3>2, <3>4
    <3> QED
      BY <2>1, <2>3, <3>1, <3>5
  <2>4. CASE w < x
    <3>1. A[w] <= w
      BY <2>1, <2>4 DEF Grows
    <3>2. PICK d \in Nat : d = Down(x) /\ IsLast(A, x, d)
      BY <1>1 DEF IsLast
    <3>3. d <= w
      BY <2>1, <3>2 DEF IsLast, Grows
    <3>4. IsLast(A, w, d)
      BY <2>4, <3>2, <3>3 DEF IsLast
    <3>5. Down(w) = Down(x)
      BY <1>1, <1>3, <3>2, <3>4
    <3>6. w <= A[w] => Up(w) = Down(x)
      <4> SUFFICES ASSUME w <= A[w] PROVE Up(w) = Down(x)
        OBVIOUS
      <4>1. IsNext(A, w, w)
        BY <3>1 DEF IsNext
      <4>2. IsLast(A, w, w)
        BY DEF IsLast
      <4> QED
        BY <1>1, <1>2, <1>3, <3>5, <4>1, <4>2
    <3>7. g[x] = Down(x) /\ g[w] = IF w <= A[w] THEN Up(w) ELSE Down(w)
      BY <2>1, <2>4
    <3> QED
      BY <2>1, <2>4, <3>5, <3>6, <3>7
  <2> QED
    BY <2>2, <2>3, <2>4
<1>5. Repeats(A, g)
  <2>1. g = [x \in Nat |-> g[x]]
    OBVIOUS
  <2> HIDE DEF g
  <2> QED
    BY <1>4, <2>1 DEF Repeats
<1> QED
  BY <1>5

\* From a number that A does not lower it leads to the next one that A does not exceed.
LEMMA RepeatsToNext ==
    ASSUME NEW A, Grows(A), NEW f, Repeats(A, f),
           NEW x \in Nat, x <= A[x], NEW m \in Nat, x <= m, A[m] <= m
    PROVE  IsNext(A, x, f[x])
<1>1. PICK a \in Nat : IsNext(A, x, a)
  BY NextAndLast
<1>2. A[a] = a
  <2>1. A[a] \in Nat /\ A[a] <= a /\ x <= A[a] /\ A[A[a]] <= A[a]
    <3>1. A[a] \in Nat /\ A[a] <= a /\ x <= a
      BY <1>1 DEF IsNext, Grows
    <3>2. A[x] <= A[a] /\ A[x] \in Nat
      BY <3>1 DEF Grows
    <3>3. A[A[a]] <= A[a]
      BY <3>1 DEF Grows
    <3> QED
      BY <3>1, <3>2, <3>3
  <2> QED
    BY <1>1, <2>1 DEF IsNext
<1>3. \A y \in Nat : f[y] = IF A[y] = y THEN y ELSE f[A[y]]
  BY DEF Repeats
<1> DEFINE B == {y \in 0 .. a : x <= y /\ f[y] # a}
<1>4. B = {}
  <2> SUFFICES ASSUME B # {} PROVE FALSE
    OBVIOUS
  <2>1. B \subseteq 0 .. a
    OBVIOUS
  <2>2. PICK y \in B : \A z \in B : z <= y
    <3> HIDE DEF B
    <3> QED
      BY <2>1, GreatestNumber
  <2>3. y \in Nat /\ x <= y /\ y <= a /\ f[y] # a
    OBVIOUS
  <2>4. y # a
    BY <1>2, <1>3, <2>3
  <2>5. A[y] \in Nat /\ y < A[y]
    BY <1>1, <2>3, <2>4 DEF IsNext, Grows
  <2>6. A[y] <= a
    BY <1>2, <2>3 DEF Grows
  <2>7. A[y] \notin B
    BY <2>2, <2>3, <2>5
  <2>8. f[A[y]] = a
    BY <2>3, <2>5, <2>6, <2>7
  <2> QED
    BY <1>3, <2>3, <2>5, <2>8
<1>5. x \in 0 .. a
  BY <1>1 DEF IsNext
<1>6. f[x] = a
  BY <1>4, <1>5
<1> QED
  BY <1>1, <1>6

\* From one tick on, a pass of the loop gives at least one run of each service.
LEMMA AnextStart ==
    ASSUME NEW s, IsServiceSet(s), NEW i \in Services(s), NEW x \in Nat \ {0}
    PROVE  /\ SumTo(i, s.wcet) <= Anext(s, i, x)
           /\ SumTo(i, s.wcet) \in Nat \ {0} /\ s.wcet[i] <= SumTo(i, s.wcet)
<1> DEFINE C == s.wcet
           W == [j \in 1 .. i - 1 |-> Ceil(x, s.period[j]) * C[j]]
<1>1. /\ i \in Nat /\ i - 1 \in Nat /\ i - 1 + 1 = i /\ i \in 1 .. i
      /\ \A j \in 1 .. i : s.period[j] \in Nat \ {0} /\ C[j] \in Nat \ {0}
  BY ServiceSetTypes
<1>2. SumTo(i, C) = SumTo(i - 1, C) + C[i] /\ SumTo(i - 1, C) \in Nat
  <2>1. \A k \in 1 .. i - 1 + 1 : C[k] \in Nat
    BY <1>1
  <2>2. SumTo(i - 1 + 1, C) = SumTo(i - 1, C) + C[i - 1 + 1] /\ SumTo(i - 1, C) \in Nat
    BY <1>1, <2>1, SumLast
  <2> QED
    BY <1>1, <2>2
<1>3. ASSUME NEW j \in 1 .. i - 1 PROVE C[j] \in Nat /\ W[j] \in Nat /\ C[j] <= W[j]
  <2>1. PICK T \in Nat \ {0}, c \in Nat \ {0} : T = s.period[j] /\ c = C[j]
    BY <1>1
  <2>2. PICK k \in Nat : k = Ceil(x, T) /\ (k <= 0 <=> x <= T * 0)
    BY CeilLeast
  <2>3. k # 0
    BY <2>2
  <2>4. 1 <= k => c * 1 <= c * k
    BY TimesGrows
  <2>5. c <= k * c /\ k * c \in Nat
    BY <2>3, <2>4
  <2> QED
    BY <2>1, <2>2, <2>5
<1>4. SumTo(i - 1, C) <= SumTo(i - 1, W) /\ SumTo(i - 1, W) \in Nat
  <2> HIDE DEF W, C
  <2> QED
    BY <1>1, <1>3, SumGrows
<1>5. Anext(s, i, x) = C[i] + SumTo(i - 1, W)
  BY DEF Anext, Released
<1>6. C[i] \in Nat \ {0}
  BY <1>1
<1> HIDE DEF C, W
<1>7. SumTo(i, C) <= Anext(s, i, x) /\ SumTo(i, C) \in Nat \ {0} /\ C[i] <= SumTo(i, C)
  BY <1>2, <1>4, <1>5, <1>6
<1> QED
  BY <1>7 DEF C

\* When those before it leave a service time, its loop does not grow for ever: after enough
\* rounds a pass gives no more than it was given.
LEMMA LoopBound ==
    ASSUME NEW s, IsServiceSet(s), NEW i \in Services(s), Asked(s, i - 1) < Round(s),
           NEW x \in Nat
    PROVE  \E m \in Nat : x <= m /\ Anext(s, i, m) <= m
<1> DEFINE M == x + s.wcet[i]
           m == M * Round(s)
           W == [j \in 1 .. i - 1 |-> Ceil(m, s.period[j]) * s.wcet[j]]
           g == [j \in 1 .. i - 1 |-> (Round(s) \div s.period[j]) * s.wcet[j]]
<1>1. /\ i - 1 \in Nat /\ i - 1 \in 0 .. Len(s.period) /\ s.wcet[i] \in Nat
      /\ 1 .. i - 1 \subseteq Services(s)
      /\ \A j \in 1 .. i - 1 : s.period[j] \in Nat \ {0} /\ s.wcet[j] \in Nat
  BY ServiceSetTypes
<1>2. PICK R \in Nat \ {0}, q \in Nat : R = Round(s) /\ q = Asked(s, i - 1) /\ q < R
  BY <1>1, AskedFacts
<1>3. PICK M1 \in Nat, m1 \in Nat : M1 = M /\ m1 = m /\ m1 = M1 * R
  <2>1. M \in Nat
    BY <1>1
  <2>2. M * R \in Nat
    BY <2>1
  <2> QED
    BY <1>2, <2>1, <2>2
<1> HIDE DEF M, m
<1>4. ASSUME NEW j \in 1 .. i - 1
      PROVE  W[j] \in Nat /\ g[j] \in Nat /\ 1 * W[j] <= M1 * g[j]
  <2>1. PICK T \in Nat \ {0}, c \in Nat : T = s.period[j] /\ c = s.wcet[j]
    BY <1>1
  <2>2. PICK d \in Nat : d = R \div T /\ d * T = R
    <3>1. j \in Services(s)
      BY <1>1
    <3> QED
      BY <1>2, <2>1, <3>1, RoundFacts
  <2>3. PICK k \in Nat : k = Ceil(m1, T) /\ \A n \in Nat : k <= n <=> m1 <= T * n
    BY CeilLeast
  <2>4. M1 * d \in Nat /\ T * (M1 * d) = M1 * (d * T)
    OBVIOUS
  <2>5. m1 <= T * (M1 * d)
    BY <1>3, <2>2, <2>4
  <2>6. k <= M1 * d
    BY <2>3, <2>4, <2>5
  <2>7. c * k <= c * (M1 * d)
    BY <2>4, <2>6, TimesGrows
  <2>8. c * k = k * c /\ c * (M1 * d) = M1 * (d * c) /\ k * c \in Nat /\ d * c \in Nat
    OBVIOUS
  <2>9. W[j] = k * c /\ g[j] = d * c
    BY <1>2, <1>3, <2>1, <2>2, <2>3
  <2> QED
    BY <2>7, <2>8, <2>9
<1>5. SumTo(i - 1, W) <= M1 * q /\ SumTo(i - 1, W) \in Nat
  <2>1. 1 * SumTo(i - 1, W) <= M1 * SumTo(i - 1, g) /\ SumTo(i - 1, W) \in Nat
    <3> HIDE DEF W, g
    <3> QED
      BY <1>1, <1>4, SumScaled
  <2>2. SumTo(i - 1, g) = q
    BY <1>2 DEF Asked
  <2> QED
    BY <2>1, <2>2
<1>6. Anext(s, i, m1) = s.wcet[i] + SumTo(i - 1, W)
  BY <1>3 DEF Anext, Released
<1>7. M1 * q <= M1 * (R - 1) /\ M1 * q \in Nat /\ M1 * (R - 1) = M1 * R - M1
  <2>1. R - 1 \in Nat /\ q <= R - 1
    BY <1>2
  <2>2. M1 * q <= M1 * (R - 1)
    BY <2>1, TimesGrows
  <2> QED
    BY <2>2
<1>8. M1 = x + s.wcet[i]
  BY <1>3 DEF M
<1>9. Anext(s, i, m1) <= m1
  <2> HIDE DEF W
  <2>1. PICK c \in Nat, w \in Nat, v \in Nat : /\ c = s.wcet[i] /\ w = SumTo(i - 1, W) /\ v = M1 * q
                                               /\ w <= v /\ v <= m1 - M1
    BY <1>1, <1>3, <1>5, <1>7
  <2>2. Anext(s, i, m1) = c + w /\ M1 = x + c
    BY <1>6, <1>8, <2>1
  <2> QED
    BY <2>1, <2>2
<1>10. x <= m1
  <2>1. M1 * 1 <= M1 * R
    BY TimesGrows
  <2> QED
    BY <1>1, <1>3, <1>8, <2>1
<1> QED
  BY <1>9, <1>10

\* The service is done within its first period: at some time in it, all the work that was
\* released till then, of it and of those before it, is done.
InTime(s, i) == \E x \in 1 .. s.period[i] : Released(s, i, x) <= x

\* The completion time test is right.
LEMMA CompletionTimeRight ==
    ASSUME NEW s, IsServiceSet(s), Ends(s), NEW i \in Services(s)
    PROVE  CompletionTime(s, i) <= s.period[i] <=> InTime(s, i)
<1> DEFINE A == [x \in Nat |-> Anext(s, i, x)]
           start == SumTo(i, s.wcet)
           loop == CHOOSE f : Repeats(A, f)
<1>1. s.period[i] \in Nat \ {0} /\ start \in Nat \ {0}
  BY ServiceSetTypes, AnextStart
<1>2. Grows(A) /\ \A x \in Nat : A[x] = Anext(s, i, x) /\ Anext(s, i, x) \in Nat
  BY AnextFacts DEF Grows
<1>3. \A x \in Nat : \E m \in Nat : x <= m /\ A[m] <= m
  BY <1>2, LoopBound DEF Ends
<1>4. CompletionTime(s, i) = loop[start]
  <2>1. ASSUME NEW f
        PROVE  f = [an \in Nat |-> LET anext == Anext(s, i, an)
                                   IN  IF anext = an THEN an ELSE f[anext]]
                 <=> Repeats(A, f)
    BY DEF Repeats
  <2> QED
    BY <2>1 DEF CompletionTime, Repeats
<1> HIDE DEF A
<1>5. Repeats(A, loop)
  BY <1>2, <1>3, RepeatsExists
<1> HIDE DEF loop
<1>6. IsNext(A, start, loop[start])
  <2>1. start <= A[start]
    BY <1>1, <1>2, AnextStart
  <2>2. PICK m \in Nat : start <= m /\ A[m] <= m
    BY <1>1, <1>3
  <2> HIDE DEF start
  <2> QED
    BY <1>1, <1>2, <1>5, <2>1, <2>2, RepeatsToNext
<1>7. PICK a \in Nat : a = loop[start] /\ start <= a /\ Anext(s, i, a) <= a
  BY <1>2, <1>6 DEF IsNext
<1>8. ASSUME a <= s.period[i] PROVE InTime(s, i)
  <2>1. a \in 1 .. s.period[i]
    BY <1>1, <1>7, <1>8
  <2>2. Released(s, i, a) <= a
    BY <1>7, <2>1, AnextFacts
  <2> QED
    BY <2>1, <2>2 DEF InTime
<1>9. ASSUME InTime(s, i) PROVE a <= s.period[i]
  <2>1. PICK x \in 1 .. s.period[i] : Released(s, i, x) <= x
    BY <1>9 DEF InTime
  <2>2. x \in Nat \ {0} /\ x <= s.period[i]
    BY <1>1, <2>1
  <2>3. Anext(s, i, x) <= x /\ start <= Anext(s, i, x) /\ Anext(s, i, x) \in Nat
    BY <2>1, <2>2, AnextFacts, AnextStart
  <2>4. a <= x
    BY <1>1, <1>2, <1>6, <1>7, <2>2, <2>3 DEF IsNext
  <2> QED
    BY <1>1, <2>2, <2>4
<1> QED
  BY <1>4, <1>7, <1>8, <1>9

\* The scheduling point test is right: the work released stays the same till the next end of
\* a period.
LEMMA SchedulingPointRight ==
    ASSUME NEW s, IsServiceSet(s), NEW i \in Services(s)
    PROVE  (\E S \in 1 .. i : \E num_periods \in 1 .. s.period[i] \div s.period[S] :
              IT_FITS(s, i, num_periods * s.period[S]))
             <=> InTime(s, i)
<1> DEFINE T == s.period
<1>1. /\ i \in Nat /\ i \in 1 .. i /\ i \in 0 .. Len(s.period)
      /\ \A j \in 1 .. i : T[j] \in Nat \ {0} /\ j \in Services(s)
  BY ServiceSetTypes
<1>2. ASSUME NEW S \in 1 .. i, NEW m \in 1 .. T[i] \div T[S]
      PROVE  m * T[S] \in 1 .. T[i]
  <2>1. PICK P \in Nat \ {0}, t \in Nat \ {0} : P = T[i] /\ t = T[S]
    BY <1>1
  <2>2. PICK d \in Nat : d = P \div t /\ t * d <= P
    BY QuotientFacts
  <2>3. m \in Nat /\ 1 <= m /\ m <= d
    BY <2>1, <2>2
  <2>4. t * m <= t * d /\ t * 1 <= t * m
    BY <2>3, TimesGrows
  <2>5. t * m = m * t /\ m * t \in Nat /\ t * d \in Nat
    BY <2>3
  <2> QED
    BY <2>1, <2>2, <2>4, <2>5
<1>3. ASSUME NEW S \in 1 .. i, NEW m \in 1 .. T[i] \div T[S], IT_FITS(s, i, m * T[S])
      PROVE  InTime(s, i)
  BY <1>2, <1>3 DEF InTime, IT_FITS
<1>4. ASSUME InTime(s, i)
      PROVE  \E S \in 1 .. i : \E m \in 1 .. T[i] \div T[S] : IT_FITS(s, i, m * T[S])
  <2>1. PICK x \in 1 .. T[i] : Released(s, i, x) <= x
    BY <1>4 DEF InTime
  <2>2. x \in Nat \ {0} /\ T[i] \in Nat \ {0}
    BY <1>1, <2>1
  <2> DEFINE Points == {p \in Nat : x <= p /\ \E S \in 1 .. i : \E m \in 1 .. T[i] \div T[S] : p = m * T[S]}
  <2>3. T[i] \in Points
    <3>1. T[i] \div T[i] = 1 /\ 1 * T[i] = T[i]
      BY <2>2
    <3>2. 1 \in 1 .. T[i] \div T[i]
      BY <3>1
    <3> QED
      BY <1>1, <2>1, <2>2, <3>1, <3>2
  <2>4. PICK p \in Points : \A r \in Points : p <= r
    <3>1. Points \subseteq Nat /\ Points # {}
      BY <2>3
    <3> HIDE DEF Points
    <3> QED
      BY <3>1, LeastNumber
  <2>5. PICK S \in 1 .. i : \E m \in 1 .. T[i] \div T[S] : p = m * T[S]
    OBVIOUS
  <2>6a. PICK m \in 1 .. T[i] \div T[S] : p = m * T[S]
    BY <2>5
  <2>6. p \in Nat /\ x <= p
    OBVIOUS
  <2>7. ASSUME NEW j \in 1 .. i PROVE Ceil(p, T[j]) <= Ceil(x, T[j])
    <3>1. PICK t \in Nat \ {0} : t = T[j]
      BY <1>1
    <3>2. PICK k \in Nat : k = Ceil(x, t) /\ \A n \in Nat : k <= n <=> x <= t * n
      BY <2>2, CeilLeast
    <3>3. x <= t * k /\ t * k = k * t /\ t * k \in Nat /\ k # 0
      <4>1. x <= t * k
        BY <3>2
      <4>2. t * k = k * t /\ t * k \in Nat
        OBVIOUS
      <4>3. k = 0 => t * k = 0
        OBVIOUS
      <4> QED
        BY <2>2, <4>1, <4>2, <4>3
    <3>4. p <= t * k
      <4>1. CASE t * k <= T[i]
        <5>1. k <= T[i] \div t
          <6>1. PICK d \in Nat : d = T[i] \div t /\ T[i] < t * d + t
            BY <2>2, QuotientFacts
          <6>2. d + 1 <= k => t * (d + 1) <= t * k
            BY TimesGrows
          <6>3. t * (d + 1) = t * d + t /\ t * d \in Nat
            OBVIOUS
          <6> QED
            BY <2>2, <3>3, <4>1, <6>1, <6>2, <6>3
        <5>2. k \in 1 .. T[i] \div T[j]
          <6>1. PICK d \in Nat : d = T[i] \div t
            BY <2>2, QuotientFacts
          <6> QED
            BY <3>1, <3>3, <5>1, <6>1
        <5>3. t * k \in Points
          BY <3>1, <3>3, <5>2
        <5> QED
          BY <2>4, <5>3
      <4>2. CASE T[i] < t * k
        <5>1. p <= T[i]
          BY <2>3, <2>4
        <5> QED
          BY <2>2, <2>6, <3>3, <4>2, <5>1
      <4> QED
        BY <2>2, <3>3, <4>1, <4>2
    <3>5. Ceil(p, t) <= k
      BY <2>6, <3>4, CeilLeast
    <3> QED
      BY <3>1, <3>2, <3>5
  <2>8. Released(s, i, p) <= Released(s, i, x) /\ Released(s, i, p) \in Nat
    BY <1>1, <2>2, <2>6, <2>7, ReleasedGrows
  <2>9. Released(s, i, x) \in Nat
    <3>1. ASSUME NEW j \in 1 .. i PROVE Ceil(x, T[j]) <= Ceil(x, T[j])
      <4>1. x \in Nat /\ x <= x /\ T[j] \in Nat \ {0}
        BY <1>1, <2>2
      <4> QED
        BY <4>1, CeilGrows
    <3> QED
      BY <1>1, <2>2, <3>1, ReleasedGrows
  <2>10. IT_FITS(s, i, m * T[S])
    BY <2>1, <2>2, <2>6a, <2>6, <2>8, <2>9 DEF IT_FITS
  <2> QED
    BY <2>10
<1> QED
  BY <1>3, <1>4

\* For every set of services whose tests end, the completion time test and the
\* scheduling point test of src/feasibility give one answer, which is that the first
\* period of every service suffices for it and those before it.
THEOREM BothTestsAgree ==
    ASSUME NEW s, IsServiceSet(s), Ends(s)
    PROVE  /\ completion_time_feasibility_updated(s) = scheduling_point_feasibility(s)
           /\ scheduling_point_feasibility(s) <=> \A i \in Services(s) : InTime(s, i)
<1>1. completion_time_feasibility(s, s.period) <=> \A i \in Services(s) : InTime(s, i)
  BY CompletionTimeRight DEF completion_time_feasibility
<1>2. completion_time_feasibility_updated(s) = completion_time_feasibility(s, s.period)
  BY DEF completion_time_feasibility_updated, completion_time_feasibility
<1>3. scheduling_point_feasibility(s) <=> \A i \in Services(s) : InTime(s, i)
  BY SchedulingPointRight DEF scheduling_point_feasibility
<1>4. /\ completion_time_feasibility(s, s.period) \in BOOLEAN
      /\ scheduling_point_feasibility(s) \in BOOLEAN
  BY DEF completion_time_feasibility, scheduling_point_feasibility
<1> QED
  BY <1>1, <1>2, <1>3, <1>4

-----------------------------------------------------------------------------
(* The engine under rate monotonic.                                         *)

\* A schedule: tick u of H goes to ev[u], and w[j][u] is what service j was given before
\* tick u.  A service is given no more than it needs in a period, and while it needs
\* something the tick goes to it or to one before it.
IsRun(s, H, ev, w) ==
    \A j \in Services(s) :
      LET T == s.period[j]
      IN  /\ w[j] \in [0 .. H -> Nat] /\ w[j][0] = 0
          /\ \A u \in 0 .. H - 1 :
               /\ w[j][u + 1] = w[j][u] + (IF ev[u] = j THEN 1 ELSE 0)
               /\ ev[u] = j => w[j][u] - w[j][T * (u \div T)] < s.wcet[j]
               /\ w[j][u] - w[j][T * (u \div T)] < s.wcet[j] => ev[u] \in 1 .. j

\* What a service was given grows.
LEMMA RunGrows ==
    ASSUME NEW s, NEW H \in Nat, NEW ev, NEW w, IsRun(s, H, ev, w), NEW j \in Services(s),
           NEW u \in 0 .. H, NEW v \in u .. H
    PROVE  w[j][u] <= w[j][v] /\ w[j][u] \in Nat /\ w[j][v] \in Nat
<1>1. /\ w[j] \in [0 .. H -> Nat]
      /\ \A x \in 0 .. H - 1 : w[j][x + 1] = w[j][x] + (IF ev[x] = j THEN 1 ELSE 0)
  BY DEF IsRun
<1> DEFINE X == {d \in Nat : u + d <= H => w[j][u] <= w[j][u + d]}
<1>2. 0 \in X
  BY <1>1
<1>3. ASSUME NEW d \in Nat, d \in X PROVE d + 1 \in X
  <2> SUFFICES ASSUME u + (d + 1) <= H PROVE w[j][u] <= w[j][u + (d + 1)]
    OBVIOUS
  <2>1. PICK x \in 0 .. H - 1 : x = u + d /\ u + (d + 1) = x + 1 /\ x \in 0 .. H /\ x + 1 \in 0 .. H
    OBVIOUS
  <2>2. w[j][x + 1] = w[j][x] + (IF ev[x] = j THEN 1 ELSE 0)
    BY <1>1
  <2>3. w[j][u] \in Nat /\ w[j][x] \in Nat /\ w[j][x + 1] \in Nat
    BY <1>1, <2>1
  <2>4. w[j][u] <= w[j][x]
    BY <1>3, <2>1
  <2> QED
    BY <2>1, <2>2, <2>3, <2>4
<1>4. v - u \in X
  <2>1. v - u \in Nat
    OBVIOUS
  <2> HIDE DEF X
  <2> QED
    BY <1>2, <1>3, <2>1, InAllNumbers
<1>5. u + (v - u) = v /\ v <= H /\ v \in 0 .. H
  OBVIOUS
<1> QED
  BY <1>1, <1>4, <1>5

\* In a period a service is given no more than its run time.
LEMMA RunCap ==
    ASSUME NEW s, IsServiceSet(s), NEW H \in Nat, NEW ev, NEW w, IsRun(s, H, ev, w),
           NEW j \in Services(s), NEW k \in Nat, NEW d \in 0 .. s.period[j],
           s.period[j] * k + d <= H
    PROVE  w[j][s.period[j] * k + d] <= w[j][s.period[j] * k] + s.wcet[j]
<1>1. PICK T \in Nat \ {0}, C \in Nat : T = s.period[j] /\ C = s.wcet[j]
  BY ServiceSetTypes
<1>2. PICK a \in Nat : a = T * k
  OBVIOUS
<1>3. /\ w[j] \in [0 .. H -> Nat]
      /\ \A u \in 0 .. H - 1 :
           /\ w[j][u + 1] = w[j][u] + (IF ev[u] = j THEN 1 ELSE 0)
           /\ ev[u] = j => w[j][u] - w[j][T * (u \div T)] < C
  BY <1>1 DEF IsRun
<1> DEFINE X == {e \in Nat : e <= T /\ a + e <= H => w[j][a + e] <= w[j][a] + C}
<1>4. 0 \in X
  <2>1. a + 0 = a /\ (a <= H => a \in 0 .. H)
    OBVIOUS
  <2>2. a <= H => w[j][a] \in Nat
    BY <1>3, <2>1
  <2> QED
    BY <2>1, <2>2
<1>5. ASSUME NEW e \in Nat, e \in X PROVE e + 1 \in X
  <2> SUFFICES ASSUME e + 1 <= T, a + (e + 1) <= H PROVE w[j][a + (e + 1)] <= w[j][a] + C
    OBVIOUS
  <2>1. PICK u \in 0 .. H - 1 : u = a + e /\ a + (e + 1) = u + 1 /\ a \in 0 .. H /\ u \in 0 .. H
    OBVIOUS
  <2>2. w[j][u + 1] = w[j][u] + (IF ev[u] = j THEN 1 ELSE 0)
    BY <1>3
  <2>3. w[j][a] \in Nat /\ w[j][u] \in Nat /\ w[j][u] <= w[j][a] + C
    <3>1. w[j][a] \in Nat /\ w[j][u] \in Nat
      BY <1>3, <2>1
    <3>2. e <= T /\ a + e <= H
      BY <2>1
    <3>3. w[j][a + e] <= w[j][a] + C
      BY <1>5, <3>2
    <3> QED
      BY <2>1, <3>1, <3>3
  <2>4. ev[u] = j => w[j][u] - w[j][a] < C
    <3>1. e \in 0 .. T - 1 /\ (k * T + e) \div T = k
      <4>1. e \in 0 .. T - 1
        OBVIOUS
      <4> QED
        BY <4>1, Quotient, Zenon
    <3>2. k * T = T * k
      OBVIOUS
    <3>3. u = k * T + e
      BY <1>2, <2>1, <3>2
    <3>4. T * (u \div T) = a
      BY <1>2, <3>1, <3>3
    <3> QED
      BY <1>3, <3>4
  <2> QED
    BY <2>1, <2>2, <2>3, <2>4
<1>6. d \in X
  <2>1. d \in Nat
    BY <1>1
  <2> HIDE DEF X
  <2> QED
    BY <1>4, <1>5, <2>1, InAllNumbers
<1> QED
  BY <1>1, <1>2, <1>6

\* In several periods no more than as many run times.
LEMMA RunJobs ==
    ASSUME NEW s, IsServiceSet(s), NEW H \in Nat, NEW ev, NEW w, IsRun(s, H, ev, w),
           NEW j \in Services(s), NEW k \in Nat, NEW e \in Nat, s.period[j] * (k + e) <= H
    PROVE  w[j][s.period[j] * (k + e)] <= w[j][s.period[j] * k] + s.wcet[j] * e
<1>1. PICK T \in Nat \ {0}, C \in Nat : T = s.period[j] /\ C = s.wcet[j]
  BY ServiceSetTypes
<1>2. w[j] \in [0 .. H -> Nat]
  BY DEF IsRun
<1> DEFINE X == {m \in Nat : T * (k + m) <= H => w[j][T * (k + m)] <= w[j][T * k] + C * m}
<1>3. 0 \in X
  <2>1. k + 0 = k /\ C * 0 = 0 /\ T * k \in Nat
    OBVIOUS
  <2> QED
    BY <1>2, <2>1
<1>4. ASSUME NEW m \in Nat, m \in X PROVE m + 1 \in X
  <2> SUFFICES ASSUME T * (k + (m + 1)) <= H
               PROVE  w[j][T * (k + (m + 1))] <= w[j][T * k] + C * (m + 1)
    OBVIOUS
  <2>1. PICK a \in Nat, c \in Nat, z \in Nat : a = T * (k + m) /\ c = T * k /\ z = C * m
    OBVIOUS
  <2>2. T * (k + (m + 1)) = T * (k + m) + T /\ C * (m + 1) = C * m + C /\ k + m \in Nat
    OBVIOUS
  <2>3. c <= a
    <3>1. T * k <= T * (k + m)
      BY TimesGrows
    <3> QED
      BY <2>1, <3>1
  <2>4. a + T <= H /\ a \in 0 .. H /\ c \in 0 .. H /\ a + T \in 0 .. H
    BY <2>1, <2>2, <2>3
  <2>5. w[j][a + T] <= w[j][a] + C
    <3>1. T \in 0 .. s.period[j]
      BY <1>1
    <3> QED
      BY <1>1, <2>1, <2>2, <2>4, <3>1, RunCap
  <2>6. w[j][a] <= w[j][c] + z
    BY <1>4, <2>1, <2>4
  <2>7. w[j][a] \in Nat /\ w[j][c] \in Nat /\ w[j][a + T] \in Nat
    BY <1>2, <2>4
  <2>8. w[j][a + T] <= w[j][c] + (z + C)
    BY <2>5, <2>6, <2>7
  <2> QED
    BY <2>1, <2>2, <2>8
<1>5. e \in X
  <2> HIDE DEF X
  <2> QED
    BY <1>3, <1>4, InAllNumbers
<1> QED
  BY <1>1, <1>5

\* A time lies in the period that its quotient names.
LEMMA PeriodAt ==
    ASSUME NEW u \in Nat, NEW T \in Nat \ {0}
    PROVE  \E k \in Nat : k = u \div T /\ T * k \in 0 .. u /\ T * (k + 1) = T * k + T /\ u < T * k + T
<1>1. PICK k \in Nat : k = u \div T /\ T * k <= u /\ u < T * k + T
  BY QuotientFacts
<1>2. T * k \in Nat /\ T * (k + 1) = T * k + T
  OBVIOUS
<1> QED
  BY <1>1, <1>2

\* Nothing is left of what was released before time a: the service got its time, or its
\* period ends there.
NothingLeft(s, w, j, a) ==
    LET from == s.period[j] * (a \div s.period[j])
    IN  from = a \/ w[j][a] - w[j][from] >= s.wcet[j]

\* From such a time on a service is given no more than it asks for from time 0 on.
LEMMA RunWindow ==
    ASSUME NEW s, IsServiceSet(s), NEW H \in Nat, NEW ev, NEW w, IsRun(s, H, ev, w),
           NEW j \in Services(s), NEW a \in 0 .. H, NEW u \in a .. H, NothingLeft(s, w, j, a)
    PROVE  w[j][u] <= w[j][a] + Ceil(u - a, s.period[j]) * s.wcet[j]
<1>1. PICK T \in Nat \ {0}, C \in Nat : T = s.period[j] /\ C = s.wcet[j]
  BY ServiceSetTypes
<1>2. PICK q \in Nat : /\ q = a \div T /\ T * q \in 0 .. a /\ T * (q + 1) = T * q + T
                       /\ a < T * q + T
  BY PeriodAt
<1>3. PICK p \in Nat : p = T * q /\ p \in 0 .. H /\ p <= a
  BY <1>2
<1>4. p = a \/ w[j][a] - w[j][p] >= C
  BY <1>1, <1>2, <1>3 DEF NothingLeft
<1>5. PICK wa \in Nat, wu \in Nat, wp \in Nat : wa = w[j][a] /\ wu = w[j][u] /\ wp = w[j][p]
  <2>1. w[j] \in [0 .. H -> Nat]
    BY DEF IsRun
  <2> QED
    BY <1>3, <2>1
<1>6. PICK n \in Nat : n = Ceil(u - a, T) /\ \A m \in Nat : n <= m <=> u - a <= T * m
  <2>1. u - a \in Nat
    OBVIOUS
  <2> QED
    BY <2>1, CeilLeast
\* the first release from a on is that of period k0
<1>7. PICK k0 \in Nat : /\ a <= T * k0 /\ k0 = (IF p = a THEN q ELSE q + 1)
                        /\ (p # a => T * k0 = p + T)
  BY <1>2, <1>3
<1>8. PICK r \in Nat : r = T * k0
  OBVIOUS
<1>9. ASSUME NEW v \in a .. H, v <= r PROVE w[j][v] <= wa
  <2>1. CASE p = a
    <3>1. v = a
      BY <1>3, <1>7, <1>8, <1>9, <2>1
    <3> QED
      BY <1>5, <3>1
  <2>2. CASE p # a
    <3>1. r = p + T /\ v - p \in 0 .. T /\ p + (v - p) = v /\ v <= H
      BY <1>3, <1>7, <1>8, <1>9, <2>2
    <3>2. w[j][p + (v - p)] <= w[j][p] + C
      <4>1. s.period[j] * q = p /\ s.wcet[j] = C /\ p + (v - p) <= H /\ v - p \in 0 .. s.period[j]
        BY <1>1, <1>3, <3>1
      <4>2. s.period[j] * q + (v - p) <= H
        BY <4>1
      <4>3. w[j][s.period[j] * q + (v - p)] <= w[j][s.period[j] * q] + s.wcet[j]
        BY <4>1, <4>2, RunCap, Zenon
      <4> QED
        BY <4>1, <4>3, Zenon
    <3>3. w[j][v] \in Nat
      BY DEF IsRun
    <3> QED
      BY <1>4, <1>5, <2>2, <3>1, <3>2, <3>3
  <2> QED
    BY <2>1, <2>2
<1>10. CASE u <= r
  <2>1. wu <= wa
    BY <1>5, <1>9, <1>10
  <2>2. n * C \in Nat
    OBVIOUS
  <2> QED
    BY <1>1, <1>5, <1>6, <2>1, <2>2
<1>11. CASE r < u
  <2>1. PICK k \in Nat : /\ T * k \in 0 .. u - 1 /\ T * (k + 1) = T * k + T /\ u - 1 < T * k + T
    <3>1. u - 1 \in Nat
      BY <1>11
    <3> QED
      BY <3>1, PeriodAt
  <2>2. PICK x \in Nat : x = T * k /\ x < u /\ u <= x + T
    BY <2>1
  <2>3. k0 <= k
    <3>1. k + 1 <= k0 => T * (k + 1) <= T * k0
      BY TimesGrows
    <3> QED
      BY <1>8, <1>11, <2>1, <2>2, <3>1
  <2>4. PICK e \in Nat : k = k0 + e
    <3>1. k - k0 \in Nat /\ k = k0 + (k - k0)
      BY <2>3
    <3> QED
      BY <3>1
  <2>5. w[j][x] <= w[j][r] + C * e
    <3>1. s.period[j] * k0 = r /\ s.period[j] * (k0 + e) = x /\ s.wcet[j] = C /\ x <= H
      BY <1>1, <1>8, <2>2, <2>4
    <3>2. s.period[j] * (k0 + e) <= H
      BY <3>1
    <3>3. w[j][s.period[j] * (k0 + e)] <= w[j][s.period[j] * k0] + s.wcet[j] * e
      BY <3>2, RunJobs
    <3> QED
      BY <3>1, <3>3, Zenon
  <2>6. w[j][u] <= w[j][x] + C
    <3>1. /\ u - x \in 0 .. s.period[j] /\ x + (u - x) = u /\ x + (u - x) <= H
          /\ s.period[j] * k = x /\ s.wcet[j] = C
      BY <1>1, <2>2
    <3>2. w[j][s.period[j] * k + (u - x)] <= w[j][s.period[j] * k] + s.wcet[j]
      BY <3>1, RunCap
    <3> QED
      BY <3>1, <3>2, Zenon
  <2>7. w[j][r] <= wa
    <3>1. r \in a .. H
      BY <1>7, <1>8, <1>11
    <3> QED
      BY <1>9, <3>1
  <2>8. e + 1 <= n
    <3>1. T * e \in Nat /\ T * (k0 + e) = T * k0 + T * e
      OBVIOUS
    <3>2. ~(u - a <= T * e)
      BY <1>7, <1>8, <2>2, <2>4, <3>1
    <3> QED
      BY <1>6, <3>2
  <2>9. C * (e + 1) <= C * n /\ C * (e + 1) = C * e + C /\ C * n = n * C /\ C * e \in Nat /\ n * C \in Nat
    <3>1. C * (e + 1) <= C * n
      BY <2>8, TimesGrows
    <3> QED
      BY <3>1
  <2>10. w[j][x] \in Nat /\ w[j][r] \in Nat
    <3>1. x \in 0 .. H /\ r \in 0 .. H
      BY <1>11, <2>2
    <3> QED
      BY <3>1 DEF IsRun
  <2>11. wu <= wa + n * C
    <3>1. PICK y \in Nat, z \in Nat : y = C * e /\ z = n * C /\ y + C <= z
      BY <2>9
    <3> QED
      BY <1>5, <2>5, <2>6, <2>7, <2>10, <3>1
  <2> QED
    BY <1>1, <1>5, <1>6, <2>11
<1> QED
  BY <1>10, <1>11

\* What the first i services were given before tick u.
GivenTo(s, w, i, u) == SumTo(i, [j \in 1 .. i |-> w[j][u]])

\* A tick gives them one tick or none.
LEMMA GivenToStep ==
    ASSUME NEW s, IsServiceSet(s), NEW H \in Nat, NEW ev, NEW w, IsRun(s, H, ev, w),
           NEW i \in Services(s), NEW u \in 0 .. H - 1
    PROVE  /\ GivenTo(s, w, i, u) \in Nat
           /\ GivenTo(s, w, i, u + 1) = GivenTo(s, w, i, u) + (IF ev[u] \in 1 .. i THEN 1 ELSE 0)
<1> DEFINE f == [j \in 1 .. i |-> w[j][u]]
           g == [j \in 1 .. i |-> w[j][u + 1]]
<1>1. i \in Nat /\ 1 .. i \subseteq Services(s)
  BY ServiceSetTypes
<1>2. ASSUME NEW j \in 1 .. i PROVE f[j] \in Nat /\ g[j] = f[j] + (IF ev[u] = j THEN 1 ELSE 0)
  <2>1. /\ w[j] \in [0 .. H -> Nat] /\ w[j][u + 1] = w[j][u] + (IF ev[u] = j THEN 1 ELSE 0)
    BY <1>1 DEF IsRun
  <2> QED
    BY <2>1
<1>3. GivenTo(s, w, i, u) = SumTo(i, f) /\ GivenTo(s, w, i, u + 1) = SumTo(i, g)
  BY DEF GivenTo
<1>4. CASE ev[u] \in 1 .. i
  <2>1. PICK c \in 1 .. i : c = ev[u]
    BY <1>4
  <2>1a. \A j \in 1 .. i : f[j] \in Nat
    BY <1>2
  <2>1b. g[c] = f[c] + 1 /\ \A j \in 1 .. i : j # c => g[j] = f[j]
    BY <1>2, <2>1
  <2>2. SumTo(i, g) = SumTo(i, f) + 1 /\ SumTo(i, f) \in Nat
    <3> HIDE DEF f, g
    <3> QED
      BY <1>1, <2>1a, <2>1b, SumOne
  <2> QED
    BY <1>3, <1>4, <2>2
<1>5. CASE ev[u] \notin 1 .. i
  <2>1. \A j \in 1 .. i : f[j] \in Nat /\ g[j] = f[j]
    BY <1>2, <1>5
  <2>2. f = g
    BY <2>1
  <2>3. SumTo(i, f) \in Nat
    <3>1. \A j \in 1 .. i : f[j] \in Nat /\ f[j] <= f[j]
      BY <2>1
    <3> HIDE DEF f
    <3> QED
      BY <1>1, <3>1, SumGrows
  <2> HIDE DEF f, g
  <2> QED
    BY <1>3, <1>5, <2>2, <2>3
<1> QED
  BY <1>4, <1>5

\* They are given no more ticks than there are, and all of them while none goes elsewhere.
LEMMA GivenToFacts ==
    ASSUME NEW s, IsServiceSet(s), NEW H \in Nat, NEW ev, NEW w, IsRun(s, H, ev, w),
           NEW i \in Services(s), NEW a \in 0 .. H, NEW x \in Nat, a + x <= H
    PROVE  /\ GivenTo(s, w, i, a) \in Nat /\ GivenTo(s, w, i, a + x) \in Nat
           /\ GivenTo(s, w, i, a + x) <= GivenTo(s, w, i, a) + x
           /\ (\A v \in a .. a + x - 1 : ev[v] \in 1 .. i) =>
                GivenTo(s, w, i, a + x) = GivenTo(s, w, i, a) + x
           /\ GivenTo(s, w, i, 0) = 0
<1> DEFINE G(u) == GivenTo(s, w, i, u)
           X == {d \in Nat : a + d <= H =>
                   /\ G(a + d) \in Nat /\ G(a + d) <= G(a) + d
                   /\ (\A v \in a .. a + d - 1 : ev[v] \in 1 .. i) => G(a + d) = G(a) + d}
<1>1. ASSUME NEW u \in 0 .. H PROVE G(u) \in Nat
  <2> DEFINE f == [j \in 1 .. i |-> w[j][u]]
  <2>1. i \in Nat /\ \A j \in 1 .. i : f[j] \in Nat /\ f[j] <= f[j]
    <3>1. i \in Nat /\ 1 .. i \subseteq Services(s)
      BY ServiceSetTypes
    <3>2. ASSUME NEW j \in 1 .. i PROVE w[j][u] \in Nat
      BY <3>1 DEF IsRun
    <3> QED
      BY <3>1, <3>2
  <2>2. SumTo(i, f) \in Nat
    <3> HIDE DEF f
    <3> QED
      BY <2>1, SumGrows
  <2> QED
    BY <2>2 DEF GivenTo
<1>2. 0 \in X
  <2>1. a + 0 = a /\ G(a) \in Nat
    BY <1>1
  <2> HIDE DEF G
  <2> QED
    BY <2>1
<1>3. ASSUME NEW d \in Nat, d \in X PROVE d + 1 \in X
  <2> SUFFICES ASSUME a + (d + 1) <= H
               PROVE  /\ G(a + (d + 1)) \in Nat /\ G(a + (d + 1)) <= G(a) + (d + 1)
                      /\ (\A v \in a .. a + (d + 1) - 1 : ev[v] \in 1 .. i) =>
                           G(a + (d + 1)) = G(a) + (d + 1)
    OBVIOUS
  <2>1. PICK u \in 0 .. H - 1 : u = a + d /\ a + (d + 1) = u + 1 /\ u + 1 \in 0 .. H
    OBVIOUS
  <2>2. G(u + 1) = G(u) + (IF ev[u] \in 1 .. i THEN 1 ELSE 0)
    BY GivenToStep
  <2>3. G(u) \in Nat /\ G(u + 1) \in Nat /\ G(a) \in Nat
    BY <1>1, <2>1
  <2>4. /\ G(u) <= G(a) + d
        /\ (\A v \in a .. a + d - 1 : ev[v] \in 1 .. i) => G(u) = G(a) + d
    BY <1>3, <2>1
  <2>5. (\A v \in a .. a + (d + 1) - 1 : ev[v] \in 1 .. i) =>
          ev[u] \in 1 .. i /\ \A v \in a .. a + d - 1 : ev[v] \in 1 .. i
    BY <2>1
  <2> HIDE DEF G
  <2> QED
    BY <2>1, <2>2, <2>3, <2>4, <2>5
<1>4. x \in X
  <2> HIDE DEF X
  <2> QED
    BY <1>2, <1>3, InAllNumbers
<1>5. GivenTo(s, w, i, 0) = 0
  <2> DEFINE f == [j \in 1 .. i |-> w[j][0]]
             g == [j \in 1 .. i |-> 0]
  <2>1. i \in Nat /\ \A j \in 1 .. i : f[j] \in Nat /\ g[j] \in Nat /\ 1 * f[j] <= 0 * g[j]
    <3>1. i \in Nat /\ 1 .. i \subseteq Services(s)
      BY ServiceSetTypes
    <3>2. ASSUME NEW j \in 1 .. i PROVE w[j][0] = 0
      BY <3>1 DEF IsRun
    <3> QED
      BY <3>1, <3>2
  <2>2. 1 * SumTo(i, f) <= 0 * SumTo(i, g) /\ SumTo(i, f) \in Nat /\ SumTo(i, g) \in Nat
    <3> HIDE DEF f, g
    <3> QED
      BY <2>1, SumScaled
  <2>3. SumTo(i, f) = 0
    BY <2>2
  <2> QED
    BY <2>3 DEF GivenTo
<1>6. a \in 0 .. H /\ a + x \in 0 .. H
  OBVIOUS
<1> QED
  BY <1>1, <1>4, <1>5, <1>6

\* A service is given nothing while the ticks go to others.
LEMMA RunStays ==
    ASSUME NEW s, NEW H \in Nat, NEW ev, NEW w, IsRun(s, H, ev, w), NEW j \in Services(s),
           NEW u \in 0 .. H, NEW v \in u .. H, \A x \in u .. v - 1 : ev[x] # j
    PROVE  w[j][v] = w[j][u]
<1>1. /\ w[j] \in [0 .. H -> Nat]
      /\ \A x \in 0 .. H - 1 : w[j][x + 1] = w[j][x] + (IF ev[x] = j THEN 1 ELSE 0)
  BY DEF IsRun
<1> DEFINE X == {d \in Nat : u + d <= v => w[j][u + d] = w[j][u]}
<1>2. 0 \in X
  OBVIOUS
<1>3. ASSUME NEW d \in Nat, d \in X PROVE d + 1 \in X
  <2> SUFFICES ASSUME u + (d + 1) <= v PROVE w[j][u + (d + 1)] = w[j][u]
    OBVIOUS
  <2>1. PICK x \in 0 .. H - 1 : x = u + d /\ u + (d + 1) = x + 1 /\ x \in u .. v - 1 /\ x \in 0 .. H
    OBVIOUS
  <2>2. w[j][x + 1] = w[j][x] + 0 /\ w[j][x] \in Nat
    BY <1>1, <2>1
  <2>3. w[j][x] = w[j][u]
    BY <1>3, <2>1
  <2> QED
    BY <2>1, <2>2, <2>3
<1>4. v - u \in X
  <2>1. v - u \in Nat
    OBVIOUS
  <2> HIDE DEF X
  <2> QED
    BY <1>2, <1>3, <2>1, InAllNumbers
<1>5. u + (v - u) = v
  OBVIOUS
<1> QED
  BY <1>4, <1>5

\* The time before the end of a period that it does not begin lies in the same period.
LEMMA SamePeriod ==
    ASSUME NEW T \in Nat \ {0}, NEW q \in Nat, NEW v \in Nat, T * q <= v, v < T * q + T
    PROVE  v \div T = q
<1>1. PICK p \in Nat : p = T * q /\ q * T = p
  OBVIOUS
<1>2. v - p \in 0 .. T - 1 /\ v = p + (v - p)
  BY <1>1
<1>3. (q * T + (v - p)) \div T = q
  BY <1>2, Quotient, Zenon
<1> QED
  BY <1>1, <1>2, <1>3

\* A service in time when all start together is in time always: before a period that it
\* missed there would be a time from which all ticks go to it and to those before it, which
\* by then have nothing left, and still it does not get its time.
LEMMA InTimeNoMiss ==
    ASSUME NEW s, IsServiceSet(s), NEW H \in Nat, NEW ev, NEW w, IsRun(s, H, ev, w),
           NEW i \in Services(s), InTime(s, i), NEW k \in Nat, s.period[i] * (k + 1) <= H
    PROVE  w[i][s.period[i] * k] + s.wcet[i] <= w[i][s.period[i] * (k + 1)]
<1>1. /\ i \in Nat /\ i \in 1 .. i /\ 1 .. i \subseteq Services(s) /\ i - 1 \in Nat
      /\ \A j \in 1 .. i : s.period[j] \in Nat \ {0} /\ s.wcet[j] \in Nat \ {0}
  BY ServiceSetTypes
<1>2. PICK T \in Nat \ {0}, C \in Nat \ {0} : T = s.period[i] /\ C = s.wcet[i]
  BY <1>1
<1>3. PICK t \in Nat : t = T * k /\ t + T = T * (k + 1) /\ t + T <= H
  <2>1. T * k \in Nat /\ T * (k + 1) = T * k + T
    OBVIOUS
  <2> QED
    BY <1>2, <2>1
<1> SUFFICES ASSUME ~(w[i][t] + C <= w[i][t + T]) PROVE FALSE
  BY <1>2, <1>3
<1>4. w[i][t] \in Nat /\ w[i][t + T] \in Nat /\ w[i][t + T] < w[i][t] + C
  <2>1. t \in 0 .. H /\ t + T \in t .. H
    BY <1>3
  <2> QED
    BY <2>1, RunGrows
<1>5. ASSUME NEW v \in t .. t + T - 1 PROVE ev[v] \in 1 .. i
  <2>1. v \in 0 .. H - 1 /\ v \in 0 .. H /\ t + T \in v .. H
    BY <1>3
  <2>2. T * (v \div T) = t
    <3>1. v \in Nat /\ T * k <= v /\ v < T * k + T
      BY <1>3
    <3>2. v \div T = k
      BY <3>1, SamePeriod
    <3> QED
      BY <1>3, <3>2
  <2>3. w[i][v] <= w[i][t + T] /\ w[i][v] \in Nat
    BY <2>1, RunGrows
  <2>4. w[i][v] - w[i][T * (v \div T)] < C
    BY <1>4, <2>2, <2>3
  <2> QED
    BY <1>2, <2>1, <2>4 DEF IsRun
<1> DEFINE S == {a \in 0 .. t : \A j \in 1 .. i - 1 : NothingLeft(s, w, j, a)}
<1>6. PICK t0 \in S : \A a \in S : a <= t0
  <2>1. 0 \in S
    <3>1. ASSUME NEW j \in 1 .. i - 1 PROVE NothingLeft(s, w, j, 0)
      <4>1. PICK P \in Nat \ {0} : P = s.period[j]
        BY <1>1
      <4>2. P * 0 = 0 /\ 0 \div P = 0
        OBVIOUS
      <4> QED
        BY <4>1, <4>2 DEF NothingLeft
    <3> QED
      BY <3>1
  <2>2. S \subseteq 0 .. t
    OBVIOUS
  <2> HIDE DEF S
  <2> QED
    BY <2>1, <2>2, GreatestNumber
<1>7. ASSUME NEW v \in t0 .. t - 1 PROVE ev[v] \in 1 .. i - 1
  <2>1. v \in 0 .. H - 1 /\ v + 1 \in 0 .. t /\ v + 1 \notin S /\ v \in 0 .. H /\ v + 1 \in v .. H
    BY <1>3, <1>6
  <2>2. PICK j \in 1 .. i - 1 : ~NothingLeft(s, w, j, v + 1)
    BY <2>1
  <2>3. PICK P \in Nat \ {0}, D \in Nat : P = s.period[j] /\ D = s.wcet[j]
    BY <1>1
  <2>4. PICK q \in Nat : q = (v + 1) \div P /\ P * q \in 0 .. v + 1 /\ v + 1 < P * q + P
    <3>1. v + 1 \in Nat
      BY <2>1
    <3> QED
      BY <3>1, PeriodAt
  <2>5. P * q # v + 1 /\ ~(w[j][v + 1] - w[j][P * q] >= D)
    BY <2>2, <2>3, <2>4 DEF NothingLeft
  <2>6. v \div P = q
    <3>1. v \in Nat /\ P * q <= v /\ v < P * q + P
      <4>1. PICK p \in Nat : p = P * q
        OBVIOUS
      <4> QED
        BY <2>1, <2>4, <2>5, <4>1
    <3> QED
      BY <3>1, SamePeriod
  <2>7. j \in Services(s)
    BY <1>1
  <2>8. w[j][v] <= w[j][v + 1] /\ w[j][v] \in Nat /\ w[j][v + 1] \in Nat
    BY <2>1, <2>7, RunGrows
  <2>9. w[j][P * q] \in Nat
    <3>1. P * q \in 0 .. H
      BY <2>1, <2>4
    <3> QED
      BY <2>7, <3>1 DEF IsRun
  <2>10. w[j][v] - w[j][P * (v \div P)] < D
    BY <2>5, <2>6, <2>8, <2>9
  <2>11. ev[v] \in 1 .. j
    BY <2>1, <2>3, <2>7, <2>10 DEF IsRun
  <2> QED
    BY <1>1, <2>11
<1>8. PICK x \in 1 .. T : Released(s, i, x) <= x
  BY <1>2 DEF InTime
<1>9. t0 \in 0 .. H /\ x \in Nat /\ t0 + x \in t0 .. H /\ t0 + x <= H /\ t0 + x - t0 = x /\ t0 + x <= t + T
  BY <1>3
<1>10. /\ GivenTo(s, w, i, t0) \in Nat
       /\ GivenTo(s, w, i, t0 + x) = GivenTo(s, w, i, t0) + x
  <2>1. ASSUME NEW v \in t0 .. t0 + x - 1 PROVE ev[v] \in 1 .. i
    <3>1. CASE v < t
      <4>1. v \in t0 .. t - 1
        BY <3>1
      <4> QED
        BY <1>1, <1>7, <4>1
    <3>2. CASE t <= v
      <4>1. v \in t .. t + T - 1
        BY <1>9, <3>2
      <4> QED
        BY <1>5, <4>1
    <3> QED
      BY <3>1, <3>2
  <2> HIDE DEF S
  <2> QED
    BY <1>9, <2>1, GivenToFacts
<1> DEFINE f == [j \in 1 .. i |-> w[j][t0 + x]]
           from == [j \in 1 .. i |-> w[j][t0]]
           more == [j \in 1 .. i |-> Ceil(x, s.period[j]) * s.wcet[j]]
           g == [j \in 1 .. i |-> from[j] + more[j]]
<1>11. ASSUME NEW j \in 1 .. i
       PROVE  f[j] \in Nat /\ from[j] \in Nat /\ more[j] \in Nat /\ g[j] = from[j] + more[j] /\ g[j] \in Nat
  <2>1. w[j][t0 + x] \in Nat /\ w[j][t0] \in Nat
    BY <1>1, <1>9, RunGrows
  <2>2. PICK a \in Nat, c \in Nat : a = Ceil(x, s.period[j]) /\ c = s.wcet[j]
    BY <1>1, <1>9, CeilLeast
  <2>3. a * c \in Nat
    OBVIOUS
  <2> QED
    BY <2>1, <2>2, <2>3
<1>12. ASSUME NEW j \in 1 .. i - 1 PROVE f[j] <= g[j]
  <2>1. j \in 1 .. i /\ j \in Services(s) /\ NothingLeft(s, w, j, t0)
    BY <1>1
  <2>2. w[j][t0 + x] <= w[j][t0] + Ceil(t0 + x - t0, s.period[j]) * s.wcet[j]
    BY <1>9, <2>1, RunWindow
  <2> QED
    BY <1>9, <2>1, <2>2
<1>13. f[i] + 1 <= g[i]
  <2>1. more[i] = C
    <3>1. Ceil(x, T) = 1
      BY CeilOne
    <3> QED
      BY <1>1, <1>2, <3>1
  <2>2. w[i][t0 + x] <= w[i][t + T] /\ w[i][t0 + x] \in Nat
    <3>1. t0 + x \in 0 .. H /\ t + T \in t0 + x .. H
      BY <1>3, <1>9
    <3> QED
      BY <3>1, RunGrows
  <2>3. w[i][t] = w[i][t0]
    <3>1. t \in t0 .. H /\ \A v \in t0 .. t - 1 : ev[v] # i
      BY <1>3, <1>7
    <3> QED
      BY <1>9, <3>1, RunStays
  <2>4. f[i] = w[i][t0 + x] /\ g[i] = w[i][t0] + more[i]
    BY <1>1
  <2> HIDE DEF f, g, more, from, S
  <2> QED
    BY <1>4, <2>1, <2>2, <2>3, <2>4
<1>14. SumTo(i, f) + 1 <= SumTo(i, g) /\ SumTo(i, f) \in Nat
  <2>1. ASSUME NEW j \in 1 .. i PROVE f[j] \in Nat /\ g[j] \in Nat /\ f[j] <= g[j]
    <3>1. f[j] \in Nat /\ g[j] \in Nat
      BY <1>11
    <3>2. j = i \/ j \in 1 .. i - 1
      BY <1>1
    <3> HIDE DEF f, g, more, from, S
    <3> QED
      BY <1>12, <1>13, <3>1, <3>2
  <2>2. i \in Nat /\ i \in 1 .. i /\ 1 \in Nat /\ f[i] + 1 <= g[i]
    BY <1>1, <1>13
  <2> HIDE DEF f, g, more, from, S
  <2> QED
    BY <2>1, <2>2, SumLess, Zenon
<1>15. SumTo(i, g) = SumTo(i, from) + SumTo(i, more) /\ SumTo(i, from) \in Nat /\ SumTo(i, more) \in Nat
  <2>1. AddsTo(i, from, more, g)
    BY <1>11 DEF AddsTo
  <2>2. i \in Nat
    BY <1>1
  <2> HIDE DEF f, g, more, from, S
  <2> QED
    BY <2>1, <2>2, SumAdd
<1>16. /\ GivenTo(s, w, i, t0) = SumTo(i, from) /\ GivenTo(s, w, i, t0 + x) = SumTo(i, f)
       /\ Released(s, i, x) = SumTo(i, more)
  BY DEF GivenTo, Released
<1> HIDE DEF f, g, more, from, S
<1> QED
  BY <1>8, <1>9, <1>10, <1>14, <1>15, <1>16

\* A service that misses nothing till time E was given its time once for each period.
LEMMA RunFull ==
    ASSUME NEW s, IsServiceSet(s), NEW H \in Nat, NEW ev, NEW w, IsRun(s, H, ev, w),
           NEW j \in Services(s), NEW E \in 0 .. H,
           \A m \in Nat : s.period[j] * (m + 1) <= E =>
                            w[j][s.period[j] * m] + s.wcet[j] <= w[j][s.period[j] * (m + 1)],
           NEW k \in Nat, s.period[j] * k <= E
    PROVE  s.wcet[j] * k <= w[j][s.period[j] * k]
<1>1. PICK T \in Nat \ {0}, C \in Nat : T = s.period[j] /\ C = s.wcet[j]
  BY ServiceSetTypes
<1>2. w[j] \in [0 .. H -> Nat] /\ w[j][0] = 0
  BY DEF IsRun
<1> DEFINE X == {m \in Nat : T * m <= E => C * m <= w[j][T * m]}
<1>3. 0 \in X
  <2>1. T * 0 = 0 /\ C * 0 = 0
    OBVIOUS
  <2> QED
    BY <1>2, <2>1
<1>4. ASSUME NEW m \in Nat, m \in X PROVE m + 1 \in X
  <2> SUFFICES ASSUME T * (m + 1) <= E PROVE C * (m + 1) <= w[j][T * (m + 1)]
    OBVIOUS
  <2>1. PICK a \in Nat, z \in Nat : a = T * m /\ z = C * m
    OBVIOUS
  <2>2. T * (m + 1) = a + T /\ C * (m + 1) = z + C
    BY <2>1
  <2>3. a + T <= E /\ a \in 0 .. H /\ a + T \in 0 .. H
    BY <2>2
  <2>4. w[j][a] + C <= w[j][a + T]
    BY <1>1, <2>1, <2>2
  <2>5. z <= w[j][a]
    BY <1>4, <2>1, <2>3
  <2>6. w[j][a] \in Nat /\ w[j][a + T] \in Nat
    BY <1>2, <2>3
  <2> QED
    BY <2>2, <2>4, <2>5, <2>6
<1>5. k \in X
  <2> HIDE DEF X
  <2> QED
    BY <1>3, <1>4, InAllNumbers
<1> QED
  BY <1>1, <1>5

\* A service that misses nothing in its first period, nor do those before it, is in time:
\* in the tick that completes its work those before it need nothing.
LEMMA NoMissInTime ==
    ASSUME NEW s, IsServiceSet(s), NEW H \in Nat, NEW ev, NEW w, IsRun(s, H, ev, w),
           NEW i \in Services(s), s.period[i] <= H,
           \A j \in 1 .. i : \A m \in Nat :
             s.period[j] * (m + 1) <= s.period[i] =>
               w[j][s.period[j] * m] + s.wcet[j] <= w[j][s.period[j] * (m + 1)]
    PROVE  InTime(s, i)
<1>1. /\ i \in Nat /\ i \in 1 .. i /\ 1 .. i \subseteq Services(s)
      /\ \A j \in 1 .. i : s.period[j] \in Nat \ {0} /\ s.wcet[j] \in Nat \ {0}
  BY ServiceSetTypes
<1>2. PICK T \in Nat \ {0}, C \in Nat \ {0} : T = s.period[i] /\ C = s.wcet[i] /\ T \in 0 .. H
  BY <1>1
<1>3. w[i] \in [0 .. H -> Nat] /\ w[i][0] = 0
  BY DEF IsRun
<1> DEFINE Y == {y \in 0 .. T : C <= w[i][y]}
<1>4. PICK y \in Y : \A z \in Y : y <= z
  <2>1. T \in Y
    <3>1. T * (0 + 1) = T /\ T * 0 = 0
      OBVIOUS
    <3>2. w[i][T * 0] + C <= w[i][T * (0 + 1)]
      <4>1. 0 \in Nat /\ T * (0 + 1) <= T
        BY <3>1
      <4> QED
        BY <1>1, <1>2, <4>1
    <3>3. 0 + C = C
      OBVIOUS
    <3> QED
      BY <1>3, <3>1, <3>2, <3>3
  <2>2. Y \subseteq Nat /\ Y # {}
    BY <2>1
  <2> HIDE DEF Y
  <2> QED
    BY <2>2, LeastNumber
<1>5. y \in 1 .. T /\ C <= w[i][y] /\ y - 1 \in 0 .. H - 1 /\ y - 1 \in 0 .. T /\ y - 1 + 1 = y /\ y \in 0 .. H
  <2>1. y # 0
    BY <1>3
  <2> QED
    BY <1>2, <2>1
<1>6. PICK v \in 0 .. H - 1 : v = y - 1 /\ v + 1 = y /\ v \in 0 .. H
  BY <1>5
<1>7. ev[v] = i
  <2>1. v \notin Y /\ v \in 0 .. T
    BY <1>4, <1>5, <1>6
  <2>2. ~(C <= w[i][v])
    BY <2>1
  <2>3. w[i][v + 1] = w[i][v] + (IF ev[v] = i THEN 1 ELSE 0)
    BY DEF IsRun
  <2>4. w[i][v] \in Nat
    BY <1>3, <1>6
  <2> HIDE DEF Y
  <2> QED
    BY <1>5, <1>6, <2>2, <2>3, <2>4
<1> DEFINE f == [j \in 1 .. i |-> Ceil(y, s.period[j]) * s.wcet[j]]
           g == [j \in 1 .. i |-> w[j][y]]
<1>8. ASSUME NEW j \in 1 .. i PROVE f[j] \in Nat /\ g[j] \in Nat /\ f[j] <= g[j]
  <2>1. PICK P \in Nat \ {0}, D \in Nat : P = s.period[j] /\ D = s.wcet[j]
    BY <1>1
  <2>2. PICK n \in Nat : n = Ceil(y, P) /\ \A m \in Nat : n <= m <=> y <= P * m
    <3>1. y \in Nat
      BY <1>5
    <3> QED
      BY <3>1, CeilLeast
  <2>3. j \in Services(s) /\ w[j][y] \in Nat /\ w[j][v] \in Nat /\ w[j][v] <= w[j][y]
    <3>1. j \in Services(s)
      BY <1>1
    <3>2. y \in v .. H
      BY <1>5, <1>6
    <3> QED
      BY <1>6, <3>1, <3>2, RunGrows
  <2>4. f[j] = n * D /\ g[j] = w[j][y] /\ n * D \in Nat
    BY <2>1, <2>2
  <2>5. CASE j = i
    <3>1. n = 1
      BY <1>2, <1>5, <2>1, <2>2, <2>5, CeilOne
    <3>2. n * D = C
      BY <1>2, <2>1, <2>5, <3>1
    <3> HIDE DEF f, g, Y
    <3> QED
      BY <1>5, <2>3, <2>4, <2>5, <3>2
  <2>6. CASE j # i
    <3>1. PICK q \in Nat : q = v \div P /\ P * q \in 0 .. v /\ P * (q + 1) = P * q + P /\ v < P * q + P
      <4>1. v \in Nat
        OBVIOUS
      <4> QED
        BY <4>1, PeriodAt
    <3>2. ~(w[j][v] - w[j][P * q] < D)
      <4>1. ev[v] \notin 1 .. j
        BY <1>7, <2>6
      <4> QED
        BY <2>1, <2>3, <3>1, <4>1 DEF IsRun
    <3>3. D * q <= w[j][P * q]
      <4>1. P * q <= T
        BY <1>5, <1>6, <3>1
      <4>2. \A m \in Nat : s.period[j] * (m + 1) <= T =>
                             w[j][s.period[j] * m] + s.wcet[j] <= w[j][s.period[j] * (m + 1)]
        BY <1>2
      <4> QED
        BY <1>2, <2>1, <2>3, <4>1, <4>2, RunFull
    <3>4. w[j][P * q] \in Nat
      <4>1. P * q \in 0 .. H
        BY <1>6, <3>1
      <4> QED
        BY <2>3, <4>1 DEF IsRun
    <3>5. D * q + D <= w[j][y]
      <4>1. PICK z \in Nat : z = D * q
        OBVIOUS
      <4> QED
        BY <2>3, <3>2, <3>3, <3>4, <4>1
    <3>6. n <= q + 1
      <4>1. y <= P * (q + 1) /\ q + 1 \in Nat
        BY <1>5, <1>6, <3>1
      <4> QED
        BY <2>2, <4>1
    <3>7. n * D <= D * q + D
      <4>1. D * n <= D * (q + 1)
        BY <3>6, TimesGrows
      <4> QED
        BY <4>1
    <3> HIDE DEF f, g, Y
    <3>8. PICK z \in Nat, x \in Nat : z = n * D /\ x = D * q + D
      BY <2>4
    <3> QED
      BY <2>3, <2>4, <3>5, <3>7, <3>8
  <2> QED
    BY <2>5, <2>6
<1>9. SumTo(i, f) <= SumTo(i, g)
  <2> HIDE DEF f, g, Y
  <2> QED
    BY <1>1, <1>8, SumGrows
<1>10. SumTo(i, f) = Released(s, i, y) /\ SumTo(i, g) = GivenTo(s, w, i, y)
  BY DEF Released, GivenTo
<1>11. SumTo(i, g) \in Nat /\ SumTo(i, g) <= 0 + y
  <2>1. 0 \in 0 .. H /\ y \in Nat /\ 0 + y <= H /\ 0 + y = y
    BY <1>5
  <2>2. /\ GivenTo(s, w, i, 0 + y) <= GivenTo(s, w, i, 0) + y
        /\ GivenTo(s, w, i, 0) = 0 /\ GivenTo(s, w, i, 0 + y) \in Nat
    BY <2>1, GivenToFacts
  <2> HIDE DEF f, g, Y
  <2> QED
    BY <1>10, <2>1, <2>2
<1>12. Released(s, i, y) <= y
  <2>1. SumTo(i, f) \in Nat
    <3> HIDE DEF f, g, Y
    <3> QED
      BY <1>1, <1>8, SumGrows
  <2> HIDE DEF f, g, Y
  <2> QED
    BY <1>5, <1>9, <1>10, <1>11, <2>1
<1> QED
  BY <1>2, <1>5, <1>12 DEF InTime

\* What a service is given from time a to time e is what it is given till e but not till a.
LEMMA GivenAdds ==
    ASSUME NEW j, NEW a \in Nat, NEW e \in Nat, a <= e
    PROVE  /\ Given(j, 0, e) = Given(j, 0, a) + Given(j, a, e)
           /\ Given(j, 0, a) \in Nat /\ Given(j, a, e) \in Nat
<1> DEFINE old == {u \in 0 .. a - 1 : events[u + 1] = j}
           new == {u \in a .. e - 1 : events[u + 1] = j}
<1>1. IsFiniteSet(old) /\ IsFiniteSet(new)
  <2>1. /\ old \in SUBSET (0 .. a - 1) /\ IsFiniteSet(0 .. a - 1)
        /\ new \in SUBSET (a .. e - 1) /\ IsFiniteSet(a .. e - 1)
    BY FS_Interval
  <2> HIDE DEF old, new
  <2> QED
    BY <2>1, FS_Subset
<1>2. {u \in 0 .. e - 1 : events[u + 1] = j} = old \cup new /\ old \cap new = {}
  <2>1. \A u : u \in 0 .. e - 1 <=> u \in 0 .. a - 1 \/ u \in a .. e - 1
    OBVIOUS
  <2> QED
    BY <2>1
<1>3. /\ Cardinality(old \cup new) = Cardinality(old) + Cardinality(new)
      /\ Cardinality(old) \in Nat /\ Cardinality(new) \in Nat
  <2> HIDE DEF old, new
  <2>1. Cardinality(old) \in Nat /\ Cardinality(new) \in Nat /\ Cardinality({}) = 0
    BY <1>1, FS_CardinalityType, FS_EmptySet
  <2>2. Cardinality(old \cup new)
          = Cardinality(old) + Cardinality(new) - Cardinality(old \cap new)
    BY <1>1, FS_Union
  <2>3. Cardinality(old \cap new) = 0
    BY <1>2, <2>1
  <2> QED
    BY <2>1, <2>2, <2>3
<1>4. /\ Given(j, 0, e) = Cardinality(old \cup new)
      /\ Given(j, 0, a) = Cardinality(old) /\ Given(j, a, e) = Cardinality(new)
  BY <1>2 DEF Given
<1> HIDE DEF old, new
<1> QED
  BY <1>3, <1>4

\* A tick gives a service one tick or none.
LEMMA GivenNext ==
    ASSUME NEW j, NEW u \in Nat
    PROVE  Given(j, 0, u + 1) = Given(j, 0, u) + (IF events[u + 1] = j THEN 1 ELSE 0)
<1>1. /\ Given(j, 0, u + 1) = Given(j, 0, u) + Given(j, u, u + 1)
  BY GivenAdds
<1>2. u .. (u + 1) - 1 = {u}
  OBVIOUS
<1>3. Given(j, u, u + 1) = Cardinality({v \in {u} : events[v + 1] = j})
  BY <1>2 DEF Given
<1>4. CASE events[u + 1] = j
  <2>1. {v \in {u} : events[v + 1] = j} = {u}
    BY <1>4
  <2> QED
    BY <1>1, <1>3, <1>4, <2>1, FS_Singleton
<1>5. CASE events[u + 1] # j
  <2>1. {v \in {u} : events[v + 1] = j} = {}
    BY <1>5
  <2> QED
    BY <1>1, <1>3, <1>5, <2>1, FS_EmptySet
<1> QED
  BY <1>4, <1>5

\* Every tick till now went to the service that the protocol names.
AllFollowed == \A u \in Nat : u < Now => Followed(u)

\* It stays so: a tick leaves the ticks before it as they were, and follows the protocol.
LEMMA AllFollowedStep == ASSUME EngineInv, AllFollowed, Tick PROVE AllFollowed'
<1>1. ScheduleTypeOK /\ UNCHANGED <<services, protocol>>
  BY DEF EngineInv, Tick
<1>2. PICK c \in Services(services) \cup {Idle} : events' = Append(events, c)
  BY <1>1, TickRuns
<1>3. PICK n \in Nat : n = Now
  BY <1>1, LenProperties DEF ScheduleTypeOK, Now
<1>4. Now' = n + 1 /\ \A u \in Nat : u < n => events'[u + 1] = events[u + 1]
  BY <1>1, <1>2, <1>3 DEF ScheduleTypeOK, Now
<1> SUFFICES ASSUME NEW u \in Nat, u < n + 1 PROVE Followed(u)'
  BY <1>4 DEF AllFollowed
<1>5. CASE u = n
  <2>1. ProtocolFollowed'
    BY TickStep
  <2>2. n + 1 > 0 /\ n + 1 - 1 = n
    OBVIOUS
  <2> QED
    BY <1>4, <1>5, <2>1, <2>2 DEF ProtocolFollowed
<1>6. CASE u < n
  <2>1. ASSUME NEW s \in Services(services)
        PROVE  Needs(s, u)' = Needs(s, u) /\ TimeLeft(s, u)' = TimeLeft(s, u)
    <3>1. PICK T \in Nat \ {0} : T = services.period[s]
      BY <1>1, ServiceTypes
    <3>2. PICK from \in Nat : from = PeriodOf(s, u)
      <4>1. T * (u \div T) \in Nat
        BY PeriodAt
      <4> QED
        BY <3>1, <4>1 DEF PeriodOf
    <3>3. PeriodOf(s, u)' = PeriodOf(s, u)
      BY <1>1 DEF PeriodOf
    <3>4. Given(s, from, u)' = Given(s, from, u)
      BY <1>1, <1>2, <1>3, <1>6, GivenKept
    <3>5. Given(s, PeriodOf(s, u), u)' = Given(s, PeriodOf(s, u), u)
      BY <3>2, <3>3, <3>4 DEF Given
    <3> QED
      BY <1>1, <3>3, <3>5 DEF Needs, TimeLeft
  <2>2. Services(services)' = Services(services)
    BY <1>1 DEF Services
  <2>3. events'[u + 1] = events[u + 1] /\ protocol' = protocol /\ Followed(u)
    BY <1>1, <1>3, <1>4, <1>6 DEF AllFollowed
  <2>4. {s \in Services(services)' : Needs(s, u)' > 0} = {s \in Services(services) : Needs(s, u) > 0}
    BY <2>1, <2>2
  <2> QED
    BY <2>1, <2>2, <2>3, <2>4 DEF Followed
<1> QED
  BY <1>5, <1>6

\* Under rate monotonic the ticks are a run of the services.
LEMMA EngineRuns ==
    ASSUME ScheduleTypeOK, AllFollowed, protocol = "RM", NEW H \in Nat, H = Now
    PROVE  IsRun(services, H, [u \in 0 .. H - 1 |-> events[u + 1]],
                 [j \in Services(services) |-> [u \in 0 .. H |-> Given(j, 0, u)]])
<1> DEFINE ev == [u \in 0 .. H - 1 |-> events[u + 1]]
           w == [j \in Services(services) |-> [u \in 0 .. H |-> Given(j, 0, u)]]
<1> SUFFICES ASSUME NEW j \in Services(services)
             PROVE  /\ w[j] \in [0 .. H -> Nat] /\ w[j][0] = 0
                    /\ \A u \in 0 .. H - 1 :
                         LET T == services.period[j]
                         IN  /\ w[j][u + 1] = w[j][u] + (IF ev[u] = j THEN 1 ELSE 0)
                             /\ ev[u] = j => w[j][u] - w[j][T * (u \div T)] < services.wcet[j]
                             /\ w[j][u] - w[j][T * (u \div T)] < services.wcet[j] =>
                                  ev[u] \in 1 .. j
  BY DEF IsRun
<1>1. ASSUME NEW u \in 0 .. H PROVE w[j][u] = Given(j, 0, u) /\ Given(j, 0, u) \in Nat
  <2>1. u \in Nat /\ u <= u
    OBVIOUS
  <2> QED
    BY <2>1, GivenAdds
<1>2. w[j] \in [0 .. H -> Nat]
  BY <1>1
<1>3. w[j][0] = 0
  <2>1. {u \in 0 .. 0 - 1 : events[u + 1] = j} = {}
    OBVIOUS
  <2>2. Given(j, 0, 0) = 0
    BY <2>1, FS_EmptySet DEF Given
  <2> QED
    BY <1>1, <2>2
<1>4. ASSUME NEW u \in 0 .. H - 1, NEW T, T = services.period[j]
      PROVE  /\ w[j][u + 1] = w[j][u] + (IF ev[u] = j THEN 1 ELSE 0)
             /\ ev[u] = j => w[j][u] - w[j][T * (u \div T)] < services.wcet[j]
             /\ w[j][u] - w[j][T * (u \div T)] < services.wcet[j] => ev[u] \in 1 .. j
  <2>1. T \in Nat \ {0} /\ services.wcet[j] \in Nat /\ j \in Nat
    BY <1>4, ServiceTypes
  <2>2. u \in Nat /\ u \in 0 .. H /\ u + 1 \in 0 .. H /\ ev[u] = events[u + 1] /\ u < Now
    OBVIOUS
  <2>3. PICK p \in 0 .. u : p = T * (u \div T)
    BY <2>1, <2>2, PeriodAt
  <2>4. w[j][u + 1] = w[j][u] + (IF ev[u] = j THEN 1 ELSE 0)
    <3>1. Given(j, 0, u + 1) = Given(j, 0, u) + (IF events[u + 1] = j THEN 1 ELSE 0)
      BY <2>2, GivenNext
    <3> HIDE DEF w, ev
    <3> QED
      BY <1>1, <2>2, <3>1
  <2>5. Needs(j, u) = services.wcet[j] - (w[j][u] - w[j][p])
    <3>1. Given(j, 0, u) = Given(j, 0, p) + Given(j, p, u) /\ Given(j, p, u) \in Nat
      BY <2>2, GivenAdds
    <3>2. PeriodOf(j, u) = p
      BY <1>4, <2>3 DEF PeriodOf
    <3>3. Needs(j, u) = services.wcet[j] - Given(j, p, u)
      BY <3>2 DEF Needs
    <3>4. p \in 0 .. H
      OBVIOUS
    <3> HIDE DEF w
    <3> QED
      BY <1>1, <2>2, <3>1, <3>3, <3>4
  <2>6. w[j][u] - w[j][p] \in Int
    <3>1. p \in 0 .. H
      OBVIOUS
    <3> HIDE DEF w
    <3> QED
      BY <1>1, <2>2, <3>1
  <2>7. Followed(u)
    BY <2>2 DEF AllFollowed
  <2>8. /\ ev[u] = j => Needs(j, u) > 0
        /\ Needs(j, u) > 0 => ev[u] \in Services(services) /\ ev[u] <= j
    <3>1. j # Idle
      BY <2>1 DEF Idle
    <3> HIDE DEF ev, w
    <3> QED
      BY <2>2, <2>7, <3>1 DEF Followed
  <2>9. Services(services) \subseteq Nat \ {0}
    BY LenProperties DEF ScheduleTypeOK, Services
  <2> HIDE DEF ev, w
  <2>10. w[j][u] - w[j][p] < services.wcet[j] <=> Needs(j, u) > 0
    BY <2>1, <2>5, <2>6
  <2>11. ev[u] \in Services(services) /\ ev[u] <= j => ev[u] \in 1 .. j
    BY <2>1, <2>9
  <2> QED
    BY <2>3, <2>4, <2>8, <2>10, <2>11
<1> QED
  BY <1>2, <1>3, <1>4

\* No period that ends before B is missed exactly if each service was given its time in
\* every one of them.
LEMMA NoMisses ==
    ASSUME ScheduleTypeOK, NEW H \in Nat, H = Now, NEW B \in Nat, B <= H + 1
    PROVE  MissedBefore(B) = {} <=>
             \A j \in Services(services) : \A k \in Nat :
               services.period[j] * (k + 1) < B =>
                 Given(j, 0, services.period[j] * k) + services.wcet[j]
                   <= Given(j, 0, services.period[j] * (k + 1))
<1>1. TICKS \in Nat /\ H <= TICKS
  BY ScheduleAssumption DEF ScheduleTypeOK, TICKS
<1>2. ASSUME NEW j \in Services(services), NEW k \in Nat
      PROVE  <<j, k>> \in MissedBefore(B) <=>
               /\ services.period[j] * (k + 1) < B
               /\ ~(Given(j, 0, services.period[j] * k) + services.wcet[j]
                      <= Given(j, 0, services.period[j] * (k + 1)))
  <2>1. PICK T \in Nat \ {0}, C \in Nat \ {0} : T = services.period[j] /\ C = services.wcet[j]
    BY ServiceTypes
  <2>2. /\ k * T = T * k /\ (k + 1) * T = T * (k + 1) /\ T * k \in Nat
        /\ T * (k + 1) = T * k + T
    OBVIOUS
  <2>3. PICK a \in Nat, e \in Nat : a = T * k /\ e = T * (k + 1) /\ e = a + T
    BY <2>2
  <2>4. e < B => k \in 0 .. TICKS
    <3>1. k * T \in Nat /\ k <= k * T
      BY TimesFacts
    <3> QED
      BY <1>1, <2>2, <2>3, <3>1
  <2>5. <<j, k>> \in MissedBefore(B) <=> k \in 0 .. TICKS /\ e < B /\ Given(j, a, e) < C
    BY <2>1, <2>2, <2>3 DEF MissedBefore
  <2>6. /\ Given(j, 0, e) = Given(j, 0, a) + Given(j, a, e)
        /\ Given(j, 0, a) \in Nat /\ Given(j, a, e) \in Nat
    BY <2>3, GivenAdds
  <2>7. Given(j, a, e) < C <=> ~(Given(j, 0, a) + C <= Given(j, 0, e))
    BY <2>6
  <2> QED
    BY <2>1, <2>3, <2>4, <2>5, <2>7
<1>3. MissedBefore(B) = {}
        <=> \A j \in Services(services) : \A k \in Nat : <<j, k>> \notin MissedBefore(B)
  BY DEF MissedBefore
<1> QED
  BY <1>2, <1>3

\* At the end no period that ends before B is missed exactly if all services are in time,
\* given that every one of them ends its first period before B.
LEMMA EngineInTime ==
    ASSUME EngineInv, AllFollowed, protocol = "RM", Now = TICKS,
           NEW B \in Nat, B <= TICKS + 1, \A j \in Services(services) : services.period[j] < B
    PROVE  MissedBefore(B) = {} <=> \A j \in Services(services) : InTime(services, j)
<1> DEFINE s == services
           H == TICKS
           ev == [u \in 0 .. H - 1 |-> events[u + 1]]
           w == [j \in Services(s) |-> [u \in 0 .. H |-> Given(j, 0, u)]]
<1>1. ScheduleTypeOK /\ IsServiceSet(s) /\ H \in Nat
  BY ScheduleAssumption DEF EngineInv, ScheduleTypeOK, IsServiceSet, Times, TICKS
<1>2. IsRun(s, H, ev, w)
  BY <1>1, EngineRuns
<1>3. ASSUME NEW j \in Services(s), NEW k \in Nat, s.period[j] * (k + 1) <= H
      PROVE  /\ w[j][s.period[j] * k] = Given(j, 0, s.period[j] * k)
             /\ w[j][s.period[j] * (k + 1)] = Given(j, 0, s.period[j] * (k + 1))
  <2>1. PICK T \in Nat \ {0} : T = s.period[j]
    BY <1>1, ServiceTypes
  <2>2. T * k \in Nat /\ T * (k + 1) = T * k + T
    OBVIOUS
  <2>3. T * k \in 0 .. H /\ T * (k + 1) \in 0 .. H
    BY <1>1, <1>3, <2>1, <2>2
  <2> QED
    BY <2>1, <2>3
<1>4. MissedBefore(B) = {} <=> \A j \in Services(s) : \A k \in Nat :
                       s.period[j] * (k + 1) < B =>
                         w[j][s.period[j] * k] + s.wcet[j] <= w[j][s.period[j] * (k + 1)]
  <2>1. ASSUME NEW j \in Services(s), NEW k \in Nat PROVE s.period[j] * (k + 1) \in Nat
    <3>1. PICK T \in Nat \ {0} : T = s.period[j]
      BY <1>1, ServiceTypes
    <3>2. T * (k + 1) \in Nat
      OBVIOUS
    <3> QED
      BY <3>1, <3>2
  <2>2. MissedBefore(B) = {} <=> \A j \in Services(s) : \A k \in Nat :
                         s.period[j] * (k + 1) < B =>
                           Given(j, 0, s.period[j] * k) + s.wcet[j]
                             <= Given(j, 0, s.period[j] * (k + 1))
    BY <1>1, NoMisses
  <2>3. \A j \in Services(s) : \A k \in Nat :
          s.period[j] * (k + 1) < B =>
            /\ w[j][s.period[j] * k] = Given(j, 0, s.period[j] * k)
            /\ w[j][s.period[j] * (k + 1)] = Given(j, 0, s.period[j] * (k + 1))
    BY <1>1, <1>3, <2>1
  <2> HIDE DEF w, ev, H, s
  <2> QED
    BY <2>2, <2>3
<1>5. ASSUME NEW i \in Services(s), InTime(s, i), NEW k \in Nat, s.period[i] * (k + 1) < B
      PROVE  w[i][s.period[i] * k] + s.wcet[i] <= w[i][s.period[i] * (k + 1)]
  <2>1. s.period[i] * (k + 1) <= H
    <3>1. PICK T \in Nat \ {0} : T = s.period[i]
      BY <1>1, ServiceTypes
    <3>2. T * (k + 1) \in Nat
      OBVIOUS
    <3> QED
      BY <1>1, <1>5, <3>1, <3>2
  <2> HIDE DEF w, ev, H, s
  <2> QED
    BY <1>1, <1>2, <1>5, <2>1, InTimeNoMiss
<1>6. ASSUME NEW i \in Services(s),
             \A j \in Services(s) : \A k \in Nat :
               s.period[j] * (k + 1) < B =>
                 w[j][s.period[j] * k] + s.wcet[j] <= w[j][s.period[j] * (k + 1)]
      PROVE  InTime(s, i)
  <2>1. /\ s.period[i] \in Nat /\ s.period[i] < B /\ s.period[i] <= H
        /\ 1 .. i \subseteq Services(s)
    <3>1. s.period[i] \in Nat /\ 1 .. i \subseteq Services(s)
      BY <1>1, ServiceSetTypes
    <3> QED
      BY <1>1, <3>1
  <2>2. ASSUME NEW j \in 1 .. i, NEW m \in Nat, s.period[j] * (m + 1) <= s.period[i]
        PROVE  w[j][s.period[j] * m] + s.wcet[j] <= w[j][s.period[j] * (m + 1)]
    <3>1. PICK T \in Nat \ {0} : T = s.period[j]
      BY <1>1, <2>1, ServiceTypes
    <3>2. T * (m + 1) \in Nat
      OBVIOUS
    <3>3. s.period[j] * (m + 1) < B
      BY <1>1, <2>1, <2>2, <3>1, <3>2
    <3> HIDE DEF w, ev, H, s
    <3> QED
      BY <1>6, <2>1, <3>3
  <2> HIDE DEF w, ev, H, s
  <2> QED
    BY <1>1, <1>2, <2>1, <2>2, NoMissInTime
<1> HIDE DEF w, ev, H
<1> QED
  BY <1>4, <1>5, <1>6

\* For every set of services whose tests end, both tests in both versions and, when it is
\* long enough, the engine under rate monotonic agree.
THEOREM TestsAreRight == ScheduleSpec => []TestsAgree
<1>1. EngineInv /\ AllFollowed => TestsAgree
  <2> SUFFICES ASSUME EngineInv, AllFollowed, Now = TICKS, protocol = "RM", Ends(services)
               PROVE  LET fits == completion_time_feasibility(services, services.period)
                      IN  /\ completion_time_feasibility_updated(services) = fits
                          /\ scheduling_point_feasibility(services) = fits
                          /\ (\A s \in Services(services) : services.period[s] <= TICKS) =>
                               (MissedPeriods = {} <=> fits)
                          /\ (\A s \in Services(services) : services.period[s] < TICKS) =>
                               (misses = 0 <=> fits)
    BY DEF TestsAgree
  <2>1. IsServiceSet(services)
    BY DEF EngineInv, ScheduleTypeOK, IsServiceSet, Times
  <2>2. completion_time_feasibility_updated(services)
          = completion_time_feasibility(services, services.period)
    BY DEF completion_time_feasibility_updated, completion_time_feasibility
  <2>3. /\ completion_time_feasibility_updated(services)
             = scheduling_point_feasibility(services)
        /\ scheduling_point_feasibility(services)
             <=> \A i \in Services(services) : InTime(services, i)
    BY <2>1, BothTestsAgree
  <2>4. TICKS \in Nat /\ ScheduleTypeOK /\ CountedInv
    BY ScheduleAssumption DEF EngineInv, TICKS
  <2>5. (\A s \in Services(services) : services.period[s] < TICKS) =>
          (misses = 0 <=> \A i \in Services(services) : InTime(services, i))
    <3> SUFFICES ASSUME \A s \in Services(services) : services.period[s] < TICKS
                 PROVE  misses = 0 <=> \A i \in Services(services) : InTime(services, i)
      OBVIOUS
    <3>1. TICKS <= TICKS + 1
      BY <2>4
    <3>2. MissedBefore(TICKS) = {} <=> \A i \in Services(services) : InTime(services, i)
      BY <2>4, <3>1, EngineInTime
    <3>3. misses = 0 <=> MissedBefore(TICKS) = {}
      BY <2>4, NoneCounted DEF CountedPeriods
    <3> QED
      BY <3>2, <3>3
  <2>6. (\A s \in Services(services) : services.period[s] <= TICKS) =>
          (MissedPeriods = {} <=> \A i \in Services(services) : InTime(services, i))
    <3> SUFFICES ASSUME \A s \in Services(services) : services.period[s] <= TICKS
                 PROVE  MissedPeriods = {} <=> \A i \in Services(services) : InTime(services, i)
      OBVIOUS
    <3>1. TICKS + 1 \in Nat /\ TICKS + 1 <= TICKS + 1
      BY <2>4
    <3>2. \A s \in Services(services) : services.period[s] < TICKS + 1
      BY <2>1, <2>4, ServiceSetTypes
    <3>3. MissedBefore(TICKS + 1) = {} <=> \A i \in Services(services) : InTime(services, i)
      BY <3>1, <3>2, EngineInTime
    <3>4. MissedPeriods = MissedBefore(TICKS + 1)
      BY <2>4, MissedPeriodsAre
    <3> QED
      BY <3>3, <3>4
  <2> QED
    BY <2>2, <2>3, <2>5, <2>6
<1>2. ScheduleInit => AllFollowed
  <2> SUFFICES ASSUME ScheduleInit PROVE \A u \in Nat : ~(u < 0)
    BY DEF ScheduleInit, AllFollowed, Now
  <2> QED
    OBVIOUS
<1>3. EngineInv /\ AllFollowed /\ [ScheduleNext]_scheduleVars => AllFollowed'
  <2>1. AllFollowed /\ UNCHANGED scheduleVars => AllFollowed'
    <3> SUFFICES ASSUME AllFollowed, UNCHANGED scheduleVars, NEW u \in Nat, u < Now
                 PROVE  Followed(u)'
      BY DEF scheduleVars, AllFollowed, Now
    <3>1. Followed(u)
      BY DEF AllFollowed
    <3>2. services' = services /\ protocol' = protocol /\ events' = events
      BY DEF scheduleVars
    <3>3. \A r : Needs(r, u)' = Needs(r, u) /\ TimeLeft(r, u)' = TimeLeft(r, u)
      BY <3>2 DEF Needs, TimeLeft, PeriodOf, Given
    <3>4. Services(services)' = Services(services)
      BY <3>2 DEF Services
    <3> QED
      BY <3>1, <3>2, <3>3, <3>4 DEF Followed
  <2> QED
    BY <2>1, AllFollowedStep DEF ScheduleNext
<1> QED
  BY <1>1, <1>2, <1>3, EngineInvariance, PTL DEF ScheduleSpec

=============================================================================
