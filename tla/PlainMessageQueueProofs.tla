----------------------- MODULE PlainMessageQueueProofs -----------------------
(***************************************************************************)
(* Proofs about PlainMessageQueue for every set of messages and drainers:  *)
(* the inductive invariant, what follows from it, and that the polling     *)
(* queue implements the safety half of the abstract MessageQueue.          *)
(***************************************************************************)
EXTENDS PlainMessageQueue, SequenceTheorems, TLAPS

(***************************************************************************)
(* Type correctness.                                                       *)
(***************************************************************************)
LEMMA TypeInit == Init => TypeOK
<1> SUFFICES ASSUME Init PROVE TypeOK
  OBVIOUS
<1>1. \A S : <<>> \in Seq(S)
  BY EmptySeq
<1> QED
  BY <1>1 DEF Init, TypeOK, WorkerPC, DrainPC

\* What the worker and the clients make of the sequences.
LEMMA SequenceTypes ==
  ASSUME TypeOK
  PROVE  /\ \A m \in Messages : Append(que, m) \in Seq(Messages)
         /\ \A m \in Messages : Append(pushed, m) \in Seq(Messages)
         /\ Append(delivered, held) \in Seq(Messages \cup {NoMessage})
         /\ que # <<>> => Head(que) \in Messages /\ Tail(que) \in Seq(Messages)
         /\ Len(pushed) \in Nat /\ Len(que) \in Nat /\ Len(delivered) \in Nat
  BY AppendProperties, HeadTailProperties, LenProperties DEF TypeOK

LEMMA TypeStep == TypeOK /\ [Next]_vars => TypeOK'
<1> SUFFICES ASSUME TypeOK, [Next]_vars PROVE TypeOK'
  OBVIOUS
<1> USE DEF TypeOK, WorkerPC, DrainPC, queVars, workerVars, drainVars
<1>1. ASSUME NEW m \in Messages, Push(m) PROVE TypeOK'
  BY <1>1, SequenceTypes DEF Push
<1>2. CASE WorkerStop
  BY <1>2 DEF WorkerStop
<1>3. CASE WorkerCompare
  BY <1>3 DEF WorkerCompare
<1>4. CASE WorkerPeek
  BY <1>4, SequenceTypes DEF WorkerPeek
<1>5. CASE WorkerConsume
  BY <1>5, SequenceTypes DEF WorkerConsume
<1>6. CASE WorkerPop
  <2>1. que' \in Seq(Messages)
    BY <1>6, SequenceTypes DEF WorkerPop
  <2>2. applied' \in Nat /\ wpc' \in WorkerPC /\ held' \in Messages \cup {NoMessage}
    BY <1>6 DEF WorkerPop
  <2> QED
    BY <1>6, <2>1, <2>2 DEF WorkerPop
<1>7. ASSUME NEW d \in Drainers, DrainCall(d) PROVE TypeOK'
  BY <1>7, SequenceTypes DEF DrainCall
<1>8. ASSUME NEW d \in Drainers, DrainStep(d) PROVE TypeOK'
  <2>1. CASE DrainLock(d)
    <3>1. dpc' \in [Drainers -> DrainPC] /\ target' \in [Drainers -> Nat]
      BY <2>1 DEF DrainLock
    <3> QED
      BY <2>1, <3>1 DEF DrainLock
  <2>2. CASE DrainPoll(d)
    BY <2>2 DEF DrainPoll
  <2>3. CASE DrainReturn(d)
    BY <2>3 DEF DrainReturn
  <2> QED
    BY <1>8, <2>1, <2>2, <2>3 DEF DrainStep
<1>9. CASE DestructorStop \/ DestructorJoin
  BY <1>9 DEF DestructorStop, DestructorJoin
<1>10. CASE UNCHANGED vars
  BY <1>10 DEF vars
<1> QED
  BY <1>1, <1>2, <1>3, <1>4, <1>5, <1>6, <1>7, <1>8, <1>9, <1>10 DEF Next, WorkerStep

-----------------------------------------------------------------------------
(***************************************************************************)
(* The inductive invariant.                                                *)
(***************************************************************************)
LEMMA InvInit == Init => IInv
<1> SUFFICES ASSUME Init PROVE IInv
  OBVIOUS
<1>1. TypeOK
  BY TypeInit
<1>2. Len(<<>>) = 0
  BY EmptySeq
<1>3. QueueFollowsHistory
  BY <1>2 DEF Init, QueueFollowsHistory
<1>4. WorkerKnows /\ DeliveredSoFar
  BY <1>2 DEF Init, WorkerKnows, DeliveredSoFar
<1>5. \A d \in Drainers : DrainerKnows(d)
  BY DEF Init, DrainerKnows
<1> QED
  BY <1>1, <1>3, <1>4, <1>5 DEF IInv

\* A message more, at the end of the history and of the queue.
LEMMA InvPush ==
  ASSUME IInv, TypeOK', NEW m \in Messages, Push(m)
  PROVE  IInv'
<1> USE DEF IInv, TypeOK
<1>1. Len(pushed) \in Nat /\ Len(que) \in Nat /\ Len(delivered) \in Nat
  BY SequenceTypes
<1>2. /\ Len(pushed') = Len(pushed) + 1
      /\ pushed'[Len(pushed) + 1] = m
      /\ \A i \in 1 .. Len(pushed) : pushed'[i] = pushed[i]
  BY AppendProperties DEF Push
<1>3. /\ Len(que') = Len(que) + 1
      /\ que'[Len(que) + 1] = m
      /\ \A i \in 1 .. Len(que) : que'[i] = que[i]
  BY AppendProperties DEF Push
<1>4. ver' = ver + 1 /\ applied' = applied /\ UNCHANGED <<workerVars, drainVars, delivered>>
  BY DEF Push, queVars
<1>5. QueueFollowsHistory'
  <2>1. \A i \in 1 .. Len(que') : que'[i] = pushed'[applied' + i]
    <3> SUFFICES ASSUME NEW i \in 1 .. Len(que') PROVE que'[i] = pushed'[applied + i]
      BY <1>4
    <3>1. CASE i = Len(que) + 1
      <4>1. applied + i = Len(pushed) + 1
        BY <3>1, <1>1 DEF QueueFollowsHistory
      <4> QED
        BY <3>1, <4>1, <1>2, <1>3
    <3>2. CASE i \in 1 .. Len(que)
      <4>1. applied + i \in 1 .. Len(pushed)
        BY <3>2, <1>1 DEF QueueFollowsHistory
      <4> QED
        BY <3>2, <4>1, <1>2, <1>3 DEF QueueFollowsHistory
    <3> QED
      BY <3>1, <3>2, <1>1, <1>3
  <2> QED
    BY <2>1, <1>1, <1>2, <1>3, <1>4 DEF QueueFollowsHistory
<1>6. WorkerKnows'
  <2>1. wpc \in {"consume", "pop"} => applied + 1 \in 1 .. Len(pushed)
    BY <1>1 DEF QueueFollowsHistory, WorkerKnows
  <2> QED
    BY <2>1, <1>2, <1>4 DEF WorkerKnows, workerVars
<1>7. DeliveredSoFar'
  <2>1. Len(delivered) <= Len(pushed)
    BY <1>1 DEF QueueFollowsHistory, WorkerKnows, DeliveredSoFar
  <2>2. \A i \in 1 .. Len(delivered) : pushed'[i] = pushed[i]
    BY <2>1, <1>1, <1>2
  <2> QED
    BY <2>2, <1>4 DEF DeliveredSoFar, workerVars
<1>8. \A d \in Drainers : DrainerKnows(d)'
  BY <1>4 DEF DrainerKnows, drainVars
<1> QED
  BY <1>5, <1>6, <1>7, <1>8

\* The queue, the versions and the history stay as they are, and so does what
\* the other threads know.
LEMMA QueueKept ==
  ASSUME IInv, TypeOK', UNCHANGED <<que, ver, applied, pushed>>,
         WorkerKnows', DeliveredSoFar', \A d \in Drainers : DrainerKnows(d)'
  PROVE  IInv'
  BY DEF IInv, QueueFollowsHistory

\* The steps of the worker before it pops.
LEMMA InvWork ==
  ASSUME IInv, TypeOK', WorkerStop \/ WorkerCompare \/ WorkerPeek \/ WorkerConsume
  PROVE  IInv'
<1> USE DEF IInv, TypeOK
<1>1. UNCHANGED <<que, ver, applied, pushed, drainVars>>
  BY DEF WorkerStop, WorkerCompare, WorkerPeek, WorkerConsume, queVars
<1>2. \A d \in Drainers : DrainerKnows(d)'
  BY <1>1 DEF DrainerKnows, drainVars
<1>3. Len(que) \in Nat /\ Len(delivered) \in Nat
  BY SequenceTypes
<1>4. CASE WorkerStop
  BY <1>1, <1>2, <1>4, QueueKept DEF WorkerStop, WorkerKnows, DeliveredSoFar
<1>5. CASE WorkerCompare
  <2>1. ver # applied => applied < ver
    BY DEF QueueFollowsHistory
  <2> QED
    BY <1>1, <1>2, <1>5, <2>1, QueueKept DEF WorkerCompare, WorkerKnows, DeliveredSoFar
<1>6. CASE WorkerPeek
  <2>1. applied < ver
    BY <1>6 DEF WorkerPeek, WorkerKnows
  <2>2. que # <<>> /\ 1 \in 1 .. Len(que)
    BY <2>1, <1>3, EmptySeq DEF QueueFollowsHistory
  <2>3. Head(que) = pushed[applied + 1]
    BY <2>2 DEF QueueFollowsHistory
  <2>4. WorkerKnows'
    BY <1>1, <1>6, <2>1, <2>2, <2>3 DEF WorkerPeek, WorkerKnows
  <2>5. DeliveredSoFar'
    BY <1>1, <1>6, <2>2 DEF WorkerPeek, DeliveredSoFar
  <2> QED
    BY <1>1, <1>2, <2>4, <2>5, QueueKept
<1>7. CASE WorkerConsume
  <2>1. /\ Len(delivered') = Len(delivered) + 1
        /\ delivered'[Len(delivered) + 1] = held
        /\ \A i \in 1 .. Len(delivered) : delivered'[i] = delivered[i]
    BY <1>7, AppendProperties DEF WorkerConsume
  <2>2. Len(delivered) = applied /\ held = pushed[applied + 1]
    BY <1>7 DEF WorkerConsume, WorkerKnows, DeliveredSoFar
  <2>3. DeliveredSoFar'
    <3>1. Len(delivered') = applied' + 1 /\ wpc' = "pop"
      BY <1>1, <1>7, <2>1, <2>2 DEF WorkerConsume
    <3>2. ASSUME NEW i \in 1 .. Len(delivered') PROVE delivered'[i] = pushed[i]
      <4>1. CASE i = Len(delivered) + 1
        BY <4>1, <2>1, <2>2
      <4>2. CASE i \in 1 .. Len(delivered)
        BY <4>2, <2>1 DEF DeliveredSoFar
      <4> QED
        BY <4>1, <4>2, <2>1, <1>3
    <3> QED
      BY <1>1, <3>1, <3>2 DEF DeliveredSoFar
  <2>4. WorkerKnows'
    BY <1>1, <1>7 DEF WorkerConsume, WorkerKnows
  <2> QED
    BY <1>1, <1>2, <2>3, <2>4, QueueKept
<1> QED
  BY <1>4, <1>5, <1>6, <1>7

LEMMA InvPop ==
  ASSUME IInv, TypeOK', WorkerPop
  PROVE  /\ IInv'
         /\ applied < ver
         /\ applied' = applied + 1
<1> USE DEF IInv, TypeOK
<1>1. Len(pushed) \in Nat /\ Len(que) \in Nat /\ Len(delivered) \in Nat
  BY SequenceTypes
<1>2. applied < ver
  BY DEF WorkerPop, WorkerKnows
<1>3. que # <<>>
  BY <1>1, <1>2, EmptySeq DEF QueueFollowsHistory
<1>4. /\ que' = Tail(que)
      /\ applied' = applied + 1
      /\ wpc = "pop" /\ wpc' = "stop?"
      /\ UNCHANGED <<ver, drainVars, pushed, delivered>>
  BY <1>3 DEF WorkerPop
<1>5. /\ Len(que') = Len(que) - 1
      /\ \A i \in 1 .. Len(que') : que'[i] = que[i + 1]
  BY <1>3, <1>4, HeadTailProperties
<1>6. QueueFollowsHistory'
  <2>1. ASSUME NEW i \in 1 .. Len(que') PROVE que'[i] = pushed[(applied + 1) + i]
    <3>1. i + 1 \in 1 .. Len(que) /\ applied + (i + 1) = (applied + 1) + i
      BY <1>1, <1>5
    <3>2. que[i + 1] = pushed[applied + (i + 1)]
      BY <3>1 DEF QueueFollowsHistory
    <3> QED
      BY <3>1, <3>2, <1>5
  <2>2. /\ ver' = Len(pushed')
        /\ applied' <= ver'
        /\ Len(que') = ver' - applied'
    <3>1. ver \in Nat /\ applied \in Nat /\ ver = Len(pushed) /\ Len(que) = ver - applied
      BY DEF QueueFollowsHistory
    <3> HIDE DEF IInv, TypeOK
    <3>2. Len(que') = (ver - applied) - 1
      BY <3>1, <1>5
    <3>3. ver' = Len(pushed') /\ ver' = ver
      BY <3>1, <1>4
    <3> QED
      BY <3>1, <3>2, <3>3, <1>2, <1>4
  <2>3. \A i \in 1 .. Len(que') : que'[i] = pushed'[applied' + i]
    BY <2>1, <1>4
  <2> QED
    BY <2>2, <2>3 DEF QueueFollowsHistory
<1>7. WorkerKnows'
  BY <1>4 DEF WorkerKnows
<1>8. DeliveredSoFar'
  BY <1>4 DEF DeliveredSoFar
<1>9. \A d \in Drainers : DrainerKnows(d)'
  BY <1>4 DEF DrainerKnows, drainVars
<1> QED
  BY <1>2, <1>4, <1>6, <1>7, <1>8, <1>9

LEMMA InvDrain ==
  ASSUME IInv, TypeOK', NEW d \in Drainers, DrainCall(d) \/ DrainStep(d)
  PROVE  IInv'
<1> USE DEF IInv, TypeOK
<1>1. UNCHANGED <<que, ver, applied, pushed, wpc, held, delivered>>
  BY DEF DrainCall, DrainStep, DrainLock, DrainPoll, DrainReturn, queVars, workerVars
<1>2. WorkerKnows' /\ DeliveredSoFar'
  BY <1>1 DEF WorkerKnows, DeliveredSoFar
<1>3. ASSUME NEW e \in Drainers PROVE DrainerKnows(e)'
  <2>1. DrainerKnows(e) /\ ver = Len(pushed)
    BY DEF QueueFollowsHistory
  <2>2. CASE DrainCall(d)
    BY <1>1, <2>1, <2>2 DEF DrainCall, DrainerKnows
  <2>3. CASE DrainLock(d)
    BY <1>1, <2>1, <2>3 DEF DrainLock, DrainerKnows
  <2>4. CASE DrainPoll(d)
    BY <1>1, <2>1, <2>4 DEF DrainPoll, DrainerKnows
  <2>5. CASE DrainReturn(d)
    BY <1>1, <2>1, <2>5 DEF DrainReturn, DrainerKnows
  <2> QED
    BY <2>2, <2>3, <2>4, <2>5 DEF DrainStep
<1> QED
  BY <1>1, <1>2, <1>3, QueueKept

LEMMA InvStep == IInv /\ [Next]_vars => IInv'
<1> SUFFICES ASSUME IInv, [Next]_vars PROVE IInv'
  OBVIOUS
<1>1. TypeOK'
  BY TypeStep DEF IInv
<1>2. ASSUME NEW m \in Messages, Push(m) PROVE IInv'
  BY <1>1, <1>2, InvPush
<1>3. CASE WorkerStep
  BY <1>1, <1>3, InvWork, InvPop DEF WorkerStep
<1>4. ASSUME NEW d \in Drainers, DrainCall(d) \/ DrainStep(d) PROVE IInv'
  BY <1>1, <1>4, InvDrain
<1>5. CASE DestructorStop \/ DestructorJoin \/ UNCHANGED vars
  <2>1. UNCHANGED <<queVars, workerVars, drainVars, pushed, delivered>>
    BY <1>5 DEF DestructorStop, DestructorJoin, vars
  <2>2. WorkerKnows' /\ DeliveredSoFar' /\ \A d \in Drainers : DrainerKnows(d)'
    BY <2>1 DEF IInv, WorkerKnows, DeliveredSoFar, DrainerKnows, queVars, workerVars, drainVars
  <2> QED
    BY <1>1, <2>1, <2>2, QueueKept DEF queVars
<1> QED
  BY <1>2, <1>3, <1>4, <1>5 DEF Next

\* The inductive invariant holds in every reachable state.
THEOREM Invariant == Spec => []IInv
<1> QED
  BY InvInit, InvStep, PTL DEF Spec, SafetySpec

\* The worker never meets an empty queue, although it compares ver_ and
\* applied_ver_ without the mutex (plain_msg_queue_impl.cpp:60-69).
THEOREM NeverDown == Spec => []ConsumerNeverDown
<1>1. IInv => ConsumerNeverDown
  BY DEF IInv, WorkerKnows, ConsumerNeverDown
<1> QED
  BY <1>1, Invariant, PTL

LEMMA InvImpliesInOrder == IInv => DeliveredInOrderOnce
<1> SUFFICES ASSUME IInv PROVE delivered = SubSeq(pushed, 1, Len(delivered))
  BY DEF IInv, DeliveredSoFar, DeliveredInOrderOnce
<1> DEFINE n == Len(delivered)
           p == SubSeq(pushed, 1, n)
           S == Messages \cup {NoMessage}
<1>1. /\ DeliveredSoFar
      /\ pushed \in Seq(Messages)
      /\ delivered \in Seq(S)
      /\ n \in Nat
      /\ Len(pushed) \in Nat
  BY SequenceTypes DEF IInv, TypeOK
<1>2. n <= Len(pushed)
  BY <1>1 DEF IInv, TypeOK, QueueFollowsHistory, WorkerKnows, DeliveredSoFar
<1>3. \A i \in 1 .. n : pushed[i] \in S
  BY <1>1, <1>2, ElementOfSeq
<1>4. p \in Seq(S) /\ Len(p) = n /\ \A i \in 1 .. n : p[i] = pushed[i]
  <2> HIDE DEF n, S
  <2>1. /\ p \in Seq(S)
        /\ Len(p) = IF 1 <= n THEN n - 1 + 1 ELSE 0
        /\ \A i \in 1 .. n - 1 + 1 : p[i] = pushed[1 + i - 1]
    BY <1>1, <1>3, SubSeqProperties
  <2> QED
    BY <1>1, <2>1
<1>5. \A i \in 1 .. n : delivered[i] = p[i]
  BY <1>1, <1>4 DEF DeliveredSoFar
<1> HIDE DEF p, S
<1> QED
  BY <1>1, <1>4, <1>5, SeqEqual DEF p

\* Messages are handed over in the order they were pushed, each once, wherever
\* the destructor stops the worker (plain_msg_queue_impl.cpp:9-14, 56-73).
THEOREM InOrderOnce == Spec => []DeliveredInOrderOnce
<1> QED
  BY Invariant, InvImpliesInOrder, PTL

-----------------------------------------------------------------------------
(***************************************************************************)
(* The refinement of MessageQueue with one shard.                          *)
(***************************************************************************)
LEMMA RefinesInit == Init => Queue!QueueInit
  BY DEF Init, Queue!QueueInit, Queue!NotWaiting

LEMMA RefinesPush ==
  ASSUME NEW m \in Messages, Push(m)
  PROVE  Queue!Push(m)
  BY DEF Push, Queue!Push, drainVars

LEMMA RefinesPop ==
  ASSUME IInv, TypeOK', WorkerPop
  PROVE  Queue!Pop(0)
<1>1. applied < Len(pushed) /\ applied' = applied + 1
  BY InvPop DEF IInv, QueueFollowsHistory
<1>2. UNCHANGED <<pushed, drainVars>>
  BY DEF WorkerPop
<1> QED
  BY <1>1, <1>2 DEF Queue!Pop, Queue!CanPeek, drainVars

\* Entering WaitDrain takes the versions of that moment, although the code
\* reads ver_ only later.
LEMMA RefinesDrainCall ==
  ASSUME TypeOK, NEW d \in Drainers, DrainCall(d)
  PROVE  Queue!WaitDrainCall(d)
  BY DEF TypeOK, DrainCall, Queue!WaitDrainCall, Queue!NotWaiting, queVars

\* WaitDrain returns when what was pushed before its call is applied.
LEMMA RefinesDrainReturn ==
  ASSUME IInv, NEW d \in Drainers, DrainReturn(d)
  PROVE  Queue!WaitDrainReturn(d)
<1>1. called[d] <= applied
  BY DEF IInv, TypeOK, DrainerKnows, DrainReturn
<1>2. dpc[d] = "return" /\ dpc \in [Drainers -> DrainPC]
  BY DEF IInv, TypeOK, DrainReturn
<1> DEFINE Target(e) == IF dpc[e] = "idle" THEN [s \in {} |-> 0] ELSE [s \in {0} |-> called[e]]
<1>3. Target(d) = [s \in {0} |-> called[d]] /\ Target(d) # [s \in {} |-> 0]
  BY <1>2
<1>4. \A e \in Drainers : Target(e)' = IF e = d THEN [s \in {} |-> 0] ELSE Target(e)
  BY <1>2 DEF IInv, TypeOK, DrainReturn
<1>5. UNCHANGED <<pushed, applied>>
  BY DEF DrainReturn, queVars
<1> HIDE DEF Target
<1>6. [e \in Drainers |-> Target(e)]'
      = [[e \in Drainers |-> Target(e)] EXCEPT ![d] = [s \in {} |-> 0]]
  BY <1>4
<1> QED
  BY <1>1, <1>3, <1>5, <1>6 DEF Queue!WaitDrainReturn, Queue!NotWaiting, Target

LEMMA RefinesStutter ==
  ASSUME UNCHANGED <<pushed, applied, called>>,
         \A d \in Drainers : dpc'[d] = "idle" <=> dpc[d] = "idle"
  PROVE  UNCHANGED Queue!queueVars
  BY DEF Queue!queueVars

LEMMA RefinesStep ==
  ASSUME IInv, [Next]_vars
  PROVE  [Queue!QueueNext]_(Queue!queueVars)
<1>1. TypeOK /\ TypeOK'
  BY TypeStep DEF IInv
<1>2. ASSUME NEW m \in Messages, Push(m) PROVE Queue!QueueNext
  BY <1>2, RefinesPush DEF Queue!QueueNext
<1>3. CASE WorkerPop
  BY <1>1, <1>3, RefinesPop DEF Queue!QueueNext
<1>4. ASSUME NEW d \in Drainers, DrainCall(d) PROVE Queue!QueueNext
  BY <1>1, <1>4, RefinesDrainCall DEF Queue!QueueNext
<1>5. ASSUME NEW d \in Drainers, DrainReturn(d) PROVE Queue!QueueNext
  BY <1>5, RefinesDrainReturn DEF Queue!QueueNext
<1>6. ASSUME NEW d \in Drainers, DrainLock(d) \/ DrainPoll(d)
      PROVE  UNCHANGED Queue!queueVars
  <2>1. UNCHANGED <<pushed, applied, called>>
    BY <1>6 DEF DrainLock, DrainPoll, queVars
  <2>2. \A e \in Drainers : dpc'[e] = "idle" <=> dpc[e] = "idle"
    BY <1>1, <1>6 DEF TypeOK, DrainLock, DrainPoll
  <2> QED
    BY <2>1, <2>2, RefinesStutter
<1>7. CASE \/ WorkerStop \/ WorkerCompare \/ WorkerPeek \/ WorkerConsume
           \/ DestructorStop \/ DestructorJoin \/ UNCHANGED vars
  <2>1. UNCHANGED <<pushed, applied, called, dpc>>
    BY <1>7 DEF WorkerStop, WorkerCompare, WorkerPeek, WorkerConsume, DestructorStop,
                DestructorJoin, vars, queVars, drainVars
  <2> QED
    BY <2>1, RefinesStutter
<1> QED
  BY <1>2, <1>3, <1>4, <1>5, <1>6, <1>7 DEF Next, WorkerStep, DrainStep

\* The polling queue keeps the safety half of what msg_queue.h promises, for
\* any number of messages and callers: order, one application per message, and
\* a WaitDrain that returns only after everything pushed before it, although
\* others push between its polls (plain_msg_queue_impl.cpp:16-73).
THEOREM Refinement == Spec => ImplementsQueue
<1> QED
  BY RefinesInit, RefinesStep, Invariant, PTL
     DEF Spec, SafetySpec, ImplementsQueue, Queue!QueueSafetySpec
=============================================================================
