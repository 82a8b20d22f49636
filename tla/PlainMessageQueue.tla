-------------------------- MODULE PlainMessageQueue --------------------------
(***************************************************************************)
(* The plain message queue of                                              *)
(* src/plain_vanilla_impl/plain_msg_queue_impl.{h,cpp}: one queue, one     *)
(* mutex, one worker that polls, a WaitDrain that polls, and a destructor  *)
(* that stops the worker without waiting for the queue to drain.           *)
(*                                                                         *)
(* Atomicity.  A critical section of mtx_ is one step.  The worker reads   *)
(* stop_, ver_ and applied_ver_ without the mutex, each in a step of its   *)
(* own.  ver_ is not atomic, so that read races with Push; the loop makes  *)
(* calls the compiler cannot see through, so it reads memory every turn,   *)
(* and an aligned 64-bit load returns the value before or after an         *)
(* increment: the model lets it fall on either side of the whole Push.     *)
(* applied_ver_ is written by no thread but the worker.                    *)
(***************************************************************************)
EXTENDS Integers, Sequences

CONSTANTS
  Messages,     \* kSet and kDel messages with their arguments
  Drainers,     \* threads that call WaitDrain
  NoMessage,    \* the worker holds nothing
  MaxPushes     \* bound: messages ever pushed

ASSUME PlainNoMessageAssumption == NoMessage \notin Messages
ASSUME PlainMaxPushesAssumption == MaxPushes \in Nat

VARIABLES
  que,          \* que_
  ver,          \* ver_
  applied,      \* applied_ver_
  stop,         \* stop_
  joined,       \* the destructor has joined the worker
  wpc,          \* where the worker is
  held,         \* the message it has peeked and not yet popped
  dpc,          \* where each drainer is
  target,       \* its target_ver
  pushed,       \* history: the messages pushed
  delivered,    \* history: the messages given to the consume function
  called        \* history: Len(pushed) when each drainer entered WaitDrain

queVars == <<que, ver, applied>>
workerVars == <<wpc, held>>
drainVars == <<dpc, target, called>>
vars == <<queVars, workerVars, drainVars, stop, joined, pushed, delivered>>

WorkerPC == {"stop?",     \* while (!stop_)
             "compare",   \* ver_ == applied_ver_
             "peek", "consume", "pop",
             "exited",    \* saw stop_
             "down"}      \* exit(1)

DrainPC == {"idle", "lock", "sleep", "return"}

Init ==
  /\ que = <<>>
  /\ ver = 0
  /\ applied = 0
  /\ stop = FALSE
  /\ joined = FALSE
  /\ wpc = "stop?"
  /\ held = NoMessage
  /\ dpc = [d \in Drainers |-> "idle"]
  /\ target = [d \in Drainers |-> 0]
  /\ pushed = <<>>
  /\ delivered = <<>>
  /\ called = [d \in Drainers |-> 0]

-----------------------------------------------------------------------------
PushInFront(m) ==
  /\ ~ stop
  /\ Len(pushed) < MaxPushes
  /\ que' = <<m>> \o que
  /\ ver' = ver + 1
  /\ pushed' = Append(pushed, m)
  /\ UNCHANGED <<applied, stop, joined, workerVars, drainVars, delivered>>

Push(m) ==
  /\ ~ stop
  /\ Len(pushed) < MaxPushes
  /\ que' = Append(que, m)
  /\ ver' = ver + 1
  /\ pushed' = Append(pushed, m)
  /\ UNCHANGED <<applied, stop, joined, workerVars, drainVars, delivered>>

-----------------------------------------------------------------------------
(***************************************************************************)
(* The worker: the lambda of RegisterConsumeFunction.                      *)
(***************************************************************************)
\* The test of stop_ hoisted out of the loop.
WorkerStopHoisted ==
  /\ wpc = "stop?"
  /\ wpc' = "compare"
  /\ UNCHANGED <<queVars, held, drainVars, stop, joined, pushed, delivered>>

WorkerStop ==
  /\ wpc = "stop?"
  /\ wpc' = IF stop THEN "exited" ELSE "compare"
  /\ UNCHANGED <<queVars, held, drainVars, stop, joined, pushed, delivered>>

WorkerCompareNever ==
  /\ wpc = "compare"
  /\ wpc' = "peek"
  /\ UNCHANGED <<queVars, held, drainVars, stop, joined, pushed, delivered>>

\* Nothing new: sleep a millisecond and test stop_ again.
WorkerCompare ==
  /\ wpc = "compare"
  /\ wpc' = IF ver = applied THEN "stop?" ELSE "peek"
  /\ UNCHANGED <<queVars, held, drainVars, stop, joined, pushed, delivered>>

WorkerPeek ==
  /\ wpc = "peek"
  /\ wpc' = IF que = <<>> THEN "down" ELSE "consume"
  /\ held' = IF que = <<>> THEN held ELSE Head(que)
  /\ UNCHANGED <<queVars, drainVars, stop, joined, pushed, delivered>>

\* The switch of OpenHiKV::ConsumeMessageQueue, answered with kOk.
WorkerConsume ==
  /\ wpc = "consume"
  /\ delivered' = Append(delivered, held)
  /\ wpc' = "pop"
  /\ UNCHANGED <<queVars, held, drainVars, stop, joined, pushed>>

\* applied_ver_ counting down what is left to apply.
WorkerPopCountingDown ==
  /\ wpc = "pop"
  /\ que' = Tail(que)
  /\ applied' = applied - 1
  /\ wpc' = "stop?"
  /\ held' = NoMessage
  /\ UNCHANGED <<ver, drainVars, stop, joined, pushed, delivered>>

WorkerPop ==
  /\ wpc = "pop"
  /\ IF que = <<>>
     THEN /\ wpc' = "down"
          /\ UNCHANGED <<que, applied>>
     ELSE /\ que' = Tail(que)
          /\ applied' = applied + 1
          /\ wpc' = "stop?"
  /\ held' = NoMessage
  /\ UNCHANGED <<ver, drainVars, stop, joined, pushed, delivered>>

-----------------------------------------------------------------------------
(***************************************************************************)
(* WaitDrain: read ver_ under the mutex, then release it, sleep, take it   *)
(* and test again until applied_ver_ has caught up.                        *)
(***************************************************************************)
DrainCall(d) ==
  /\ dpc[d] = "idle"
  /\ ~ stop
  /\ dpc' = [dpc EXCEPT ![d] = "lock"]
  /\ called' = [called EXCEPT ![d] = Len(pushed)]
  /\ UNCHANGED <<queVars, workerVars, target, stop, joined, pushed, delivered>>

DrainLock(d) ==
  /\ dpc[d] = "lock"
  /\ target' = [target EXCEPT ![d] = ver]
  /\ dpc' = [dpc EXCEPT ![d] = IF ver > applied THEN "sleep" ELSE "return"]
  /\ UNCHANGED <<queVars, workerVars, called, stop, joined, pushed, delivered>>

\* A target that is already out of date when the sleep is over.
DrainPollOnce(d) ==
  /\ dpc[d] = "sleep"
  /\ dpc' = [dpc EXCEPT ![d] = "return"]
  /\ UNCHANGED <<queVars, workerVars, target, called, stop, joined, pushed, delivered>>

\* A target that moves on with every push.
DrainPollMoving(d) ==
  /\ dpc[d] = "sleep"
  /\ ~ (ver > applied)
  /\ dpc' = [dpc EXCEPT ![d] = "return"]
  /\ UNCHANGED <<queVars, workerVars, target, called, stop, joined, pushed, delivered>>

\* A poll that fails changes nothing, so only the one that succeeds is a step.
DrainPoll(d) ==
  /\ dpc[d] = "sleep"
  /\ ~ (target[d] > applied)
  /\ dpc' = [dpc EXCEPT ![d] = "return"]
  /\ UNCHANGED <<queVars, workerVars, target, called, stop, joined, pushed, delivered>>

DrainReturn(d) ==
  /\ dpc[d] = "return"
  /\ dpc' = [dpc EXCEPT ![d] = "idle"]
  /\ target' = [target EXCEPT ![d] = 0]
  /\ called' = [called EXCEPT ![d] = 0]
  /\ UNCHANGED <<queVars, workerVars, stop, joined, pushed, delivered>>

-----------------------------------------------------------------------------
(***************************************************************************)
(* ~MessageQueueImpl, which no other call may overlap.  What is still in   *)
(* the queue is never applied.                                             *)
(***************************************************************************)
DestructorStop ==
  /\ ~ stop
  /\ \A d \in Drainers : dpc[d] = "idle"
  /\ stop' = TRUE
  /\ UNCHANGED <<queVars, workerVars, drainVars, joined, pushed, delivered>>

DestructorJoin ==
  /\ stop /\ ~ joined
  /\ wpc = "exited"
  /\ joined' = TRUE
  /\ UNCHANGED <<queVars, workerVars, drainVars, stop, pushed, delivered>>

WorkerStep == WorkerStop \/ WorkerCompare \/ WorkerPeek \/ WorkerConsume \/ WorkerPop
DrainStep(d) == DrainLock(d) \/ DrainPoll(d) \/ DrainReturn(d)

Next ==
  \/ \E m \in Messages : Push(m)
  \/ WorkerStep
  \/ \E d \in Drainers : DrainCall(d) \/ DrainStep(d)
  \/ DestructorStop
  \/ DestructorJoin

\* A thread inside WaitDrain waits for the next message.
Awaited == \E d \in Drainers : dpc[d] = "sleep" /\ applied < target[d]

\* A thread inside WaitDrain and the destructor keep being scheduled.  So does the
\* worker in the code; here it owes only the messages up to the target of a thread
\* that waits, and its way out once stop_ is set, and may leave all else undone.
Fairness ==
  /\ WF_vars((stop \/ Awaited) /\ WorkerStep)
  /\ \A d \in Drainers : WF_vars(DrainStep(d))
  /\ WF_vars(DestructorJoin)

SafetySpec == Init /\ [][Next]_vars
Spec == SafetySpec /\ Fairness

-----------------------------------------------------------------------------
TypeOK ==
  /\ que \in Seq(Messages)
  /\ ver \in Nat
  /\ applied \in Nat
  /\ stop \in BOOLEAN
  /\ joined \in BOOLEAN
  /\ wpc \in WorkerPC
  /\ held \in Messages \cup {NoMessage}
  /\ dpc \in [Drainers -> DrainPC]
  /\ target \in [Drainers -> Nat]
  /\ pushed \in Seq(Messages)
  /\ delivered \in Seq(Messages \cup {NoMessage})
  /\ called \in [Drainers -> Nat]

\* Although it compares the versions without the mutex, the worker never peeks
\* or pops an empty queue, which would be exit(1)
\* (plain_msg_queue_impl.cpp:60-69).
ConsumerNeverDown == wpc # "down"

\* Messages are handed over in the order they were pushed, each once, also
\* while the destructor is stopping the worker half-way through the queue.
DeliveredInOrderOnce ==
  /\ delivered = SubSeq(pushed, 1, Len(delivered))
  /\ Len(delivered) = applied + IF wpc = "pop" THEN 1 ELSE 0

\* The parts of the inductive invariant.

\* Both versions count messages, and what is queued is what the worker has not
\* popped.
QueueFollowsHistory ==
  /\ ver = Len(pushed)
  /\ applied <= ver
  /\ Len(que) = ver - applied
  /\ \A i \in 1 .. Len(que) : que[i] = pushed[applied + i]

\* Past the comparison the worker has something to peek and to pop, since only
\* it pops.
WorkerKnows ==
  /\ wpc # "down"
  /\ wpc \in {"peek", "consume", "pop"} => applied < ver
  /\ wpc \in {"consume", "pop"} => held = pushed[applied + 1]

DeliveredSoFar ==
  /\ Len(delivered) = applied + IF wpc = "pop" THEN 1 ELSE 0
  /\ \A i \in 1 .. Len(delivered) : delivered[i] = pushed[i]

\* What a drainer waits for covers what was pushed before its call.
DrainerKnows(d) ==
  /\ called[d] <= ver
  /\ dpc[d] \in {"sleep", "return"} => called[d] <= target[d]
  /\ dpc[d] = "return" => target[d] <= applied

\* The inductive invariant of PlainMessageQueueProofs.
IInv ==
  /\ TypeOK
  /\ QueueFollowsHistory
  /\ WorkerKnows
  /\ DeliveredSoFar
  /\ \A d \in Drainers : DrainerKnows(d)

\* WaitDrain returns, however often its caller polls too early, even if no message
\* behind its target is ever applied: others that go on pushing cannot hold it up
\* (plain_msg_queue_impl.cpp:45-54).
DrainTerminates == \A d \in Drainers : dpc[d] = "lock" ~> dpc[d] = "return"

\* The destructor joins the worker, whatever it was doing when stop_ was set.
DestructorTerminates == stop ~> joined

-----------------------------------------------------------------------------
\* The single shard of the abstract queue.
Queue == INSTANCE MessageQueue WITH
  Shards <- {0},
  ShardOf <- [m \in Messages |-> 0],
  Callers <- Drainers,
  log <- [s \in {0} |-> pushed],
  applied <- [s \in {0} |-> applied],
  target <- [d \in Drainers |->
               IF dpc[d] = "idle" THEN [s \in {} |-> 0] ELSE [s \in {0} |-> called[d]]]

\* The plain queue keeps the safety half of the promise: in particular, when
\* WaitDrain returns, what was pushed before it was called is applied, although
\* other threads push between its polls (plain_msg_queue_impl.cpp:45-54).  It does
\* not keep the liveness half: after ~MessageQueueImpl, pushed messages are never
\* popped.
ImplementsQueue == Queue!QueueSafetySpec
=============================================================================
