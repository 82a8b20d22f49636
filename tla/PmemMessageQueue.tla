-------------------------- MODULE PmemMessageQueue --------------------------
(***************************************************************************)
(* The sharded message queue of src/pmem_impl/pmem_msg_queue_impl.{h,cpp}: *)
(* MessageQueueUnit (one queue, its mutex and its condition variable) and  *)
(* MessageQueueImpl (kMessageQueueShardNum units, one worker thread per    *)
(* unit, WaitDrain over all units, a destructor that closes and joins).    *)
(*                                                                         *)
(* Threads: clients that Push (a Push is one critical section, so pushing  *)
(* threads need no state), Drainers that call WaitDrain, one worker per    *)
(* shard, and the thread that runs the destructor.                         *)
(*                                                                         *)
(* Atomicity.  Everything a thread does between taking mtx_ and releasing  *)
(* it is one step: no other thread sees the inside of it.  cv_.wait ends a *)
(* step when it sleeps, and the step that wakes holds mtx_ again.  The two *)
(* places that read an atomic without mtx_ (GetCurrentVersion and the      *)
(* first test of MessageQueueUnit::WaitDrain) are steps of their own.      *)
(***************************************************************************)
EXTENDS Integers, Sequences

CONSTANTS
  N,            \* kMessageQueueShardNum
  SizeT,        \* the number of values of a size_t: rand_num wraps at it
  Messages,     \* kSet and kDel messages with their arguments
  ShardOf,      \* Hash(first) % que_vec_.size()
  Drainers,     \* threads that call WaitDrain
  NoMessage,    \* the body of a kNotify and of a kClose, both ignored
  MaxPushes     \* bound: client messages a shard is ever given

Shards == 0 .. N - 1

ASSUME NAssumption == N \in Nat \ {0}
ASSUME SizeTAssumption == SizeT \in Nat \ {0} /\ SizeT % N = 0
ASSUME ShardOfAssumption == ShardOf \in [Messages -> Shards]
ASSUME NoMessageAssumption == NoMessage \notin Messages
ASSUME MaxPushesAssumption == MaxPushes \in Nat

VARIABLES
  que,          \* que_ of each unit: a sequence of Entry
  ver,          \* ver_: kSet, kDel and kClose messages pushed so far
  applied,      \* applied_ver_: of those, how many have been popped
  waiting,      \* waiting_: the worker has waited for work at least once
  wpc,          \* where each worker is
  held,         \* the message each worker has peeked and not yet popped: the
                \* code's Slices into the front of que_, which only it pops
  dpc,          \* where each drainer is
  pos,          \* its loop counter (i while reading, n while waiting)
  arr,          \* its ver_arr
  rand,         \* its rand_num
  closed,       \* units the destructor has pushed kClose to
  joined,       \* the destructor has joined every worker
  pushed,       \* history: the client messages pushed to each shard
  delivered,    \* history: the messages the consume function was given
  called        \* history: Len(pushed) when each drainer entered WaitDrain

unitVars == <<que, ver, applied, waiting>>
workerVars == <<wpc, held>>
drainVars == <<dpc, pos, arr, rand, called>>
dtorVars == <<closed, joined>>
vars == <<unitVars, workerVars, drainVars, dtorVars, pushed, delivered>>

-----------------------------------------------------------------------------
(***************************************************************************)
(* The entries of que_.  "kMsg" stands for kSet and kDel, which the queue  *)
(* treats alike.  The field seq is not in the code and no action reads it: *)
(* it is the value of ver_ just after the entry was appended, which lets   *)
(* the invariants say where in the history an entry belongs.               *)
(***************************************************************************)
MessageType == {"kMsg", "kNotify", "kClose"}
Entry == [type : MessageType, body : Messages \cup {NoMessage}, seq : Nat]

WorkerPC == {"enter",     \* about to call WaitUntilNotEmpty
             "asleep",    \* in cv_.wait of WaitUntilNotEmpty
             "woken",     \* notified, about to test the predicate again
             "peek",      \* about to call the consume function: Peek
             "consume",   \* Peek returned a message: apply it
             "pop",       \* applied: Pop
             "exited",    \* returned after kClose
             "down"}      \* "MessageQueue Consumer Down": exit(1)

DrainPC == {"idle",       \* not in WaitDrain
            "read",       \* first loop: reading the versions
            "check",      \* second loop: the test without the mutex
            "lock",       \* the test failed: about to lock
            "asleep",     \* in cv_.wait
            "woken",      \* notified, about to test the predicate again
            "return"}     \* both loops done

IsNotify(e) == e.type = "kNotify"

\* The index of the first entry of q that is not a kNotify, or Len(q) + 1.
FirstReal(q) ==
  CHOOSE n \in 1 .. Len(q) + 1 :
    /\ \A i \in 1 .. n - 1 : IsNotify(q[i])
    /\ n <= Len(q) => ~ IsNotify(q[n])

(***************************************************************************)
(* MayConsumeNotifyMessages: what is left of the queue, and whether any    *)
(* kNotify was consumed (should_notify).                                   *)
(***************************************************************************)
DropMarkers(q) == SubSeq(q, FirstReal(q), Len(q))
ShouldNotify(q) == q # <<>> /\ IsNotify(q[1])

\* The unit a drainer's second loop is at: idx = rand_num++ % N.
ShardAt(d) == rand[d] % N

\* cv_.notify_all of shard s: worker and drainers share the variable.
Woken(pc) == IF pc = "asleep" THEN "woken" ELSE pc
DrainersKeptAsleep(s) == dpc
DrainersNotified(s) ==
  [d \in Drainers |-> IF ShardAt(d) = s THEN Woken(dpc[d]) ELSE dpc[d]]

-----------------------------------------------------------------------------
Init ==
  /\ que = [s \in Shards |-> <<>>]
  /\ ver = [s \in Shards |-> 0]
  /\ applied = [s \in Shards |-> 0]
  /\ waiting = [s \in Shards |-> FALSE]
  /\ wpc = [s \in Shards |-> "enter"]
  /\ held = [s \in Shards |-> NoMessage]
  /\ dpc = [d \in Drainers |-> "idle"]
  /\ pos = [d \in Drainers |-> 0]
  /\ arr = [d \in Drainers |-> [s \in Shards |-> 0]]
  /\ rand = [d \in Drainers |-> 0]
  /\ closed = 0
  /\ joined = FALSE
  /\ pushed = [s \in Shards |-> <<>>]
  /\ delivered = [s \in Shards |-> <<>>]
  /\ called = [d \in Drainers |-> [s \in Shards |-> 0]]

-----------------------------------------------------------------------------
(***************************************************************************)
(* MessageQueueUnit::Push: append, ++ver_, and notify_all if waiting_.     *)
(***************************************************************************)
UnitPushFront(s, type, body) ==
  /\ que' = [que EXCEPT ![s] =
               <<[type |-> type, body |-> body, seq |-> ver[s] + 1]>> \o @]
  /\ ver' = [ver EXCEPT ![s] = @ + 1]
  /\ wpc' = IF waiting[s] THEN [wpc EXCEPT ![s] = Woken(@)] ELSE wpc
  /\ dpc' = IF waiting[s] THEN DrainersNotified(s) ELSE dpc
  /\ UNCHANGED <<applied, waiting>>

UnitPush(s, type, body) ==
  /\ que' = [que EXCEPT ![s] =
               Append(@, [type |-> type, body |-> body, seq |-> ver[s] + 1])]
  /\ ver' = [ver EXCEPT ![s] = @ + 1]
  /\ wpc' = IF waiting[s] THEN [wpc EXCEPT ![s] = Woken(@)] ELSE wpc
  /\ dpc' = IF waiting[s] THEN DrainersNotified(s) ELSE dpc
  /\ UNCHANGED <<applied, waiting>>

\* MessageQueueImpl::Push by some client, before the destructor runs.
Push(m) ==
  /\ closed = 0
  /\ Len(pushed[ShardOf[m]]) < MaxPushes
  /\ UnitPush(ShardOf[m], "kMsg", m)
  /\ pushed' = [pushed EXCEPT ![ShardOf[m]] = Append(@, m)]
  /\ UNCHANGED <<held, pos, arr, rand, called, dtorVars, delivered>>

-----------------------------------------------------------------------------
(***************************************************************************)
(* The worker of shard s: the lambda of RegisterConsumeFunction.           *)
(***************************************************************************)

\* WaitUntilNotEmpty, called first and after every kMessageQueueEmpty.
WorkerWaitForgetful(s) ==
  /\ wpc[s] = "enter"
  /\ wpc' = [wpc EXCEPT ![s] = IF que[s] = <<>> THEN "asleep" ELSE "peek"]
  /\ UNCHANGED <<unitVars, held, drainVars, dtorVars, pushed, delivered>>

WorkerWait(s) ==
  /\ wpc[s] = "enter"
  /\ \/ /\ que[s] # <<>>
        /\ wpc' = [wpc EXCEPT ![s] = "peek"]
        /\ UNCHANGED waiting
     \/ /\ que[s] = <<>>
        /\ waiting' = [waiting EXCEPT ![s] = TRUE]
        /\ wpc' = [wpc EXCEPT ![s] = "asleep"]
  /\ UNCHANGED <<que, ver, applied, held, drainVars, dtorVars, pushed, delivered>>

\* The predicate of cv_.wait, tested again after a wake-up.
WorkerWake(s) ==
  /\ wpc[s] = "woken"
  /\ wpc' = [wpc EXCEPT ![s] = IF que[s] = <<>> THEN "asleep" ELSE "peek"]
  /\ UNCHANGED <<unitVars, held, drainVars, dtorVars, pushed, delivered>>

\* An early exit: the worker leaves as soon as the destructor has started.
PeekResultEager(q) ==
  CASE q = <<>>   -> "down"
    [] closed # 0 -> "exited"
    [] OTHER      -> "consume"

\* What Peek returns for the queue it has left: nothing, a kClose, a message.
PeekResult(q) ==
  CASE q = <<>>               -> "down"
    [] q # <<>> /\ q[1].type = "kClose" -> "exited"
    [] OTHER                  -> "consume"

(***************************************************************************)
(* ConsumeMessageQueue up to the switch: Peek, whose error code ends the   *)
(* worker (kNotFound is neither kOk nor kMessageQueueEmpty nor kClose, so  *)
(* the worker calls exit), and a kClose, which is left in the queue.       *)
(***************************************************************************)
WorkerPeek(s) ==
  /\ wpc[s] = "peek"
  /\ LET rest == DropMarkers(que[s]) IN
       /\ que' = [que EXCEPT ![s] = rest]
       /\ wpc' = [wpc EXCEPT ![s] = PeekResult(rest)]
       /\ held' = [held EXCEPT ![s] =
                     IF PeekResult(rest) = "consume" THEN rest[1].body ELSE NoMessage]
  /\ dpc' = IF ShouldNotify(que[s]) THEN DrainersNotified(s) ELSE dpc
  /\ UNCHANGED <<ver, applied, waiting, pos, arr, rand, called, dtorVars,
                 pushed, delivered>>

\* The switch of ConsumeMessageQueue: the message goes to the ordered index,
\* which answers kOk (OpenHiKV models the answer).
WorkerConsume(s) ==
  /\ wpc[s] = "consume"
  /\ delivered' = [delivered EXCEPT ![s] = Append(@, held[s])]
  /\ wpc' = [wpc EXCEPT ![s] = "pop"]
  /\ UNCHANGED <<unitVars, held, drainVars, dtorVars, pushed>>

(***************************************************************************)
(* MessageQueueUnit::Pop and MessageQueueImpl::Pop: remove the front,      *)
(* ++applied_ver_, consume notifications that have become the front, and   *)
(* answer kOk or kMessageQueueEmpty by whether anything is left.           *)
(***************************************************************************)
AfterPopKeepingMarkers(q) == Tail(q)
AfterPop(q) == DropMarkers(Tail(q))

WorkerPop(s) ==
  /\ wpc[s] = "pop"
  /\ \/ /\ que[s] = <<>>
        /\ wpc' = [wpc EXCEPT ![s] = "down"]
        /\ UNCHANGED <<que, applied, dpc>>
     \/ /\ que[s] # <<>>
        /\ que' = [que EXCEPT ![s] = AfterPop(@)]
        /\ applied' = [applied EXCEPT ![s] = @ + 1]
        /\ wpc' = [wpc EXCEPT ![s] = IF AfterPop(que[s]) = <<>> THEN "enter" ELSE "peek"]
        /\ dpc' = IF ShouldNotify(Tail(que[s])) THEN DrainersNotified(s) ELSE dpc
  /\ held' = [held EXCEPT ![s] = NoMessage]
  /\ UNCHANGED <<ver, waiting, pos, arr, rand, called, dtorVars, pushed, delivered>>

-----------------------------------------------------------------------------
(***************************************************************************)
(* MessageQueueImpl::WaitDrain by thread d.                                *)
(***************************************************************************)
DrainCall(d) ==
  /\ dpc[d] = "idle"
  /\ closed = 0
  /\ dpc' = [dpc EXCEPT ![d] = "read"]
  /\ pos' = [pos EXCEPT ![d] = 0]
  /\ rand' = [rand EXCEPT ![d] = 0]
  /\ arr' = [arr EXCEPT ![d] = [s \in Shards |-> 0]]
  /\ called' = [called EXCEPT ![d] = [s \in Shards |-> Len(pushed[s])]]
  /\ UNCHANGED <<unitVars, workerVars, dtorVars, pushed, delivered>>

\* One turn of the first loop: GetCurrentVersion takes no lock.
DrainRead(d) ==
  /\ dpc[d] = "read"
  /\ arr' = [arr EXCEPT ![d][pos[d]] = ver[pos[d]]]
  /\ rand' = [rand EXCEPT ![d] = (@ + ver[pos[d]]) % SizeT]
  /\ \/ /\ pos[d] + 1 < N
        /\ pos' = [pos EXCEPT ![d] = @ + 1]
        /\ UNCHANGED dpc
     \/ /\ pos[d] + 1 = N
        /\ pos' = [pos EXCEPT ![d] = 0]
        /\ dpc' = [dpc EXCEPT ![d] = "check"]
  /\ UNCHANGED <<unitVars, workerVars, called, dtorVars, pushed, delivered>>

\* The end of a turn of the second loop: the unit's WaitDrain has returned.
DrainStuckInPlace(d) ==
  /\ pos' = [pos EXCEPT ![d] = @ + 1]
  /\ rand' = [rand EXCEPT ![d] = @]
  /\ dpc' = [dpc EXCEPT ![d] = IF pos[d] + 1 = N THEN "return" ELSE "check"]

DrainAdvance(d) ==
  /\ pos' = [pos EXCEPT ![d] = @ + 1]
  /\ rand' = [rand EXCEPT ![d] = (@ + 1) % SizeT]
  /\ dpc' = [dpc EXCEPT ![d] = IF pos[d] + 1 = N THEN "return" ELSE "check"]

\* applied_ver_ >= version for the unit the drainer is at.
Drained(d) == applied[ShardAt(d)] >= arr[d][ShardAt(d)]

\* The test of MessageQueueUnit::WaitDrain without the mutex.
DrainCheck(d) ==
  /\ dpc[d] = "check"
  /\ \/ /\ Drained(d)
        /\ DrainAdvance(d)
     \/ /\ ~ Drained(d)
        /\ dpc' = [dpc EXCEPT ![d] = "lock"]
        /\ UNCHANGED <<pos, rand>>
  /\ UNCHANGED <<unitVars, workerVars, arr, called, dtorVars, pushed, delivered>>

(***************************************************************************)
(* The test again under the mutex: append a kNotify and sleep, or return.  *)
(* cv_.wait tests its predicate before sleeping, under the same mutex, so  *)
(* it cannot hold yet.                                                     *)
(***************************************************************************)
AppendNotify(s) ==
  que' = [que EXCEPT ![s] =
            Append(@, [type |-> "kNotify", body |-> NoMessage, seq |-> ver[s]])]

DrainLockNoRecheck(d) ==
  /\ dpc[d] = "lock"
  /\ AppendNotify(ShardAt(d))
  /\ dpc' = [dpc EXCEPT ![d] = "asleep"]
  /\ UNCHANGED <<ver, applied, waiting, pos, rand, workerVars, arr, called, dtorVars,
                 pushed, delivered>>

DrainLock(d) ==
  /\ dpc[d] = "lock"
  /\ \/ /\ Drained(d)
        /\ DrainAdvance(d)
        /\ UNCHANGED que
     \/ /\ ~ Drained(d)
        /\ AppendNotify(ShardAt(d))
        /\ dpc' = [dpc EXCEPT ![d] = "asleep"]
        /\ UNCHANGED <<pos, rand>>
  /\ UNCHANGED <<ver, applied, waiting, workerVars, arr, called, dtorVars, pushed,
                 delivered>>

\* The predicate of cv_.wait, tested again after a wake-up.
DrainWakeUntested(d) ==
  /\ dpc[d] = "woken"
  /\ DrainAdvance(d)
  /\ UNCHANGED <<unitVars, workerVars, arr, called, dtorVars, pushed, delivered>>

DrainWake(d) ==
  /\ dpc[d] = "woken"
  /\ \/ /\ Drained(d)
        /\ DrainAdvance(d)
     \/ /\ ~ Drained(d)
        /\ dpc' = [dpc EXCEPT ![d] = "asleep"]
        /\ UNCHANGED <<pos, rand>>
  /\ UNCHANGED <<unitVars, workerVars, arr, called, dtorVars, pushed, delivered>>

\* WaitDrain returns; rand_num, n and ver_arr, its locals, are gone.
DrainReturn(d) ==
  /\ dpc[d] = "return"
  /\ dpc' = [dpc EXCEPT ![d] = "idle"]
  /\ pos' = [pos EXCEPT ![d] = 0]
  /\ rand' = [rand EXCEPT ![d] = 0]
  /\ arr' = [arr EXCEPT ![d] = [s \in Shards |-> 0]]
  /\ called' = [called EXCEPT ![d] = [s \in Shards |-> 0]]
  /\ UNCHANGED <<unitVars, workerVars, dtorVars, pushed, delivered>>

-----------------------------------------------------------------------------
(***************************************************************************)
(* ~MessageQueueImpl: push a kClose to every unit in turn, then join every *)
(* worker.  C++ lets the destructor run only when no other call is under   *)
(* way, and lets no call start after it.                                   *)
(***************************************************************************)
DestructorClose ==
  /\ closed < N
  /\ closed = 0 => \A d \in Drainers : dpc[d] = "idle"
  /\ UnitPush(closed, "kClose", NoMessage)
  /\ closed' = closed + 1
  /\ UNCHANGED <<held, pos, arr, rand, called, joined, pushed, delivered>>

DestructorJoin ==
  /\ closed = N
  /\ ~ joined
  /\ \A s \in Shards : wpc[s] = "exited"
  /\ joined' = TRUE
  /\ UNCHANGED <<unitVars, workerVars, drainVars, closed, pushed, delivered>>

\* std::condition_variable may wake a waiter without a notification.
SpuriousWakeup ==
  /\ \/ /\ \E s \in Shards :
             /\ wpc[s] = "asleep"
             /\ wpc' = [wpc EXCEPT ![s] = "woken"]
        /\ UNCHANGED dpc
     \/ /\ \E d \in Drainers :
             /\ dpc[d] = "asleep"
             /\ dpc' = [dpc EXCEPT ![d] = "woken"]
        /\ UNCHANGED wpc
  /\ UNCHANGED <<unitVars, held, pos, arr, rand, called, dtorVars, pushed, delivered>>

-----------------------------------------------------------------------------
WorkerStep(s) ==
  WorkerWait(s) \/ WorkerWake(s) \/ WorkerPeek(s) \/ WorkerConsume(s) \/ WorkerPop(s)

DrainStep(d) ==
  \/ DrainRead(d) \/ DrainCheck(d) \/ DrainLock(d) \/ DrainWake(d) \/ DrainReturn(d)

Next ==
  \/ \E m \in Messages : Push(m)
  \/ \E s \in Shards : WorkerStep(s)
  \/ \E d \in Drainers : DrainCall(d) \/ DrainStep(d)
  \/ DestructorClose
  \/ DestructorJoin
  \/ SpuriousWakeup

SafetySpec == Init /\ [][Next]_vars

(***************************************************************************)
(* The operating system keeps scheduling the worker threads, a thread that *)
(* is inside WaitDrain and the destructor once it has begun.  Nothing      *)
(* makes a client push, call WaitDrain or destroy the queue, and nothing   *)
(* makes a spurious wake-up happen.                                        *)
(***************************************************************************)
Fairness ==
  /\ \A s \in Shards : WF_vars(WorkerStep(s))
  /\ \A d \in Drainers : WF_vars(DrainStep(d))
  /\ WF_vars(closed > 0 /\ DestructorClose)
  /\ WF_vars(DestructorJoin)

Spec == SafetySpec /\ Fairness

-----------------------------------------------------------------------------
TypeOK ==
  /\ que \in [Shards -> Seq(Entry)]
  /\ ver \in [Shards -> Nat]
  /\ applied \in [Shards -> Nat]
  /\ waiting \in [Shards -> BOOLEAN]
  /\ wpc \in [Shards -> WorkerPC]
  /\ held \in [Shards -> Messages \cup {NoMessage}]
  /\ dpc \in [Drainers -> DrainPC]
  /\ pos \in [Drainers -> 0 .. N]
  /\ \A d \in Drainers : dpc[d] \in {"read", "check", "lock", "asleep", "woken"} => pos[d] < N
  /\ arr \in [Drainers -> [Shards -> Nat]]
  /\ rand \in [Drainers -> 0 .. SizeT - 1]
  /\ closed \in 0 .. N
  /\ joined \in BOOLEAN
  /\ pushed \in [Shards -> Seq(Messages)]
  /\ delivered \in [Shards -> Seq(Messages \cup {NoMessage})]
  /\ called \in [Drainers -> [Shards -> Nat]]

(***************************************************************************)
(* Safety.                                                                 *)
(***************************************************************************)

\* No worker ever finds its queue empty when it peeks or pops, so none takes
\* the "MessageQueue Consumer Down" exit of RegisterConsumeFunction
\* (pmem_msg_queue_impl.cpp:181-184).  A kNotify left alone in a queue would
\* be enough: Pop must consume the markers it uncovers, and WaitDrain must
\* test again under the mutex before it appends one.
ConsumerNeverDown == \A s \in Shards : wpc[s] # "down"

\* The consume function is given each shard's messages in the order they were
\* pushed, each exactly once, and applied_ver_ counts them: it is behind only
\* while a worker is between the ordered index and Pop (open_hikv.cpp:55-75).
DeliveredInOrderOnce ==
  \A s \in Shards :
    /\ delivered[s] = SubSeq(pushed[s], 1, Len(delivered[s]))
    /\ Len(delivered[s]) = applied[s] + IF wpc[s] = "pop" THEN 1 ELSE 0

\* A worker asleep in WaitUntilNotEmpty has nothing to do: whoever made its
\* queue non-empty has woken it, although Push notifies only if waiting_
\* (pmem_msg_queue_impl.cpp:17, 60-67).
SleepingWorkerHasNoWork ==
  \A s \in Shards : wpc[s] = "asleep" => que[s] = <<>>

\* A kNotify that the worker reaches no sooner than version v.
Marked(s, v) ==
  \E i \in DOMAIN que[s] : IsNotify(que[s][i]) /\ que[s][i].seq >= v

\* A thread asleep in WaitDrain has not missed its wake-up: its unit still
\* holds a kNotify that is reached only after the version it waits for, so
\* the notify_all that consumes it finds the predicate true
\* (pmem_msg_queue_impl.cpp:48-58, 69-83).
SleepingDrainerIsMarked ==
  \A d \in Drainers :
    dpc[d] = "asleep" => Marked(ShardAt(d), arr[d][ShardAt(d)])

\* When WaitDrain returns, everything pushed to any unit before it was called
\* has been applied, although it reads the versions without a lock and visits
\* the units from an arbitrary, wrapping start (pmem_msg_queue_impl.cpp:151-166).
DrainedOnReturn ==
  \A d \in Drainers : \A s \in Shards :
    dpc[d] = "return" => applied[s] >= called[d][s]

\* A worker that leaves on kClose leaves nothing unapplied, so ~MessageQueueImpl
\* loses no write (pmem_msg_queue_impl.cpp:88-97, 177-178).
NothingLeftBehind ==
  \A s \in Shards : wpc[s] = "exited" => delivered[s] = pushed[s]

-----------------------------------------------------------------------------
(***************************************************************************)
(* The inductive invariant behind the safety properties.                   *)
(***************************************************************************)

\* The entries of a queue carry on from each other: a client message or a
\* kClose has the version after that of the entry before it, and a run of
\* kNotify has the version of the entry it follows.
Chained(q) ==
  /\ \A i \in 1 .. Len(q) - 1 : ~ IsNotify(q[i + 1]) => q[i + 1].seq = q[i].seq + 1
  /\ \A i, j \in 1 .. Len(q) :
       (i < j /\ \A k \in i + 1 .. j : IsNotify(q[k])) => q[j].seq = q[i].seq

\* A queue holds the versions applied + 1 .. ver, and never starts with a
\* kNotify: a marker is appended only behind work, and Pop takes the markers
\* that come to the front.
VersionsInQueue(s) ==
  /\ Chained(que[s])
  /\ que[s] = <<>> => applied[s] = ver[s]
  /\ que[s] # <<>> => /\ ~ IsNotify(que[s][1])
                      /\ que[s][1].seq = applied[s] + 1
                      /\ que[s][Len(que[s])].seq = ver[s]

\* Each client message is where its version says, and kClose comes last.
ContentsOfQueue(s) ==
  /\ ver[s] = Len(pushed[s]) + IF closed > s THEN 1 ELSE 0
  /\ \A i \in 1 .. Len(que[s]) :
       /\ que[s][i].type = "kMsg" => /\ que[s][i].seq \in 1 .. Len(pushed[s])
                                     /\ que[s][i].body = pushed[s][que[s][i].seq]
       /\ que[s][i].type = "kClose" => closed > s /\ que[s][i].seq = ver[s]

\* What each worker knows of its queue.
WorkerKnows(s) ==
  /\ wpc[s] # "down"
  /\ wpc[s] \in {"asleep", "woken"} => waiting[s]
  /\ wpc[s] = "asleep" => que[s] = <<>>
  /\ wpc[s] \in {"peek", "consume", "pop", "exited"} => que[s] # <<>>
  /\ wpc[s] \in {"consume", "pop"} => /\ que[s][1].type = "kMsg"
                                      /\ held[s] = que[s][1].body
  /\ wpc[s] = "exited" => que[s][1].type = "kClose"

\* What has been delivered is what was pushed, as far as it goes.
DeliveredSoFar(s) ==
  /\ Len(delivered[s]) = applied[s] + IF wpc[s] = "pop" THEN 1 ELSE 0
  /\ Len(delivered[s]) <= Len(pushed[s])
  /\ \A i \in 1 .. Len(delivered[s]) : delivered[s][i] = pushed[s][i]

\* A drainer waits for a version that exists, and while it waits there is a
\* marker to wake it, until it has been woken for good.
DrainerKnows(d) ==
  /\ \A s \in Shards : arr[d][s] <= ver[s]
  /\ dpc[d] = "asleep" => Marked(ShardAt(d), arr[d][ShardAt(d)])
  /\ dpc[d] = "woken" => Drained(d) \/ Marked(ShardAt(d), arr[d][ShardAt(d)])

UnitsInv ==
  /\ TypeOK
  /\ \A s \in Shards : VersionsInQueue(s)
  /\ \A s \in Shards : ContentsOfQueue(s)
  /\ \A s \in Shards : WorkerKnows(s)
  /\ \A s \in Shards : DeliveredSoFar(s)
  /\ \A d \in Drainers : DrainerKnows(d)

\* The units the second loop of WaitDrain has still to come to: rand_num goes up
\* by one a turn, and a wrap at SizeT, a multiple of N, skips none.
ToVisit(d) == {(rand[d] + i) % N : i \in 0 .. N - pos[d] - 1}

\* Each version a drainer has read covers what was pushed before its call, and
\* in the second loop each unit is drained or to come.
DrainerVisits(d) ==
  /\ \A s \in Shards : called[d][s] <= Len(pushed[s])
  /\ dpc[d] = "read" => \A s \in 0 .. pos[d] - 1 : called[d][s] <= arr[d][s]
  /\ dpc[d] \in {"check", "lock", "asleep", "woken"} =>
       \A s \in Shards :
         /\ called[d][s] <= arr[d][s]
         /\ arr[d][s] <= applied[s] \/ s \in ToVisit(d)
  /\ dpc[d] = "return" => \A s \in Shards : called[d][s] <= applied[s]

IInv ==
  /\ UnitsInv
  /\ \A d \in Drainers : DrainerVisits(d)

-----------------------------------------------------------------------------
(***************************************************************************)
(* Liveness, under Spec.                                                   *)
(***************************************************************************)

\* WaitDrain always returns: no sleeper is forgotten, however the threads
\* that share a unit's condition variable interleave.
DrainTerminates == \A d \in Drainers : dpc[d] = "read" ~> dpc[d] = "return"

\* The destructor ends: every worker reaches its kClose and can be joined.
DestructorTerminates == closed > 0 ~> joined

-----------------------------------------------------------------------------
(***************************************************************************)
(* The queue implements the abstract MessageQueue: a message is logged when*)
(* Push appends it, applied when Pop counts it, and a caller of WaitDrain  *)
(* waits for what had been pushed when it called.                          *)
(***************************************************************************)
Queue == INSTANCE MessageQueue WITH
  log <- pushed,
  Callers <- Drainers,
  target <- [d \in Drainers |->
               IF dpc[d] = "idle" THEN [s \in {} |-> 0] ELSE called[d]]

\* MessageQueueImpl keeps the promise of src/msg_queue.h, its liveness included.
ImplementsQueue == Queue!QueueSpec
=============================================================================
