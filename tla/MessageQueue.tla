---------------------------- MODULE MessageQueue ----------------------------
(***************************************************************************)
(* What a MessageQueue (src/msg_queue.h) promises to OpenHiKV, whichever   *)
(* implementation is plugged in.  The queue is a set of shards; each shard *)
(* is a log of the messages pushed to it, of which a prefix has been       *)
(* applied by the shard's single consumer.  WaitDrain returns only when    *)
(* everything pushed before it was called has been applied.                *)
(*                                                                         *)
(* The module has no idea of locks, condition variables, version counters  *)
(* or notification messages: PmemMessageQueue and PlainMessageQueue        *)
(* implement it with those, and OpenHiKV is built on it.                   *)
(***************************************************************************)
EXTENDS Naturals, Sequences

CONSTANTS
  Shards,       \* the independent queues, one consumer thread each
  Messages,     \* what clients push: a kSet or a kDel with its arguments
  ShardOf,      \* the shard a message is pushed to: the hash of its key
  Callers       \* the threads that may call WaitDrain

ASSUME ShardOfAssumption == ShardOf \in [Messages -> Shards]

VARIABLES
  log,          \* log[s]: every message ever pushed to shard s, in order
  applied,      \* applied[s]: how many of them the consumer has popped
  target        \* target[c]: what caller c of WaitDrain is waiting for

queueVars == <<log, applied, target>>

\* The target of a thread that is not inside WaitDrain.
NotWaiting == [s \in {} |-> 0]

QueueTypeOK ==
  /\ log \in [Shards -> Seq(Messages)]
  /\ applied \in [Shards -> Nat]
  /\ target \in [Callers -> [Shards -> Nat] \cup {NotWaiting}]

QueueInit ==
  /\ log = [s \in Shards |-> <<>>]
  /\ applied = [s \in Shards |-> 0]
  /\ target = [c \in Callers |-> NotWaiting]

\* The messages the consumer of shard s has not popped yet.
Pending(s) == SubSeq(log[s], applied[s] + 1, Len(log[s]))

Push(m) ==
  /\ log' = [log EXCEPT ![ShardOf[m]] = Append(@, m)]
  /\ UNCHANGED <<applied, target>>

\* Peek returns the oldest message without removing it.
CanPeek(s) == applied[s] < Len(log[s])
Peeked(s) == log[s][applied[s] + 1]

Pop(s) ==
  /\ CanPeek(s)
  /\ applied' = [applied EXCEPT ![s] = @ + 1]
  /\ UNCHANGED <<log, target>>

WaitDrainCall(c) ==
  /\ target[c] = NotWaiting
  /\ target' = [target EXCEPT ![c] = [s \in Shards |-> Len(log[s])]]
  /\ UNCHANGED <<log, applied>>

\* A return only when nothing is queued, whoever pushed it and when.
WaitDrainReturnWhenEmpty(c) ==
  /\ target[c] # NotWaiting
  /\ \A s \in Shards : applied[s] = Len(log[s])
  /\ target' = [target EXCEPT ![c] = NotWaiting]
  /\ UNCHANGED <<log, applied>>

WaitDrainReturn(c) ==
  /\ target[c] # NotWaiting
  /\ \A s \in Shards : applied[s] >= target[c][s]
  /\ target' = [target EXCEPT ![c] = NotWaiting]
  /\ UNCHANGED <<log, applied>>

QueueNext ==
  \/ \E m \in Messages : Push(m)
  \/ \E s \in Shards : Pop(s)
  \/ \E c \in Callers : WaitDrainCall(c) \/ WaitDrainReturn(c)

QueueSafetySpec == QueueInit /\ [][QueueNext]_queueVars

\* Consumers keep consuming and WaitDrain returns once it may.
QueueFairness ==
  /\ \A s \in Shards : WF_queueVars(Pop(s))
  /\ \A c \in Callers : WF_queueVars(WaitDrainReturn(c))

QueueSpec == QueueSafetySpec /\ QueueFairness
=============================================================================
