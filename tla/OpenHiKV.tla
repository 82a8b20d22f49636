------------------------------ MODULE OpenHiKV ------------------------------
(***************************************************************************)
(* The key-value store of src/open_hikv.{h,cpp} with the plain store and   *)
(* the plain indexes of src/plain_vanilla_impl: a write goes to the        *)
(* unordered index (a hash map, read by Get) and its store at once, and is *)
(* pushed to the message queue, whose workers bring it to the ordered      *)
(* index (a sorted map, read by Scan).                                     *)
(*                                                                         *)
(* The message queue is the abstract one of MessageQueue: this module is   *)
(* about what the two indexes and the store do to each other, whichever    *)
(* queue carries the messages.                                             *)
(*                                                                         *)
(* Atomicity.  Each call on an index is one step: it holds the index's     *)
(* mutex throughout, and the store offsets it touches are reachable only   *)
(* through that index at that time.  OpenHiKV itself holds no lock, so the *)
(* index update and the push of a write are two steps, WaitDrain and the   *)
(* scan of the ordered index are too, and so are a worker's Peek, its      *)
(* update of the ordered index and its Pop.                                *)
(*                                                                         *)
(* Any client writes any key.  Nothing orders two writes of one key that   *)
(* overlap: their messages may be pushed in the other order than the       *)
(* unordered index was changed.  "raced" holds the keys whose last write   *)
(* began while another one was under way; the tests have none, as every    *)
(* key starts with the number of its thread (test/open_hikv_test.cpp:28).  *)
(* The properties say what holds of all keys and what of the others.       *)
(*                                                                         *)
(* Every Set writes a value of its own: values are numbered, which is all  *)
(* the properties tell apart.                                              *)
(***************************************************************************)
EXTENDS MessageQueue, Integers, FiniteSets, Functions

CONSTANTS
  Keys,         \* a set of naturals, ordered as std::map orders the strings
  MaxSets,      \* bound: the offsets the store hands out, 0 .. MaxSets - 1
  MaxLog        \* bound: the messages pushed, or about to be

Clients == Callers

ASSUME KeysAssumption == Keys \subseteq Nat
ASSUME MaxSetsAssumption == MaxSets \in Nat

Offsets == 0 .. MaxSets - 1
Values == 0 .. MaxSets - 1

\* What a client pushes.  A kDel carries {} for the offset, which is 0.
SetMessage(k, o) == [type |-> "kSet", key |-> k, offset |-> o]
DelMessage(k) == [type |-> "kDel", key |-> k, offset |-> 0]

\* The messages, and that the shard is that of the key.
ASSUME MessagesAssumption ==
  Messages = {SetMessage(k, o) : k \in Keys, o \in Offsets} \cup {DelMessage(k) : k \in Keys}
ASSUME ShardOfKeyAssumption ==
  \A m, n \in Messages : m.key = n.key => ShardOf[m] = ShardOf[n]

VARIABLES
  off2str,      \* StoreImpl::off2str_map_
  offset,       \* StoreImpl::offset_
  unordered,    \* UnorderedIndexImpl::key2off_map_
  ordered,      \* OrderedIndexImpl::key2off_map_
  cpc,          \* where each client is
  toPush,       \* the message it is about to push
  scan,         \* its Scan: where it starts, where it stopped, what it found
  wpc,          \* where the consumer of each shard is
  written,      \* history: what each key should hold (std_map of the test)
  raced,        \* history: the keys whose last write began during another
  touched,      \* history: the keys written since a client called Scan
  slice,        \* history: the offset behind the Slice a client is reading
  exposed       \* history: the clients whose Slice a Del may take away

storeVars == <<off2str, offset>>
indexVars == <<unordered, ordered>>
clientVars == <<cpc, toPush, scan>>
history == <<written, raced, touched, slice, exposed>>
vars == <<queueVars, storeVars, indexVars, clientVars, wpc, history>>

ClientPC == {"idle",
             "push",      \* the unordered index is updated: about to Push
             "read",      \* Get has returned a Slice, which the caller reads
             "drain",     \* in Scan, inside WaitDrain
             "scan",      \* in Scan, about to scan the ordered index
             "found",     \* the callback has been given its last entry
             "failed"}    \* Scan met an offset the store does not have

WorkerPC == {"peek", "apply", "pop", "down"}

\* m with k removed, and m with k given the value x.
Without(m, k) == Restrict(m, DOMAIN m \ {k})
With(m, k, x) == [j \in DOMAIN m \cup {k} |-> IF j = k THEN x ELSE m[j]]
\* std::map::emplace, which keeps the value of a key that is there.
WithNew(m, k, x) == [j \in DOMAIN m \cup {k} |-> IF j \in DOMAIN m THEN m[j] ELSE x]

Empty == [x \in {} |-> 0]
NoScan == [from |-> 0, last |-> 0, found |-> Empty]
NoSlice == -1   \* what "slice" holds of a client that reads none

Init ==
  /\ QueueInit
  /\ off2str = Empty
  /\ offset = 0
  /\ unordered = Empty
  /\ ordered = Empty
  /\ cpc = [c \in Clients |-> "idle"]
  /\ toPush = [c \in Clients |-> DelMessage(0)]
  /\ scan = [c \in Clients |-> NoScan]
  /\ wpc = [s \in Shards |-> "peek"]
  /\ written = Empty
  /\ raced = {}
  /\ touched = [c \in Clients |-> {}]
  /\ slice = [c \in Clients |-> NoSlice]
  /\ exposed = {}

-----------------------------------------------------------------------------
(***************************************************************************)
(* OpenHiKV::Set and Del: UnorderedIndexImpl::Set and Del, then Push.      *)
(***************************************************************************)
Writers == {c \in Clients : cpc[c] = "push"}
HasRoom ==
  FoldFunction(+, 0, [s \in Shards |-> Len(log[s])]) + Cardinality(Writers) < MaxLog

\* A write of k that begins while another is between its index and its push.
Overlaps(k) == \E c \in Writers : toPush[c].key = k
Scanning(c) == cpc[c] \in {"drain", "scan", "found"}

\* A write of k that has it to itself brings the two indexes together again.
NoteWrite(k) ==
  /\ raced' = IF Overlaps(k) THEN raced \cup {k} ELSE raced \ {k}
  /\ touched' = [c \in Clients |-> IF Scanning(c) THEN touched[c] \cup {k} ELSE {}]

UnorderedSetOnce(k, v) ==
  /\ off2str' = With(off2str, offset, [key |-> k, value |-> v])
  /\ offset' = offset + 1
  /\ unordered' = WithNew(unordered, k, offset)

\* The offset taken after ++offset_.
UnorderedSetLate(k, v) ==
  /\ off2str' = With(off2str, offset, [key |-> k, value |-> v])
  /\ offset' = offset + 1
  /\ unordered' = With(unordered, k, offset + 1)

\* A Set that frees the value it replaces.
UnorderedSetFreeing(k, v) ==
  LET kept == IF k \in DOMAIN unordered THEN Without(off2str, unordered[k]) ELSE off2str
  IN /\ off2str' = With(kept, offset, [key |-> k, value |-> v])
     /\ offset' = offset + 1
     /\ unordered' = With(unordered, k, offset)

UnorderedSet(k, v) ==
  /\ off2str' = With(off2str, offset, [key |-> k, value |-> v])
  /\ offset' = offset + 1
  /\ unordered' = With(unordered, k, offset)

Set(c, k) ==
  /\ cpc[c] = "idle"
  /\ offset \in Offsets /\ HasRoom
  /\ LET v == offset IN UnorderedSet(k, v) /\ written' = With(written, k, v)
  /\ toPush' = [toPush EXCEPT ![c] = SetMessage(k, offset)]
  /\ cpc' = [cpc EXCEPT ![c] = "push"]
  /\ NoteWrite(k)
  /\ UNCHANGED <<queueVars, ordered, scan, wpc, slice, exposed>>

StoreHas(o, k) == o \in DOMAIN off2str /\ off2str[o].key = k

UnorderedDel(k) ==
  /\ unordered' = Without(unordered, k)
  /\ off2str' = off2str

\* From here on a Slice of k may go at any time.
Del(c, k) ==
  /\ cpc[c] = "idle"
  /\ HasRoom
  /\ UnorderedDel(k)
  /\ toPush' = [toPush EXCEPT ![c] = DelMessage(k)]
  /\ cpc' = [cpc EXCEPT ![c] = "push"]
  /\ written' = Without(written, k)
  /\ NoteWrite(k)
  /\ exposed' = exposed \cup {d \in Clients : StoreHas(slice[d], k)}
  /\ UNCHANGED <<queueVars, offset, ordered, scan, wpc, slice>>

PushWrite(c) ==
  /\ cpc[c] = "push"
  /\ Push(toPush[c])
  /\ toPush' = [toPush EXCEPT ![c] = DelMessage(0)]
  /\ cpc' = [cpc EXCEPT ![c] = "idle"]
  /\ UNCHANGED <<storeVars, indexVars, scan, wpc, history>>

-----------------------------------------------------------------------------
(***************************************************************************)
(* OpenHiKV::Get: the offset from the unordered index, the value from the  *)
(* store.  What the caller gets is a Slice into the store's map, whose     *)
(* mutex is free again when Get returns: it goes on reading while others   *)
(* write.                                                                  *)
(***************************************************************************)
\* Somebody has called Del for k, and it has not been applied yet.
IsDelOf(m, k) == m.type = "kDel" /\ m.key = k
DelOnItsWay(k) ==
  \/ \E c \in Writers : IsDelOf(toPush[c], k)
  \/ \E s \in Shards : \E i \in applied[s] + 1 .. Len(log[s]) : IsDelOf(log[s][i], k)

CanGet(k) == k \in DOMAIN unordered /\ unordered[k] \in DOMAIN off2str
ValueOf(k) == off2str[unordered[k]].value

Get(c, k) ==
  /\ cpc[c] = "idle"
  /\ CanGet(k)
  /\ cpc' = [cpc EXCEPT ![c] = "read"]
  /\ slice' = [slice EXCEPT ![c] = unordered[k]]
  /\ exposed' = IF k \in raced /\ DelOnItsWay(k) THEN exposed \cup {c} ELSE exposed \ {c}
  /\ UNCHANGED <<queueVars, storeVars, indexVars, toPush, scan, wpc, written, raced, touched>>

SliceRead(c) ==
  /\ cpc[c] = "read"
  /\ cpc' = [cpc EXCEPT ![c] = "idle"]
  /\ slice' = [slice EXCEPT ![c] = NoSlice]
  /\ exposed' = exposed \ {c}
  /\ UNCHANGED <<queueVars, storeVars, indexVars, toPush, scan, wpc, written, raced, touched>>

-----------------------------------------------------------------------------
(***************************************************************************)
(* OpenHiKV::Scan from the first key not below k: WaitDrain, then          *)
(* OrderedIndexImpl::Scan, which reads each value from the store.  The     *)
(* callback answers false at the first key from "last" on, or never.  That *)
(* no key is at or above k, which the code answers with kNotFound, is here *)
(* a Scan that finds nothing.                                              *)
(***************************************************************************)
StartScan(c, k, pc) ==
  /\ cpc[c] = "idle"
  /\ cpc' = [cpc EXCEPT ![c] = pc]
  /\ scan' = [scan EXCEPT ![c].from = k]
  /\ touched' = [touched EXCEPT ![c] = {toPush[d].key : d \in Writers}]
  /\ UNCHANGED <<storeVars, indexVars, toPush, wpc, written, raced, slice, exposed>>

ScanCallUndrained(c, k) == StartScan(c, k, "scan") /\ UNCHANGED queueVars
ScanCall(c, k) == StartScan(c, k, "drain") /\ WaitDrainCall(c)

ScanDrained(c) ==
  /\ cpc[c] = "drain"
  /\ WaitDrainReturn(c)
  /\ cpc' = [cpc EXCEPT ![c] = "scan"]
  /\ UNCHANGED <<storeVars, indexVars, toPush, scan, wpc, history>>

Visited(c, last) == {k \in DOMAIN ordered : scan[c].from <= k /\ k <= last}

ScanOrdered(c) ==
  /\ cpc[c] = "scan"
  /\ \E last \in {k \in Keys : k >= scan[c].from} :
       LET visited == Visited(c, last)
           stored == \A k \in visited : ordered[k] \in DOMAIN off2str
       IN /\ cpc' = [cpc EXCEPT ![c] = IF stored THEN "found" ELSE "failed"]
          /\ scan' = IF stored
                     THEN [scan EXCEPT ![c].last = last,
                                       ![c].found = [k \in visited |-> off2str[ordered[k]].value]]
                     ELSE scan
  /\ UNCHANGED <<queueVars, storeVars, indexVars, toPush, wpc, history>>

ScanReturn(c) ==
  /\ cpc[c] = "found"
  /\ cpc' = [cpc EXCEPT ![c] = "idle"]
  /\ scan' = [scan EXCEPT ![c] = NoScan]
  /\ touched' = [touched EXCEPT ![c] = {}]
  /\ UNCHANGED <<queueVars, storeVars, indexVars, toPush, wpc, written, raced, slice, exposed>>

-----------------------------------------------------------------------------
(***************************************************************************)
(* OpenHiKV::ConsumeMessageQueue by the worker of shard s.                 *)
(***************************************************************************)
WorkerPeek(s) ==
  /\ wpc[s] = "peek"
  /\ CanPeek(s)
  /\ wpc' = [wpc EXCEPT ![s] = "apply"]
  /\ UNCHANGED <<queueVars, storeVars, indexVars, clientVars, history>>

OrderedSetOnce(k, o) == ordered' = WithNew(ordered, k, o)
OrderedSet(k, o) == ordered' = With(ordered, k, o)

WorkerSet(s) ==
  /\ wpc[s] = "apply"
  /\ Peeked(s).type = "kSet"
  /\ OrderedSet(Peeked(s).key, Peeked(s).offset)
  /\ wpc' = [wpc EXCEPT ![s] = "pop"]
  /\ UNCHANGED <<queueVars, storeVars, unordered, clientVars, history>>

\* The entry left in the map after the store has dropped what it leads to.
OrderedForgetToErase(k) == ordered' = ordered

\* OrderedIndexImpl::Del erases the entry, and the key and value it leads to.
\* A store that answers kNotFound ends the worker.
OrderedErase(k) == ordered' = Without(ordered, k)

WorkerDel(s) ==
  /\ wpc[s] = "apply"
  /\ Peeked(s).type = "kDel"
  /\ LET k == Peeked(s).key IN
       \/ /\ k \notin DOMAIN ordered
          /\ wpc' = [wpc EXCEPT ![s] = "pop"]
          /\ UNCHANGED <<off2str, ordered>>
       \/ /\ k \in DOMAIN ordered
          /\ off2str' = Without(off2str, ordered[k])
          /\ IF ordered[k] \in DOMAIN off2str
             THEN OrderedErase(k) /\ wpc' = [wpc EXCEPT ![s] = "pop"]
             ELSE UNCHANGED ordered /\ wpc' = [wpc EXCEPT ![s] = "down"]
  /\ UNCHANGED <<queueVars, offset, unordered, clientVars, history>>

WorkerPop(s) ==
  /\ wpc[s] = "pop"
  /\ Pop(s)
  /\ wpc' = [wpc EXCEPT ![s] = "peek"]
  /\ UNCHANGED <<storeVars, indexVars, clientVars, history>>

-----------------------------------------------------------------------------
ClientStep(c) ==
  PushWrite(c) \/ SliceRead(c) \/ ScanDrained(c) \/ ScanOrdered(c) \/ ScanReturn(c)
WorkerStep(s) == WorkerPeek(s) \/ WorkerSet(s) \/ WorkerDel(s) \/ WorkerPop(s)

Next ==
  \/ \E c \in Clients :
       \/ \E k \in Keys : Set(c, k) \/ Del(c, k) \/ Get(c, k) \/ ScanCall(c, k)
       \/ ClientStep(c)
  \/ \E s \in Shards : WorkerStep(s)

\* A Scan waits for the next message of s, which was pushed before its call.
Awaited(s) == \E c \in Clients : cpc[c] = "drain" /\ applied[s] < target[c][s]

\* A call that has begun goes on.  Nobody has to begin a call.  The code's workers
\* go on as long as there are messages; here they owe only those that were pushed
\* before the call of a Scan that waits, and may leave the later ones for ever.
Fairness ==
  /\ \A c \in Clients : WF_vars(ClientStep(c))
  /\ \A s \in Shards : WF_vars(Awaited(s) /\ WorkerStep(s))

SafetySpec == Init /\ [][Next]_vars
Spec == SafetySpec /\ Fairness

-----------------------------------------------------------------------------
Partial(S, T) == UNION {[D -> T] : D \in SUBSET S}

TypeOK ==
  /\ QueueTypeOK
  /\ off2str \in Partial(Offsets, [key : Keys, value : Values])
  /\ offset \in 0 .. MaxSets
  /\ unordered \in Partial(Keys, Offsets)
  /\ ordered \in Partial(Keys, Offsets)
  /\ cpc \in [Clients -> ClientPC]
  /\ toPush \in [Clients -> Messages \cup {DelMessage(0)}]
  /\ \A c \in Writers : toPush[c] \in Messages
  /\ scan \in [Clients -> [from : Keys \cup {0}, last : Keys \cup {0},
                           found : Partial(Keys, Values)]]
  /\ wpc \in [Shards -> WorkerPC]
  /\ written \in Partial(Keys, Values)
  /\ raced \subseteq Keys
  /\ touched \in [Clients -> SUBSET Keys]
  /\ slice \in [Clients -> Offsets \cup {NoSlice}]
  /\ exposed \subseteq Clients

\* Get answers with the last value set, and kNotFound after Del, in every
\* state, of every key whose last write did not race: no Del on its way
\* through the queue takes away the value of a later Set, not even one left
\* over from writes that did race (plain_unordered_index_impl.cpp:5-12,
\* plain_ordered_index_impl.cpp:11-22).
GetSeesLastWrite ==
  \A k \in Keys \ raced :
    /\ CanGet(k) <=> k \in DOMAIN written
    /\ CanGet(k) => ValueOf(k) = written[k]

\* The Slice that Get has given to a caller stays in the store while the
\* caller reads it, until somebody calls Del for its key: no Set of the key
\* takes the bytes away, and neither does a Del that was called before Get, if
\* the last write of the key did not race.  If it did race, the Slice is safe
\* only when no Del of the key was on its way at the Get: one that was called
\* before a Set and pushed after it frees the value of that Set under whoever
\* reads it.  "exposed" holds the clients that get no promise, for this reason
\* or because Del has been called since (plain_store_impl.cpp:5-18, 28-36,
\* open_hikv.cpp:20-33).
SlicesStayValid ==
  \A c \in Clients \ exposed : slice[c] # NoSlice => slice[c] \in DOMAIN off2str

\* A Scan shows its caller every write that had returned before it was called,
\* the caller's own and those of others, up to where the callback stopped it;
\* only a key that somebody has been writing since, or whose last writes
\* raced, may be older or newer.  It is the check that is commented out in
\* test/open_hikv_test.cpp:60-74, for all clients.
ScanSeesEarlierWrites ==
  \A c \in Clients : cpc[c] = "found" =>
    \A k \in Keys \ (raced \cup touched[c]) :
      (scan[c].from <= k /\ k <= scan[c].last) =>
        /\ k \in DOMAIN scan[c].found <=> k \in DOMAIN written
        /\ k \in DOMAIN written => scan[c].found[k] = written[k]

\* The ordered index never holds an offset that the store has forgotten,
\* whatever writes race: no Scan fails half-way, although workers erase from
\* the store between WaitDrain and the scan, and no worker is brought down by
\* Del answering kNotFound (plain_ordered_index_impl.cpp:15-18, 32-35,
\* pmem_msg_queue_impl.cpp:181-184).
NothingDangles ==
  /\ \A c \in Clients : cpc[c] # "failed"
  /\ \A s \in Shards : wpc[s] # "down"

\* When no write is under way and the queue is drained, the two indexes agree
\* on every key whose last write did not race.
Quiescent ==
  /\ Writers = {}
  /\ \A s \in Shards : ~ CanPeek(s)
Agree(k) ==
  /\ k \in DOMAIN ordered <=> k \in DOMAIN unordered
  /\ k \in DOMAIN ordered => ordered[k] = unordered[k]
IndexesAgreeWhenDrained ==
  Quiescent => \A k \in Keys \ raced : Agree(k)

\* The store frees a value when a Del finds its offset in the ordered index,
\* and never else: when the queue is drained, a value is gone exactly if the
\* next write of its key that was pushed after it is a Del.  An overwritten
\* value is kept for ever (plain_ordered_index_impl.cpp:5-22).
NextWrite(s, i) ==
  LET later == {j \in i + 1 .. Len(log[s]) : log[s][j].key = log[s][i].key}
  IN IF later = {} THEN "none" ELSE log[s][CHOOSE j \in later : \A l \in later : j <= l].type
OnlyDelsFreeTheStore ==
  Quiescent => \A s \in Shards : \A i \in DOMAIN log[s] :
    log[s][i].type = "kSet" =>
      (log[s][i].offset \notin DOMAIN off2str <=> NextWrite(s, i) = "kDel")

-----------------------------------------------------------------------------
(***************************************************************************)
(* The inductive invariant.                                                *)
(***************************************************************************)
\* What the worker of s has still to do: the message at applied + 1 is done
\* while it is about to be popped.
Unapplied(s) == applied[s] + (IF wpc[s] = "pop" THEN 2 ELSE 1) .. Len(log[s])

WorkerKnows(s) ==
  /\ wpc[s] # "down"
  /\ applied[s] <= Len(log[s])
  /\ wpc[s] \in {"apply", "pop"} => applied[s] < Len(log[s])
  /\ \A i \in 1 .. Len(log[s]) : ShardOf[log[s][i]] = s

IsSetOf(m, o) == m.type = "kSet" /\ m.offset = o
Carried(m) == m.type = "kSet" => StoreHas(m.offset, m.key)

\* Each offset is below offset_ and on its way to the ordered index once, and
\* what is on its way is in the store.
OffsetsOnTheWay ==
  /\ \A o \in DOMAIN off2str : o < offset
  /\ \A c \in Writers : Carried(toPush[c])
  /\ \A s \in Shards : \A i \in Unapplied(s) : Carried(log[s][i])
  /\ \A c, d \in Writers : \A o \in Offsets :
       IsSetOf(toPush[c], o) /\ IsSetOf(toPush[d], o) => c = d
  /\ \A c \in Writers : \A s \in Shards : \A i \in Unapplied(s) : \A o \in Offsets :
       ~ (IsSetOf(toPush[c], o) /\ IsSetOf(log[s][i], o))
  /\ \A s, u \in Shards : \A i \in Unapplied(s), j \in Unapplied(u) : \A o \in Offsets :
       IsSetOf(log[s][i], o) /\ IsSetOf(log[u][j], o) => s = u /\ i = j

\* What the ordered index holds has come all the way and is in the store.
Arrived(o) ==
  /\ \A c \in Writers : ~ IsSetOf(toPush[c], o)
  /\ \A s \in Shards : \A i \in Unapplied(s) : ~ IsSetOf(log[s][i], o)
OrderedIsStored ==
  \A k \in DOMAIN ordered : \A o \in Offsets :
    ordered[k] = o => StoreHas(o, k) /\ Arrived(o)

\* No Del of k to come can find o in the ordered index: each is followed by the
\* kSet that brings o there.
Safe(k, o) ==
  /\ \A c \in Writers : toPush[c].key = k => toPush[c].type = "kSet"
  /\ \A s \in Shards : \A i \in Unapplied(s) :
       log[s][i].type = "kDel" /\ log[s][i].key = k =>
         \/ \E c \in Writers : IsSetOf(toPush[c], o)
         \/ \E j \in Unapplied(s) : i < j /\ IsSetOf(log[s][j], o)

\* What the unordered index leads to is of its key, if the store still has it.
UnorderedIsOwn ==
  \A k \in DOMAIN unordered :
    /\ unordered[k] < offset
    /\ unordered[k] \in DOMAIN off2str => off2str[unordered[k]].key = k

UnorderedIsStored ==
  /\ DOMAIN unordered = DOMAIN written
  /\ \A k \in DOMAIN unordered \ raced : \A o \in Offsets :
       unordered[k] = o =>
         StoreHas(o, k) /\ off2str[o].value = written[k] /\ Safe(k, o)

SlicesAreStored ==
  \A c \in Clients \ exposed : \A o \in Offsets :
    slice[c] = o => \E k \in Keys : StoreHas(o, k) /\ Safe(k, o)

StoreInv ==
  /\ TypeOK
  /\ \A s \in Shards : WorkerKnows(s)
  /\ \A c \in Clients : cpc[c] # "failed"
  /\ OffsetsOnTheWay
  /\ OrderedIsStored
  /\ UnorderedIsOwn
  /\ UnorderedIsStored
  /\ SlicesAreStored

\* The last write of k that is on its way left the unordered index as it is, and
\* when none is the ordered index says the same of k.
LeftBy(m, k) ==
  IF m.type = "kSet" THEN k \in DOMAIN unordered /\ unordered[k] = m.offset
                     ELSE k \notin DOMAIN unordered
WrittenNow(k) == \E c \in Writers : toPush[c].key = k
Converges(k) ==
  /\ \A c, d \in Writers : toPush[c].key = k /\ toPush[d].key = k => c = d
  /\ \A c \in Writers : toPush[c].key = k => LeftBy(toPush[c], k)
  /\ ~ WrittenNow(k) =>
       \A s \in Shards : \A i \in Unapplied(s) :
         log[s][i].key = k /\ (\A j \in Unapplied(s) : i < j => log[s][j].key # k)
           => LeftBy(log[s][i], k)
  /\ ~ WrittenNow(k) /\ (\A s \in Shards : \A i \in Unapplied(s) : log[s][i].key # k)
       => Agree(k)

IndexInv ==
  /\ StoreInv
  /\ \A k \in Keys \ raced : Converges(k)

\* A key that a Scan must show as written is not being written, and once
\* WaitDrain has returned no message of it is on its way.
ScanKnows(c) ==
  Scanning(c) =>
    \A k \in Keys \ (raced \cup touched[c]) :
      /\ ~ WrittenNow(k)
      /\ cpc[c] = "drain" =>
           /\ target[c] \in [Shards -> Nat]
           /\ \A s \in Shards : \A i \in Unapplied(s) :
                log[s][i].key = k => i <= target[c][s]
      /\ cpc[c] = "scan" =>
           \A s \in Shards : \A i \in Unapplied(s) : log[s][i].key # k

\* The writes of shard s that have come to the ordered index, the last of them
\* of its key, and the next one of a key.
Done(s) == 1 .. Len(log[s]) \ Unapplied(s)
Latest(s, i) == \A j \in Done(s) : i < j => log[s][j].key # log[s][i].key
Follows(s, i, j) ==
  /\ i < j /\ log[s][j].key = log[s][i].key
  /\ \A l \in Done(s) : i < l /\ log[s][l].key = log[s][i].key => j <= l

\* No two messages ever pushed carry the same offset.
SetsAreDistinct ==
  \A o \in Offsets : \A s \in Shards : \A i \in DOMAIN log[s] :
    IsSetOf(log[s][i], o) =>
      /\ o < offset
      /\ \A c \in Writers : ~ IsSetOf(toPush[c], o)
      /\ \A u \in Shards : \A j \in DOMAIN log[u] : IsSetOf(log[u][j], o) => u = s /\ j = i

\* The ordered index holds what the last write of each key says.
LastIsOrdered ==
  /\ \A s \in Shards : \A i \in Done(s) :
       Latest(s, i) /\ log[s][i].type = "kSet" =>
         log[s][i].key \in DOMAIN ordered /\ ordered[log[s][i].key] = log[s][i].offset
  /\ \A k \in DOMAIN ordered : \E s \in Shards : \E i \in Done(s) :
       Latest(s, i) /\ log[s][i].key = k /\ IsSetOf(log[s][i], ordered[k])

\* A value that is not the last of its key is gone if a Del came next.
FreedByNext ==
  \A s \in Shards : \A i \in Done(s) :
    \/ Latest(s, i)
    \/ \E j \in Done(s) :
         /\ Follows(s, i, j)
         /\ log[s][i].type = "kSet" =>
              (log[s][i].offset \notin DOMAIN off2str <=> log[s][j].type = "kDel")

FreeInv == SetsAreDistinct /\ LastIsOrdered /\ FreedByNext

IInv ==
  /\ IndexInv
  /\ \A c \in Clients : ScanKnows(c)
  /\ ScanSeesEarlierWrites
  /\ FreeInv

-----------------------------------------------------------------------------
\* A Scan needs nothing but what was pushed before it was called: it comes to its
\* end even if the workers never apply a later message.  So other clients cannot
\* hold it up, however much they go on writing (open_hikv.cpp:37-43, msg_queue.h).
ScanTerminates == \A c \in Clients : cpc[c] = "drain" ~> cpc[c] = "found"
=============================================================================
