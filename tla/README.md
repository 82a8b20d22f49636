# open_hikv: TLA+ models, model checks and proofs

open_hikv is a key-value store with two indexes: a hash map that a write updates
at once and that `Get` reads, and a sorted map that worker threads update later,
from a message queue, and that `Scan` reads after it has waited for the queue to
drain. Each part exists twice, as a plain ("plain vanilla") class and as one for
persistent memory. This directory models the parts that keep state, checks the
models with TLC on small instances, and proves with TLAPS, for every instance,
the safety of both message queues, of the key-value store that is built on them,
of the B+ tree, of the persistent hash index with its store, of the copying below
it, and of the search among string keys.

Contents: 1 inventory, 2 modules and code, 3 runs, 4 fairness and deadlock,
5 proofs, 6 disagreements with the tests, 7 what is not modelled, 8 plan.

## 1. Inventory

| Component | State | Operations | Used by / shares | Hard part |
|---|---|---|---|---|
| `OpenHiKV` (`open_hikv.{h,cpp}`) | the four parts below | `Get`, `Set`, `Del`, `Scan`, `ConsumeMessageQueue` | clients; queue workers call `ConsumeMessageQueue` | takes no lock: an index update and its message are two steps, so are `WaitDrain` and the scan, and a worker's peek, update and pop |
| `MessageQueue` (`msg_queue.h`) | messages not applied yet | `Push`, `Peek`, `Pop`, `WaitDrain`, `RegisterConsumeFunction` | `OpenHiKV` | a promise both implementations must keep |
| `pmem::MessageQueueImpl` | 32 units: deque, mutex, condition variable, `ver_`, `applied_ver_`, `waiting_`; 32 worker threads | the same, destructor | `OpenHiKV` (the wired one) | one condition variable for the worker and all callers of `WaitDrain`; `kNotify` markers in the deque; atomics read without the mutex |
| `plain_vanilla::MessageQueueImpl` | one deque, mutex, `ver_`, `applied_ver_`, `stop_`; one worker | the same, destructor | alternative to it | polling; counters compared without the mutex; a destructor that does not drain |
| `plain_vanilla::StoreImpl` | offset to key and value, next offset | `Get`, `Set`, `Del` | both plain indexes | `Del` of an unknown offset is an error that ends the worker |
| `plain_vanilla::UnorderedIndexImpl` | key to offset | `Get`, `Set`, `Del` | `OpenHiKV`, the store | its `Del` leaves the store to the ordered index |
| `plain_vanilla::OrderedIndexImpl` | sorted key to offset | `Set`, `Del`, `Scan` | workers and `Scan`, the store | a late `Del` erases from the store under newer data |
| B+ tree (`pmem_impl/bplustree.{h,c}`) | nodes, root, level, a list per level | put (insert or delete), get, get_range | `pmem::OrderedIndexImpl` | splits, borrowing, merges, `parent_key_idx`, asymmetric splits of an odd order |
| `pmem::OrderedIndexImpl` | a B+ tree | `Set`; `Del` and `Scan` are stubs | nobody (commented out) | string keys and `my_strcmp` |
| `pmem::UnorderedIndexImpl` | 20 shards: mapped table, `max_probe_len` | `Set`, `Get`; `Del` is a stub | `OpenHiKV` (the wired one), the store | lock-free insertion with a 16-byte compare-and-swap; an entry is published before it is written back |
| `pmem::StoreImpl` | a 4 MB table per thread, shared by all objects; a file number | `Set`, `Get`; `Del` is a stub | `pmem::UnorderedIndexImpl` | a thread-local bump allocator; what is written back when |
| `pmem_op` | none | `PMemCopy`, `pmem_memcpy`, persist, `pmem_map_file` | the store, the hash index | heads and tails of copies at every alignment; which cache lines a persist covers |
| `cpu` | none | CPU detection | `pmem_op` | taken from PMDK |

What makes them correct, in a sentence each: the queue gives each shard's messages
to the worker in order, once, and `WaitDrain` returns when, and only when,
everything pushed before it is applied; nobody sleeps through what it waits for, and
the worker never meets an empty queue, which is `exit(1)`; the destructor ends, and
the sharded one loses nothing. `Get` sees the last write, `Scan` sees every write
that ended before it, no `Set` takes the bytes behind a `Slice` away, and the two
indexes become the same map; where two writes of one key race, the store and the
indexes still never come apart. The tree is a sorted map and keeps the links its own deletes
rely on. The hash table loses no slot to a race, keeps every entry within the reach
of its readers and publishes none whose record is not durable; the store gives no
byte away twice; a copy writes the bytes it should and leaves none in the cache.

The hazards behind these properties are listed, each at its line, in
`PROJECT.json` under "hazards".

## 2. Modules and code

`MessageQueue` is the abstract specification: per shard a log, of which a prefix
is applied, and for each caller of `WaitDrain` what it waits for. Both queue
modules show that they implement it (`ImplementsQueue`), and `OpenHiKV` extends
it, so what `OpenHiKV` establishes holds over either queue. The module has no
locks and no markers.

    MessageQueue  <--INSTANCE--  PmemMessageQueue   <--  PmemMessageQueueProofs
         ^        <--INSTANCE--  PlainMessageQueue  <--  PlainMessageQueueProofs
         |
      OpenHiKV  <--  OpenHiKVProofs

      PmemOp  <--  PmemStore  <----------  PmemUnorderedIndex
         ^                                         ^
         |                             PmemUnorderedIndexProofs
         |
         +-------  PmemCopy  <--  PmemCopyProofs

      BPlusTree  <--  BPlusTreeFacts  <--  BPlusTreeProofs

      StringKeys  <--  StringKeysProofs

(An arrow that is not an `INSTANCE` is an `EXTENDS`.) Each `MC...` module gives a
module its small instance. `BPlusTreeFacts` has the lemmas about trees that do not
depend on the actions, and the inductive invariant; `BPlusTreeProofs` has a lemma per
action, and the theorems.

**`PmemMessageQueue`** models `pmem_msg_queue_impl.{h,cpp}`. A step is what a
thread does from taking `mtx_` to releasing it; a sleep in `cv_.wait` ends a
step. The unlocked reads of `ver_` and `applied_ver_` are steps of their own
(`DrainRead`, `DrainCheck`).

| Code | Definition |
|---|---|
| `que_`, `ver_`, `applied_ver_`, `waiting_` | `que`, `ver`, `applied`, `waiting`, per shard |
| lambda of `RegisterConsumeFunction` | `wpc`, `WorkerWait`, `WorkerWake`, `WorkerPeek`, `WorkerConsume`, `WorkerPop` |
| `MayConsumeNotifyMessages` | `DropMarkers`, `ShouldNotify`, inside `WorkerPeek` and `WorkerPop` |
| both `WaitDrain` | `dpc`, `pos`, `arr`, `rand`, `DrainCall` ... `DrainReturn` |
| `notify_all` | `Woken`, `DrainersNotified`: worker and drainers of the unit alike |
| `~MessageQueueImpl` | `DestructorClose` (once per unit), `DestructorJoin` |
| a spurious wake-up | `SpuriousWakeup` (external: the C++ library) |

`Push` is called by any number of client threads; it is one critical section, so
they need no state. The hash of a key is the constant `ShardOf`. `held` is what the
worker got from `Peek`: in the code a `Slice` into the front of the deque, here a
copy of the entry, which is the same as only the worker pops. `seq` in a queue
entry, `pushed`, `delivered` and `called` are history: no action reads them.
`kSet` and `kDel` are one type, as the queue treats them alike.

**`PlainMessageQueue`** models `plain_msg_queue_impl.{h,cpp}` in the same way.
`ver_` and `applied_ver_` are not atomic, and the worker compares them without
the mutex; the comparison is a step of its own that sees either the value before
or after a whole `Push`. The loop of `WaitDrain` is a step that waits: a poll
that fails changes nothing.

**`OpenHiKV`** models `open_hikv.{h,cpp}` over the abstract queue, with the plain
store and the plain indexes. A call on an index is one step, as it holds that
index's mutex; everything between two such calls is a point where others run.

| Code | Definition |
|---|---|
| the four maps and counters of the plain classes | `off2str`, `offset`, `unordered`, `ordered` |
| `OpenHiKV::Set`, `Del` | `Set`, `Del` (the unordered index), then `PushWrite` |
| `OpenHiKV::Get` and the caller who reads its `Slice` | `Get`, `SliceRead`; `CanGet`, `ValueOf` are its answer |
| `OpenHiKV::Scan` | `ScanCall`, `ScanDrained`, `ScanOrdered`, `ScanReturn` |
| `ConsumeMessageQueue` | `wpc`, `WorkerPeek`, `WorkerSet`, `WorkerDel`, `WorkerPop` |
| `StoreImpl::Del` answering `kNotFound` | `wpc = "down"`, `cpc = "failed"` |

Any client writes any key at any time. No lock orders two writes of one key that
overlap, so their messages may be pushed in the other order than the unordered
index was changed; a `Del` left over in the queue may then erase from the ordered
index and the store what a later `Set` has put there. History variables say for
which keys something can be promised: `raced` holds the keys whose last write
began while another write of that key was between its index and its push (the
next write that has the key to itself takes it out again, and the two indexes are
equal for it once more), `touched` the keys written since a client began its
`Scan`. The tests have no races: each key starts with the number of its thread
(`test/open_hikv_test.cpp:28`). `NothingDangles` needs no such restriction.

How long may a caller go on reading the `Slice` that `Get` gave it? `slice` is the
offset behind it, of every key, and `exposed` the clients whose bytes a `Del` may
free: those who were reading the key when somebody called `Del`, and those who read
a key whose last write raced while a `Del` of it was on its way. The second case is
not obvious: c1 deletes `k` from the unordered index, c2 sets `k` and pushes, c1
pushes its older `kDel`, and c2 gets `k`; the worker applies the `kSet` and then the
`kDel`, which frees the bytes c2 reads, although nobody has called `Del` since.
`SlicesStayValid` says that these are the only cases. So neither a `Set`, nor a
`Del` that was called before the `Get` of a key that did not race, nor a race with
no `Del` on its way takes the bytes away.

`OrderedIndexImpl::Scan` answers `kNotFound` when no key is at or above the start;
the model shows it as a `Scan` that finds nothing.

The factory in `open_hikv.cpp:79-95` wires the pmem store, the pmem hash index and
the pmem queue to the plain ordered index. With those, deletes are stubs, so the
plain classes are the ones that have the behaviour the interfaces describe, and
they are the ones composed here; the pmem hash index and store have modules of
their own.

**`BPlusTree`** models put, delete, get and get_range of `bplustree.c` with numeric
keys. `bplus_tree_put` passes `use_strcmp = 0` to every delete (`bplustree.c:999`),
so there are no deletes with string keys to model.
The recursions up the tree (`parent_node_build`/`non_leaf_insert` and
`non_leaf_remove`) are loops over levels, one level a step; `work` holds the call
that is still to be made. The tree is sequential, so no other operation starts
before `work` is idle, and the properties of the finished tree say
`work = Idle`. Arrays are sequences; a position is kept as the code computes it
and one is added where a sequence is read. `parent_key_idx` is `idx`, kept and
renumbered exactly where the code does it.

`GetRange` walks the leaves as `bplus_tree_get_range` does. Two things about it are
noted here, as nothing calls it and no comment or test says what it should
answer. When the lower key is behind the last entry of its leaf but not behind
all entries, it moves to the next leaf and keeps its index, which may be behind
the entries of that leaf: what it reads there is undefined. And when the range
reaches the end of the last leaf it answers -1, whatever it has found.
`RangeFindsLast` says what it does answer everywhere else.

**`StringKeys`** models puts with `use_strcmp` into one leaf, as
`pmem::OrderedIndexImpl::Set` makes them: `my_strcmp` by what it does (both
lengths come from its first argument, and it may read behind the second string:
any byte of `Bytes`), and the binary search that calls it, each turn a step
(`Put`, `SearchTurn`, `Insert`). `char` is signed on
the platform the code is for; the small instances use bytes below 128, where it
makes no difference.

**`PmemOp`** says which cache lines `PMemPersist`, `PMemPersistRange` and
`flush_clwb_nolog` write back, with AVX-512; without it they are compiled to
nothing and `pmem_memcpy` to a `memcpy`.

**`PmemStore`** models `pmem_store_impl.{h,cpp}`. A record goes to the thread's
table, and to a fresh one when it does not fit. Tables are `static thread_local`:
all `StoreImpl` objects of the process share them, so a record may end up in a
file of another object. `files` is the list of mappings, numbered by each
object's `table_id_`; `records` is what has been handed out; `dirty` are the lines
of records that are not written back. `Set` is one step: nobody else has the
address it works on, and `++table_id_` is atomic. A record longer than a table is
written past the end of a fresh one (`Short` leaves those out of the promise, not
out of the model).

**`PmemUnorderedIndex`** extends it and models concurrent `Set` on one shard: each
atomic access is a step, a slot goes from zero to an entry once and for all, and
the entry is written back (`SetPersist`) only after the compare-and-swap has
shown it to readers. Threads also call `Set` on another `StoreImpl`
(`OtherStoreSet`). `Get` is not an
action: it asks `__sync_bool_compare_and_swap` of 0 by 0 for the contents of a
slot (`pmem_unordered_index_impl.cpp:90-95`), which leaves the slot as it is and
does not write `old_val`. The entry it looks at is thus always zero, so it stops
at the first slot and answers `kNotFound` for every key. No test reads a key
back, and no comment says otherwise, so this is noted and not checked; what is
checked is that the table is one in which a reader that did see the slots would
find every entry (`EverySetIsReachable`).

**`PmemCopy`** models `PMemCopy` and the `pmem_memcpy` below it: the stores they
make (place, width, past the cache or not) and the lines they write back. The
bytes themselves are not in the model: a store copies the bytes of its own place.
Nothing under `src/` calls `PMemCopy`, and nothing but `PMemCopy` calls
`pmem_memcpy`, never for no bytes: the store writes with `memcpy` and then calls
`PMemPersistRange`, which is what `PmemStore` models.

## 3. Runs

Every property of a passing run has a mutant in `PROJECT.json`: an operator
defined just before the one it replaces, with a plausible bug, under which TLC
finds the property violated in the same run.

| Run | Bounds | Shows |
|---|---|---|
| `pmem_queue_units` | 2 units, 2 messages for one and 1 for the other, at most 2 pushes a unit, 1 drainer, `SizeT` 4 | order and exactly-once delivery, `WaitDrain` waits for all units wherever it starts, a closed queue is empty, no worker goes down, `IInv` |
| `pmem_queue_live` | 1 unit, 2 pushes and a close, 2 drainers | a sleeping drainer has a marker; `WaitDrain` and the destructor end; the unit implements `MessageQueue`, fairness included |
| `plain_queue` | 2 messages, 3 pushes, 2 drainers | the same promises for the polling queue; the safety half of `MessageQueue`; `IInv` |
| `hikv_one_shard` | 2 clients that both write 2 keys of one shard, 3 sets, 4 messages | `Get` sees the last write in every state, which `Slice`s stay valid and how long, nothing dangles although writes race, drained indexes agree, what the store frees; `IInv` |
| `hikv_two_shards` | the same, a shard a key, 2 sets, 3 messages | `Scan` sees what was written before it, across workers at different points; it ends though later messages may never be applied |
| `bplustree_even` | order 4, leaves of 2, 8 keys | sorted map, search, ranges, links, the code's assertions |
| `bplustree_odd` | order 5, leaves of 3, 12 keys | how full the nodes are where halves are unequal |
| `bplustree_overwrite` | order 3, leaves of 2, 3 keys with 2 data each | **violated**: see 6 |
| `string_keys_same_length` | the 9 strings of length 2 over 3 bytes | stored once, in the order of `std::string` |
| `string_keys_mixed` | the 6 strings of length 1 and 2 over 2 bytes | **violated**: see 6 |
| `pmem_unordered_index` | 3 threads, 3 keys with colliding homes, 3 + 2 slots, 3 sets; 2 stores, tables of 128 bytes, records of 40, 88 and 130 | slots are kept, entries reachable, slack sufficient, every `Set` returns; records apart, durable before they are seen |
| `pmem_copy` | every destination modulo 256, every length to 321 and some longer | each byte written, none outside, none left in the cache |

Why the bounds are enough. *Queue*: the dangerous situations are a marker alone
in the queue, a marker between two messages, a drainer woken for somebody else's
marker, and a close while one of them sleeps. Two messages and two drainers on
one unit make each of them, and the mutants `AfterPopKeepingMarkers`,
`DrainLockNoRecheck` and `DrainersKeptAsleep` show that the runs reach them. More
units only add to the loop of `WaitDrain`, which two units exercise. `SizeT`, the
number of values of a `size_t`, is 4, so that the sum `rand_num` of all versions
wraps; in the code it never gets that far, and 32 units divide the range. For every
bound there is the proof. *OpenHiKV*:
set, delete, set of one key with a scan of another client in between needs three
messages in a shard, a race two writers of one key and a third write that heals
it, which the fourth message can then meet; there is the proof for every bound.
*Store*: of the three records two fit a table together, two do not, one begins in
the middle of a line and one is longer than a table. *Copy*: the code's cases
depend on the address modulo 256 and on the length up to a block and a line;
longer ones add turns of its loops, of which lengths around 512, 2048 and 4096
bytes take the others. *Tree*: with 8 keys and order 4 the tree grows to two levels
of inner nodes above the leaves and back to nothing, through every action of the
module, as TLC's coverage shows; a level more repeats the same steps with the
parent in the part of the root. Order 5 is the least at which a split of an inner
node is unequal, leaves of 3 have a middle entry, and 12 keys make a root of that
order split; there is the proof for every order and size. *Hash table*: three
threads can take each other's slots twice over, so a `Set` that loses a slot
loses the next one too; there is the proof for every bound, of the store as well.

`SYMMETRY` is used in safety runs only: over messages of one unit, or over values,
neither of which any action looks into. The tree runs use a `VIEW` that names a
node by its level and its place in the level's list: `calloc` may return any
address, so states that differ in the names of nodes only are the same state;
everything else of the state is in the view.

## 4. Fairness and deadlock

Weak fairness is given to each worker thread, to each thread that is inside a
call (`WaitDrain`, `Scan`, `Set`), and to the destructor once it has begun: the
operating system goes on scheduling a runnable thread, and `std::mutex` is held
for bounded work only. Nothing makes a client push, call or destroy anything, and
nothing makes a spurious wake-up happen.

A worker owes less in two of the models than it does in the code. In `OpenHiKV` and
`PlainMessageQueue` the fairness is that of `Awaited(s) /\ WorkerStep(s)`: a worker
must go on only while a `Scan` or a `WaitDrain` still waits for one of the messages
before it, and may leave every later message unapplied for ever. This is weaker than
what the operating system gives, so that `ScanTerminates` and `DrainTerminates` say
more: a `Scan` needs nothing that was pushed after its call. The bounds on pushes
(`MaxLog`, `MaxPushes`) would otherwise see to it that a queue runs empty in the
end, and a `WaitDrain` that waits for an empty queue, or for a target that moves
with every push, would pass. The mutants `WaitDrainReturnWhenEmpty` and
`DrainPollMoving` are these two, and fail. (`OpenHiKV` takes `WaitDrain` from
`MessageQueue`; that the code's queues implement it is what the runs of the queues
show.) `PmemMessageQueue` keeps the fairness of the code, as it has to implement that
of `MessageQueue`. No strong fairness is needed: a thread
that waits in these models waits for a condition that stays true.

`CHECK_DEADLOCK FALSE` stands in the runs that end: after the destructor there is
nothing to do, and when the bound on calls is used up nobody has to call. That
the workers and callers do not get stuck before is what the liveness properties
say. The tree and string runs check deadlock.

## 5. Proofs

Every theorem holds for all values of the constants that satisfy the named
assumptions of its module, each of which the code justifies: there is at least
one unit (`NAssumption`) and 32 units divide the range of `size_t`
(`SizeTAssumption`); the shard of a message is a unit (`ShardOfAssumption`) and that
of its key (`ShardOfKeyAssumption`); `MessagesAssumption` says what is pushed; tables
are whole cache lines (`TableSizeAssumption`), a request has a length
(`RequestLenAssumption`), two stores have different paths (`PathAssumption`, see 7);
a signature is odd, as `hash | 1` makes it (`HashAssumption`). Of the tree: an inner
node has room for 3 children and a leaf for 2 entries (`OrderAssumption`,
`EntriesAssumption`), `my_key_t` is a machine integer, so there is a least and a
greatest key (`TreeKeysAssumption`), and the data put under a key is not 0, which
would be a delete (`DataForAssumption`). The rest say that a bound is a number.

`PmemMessageQueueProofs`, for every number of units, messages, callers and pushes:

| Theorem | Says |
|---|---|
| `TypeCorrect` | `SafetySpec => []TypeOK` |
| `UnitsInvariant` | `SafetySpec => []UnitsInv`: the part about the units |
| `NeverDown` | no worker takes the `exit(1)` |
| `InOrderOnce` | in order, each once, counted by `applied_ver_` |
| `NoLostWakeup` | a sleeping worker has no work, a sleeping drainer has a marker |
| `CloseLosesNothing` | a worker that leaves on `kClose` has applied everything |
| `Invariant` | `SafetySpec => []IInv`: that, and what `WaitDrain` has still to visit |
| `WaitsForAll` | `WaitDrain` returns after everything pushed before it, in all units |
| `Refinement` | `SafetySpec => Queue!QueueSafetySpec`: each step is one of `MessageQueue` or a stutter |

`PlainMessageQueueProofs`, for every number of messages, pushes and drainers:

| Theorem | Says |
|---|---|
| `Invariant` | `SafetySpec => []IInv` |
| `NeverDown` | the worker never peeks or pops an empty queue |
| `InOrderOnce` | in order, each once, wherever the destructor stops it |
| `Refinement` | `Spec => ImplementsQueue`: each step is one of `MessageQueue` or a stutter |

`OpenHiKVProofs`, for every set of clients, keys and shards and every bound:

| Theorem | Says |
|---|---|
| `IndexInvariant` | `Spec => []IndexInv`: the part about the indexes |
| `GetIsCurrent` | `Get` answers with the last write of a key that did not race |
| `SlicesValid` | the bytes behind a `Slice` stay until a `Del` of its key is called; after a race, if no `Del` was on its way (2) |
| `NothingLost` | no `Scan` fails and no worker goes down, whatever races |
| `IndexesConverge` | drained, the indexes agree on every key that did not race |
| `Invariant` | `Spec => []IInv`: that, and what a `Scan` and the store know |
| `ScanIsCurrent` | a `Scan` shows every write that ended before it |
| `OnlyDelsFree` | drained, a value is gone exactly if a `Del` of its key came next |

`BPlusTreeProofs`, on the lemmas of `BPlusTreeFacts`, for every order, leaf size and
set of keys, odd and even; each is of the form `Spec /\ [](level < MaxLevel) =>
[]P`:

| Theorem | Says |
|---|---|
| `TreeIsSound` | the inductive invariant `TreeInvariant` |
| `TreeTypes` | `TypeOK` |
| `NodesStayWithinBounds` | no node overflows, also in the middle of a call; between calls none but the root is less than half full |
| `AssertionsNeverFail` | the assertions of the code hold |
| `LinksStayInAgreement` | `parent`, `parent_key_idx` and the lists of the levels describe one tree |
| `LeavesAreTheMap` | the leaves hold exactly what was put and not deleted, in order |
| `GetFindsEveryEntry` | `bplus_tree_get` finds every key that is there and no other |
| `RangeFindsTheLast` | what `bplus_tree_get_range` answers, but for its stale index (2) |

The hypothesis `[](level < MaxLevel)` is what the code takes on trust: it increments
`level` without comparing it with `BPLUS_MAX_LEVEL` (`bplustree.c:253`), and a tree
that grows beyond has no list for its root. With order 16 that takes more than 8^9
leaves. The hypothesis is about the behaviour and not about the constants, so
nothing is assumed of how many keys there are.

`PmemUnorderedIndexProofs`, for every number of threads, keys, stores, table sizes,
record lengths and homes, the store below the table included:

| Theorem | Says |
|---|---|
| `Invariant` | `Spec => []IInv`, of the table and the store below it |
| `Reachability` | a reader comes to every entry whose `Set` has returned |
| `RecordsStay` | no record is written over, whoever wrote it through which store |
| `Durability` | what readers see is written back, and a `Set`'s entry when it returns |
| `SlotsStay` | `Spec => SlotsAreKept`: a slot is given away once |
| `NoOverrun` | the slack takes as many `Set`s as it has slots and one more |

`PmemCopyProofs`, for every address and every length, and `StringKeysProofs`, for
every set of non-empty strings that have one length:

| Theorem | Says |
|---|---|
| `CopiesEverything` | `Spec => []CopiesExactly`: all bytes, no others, none left in the cache |
| `SortedInTheLeaf` | `SameLength` implies `Spec => []SortedByString` |

The argument for the sharded queue. None of the properties is inductive. Why does
`Pop` never leave a marker alone? Because a queue never starts with one; and that
holds because a drainer appends a marker only while `applied_ver_ < version`, so
only behind work, which needs that the queue holds exactly the versions `applied + 1
.. ver`. This is `VersionsInQueue`, on top of `Chained`: each message carries the
version after the entry before it, a marker carries the version of the entry it
follows. `ContentsOfQueue` ties a version to its place in the history, `WorkerKnows`
says that a worker past its wait has a non-empty queue and holds its front,
`DeliveredSoFar` that what was delivered is a prefix of what was pushed, and
`DrainerKnows` that a sleeping drainer has a marker whose version is at least the
one it waits for, so that the `notify_all` that consumes the marker finds the
predicate true. `UnitsInv` is their conjunction with `TypeOK`. The proof goes action
by action; `UnitPush` (client message and `kClose`) and the steps of a drainer that
touch no queue share lemmas.

`WaitDrain` takes its first unit from the sum of the versions it has read, and counts
on from there, modulo the units. Why does its loop leave no unit out? After `pos` turns of `N` it will still
visit `ToVisit`, the residues of `rand`, ..., `rand + N - pos - 1`. `DrainerVisits`
says that every unit outside `ToVisit` has applied what was there at the call, and
inside it `arr` still holds a version that covers it. A turn takes the residue of
`rand` out; that the others stay the same whatever the sum was, reduced as a `size_t`
is, is where the units must divide `SizeT`, and that `N` turns visit all of them is `RemainderSum`: `N`
consecutive numbers have all remainders. At `pos = N` nothing is left, which is
`DrainedOnReturn`. `IInv` is `UnitsInv` with `DrainerVisits`; TLC checks it in
`pmem_queue_units`. The refinement mapping takes what was pushed to a unit for its
log and, of a caller inside `WaitDrain`, what was pushed before its call for its
target: a marker, a wake-up, a `kClose` or an unlocked read is a stutter,
`WorkerPop` is the abstract `Pop`, and `DrainReturn` the abstract return, because of
`DrainedOnReturn`.

For the polling queue the versions count messages: the queue is the last
`ver - applied` messages of the history (`QueueFollowsHistory`), so a worker that
has seen the two differ holds a queue that only it can empty (`WorkerKnows`), and
a caller of `WaitDrain` has a target no later push changes (`DrainerKnows`). With
`called` as the abstract target, the refinement mapping is the identity on the
history.

For `OpenHiKV` the question is why a `Del` that a worker applies late never erases
an offset somebody counts on. An offset is used once: it is in the message of a
client about to push, or in one unapplied message, or has arrived in the ordered
index, never in two of these (`OffsetsOnTheWay`, `Arrived`). What a worker erases
is what the ordered index holds, so it has arrived (`OrderedIsStored`). What the
unordered index or a caller holds is `Safe`: each `Del` of its key still on the way
is followed by the `Set` that brings the offset, so when that `Del` is applied, the
offset has not arrived and is not the one erased. A race may break `Safe` for what
the unordered index holds, unless no `Del` of the key is on its way (`NoDelIsSafe`);
a `Slice` of a raced key is one that is `exposed` or `Safe` for that reason, and
`UnorderedIsOwn` says that its bytes are those of the key. A race never breaks the
first two, which is why nothing dangles even
then. `Converges` adds that the last write of a key on its way is what the
unordered index holds, and that when none is on its way the ordered index holds
it: pushing makes a message the last of its key, because a key has one shard, and
applying the last one makes the indexes equal. All this is `IndexInv`.

A `Scan` shows what was written because of where `WaitDrain` leaves the queue. For a
key that must be shown, nobody writes it, so its messages on the way were pushed
before the call and lie below the target; `ScanKnows` says so, and that there is
none once `WaitDrain` has returned; then `Converges` ties the ordered index to the
last write. New messages only come behind the target, and applying one never adds
to `Unapplied`.

For what the store frees, `LastIsOrdered` says that the last applied write of a key
is what the ordered index holds of it, and `FreedByNext` that a value whose key has
an applied write after it is gone exactly if the first such write is a `Del`: the
next `Del` finds in the ordered index the `Set` before it and no other. That two
`Set`s never carry one offset (`SetsAreDistinct`) keeps a `Del` from freeing the value
of another. `FreeInv` is these three, whatever writes race; `IInv` is all of it with
`IndexInv`, and TLC checks it in `hikv_one_shard`.

For the store: a mapping has a path and a number no other has
(`NoFileIsMappedTwice`), as `table_id_` only grows and each object has a path of its
own; a thread's table is its own (`TablesAreApart`); the records of a mapping lie
apart (`RecordsOfAMappingAreApart`) and, in the table in use, below its offset
(`TablesAreFilledInOrder`), so a fresh address is free (lemma `AddressIsFree`). The
lines a record's two write-backs cover are all its lines (`EveryLineIsPersisted`).
A record longer than a table reaches into what may be another file's mapping; the
model lets it, `Short` leaves it out of the promise, and the invariant needs only
that it leaves its table full.

For the hash table `InSet` says where a `Set` is: its probe length is the distance
of its entry from home, everything in between is taken, and once its
compare-and-swap has succeeded the entry is its own. A slot never becomes free again,
so what a `Set` has passed stays taken, and `max_probe_len` only grows, so an entry
it covers stays covered: `EverySetIsReachable` is kept by every step, and reached
when `SetRaise` has seen or made it at least the probe length. `EntriesDiffer` (no
offset in two slots) gives `NoOverrun`: a search that runs out has passed all slots
of the slack and one more, each holds a record of its own, and its own record is in
none, so there are at least `Slack + 2` records and as many `Set`s. `StoreInv` and
`UnsavedIsBeingSaved` give `Durability`. `IInv` is the conjunction; TLC checks it in
`pmem_unordered_index`.

A copy is a list of pieces. `Covers` says of the stores of a piece that they write
the bytes from one place to another and nothing outside, and pieces that meet cover
their union (`CoversJoin`); `AreKept` says that each of its stores goes past the
cache on a whole line, or lies in lines that are written back. Each function of
`PmemCopy` has a lemma of both: the moves of a short piece overlap but stay inside
(`SmallPiece`), the streaming loops go on where the one before stopped
(`PartGoesOn`), the head ends at a line or at the end of the request, whichever
comes first (`HeadPiece`), and what the loops leave is the tail. `CopyInv` says that
what is written so far covers what `PMemCopy` has passed.

For string keys `Narrows` is the invariant of the binary search: what lies left of
it is below the key that is put, what lies right of it is equal or above. It needs
that `my_strcmp` orders the strings (`CompareIs`), which is where `SameLength` comes
in: only then is the length it takes for its second argument the right one, and no
byte behind the string is read. When the search ends, the key belongs between its
bounds, and inserting it there keeps the leaf in order (`InsertedInOrder`).
`SameLength` is a hypothesis of the theorem and not an assumption of the module;
without it `string_keys_mixed` shows the opposite.

For the tree, the difficulty is that a call works its way up one level at a time,
and in between the tree is not one: after a split the parent lacks a child, after a
merge it has one too many, and how far up this goes is not known. The invariant
therefore looks at the tree as it will be when the call that is pending in `work` has
been done in the simplest way: `Settled(heap, work)` is the heap with the new
separator put into the parent, however full it is (or into a new root), or with the
merged child taken out, however few remain. An action that goes on upwards
(`NonLeafSplit`, `NonLeafFromLeft`, `NonLeafFromRight` in the case of a merge)
changes what is pending, and the settled tree before it and after it differ only by
that one node being cut in two or two being joined; so each action is one of a few
changes to a settled tree, each with its lemma: cutting a node in two under a parent
(`InTwo`) or under a new root (`InTwoUnder`), moving the border between two
neighbours (`Recut`), joining two (`Merged`), editing a leaf, dropping the root
(`CollapseShape`).

Of the settled tree `TreeIs` says that there is a ghost `g` that gives each node an
interval of keys and a depth. `Shape`: the root has all of `my_key_t`, the children of
a node divide its interval at its keys, in order, one level down, and the keys of a
leaf lie in its interval. `Links`: `parent` and `parent_key_idx` of each child lead
back to its slot. `Chain`: the list of a level holds the nodes of that depth, and no
others, with ascending intervals. Separators that are no longer keys are no trouble,
as intervals do not ask whether a border is a key. That neighbours in a list are
neighbours in the tree need not be kept: two nodes whose intervals meet at a depth
have nothing between them (`NeighboursAre`), so the neighbour that a borrow or a
merge finds through the list is the sibling the separator stands for. `Sizes` bounds
the nodes of the heap itself, at every step: it is there because a split comes before
the child it makes is put into the parent, and a merge before the child it empties is
taken out. `MapIs` says that the leaves hold the map. Each action has a lemma
`...Keeps`; `TreeInvariant` is all of it.

What the recursive functions compute is shown by the least number at which the claim
would fail (`SmallestNat`), as the library's induction theorems cannot be used: that
`KeyBinarySearch` finds the key or the place where it belongs in an ascending array,
that the descent ends in the leaf whose interval has the key, and that the range walk
stops at the last key of the range. From that and `MapIs` come the theorems about
`bplus_tree_get` and `bplus_tree_get_range`. `LinksAgree`, `LeavesHoldTheMap` and
`FillBounds` are read off `TreeIs`, `MapIs` and `Sizes` when nothing is pending.

Only model-checked: all liveness, that is the fair half of `ImplementsQueue` of the
sharded queue, `DrainTerminates`, `DestructorTerminates`, `ScanTerminates` and
`SetReturns`. It is out of the prover's reach; every other property of a passing run
has a theorem.

## 6. Disagreements with the tests

* **A put does not replace.** `leaf_insert` answers -1 for a key that is there
  and keeps the old data (`bplustree.c:554-557`); `bplustree_test.cpp:22-28` treats a
  put as `std_map[k] = v`. Run `bplustree_overwrite`, property `GetSeesLastPut`.
  The test's random 64-bit keys do not repeat. Through
  `pmem::OrderedIndexImpl::Set` it would mean that an overwritten key keeps its
  old offset.
* **A key that extends another is lost.** `my_strcmp` reads both lengths from its
  first argument (`bplustree.c:92-93`), so a stored key equals every key it is a
  prefix of, and the put of the longer key is taken for a duplicate when the search
  compares it with the shorter one, as it does when that is alone in the leaf.
  `bplustree_test.cpp:53-57` expects every key to be found with its data. Run
  `string_keys_mixed`, property `EveryKeyIsStored`. Among keys of one length the
  comparison is right (`string_keys_same_length`).

## 7. Not modelled

* What becomes of a value after a race: that the ordered index may lack a key, or
  hold an older value, until the key is written again is in the model; no
  property says how often.
* Hardware transactions in `bplus_tree_get` and `bplus_tree_put`: a retry loop
  around a sequential operation, with pools of 16 nodes allocated before it and
  frees deferred after it. A put splits at most a node a level and a new root, so
  the pools suffice for the 10 levels there are. Nothing uses one tree from two
  threads.
* More than `BPLUS_MAX_LEVEL` levels: out of reach of any instance, and excluded by
  hypothesis from the theorems about the tree (5).
* Recovery: the hash index zeroes its pools on start ("don't support recovery yet",
  `pmem_unordered_index_impl.cpp:40-42`), and the store begins with a fresh table
  and nothing that leads into an old one, so nothing reads what was persisted. What is durable when is checked
  (`SetsAreDurable`); a crash itself is not a step.
* `pmem_map_file` beyond a fresh mapping: its answer is not tested, and a failed
  one ends the process at the next copy. Two stores of one path
  (`PathAssumption`): each numbers its files from 0, so the second writes over the
  first; the factory opens one.
* `PMemAtomicStore`, which nothing calls; CPU detection, which no state of the
  program depends on.
* `OpenPMemOpenHiKV`, `Del` and `Scan` of the pmem indexes, `Del` of the pmem store:
  stubs that return `kOk`.

## 8. Plan

Done, in this order: `MessageQueue`, `PmemMessageQueue` and its proofs,
`PlainMessageQueue`, `OpenHiKV`, `BPlusTree`, `StringKeys`, `PmemUnorderedIndex`; then
`OpenHiKV` with several writers of a key and the life of a `Slice`, `get_range`,
`PmemStore` under `PmemUnorderedIndex`, `PmemOp` and `PmemCopy`, and the proofs of
`PlainMessageQueue` and `OpenHiKV`; then the proofs of `WaitDrain` and of the
refinement by `PmemMessageQueue`, of `Scan` and of what the store frees, and of
`PmemStore` and `PmemUnorderedIndex`, of `PmemCopy` and of `StringKeys`; and then
those of `BPlusTree`.

Left: how many entries a tree of `BPLUS_MAX_LEVEL` levels has room for at least, a
count over its levels that would replace the hypothesis of the theorems about the
tree by one about the number of keys; and the transactions around
`bplus_tree_get` and `bplus_tree_put`, once something uses a tree from two threads.
