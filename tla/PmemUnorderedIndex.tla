------------------------- MODULE PmemUnorderedIndex -------------------------
(***************************************************************************)
(* One shard of the hash table of                                          *)
(* src/pmem_impl/pmem_unordered_index_impl.{h,cpp}, filled by several      *)
(* threads at once: linear probing without wrapping around, a slot taken   *)
(* by a 16-byte compare-and-swap, and max_probe_len, which tells readers   *)
(* how far to look.  The table only grows: Del does nothing.               *)
(*                                                                         *)
(* Atomicity.  Each atomic access is a step.  The test of a slot before    *)
(* the compare-and-swap reads two words without synchronisation; a slot    *)
(* goes from zero to an entry of two non-zero words once and for all, so   *)
(* a torn read only sees a taken slot, and the test is one step.           *)
(* Store::Set is one step (see PmemStore).                                 *)
(*                                                                         *)
(* The table is on top of the store: an entry leads to the record of its   *)
(* key.  Threads that fill it may also use another StoreImpl.              *)
(*                                                                         *)
(* Get is not an action.  It asks a compare-and-swap of 0 by 0 for the     *)
(* contents of a slot, which changes no slot and does not tell: old_val    *)
(* stays 0, and Get answers kNotFound (pmem_unordered_index_impl.cpp:90).  *)
(***************************************************************************)
EXTENDS PmemStore

CONSTANTS
  Store,        \* store_, one of Stores
  Hash,         \* Hash[k] | 1, the signature of k
  EntryNum,     \* kEntryNum: the slots a key can hash to
  Slack         \* the 4096 bytes behind them, in slots

ASSUME EntryNumAssumption == EntryNum \in Nat \ {0} /\ Slack \in Nat
ASSUME HashAssumption == \A k \in Keys : Hash[k] \in Nat /\ Hash[k] % 2 = 1
ASSUME StoreAssumption == Store \in Stores

VARIABLES
  slot,         \* the shard: [signature, offset] of each HashEntry
  maxProbeLen,  \* max_probe_len
  unsaved,      \* the slots that are not written back from the cache
  pc,           \* where each thread is in Set
  offset,       \* the address its key and value are stored at
  entry,        \* its entry, as an index of slot
  probeLen,     \* its probe_len
  currMax,      \* its curr_max_proble_len
  done          \* history: the offsets whose Set has returned

setVars == <<offset, entry, probeLen, currMax>>
tableVars == <<slot, unsaved, maxProbeLen>>
vars == <<storeVars, tableVars, pc, setVars, done>>

Slots == 0 .. EntryNum + Slack - 1
Free == [signature |-> 0, offset |-> 0]
Offsets == DOMAIN records

PC == {"idle", "test", "cas", "persist", "load", "raise", "return", "overrun"}

Init ==
  /\ slot = [i \in Slots |-> Free]
  /\ maxProbeLen = 0
  /\ StoreInit
  /\ unsaved = {}
  /\ pc = [t \in Threads |-> "idle"]
  /\ offset = [t \in Threads |-> 0]
  /\ entry = [t \in Threads |-> 0]
  /\ probeLen = [t \in Threads |-> 0]
  /\ currMax = [t \in Threads |-> 0]
  /\ done = {}

HomeOneTooMany(k) == Hash[k] % (EntryNum + 1)
Home(k) == Hash[k] % EntryNum

\* The next slot is EntryNum + Slack at most; looking there is undefined.
Probing(e) == IF e \in Slots THEN "test" ELSE "overrun"

-----------------------------------------------------------------------------
SetStore(t, k) ==
  /\ pc[t] = "idle"
  /\ StoreSet(t, Store, k)
  /\ offset' = [offset EXCEPT ![t] = Address(t, RequestLen[k])]
  /\ entry' = [entry EXCEPT ![t] = Home(k)]
  /\ probeLen' = [probeLen EXCEPT ![t] = 1]
  /\ pc' = [pc EXCEPT ![t] = Probing(Home(k))]
  /\ UNCHANGED <<tableVars, currMax, done>>

\* A Set on a StoreImpl that is not this index's.
OtherStoreSet(t, s, k) ==
  /\ pc[t] = "idle"
  /\ s # Store
  /\ StoreSet(t, s, k)
  /\ UNCHANGED <<tableVars, pc, setVars, done>>

\* ++entry, ++probe_len
ProbeNext(t) ==
  /\ entry' = [entry EXCEPT ![t] = @ + 1]
  /\ probeLen' = [probeLen EXCEPT ![t] = @ + 1]
  /\ pc' = [pc EXCEPT ![t] = Probing(entry[t] + 1)]

SetTest(t) ==
  /\ pc[t] = "test"
  /\ \/ /\ slot[entry[t]] = Free
        /\ pc' = [pc EXCEPT ![t] = "cas"]
        /\ UNCHANGED <<entry, probeLen>>
     \/ /\ slot[entry[t]] # Free
        /\ ProbeNext(t)
  /\ UNCHANGED <<tableVars, storeVars, offset, currMax, done>>

KeyOf(t) == records[offset[t]].key

\* The two words of the entry copied in the wrong order.
ClaimSwapped(t) ==
  slot' = [slot EXCEPT ![entry[t]] = [signature |-> offset[t], offset |-> Hash[KeyOf(t)]]]

Claim(t) ==
  slot' = [slot EXCEPT ![entry[t]] = [signature |-> Hash[KeyOf(t)], offset |-> offset[t]]]

\* A store where the compare-and-swap should be.
SetStoreBlind(t) ==
  /\ pc[t] = "cas"
  /\ Claim(t)
  /\ unsaved' = unsaved \cup {entry[t]}
  /\ pc' = [pc EXCEPT ![t] = "persist"]
  /\ UNCHANGED <<storeVars, maxProbeLen, setVars, done>>

SetCas(t) ==
  /\ pc[t] = "cas"
  /\ \/ /\ slot[entry[t]] = Free
        /\ Claim(t)
        /\ unsaved' = unsaved \cup {entry[t]}
        /\ pc' = [pc EXCEPT ![t] = "persist"]
        /\ UNCHANGED <<entry, probeLen>>
     \/ /\ slot[entry[t]] # Free
        /\ ProbeNext(t)
        /\ UNCHANGED <<slot, unsaved>>
  /\ UNCHANGED <<storeVars, maxProbeLen, offset, currMax, done>>

\* PMemPersist writes back the line that holds the entry, of 16 bytes.
SetPersist(t) ==
  /\ pc[t] = "persist"
  /\ unsaved' = {i \in unsaved : LineOf(16 * i) # LinePersisted(16 * entry[t])}
  /\ pc' = [pc EXCEPT ![t] = "load"]
  /\ UNCHANGED <<storeVars, slot, maxProbeLen, setVars, done>>

SetLoad(t) ==
  /\ pc[t] = "load"
  /\ currMax' = [currMax EXCEPT ![t] = maxProbeLen]
  /\ pc' = [pc EXCEPT ![t] = IF probeLen[t] > maxProbeLen THEN "raise" ELSE "return"]
  /\ UNCHANGED <<storeVars, tableVars, offset, entry, probeLen, done>>

\* max_probe_len written without comparing.
SetRaiseBlind(t) ==
  /\ pc[t] = "raise"
  /\ maxProbeLen' = probeLen[t]
  /\ pc' = [pc EXCEPT ![t] = "return"]
  /\ UNCHANGED <<storeVars, slot, unsaved, setVars, done>>

\* The loop never sees that another thread has raised max_probe_len.
SetRaiseStale(t) ==
  /\ pc[t] = "raise"
  /\ maxProbeLen = currMax[t]
  /\ maxProbeLen' = probeLen[t]
  /\ pc' = [pc EXCEPT ![t] = "return"]
  /\ UNCHANGED <<storeVars, slot, unsaved, setVars, done>>

\* compare_exchange_strong, which loads max_probe_len when it fails.
SetRaise(t) ==
  /\ pc[t] = "raise"
  /\ \/ /\ maxProbeLen = currMax[t]
        /\ maxProbeLen' = probeLen[t]
        /\ pc' = [pc EXCEPT ![t] = "return"]
        /\ UNCHANGED currMax
     \/ /\ maxProbeLen # currMax[t]
        /\ currMax' = [currMax EXCEPT ![t] = maxProbeLen]
        /\ pc' = [pc EXCEPT ![t] = IF probeLen[t] > maxProbeLen THEN "raise" ELSE "return"]
        /\ UNCHANGED maxProbeLen
  /\ UNCHANGED <<storeVars, slot, unsaved, offset, entry, probeLen, done>>

SetReturn(t) ==
  /\ pc[t] = "return"
  /\ pc' = [pc EXCEPT ![t] = "idle"]
  /\ done' = done \cup {offset[t]}
  /\ offset' = [offset EXCEPT ![t] = 0]
  /\ entry' = [entry EXCEPT ![t] = 0]
  /\ probeLen' = [probeLen EXCEPT ![t] = 0]
  /\ currMax' = [currMax EXCEPT ![t] = 0]
  /\ UNCHANGED <<storeVars, tableVars>>

-----------------------------------------------------------------------------
SetStep(t) ==
  SetTest(t) \/ SetCas(t) \/ SetPersist(t) \/ SetLoad(t) \/ SetRaise(t) \/ SetReturn(t)

Next ==
  \E t \in Threads :
    \/ \E k \in Keys : SetStore(t, k) \/ \E s \in Stores : OtherStoreSet(t, s, k)
    \/ SetStep(t)

\* A thread inside Set keeps being scheduled; none has to call it.
Spec == Init /\ [][Next]_vars /\ \A t \in Threads : WF_vars(SetStep(t))

-----------------------------------------------------------------------------
TypeOK ==
  /\ slot \in [Slots -> {Free} \cup [signature : {Hash[k] : k \in Keys}, offset : Offsets]]
  /\ maxProbeLen \in 0 .. EntryNum + Slack
  /\ StoreTypeOK
  /\ unsaved \subseteq Slots
  /\ pc \in [Threads -> PC]
  /\ offset \in [Threads -> Offsets \cup {0}]
  /\ entry \in [Threads -> 0 .. EntryNum + Slack]
  /\ probeLen \in [Threads -> Nat]
  /\ currMax \in [Threads -> 0 .. EntryNum + Slack]
  /\ done \subseteq Offsets

\* When a Set has returned, a reader that follows max_probe_len and stops at
\* the first free slot comes to its entry, whatever Sets ran beside it or after
\* it (pmem_unordered_index_impl.cpp:88-99, 131-159).
Reachable(o) ==
  \E i \in 0 .. maxProbeLen - 1 :
    LET home == Home(records[o].key) IN
    /\ home + i \in Slots
    /\ slot[home + i] = [signature |-> Hash[records[o].key], offset |-> o]
    /\ \A j \in 0 .. i - 1 : slot[home + j] # Free
EverySetIsReachable == \A o \in done : Reachable(o)

\* A slot that is taken is never given away or freed: two threads that saw the
\* same slot free do not both get it (pmem_unordered_index_impl.cpp:133-147).
SlotsAreKept == [][\A i \in Slots : slot[i] # Free => slot'[i] = slot[i]]_vars

\* As many Sets as there is slack for never write behind the mapping, wherever
\* the keys hash to: that is all that bounds the loop of
\* pmem_unordered_index_impl.cpp:132-151.
NeverOverruns ==
  MaxSets <= Slack + 1 => \A t \in Threads : pc[t] # "overrun"

\* An entry that a reader may see leads to a record that is written back from
\* the cache to the last line, and when Set returns, so is the entry: the store
\* persists the record before the index publishes it, and a clwb of an entry
\* takes the lines as they are (pmem_store_impl.cpp:44-50, pmem_op.h:124-151,
\* pmem_unordered_index_impl.cpp:121, 141-147).
SetsAreDurable ==
  \A i \in Slots : slot[i] # Free =>
    LET o == slot[i].offset IN
    /\ \A l \in dirty : Line * (l + 1) <= o \/ o + records[o].len <= Line * l
    /\ o \in done => i \notin unsaved

\* Every Set returns, although a thread may lose each of its compare-and-swaps.
SetReturns == \A t \in Threads : pc[t] = "test" ~> pc[t] = "idle"

-----------------------------------------------------------------------------
Taken(i) == slot[i] # Free

\* The slots that t has looked at are taken, and by other Sets.
ProbedAreTaken(t) ==
  /\ probeLen[t] > 0
  /\ entry[t] = Home(KeyOf(t)) + probeLen[t] - 1
  /\ \A i \in Home(KeyOf(t)) .. entry[t] - 1 : i \in Slots /\ Taken(i)

Searching(t) == pc[t] \in {"test", "cas", "overrun"}

\* What holds while t is in Set.
InSet(t) ==
  /\ offset[t] \in Offsets \ done
  /\ ProbedAreTaken(t)
  /\ pc[t] # "overrun" <=> entry[t] \in Slots
  /\ Searching(t) => \A i \in Slots : slot[i].offset # offset[t]
  /\ ~Searching(t) => slot[entry[t]] = [signature |-> Hash[KeyOf(t)], offset |-> offset[t]]
  /\ pc[t] = "raise" => probeLen[t] > currMax[t]
  /\ pc[t] = "return" => probeLen[t] <= maxProbeLen

EntriesDiffer ==
  \A i, j \in Slots : Taken(i) /\ slot[i].offset = slot[j].offset => i = j

\* An entry that is not written back is one whose Set is about to do it.
UnsavedIsBeingSaved ==
  \A i \in unsaved :
    /\ Taken(i)
    /\ \E t \in Threads : pc[t] = "persist" /\ slot[i].offset = offset[t]

\* Why the properties above hold: each Set works on a record of its own, on an
\* entry that it reached through taken slots, and raises max_probe_len to it
\* before it returns.
IInv ==
  /\ TypeOK
  /\ StoreInv
  /\ \A t \in Threads : pc[t] # "idle" => InSet(t)
  /\ \A t, u \in Threads : t # u /\ pc[t] # "idle" /\ pc[u] # "idle" => offset[t] # offset[u]
  /\ EntriesDiffer
  /\ UnsavedIsBeingSaved
  /\ EverySetIsReachable
=============================================================================
