--------------------------- MODULE OpenHiKVProofs ---------------------------
(***************************************************************************)
(* Proofs about OpenHiKV for every set of clients, keys and shards: that   *)
(* the offsets in the two indexes, in the messages on their way and in the *)
(* store never come apart, and what follows for Get, Scan, the workers and *)
(* the callers' Slices.                                                    *)
(***************************************************************************)
EXTENDS OpenHiKV, SequenceTheorems, TLAPS

(***************************************************************************)
(* Partial functions.                                                      *)
(***************************************************************************)
LEMMA PartialIs ==
  ASSUME NEW S, NEW T, NEW m
  PROVE  m \in Partial(S, T) <=>
           /\ DOMAIN m \subseteq S
           /\ m = [x \in DOMAIN m |-> m[x]]
           /\ \A x \in DOMAIN m : m[x] \in T
<1>1. ASSUME m \in Partial(S, T)
      PROVE  DOMAIN m \subseteq S /\ m \in [DOMAIN m -> T]
  <2>1. PICK D \in SUBSET S : m \in [D -> T]
    BY <1>1 DEF Partial
  <2> QED
    BY <2>1
<1>2. ASSUME DOMAIN m \subseteq S, m \in [DOMAIN m -> T]
      PROVE  m \in Partial(S, T)
  BY <1>2 DEF Partial
<1> QED
  BY <1>1, <1>2

LEMMA EmptyType == \A S, T : Empty \in Partial(S, T)
<1> SUFFICES ASSUME NEW S, NEW T PROVE Empty \in Partial(S, T)
  OBVIOUS
<1>1. Empty \in [{} -> T]
  BY DEF Empty
<1> QED
  BY <1>1 DEF Partial

LEMMA WithIs ==
  ASSUME NEW m, NEW k, NEW x
  PROVE  /\ DOMAIN With(m, k, x) = DOMAIN m \cup {k}
         /\ With(m, k, x)[k] = x
         /\ \A j \in DOMAIN m : j # k => With(m, k, x)[j] = m[j]
  BY DEF With

LEMMA WithType ==
  ASSUME NEW S, NEW T, NEW m \in Partial(S, T), NEW k \in S, NEW x \in T
  PROVE  With(m, k, x) \in Partial(S, T)
<1>1. /\ DOMAIN m \subseteq S
      /\ \A j \in DOMAIN m : m[j] \in T
  BY PartialIs
<1>2. With(m, k, x) \in [DOMAIN m \cup {k} -> T]
  BY <1>1 DEF With
<1>3. DOMAIN m \cup {k} \in SUBSET S
  BY <1>1
<1> QED
  BY <1>2, <1>3 DEF Partial

LEMMA WithoutIs ==
  ASSUME NEW m, NEW k
  PROVE  /\ DOMAIN Without(m, k) = DOMAIN m \ {k}
         /\ \A j \in DOMAIN m \ {k} : Without(m, k)[j] = m[j]
  BY DEF Without, Restrict

LEMMA WithoutType ==
  ASSUME NEW S, NEW T, NEW m \in Partial(S, T), NEW k
  PROVE  Without(m, k) \in Partial(S, T)
<1>1. /\ DOMAIN m \subseteq S
      /\ \A j \in DOMAIN m : m[j] \in T
  BY PartialIs
<1>2. Without(m, k) \in [DOMAIN m \ {k} -> T]
  BY <1>1 DEF Without, Restrict
<1>3. DOMAIN m \ {k} \in SUBSET S
  BY <1>1
<1> QED
  BY <1>2, <1>3 DEF Partial

-----------------------------------------------------------------------------
(***************************************************************************)
(* Type correctness.                                                       *)
(***************************************************************************)

\* What a message is.
LEMMA MessageIs ==
  ASSUME NEW m \in Messages
  PROVE  /\ m.type \in {"kSet", "kDel"}
         /\ m.key \in Keys
         /\ m.type = "kSet" => m.offset \in Offsets /\ m = SetMessage(m.key, m.offset)
         /\ m.type = "kDel" => m = DelMessage(m.key)
         /\ ShardOf[m] \in Shards
  BY MessagesAssumption, ShardOfAssumption DEF SetMessage, DelMessage

LEMMA MessagesAre ==
  ASSUME NEW k \in Keys
  PROVE  /\ DelMessage(k) \in Messages
         /\ \A o \in Offsets : SetMessage(k, o) \in Messages
  BY MessagesAssumption

\* What the three maps hold.
LEMMA RecordsAre ==
  ASSUME TypeOK
  PROVE  /\ DOMAIN off2str \subseteq Offsets
         /\ \A o \in DOMAIN off2str : off2str[o] \in [key : Keys, value : Values]
         /\ DOMAIN ordered \subseteq Keys
         /\ \A k \in DOMAIN ordered : ordered[k] \in Offsets
         /\ DOMAIN unordered \subseteq Keys
         /\ \A k \in DOMAIN unordered : unordered[k] \in Offsets
<1> DEFINE R == [key : Keys, value : Values]
<1>1. /\ off2str \in Partial(Offsets, R)
      /\ ordered \in Partial(Keys, Offsets)
      /\ unordered \in Partial(Keys, Offsets)
  BY DEF TypeOK
<1> HIDE DEF R
<1>2. DOMAIN off2str \subseteq Offsets /\ \A o \in DOMAIN off2str : off2str[o] \in R
  BY <1>1, PartialIs
<1> QED
  BY <1>1, <1>2, PartialIs DEF R

LEMMA TypeInit == Init => TypeOK
<1> SUFFICES ASSUME Init PROVE TypeOK
  OBVIOUS
<1>1. QueueTypeOK
  BY EmptySeq DEF Init, QueueInit, QueueTypeOK
<1>2. \A c \in Clients : cpc[c] = "idle"
  BY DEF Init
<1>3. Writers = {}
  BY <1>2 DEF Writers
<1>4. scan \in [Clients -> [from : Keys \cup {0}, last : Keys \cup {0},
                            found : Partial(Keys, Values)]]
  BY EmptyType DEF Init, NoScan
<1>5. 0 \in 0 .. MaxSets
  BY MaxSetsAssumption
<1> QED
  BY <1>1, <1>3, <1>4, <1>5, EmptyType
     DEF Init, TypeOK, ClientPC, WorkerPC

LEMMA TypeWrite ==
  ASSUME TypeOK, NEW c \in Clients, NEW k \in Keys, Set(c, k) \/ Del(c, k)
  PROVE  TypeOK'
<1> USE DEF TypeOK
<1>1. QueueTypeOK'
  BY DEF Set, Del, queueVars, QueueTypeOK
<1>2. raced' \subseteq Keys /\ touched' \in [Clients -> SUBSET Keys]
  <2>1. NoteWrite(k)
    BY DEF Set, Del
  <2>2. raced' = raced \cup {k} \/ raced' = raced \ {k}
    BY <2>1 DEF NoteWrite
  <2>3. touched' = [d \in Clients |-> IF Scanning(d) THEN touched[d] \cup {k} ELSE {}]
    BY <2>1 DEF NoteWrite
  <2>4. raced \subseteq Keys /\ touched \in [Clients -> SUBSET Keys]
    OBVIOUS
  <2> QED
    BY <2>2, <2>3, <2>4
<1>3. cpc' = [cpc EXCEPT ![c] = "push"] /\ cpc' \in [Clients -> ClientPC]
  BY DEF Set, Del, ClientPC
<1>4. CASE Set(c, k)
  <2>1. offset \in Offsets /\ offset \in Values /\ offset' \in 0 .. MaxSets
    BY <1>4, MaxSetsAssumption DEF Set, UnorderedSet, Offsets, Values
  <2>2. off2str' \in Partial(Offsets, [key : Keys, value : Values])
    <3>1. [key |-> k, value |-> offset] \in [key : Keys, value : Values]
      BY <2>1
    <3>2. off2str' = With(off2str, offset, [key |-> k, value |-> offset])
      BY <1>4 DEF Set, UnorderedSet
    <3> QED
      BY <2>1, <3>1, <3>2, WithType
  <2>3. unordered' \in Partial(Keys, Offsets) /\ written' \in Partial(Keys, Values)
    <3>1. unordered' = With(unordered, k, offset) /\ written' = With(written, k, offset)
      BY <1>4 DEF Set, UnorderedSet
    <3> QED
      BY <2>1, <3>1, WithType
  <2>4. toPush' = [toPush EXCEPT ![c] = SetMessage(k, offset)] /\ SetMessage(k, offset) \in Messages
    BY <1>4, <2>1, MessagesAre DEF Set
  <2>5. /\ toPush' \in [Clients -> Messages \cup {DelMessage(0)}]
        /\ \A d \in Writers' : toPush'[d] \in Messages
    BY <1>3, <2>4 DEF Writers
  <2>6. UNCHANGED <<ordered, scan, wpc, slice, exposed>>
    BY <1>4 DEF Set
  <2> QED
    BY <1>1, <1>2, <1>3, <2>1, <2>2, <2>3, <2>5, <2>6
<1>5. CASE Del(c, k)
  <2>1. unordered' \in Partial(Keys, Offsets) /\ written' \in Partial(Keys, Values)
    <3>1. unordered' = Without(unordered, k) /\ written' = Without(written, k)
      BY <1>5 DEF Del, UnorderedDel
    <3> QED
      BY <3>1, WithoutType
  <2>2. toPush' = [toPush EXCEPT ![c] = DelMessage(k)] /\ DelMessage(k) \in Messages
    BY <1>5, MessagesAre DEF Del
  <2>3. /\ toPush' \in [Clients -> Messages \cup {DelMessage(0)}]
        /\ \A d \in Writers' : toPush'[d] \in Messages
    BY <1>3, <2>2 DEF Writers
  <2>4. slice' = slice /\ exposed' \subseteq Clients
    BY <1>5 DEF Del
  <2>5. UNCHANGED <<off2str, offset, ordered, scan, wpc>>
    BY <1>5 DEF Del, UnorderedDel
  <2> QED
    BY <1>1, <1>2, <1>3, <2>1, <2>3, <2>4, <2>5
<1> QED
  BY <1>4, <1>5

LEMMA TypePush ==
  ASSUME TypeOK, NEW c \in Clients, PushWrite(c)
  PROVE  TypeOK'
<1> USE DEF TypeOK
<1> DEFINE m == toPush[c]
<1>1. m \in Messages /\ ShardOf[m] \in Shards
  BY MessageIs DEF PushWrite, Writers
<1>2. QueueTypeOK'
  <2>1. Append(log[ShardOf[m]], m) \in Seq(Messages)
    BY <1>1, AppendProperties DEF QueueTypeOK
  <2>2. log' = [log EXCEPT ![ShardOf[m]] = Append(log[ShardOf[m]], m)]
    BY DEF PushWrite, Push
  <2>3. UNCHANGED <<applied, target>>
    BY DEF PushWrite, Push
  <2> QED
    BY <1>1, <2>1, <2>2, <2>3 DEF QueueTypeOK
<1>3. /\ cpc' \in [Clients -> ClientPC]
      /\ toPush' \in [Clients -> Messages \cup {DelMessage(0)}]
      /\ \A d \in Writers' : toPush'[d] \in Messages
  BY DEF PushWrite, Writers, ClientPC
<1> QED
  BY <1>2, <1>3 DEF PushWrite, storeVars, indexVars, history

\* The steps of Get and Scan, and of a caller that reads a Slice.
LEMMA TypeRead ==
  ASSUME TypeOK, NEW c \in Clients,
         \/ \E k \in Keys : Get(c, k) \/ ScanCall(c, k)
         \/ SliceRead(c) \/ ScanDrained(c) \/ ScanOrdered(c) \/ ScanReturn(c)
  PROVE  TypeOK'
<1> USE DEF TypeOK
<1>1. UNCHANGED <<off2str, offset, unordered, ordered, toPush, wpc, written, raced, log, applied>>
  BY DEF Get, ScanCall, StartScan, WaitDrainCall, WaitDrainReturn, SliceRead, ScanDrained,
         ScanOrdered, ScanReturn, storeVars, indexVars, queueVars, history
<1>2. cpc' \in [Clients -> ClientPC] /\ Writers' = Writers
  BY DEF Get, ScanCall, StartScan, SliceRead, ScanDrained, ScanOrdered, ScanReturn,
         ClientPC, Writers
<1>3. QueueTypeOK'
  <2>1. \A s \in Shards : Len(log[s]) \in Nat
    BY LenProperties DEF QueueTypeOK
  <2>2. target' \in [Callers -> [Shards -> Nat] \cup {NotWaiting}]
    <3>1. \/ target' = target
          \/ target' = [target EXCEPT ![c] = [s \in Shards |-> Len(log[s])]]
          \/ target' = [target EXCEPT ![c] = NotWaiting]
      BY DEF Get, ScanCall, WaitDrainCall, WaitDrainReturn, SliceRead, ScanDrained,
             ScanOrdered, ScanReturn, queueVars
    <3>2. [s \in Shards |-> Len(log[s])] \in [Shards -> Nat]
      BY <2>1
    <3> QED
      BY <3>1, <3>2 DEF QueueTypeOK
  <2> QED
    BY <1>1, <2>2 DEF QueueTypeOK
<1>4. touched' \in [Clients -> SUBSET Keys]
  <2>1. {toPush[d].key : d \in Writers} \subseteq Keys
    BY MessageIs
  <2> QED
    BY <2>1 DEF Get, ScanCall, StartScan, SliceRead, ScanDrained, ScanOrdered, ScanReturn, history
<1>5. slice' \in [Clients -> Offsets \cup {NoSlice}]
  <2>1. \A k \in DOMAIN unordered : unordered[k] \in Offsets
    BY RecordsAre
  <2> QED
    BY <2>1 DEF Get, CanGet, ScanCall, StartScan, SliceRead, ScanDrained, ScanOrdered, ScanReturn,
           history
<1>6. scan' \in [Clients -> [from : Keys \cup {0}, last : Keys \cup {0},
                             found : Partial(Keys, Values)]]
  <2>1. CASE \E k \in Keys : ScanCall(c, k)
    <3>1. PICK k \in Keys : scan' = [scan EXCEPT ![c] = [scan[c] EXCEPT !.from = k]]
      BY <2>1 DEF ScanCall, StartScan
    <3>2. [scan[c] EXCEPT !.from = k] \in
            [from : Keys \cup {0}, last : Keys \cup {0}, found : Partial(Keys, Values)]
      OBVIOUS
    <3> QED
      BY <3>1, <3>2
  <2>2. CASE ScanReturn(c)
    BY <2>2, EmptyType DEF ScanReturn, NoScan
  <2>3. CASE ScanOrdered(c)
    <3>1. PICK last \in Keys :
            LET visited == Visited(c, last)
                stored == \A k \in visited : ordered[k] \in DOMAIN off2str
            IN scan' = IF stored
                       THEN [scan EXCEPT ![c].last = last,
                                         ![c].found = [k \in visited |-> off2str[ordered[k]].value]]
                       ELSE scan
      BY <2>3 DEF ScanOrdered
    <3> DEFINE visited == Visited(c, last)
               found == [k \in visited |-> off2str[ordered[k]].value]
    <3>2. CASE \A k \in visited : ordered[k] \in DOMAIN off2str
      <4>1. visited \in SUBSET Keys
        <5>1. DOMAIN ordered \subseteq Keys
          BY RecordsAre
        <5> QED
          BY <5>1 DEF Visited
      <4>2. \A o \in DOMAIN off2str : off2str[o] \in [key : Keys, value : Values]
        BY RecordsAre
      <4>3. found \in [visited -> Values]
        BY <3>2, <4>2
      <4>4. found \in Partial(Keys, Values)
        BY <4>1, <4>3 DEF Partial
      <4>5. scan' = [scan EXCEPT ![c] = [[scan[c] EXCEPT !.last = last] EXCEPT !.found = found]]
        BY <3>1, <3>2
      <4> HIDE DEF found
      <4> QED
        BY <4>4, <4>5
    <3>3. CASE ~ \A k \in visited : ordered[k] \in DOMAIN off2str
      BY <3>1, <3>3
    <3> QED
      BY <3>2, <3>3
  <2>4. CASE (\E k \in Keys : Get(c, k)) \/ SliceRead(c) \/ ScanDrained(c)
    BY <2>4 DEF Get, SliceRead, ScanDrained
  <2> QED
    BY <2>1, <2>2, <2>3, <2>4
<1>7. exposed' \subseteq Clients
  <2>1. \/ exposed' = exposed
        \/ exposed' = exposed \cup {c}
        \/ exposed' = exposed \ {c}
    BY DEF Get, ScanCall, StartScan, SliceRead, ScanDrained, ScanOrdered, ScanReturn, history
  <2> QED
    BY <2>1
<1> QED
  BY <1>1, <1>2, <1>3, <1>4, <1>5, <1>6, <1>7

\* The message a worker is at.
LEMMA PeekedIs ==
  ASSUME TypeOK, NEW s \in Shards, applied[s] < Len(log[s])
  PROVE  Peeked(s) \in Messages /\ applied[s] + 1 \in 1 .. Len(log[s])
<1>1. log[s] \in Seq(Messages) /\ applied[s] \in Nat
  BY DEF TypeOK, QueueTypeOK
<1>2. Len(log[s]) \in Nat
  BY <1>1, LenProperties
<1>3. applied[s] + 1 \in 1 .. Len(log[s])
  BY <1>1, <1>2
<1> QED
  BY <1>1, <1>3, ElementOfSeq DEF Peeked

LEMMA TypeWork ==
  ASSUME TypeOK, NEW s \in Shards, WorkerKnows(s), WorkerStep(s)
  PROVE  TypeOK'
<1> USE DEF TypeOK
<1>1. UNCHANGED <<offset, unordered, cpc, toPush, scan, written, raced, touched, slice, exposed>>
  BY DEF WorkerStep, WorkerPeek, WorkerSet, WorkerDel, WorkerPop, storeVars, indexVars,
         clientVars, history
<1>2. Writers' = Writers
  BY <1>1 DEF Writers
<1>3. QueueTypeOK'
  <2>1. UNCHANGED <<log, target>> /\ (applied' = applied \/ applied' = [applied EXCEPT ![s] = @ + 1])
    BY DEF WorkerStep, WorkerPeek, WorkerSet, WorkerDel, WorkerPop, Pop, queueVars
  <2> QED
    BY <2>1 DEF QueueTypeOK
<1>4. wpc' \in [Shards -> WorkerPC]
  BY DEF WorkerStep, WorkerPeek, WorkerSet, WorkerDel, WorkerPop, WorkerPC
<1>5. /\ off2str' \in Partial(Offsets, [key : Keys, value : Values])
      /\ ordered' \in Partial(Keys, Offsets)
  <2>1. CASE WorkerPeek(s) \/ WorkerPop(s)
    BY <2>1 DEF WorkerPeek, WorkerPop, storeVars, indexVars
  <2>2. CASE WorkerSet(s)
    <3>1. Peeked(s) \in Messages /\ Peeked(s).type = "kSet"
      BY <2>2, PeekedIs DEF WorkerSet, WorkerKnows
    <3>2. ordered' = With(ordered, Peeked(s).key, Peeked(s).offset) /\ off2str' = off2str
      BY <2>2 DEF WorkerSet, OrderedSet, storeVars
    <3> QED
      BY <3>1, <3>2, MessageIs, WithType
  <2>3. CASE WorkerDel(s)
    <3>1. off2str' = off2str \/ \E o : off2str' = Without(off2str, o)
      BY <2>3 DEF WorkerDel
    <3>2. ordered' = ordered \/ \E k : ordered' = Without(ordered, k)
      BY <2>3 DEF WorkerDel, OrderedErase
    <3> QED
      BY <3>1, <3>2, WithoutType
  <2> QED
    BY <2>1, <2>2, <2>3 DEF WorkerStep
<1> QED
  BY <1>1, <1>2, <1>3, <1>4, <1>5

LEMMA TypeStep ==
  ASSUME TypeOK, \A s \in Shards : WorkerKnows(s), [Next]_vars
  PROVE  TypeOK'
<1>1. ASSUME NEW c \in Clients, NEW k \in Keys, Set(c, k) \/ Del(c, k) PROVE TypeOK'
  BY <1>1, TypeWrite
<1>2. ASSUME NEW c \in Clients, PushWrite(c) PROVE TypeOK'
  BY <1>2, TypePush
<1>3. ASSUME NEW c \in Clients,
             \/ \E k \in Keys : Get(c, k) \/ ScanCall(c, k)
             \/ SliceRead(c) \/ ScanDrained(c) \/ ScanOrdered(c) \/ ScanReturn(c)
      PROVE  TypeOK'
  BY <1>3, TypeRead
<1>4. ASSUME NEW s \in Shards, WorkerStep(s) PROVE TypeOK'
  BY <1>4, TypeWork
<1>5. CASE UNCHANGED vars
  BY <1>5 DEF vars, queueVars, storeVars, indexVars, clientVars, history, TypeOK, QueueTypeOK,
              Writers
<1> QED
  BY <1>1, <1>2, <1>3, <1>4, <1>5 DEF Next, ClientStep

-----------------------------------------------------------------------------
(***************************************************************************)
(* The inductive invariant of the store.                                   *)
(***************************************************************************)
LEMMA StoreInit == Init => StoreInv
<1> SUFFICES ASSUME Init PROVE StoreInv
  OBVIOUS
<1>1. TypeOK
  BY TypeInit
<1>2. Writers = {}
  BY DEF Init, Writers
<1>3. ASSUME NEW s \in Shards PROVE Unapplied(s) = {} /\ WorkerKnows(s)
  <2>1. log[s] = <<>> /\ applied[s] = 0 /\ wpc[s] = "peek"
    BY DEF Init, QueueInit
  <2>2. Len(log[s]) = 0
    BY <2>1, EmptySeq
  <2> QED
    BY <2>1, <2>2 DEF Unapplied, WorkerKnows
<1>4. DOMAIN off2str = {} /\ DOMAIN ordered = {} /\ DOMAIN unordered = {} /\ DOMAIN written = {}
  BY DEF Init, Empty
<1>5. OffsetsOnTheWay
  BY <1>2, <1>3, <1>4 DEF OffsetsOnTheWay
<1>6. OrderedIsStored /\ UnorderedIsStored /\ UnorderedIsOwn
  BY <1>4 DEF OrderedIsStored, UnorderedIsStored, UnorderedIsOwn
<1>7. SlicesAreStored
  BY MaxSetsAssumption DEF Init, SlicesAreStored, NoSlice, Offsets
<1>8. \A c \in Clients : cpc[c] # "failed"
  BY DEF Init
<1> QED
  BY <1>1, <1>3, <1>5, <1>6, <1>7, <1>8 DEF StoreInv

\* Numbers of messages.
LEMMA LogIs ==
  ASSUME StoreInv, NEW s \in Shards
  PROVE  /\ log[s] \in Seq(Messages)
         /\ Len(log[s]) \in Nat /\ applied[s] \in Nat /\ applied[s] <= Len(log[s])
         /\ wpc[s] \in {"apply", "pop"} => applied[s] < Len(log[s])
         /\ Unapplied(s) \subseteq 1 .. Len(log[s])
         /\ \A i \in 1 .. Len(log[s]) : log[s][i] \in Messages /\ ShardOf[log[s][i]] = s
<1>1. log[s] \in Seq(Messages) /\ applied[s] \in Nat /\ WorkerKnows(s)
  BY DEF StoreInv, TypeOK, QueueTypeOK
<1>2. Len(log[s]) \in Nat /\ \A i \in 1 .. Len(log[s]) : log[s][i] \in Messages
  BY <1>1, LenProperties, ElementOfSeq
<1> QED
  BY <1>1, <1>2 DEF Unapplied, WorkerKnows

\* What is on its way stays the same, and the maps and the store do.
LEMMA WayKept ==
  ASSUME UNCHANGED <<off2str, offset, toPush, log>>, Writers' = Writers,
         \A s \in Shards : Unapplied(s)' = Unapplied(s)
  PROVE  /\ OffsetsOnTheWay => OffsetsOnTheWay'
         /\ ordered' = ordered /\ OrderedIsStored => OrderedIsStored'
         /\ UNCHANGED <<unordered, written, raced>> /\ UnorderedIsStored => UnorderedIsStored'
         /\ unordered' = unordered /\ UnorderedIsOwn => UnorderedIsOwn'
         /\ UNCHANGED <<slice, exposed>> /\ SlicesAreStored => SlicesAreStored'
         /\ \A k, o : Safe(k, o) => Safe(k, o)'
<1>1. OffsetsOnTheWay => OffsetsOnTheWay'
  BY DEF OffsetsOnTheWay, Carried, StoreHas, IsSetOf
<1>2. \A o : Arrived(o) => Arrived(o)'
  BY DEF Arrived, IsSetOf
<1>3. \A k, o : Safe(k, o) => Safe(k, o)'
  BY DEF Safe, IsSetOf
<1>4. \A o, k : StoreHas(o, k) => StoreHas(o, k)'
  BY DEF StoreHas
<1>5. ordered' = ordered /\ OrderedIsStored => OrderedIsStored'
  BY <1>2, <1>4 DEF OrderedIsStored
<1>6. UNCHANGED <<unordered, written, raced>> /\ UnorderedIsStored => UnorderedIsStored'
  BY <1>3, <1>4 DEF UnorderedIsStored
<1>7. UNCHANGED <<slice, exposed>> /\ SlicesAreStored => SlicesAreStored'
  BY <1>3, <1>4 DEF SlicesAreStored
<1>8. unordered' = unordered /\ UnorderedIsOwn => UnorderedIsOwn'
  BY DEF UnorderedIsOwn
<1> QED
  BY <1>1, <1>3, <1>5, <1>6, <1>7, <1>8

\* What no Del is on its way to is safe.
LEMMA NoDelIsSafe ==
  ASSUME StoreInv, NEW k \in Keys, ~ DelOnItsWay(k), NEW o
  PROVE  Safe(k, o)
<1>1. \A c \in Writers : toPush[c].key = k => toPush[c].type = "kSet"
  BY MessageIs DEF StoreInv, TypeOK, DelOnItsWay, IsDelOf
<1>2. ASSUME NEW s \in Shards, NEW i \in Unapplied(s)
      PROVE  ~ (log[s][i].type = "kDel" /\ log[s][i].key = k)
  <2>1. i \in applied[s] + 1 .. Len(log[s])
    BY <1>2, LogIs DEF Unapplied
  <2> QED
    BY <2>1 DEF DelOnItsWay, IsDelOf
<1> QED
  BY <1>1, <1>2 DEF Safe

\* Get, Scan and a caller that reads a Slice: the ordered index has no offset
\* that the store does not, and Get hands out an offset that is safe.
LEMMA InvRead ==
  ASSUME StoreInv, TypeOK', NEW c \in Clients,
         \/ \E k \in Keys : Get(c, k) \/ ScanCall(c, k)
         \/ SliceRead(c) \/ ScanDrained(c) \/ ScanOrdered(c) \/ ScanReturn(c)
  PROVE  StoreInv'
<1>1. UNCHANGED <<off2str, offset, unordered, ordered, toPush, wpc, written, raced, log, applied>>
  BY DEF Get, ScanCall, StartScan, WaitDrainCall, WaitDrainReturn, SliceRead, ScanDrained,
         ScanOrdered, ScanReturn, storeVars, indexVars, queueVars, history
<1>2. Writers' = Writers
  BY DEF StoreInv, TypeOK, Get, ScanCall, StartScan, SliceRead, ScanDrained, ScanOrdered, ScanReturn,
         Writers
<1>3. \A s \in Shards : Unapplied(s)' = Unapplied(s) /\ WorkerKnows(s)'
  BY <1>1 DEF StoreInv, Unapplied, WorkerKnows
<1>4. OffsetsOnTheWay' /\ OrderedIsStored' /\ UnorderedIsOwn' /\ UnorderedIsStored'
  BY <1>1, <1>2, <1>3, WayKept DEF StoreInv
<1>5. \A d \in Clients : cpc'[d] # "failed"
  <2>1. CASE ScanOrdered(c)
    <3>1. \A k \in DOMAIN ordered : ordered[k] \in DOMAIN off2str
      BY RecordsAre DEF StoreInv, OrderedIsStored, StoreHas
    <3>2. PICK last \in Keys :
            cpc' = [cpc EXCEPT ![c] = IF \A k \in Visited(c, last) : ordered[k] \in DOMAIN off2str
                                      THEN "found" ELSE "failed"]
      BY <2>1 DEF ScanOrdered
    <3>3. \A k \in Visited(c, last) : ordered[k] \in DOMAIN off2str
      BY <3>1 DEF Visited
    <3> QED
      BY <3>2, <3>3 DEF StoreInv, TypeOK
  <2>2. CASE ~ ScanOrdered(c)
    BY <2>2 DEF StoreInv, TypeOK, Get, ScanCall, StartScan, SliceRead, ScanDrained, ScanReturn
  <2> QED
    BY <2>1, <2>2
<1>6. SlicesAreStored'
  <2>1. ASSUME NEW d \in Clients \ exposed', NEW o \in Offsets, slice'[d] = o
        PROVE  \E k \in Keys : StoreHas(o, k) /\ Safe(k, o)
    <3>1. o # NoSlice
      BY MaxSetsAssumption DEF Offsets, NoSlice
    <3>2. CASE \E k \in Keys : Get(c, k) /\ d = c
      <4>1. PICK k \in Keys : Get(c, k) /\ d = c
        BY <3>2
      <4>2. k \in DOMAIN unordered /\ unordered[k] = o /\ o \in DOMAIN off2str
        BY <2>1, <4>1 DEF StoreInv, TypeOK, Get, CanGet
      <4>3. CASE k \notin raced
        BY <4>2, <4>3 DEF StoreInv, UnorderedIsStored
      <4>4. CASE k \in raced
        <5>1. ~ DelOnItsWay(k)
          BY <2>1, <4>1, <4>4 DEF Get
        <5>2. StoreHas(o, k)
          BY <4>2 DEF StoreInv, UnorderedIsOwn, StoreHas
        <5> QED
          BY <5>1, <5>2, NoDelIsSafe
      <4> QED
        BY <4>3, <4>4
    <3>3. CASE ~ \E k \in Keys : Get(c, k) /\ d = c
      <4>1. slice[d] = o /\ d \notin exposed
        BY <2>1, <3>1, <3>3
           DEF StoreInv, TypeOK, Get, ScanCall, StartScan, SliceRead, ScanDrained, ScanOrdered,
               ScanReturn, history
      <4> QED
        BY <4>1 DEF StoreInv, SlicesAreStored
    <3> QED
      BY <3>2, <3>3
  <2>2. \A k, o : Safe(k, o) => Safe(k, o)'
    BY <1>1, <1>2, <1>3, WayKept
  <2> QED
    BY <1>1, <2>1, <2>2 DEF SlicesAreStored, StoreHas
<1> QED
  BY <1>3, <1>4, <1>5, <1>6 DEF StoreInv

\* A worker takes its message, or lets go of one that is applied.
LEMMA PeekPopKeeps ==
  ASSUME StoreInv, NEW s \in Shards, WorkerPeek(s) \/ WorkerPop(s), NEW u \in Shards
  PROVE  Unapplied(u)' = Unapplied(u) /\ WorkerKnows(u)'
<1>1. wpc \in [Shards -> WorkerPC] /\ applied \in [Shards -> Nat] /\ log' = log
  BY DEF StoreInv, TypeOK, QueueTypeOK, WorkerPeek, WorkerPop, Pop, queueVars
<1>2. WorkerKnows(u) /\ applied[u] \in Nat /\ Len(log[u]) \in Nat
  BY LogIs DEF StoreInv
<1>3. CASE u # s
  <2>1. applied'[u] = applied[u] /\ wpc'[u] = wpc[u]
    BY <1>1, <1>3 DEF WorkerPeek, WorkerPop, Pop, queueVars
  <2> QED
    BY <1>1, <1>2, <2>1 DEF Unapplied, WorkerKnows
<1>4. CASE u = s /\ WorkerPeek(s)
  <2>1. applied' = applied /\ wpc[s] = "peek" /\ wpc'[s] = "apply"
    BY <1>1, <1>4 DEF WorkerPeek, queueVars
  <2>2. applied[s] < Len(log[s])
    BY <1>4 DEF WorkerPeek, CanPeek
  <2> QED
    BY <1>1, <1>2, <1>4, <2>1, <2>2 DEF Unapplied, WorkerKnows
<1>5. CASE u = s /\ WorkerPop(s)
  <2>1. applied'[s] = applied[s] + 1 /\ wpc[s] = "pop" /\ wpc'[s] = "peek"
    BY <1>1, <1>5 DEF WorkerPop, Pop
  <2>2. applied[s] < Len(log[s])
    BY <1>5 DEF WorkerPop, Pop, CanPeek
  <2> QED
    BY <1>1, <1>2, <1>5, <2>1, <2>2 DEF Unapplied, WorkerKnows
<1> QED
  BY <1>3, <1>4, <1>5

LEMMA InvPeekPop ==
  ASSUME StoreInv, TypeOK', NEW s \in Shards, WorkerPeek(s) \/ WorkerPop(s)
  PROVE  StoreInv'
<1>1. UNCHANGED <<off2str, offset, unordered, ordered, cpc, toPush, written, raced, slice,
                  exposed, log>>
  BY DEF WorkerPeek, WorkerPop, Pop, queueVars, storeVars, indexVars, clientVars, history
<1>2. Writers' = Writers
  BY <1>1 DEF Writers
<1>3. \A u \in Shards : Unapplied(u)' = Unapplied(u) /\ WorkerKnows(u)'
  BY PeekPopKeeps
<1> QED
  BY <1>1, <1>2, <1>3, WayKept DEF StoreInv

\* A write is pushed: its message is the last of its shard.
LEMMA PushIs ==
  ASSUME StoreInv, NEW c \in Clients, PushWrite(c)
  PROVE  \E m \in Messages, s0 \in Shards, n \in Nat :
           /\ m = toPush[c] /\ s0 = ShardOf[m]
           /\ c \in Writers /\ Writers' = Writers \ {c}
           /\ \A d \in Writers' : toPush'[d] = toPush[d]
           /\ n \in Unapplied(s0)' /\ log'[s0][n] = m
           /\ \A i \in Unapplied(s0) : i < n
           /\ \A s \in Shards : \A i \in Unapplied(s) :
                i \in Unapplied(s)' /\ log'[s][i] = log[s][i]
           /\ \A s \in Shards : \A i \in Unapplied(s)' :
                i \in Unapplied(s) \/ (s = s0 /\ i = n)
           /\ \A s \in Shards : WorkerKnows(s)'
<1>1. PICK m \in Messages, s0 \in Shards, n \in Nat :
        m = toPush[c] /\ s0 = ShardOf[m] /\ n = Len(log[s0]) + 1
  <2>1. toPush[c] \in Messages
    BY DEF PushWrite, Writers, StoreInv, TypeOK
  <2>2. ShardOf[toPush[c]] \in Shards
    BY <2>1, MessageIs
  <2>3. Len(log[ShardOf[toPush[c]]]) + 1 \in Nat
    BY <2>2, LogIs
  <2> QED
    BY <2>1, <2>2, <2>3
<1>2. /\ c \in Writers /\ Writers' = Writers \ {c}
      /\ \A d \in Writers' : toPush'[d] = toPush[d]
  BY DEF PushWrite, Writers, StoreInv, TypeOK
<1>3. /\ log' = [log EXCEPT ![s0] = Append(log[s0], m)]
      /\ UNCHANGED <<applied, wpc>>
  BY <1>1 DEF PushWrite, Push
<1>4. \A s \in Shards : /\ log[s] \in Seq(Messages) /\ Len(log[s]) \in Nat
                        /\ applied[s] \in Nat /\ applied[s] <= Len(log[s])
                        /\ wpc[s] \in {"apply", "pop"} => applied[s] < Len(log[s])
                        /\ Unapplied(s) \subseteq 1 .. Len(log[s])
                        /\ \A i \in 1 .. Len(log[s]) : ShardOf[log[s][i]] = s
  BY LogIs
<1>5. \A s \in Shards : s # s0 => log'[s] = log[s]
  BY <1>1, <1>3 DEF StoreInv, TypeOK, QueueTypeOK
<1>6. /\ log'[s0] = Append(log[s0], m) /\ Len(log'[s0]) = n /\ log'[s0][n] = m
      /\ \A i \in 1 .. Len(log[s0]) : log'[s0][i] = log[s0][i]
  <2>1. log'[s0] = Append(log[s0], m)
    BY <1>1, <1>3 DEF StoreInv, TypeOK, QueueTypeOK
  <2> QED
    BY <1>1, <1>4, <2>1, AppendProperties
<1>7. ASSUME NEW s \in Shards, s # s0
      PROVE  Unapplied(s)' = Unapplied(s) /\ WorkerKnows(s)' /\ log'[s] = log[s]
  BY <1>3, <1>5, <1>7 DEF Unapplied, WorkerKnows, StoreInv
<1>8. Unapplied(s0)' = Unapplied(s0) \cup {n} /\ WorkerKnows(s0)'
  <2>1. applied'[s0] = applied[s0] /\ wpc'[s0] = wpc[s0] /\ wpc[s0] # "down"
    BY <1>1, <1>3 DEF StoreInv, WorkerKnows
  <2>2. applied[s0] + (IF wpc[s0] = "pop" THEN 2 ELSE 1) <= n
    BY <1>1, <1>4
  <2>3. Unapplied(s0)' = Unapplied(s0) \cup {n}
    BY <1>1, <1>4, <1>6, <2>1, <2>2 DEF Unapplied
  <2>4. \A i \in 1 .. n : ShardOf[log'[s0][i]] = s0
    BY <1>1, <1>4, <1>6
  <2> QED
    BY <1>1, <1>4, <1>6, <2>1, <2>3, <2>4 DEF WorkerKnows
<1>9. \A i \in Unapplied(s0) : i < n /\ log'[s0][i] = log[s0][i]
  BY <1>1, <1>4, <1>6
<1>10. \A s \in Shards : \A i \in Unapplied(s) :
         i \in Unapplied(s)' /\ log'[s][i] = log[s][i]
  BY <1>7, <1>8, <1>9
<1>11. \A s \in Shards : \A i \in Unapplied(s)' : i \in Unapplied(s) \/ (s = s0 /\ i = n)
  BY <1>7, <1>8
<1>12. \A s \in Shards : WorkerKnows(s)'
  BY <1>7, <1>8
<1>13. n \in Unapplied(s0)' /\ log'[s0][n] = m
  BY <1>6, <1>8
<1> QED
  BY <1>1, <1>2, <1>9, <1>10, <1>11, <1>12, <1>13

LEMMA InvPush ==
  ASSUME StoreInv, TypeOK', NEW c \in Clients, PushWrite(c)
  PROVE  StoreInv'
<1>1. UNCHANGED <<off2str, offset, unordered, ordered, written, raced, slice, exposed>>
  BY DEF PushWrite, storeVars, indexVars, history
<1>2. PICK m \in Messages, s0 \in Shards, n \in Nat :
      /\ m = toPush[c] /\ s0 = ShardOf[m]
      /\ c \in Writers /\ Writers' = Writers \ {c}
      /\ \A d \in Writers' : toPush'[d] = toPush[d]
      /\ n \in Unapplied(s0)' /\ log'[s0][n] = m
      /\ \A i \in Unapplied(s0) : i < n
      /\ \A s \in Shards : \A i \in Unapplied(s) : i \in Unapplied(s)' /\ log'[s][i] = log[s][i]
      /\ \A s \in Shards : \A i \in Unapplied(s)' : i \in Unapplied(s) \/ (s = s0 /\ i = n)
      /\ \A s \in Shards : WorkerKnows(s)'
  BY PushIs
<1>3. \A s \in Shards : \A i \in 1 .. Len(log[s]) : log[s][i] \in Messages /\ ShardOf[log[s][i]] = s
  BY LogIs
<1>4. \A s \in Shards : Unapplied(s) \subseteq 1 .. Len(log[s])
  BY LogIs
<1>5. OffsetsOnTheWay
  BY DEF StoreInv
<1>6. OffsetsOnTheWay'
  <2>1. \A d \in Writers' : Carried(toPush[d])' /\ toPush'[d] = toPush[d] /\ d \in Writers /\ d # c
    BY <1>1, <1>2, <1>5 DEF OffsetsOnTheWay, Carried, StoreHas
  <2>2. \A s \in Shards : \A i \in Unapplied(s)' : Carried(log[s][i])'
    BY <1>1, <1>2, <1>5 DEF OffsetsOnTheWay, Carried, StoreHas
  <2>3. \A d, e \in Writers' : \A o \in Offsets :
          IsSetOf(toPush'[d], o) /\ IsSetOf(toPush'[e], o) => d = e
    BY <1>5, <2>1 DEF OffsetsOnTheWay
  <2>4. \A d \in Writers' : \A s \in Shards : \A i \in Unapplied(s)' : \A o \in Offsets :
          ~ (IsSetOf(toPush'[d], o) /\ IsSetOf(log'[s][i], o))
    BY <1>2, <1>5, <2>1 DEF OffsetsOnTheWay
  <2>5. \A s, u \in Shards : \A i \in Unapplied(s)', j \in Unapplied(u)' : \A o \in Offsets :
          IsSetOf(log'[s][i], o) /\ IsSetOf(log'[u][j], o) => s = u /\ i = j
    BY <1>2, <1>5 DEF OffsetsOnTheWay
  <2>6. \A o \in DOMAIN off2str' : o < offset'
    BY <1>1, <1>5 DEF OffsetsOnTheWay
  <2> QED
    BY <2>1, <2>2, <2>3, <2>4, <2>5, <2>6 DEF OffsetsOnTheWay, IsSetOf
<1>7. \A o : Arrived(o) => Arrived(o)'
  BY <1>2 DEF Arrived, IsSetOf
<1>8. ASSUME NEW k \in Keys, NEW o \in Offsets, StoreHas(o, k), Safe(k, o)
      PROVE  Safe(k, o)'
  <2>1. \A d \in Writers' : toPush'[d].key = k => toPush'[d].type = "kSet"
    BY <1>2, <1>8 DEF Safe
  <2>2. ASSUME NEW s \in Shards, NEW i \in Unapplied(s)',
               log'[s][i].type = "kDel", log'[s][i].key = k
        PROVE  \/ \E d \in Writers' : IsSetOf(toPush'[d], o)
               \/ \E j \in Unapplied(s)' : i < j /\ IsSetOf(log'[s][j], o)
    <3>1. i \in Unapplied(s) /\ log'[s][i] = log[s][i]
      <4>1. ~ (m.type = "kDel" /\ m.key = k)
        BY <1>2, <1>8 DEF Safe
      <4> QED
        BY <1>2, <2>2, <4>1
    <3>2. CASE \E d \in Writers : d # c /\ IsSetOf(toPush[d], o)
      BY <1>2, <3>2
    <3>3. CASE IsSetOf(m, o)
      <4>1. m.key = k
        BY <1>2, <1>5, <1>8, <3>3 DEF OffsetsOnTheWay, Carried, StoreHas, IsSetOf
      <4>2. log[s][i] \in Messages /\ ShardOf[log[s][i]] = s
        BY <1>3, <1>4, <3>1
      <4>3. s = s0
        BY <1>2, <2>2, <3>1, <4>1, <4>2, ShardOfKeyAssumption
      <4> QED
        BY <1>2, <3>1, <3>3, <4>3
    <3>4. CASE \E j \in Unapplied(s) : i < j /\ IsSetOf(log[s][j], o)
      BY <1>2, <3>4
    <3>5. \/ \E d \in Writers : IsSetOf(toPush[d], o)
          \/ \E j \in Unapplied(s) : i < j /\ IsSetOf(log[s][j], o)
      BY <1>8, <2>2, <3>1 DEF Safe
    <3> QED
      BY <1>2, <3>2, <3>3, <3>4, <3>5
  <2> QED
    BY <2>1, <2>2 DEF Safe, IsSetOf
<1>9. OrderedIsStored'
  BY <1>1, <1>7 DEF StoreInv, OrderedIsStored, StoreHas
<1>10. UnorderedIsOwn' /\ UnorderedIsStored' /\ SlicesAreStored'
  <2>1. \A o, k : StoreHas(o, k)' <=> StoreHas(o, k)
    BY <1>1 DEF StoreHas
  <2>2. DOMAIN unordered \subseteq Keys
    BY RecordsAre DEF StoreInv
  <2>3. UnorderedIsStored'
    BY <1>1, <1>8, <2>1, <2>2 DEF StoreInv, UnorderedIsStored
  <2>4. SlicesAreStored'
    BY <1>1, <1>8, <2>1 DEF StoreInv, SlicesAreStored
  <2>5. UnorderedIsOwn'
    BY <1>1 DEF StoreInv, UnorderedIsOwn
  <2> QED
    BY <2>3, <2>4, <2>5
<1>11. \A d \in Clients : cpc'[d] # "failed"
  BY DEF StoreInv, TypeOK, PushWrite
<1> QED
  BY <1>2, <1>6, <1>9, <1>10, <1>11 DEF StoreInv

\* A write has begun: one more client is about to push.
LEMMA WriteIs ==
  ASSUME StoreInv, NEW c \in Clients, NEW k \in Keys, Set(c, k) \/ Del(c, k)
  PROVE  /\ c \notin Writers /\ Writers' = Writers \cup {c}
         /\ \A d \in Writers : toPush'[d] = toPush[d]
         /\ Set(c, k) => toPush'[c] = SetMessage(k, offset)
         /\ Del(c, k) => toPush'[c] = DelMessage(k)
         /\ \A s \in Shards : Unapplied(s)' = Unapplied(s) /\ WorkerKnows(s)'
         /\ log' = log /\ ordered' = ordered
         /\ \A j \in Keys : j # k => (j \in raced' <=> j \in raced)
         /\ k \notin raced' => \A d \in Writers : toPush[d].key # k
         /\ \A d \in Clients : cpc'[d] # "failed"
<1>1. /\ c \notin Writers /\ Writers' = Writers \cup {c}
      /\ \A d \in Writers : toPush'[d] = toPush[d]
      /\ Set(c, k) => toPush'[c] = SetMessage(k, offset)
      /\ Del(c, k) => toPush'[c] = DelMessage(k)
  BY DEF StoreInv, TypeOK, Writers, Set, Del
<1>2. UNCHANGED <<log, applied, wpc, ordered>>
  BY DEF Set, Del, queueVars
<1>3. \A s \in Shards : Unapplied(s)' = Unapplied(s) /\ WorkerKnows(s)'
  BY <1>2 DEF StoreInv, Unapplied, WorkerKnows
<1>4. /\ \A j \in Keys : j # k => (j \in raced' <=> j \in raced)
      /\ k \notin raced' => \A d \in Writers : toPush[d].key # k
  BY DEF Set, Del, NoteWrite, Overlaps
<1>5. \A d \in Clients : cpc'[d] # "failed"
  BY DEF StoreInv, TypeOK, Set, Del
<1> QED
  BY <1>1, <1>2, <1>3, <1>4, <1>5

LEMMA InvDel ==
  ASSUME StoreInv, TypeOK', NEW c \in Clients, NEW k \in Keys, Del(c, k)
  PROVE  StoreInv'
<1>1. /\ Writers' = Writers \cup {c}
      /\ \A d \in Writers : toPush'[d] = toPush[d]
      /\ toPush'[c] = DelMessage(k)
      /\ \A s \in Shards : Unapplied(s)' = Unapplied(s) /\ WorkerKnows(s)'
      /\ log' = log /\ ordered' = ordered
      /\ \A j \in Keys : j # k => (j \in raced' <=> j \in raced)
      /\ \A d \in Clients : cpc'[d] # "failed"
  BY WriteIs
<1>2. /\ UNCHANGED <<off2str, offset>>
      /\ unordered' = Without(unordered, k) /\ written' = Without(written, k)
  BY DEF Del, UnorderedDel
<1>3. OffsetsOnTheWay
  BY DEF StoreInv
<1>4. \A o : ~ IsSetOf(toPush'[c], o)
  BY <1>1 DEF IsSetOf, DelMessage
<1>5. \A o, j : StoreHas(o, j)' <=> StoreHas(o, j)
  BY <1>2 DEF StoreHas
<1>6. OffsetsOnTheWay'
  <2>1. \A d \in Writers' : Carried(toPush[d])'
    BY <1>1, <1>2, <1>3 DEF OffsetsOnTheWay, Carried, StoreHas, DelMessage
  <2>2. \A s \in Shards : \A i \in Unapplied(s)' : Carried(log[s][i])'
    BY <1>1, <1>2, <1>3 DEF OffsetsOnTheWay, Carried, StoreHas
  <2>3. \A d, e \in Writers' : \A o \in Offsets :
          IsSetOf(toPush'[d], o) /\ IsSetOf(toPush'[e], o) => d = e
    BY <1>1, <1>3, <1>4 DEF OffsetsOnTheWay
  <2>4. \A d \in Writers' : \A s \in Shards : \A i \in Unapplied(s)' : \A o \in Offsets :
          ~ (IsSetOf(toPush'[d], o) /\ IsSetOf(log'[s][i], o))
    BY <1>1, <1>3, <1>4 DEF OffsetsOnTheWay
  <2>5. \A s, u \in Shards : \A i \in Unapplied(s)', j \in Unapplied(u)' : \A o \in Offsets :
          IsSetOf(log'[s][i], o) /\ IsSetOf(log'[u][j], o) => s = u /\ i = j
    BY <1>1, <1>3 DEF OffsetsOnTheWay
  <2>6. \A o \in DOMAIN off2str' : o < offset'
    BY <1>2, <1>3 DEF OffsetsOnTheWay
  <2> QED
    BY <2>1, <2>2, <2>3, <2>4, <2>5, <2>6 DEF OffsetsOnTheWay, IsSetOf
<1>7. OrderedIsStored'
  <2>1. \A o : Arrived(o) => Arrived(o)'
    BY <1>1, <1>4 DEF Arrived, IsSetOf
  <2> QED
    BY <1>1, <1>5, <2>1 DEF StoreInv, OrderedIsStored
<1>8. ASSUME NEW j \in Keys, j # k, NEW o, Safe(j, o)
      PROVE  Safe(j, o)'
  <2>1. \A d \in Writers' : toPush'[d].key = j => toPush'[d].type = "kSet"
    BY <1>1, <1>8 DEF Safe, DelMessage
  <2> QED
    BY <1>1, <1>8, <2>1 DEF Safe, IsSetOf
<1>9. UnorderedIsStored'
  <2>1. /\ DOMAIN unordered \subseteq Keys
        /\ DOMAIN unordered' = DOMAIN unordered \ {k}
        /\ DOMAIN written' = DOMAIN written \ {k}
        /\ \A j \in DOMAIN unordered \ {k} : unordered'[j] = unordered[j]
        /\ \A j \in DOMAIN written \ {k} : written'[j] = written[j]
    BY <1>2, WithoutIs, RecordsAre DEF StoreInv
  <2>2. DOMAIN unordered = DOMAIN written
    BY DEF StoreInv, UnorderedIsStored
  <2>3. ASSUME NEW j \in DOMAIN unordered' \ raced', NEW o \in Offsets, unordered'[j] = o
        PROVE  StoreHas(o, j)' /\ off2str'[o].value = written'[j] /\ Safe(j, o)'
    <3>1. j \in Keys /\ j # k /\ j \in DOMAIN unordered \ raced /\ unordered[j] = o
      BY <1>1, <2>1, <2>3
    <3>2. StoreHas(o, j) /\ off2str[o].value = written[j] /\ Safe(j, o)
      BY <3>1 DEF StoreInv, UnorderedIsStored
    <3> QED
      BY <1>2, <1>5, <1>8, <2>1, <2>2, <3>1, <3>2
  <2> QED
    BY <2>1, <2>2, <2>3 DEF UnorderedIsStored
<1>10. SlicesAreStored'
  <2>1. ASSUME NEW d \in Clients \ exposed', NEW o \in Offsets, slice'[d] = o
        PROVE  \E j \in Keys : StoreHas(o, j)' /\ Safe(j, o)'
    <3>1. slice[d] = o /\ d \notin exposed /\ ~ StoreHas(o, k)
      BY <2>1 DEF Del
    <3>2. PICK j \in Keys : StoreHas(o, j) /\ Safe(j, o)
      BY <3>1 DEF StoreInv, SlicesAreStored
    <3> QED
      BY <1>5, <1>8, <3>1, <3>2
  <2> QED
    BY <2>1 DEF SlicesAreStored
<1>11. UnorderedIsOwn'
  <2>1. /\ DOMAIN unordered' = DOMAIN unordered \ {k}
        /\ \A j \in DOMAIN unordered \ {k} : unordered'[j] = unordered[j]
    BY <1>2, WithoutIs
  <2> QED
    BY <1>2, <2>1 DEF StoreInv, UnorderedIsOwn
<1> QED
  BY <1>1, <1>6, <1>7, <1>9, <1>10, <1>11 DEF StoreInv

LEMMA InvSet ==
  ASSUME StoreInv, TypeOK', NEW c \in Clients, NEW k \in Keys, Set(c, k)
  PROVE  StoreInv'
<1>1. PICK x \in Offsets :
      /\ x = offset /\ offset' = x + 1
      /\ off2str' = With(off2str, x, [key |-> k, value |-> x])
      /\ unordered' = With(unordered, k, x)
      /\ written' = With(written, k, x)
      /\ UNCHANGED <<slice, exposed>>
  BY DEF Set, UnorderedSet
<1>2. /\ c \notin Writers /\ Writers' = Writers \cup {c}
      /\ \A d \in Writers : toPush'[d] = toPush[d]
      /\ toPush'[c] = SetMessage(k, x)
      /\ \A s \in Shards : Unapplied(s)' = Unapplied(s) /\ WorkerKnows(s)'
      /\ log' = log /\ ordered' = ordered
      /\ \A j \in Keys : j # k => (j \in raced' <=> j \in raced)
      /\ k \notin raced' => \A d \in Writers : toPush[d].key # k
      /\ \A d \in Clients : cpc'[d] # "failed"
  BY <1>1, WriteIs
<1>3. OffsetsOnTheWay
  BY DEF StoreInv
<1>4. x \in Nat /\ x \notin DOMAIN off2str /\ \A o \in DOMAIN off2str : o \in Nat /\ o < x
  BY <1>1, <1>3, RecordsAre, MaxSetsAssumption DEF OffsetsOnTheWay, StoreInv, Offsets
<1>5. /\ DOMAIN off2str' = DOMAIN off2str \cup {x}
      /\ off2str'[x] = [key |-> k, value |-> x]
      /\ \A o \in DOMAIN off2str : off2str'[o] = off2str[o]
  <2>1. PICK r : r = [key |-> k, value |-> x]
    OBVIOUS
  <2>2. off2str' = With(off2str, x, r)
    BY <1>1, <2>1
  <2> QED
    BY <1>4, <2>1, <2>2 DEF With
<1>6. /\ \A o, j : StoreHas(o, j) => StoreHas(o, j)' /\ o # x
      /\ StoreHas(x, k)'
  BY <1>4, <1>5 DEF StoreHas
<1>7. \A o : IsSetOf(toPush'[c], o) <=> o = x
  BY <1>2 DEF IsSetOf, SetMessage
<1>8. /\ \A d \in Writers : ~ IsSetOf(toPush[d], x)
      /\ \A s \in Shards : \A i \in Unapplied(s) : ~ IsSetOf(log[s][i], x)
  BY <1>3, <1>4 DEF OffsetsOnTheWay, Carried, StoreHas, IsSetOf
<1>9. OffsetsOnTheWay'
  <2>1. \A d \in Writers' : Carried(toPush[d])'
    BY <1>2, <1>3, <1>6 DEF OffsetsOnTheWay, Carried, SetMessage
  <2>2. \A s \in Shards : \A i \in Unapplied(s)' : Carried(log[s][i])'
    BY <1>2, <1>3, <1>6 DEF OffsetsOnTheWay, Carried
  <2>3. \A d, e \in Writers' : \A o \in Offsets :
          IsSetOf(toPush'[d], o) /\ IsSetOf(toPush'[e], o) => d = e
    BY <1>2, <1>3, <1>7, <1>8 DEF OffsetsOnTheWay
  <2>4. \A d \in Writers' : \A s \in Shards : \A i \in Unapplied(s)' : \A o \in Offsets :
          ~ (IsSetOf(toPush'[d], o) /\ IsSetOf(log'[s][i], o))
    BY <1>2, <1>3, <1>7, <1>8 DEF OffsetsOnTheWay
  <2>5. \A s, u \in Shards : \A i \in Unapplied(s)', j \in Unapplied(u)' : \A o \in Offsets :
          IsSetOf(log'[s][i], o) /\ IsSetOf(log'[u][j], o) => s = u /\ i = j
    BY <1>2, <1>3 DEF OffsetsOnTheWay
  <2>6. \A o \in DOMAIN off2str' : o < offset'
    BY <1>1, <1>4, <1>5
  <2> QED
    BY <2>1, <2>2, <2>3, <2>4, <2>5, <2>6 DEF OffsetsOnTheWay, IsSetOf
<1>10. OrderedIsStored'
  <2>1. \A o : o # x /\ Arrived(o) => Arrived(o)'
    BY <1>2, <1>7 DEF Arrived, IsSetOf
  <2> QED
    BY <1>2, <1>6, <2>1 DEF StoreInv, OrderedIsStored
<1>11. ASSUME NEW j, NEW o, Safe(j, o)
       PROVE  Safe(j, o)'
  <2>1. \A d \in Writers' : toPush'[d].key = j => toPush'[d].type = "kSet"
    BY <1>2, <1>11 DEF Safe, SetMessage
  <2> QED
    BY <1>2, <1>11, <2>1 DEF Safe, IsSetOf
<1>12. UnorderedIsStored'
  <2>1. /\ DOMAIN unordered \subseteq Keys
        /\ DOMAIN unordered' = DOMAIN unordered \cup {k} /\ unordered'[k] = x
        /\ DOMAIN written' = DOMAIN written \cup {k} /\ written'[k] = x
        /\ \A j \in DOMAIN unordered : j # k => unordered'[j] = unordered[j]
        /\ \A j \in DOMAIN written : j # k => written'[j] = written[j]
    <3>1. DOMAIN unordered \subseteq Keys
      BY RecordsAre DEF StoreInv
    <3>2. unordered' = With(unordered, k, x) /\ written' = With(written, k, x)
      BY <1>1
    <3> QED
      BY <3>1, <3>2 DEF With
  <2>2. DOMAIN unordered = DOMAIN written
    BY DEF StoreInv, UnorderedIsStored
  <2>3. ASSUME NEW j \in DOMAIN unordered' \ raced', NEW o \in Offsets, unordered'[j] = o, j # k
        PROVE  StoreHas(o, j)' /\ off2str'[o].value = written'[j] /\ Safe(j, o)'
    <3>1. j \in Keys /\ j \in DOMAIN unordered \ raced /\ unordered[j] = o
      BY <1>2, <2>1, <2>3
    <3>2. StoreHas(o, j) /\ off2str[o].value = written[j] /\ Safe(j, o)
      BY <3>1 DEF StoreInv, UnorderedIsStored
    <3>3. off2str'[o].value = written'[j]
      BY <1>5, <2>1, <2>2, <2>3, <3>1, <3>2 DEF StoreHas
    <3> QED
      BY <1>6, <1>11, <3>2, <3>3
  <2>4. ASSUME k \notin raced'
        PROVE  StoreHas(x, k)' /\ off2str'[x].value = written'[k] /\ Safe(k, x)'
    <3>1. \A d \in Writers' : toPush'[d].key = k => toPush'[d].type = "kSet"
      BY <1>2, <2>4 DEF SetMessage
    <3>2. \E d \in Writers' : IsSetOf(toPush'[d], x)
      BY <1>2, <1>7
    <3>3. Safe(k, x)'
      BY <3>1, <3>2 DEF Safe, IsSetOf
    <3> QED
      BY <1>5, <1>6, <2>1, <3>3
  <2> QED
    BY <2>1, <2>2, <2>3, <2>4 DEF UnorderedIsStored
<1>13. SlicesAreStored'
  BY <1>1, <1>6, <1>11 DEF StoreInv, SlicesAreStored
<1>14. UnorderedIsOwn'
  <2>1. /\ DOMAIN unordered' = DOMAIN unordered \cup {k} /\ unordered'[k] = x
        /\ \A j \in DOMAIN unordered : j # k => unordered'[j] = unordered[j]
    <3>1. unordered' = With(unordered, k, x)
      BY <1>1
    <3> QED
      BY <3>1 DEF With
  <2>2. \A j \in DOMAIN unordered : unordered[j] \in Nat /\ unordered[j] < x
    BY <1>1, RecordsAre, MaxSetsAssumption DEF StoreInv, UnorderedIsOwn, Offsets
  <2>3. ASSUME NEW j \in DOMAIN unordered'
        PROVE  /\ unordered'[j] < offset'
               /\ unordered'[j] \in DOMAIN off2str' => off2str'[unordered'[j]].key = j
    <3>1. CASE j = k
      BY <1>1, <1>4, <1>5, <2>1, <3>1
    <3>2. CASE j # k
      <4>1. j \in DOMAIN unordered /\ unordered'[j] = unordered[j] /\ unordered[j] # x
        BY <1>4, <2>1, <2>2, <2>3, <3>2
      <4>2. unordered[j] < offset'
        BY <1>1, <1>4, <2>2, <4>1
      <4> QED
        BY <1>5, <4>1, <4>2 DEF StoreInv, UnorderedIsOwn
    <3> QED
      BY <3>1, <3>2
  <2> QED
    BY <2>3 DEF UnorderedIsOwn
<1> QED
  BY <1>2, <1>9, <1>10, <1>12, <1>13, <1>14 DEF StoreInv

\* A message is applied: it is the first of its shard's that were not.
LEMMA ApplyIs ==
  ASSUME StoreInv, NEW s \in Shards, wpc[s] = "apply",
         wpc' = [wpc EXCEPT ![s] = "pop"], UNCHANGED <<queueVars, cpc, toPush>>
  PROVE  \E m \in Messages, n \in Nat :
           /\ m = Peeked(s) /\ m = log[s][n]
           /\ n \in Unapplied(s) /\ n \notin Unapplied(s)'
           /\ \A i \in Unapplied(s)' : n < i
           /\ \A u \in Shards : \A i : i \in Unapplied(u)' <=> i \in Unapplied(u) /\ ~ (u = s /\ i = n)
           /\ \A u \in Shards : WorkerKnows(u)'
<1>1. PICK n \in Nat : n = applied[s] + 1 /\ applied[s] \in Nat /\ applied[s] < Len(log[s])
  BY LogIs
<1>2. PICK m \in Messages : m = Peeked(s) /\ m = log[s][n]
  BY <1>1, PeekedIs DEF StoreInv, Peeked
<1>3. UNCHANGED <<log, applied>> /\ wpc'[s] = "pop" /\ \A u \in Shards : u # s => wpc'[u] = wpc[u]
  BY DEF queueVars, StoreInv, TypeOK
<1>4. ASSUME NEW u \in Shards, u # s PROVE Unapplied(u)' = Unapplied(u) /\ WorkerKnows(u)'
  BY <1>3, <1>4 DEF StoreInv, Unapplied, WorkerKnows
<1>5. /\ Unapplied(s) = n .. Len(log[s]) /\ Unapplied(s)' = n + 1 .. Len(log[s])
      /\ WorkerKnows(s)' /\ Len(log[s]) \in Nat
  BY <1>1, <1>3, LogIs DEF StoreInv, Unapplied, WorkerKnows
<1>6. Unapplied(s)' = Unapplied(s) \ {n} /\ n \in Unapplied(s) /\ \A i \in Unapplied(s)' : n < i
  BY <1>1, <1>5
<1>7. \A u \in Shards : \A i : i \in Unapplied(u)' <=> i \in Unapplied(u) /\ ~ (u = s /\ i = n)
  BY <1>4, <1>6
<1>8. \A u \in Shards : WorkerKnows(u)'
  BY <1>4, <1>5
<1> QED
  BY <1>2, <1>6, <1>7, <1>8

LEMMA ApplyKeeps ==
  ASSUME StoreInv, NEW s \in Shards, wpc[s] = "apply",
         wpc' = [wpc EXCEPT ![s] = "pop"], UNCHANGED <<queueVars, cpc, toPush, offset>>,
         DOMAIN off2str' \subseteq DOMAIN off2str
  PROVE  /\ \A o : Arrived(o) => Arrived(o)'
         /\ \A j, o : Safe(j, o) => Safe(j, o)'
         /\ \A d \in Clients : cpc'[d] # "failed"
         /\ /\ \A d \in Writers : Carried(toPush[d])'
            /\ \A u \in Shards : \A i \in Unapplied(u) : Carried(log[u][i])'
            => OffsetsOnTheWay'
<1>1. PICK m \in Messages, n \in Nat :
        /\ \A i \in Unapplied(s)' : n < i
        /\ \A u \in Shards : \A i : i \in Unapplied(u)' <=> i \in Unapplied(u) /\ ~ (u = s /\ i = n)
  BY ApplyIs
<1>2. Writers' = Writers /\ log' = log /\ toPush' = toPush
  BY DEF Writers, queueVars
<1>3. \A o : Arrived(o) => Arrived(o)'
  BY <1>1, <1>2 DEF Arrived, IsSetOf
<1>4. \A j, o : Safe(j, o) => Safe(j, o)'
  <2>1. ASSUME NEW j, NEW o, Safe(j, o),
               NEW u \in Shards, NEW i \in Unapplied(u)',
               log[u][i].type = "kDel", log[u][i].key = j
        PROVE  \/ \E d \in Writers : IsSetOf(toPush[d], o)
               \/ \E l \in Unapplied(u)' : i < l /\ IsSetOf(log[u][l], o)
    <3>1. i \in Unapplied(u)
      BY <1>1, <2>1
    <3>2. CASE \E l \in Unapplied(u) : i < l /\ IsSetOf(log[u][l], o)
      <4>1. PICK l \in Unapplied(u) : i < l /\ IsSetOf(log[u][l], o)
        BY <3>2
      <4>2. ~ (u = s /\ l = n)
        <5>1. SUFFICES ASSUME u = s, l = n PROVE FALSE
          OBVIOUS
        <5>2. n < i /\ i < n
          BY <1>1, <2>1, <4>1, <5>1
        <5>3. i \in Nat
          BY <3>1, LogIs
        <5> QED
          BY <5>2, <5>3
      <4>3. l \in Unapplied(u)'
        BY <1>1, <4>2
      <4> QED
        BY <4>1, <4>3
    <3>3. \/ \E d \in Writers : IsSetOf(toPush[d], o)
          \/ \E l \in Unapplied(u) : i < l /\ IsSetOf(log[u][l], o)
      BY <2>1, <3>1 DEF Safe
    <3> QED
      BY <3>2, <3>3
  <2>2. ASSUME NEW j, NEW o, Safe(j, o) PROVE Safe(j, o)'
    <3>1. \A d \in Writers' : toPush'[d].key = j => toPush'[d].type = "kSet"
      BY <1>2, <2>2 DEF Safe
    <3>2. \A u \in Shards : \A i \in Unapplied(u)' :
            log[u][i].type = "kDel" /\ log[u][i].key = j =>
              \/ \E d \in Writers : IsSetOf(toPush[d], o)
              \/ \E l \in Unapplied(u)' : i < l /\ IsSetOf(log[u][l], o)
      BY <2>1, <2>2
    <3> QED
      BY <1>2, <3>1, <3>2 DEF Safe, IsSetOf
  <2> QED
    BY <2>2
<1>5. ASSUME /\ \A d \in Writers : Carried(toPush[d])'
             /\ \A u \in Shards : \A i \in Unapplied(u) : Carried(log[u][i])'
      PROVE  OffsetsOnTheWay'
  <2>1. OffsetsOnTheWay
    BY DEF StoreInv
  <2>2. /\ \A d \in Writers' : Carried(toPush[d])'
        /\ \A u \in Shards : \A i \in Unapplied(u)' : Carried(log[u][i])'
    BY <1>1, <1>2, <1>5
  <2>3. \A d, e \in Writers' : \A o \in Offsets :
          IsSetOf(toPush'[d], o) /\ IsSetOf(toPush'[e], o) => d = e
    BY <1>2, <2>1 DEF OffsetsOnTheWay
  <2>4. \A d \in Writers' : \A u \in Shards : \A i \in Unapplied(u)' : \A o \in Offsets :
          ~ (IsSetOf(toPush'[d], o) /\ IsSetOf(log'[u][i], o))
    BY <1>1, <1>2, <2>1 DEF OffsetsOnTheWay
  <2>5. \A u, v \in Shards : \A i \in Unapplied(u)', j \in Unapplied(v)' : \A o \in Offsets :
          IsSetOf(log'[u][i], o) /\ IsSetOf(log'[v][j], o) => u = v /\ i = j
    BY <1>1, <1>2, <2>1 DEF OffsetsOnTheWay
  <2>6. \A o \in DOMAIN off2str' : o < offset'
    BY <2>1 DEF OffsetsOnTheWay
  <2> QED
    BY <2>2, <2>3, <2>4, <2>5, <2>6 DEF OffsetsOnTheWay, IsSetOf
<1>6. \A d \in Clients : cpc'[d] # "failed"
  BY DEF StoreInv
<1> QED
  BY <1>3, <1>4, <1>5, <1>6

LEMMA InvWorkSet ==
  ASSUME StoreInv, TypeOK', NEW s \in Shards, WorkerSet(s)
  PROVE  StoreInv'
<1>1. /\ UNCHANGED <<off2str, offset, unordered, cpc, toPush, written, raced, slice, exposed, log>>
      /\ UNCHANGED queueVars
      /\ wpc[s] = "apply" /\ wpc' = [wpc EXCEPT ![s] = "pop"]
  BY DEF WorkerSet, queueVars, storeVars, clientVars, history
<1>2. PICK m \in Messages, n \in Nat :
        /\ m = Peeked(s) /\ m = log[s][n]
        /\ n \in Unapplied(s) /\ n \notin Unapplied(s)'
        /\ \A u \in Shards : \A i : i \in Unapplied(u)' <=> i \in Unapplied(u) /\ ~ (u = s /\ i = n)
        /\ \A u \in Shards : WorkerKnows(u)'
  BY <1>1, ApplyIs
<1>3. /\ \A o : Arrived(o) => Arrived(o)'
      /\ \A j, o : Safe(j, o) => Safe(j, o)'
      /\ \A d \in Clients : cpc'[d] # "failed"
      /\ (/\ \A d \in Writers : Carried(toPush[d])'
          /\ \A u \in Shards : \A i \in Unapplied(u) : Carried(log[u][i])')
         => OffsetsOnTheWay'
  BY <1>1, ApplyKeeps
<1>4. OffsetsOnTheWay
  BY DEF StoreInv
<1>5. \A o, j : StoreHas(o, j)' <=> StoreHas(o, j)
  BY <1>1 DEF StoreHas
<1>6. OffsetsOnTheWay'
  <2>1. /\ \A d \in Writers : Carried(toPush[d])'
        /\ \A u \in Shards : \A i \in Unapplied(u) : Carried(log[u][i])'
    BY <1>1, <1>4 DEF OffsetsOnTheWay, Carried, StoreHas
  <2> QED
    BY <1>3, <2>1
<1>7. PICK k \in Keys, x \in Offsets :
        /\ k = m.key /\ x = m.offset
        /\ IsSetOf(m, x) /\ StoreHas(x, k)
        /\ ordered' = With(ordered, k, x)
  <2>1. m.type = "kSet" /\ ordered' = With(ordered, m.key, m.offset)
    BY <1>2 DEF WorkerSet, OrderedSet
  <2>2. m.key \in Keys /\ m.offset \in Offsets
    BY <2>1, MessageIs
  <2>3. StoreHas(m.offset, m.key)
    BY <1>2, <1>4, <2>1 DEF OffsetsOnTheWay, Carried
  <2> QED
    BY <2>1, <2>2, <2>3 DEF IsSetOf
<1>8. Arrived(x)'
  <2>1. Writers' = Writers /\ log' = log /\ toPush' = toPush
    BY <1>1 DEF Writers
  <2>2. \A d \in Writers : ~ IsSetOf(toPush[d], x)
    BY <1>2, <1>4, <1>7 DEF OffsetsOnTheWay
  <2>3. \A u \in Shards : \A i \in Unapplied(u)' : ~ IsSetOf(log[u][i], x)
    <3>1. SUFFICES ASSUME NEW u \in Shards, NEW i \in Unapplied(u)', IsSetOf(log[u][i], x)
                   PROVE  FALSE
      OBVIOUS
    <3>2. i \in Unapplied(u) /\ ~ (u = s /\ i = n)
      BY <1>2, <3>1
    <3>3. n \in Unapplied(s) /\ IsSetOf(log[s][n], x)
      BY <1>2, <1>7
    <3>4. \A v, w \in Shards : \A j \in Unapplied(v), l \in Unapplied(w) : \A o \in Offsets :
            IsSetOf(log[v][j], o) /\ IsSetOf(log[w][l], o) => v = w /\ j = l
      BY <1>4 DEF OffsetsOnTheWay
    <3> QED
      BY <3>1, <3>2, <3>3, <3>4
  <2> QED
    BY <2>1, <2>2, <2>3 DEF Arrived, IsSetOf
<1>9. OrderedIsStored'
  <2>1. /\ DOMAIN ordered' = DOMAIN ordered \cup {k} /\ ordered'[k] = x
        /\ \A j \in DOMAIN ordered : j # k => ordered'[j] = ordered[j]
    BY <1>7 DEF With
  <2> QED
    BY <1>3, <1>5, <1>7, <1>8, <2>1 DEF StoreInv, OrderedIsStored
<1>10. UnorderedIsOwn' /\ UnorderedIsStored'
  BY <1>1, <1>3, <1>5 DEF StoreInv, UnorderedIsOwn, UnorderedIsStored
<1>11. SlicesAreStored'
  BY <1>1, <1>3, <1>5 DEF StoreInv, SlicesAreStored
<1> QED
  BY <1>2, <1>3, <1>6, <1>9, <1>10, <1>11 DEF StoreInv

\* A Del that finds its key erases an offset that is in the store, and that
\* nothing else counts on.
LEMMA InvWorkDel ==
  ASSUME StoreInv, TypeOK', NEW s \in Shards, WorkerDel(s)
  PROVE  StoreInv'
<1> DEFINE Missed(k) == k \notin DOMAIN ordered /\ UNCHANGED <<off2str, ordered>>
           Found(k, x) == /\ x = ordered[k] /\ k \in DOMAIN ordered
                          /\ off2str' = Without(off2str, x)
                          /\ ordered' = Without(ordered, k)
<1>1. /\ UNCHANGED <<offset, unordered, cpc, toPush, written, raced, slice, exposed, log>>
      /\ UNCHANGED queueVars
      /\ wpc[s] = "apply" /\ Peeked(s).type = "kDel"
  BY DEF WorkerDel, queueVars, clientVars, history
<1>2. Peeked(s) \in Messages /\ Peeked(s).key \in Keys
  BY <1>1, PeekedIs, LogIs, MessageIs DEF StoreInv
<1>3. PICK k \in Keys :
        /\ k = Peeked(s).key
        /\ wpc' = [wpc EXCEPT ![s] = "pop"]
        /\ Missed(k) \/ \E x \in Offsets : Found(k, x)
  <2>1. PICK k \in Keys : k = Peeked(s).key
    BY <1>2
  <2>2. CASE k \notin DOMAIN ordered
    BY <2>1, <2>2 DEF WorkerDel
  <2>3. CASE k \in DOMAIN ordered
    <3>1. PICK x \in Offsets : x = ordered[k]
      BY <2>3, RecordsAre DEF StoreInv
    <3>2. x \in DOMAIN off2str
      BY <2>3, <3>1 DEF StoreInv, OrderedIsStored, StoreHas
    <3>3. /\ wpc' = [wpc EXCEPT ![s] = "pop"]
          /\ off2str' = Without(off2str, x) /\ ordered' = Without(ordered, k)
      BY <2>1, <2>3, <3>1, <3>2 DEF WorkerDel, OrderedErase
    <3> QED
      BY <2>1, <2>3, <3>1, <3>3
  <2> QED
    BY <2>2, <2>3
<1>4. PICK m \in Messages, n \in Nat :
        /\ m = Peeked(s) /\ m = log[s][n] /\ n \in Unapplied(s)
        /\ \A u \in Shards : WorkerKnows(u)'
  BY <1>1, <1>3, ApplyIs
<1>5. DOMAIN off2str' \subseteq DOMAIN off2str
  <2>1. \A x \in Offsets : Found(k, x) => DOMAIN off2str' = DOMAIN off2str \ {x}
    BY WithoutIs
  <2> QED
    BY <1>3, <2>1
<1>6. /\ \A o : Arrived(o) => Arrived(o)'
      /\ \A j, o : Safe(j, o) => Safe(j, o)'
      /\ \A d \in Clients : cpc'[d] # "failed"
      /\ (/\ \A d \in Writers : Carried(toPush[d])'
          /\ \A u \in Shards : \A i \in Unapplied(u) : Carried(log[u][i])')
         => OffsetsOnTheWay'
  BY <1>1, <1>3, <1>5, ApplyKeeps
<1>7. OffsetsOnTheWay
  BY DEF StoreInv
<1>8. CASE Missed(k)
  <2>1. \A o, j : StoreHas(o, j)' <=> StoreHas(o, j)
    BY <1>8 DEF StoreHas
  <2>2. OffsetsOnTheWay'
    <3>1. /\ \A d \in Writers : Carried(toPush[d])'
          /\ \A u \in Shards : \A i \in Unapplied(u) : Carried(log[u][i])'
      BY <1>1, <1>7, <1>8 DEF OffsetsOnTheWay, Carried, StoreHas
    <3> QED
      BY <1>6, <3>1
  <2>3. OrderedIsStored'
    BY <1>6, <1>8, <2>1 DEF StoreInv, OrderedIsStored
  <2>4. UnorderedIsOwn' /\ UnorderedIsStored'
    BY <1>1, <1>6, <1>8, <2>1 DEF StoreInv, UnorderedIsOwn, UnorderedIsStored
  <2>5. SlicesAreStored'
    BY <1>1, <1>6, <2>1 DEF StoreInv, SlicesAreStored
  <2> QED
    BY <1>4, <1>6, <2>2, <2>3, <2>4, <2>5 DEF StoreInv
<1>9. ASSUME NEW x \in Offsets, Found(k, x)
      PROVE  StoreInv'
  <2>1. StoreHas(x, k) /\ Arrived(x)
    BY <1>9 DEF StoreInv, OrderedIsStored
  <2>2. /\ DOMAIN off2str' = DOMAIN off2str \ {x}
        /\ \A o \in DOMAIN off2str \ {x} : off2str'[o] = off2str[o]
        /\ DOMAIN ordered' = DOMAIN ordered \ {k}
        /\ \A j \in DOMAIN ordered \ {k} : ordered'[j] = ordered[j]
    BY <1>9, WithoutIs
  <2>3. \A o, j : StoreHas(o, j) /\ o # x => StoreHas(o, j)' /\ off2str'[o] = off2str[o]
    BY <2>2 DEF StoreHas
  <2>4. \A o, j : StoreHas(o, j) /\ j # k => o # x
    BY <2>1 DEF StoreHas
  \* A Del of k that waits here is followed by the Set that brings o.
  <2>5. \A o : Safe(k, o) => o # x
    <3>1. SUFFICES ASSUME Safe(k, x) PROVE FALSE
      OBVIOUS
    <3>2. n \in Unapplied(s) /\ log[s][n].type = "kDel" /\ log[s][n].key = k
      BY <1>1, <1>3, <1>4
    <3> QED
      BY <2>1, <3>1, <3>2 DEF Safe, Arrived
  <2>6. \A o, j : StoreHas(o, j) /\ Safe(j, o) =>
          StoreHas(o, j)' /\ Safe(j, o)' /\ off2str'[o] = off2str[o]
    <3>1. ASSUME NEW o, NEW j, StoreHas(o, j), Safe(j, o)
          PROVE  StoreHas(o, j)' /\ Safe(j, o)' /\ off2str'[o] = off2str[o]
      <4>1. o # x
        BY <2>4, <2>5, <3>1
      <4> QED
        BY <1>6, <2>3, <3>1, <4>1
    <3> QED
      BY <3>1
  <2>7. OffsetsOnTheWay'
    <3>1. /\ \A d \in Writers : Carried(toPush[d])'
          /\ \A u \in Shards : \A i \in Unapplied(u) : Carried(log[u][i])'
      <4>1. \A d \in Writers : Carried(toPush[d]) /\ ~ IsSetOf(toPush[d], x)
        BY <1>7, <2>1 DEF OffsetsOnTheWay, Arrived
      <4>2. \A u \in Shards : \A i \in Unapplied(u) :
              Carried(log[u][i]) /\ ~ IsSetOf(log[u][i], x)
        BY <1>7, <2>1 DEF OffsetsOnTheWay, Arrived
      <4> QED
        BY <1>1, <2>3, <4>1, <4>2 DEF Carried, IsSetOf
    <3> QED
      BY <1>6, <3>1
  <2>8. OrderedIsStored'
    <3>1. ASSUME NEW j \in DOMAIN ordered \ {k}, NEW o \in Offsets, ordered[j] = o
          PROVE  StoreHas(o, j)' /\ Arrived(o)'
      <4>1. StoreHas(o, j) /\ Arrived(o)
        BY <3>1 DEF StoreInv, OrderedIsStored
      <4> QED
        BY <1>6, <2>3, <2>4, <3>1, <4>1
    <3> QED
      BY <2>2, <3>1 DEF OrderedIsStored
  <2>9. UnorderedIsStored'
    <3>1. /\ DOMAIN unordered = DOMAIN written
          /\ \A j \in DOMAIN unordered \ raced : \A o \in Offsets :
               unordered[j] = o => StoreHas(o, j)' /\ off2str'[o].value = written[j] /\ Safe(j, o)'
      BY <2>6 DEF StoreInv, UnorderedIsStored
    <3> QED
      BY <1>1, <3>1 DEF UnorderedIsStored
  <2>10. SlicesAreStored'
    <3>1. \A d \in Clients \ exposed : \A o \in Offsets :
            slice[d] = o => \E j \in Keys : StoreHas(o, j)' /\ Safe(j, o)'
      BY <2>6 DEF StoreInv, SlicesAreStored
    <3> QED
      BY <1>1, <3>1 DEF SlicesAreStored
  <2>11. UnorderedIsOwn'
    BY <1>1, <2>2 DEF StoreInv, UnorderedIsOwn
  <2> QED
    BY <1>4, <1>6, <2>7, <2>8, <2>9, <2>10, <2>11 DEF StoreInv
<1> QED
  BY <1>3, <1>8, <1>9

LEMMA StoreStep == StoreInv /\ [Next]_vars => StoreInv'
<1> SUFFICES ASSUME StoreInv, [Next]_vars PROVE StoreInv'
  OBVIOUS
<1>1. TypeOK'
  BY TypeStep DEF StoreInv
<1>2. ASSUME NEW c \in Clients, NEW k \in Keys, Set(c, k) PROVE StoreInv'
  BY <1>1, <1>2, InvSet
<1>3. ASSUME NEW c \in Clients, NEW k \in Keys, Del(c, k) PROVE StoreInv'
  BY <1>1, <1>3, InvDel
<1>4. ASSUME NEW c \in Clients, PushWrite(c) PROVE StoreInv'
  BY <1>1, <1>4, InvPush
<1>5. ASSUME NEW c \in Clients,
             \/ \E k \in Keys : Get(c, k) \/ ScanCall(c, k)
             \/ SliceRead(c) \/ ScanDrained(c) \/ ScanOrdered(c) \/ ScanReturn(c)
      PROVE  StoreInv'
  BY <1>1, <1>5, InvRead
<1>6. ASSUME NEW s \in Shards, WorkerStep(s) PROVE StoreInv'
  BY <1>1, <1>6, InvPeekPop, InvWorkSet, InvWorkDel DEF WorkerStep
<1>7. CASE UNCHANGED vars
  <2>1. /\ UNCHANGED <<off2str, offset, unordered, ordered, cpc, toPush, wpc, written, raced,
                       slice, exposed, log, applied>>
        /\ Writers' = Writers
        /\ \A s \in Shards : Unapplied(s)' = Unapplied(s) /\ WorkerKnows(s)'
    BY <1>7 DEF vars, queueVars, storeVars, indexVars, clientVars, history, Writers, Unapplied,
                WorkerKnows, StoreInv
  <2> QED
    BY <1>1, <2>1, WayKept DEF StoreInv
<1> QED
  BY <1>2, <1>3, <1>4, <1>5, <1>6, <1>7 DEF Next, ClientStep

-----------------------------------------------------------------------------
(***************************************************************************)
(* The two indexes converge.                                               *)
(***************************************************************************)

\* Steps that write no key and apply no message.
LEMMA ConvergesKept ==
  ASSUME NEW k, Converges(k),
         UNCHANGED <<unordered, ordered, toPush, log>>, Writers' = Writers,
         \A s \in Shards : Unapplied(s)' = Unapplied(s)
  PROVE  Converges(k)'
<1>1. /\ WrittenNow(k)' <=> WrittenNow(k)
      /\ Agree(k)' <=> Agree(k)
      /\ \A m : LeftBy(m, k)' <=> LeftBy(m, k)
  BY DEF WrittenNow, Agree, LeftBy
<1> QED
  BY <1>1 DEF Converges, LeftBy

\* A write that begins is the only one of its key, or has raced.
LEMMA ConvergesWrite ==
  ASSUME StoreInv, \A j \in Keys \ raced : Converges(j),
         NEW c \in Clients, NEW k \in Keys, Set(c, k) \/ Del(c, k),
         NEW j \in Keys \ raced'
  PROVE  Converges(j)'
<1>1. /\ c \notin Writers /\ Writers' = Writers \cup {c}
      /\ \A d \in Writers : toPush'[d] = toPush[d]
      /\ Set(c, k) => toPush'[c] = SetMessage(k, offset)
      /\ Del(c, k) => toPush'[c] = DelMessage(k)
      /\ \A s \in Shards : Unapplied(s)' = Unapplied(s)
      /\ log' = log /\ ordered' = ordered
      /\ \A i \in Keys : i # k => (i \in raced' <=> i \in raced)
      /\ k \notin raced' => \A d \in Writers : toPush[d].key # k
  BY WriteIs
<1>2. /\ \A i : i # k => (i \in DOMAIN unordered' <=> i \in DOMAIN unordered)
      /\ \A i \in DOMAIN unordered : i # k => unordered'[i] = unordered[i]
      /\ Set(c, k) => k \in DOMAIN unordered' /\ unordered'[k] = offset
      /\ Del(c, k) => k \notin DOMAIN unordered'
  <2>1. CASE Set(c, k)
    <3>1. unordered' = With(unordered, k, offset)
      BY <2>1 DEF Set, UnorderedSet
    <3>2. ~ Del(c, k)
      BY <2>1, <1>1 DEF SetMessage, DelMessage
    <3> QED
      BY <3>1, <3>2 DEF With
  <2>2. CASE Del(c, k)
    <3>1. unordered' = Without(unordered, k)
      BY <2>2 DEF Del, UnorderedDel
    <3>2. ~ Set(c, k)
      BY <2>2, <1>1 DEF SetMessage, DelMessage
    <3> QED
      BY <3>1, <3>2, WithoutIs
  <2> QED
    BY <2>1, <2>2
<1>3. toPush'[c].key = k /\ LeftBy(toPush[c], k)'
  BY <1>1, <1>2 DEF LeftBy, SetMessage, DelMessage
<1>4. CASE j # k
  <2>1. Converges(j)
    BY <1>1, <1>4
  <2>2. \A m : LeftBy(m, j)' <=> LeftBy(m, j)
    BY <1>2, <1>4 DEF LeftBy
  <2>3. WrittenNow(j)' <=> WrittenNow(j)
    BY <1>1, <1>3, <1>4 DEF WrittenNow
  <2>4. Agree(j)' <=> Agree(j)
    BY <1>1, <1>2, <1>4 DEF Agree
  <2>5. \A d \in Writers' : toPush'[d].key = j => d \in Writers /\ toPush'[d] = toPush[d]
    BY <1>1, <1>3, <1>4
  <2>6. \A d \in Writers' : toPush'[d].key = j => LeftBy(toPush[d], j)'
    BY <1>2, <1>4, <2>1, <2>5 DEF Converges, LeftBy
  <2>7. \A d, e \in Writers' : toPush'[d].key = j /\ toPush'[e].key = j => d = e
    BY <2>1, <2>5 DEF Converges
  <2>8. \A s \in Shards : \A i \in Unapplied(s) : LeftBy(log[s][i], j)' <=> LeftBy(log[s][i], j)
    BY <1>1, <1>2, <1>4 DEF LeftBy
  <2> QED
    BY <1>1, <2>1, <2>3, <2>4, <2>6, <2>7, <2>8 DEF Converges
<1>5. CASE j = k
  <2>1. \A d \in Writers' : toPush'[d].key = k => d = c
    BY <1>1, <1>5
  <2>2. WrittenNow(k)'
    BY <1>1, <1>3 DEF WrittenNow
  <2> QED
    BY <1>3, <1>5, <2>1, <2>2 DEF Converges
<1> QED
  BY <1>4, <1>5

\* A message that is pushed becomes the last of its key.
LEMMA ConvergesPush ==
  ASSUME StoreInv, NEW c \in Clients, PushWrite(c), NEW j \in Keys, Converges(j)
  PROVE  Converges(j)'
<1>1. UNCHANGED <<unordered, ordered>>
  BY DEF PushWrite, indexVars
<1>2. PICK m \in Messages, s0 \in Shards, n \in Nat :
      /\ m = toPush[c] /\ s0 = ShardOf[m]
      /\ c \in Writers /\ Writers' = Writers \ {c}
      /\ \A d \in Writers' : toPush'[d] = toPush[d]
      /\ n \in Unapplied(s0)' /\ log'[s0][n] = m
      /\ \A i \in Unapplied(s0) : i < n
      /\ \A s \in Shards : \A i \in Unapplied(s) : i \in Unapplied(s)' /\ log'[s][i] = log[s][i]
      /\ \A s \in Shards : \A i \in Unapplied(s)' : i \in Unapplied(s) \/ (s = s0 /\ i = n)
  BY PushIs
<1>3. \A s \in Shards : \A i \in Unapplied(s) : log[s][i] \in Messages /\ ShardOf[log[s][i]] = s
  BY LogIs
<1>4. /\ \A x : LeftBy(x, j)' <=> LeftBy(x, j)
      /\ Agree(j)' <=> Agree(j)
  BY <1>1 DEF LeftBy, Agree
<1>5. /\ \A d, e \in Writers' : toPush'[d].key = j /\ toPush'[e].key = j => d = e
      /\ \A d \in Writers' : toPush'[d].key = j => LeftBy(toPush[d], j)'
  <2>1. \A d \in Writers' : d \in Writers /\ toPush'[d] = toPush[d]
    BY <1>2
  <2> QED
    BY <1>1, <2>1 DEF Converges, LeftBy
<1>6. CASE m.key # j
  <2>1. WrittenNow(j)' <=> WrittenNow(j)
    BY <1>2, <1>6 DEF WrittenNow
  <2>2. ASSUME ~ WrittenNow(j),
               NEW s \in Shards, NEW i \in Unapplied(s)', log'[s][i].key = j,
               \A l \in Unapplied(s)' : i < l => log'[s][l].key # j
        PROVE  LeftBy(log[s][i], j)'
    <3>1. i \in Unapplied(s) /\ log'[s][i] = log[s][i]
      BY <1>2, <1>6, <2>2
    <3>2. \A l \in Unapplied(s) : i < l => log[s][l].key # j
      BY <1>2, <2>2
    <3>3. LeftBy(log[s][i], j)
      BY <2>2, <3>1, <3>2 DEF Converges
    <3> QED
      BY <1>1, <3>1, <3>3 DEF LeftBy
  <2>3. (\A s \in Shards : \A i \in Unapplied(s)' : log'[s][i].key # j)
          => \A s \in Shards : \A i \in Unapplied(s) : log[s][i].key # j
    <3>1. \A s \in Shards : \A i \in Unapplied(s) :
            i \in Unapplied(s)' /\ log'[s][i] = log[s][i]
      BY <1>2
    <3> QED
      BY <3>1
  <2>4. ~ WrittenNow(j) /\ (\A s \in Shards : \A i \in Unapplied(s)' : log'[s][i].key # j)
          => Agree(j)'
    BY <1>4, <2>3 DEF Converges
  <2> QED
    BY <1>5, <2>1, <2>2, <2>4 DEF Converges
<1>7. CASE m.key = j
  <2>1. ASSUME NEW s \in Shards, NEW i \in Unapplied(s)', log'[s][i].key = j,
               \A l \in Unapplied(s)' : i < l => log'[s][l].key # j
        PROVE  LeftBy(log[s][i], j)'
    <3>1. ~ i \in Unapplied(s)
      <4>1. SUFFICES ASSUME i \in Unapplied(s) PROVE FALSE
        OBVIOUS
      <4>2. log[s][i] \in Messages /\ ShardOf[log[s][i]] = s /\ log[s][i].key = j
        BY <1>2, <1>3, <2>1, <4>1
      <4>3. s = s0
        BY <1>2, <1>7, <4>2, ShardOfKeyAssumption
      <4> QED
        BY <1>2, <1>7, <2>1, <4>1, <4>3
    <3>2. log'[s][i] = m
      BY <1>2, <2>1, <3>1
    <3>3. LeftBy(m, j)
      BY <1>2, <1>7 DEF Converges
    <3> QED
      BY <1>1, <3>2, <3>3 DEF LeftBy
  <2>2. ~ \A s \in Shards : \A i \in Unapplied(s)' : log'[s][i].key # j
    BY <1>2, <1>7
  <2> QED
    BY <1>5, <2>1, <2>2 DEF Converges
<1> QED
  BY <1>6, <1>7

\* A message that is applied leaves in the ordered index what its write left in
\* the unordered one, if no other of its key is on its way.
LEMMA ConvergesApply ==
  ASSUME StoreInv, NEW s \in Shards, WorkerSet(s) \/ WorkerDel(s), NEW j \in Keys, Converges(j)
  PROVE  Converges(j)'
<1>1. /\ UNCHANGED <<unordered, cpc, toPush, log>> /\ UNCHANGED queueVars
      /\ wpc[s] = "apply" /\ Writers' = Writers
  BY DEF WorkerSet, WorkerDel, queueVars, clientVars, Writers
<1>2. wpc' = [wpc EXCEPT ![s] = "pop"]
  <2>1. CASE WorkerSet(s)
    BY <2>1 DEF WorkerSet
  <2>2. CASE WorkerDel(s)
    <3>1. \A k \in DOMAIN ordered : ordered[k] \in DOMAIN off2str
      BY RecordsAre DEF StoreInv, OrderedIsStored, StoreHas
    <3> QED
      BY <2>2, <3>1 DEF WorkerDel
  <2> QED
    BY <2>1, <2>2
<1>3. PICK m \in Messages, n \in Nat :
        /\ m = Peeked(s) /\ m = log[s][n]
        /\ n \in Unapplied(s) /\ n \notin Unapplied(s)'
        /\ \A i \in Unapplied(s)' : n < i
        /\ \A u \in Shards : \A i : i \in Unapplied(u)' <=> i \in Unapplied(u) /\ ~ (u = s /\ i = n)
  BY <1>1, <1>2, ApplyIs
<1>4. PICK k \in Keys : k = m.key
  BY MessageIs
<1>5. /\ \A i : i # k => (i \in DOMAIN ordered' <=> i \in DOMAIN ordered)
      /\ \A i \in DOMAIN ordered : i # k => ordered'[i] = ordered[i]
      /\ m.type = "kSet" => k \in DOMAIN ordered' /\ ordered'[k] = m.offset
      /\ m.type # "kSet" => k \notin DOMAIN ordered'
  <2>1. CASE WorkerSet(s)
    <3>1. m.type = "kSet" /\ ordered' = With(ordered, k, m.offset)
      BY <1>3, <1>4, <2>1 DEF WorkerSet, OrderedSet
    <3> QED
      BY <3>1 DEF With
  <2>2. CASE WorkerDel(s)
    <3>1. m.type = "kDel"
      BY <1>3, <2>2 DEF WorkerDel
    <3>2. \/ k \notin DOMAIN ordered /\ ordered' = ordered
          \/ k \in DOMAIN ordered /\ ordered' = Without(ordered, k)
      <4>1. \A i \in DOMAIN ordered : ordered[i] \in DOMAIN off2str
        BY RecordsAre DEF StoreInv, OrderedIsStored, StoreHas
      <4> QED
        BY <1>3, <1>4, <2>2, <4>1 DEF WorkerDel, OrderedErase
    <3>3. CASE k \notin DOMAIN ordered /\ ordered' = ordered
      BY <3>1, <3>3
    <3>4. CASE ordered' = Without(ordered, k)
      <4>1. DOMAIN ordered' = DOMAIN ordered \ {k}
        BY <3>4, WithoutIs
      <4>2. \A i \in DOMAIN ordered \ {k} : ordered'[i] = ordered[i]
        BY <3>4, WithoutIs
      <4> QED
        BY <3>1, <4>1, <4>2
    <3> QED
      BY <3>2, <3>3, <3>4
  <2> QED
    BY <2>1, <2>2
<1>6. /\ \A x : LeftBy(x, j)' <=> LeftBy(x, j)
      /\ WrittenNow(j)' <=> WrittenNow(j)
  BY <1>1 DEF LeftBy, WrittenNow
<1>7. ASSUME ~ WrittenNow(j),
             NEW u \in Shards, NEW i \in Unapplied(u)', log[u][i].key = j,
             \A l \in Unapplied(u)' : i < l => log[u][l].key # j
      PROVE  LeftBy(log[u][i], j)
  <2>1. i \in Unapplied(u)
    BY <1>3, <1>7
  <2>2. ASSUME NEW l \in Unapplied(u), i < l PROVE log[u][l].key # j
    <3>1. ~ (u = s /\ l = n)
      <4>1. SUFFICES ASSUME u = s, l = n PROVE FALSE
        OBVIOUS
      <4>2. n < i /\ i < n /\ i \in Nat
        BY <1>3, <1>7, <2>1, <2>2, <4>1, LogIs
      <4> QED
        BY <4>2
    <3>2. l \in Unapplied(u)'
      BY <1>3, <3>1
    <3> QED
      BY <1>7, <2>2, <3>2
  <2> QED
    BY <1>7, <2>1, <2>2 DEF Converges
<1>8. ASSUME ~ WrittenNow(j),
             \A u \in Shards : \A i \in Unapplied(u)' : log[u][i].key # j
      PROVE  Agree(j)'
  <2>1. CASE j # k
    <3>1. \A u \in Shards : \A i \in Unapplied(u) : log[u][i].key # j
      <4>1. ASSUME NEW u \in Shards, NEW i \in Unapplied(u) PROVE log[u][i].key # j
        <5>1. CASE u = s /\ i = n
          BY <1>3, <1>4, <2>1, <5>1
        <5>2. CASE ~ (u = s /\ i = n)
          BY <1>3, <1>8, <5>2
        <5> QED
          BY <5>1, <5>2
      <4> QED
        BY <4>1
    <3>2. Agree(j)
      BY <1>8, <3>1 DEF Converges
    <3> QED
      BY <1>1, <1>5, <2>1, <3>2 DEF Agree
  <2>2. CASE j = k
    <3>1. \A l \in Unapplied(s) : n < l => log[s][l].key # j
      <4>1. \A l \in Unapplied(s) : n < l => l # n
        OBVIOUS
      <4> QED
        BY <1>3, <1>8, <4>1
    <3>2. LeftBy(log[s][n], j)
      BY <1>3, <1>4, <1>8, <2>2, <3>1 DEF Converges
    <3>3. LeftBy(m, j)
      BY <1>3, <3>2
    <3> QED
      BY <1>1, <1>5, <2>2, <3>3 DEF Agree, LeftBy
  <2> QED
    BY <2>1, <2>2
<1>9. /\ \A d, e \in Writers' : toPush'[d].key = j /\ toPush'[e].key = j => d = e
      /\ \A d \in Writers' : toPush'[d].key = j => LeftBy(toPush[d], j)'
  BY <1>1 DEF Converges, LeftBy
<1>10. ASSUME ~ WrittenNow(j)', NEW u \in Shards, NEW i \in Unapplied(u)', log'[u][i].key = j,
              \A l \in Unapplied(u)' : i < l => log'[u][l].key # j
       PROVE  LeftBy(log[u][i], j)'
  <2>1. LeftBy(log[u][i], j)
    BY <1>1, <1>6, <1>7, <1>10
  <2> QED
    BY <1>1, <2>1 DEF LeftBy
<1> QED
  BY <1>1, <1>6, <1>8, <1>9, <1>10 DEF Converges

LEMMA InvInit == Init => IndexInv
<1> SUFFICES ASSUME Init, NEW k \in Keys PROVE Converges(k)
  BY StoreInit DEF IndexInv
<1>1. Writers = {} /\ Agree(k)
  BY DEF Init, Writers, Agree
<1>2. \A s \in Shards : Unapplied(s) = {}
  <2>1. ASSUME NEW s \in Shards PROVE Unapplied(s) = {}
    <3>1. Len(log[s]) = 0 /\ applied[s] = 0 /\ wpc[s] = "peek"
      BY EmptySeq DEF Init, QueueInit
    <3> QED
      BY <3>1 DEF Unapplied
  <2> QED
    BY <2>1
<1> QED
  BY <1>1, <1>2 DEF Converges

LEMMA InvStep == IndexInv /\ [Next]_vars => IndexInv'
<1> SUFFICES ASSUME IndexInv, [Next]_vars PROVE IndexInv'
  OBVIOUS
<1>1. StoreInv /\ StoreInv' /\ \A j \in Keys \ raced : Converges(j)
  BY StoreStep DEF IndexInv
<1> SUFFICES ASSUME NEW j \in Keys \ raced' PROVE Converges(j)'
  BY <1>1 DEF IndexInv
<1>2. ASSUME NEW c \in Clients, NEW k \in Keys, Set(c, k) \/ Del(c, k) PROVE Converges(j)'
  BY <1>1, <1>2, ConvergesWrite
<1>3. ASSUME NEW c \in Clients, PushWrite(c) PROVE Converges(j)'
  <2>1. raced' = raced
    BY <1>3 DEF PushWrite, history
  <2> QED
    BY <1>1, <1>3, <2>1, ConvergesPush
<1>4. ASSUME NEW c \in Clients,
             \/ \E k \in Keys : Get(c, k) \/ ScanCall(c, k)
             \/ SliceRead(c) \/ ScanDrained(c) \/ ScanOrdered(c) \/ ScanReturn(c)
      PROVE  Converges(j)'
  <2>1. UNCHANGED <<unordered, ordered, toPush, wpc, raced, log, applied>>
    BY <1>4 DEF Get, ScanCall, StartScan, WaitDrainCall, WaitDrainReturn, SliceRead, ScanDrained,
           ScanOrdered, ScanReturn, storeVars, indexVars, queueVars, history
  <2>2. Writers' = Writers
    BY <1>1, <1>4 DEF StoreInv, TypeOK, Get, ScanCall, StartScan, SliceRead, ScanDrained,
           ScanOrdered, ScanReturn, Writers
  <2>3. \A s \in Shards : Unapplied(s)' = Unapplied(s)
    BY <2>1 DEF Unapplied
  <2> QED
    BY <1>1, <2>1, <2>2, <2>3, ConvergesKept
<1>5. ASSUME NEW s \in Shards, WorkerSet(s) \/ WorkerDel(s) PROVE Converges(j)'
  <2>1. raced' = raced
    BY <1>5 DEF WorkerSet, WorkerDel, history
  <2> QED
    BY <1>1, <1>5, <2>1, ConvergesApply
<1>6. ASSUME NEW s \in Shards, WorkerPeek(s) \/ WorkerPop(s) PROVE Converges(j)'
  <2>1. UNCHANGED <<unordered, ordered, cpc, toPush, log, raced>>
    BY <1>6 DEF WorkerPeek, WorkerPop, Pop, queueVars, indexVars, clientVars, history
  <2>2. \A u \in Shards : Unapplied(u)' = Unapplied(u)
    BY <1>1, <1>6, PeekPopKeeps
  <2> QED
    BY <1>1, <2>1, <2>2, ConvergesKept DEF Writers
<1>7. CASE UNCHANGED vars
  <2>1. /\ UNCHANGED <<unordered, ordered, cpc, toPush, log, raced, wpc, applied>>
        /\ Writers' = Writers
    BY <1>7 DEF vars, queueVars, indexVars, clientVars, history, Writers
  <2>2. \A s \in Shards : Unapplied(s)' = Unapplied(s)
    BY <2>1 DEF Unapplied
  <2> QED
    BY <1>1, <2>1, <2>2, ConvergesKept
<1> QED
  BY <1>2, <1>3, <1>4, <1>5, <1>6, <1>7 DEF Next, ClientStep, WorkerStep

-----------------------------------------------------------------------------
(***************************************************************************)
(* The theorems.                                                           *)
(***************************************************************************)

\* What is in the two indexes, in the messages on their way and in the store
\* fits together in every state, for any number of clients that write any
\* keys (plain_ordered_index_impl.cpp, plain_unordered_index_impl.cpp,
\* open_hikv.cpp:10-38).
THEOREM IndexInvariant == Spec => []IndexInv
<1>1. Spec => Init /\ [][Next]_vars
  BY DEF Spec, SafetySpec
<1> QED
  BY <1>1, InvInit, InvStep, PTL

\* Get answers with the last value set and kNotFound after Del, of every key
\* whose last write did not race (plain_unordered_index_impl.cpp:5-12).
THEOREM GetIsCurrent == Spec => []GetSeesLastWrite
<1>1. IndexInv => GetSeesLastWrite
  <2> SUFFICES ASSUME IndexInv, NEW k \in Keys \ raced
               PROVE  /\ CanGet(k) <=> k \in DOMAIN written
                      /\ CanGet(k) => ValueOf(k) = written[k]
    BY DEF GetSeesLastWrite
  <2>1. k \in DOMAIN unordered <=> k \in DOMAIN written
    BY DEF IndexInv, StoreInv, UnorderedIsStored
  <2>2. ASSUME k \in DOMAIN unordered
        PROVE  CanGet(k) /\ ValueOf(k) = written[k]
    <3>1. unordered[k] \in Offsets
      BY <2>2, RecordsAre DEF IndexInv, StoreInv
    <3>2. StoreHas(unordered[k], k) /\ off2str[unordered[k]].value = written[k]
      BY <2>2, <3>1 DEF IndexInv, StoreInv, UnorderedIsStored
    <3> QED
      BY <2>2, <3>2 DEF CanGet, ValueOf, StoreHas
  <2> QED
    BY <2>1, <2>2 DEF CanGet
<1> QED
  BY <1>1, IndexInvariant, PTL

\* The Slice that Get has given to a caller stays in the store while the
\* caller reads it, until somebody calls Del for its key, whatever is set; of
\* a key whose last write raced this is promised only if no Del of the key was
\* on its way at the Get: such a Del may free the value of a later Set
\* (plain_store_impl.cpp:5-18, 28-36, open_hikv.cpp:20-33).
THEOREM SlicesValid == Spec => []SlicesStayValid
<1>1. IndexInv => SlicesStayValid
  BY DEF IndexInv, StoreInv, TypeOK, SlicesAreStored, StoreHas, SlicesStayValid
<1> QED
  BY <1>1, IndexInvariant, PTL

\* No Scan fails and no worker ends, whatever writes race
\* (plain_ordered_index_impl.cpp:15-18, 32-35).
THEOREM NothingLost == Spec => []NothingDangles
<1>1. IndexInv => NothingDangles
  BY DEF IndexInv, StoreInv, WorkerKnows, NothingDangles
<1> QED
  BY <1>1, IndexInvariant, PTL

\* When no write is under way and the queue is drained, the ordered and the
\* unordered index hold the same offset for every key whose last write did
\* not race (open_hikv.cpp:10-38, 60-84).
THEOREM IndexesConverge == Spec => []IndexesAgreeWhenDrained
<1>1. IndexInv => IndexesAgreeWhenDrained
  <2> SUFFICES ASSUME IndexInv, Quiescent, NEW k \in Keys \ raced PROVE Agree(k)
    BY DEF IndexesAgreeWhenDrained
  <2>1. ASSUME NEW s \in Shards PROVE Unapplied(s) = {}
    <3>1. ~ (applied[s] < Len(log[s]))
      BY DEF Quiescent, CanPeek
    <3>2. applied[s] \in Nat /\ Len(log[s]) \in Nat
      BY LogIs DEF IndexInv
    <3> QED
      BY <3>1, <3>2 DEF Unapplied
  <2> QED
    BY <2>1 DEF IndexInv, Converges, WrittenNow, Quiescent
<1> QED
  BY <1>1, IndexInvariant, PTL

-----------------------------------------------------------------------------
(***************************************************************************)
(* What a Scan shows, and what the store has freed.                        *)
(***************************************************************************)

(***************************************************************************)
(* What a Scan knows.                                                      *)
(***************************************************************************)
ScanShows(c) ==
  cpc[c] = "found" =>
    \A k \in Keys \ (raced \cup touched[c]) :
      (scan[c].from <= k /\ k <= scan[c].last) =>
        /\ k \in DOMAIN scan[c].found <=> k \in DOMAIN written
        /\ k \in DOMAIN written => scan[c].found[k] = written[k]

ScanInv == \A c \in Clients : ScanKnows(c) /\ ScanShows(c)

\* No write of k begins in the step, and no message of k is pushed.
NoNews(k) ==
  /\ WrittenNow(k)' => WrittenNow(k)
  /\ k \in DOMAIN written' <=> k \in DOMAIN written
  /\ k \in DOMAIN written => written'[k] = written[k]
  /\ \A s \in Shards : \A i \in Unapplied(s)' :
       log'[s][i].key = k => i \in Unapplied(s) /\ log[s][i].key = k

\* A Scan that is under way is not misled by what others do.
LEMMA ScanGoesOn ==
  ASSUME NEW d \in Clients, ScanKnows(d), ScanShows(d),
         cpc'[d] = cpc[d], target'[d] = target[d], scan'[d] = scan[d],
         Scanning(d) =>
           \A k \in Keys \ (raced' \cup touched'[d]) :
             k \notin raced /\ k \notin touched[d] /\ NoNews(k)
  PROVE  ScanKnows(d)' /\ ScanShows(d)'
<1>1. Scanning(d)' <=> Scanning(d)
  BY DEF Scanning
<1>2. ScanKnows(d)'
  <2> SUFFICES ASSUME Scanning(d), NEW k \in Keys \ (raced' \cup touched'[d])
               PROVE  /\ ~ WrittenNow(k)'
                      /\ cpc'[d] = "drain" =>
                           /\ target'[d] \in [Shards -> Nat]
                           /\ \A s \in Shards : \A i \in Unapplied(s)' :
                                log'[s][i].key = k => i <= target'[d][s]
                      /\ cpc'[d] = "scan" =>
                           \A s \in Shards : \A i \in Unapplied(s)' : log'[s][i].key # k
    BY <1>1 DEF ScanKnows
  <2>1. NoNews(k) /\ k \in Keys \ (raced \cup touched[d])
    OBVIOUS
  <2>2. /\ ~ WrittenNow(k)
        /\ cpc[d] = "drain" =>
             /\ target[d] \in [Shards -> Nat]
             /\ \A s \in Shards : \A i \in Unapplied(s) :
                  log[s][i].key = k => i <= target[d][s]
        /\ cpc[d] = "scan" =>
             \A s \in Shards : \A i \in Unapplied(s) : log[s][i].key # k
    BY <2>1 DEF ScanKnows
  <2> QED
    BY <2>1, <2>2 DEF NoNews
<1>3. ScanShows(d)'
  <2> SUFFICES ASSUME cpc[d] = "found", NEW k \in Keys \ (raced' \cup touched'[d]),
                      scan[d].from <= k, k <= scan[d].last
               PROVE  /\ k \in DOMAIN scan[d].found <=> k \in DOMAIN written'
                      /\ k \in DOMAIN written' => scan[d].found[k] = written'[k]
    BY DEF ScanShows
  <2>1. NoNews(k) /\ k \in Keys \ (raced \cup touched[d])
    BY DEF Scanning
  <2> QED
    BY <2>1 DEF NoNews, ScanShows
<1> QED
  BY <1>2, <1>3

LEMMA ScanInvInit == Init => ScanInv
  BY DEF Init, ScanInv, ScanKnows, ScanShows, Scanning

\* A write of k is noted by all who scan.
LEMMA ScanWrite ==
  ASSUME IndexInv, ScanInv, NEW c \in Clients, NEW k \in Keys, Set(c, k) \/ Del(c, k)
  PROVE  ScanInv'
<1> SUFFICES ASSUME NEW d \in Clients PROVE ScanKnows(d)' /\ ScanShows(d)'
  BY DEF ScanInv
<1>1. TypeOK
  BY DEF IndexInv, StoreInv
<1>2. /\ cpc' = [cpc EXCEPT ![c] = "push"]
      /\ toPush'[c].key = k
      /\ \A e \in Clients \ {c} : toPush'[e] = toPush[e]
      /\ written' = With(written, k, offset) \/ written' = Without(written, k)
      /\ UNCHANGED <<log, applied, target, scan, wpc>>
      /\ NoteWrite(k)
  BY <1>1 DEF TypeOK, Set, Del, queueVars, SetMessage, DelMessage
<1>3. CASE d = c
  <2>1. cpc'[d] = "push"
    BY <1>1, <1>2, <1>3 DEF TypeOK
  <2> QED
    BY <2>1 DEF ScanKnows, ScanShows, Scanning
<1>4. CASE d # c
  <2>1. cpc'[d] = cpc[d]
    BY <1>1, <1>2, <1>4 DEF TypeOK
  <2>2. ASSUME Scanning(d), NEW j \in Keys \ (raced' \cup touched'[d])
        PROVE  j \notin raced /\ j \notin touched[d] /\ NoNews(j)
    <3>1. touched'[d] = touched[d] \cup {k}
      BY <1>2, <2>2 DEF NoteWrite
    <3>2. j # k /\ j \notin raced /\ j \notin touched[d]
      BY <1>2, <2>2, <3>1 DEF NoteWrite
    <3>3. WrittenNow(j)' => WrittenNow(j)
      BY <1>1, <1>2, <3>2 DEF TypeOK, WrittenNow, Writers
    <3>4. /\ j \in DOMAIN written' <=> j \in DOMAIN written
          /\ j \in DOMAIN written => written'[j] = written[j]
      <4>1. CASE written' = With(written, k, offset)
        <5>1. /\ DOMAIN written' = DOMAIN written \cup {k}
              /\ \A i \in DOMAIN written : i # k => written'[i] = written[i]
          BY <4>1 DEF With
        <5> QED
          BY <3>2, <5>1
      <4>2. CASE written' = Without(written, k)
        <5>1. /\ DOMAIN written' = DOMAIN written \ {k}
              /\ \A i \in DOMAIN written \ {k} : written'[i] = written[i]
          BY <4>2, WithoutIs
        <5> QED
          BY <3>2, <5>1
      <4> QED
        BY <1>2, <4>1, <4>2
    <3>5. \A s \in Shards : Unapplied(s)' = Unapplied(s)
      BY <1>2 DEF Unapplied
    <3> QED
      BY <1>2, <3>2, <3>3, <3>4, <3>5 DEF NoNews
  <2> QED
    BY <1>2, <2>1, <2>2, ScanGoesOn DEF ScanInv
<1> QED
  BY <1>3, <1>4

LEMMA ScanPush ==
  ASSUME IndexInv, ScanInv, NEW c \in Clients, PushWrite(c)
  PROVE  ScanInv'
<1> SUFFICES ASSUME NEW d \in Clients PROVE ScanKnows(d)' /\ ScanShows(d)'
  BY DEF ScanInv
<1>1. TypeOK /\ StoreInv
  BY DEF IndexInv, StoreInv
<1>2. cpc' = [cpc EXCEPT ![c] = "idle"] /\ UNCHANGED <<target, scan, written, raced, touched>>
  BY DEF PushWrite, Push, history
<1>3. PICK m \in Messages, s0 \in Shards, n \in Nat :
        /\ m = toPush[c] /\ s0 = ShardOf[m]
        /\ c \in Writers /\ Writers' = Writers \ {c}
        /\ \A e \in Writers' : toPush'[e] = toPush[e]
        /\ n \in Unapplied(s0)' /\ log'[s0][n] = m
        /\ \A s \in Shards : \A i \in Unapplied(s) : log'[s][i] = log[s][i]
        /\ \A s \in Shards : \A i \in Unapplied(s)' :
             i \in Unapplied(s) \/ (s = s0 /\ i = n)
  BY <1>1, PushIs
<1>4. CASE d = c
  <2>1. cpc'[d] = "idle"
    BY <1>1, <1>2, <1>4 DEF TypeOK
  <2> QED
    BY <2>1 DEF ScanKnows, ScanShows, Scanning
<1>5. CASE d # c
  <2>1. cpc'[d] = cpc[d]
    BY <1>1, <1>2, <1>5 DEF TypeOK
  <2>2. ASSUME Scanning(d), NEW j \in Keys \ (raced \cup touched[d])
        PROVE  NoNews(j)
    <3>1. ~ WrittenNow(j)
      BY <2>2 DEF ScanInv, ScanKnows
    <3>2. m.key # j
      BY <1>3, <3>1 DEF WrittenNow
    <3>3. WrittenNow(j)' => WrittenNow(j)
      BY <1>3 DEF WrittenNow
    <3> QED
      BY <1>2, <1>3, <3>2, <3>3 DEF NoNews
  <2> QED
    BY <1>2, <2>1, <2>2, ScanGoesOn DEF ScanInv
<1> QED
  BY <1>4, <1>5

\* Nothing of a worker's is news: what is on its way becomes less.
LEMMA ScanWork ==
  ASSUME IndexInv, ScanInv, NEW s \in Shards, WorkerStep(s)
  PROVE  ScanInv'
<1> SUFFICES ASSUME NEW d \in Clients PROVE ScanKnows(d)' /\ ScanShows(d)'
  BY DEF ScanInv
<1>1. StoreInv /\ TypeOK
  BY DEF IndexInv, StoreInv
<1>2. UNCHANGED <<log, target, cpc, toPush, scan, written, raced, touched>>
  BY DEF WorkerStep, WorkerPeek, WorkerSet, WorkerDel, WorkerPop, Pop, queueVars, clientVars, history
<1>3. \A u \in Shards : Unapplied(u)' \subseteq Unapplied(u)
  <2>1. CASE WorkerPeek(s) \/ WorkerPop(s)
    BY <1>1, <2>1, PeekPopKeeps
  <2>2. CASE WorkerSet(s) \/ WorkerDel(s)
    <3>1. wpc[s] = "apply" /\ UNCHANGED <<queueVars, cpc, toPush>>
      BY <2>2 DEF WorkerSet, WorkerDel, clientVars
    <3>2. \A k \in DOMAIN ordered : ordered[k] \in DOMAIN off2str
      BY <1>1, RecordsAre DEF StoreInv, OrderedIsStored, StoreHas
    <3>3. wpc' = [wpc EXCEPT ![s] = "pop"]
      BY <2>2, <3>2 DEF WorkerSet, WorkerDel
    <3> QED
      BY <1>1, <3>1, <3>3, ApplyIs
  <2> QED
    BY <2>1, <2>2 DEF WorkerStep
<1>4. ASSUME NEW j \in Keys PROVE NoNews(j)
  BY <1>2, <1>3 DEF NoNews, WrittenNow, Writers
<1> QED
  BY <1>2, <1>4, ScanGoesOn DEF ScanInv

\* The steps of Get and Scan, as the others see them.
LEMMA ScanOthersRead ==
  ASSUME IndexInv, ScanInv, NEW c \in Clients,
         \/ \E k \in Keys : Get(c, k) \/ ScanCall(c, k)
         \/ SliceRead(c) \/ ScanDrained(c) \/ ScanOrdered(c) \/ ScanReturn(c),
         NEW d \in Clients \ {c}
  PROVE  ScanKnows(d)' /\ ScanShows(d)'
<1>1. TypeOK
  BY DEF IndexInv, StoreInv
<1>2. UNCHANGED <<toPush, wpc, written, raced, log, applied>>
  BY DEF Get, ScanCall, StartScan, WaitDrainCall, WaitDrainReturn, SliceRead, ScanDrained,
         ScanOrdered, ScanReturn, queueVars, history
<1>3. /\ cpc'[d] = cpc[d] /\ touched'[d] = touched[d] /\ scan'[d] = scan[d]
      /\ Writers' = Writers
  BY <1>1 DEF TypeOK, Get, ScanCall, StartScan, SliceRead, ScanDrained, ScanOrdered, ScanReturn,
              Writers, history
<1>4. target'[d] = target[d]
  BY <1>1 DEF Clients, TypeOK, QueueTypeOK, Get, ScanCall, WaitDrainCall, WaitDrainReturn, SliceRead,
              ScanDrained, ScanOrdered, ScanReturn, queueVars
<1>5. ASSUME NEW j \in Keys PROVE NoNews(j)
  <2>1. \A u \in Shards : Unapplied(u)' = Unapplied(u)
    BY <1>2 DEF Unapplied
  <2> QED
    BY <1>2, <1>3, <2>1 DEF NoNews, WrittenNow
<1> QED
  BY <1>2, <1>3, <1>4, <1>5, ScanGoesOn DEF ScanInv

\* WaitDrain waits for all that is pushed, and who is about to push is noted.
LEMMA ScanBegins ==
  ASSUME IndexInv, NEW c \in Clients, NEW k \in Keys, ScanCall(c, k)
  PROVE  ScanKnows(c)' /\ ScanShows(c)'
<1>1. TypeOK /\ StoreInv
  BY DEF IndexInv, StoreInv
<1>2. /\ cpc[c] = "idle" /\ cpc'[c] = "drain"
      /\ touched'[c] = {toPush[d].key : d \in Writers}
      /\ target'[c] = [s \in Shards |-> Len(log[s])]
      /\ UNCHANGED <<toPush, wpc, log, applied, raced>>
  BY <1>1 DEF Clients, TypeOK, QueueTypeOK, ScanCall, StartScan, WaitDrainCall
<1>3. Writers' = Writers /\ \A s \in Shards : Unapplied(s)' = Unapplied(s)
  BY <1>1, <1>2 DEF TypeOK, ScanCall, StartScan, Writers, Unapplied
<1>4. \A s \in Shards : Len(log[s]) \in Nat /\ Unapplied(s) \subseteq 1 .. Len(log[s])
  BY <1>1, LogIs
<1>5. target'[c] \in [Shards -> Nat]
  BY <1>2, <1>4
<1>6. ASSUME NEW j \in Keys \ (raced' \cup touched'[c])
      PROVE  /\ ~ WrittenNow(j)'
             /\ \A s \in Shards : \A i \in Unapplied(s)' : i <= target'[c][s]
  BY <1>2, <1>3, <1>4, <1>6 DEF WrittenNow
<1> QED
  BY <1>2, <1>5, <1>6 DEF ScanKnows, ScanShows

LEMMA ScanIsDrained ==
  ASSUME IndexInv, ScanInv, NEW c \in Clients, ScanDrained(c)
  PROVE  ScanKnows(c)' /\ ScanShows(c)'
<1>1. TypeOK /\ StoreInv
  BY DEF IndexInv, StoreInv
<1>2. /\ cpc[c] = "drain" /\ cpc'[c] = "scan"
      /\ \A s \in Shards : applied[s] >= target[c][s]
      /\ UNCHANGED <<toPush, wpc, log, applied, raced, touched>>
  BY <1>1 DEF TypeOK, ScanDrained, WaitDrainReturn, history
<1>3. Writers' = Writers /\ \A s \in Shards : Unapplied(s)' = Unapplied(s)
  BY <1>1, <1>2 DEF TypeOK, ScanDrained, Writers, Unapplied
<1>4. ASSUME NEW j \in Keys \ (raced \cup touched[c])
      PROVE  /\ ~ WrittenNow(j)
             /\ \A s \in Shards : \A i \in Unapplied(s) : log[s][i].key # j
  <2>1. /\ ~ WrittenNow(j)
        /\ target[c] \in [Shards -> Nat]
        /\ \A s \in Shards : \A i \in Unapplied(s) : log[s][i].key = j => i <= target[c][s]
    BY <1>2, <1>4 DEF ScanInv, ScanKnows, Scanning
  <2>2. ASSUME NEW s \in Shards, NEW i \in Unapplied(s), log[s][i].key = j
        PROVE  FALSE
    <3>1. /\ i <= target[c][s] /\ target[c][s] \in Nat /\ applied[s] \in Nat
          /\ applied[s] >= target[c][s]
      BY <1>1, <1>2, <2>1, <2>2, LogIs
    <3>2. i \in Nat /\ i > applied[s]
      BY <1>1, <2>2, LogIs DEF Unapplied
    <3> QED
      BY <3>1, <3>2
  <2> QED
    BY <2>1, <2>2
<1> QED
  BY <1>2, <1>3, <1>4 DEF ScanKnows, ScanShows, WrittenNow

\* A key of which nothing is on its way is in the ordered index as written.
LEMMA DrainedIsWritten ==
  ASSUME IndexInv, NEW k \in Keys \ raced, ~ WrittenNow(k),
         \A s \in Shards : \A i \in Unapplied(s) : log[s][i].key # k
  PROVE  /\ k \in DOMAIN ordered <=> k \in DOMAIN written
         /\ k \in DOMAIN ordered => off2str[ordered[k]].value = written[k]
<1>1. Agree(k)
  BY DEF IndexInv, Converges
<1>2. DOMAIN unordered = DOMAIN written
  BY DEF IndexInv, StoreInv, UnorderedIsStored
<1>3. k \in DOMAIN unordered => unordered[k] \in Offsets /\ off2str[unordered[k]].value = written[k]
  BY RecordsAre DEF IndexInv, StoreInv, UnorderedIsStored
<1> QED
  BY <1>1, <1>2, <1>3 DEF Agree

LEMMA ScanFinds ==
  ASSUME IndexInv, ScanInv, NEW c \in Clients, ScanOrdered(c), cpc'[c] # "failed"
  PROVE  ScanKnows(c)' /\ ScanShows(c)'
<1>1. TypeOK /\ StoreInv
  BY DEF IndexInv, StoreInv
<1>2. /\ cpc[c] = "scan"
      /\ UNCHANGED <<toPush, wpc, log, applied, raced, touched, written>>
  BY DEF ScanOrdered, queueVars, history
<1>3. PICK last \in Keys :
        /\ cpc' = [cpc EXCEPT ![c] = "found"]
        /\ scan' = [scan EXCEPT ![c].last = last,
                                ![c].found = [k \in Visited(c, last) |-> off2str[ordered[k]].value]]
  <2>1. PICK last \in Keys :
          LET visited == Visited(c, last)
              stored == \A k \in visited : ordered[k] \in DOMAIN off2str
          IN /\ cpc' = [cpc EXCEPT ![c] = IF stored THEN "found" ELSE "failed"]
             /\ scan' = IF stored
                        THEN [scan EXCEPT ![c].last = last,
                                ![c].found = [k \in visited |-> off2str[ordered[k]].value]]
                        ELSE scan
    BY DEF ScanOrdered
  <2>2. \A k \in Visited(c, last) : ordered[k] \in DOMAIN off2str
    BY <1>1, <2>1 DEF TypeOK
  <2> QED
    BY <2>1, <2>2
<1>4. /\ cpc'[c] = "found" /\ scan'[c].from = scan[c].from /\ scan'[c].last = last
      /\ scan'[c].found = [k \in Visited(c, last) |-> off2str[ordered[k]].value]
  <2> DEFINE found == [k \in Visited(c, last) |-> off2str[ordered[k]].value]
  <2>1. scan[c] \in [from : Keys \cup {0}, last : Keys \cup {0}, found : Partial(Keys, Values)]
    BY <1>1 DEF TypeOK
  <2>2. scan' = [scan EXCEPT ![c] = [[scan[c] EXCEPT !.last = last] EXCEPT !.found = found]]
    BY <1>3
  <2> HIDE DEF found
  <2>3. scan'[c] = [[scan[c] EXCEPT !.last = last] EXCEPT !.found = found]
    BY <1>1, <2>2 DEF TypeOK
  <2>4. scan'[c].from = scan[c].from /\ scan'[c].last = last /\ scan'[c].found = found
    BY <2>1, <2>3
  <2> QED
    BY <1>1, <1>3, <2>4 DEF TypeOK, found
<1>5. Writers' = Writers
  BY <1>1, <1>2, <1>3 DEF TypeOK, Writers
<1>6. ASSUME NEW k \in Keys \ (raced \cup touched[c])
      PROVE  /\ ~ WrittenNow(k)
             /\ scan[c].from <= k /\ k <= last =>
                  /\ k \in Visited(c, last) <=> k \in DOMAIN written
                  /\ k \in DOMAIN written => off2str[ordered[k]].value = written[k]
  <2>1. ~ WrittenNow(k) /\ \A s \in Shards : \A i \in Unapplied(s) : log[s][i].key # k
    BY <1>2, <1>6 DEF ScanInv, ScanKnows, Scanning
  <2> QED
    BY <1>6, <2>1, DrainedIsWritten DEF Visited
<1>7. ScanKnows(c)'
  BY <1>2, <1>4, <1>5, <1>6 DEF ScanKnows, WrittenNow
<1>8. ScanShows(c)'
  BY <1>2, <1>4, <1>6 DEF ScanShows
<1> QED
  BY <1>7, <1>8

LEMMA ScanInvStep ==
  ASSUME IndexInv, IndexInv', ScanInv, [Next]_vars
  PROVE  ScanInv'
<1>1. ASSUME NEW c \in Clients, NEW k \in Keys, Set(c, k) \/ Del(c, k) PROVE ScanInv'
  BY <1>1, ScanWrite
<1>2. ASSUME NEW c \in Clients, PushWrite(c) PROVE ScanInv'
  BY <1>2, ScanPush
<1>3. ASSUME NEW c \in Clients,
             \/ \E k \in Keys : Get(c, k) \/ ScanCall(c, k)
             \/ SliceRead(c) \/ ScanDrained(c) \/ ScanOrdered(c) \/ ScanReturn(c)
      PROVE  ScanInv'
  <2>1. \A d \in Clients \ {c} : ScanKnows(d)' /\ ScanShows(d)'
    BY <1>3, ScanOthersRead
  <2>2. ScanKnows(c)' /\ ScanShows(c)'
    <3>1. CASE \E k \in Keys : ScanCall(c, k)
      BY <3>1, ScanBegins
    <3>2. CASE ScanDrained(c)
      BY <3>2, ScanIsDrained
    <3>3. CASE ScanOrdered(c)
      <4>1. cpc'[c] # "failed"
        BY DEF IndexInv, StoreInv
      <4> QED
        BY <3>3, <4>1, ScanFinds
    <3>4. CASE (\E k \in Keys : Get(c, k)) \/ SliceRead(c) \/ ScanReturn(c)
      <4>1. cpc'[c] \in {"read", "idle"}
        BY <3>4 DEF Get, SliceRead, ScanReturn, IndexInv, StoreInv, TypeOK
      <4> QED
        BY <4>1 DEF ScanKnows, ScanShows, Scanning
    <3> QED
      BY <1>3, <3>1, <3>2, <3>3, <3>4
  <2> QED
    BY <2>1, <2>2 DEF ScanInv
<1>4. ASSUME NEW s \in Shards, WorkerStep(s) PROVE ScanInv'
  BY <1>4, ScanWork
<1>5. CASE UNCHANGED vars
  <2>1. /\ UNCHANGED <<cpc, toPush, target, scan, wpc, log, applied, written, raced, touched>>
        /\ Writers' = Writers
    BY <1>5 DEF vars, queueVars, clientVars, history, Writers
  <2>2. \A j \in Keys : NoNews(j)
    BY <2>1 DEF NoNews, WrittenNow, Unapplied
  <2>3. \A d \in Clients : ScanKnows(d)' /\ ScanShows(d)'
    BY <2>1, <2>2, ScanGoesOn DEF ScanInv
  <2> QED
    BY <2>3 DEF ScanInv
<1> QED
  BY <1>1, <1>2, <1>3, <1>4, <1>5 DEF Next, ClientStep

-----------------------------------------------------------------------------
(***************************************************************************)
(* What the store has freed.                                               *)
(***************************************************************************)
LEMMA FreeInit == Init => FreeInv
<1> SUFFICES ASSUME Init PROVE FreeInv
  OBVIOUS
<1>1. \A s \in Shards : Done(s) = {} /\ DOMAIN log[s] = {}
  <2>1. \A s \in Shards : log[s] = <<>> /\ Len(log[s]) = 0
    BY EmptySeq DEF Init, QueueInit
  <2>2. ASSUME NEW s \in Shards
        PROVE  DOMAIN log[s] = {} /\ 1 .. Len(log[s]) = {}
    <3>1. log[s] = <<>> /\ Len(log[s]) = 0
      BY <2>1, <2>2
    <3>2. DOMAIN log[s] = DOMAIN <<>>
      BY <3>1
    <3> QED
      BY <3>1, <3>2
  <2>3. \A s \in Shards : Done(s) = {}
    BY <2>2 DEF Done
  <2> QED
    BY <2>2, <2>3
<1>2. DOMAIN ordered = {}
  BY DEF Init, Empty
<1> QED
  BY <1>1, <1>2 DEF FreeInv, SetsAreDistinct, LastIsOrdered, FreedByNext

\* What a log is, and what of it has been applied.
LEMMA DoneIs ==
  ASSUME StoreInv, NEW s \in Shards
  PROVE  /\ DOMAIN log[s] = 1 .. Len(log[s])
         /\ Done(s) \subseteq DOMAIN log[s] /\ Done(s) \subseteq Nat
         /\ \A i \in Done(s), j \in Unapplied(s) : i < j
         /\ \A i \in DOMAIN log[s] : log[s][i] \in Messages /\ ShardOf[log[s][i]] = s
<1>1. /\ log[s] \in Seq(Messages)
      /\ Len(log[s]) \in Nat /\ applied[s] \in Nat
      /\ \A i \in 1 .. Len(log[s]) : log[s][i] \in Messages /\ ShardOf[log[s][i]] = s
  BY LogIs
<1>2. DOMAIN log[s] = 1 .. Len(log[s])
  BY <1>1, LenProperties
<1>3. \A i \in Done(s), j \in Unapplied(s) : i < j
  BY <1>1 DEF Done, Unapplied
<1> QED
  BY <1>1, <1>2, <1>3 DEF Done

\* A step that neither applies a message nor frees a value of one.
LEMMA FreeKept ==
  ASSUME LastIsOrdered, FreedByNext, ordered' = ordered,
         \A s \in Shards :
           /\ Done(s)' = Done(s)
           /\ \A i \in Done(s) :
                /\ log'[s][i] = log[s][i]
                /\ log[s][i].type = "kSet" =>
                     (log[s][i].offset \in DOMAIN off2str' <=> log[s][i].offset \in DOMAIN off2str)
  PROVE  LastIsOrdered' /\ FreedByNext'
<1>1. \A s \in Shards : \A i \in Done(s) : Latest(s, i)' <=> Latest(s, i)
  BY DEF Latest
<1>2. \A s \in Shards : \A i, j \in Done(s) : Follows(s, i, j)' <=> Follows(s, i, j)
  BY DEF Follows
<1>3. LastIsOrdered'
  BY <1>1 DEF LastIsOrdered, IsSetOf
<1>4. FreedByNext'
  BY <1>1, <1>2 DEF FreedByNext
<1> QED
  BY <1>3, <1>4

LEMMA FreeWrite ==
  ASSUME StoreInv, FreeInv, NEW c \in Clients, NEW k \in Keys, Set(c, k) \/ Del(c, k)
  PROVE  FreeInv'
<1>1. /\ Writers' = Writers \cup {c}
      /\ \A d \in Writers : toPush'[d] = toPush[d]
      /\ \A s \in Shards : Unapplied(s)' = Unapplied(s)
      /\ log' = log /\ ordered' = ordered
  BY WriteIs
<1>2. \A s \in Shards : Done(s)' = Done(s)
  BY <1>1 DEF Done
<1>3. offset \in Nat
  BY MaxSetsAssumption DEF StoreInv, TypeOK
<1>4. /\ offset' \in Nat /\ offset <= offset'
      /\ \A o \in Offsets : IsSetOf(toPush'[c], o) => offset <= o
      /\ \A o : o # offset => (o \in DOMAIN off2str' <=> o \in DOMAIN off2str)
  <2>1. CASE Set(c, k)
    <3>1. toPush'[c] = SetMessage(k, offset) /\ offset' = offset + 1
      BY <2>1, WriteIs DEF Set, UnorderedSet
    <3>2. \E r : off2str' = With(off2str, offset, r)
      BY <2>1 DEF Set, UnorderedSet
    <3>3. \A o : o # offset => (o \in DOMAIN off2str' <=> o \in DOMAIN off2str)
      BY <3>2 DEF With
    <3> QED
      BY <1>3, <3>1, <3>3 DEF IsSetOf, SetMessage
  <2>2. CASE Del(c, k)
    <3>1. toPush'[c] = DelMessage(k) /\ UNCHANGED <<offset, off2str>>
      BY <2>2, WriteIs DEF Del, UnorderedDel
    <3> QED
      BY <1>3, <3>1 DEF IsSetOf, DelMessage
  <2> QED
    BY <2>1, <2>2
<1>5. SetsAreDistinct'
  <2> SUFFICES ASSUME NEW o \in Offsets, NEW s \in Shards, NEW i \in DOMAIN log[s],
                      IsSetOf(log[s][i], o)
               PROVE  /\ o < offset'
                      /\ \A d \in Writers' : ~ IsSetOf(toPush'[d], o)
                      /\ \A u \in Shards : \A j \in DOMAIN log[u] :
                           IsSetOf(log[u][j], o) => u = s /\ j = i
    BY <1>1 DEF SetsAreDistinct, IsSetOf
  <2>1. /\ o < offset
        /\ \A d \in Writers : ~ IsSetOf(toPush[d], o)
        /\ \A u \in Shards : \A j \in DOMAIN log[u] : IsSetOf(log[u][j], o) => u = s /\ j = i
    BY DEF FreeInv, SetsAreDistinct
  <2>2. o \in Int
    BY DEF Offsets
  <2>3. ~ IsSetOf(toPush'[c], o)
    BY <1>3, <1>4, <2>1, <2>2
  <2> QED
    BY <1>1, <1>3, <1>4, <2>1, <2>2, <2>3 DEF IsSetOf
<1>6. ASSUME NEW s \in Shards, NEW i \in Done(s), log[s][i].type = "kSet"
      PROVE  log[s][i].offset # offset
  <2>1. i \in DOMAIN log[s] /\ log[s][i] \in Messages
    BY <1>6, DoneIs
  <2>2. log[s][i].offset \in Offsets /\ IsSetOf(log[s][i], log[s][i].offset)
    BY <1>6, <2>1, MessageIs DEF IsSetOf
  <2>3. log[s][i].offset < offset
    BY <2>1, <2>2 DEF FreeInv, SetsAreDistinct
  <2>4. log[s][i].offset \in Int
    BY <2>2 DEF Offsets
  <2> QED
    BY <1>3, <2>3, <2>4
<1> QED
  BY <1>1, <1>2, <1>4, <1>5, <1>6, FreeKept DEF FreeInv

LEMMA FreePush ==
  ASSUME StoreInv, FreeInv, NEW c \in Clients, PushWrite(c)
  PROVE  FreeInv'
<1>1. PICK m \in Messages, s0 \in Shards, n \in Nat :
        /\ m = toPush[c] /\ s0 = ShardOf[m] /\ n = Len(log[s0]) + 1
        /\ c \in Writers /\ Writers' = Writers \ {c}
        /\ \A d \in Writers' : toPush'[d] = toPush[d]
  <2>1. PICK m \in Messages, s0 \in Shards :
          /\ m = toPush[c] /\ s0 = ShardOf[m]
          /\ c \in Writers /\ Writers' = Writers \ {c}
          /\ \A d \in Writers' : toPush'[d] = toPush[d]
    BY PushIs
  <2>2. Len(log[s0]) + 1 \in Nat
    BY LogIs
  <2> QED
    BY <2>1, <2>2
<1>2. /\ log' = [log EXCEPT ![s0] = Append(log[s0], m)]
      /\ UNCHANGED <<applied, wpc, off2str, offset, ordered>>
  BY <1>1 DEF PushWrite, Push, storeVars, indexVars
<1>3. \A s \in Shards : s # s0 => log'[s] = log[s]
  BY <1>2 DEF StoreInv, TypeOK, QueueTypeOK
<1>4. /\ Len(log'[s0]) = n /\ log'[s0][n] = m /\ DOMAIN log'[s0] = DOMAIN log[s0] \cup {n}
      /\ \A i \in DOMAIN log[s0] : log'[s0][i] = log[s0][i]
      /\ Len(log[s0]) \in Nat
  <2>1. log'[s0] = Append(log[s0], m) /\ log[s0] \in Seq(Messages)
    BY <1>2, LogIs DEF StoreInv, TypeOK, QueueTypeOK
  <2> HIDE DEF StoreInv
  <2> QED
    BY <1>1, <2>1, AppendProperties
<1>5. \A s \in Shards : Done(s)' = Done(s)
  <2>1. ASSUME NEW s \in Shards, s # s0 PROVE Done(s)' = Done(s)
    BY <1>2, <1>3, <2>1 DEF Done, Unapplied
  <2>2. Done(s0)' = Done(s0)
    <3>1. /\ applied[s0] \in Nat /\ applied[s0] <= Len(log[s0])
          /\ wpc[s0] = "pop" => applied[s0] < Len(log[s0])
      BY LogIs
    <3>2. applied[s0] + (IF wpc[s0] = "pop" THEN 2 ELSE 1) \in Nat
          /\ applied[s0] + (IF wpc[s0] = "pop" THEN 2 ELSE 1) <= n
      BY <1>1, <1>4, <3>1
    <3> QED
      BY <1>1, <1>2, <1>4, <3>2 DEF Done, Unapplied
  <2> QED
    BY <2>1, <2>2
<1>6. \A s \in Shards : \A i \in DOMAIN log[s] : i \in DOMAIN log'[s] /\ log'[s][i] = log[s][i]
  BY <1>3, <1>4
<1>7. \A s \in Shards : \A i \in DOMAIN log'[s] : i \in DOMAIN log[s] \/ (s = s0 /\ i = n)
  BY <1>3, <1>4
<1>8. SetsAreDistinct'
  <2> SUFFICES ASSUME NEW o \in Offsets, NEW s \in Shards, NEW i \in DOMAIN log'[s],
                      IsSetOf(log'[s][i], o)
               PROVE  /\ o < offset'
                      /\ \A d \in Writers' : ~ IsSetOf(toPush'[d], o)
                      /\ \A u \in Shards : \A j \in DOMAIN log'[u] :
                           IsSetOf(log'[u][j], o) => u = s /\ j = i
    BY DEF SetsAreDistinct, IsSetOf
  <2>1. \A u \in Shards : \A j \in DOMAIN log[u] :
          ~ (IsSetOf(m, o) /\ IsSetOf(log[u][j], o))
    BY <1>1 DEF FreeInv, SetsAreDistinct
  <2>2. CASE i \in DOMAIN log[s]
    <3>1. /\ o < offset
          /\ \A d \in Writers : ~ IsSetOf(toPush[d], o)
          /\ \A u \in Shards : \A j \in DOMAIN log[u] : IsSetOf(log[u][j], o) => u = s /\ j = i
      BY <1>6, <2>2 DEF FreeInv, SetsAreDistinct
    <3>2. ~ IsSetOf(m, o)
      BY <1>6, <2>1, <2>2
    <3>3. \A d \in Writers' : ~ IsSetOf(toPush'[d], o)
      BY <1>1, <3>1
    <3>4. ASSUME NEW u \in Shards, NEW j \in DOMAIN log'[u], IsSetOf(log'[u][j], o)
          PROVE  u = s /\ j = i
      BY <1>4, <1>6, <1>7, <3>1, <3>2, <3>4
    <3> QED
      BY <1>2, <3>1, <3>3, <3>4
  <2>3. CASE s = s0 /\ i = n
    <3>1. IsSetOf(m, o)
      BY <1>4, <2>3
    <3>2. o < offset
      BY <1>1, <3>1 DEF StoreInv, OffsetsOnTheWay, Carried, StoreHas, IsSetOf
    <3>3. \A d \in Writers' : ~ IsSetOf(toPush'[d], o)
      BY <1>1, <3>1 DEF StoreInv, OffsetsOnTheWay
    <3>4. ASSUME NEW u \in Shards, NEW j \in DOMAIN log'[u], IsSetOf(log'[u][j], o)
          PROVE  u = s /\ j = i
      BY <1>6, <1>7, <2>1, <2>3, <3>1, <3>4
    <3> QED
      BY <1>2, <3>2, <3>3, <3>4
  <2> QED
    BY <1>7, <2>2, <2>3
<1>9. \A s \in Shards : Done(s) \subseteq DOMAIN log[s]
  BY DoneIs
<1> QED
  BY <1>2, <1>5, <1>6, <1>8, <1>9, FreeKept DEF FreeInv

\* The message that is applied is the last that has come to the ordered index.
LEMMA ApplyDone ==
  ASSUME StoreInv, NEW s \in Shards, WorkerSet(s) \/ WorkerDel(s)
  PROVE  \E m \in Messages, n \in Nat :
           /\ m = Peeked(s) /\ m = log[s][n]
           /\ n \in DOMAIN log[s] /\ n \in Unapplied(s)
           /\ Done(s)' = Done(s) \cup {n}
           /\ \A i \in Done(s) : i < n
           /\ \A u \in Shards : u # s => Done(u)' = Done(u)
           /\ UNCHANGED <<log, toPush, offset>> /\ Writers' = Writers
<1>1. wpc[s] = "apply" /\ UNCHANGED <<queueVars, cpc, toPush, offset, log>>
  BY DEF WorkerSet, WorkerDel, clientVars, storeVars, queueVars
<1>2. wpc' = [wpc EXCEPT ![s] = "pop"]
  <2>1. \A k \in DOMAIN ordered : ordered[k] \in DOMAIN off2str
    BY RecordsAre DEF StoreInv, OrderedIsStored, StoreHas
  <2> QED
    BY <2>1 DEF WorkerSet, WorkerDel
<1>3. PICK m \in Messages, n \in Nat :
        /\ m = Peeked(s) /\ m = log[s][n]
        /\ n \in Unapplied(s) /\ n \notin Unapplied(s)'
        /\ \A u \in Shards : \A i : i \in Unapplied(u)' <=> i \in Unapplied(u) /\ ~ (u = s /\ i = n)
  BY <1>1, <1>2, ApplyIs
<1>4. n \in 1 .. Len(log[s])
  BY <1>3, LogIs
<1>5. Done(s)' = Done(s) \cup {n} /\ \A u \in Shards : u # s => Done(u)' = Done(u)
  BY <1>1, <1>3, <1>4 DEF Done
<1>6. n \in DOMAIN log[s] /\ \A i \in Done(s) : i < n
  BY <1>3, <1>4, DoneIs
<1>7. Writers' = Writers
  BY <1>1 DEF Writers
<1> QED
  BY <1>1, <1>3, <1>5, <1>6, <1>7

\* What a message that is applied does to the ordered index and the store.
LEMMA ApplyEffect ==
  ASSUME StoreInv, NEW s \in Shards, WorkerSet(s) \/ WorkerDel(s),
         NEW m \in Messages, m = Peeked(s), NEW k \in Keys, k = m.key
  PROVE  /\ \A i : i # k => (i \in DOMAIN ordered' <=> i \in DOMAIN ordered)
         /\ \A i \in DOMAIN ordered : i # k => ordered'[i] = ordered[i]
         /\ m.type = "kSet" => k \in DOMAIN ordered' /\ ordered'[k] = m.offset /\ off2str' = off2str
         /\ m.type = "kDel" =>
              /\ k \notin DOMAIN ordered'
              /\ k \notin DOMAIN ordered => off2str' = off2str
              /\ k \in DOMAIN ordered => DOMAIN off2str' = DOMAIN off2str \ {ordered[k]}
<1>1. CASE WorkerSet(s)
  <2>1. m.type = "kSet" /\ ordered' = With(ordered, k, m.offset) /\ off2str' = off2str
    BY <1>1 DEF WorkerSet, OrderedSet, storeVars
  <2> QED
    BY <2>1 DEF With
<1>2. CASE WorkerDel(s)
  <2>1. m.type = "kDel" /\ \A i \in DOMAIN ordered : ordered[i] \in DOMAIN off2str
    BY <1>2, RecordsAre DEF WorkerDel, StoreInv, OrderedIsStored, StoreHas
  <2>2. \/ k \notin DOMAIN ordered /\ ordered' = ordered /\ off2str' = off2str
        \/ /\ k \in DOMAIN ordered
           /\ ordered' = Without(ordered, k)
           /\ off2str' = Without(off2str, ordered[k])
    BY <1>2, <2>1 DEF WorkerDel, OrderedErase
  <2>3. CASE k \notin DOMAIN ordered /\ ordered' = ordered /\ off2str' = off2str
    BY <2>1, <2>3
  <2>4. CASE k \in DOMAIN ordered /\ ordered' = Without(ordered, k)
             /\ off2str' = Without(off2str, ordered[k])
    <3>1. DOMAIN ordered' = DOMAIN ordered \ {k}
      BY <2>4, WithoutIs
    <3>2. \A i \in DOMAIN ordered \ {k} : ordered'[i] = ordered[i]
      BY <2>4 DEF Without, Restrict
    <3>3. DOMAIN off2str' = DOMAIN off2str \ {ordered[k]}
      BY <2>4, WithoutIs
    <3> QED
      BY <2>1, <2>4, <3>1, <3>2, <3>3
  <2> QED
    BY <2>2, <2>3, <2>4
<1> QED
  BY <1>1, <1>2

\* A write that is applied comes next after the last of its key: a Del frees
\* that one's value and no other, a Set frees nothing.
LEMMA FreeApply ==
  ASSUME StoreInv, FreeInv, NEW s \in Shards, WorkerSet(s) \/ WorkerDel(s)
  PROVE  FreeInv'
<1>1. PICK m \in Messages, n \in Nat :
        /\ m = Peeked(s) /\ m = log[s][n]
        /\ n \in DOMAIN log[s] /\ n \in Unapplied(s)
        /\ Done(s)' = Done(s) \cup {n}
        /\ \A i \in Done(s) : i < n
        /\ \A u \in Shards : u # s => Done(u)' = Done(u)
        /\ UNCHANGED <<log, toPush, offset>> /\ Writers' = Writers
  BY ApplyDone
<1>2. PICK k \in Keys : k = m.key
  BY MessageIs
<1>3. /\ \A i : i # k => (i \in DOMAIN ordered' <=> i \in DOMAIN ordered)
      /\ \A i \in DOMAIN ordered : i # k => ordered'[i] = ordered[i]
      /\ m.type = "kSet" => k \in DOMAIN ordered' /\ ordered'[k] = m.offset /\ off2str' = off2str
      /\ m.type = "kDel" =>
           /\ k \notin DOMAIN ordered'
           /\ k \notin DOMAIN ordered => off2str' = off2str
           /\ k \in DOMAIN ordered => DOMAIN off2str' = DOMAIN off2str \ {ordered[k]}
  BY <1>1, <1>2, ApplyEffect
<1>4. m.type \in {"kSet", "kDel"} /\ (m.type = "kSet" => m.offset \in Offsets)
  BY MessageIs
<1>5. \A u \in Shards : /\ Done(u) \subseteq DOMAIN log[u] /\ Done(u) \subseteq Nat
                        /\ \A i \in DOMAIN log[u] : log[u][i] \in Messages /\ ShardOf[log[u][i]] = u
  BY DoneIs
<1>6. \A u \in Shards : \A i \in DOMAIN log[u] : log[u][i].key = k => u = s
  BY <1>1, <1>2, <1>5, ShardOfKeyAssumption
<1>7. SetsAreDistinct'
  BY <1>1 DEF FreeInv, SetsAreDistinct, IsSetOf
<1>8. ASSUME NEW u \in Shards, NEW i \in Done(u), Latest(u, i), log[u][i].key # k
      PROVE  i \in Done(u)' /\ Latest(u, i)'
  BY <1>1, <1>2, <1>8 DEF Latest
<1>9. n \in Done(s)' /\ Latest(s, n)'
  <2>1. \A j \in Done(s)' : ~ (n < j)
    BY <1>1, <1>5
  <2> QED
    BY <1>1, <2>1 DEF Latest
<1>10. ASSUME NEW u \in Shards, NEW i \in Done(u), NEW j \in Done(u), Follows(u, i, j)
       PROVE  j \in Done(u)' /\ Follows(u, i, j)'
  <2>1. u = s => j <= n
    BY <1>1, <1>5
  <2> QED
    BY <1>1, <1>10, <2>1 DEF Follows
<1>11. ASSUME NEW i \in Done(s), Latest(s, i), log[s][i].key = k
       PROVE  Follows(s, i, n)'
  BY <1>1, <1>2, <1>5, <1>11 DEF Latest, Follows
<1>12. LastIsOrdered'
  <2>1. ASSUME NEW u \in Shards, NEW i \in Done(u)', Latest(u, i)', log[u][i].type = "kSet"
        PROVE  log[u][i].key \in DOMAIN ordered' /\ ordered'[log[u][i].key] = log[u][i].offset
    <3>1. CASE u = s /\ i = n
      BY <1>1, <1>2, <1>3, <2>1, <3>1
    <3>2. CASE i \in Done(u)
      <4>1. Latest(u, i)
        BY <1>1, <2>1, <3>2 DEF Latest
      <4>2. log[u][i].key # k
        <5>1. SUFFICES ASSUME log[u][i].key = k PROVE FALSE
          OBVIOUS
        <5>2. u = s /\ i < n
          BY <1>1, <1>5, <1>6, <3>2, <5>1
        <5> QED
          BY <1>1, <1>2, <1>9, <2>1, <5>1, <5>2 DEF Latest
      <4>3. log[u][i].key \in DOMAIN ordered /\ ordered[log[u][i].key] = log[u][i].offset
        BY <2>1, <3>2, <4>1 DEF FreeInv, LastIsOrdered
      <4> QED
        BY <1>3, <4>2, <4>3
    <3> QED
      BY <1>1, <3>1, <3>2
  <2>2. ASSUME NEW x \in DOMAIN ordered'
        PROVE  \E u \in Shards : \E i \in Done(u)' :
                 Latest(u, i)' /\ log[u][i].key = x /\ IsSetOf(log[u][i], ordered'[x])
    <3>1. CASE x = k
      <4>1. m.type = "kSet" /\ ordered'[k] = m.offset
        BY <1>3, <1>4, <2>2, <3>1
      <4>2. IsSetOf(log[s][n], ordered'[x]) /\ log[s][n].key = x
        BY <1>1, <1>2, <3>1, <4>1 DEF IsSetOf
      <4> QED
        BY <1>9, <4>2
    <3>2. CASE x # k
      <4>1. x \in DOMAIN ordered /\ ordered'[x] = ordered[x]
        BY <1>3, <2>2, <3>2
      <4>2. PICK u \in Shards : \E i \in Done(u) :
              Latest(u, i) /\ log[u][i].key = x /\ IsSetOf(log[u][i], ordered[x])
        BY <4>1 DEF FreeInv, LastIsOrdered
      <4>3. PICK i \in Done(u) :
              Latest(u, i) /\ log[u][i].key = x /\ IsSetOf(log[u][i], ordered[x])
        BY <4>2
      <4>4. i \in Done(u)' /\ Latest(u, i)'
        BY <1>8, <3>2, <4>3
      <4> QED
        BY <4>1, <4>3, <4>4
    <3> QED
      BY <3>1, <3>2
  <2> QED
    BY <1>1, <2>1, <2>2 DEF LastIsOrdered, IsSetOf
<1>13. FreedByNext'
  <2> SUFFICES ASSUME NEW u \in Shards, NEW i \in Done(u)'
               PROVE  \/ Latest(u, i)'
                      \/ \E j \in Done(u)' :
                           /\ Follows(u, i, j)'
                           /\ log[u][i].type = "kSet" =>
                                (log[u][i].offset \notin DOMAIN off2str' <=> log[u][j].type = "kDel")
    BY <1>1 DEF FreedByNext
  <2>1. CASE u = s /\ i = n
    BY <1>9, <2>1
  <2>2. CASE i \in Done(u) /\ Latest(u, i) /\ log[u][i].key # k
    BY <1>8, <2>2
  <2>3. CASE i \in Done(u) /\ Latest(u, i) /\ log[u][i].key = k
    <3>1. u = s
      BY <1>5, <1>6, <2>3
    <3>2. Follows(u, i, n)' /\ n \in Done(u)'
      BY <1>9, <1>11, <2>3, <3>1
    <3>3. ASSUME log[u][i].type = "kSet"
          PROVE  log[u][i].offset \notin DOMAIN off2str' <=> log[u][n].type = "kDel"
      <4>1. k \in DOMAIN ordered /\ ordered[k] = log[u][i].offset
        BY <2>3, <3>3 DEF FreeInv, LastIsOrdered
      <4>2. ordered[k] \in DOMAIN off2str
        BY <4>1, RecordsAre DEF StoreInv, OrderedIsStored, StoreHas
      <4> QED
        BY <1>1, <1>3, <1>4, <3>1, <4>1, <4>2
    <3> QED
      BY <3>2, <3>3
  <2>4. CASE i \in Done(u) /\ ~ Latest(u, i)
    <3>1. PICK j \in Done(u) :
            /\ Follows(u, i, j)
            /\ log[u][i].type = "kSet" =>
                 (log[u][i].offset \notin DOMAIN off2str <=> log[u][j].type = "kDel")
      BY <2>4 DEF FreeInv, FreedByNext
    <3>2. j \in Done(u)' /\ Follows(u, i, j)'
      BY <1>10, <2>4, <3>1
    <3>3. ASSUME log[u][i].type = "kSet"
          PROVE  log[u][i].offset \in DOMAIN off2str' <=> log[u][i].offset \in DOMAIN off2str
      <4>1. CASE m.type = "kDel" /\ k \in DOMAIN ordered
        <5>1. log[u][i].offset # ordered[k]
          <6>1. SUFFICES ASSUME log[u][i].offset = ordered[k] PROVE FALSE
            OBVIOUS
          <6>2. PICK u2 \in Shards : \E i2 \in Done(u2) :
                  Latest(u2, i2) /\ IsSetOf(log[u2][i2], ordered[k])
            BY <4>1 DEF FreeInv, LastIsOrdered
          <6>3. PICK i2 \in Done(u2) : Latest(u2, i2) /\ IsSetOf(log[u2][i2], ordered[k])
            BY <6>2
          <6>4. ordered[k] \in Offsets
            BY <4>1, RecordsAre DEF StoreInv
          <6>5. IsSetOf(log[u][i], ordered[k])
            BY <3>3, <6>1 DEF IsSetOf
          <6>6. u2 = u /\ i2 = i
            BY <1>5, <2>4, <6>3, <6>4, <6>5 DEF FreeInv, SetsAreDistinct
          <6> QED
            BY <2>4, <6>3, <6>6
        <5> QED
          BY <1>3, <4>1, <5>1
      <4>2. CASE m.type = "kSet" \/ k \notin DOMAIN ordered
        BY <1>3, <1>4, <4>2
      <4> QED
        BY <1>4, <4>1, <4>2
    <3> QED
      BY <3>1, <3>2, <3>3
  <2> QED
    BY <1>1, <2>1, <2>2, <2>3, <2>4
<1> QED
  BY <1>7, <1>12, <1>13 DEF FreeInv

LEMMA FreeStep ==
  ASSUME StoreInv, FreeInv, [Next]_vars
  PROVE  FreeInv'
<1>1. ASSUME NEW c \in Clients, NEW k \in Keys, Set(c, k) \/ Del(c, k) PROVE FreeInv'
  BY <1>1, FreeWrite
<1>2. ASSUME NEW c \in Clients, PushWrite(c) PROVE FreeInv'
  BY <1>2, FreePush
<1>3. ASSUME NEW s \in Shards, WorkerSet(s) \/ WorkerDel(s) PROVE FreeInv'
  BY <1>3, FreeApply
<1>4. ASSUME UNCHANGED <<off2str, offset, ordered, log, toPush>>, Writers' = Writers,
             \A s \in Shards : Unapplied(s)' = Unapplied(s)
      PROVE  FreeInv'
  <2>1. \A s \in Shards : Done(s)' = Done(s)
    BY <1>4 DEF Done
  <2>2. SetsAreDistinct'
    BY <1>4 DEF FreeInv, SetsAreDistinct, IsSetOf
  <2> QED
    BY <1>4, <2>1, <2>2, FreeKept DEF FreeInv
<1>5. ASSUME NEW c \in Clients,
             \/ \E k \in Keys : Get(c, k) \/ ScanCall(c, k)
             \/ SliceRead(c) \/ ScanDrained(c) \/ ScanOrdered(c) \/ ScanReturn(c)
      PROVE  FreeInv'
  <2>1. UNCHANGED <<off2str, offset, ordered, toPush, wpc, log, applied>>
    BY <1>5 DEF Get, ScanCall, StartScan, WaitDrainCall, WaitDrainReturn, SliceRead, ScanDrained,
           ScanOrdered, ScanReturn, storeVars, indexVars, queueVars
  <2>2. Writers' = Writers
    BY <1>5 DEF StoreInv, TypeOK, Get, ScanCall, StartScan, SliceRead, ScanDrained,
           ScanOrdered, ScanReturn, Writers
  <2>3. \A s \in Shards : Unapplied(s)' = Unapplied(s)
    BY <2>1 DEF Unapplied
  <2> QED
    BY <1>4, <2>1, <2>2, <2>3
<1>6. ASSUME NEW s \in Shards, WorkerPeek(s) \/ WorkerPop(s) PROVE FreeInv'
  <2>1. UNCHANGED <<off2str, offset, ordered, toPush, log>> /\ Writers' = Writers
    BY <1>6 DEF WorkerPeek, WorkerPop, Pop, queueVars, storeVars, indexVars, clientVars, Writers
  <2>2. \A u \in Shards : Unapplied(u)' = Unapplied(u)
    BY <1>6, PeekPopKeeps
  <2> QED
    BY <1>4, <2>1, <2>2
<1>7. CASE UNCHANGED vars
  <2>1. /\ UNCHANGED <<off2str, offset, ordered, toPush, log, wpc, applied>>
        /\ Writers' = Writers
    BY <1>7 DEF vars, queueVars, storeVars, indexVars, clientVars, Writers
  <2>2. \A s \in Shards : Unapplied(s)' = Unapplied(s)
    BY <2>1 DEF Unapplied
  <2> QED
    BY <1>4, <2>1, <2>2
<1> QED
  BY <1>1, <1>2, <1>3, <1>5, <1>6, <1>7 DEF Next, ClientStep, WorkerStep

-----------------------------------------------------------------------------
(***************************************************************************)
(* The theorems.                                                           *)
(***************************************************************************)

\* What a Scan may rely on, and what the ordered index and the store hold of
\* every write that has come there, for any number of clients and shards
\* (open_hikv.cpp:40-58, plain_ordered_index_impl.cpp:5-22).
THEOREM Invariant == Spec => []IInv
<1>1. IInv <=> IndexInv /\ ScanInv /\ FreeInv
  BY DEF IInv, ScanInv, ScanShows, ScanSeesEarlierWrites
<1>2. Init => IInv
  BY <1>1, InvInit, ScanInvInit, FreeInit
<1>3. IInv /\ [Next]_vars => IInv'
  <2>1. ASSUME IndexInv, ScanInv, FreeInv, [Next]_vars
        PROVE  IndexInv' /\ ScanInv' /\ FreeInv'
    <3>1. IndexInv' /\ StoreInv
      BY <2>1, InvStep DEF IndexInv
    <3> QED
      BY <2>1, <3>1, ScanInvStep, FreeStep
  <2>2. IndexInv' /\ ScanInv' /\ FreeInv' => IInv'
    BY DEF IInv, ScanInv, ScanShows, ScanSeesEarlierWrites
  <2> QED
    BY <1>1, <2>1, <2>2
<1>4. Spec => Init /\ [][Next]_vars
  BY DEF Spec, SafetySpec
<1> QED
  BY <1>2, <1>3, <1>4, PTL

\* A Scan shows its caller every write that had returned before it was called,
\* of all clients and of every key that nobody writes meanwhile
\* (open_hikv.cpp:40-58; commented out in test/open_hikv_test.cpp:60-74).
THEOREM ScanIsCurrent == Spec => []ScanSeesEarlierWrites
<1>1. IInv => ScanSeesEarlierWrites
  BY DEF IInv
<1> QED
  BY <1>1, Invariant, PTL

\* When the queue is drained a value is gone exactly if a Del of its key was
\* pushed next after it (plain_ordered_index_impl.cpp:5-22).
THEOREM OnlyDelsFree == Spec => []OnlyDelsFreeTheStore
<1>1. IInv => OnlyDelsFreeTheStore
  <2> SUFFICES ASSUME IInv, Quiescent, NEW s \in Shards, NEW i \in DOMAIN log[s],
                      log[s][i].type = "kSet"
               PROVE  log[s][i].offset \notin DOMAIN off2str <=> NextWrite(s, i) = "kDel"
    BY DEF OnlyDelsFreeTheStore
  <2> DEFINE later == {j \in i + 1 .. Len(log[s]) : log[s][j].key = log[s][i].key}
  <2>1. StoreInv /\ FreeInv
    BY DEF IInv, IndexInv
  <2>2. /\ Len(log[s]) \in Nat /\ DOMAIN log[s] = 1 .. Len(log[s])
        /\ applied[s] \in Nat /\ applied[s] <= Len(log[s])
        /\ log[s][i] \in Messages
    BY <2>1, LogIs, DoneIs
  <2>3. Done(s) = DOMAIN log[s]
    <3>1. ~ (applied[s] < Len(log[s]))
      BY DEF Quiescent, CanPeek
    <3>2. Unapplied(s) = {}
      BY <2>2, <3>1 DEF Unapplied
    <3> QED
      BY <2>2, <3>2 DEF Done
  <2>4. NextWrite(s, i) = IF later = {} THEN "none"
                          ELSE log[s][CHOOSE j \in later : \A l \in later : j <= l].type
    BY DEF NextWrite
  <2>5. CASE Latest(s, i)
    <3>1. later = {}
      BY <2>2, <2>3, <2>5 DEF Latest
    <3>2. NextWrite(s, i) = "none"
      BY <2>4, <3>1
    <3>3. log[s][i].key \in DOMAIN ordered /\ ordered[log[s][i].key] = log[s][i].offset
      BY <2>1, <2>3, <2>5 DEF FreeInv, LastIsOrdered
    <3>4. log[s][i].offset \in DOMAIN off2str
      BY <2>1, <3>3, RecordsAre DEF StoreInv, OrderedIsStored, StoreHas
    <3> QED
      BY <3>2, <3>4
  <2>6. CASE ~ Latest(s, i)
    <3>1. PICK j \in Done(s) :
            /\ Follows(s, i, j)
            /\ log[s][i].offset \notin DOMAIN off2str <=> log[s][j].type = "kDel"
      BY <2>1, <2>3, <2>6 DEF FreeInv, FreedByNext
    <3>2. j \in later /\ \A l \in later : j <= l
      BY <2>2, <2>3, <3>1 DEF Follows
    <3>3. \A x \in later : (\A l \in later : x <= l) => x = j
      BY <2>2, <3>2
    <3> HIDE DEF later
    <3>4. (CHOOSE x \in later : \A l \in later : x <= l) = j
      BY <3>2, <3>3
    <3>5. NextWrite(s, i) = log[s][j].type
      BY <2>4, <3>2, <3>4
    <3> QED
      BY <3>1, <3>5
  <2> QED
    BY <2>5, <2>6
<1> QED
  BY <1>1, Invariant, PTL
=============================================================================
