---------------------- MODULE PmemMessageQueueProofs ----------------------
(***************************************************************************)
(* Proofs about PmemMessageQueue for every number of units, drainers and   *)
(* messages.                                                               *)
(***************************************************************************)
EXTENDS PmemMessageQueue, SequenceTheorems, WellFoundedInduction, TLAPS

(***************************************************************************)
(* Numbers: remainders, for the counter that chooses a unit.               *)
(***************************************************************************)
\* Quotient and remainder are what they are taken for.
LEMMA DivisionIs ==
  ASSUME NEW b \in Nat \ {0}, NEW r \in 0 .. b - 1, NEW a \in Int,
         NEW q \in Int, a = q * b + r
  PROVE  a % b = r /\ a \div b = q
<1>1. PICK p \in Int, t \in Int : p = a \div b /\ t = a % b
  OBVIOUS
<1>2. a = p * b + t /\ t \in 0 .. b - 1
  BY <1>1
<1>3. p = q
  <2>1. (p - q) * b = r - t
    BY <1>2
  <2>2. CASE p - q >= 1
    <3>1. (p - q) * b >= b
      BY <2>2
    <3> QED
      BY <1>2, <2>1, <3>1
  <2>3. CASE q - p >= 1
    <3>1. (q - p) * b >= b
      BY <2>3
    <3>2. (q - p) * b = t - r
      BY <1>2
    <3> QED
      BY <1>2, <3>1, <3>2
  <2> QED
    BY <2>2, <2>3
<1> QED
  BY <1>1, <1>2, <1>3

LEMMA RemainderIs ==
  ASSUME NEW b \in Nat \ {0}, NEW r \in 0 .. b - 1, NEW a \in Int,
         \E q \in Int : a = q * b + r
  PROVE  a % b = r
<1>1. PICK q \in Int : a = q * b + r
  OBVIOUS
<1> QED
  BY <1>1, DivisionIs

LEMMA QuotientIs ==
  ASSUME NEW b \in Nat \ {0}, NEW a \in Int
  PROVE  \E p \in Int, t \in 0 .. b - 1 : a = p * b + t /\ t = a % b
<1>1. PICK p \in Int, t \in Int : p = a \div b /\ t = a % b
  OBVIOUS
<1>2. a = p * b + t /\ t \in 0 .. b - 1
  BY <1>1
<1> QED
  BY <1>1, <1>2

LEMMA RemainderSum ==
  ASSUME NEW b \in Nat \ {0}, NEW a \in Int, NEW c \in Int,
         \E q \in Int : c = q * b + a
  PROVE  c % b = a % b
<1>1. PICK p \in Int, t \in 0 .. b - 1 : a = p * b + t /\ t = a % b
  BY QuotientIs
<1>2. PICK q \in Int : c = q * b + a
  OBVIOUS
<1>3. \E k \in Int : c = k * b + t
  <2>1. q + p \in Int /\ c = (q + p) * b + t
    BY <1>1, <1>2
  <2> QED
    BY <2>1
<1>4. c % b = t
  BY <1>3, RemainderIs
<1> QED
  BY <1>1, <1>4

\* A non-empty set of naturals has a smallest element.
LEMMA SmallestNat ==
  ASSUME NEW T, T \subseteq Nat, T # {}
  PROVE  \E x \in T : \A y \in T : x <= y
<1>1. PICK x \in T : \A y \in T : ~ (<<y, x>> \in OpToRel(<, Nat))
  BY NatLessThanWellFounded, WFMin, Zenon
<1>2. \A y \in T : ~ (y < x)
  BY <1>1 DEF OpToRel
<1> QED
  BY <1>2

(***************************************************************************)
(* Sequences and MayConsumeNotifyMessages.                                 *)
(***************************************************************************)

\* The first entry that is not a kNotify exists, or every entry is one.
LEMMA FirstRealIsFirst ==
  ASSUME NEW q \in Seq(Entry)
  PROVE  /\ FirstReal(q) \in 1 .. Len(q) + 1
         /\ \A i \in 1 .. FirstReal(q) - 1 : IsNotify(q[i])
         /\ FirstReal(q) <= Len(q) => ~ IsNotify(q[FirstReal(q)])
<1> DEFINE Stop(n) == n <= Len(q) => ~ IsNotify(q[n])
           T == {n \in 1 .. Len(q) + 1 : Stop(n)}
<1>1. Len(q) + 1 \in T /\ T \subseteq Nat
  BY LenProperties
<1>2. PICK n \in T : \A y \in T : n <= y
  <2> HIDE DEF T
  <2>1. T # {}
    BY <1>1
  <2> QED
    BY <1>1, <2>1, SmallestNat
<1>3. \A i \in 1 .. n - 1 : IsNotify(q[i])
  <2> SUFFICES ASSUME NEW i \in 1 .. n - 1, ~ IsNotify(q[i])
               PROVE  FALSE
    OBVIOUS
  <2>1. i \in T
    BY LenProperties
  <2> QED
    BY <2>1, <1>2
<1> QED
  BY <1>2, <1>3 DEF FirstReal

\* What MayConsumeNotifyMessages leaves of a queue.
LEMMA DropMarkersIs ==
  ASSUME NEW q \in Seq(Entry)
  PROVE  /\ DropMarkers(q) \in Seq(Entry)
         /\ Len(DropMarkers(q)) = Len(q) + 1 - FirstReal(q)
         /\ \A i \in 1 .. Len(DropMarkers(q)) :
              DropMarkers(q)[i] = q[i + FirstReal(q) - 1]
         /\ DropMarkers(q) # <<>> => ~ IsNotify(DropMarkers(q)[1])
<1> DEFINE f == FirstReal(q)
           r == DropMarkers(q)
<1>1. f \in 1 .. Len(q) + 1 /\ Len(q) \in Nat
  BY FirstRealIsFirst, LenProperties
<1>2. \A i \in f .. Len(q) : q[i] \in Entry
  BY <1>1, ElementOfSeq
<1>3. /\ r \in Seq(Entry)
      /\ Len(r) = Len(q) + 1 - f
      /\ \A i \in 1 .. Len(q) - f + 1 : r[i] = q[f + i - 1]
  <2> HIDE DEF f
  <2>1. r = SubSeq(q, f, Len(q))
    BY DEF DropMarkers, f
  <2> HIDE DEF r
  <2> QED
    BY <2>1, <1>1, <1>2, SubSeqProperties
<1>4. r # <<>> => ~ IsNotify(r[1])
  <2> SUFFICES ASSUME r # <<>> PROVE ~ IsNotify(r[1])
    OBVIOUS
  <2> HIDE DEF r
  <2>1. Len(r) \in Nat \ {0}
    BY <1>3, EmptySeq
  <2>2. f <= Len(q) /\ r[1] = q[f]
    BY <2>1, <1>1, <1>3
  <2> QED
    BY <2>2, FirstRealIsFirst
<1>5. \A i \in 1 .. Len(r) : r[i] = q[i + f - 1]
  <2> SUFFICES ASSUME NEW i \in 1 .. Len(r) PROVE r[i] = q[i + f - 1]
    OBVIOUS
  <2> HIDE DEF r, f
  <2>1. i \in 1 .. Len(q) - f + 1 /\ f + i - 1 = i + f - 1
    BY <1>1, <1>3
  <2> QED
    BY <1>3, <2>1
<1> QED
  BY <1>1, <1>3, <1>4, <1>5

\* A queue that does not start with a kNotify is left alone.
LEMMA NothingToDrop ==
  ASSUME NEW q \in Seq(Entry), q = <<>> \/ ~ IsNotify(q[1])
  PROVE  DropMarkers(q) = q /\ ~ ShouldNotify(q)
<1>1. CASE q = <<>>
  <2>1. Len(q) = 0
    BY <1>1, EmptySeq
  <2>2. FirstReal(q) \in 1 .. Len(q) + 1
    BY FirstRealIsFirst
  <2>3. FirstReal(q) = 1
    BY <2>1, <2>2
  <2> QED
    BY <1>1, <2>1, <2>3, SubSeqEmpty DEF DropMarkers, ShouldNotify
<1>2. CASE q # <<>> /\ ~ IsNotify(q[1])
  <2>1. FirstReal(q) = 1
    BY <1>2, FirstRealIsFirst
  <2> QED
    BY <1>2, <2>1, SubSeqFull DEF DropMarkers, ShouldNotify
<1> QED
  BY <1>1, <1>2

-----------------------------------------------------------------------------
(***************************************************************************)
(* Type correctness.                                                       *)
(***************************************************************************)

\* A remainder of a division by a positive number.
LEMMA RemainderInRange ==
  ASSUME NEW a \in Int, NEW n \in Nat \ {0}
  PROVE  a % n \in 0 .. n - 1
  OBVIOUS

LEMMA ShardAtIsShard ==
  ASSUME TypeOK, NEW d \in Drainers
  PROVE  ShardAt(d) \in Shards
<1>1. rand[d] \in Int
  BY SizeTAssumption DEF TypeOK
<1> QED
  BY <1>1, NAssumption, RemainderInRange DEF ShardAt, Shards

\* notify_all wakes drainers and changes nothing else of them.
LEMMA DrainersNotifiedType ==
  ASSUME TypeOK, NEW s \in Shards
  PROVE  /\ DrainersNotified(s) \in [Drainers -> DrainPC]
         /\ \A d \in Drainers :
              /\ DrainersNotified(s)[d] = "woken" => dpc[d] \in {"asleep", "woken"}
              /\ DrainersNotified(s)[d] # "woken" => DrainersNotified(s)[d] = dpc[d]
              /\ ShardAt(d) # s => DrainersNotified(s)[d] = dpc[d]
              /\ ShardAt(d) = s => DrainersNotified(s)[d] # "asleep"
  BY DEF TypeOK, DrainersNotified, Woken, DrainPC

\* A push keeps the type of everything it changes.
LEMMA UnitPushType ==
  ASSUME TypeOK, NEW s \in Shards, NEW type \in MessageType,
         NEW body \in Messages \cup {NoMessage}, UnitPush(s, type, body)
  PROVE  /\ que' \in [Shards -> Seq(Entry)]
         /\ ver' \in [Shards -> Nat]
         /\ applied' \in [Shards -> Nat]
         /\ waiting' \in [Shards -> BOOLEAN]
         /\ wpc' \in [Shards -> WorkerPC]
         /\ dpc' \in [Drainers -> DrainPC]
         /\ \A d \in Drainers : dpc'[d] = dpc[d] \/ (dpc[d] = "asleep" /\ dpc'[d] = "woken")
<1> DEFINE e == [type |-> type, body |-> body, seq |-> ver[s] + 1]
<1>1. e \in Entry
  BY DEF TypeOK, Entry
<1>2. Append(que[s], e) \in Seq(Entry)
  BY <1>1, AppendProperties DEF TypeOK
<1>3. que' \in [Shards -> Seq(Entry)]
  BY <1>2 DEF TypeOK, UnitPush
<1>4. /\ ver' \in [Shards -> Nat]
      /\ applied' \in [Shards -> Nat]
      /\ waiting' \in [Shards -> BOOLEAN]
  BY DEF TypeOK, UnitPush
<1>5. wpc' \in [Shards -> WorkerPC]
  BY DEF TypeOK, UnitPush, Woken, WorkerPC
<1>6. /\ dpc' \in [Drainers -> DrainPC]
      /\ \A d \in Drainers : dpc'[d] = dpc[d] \/ (dpc[d] = "asleep" /\ dpc'[d] = "woken")
  BY DEF TypeOK, UnitPush, DrainersNotified, Woken, DrainPC
<1> QED
  BY <1>3, <1>4, <1>5, <1>6

LEMMA DrainAdvanceType ==
  ASSUME TypeOK, NEW d \in Drainers, pos[d] < N, DrainAdvance(d)
  PROVE  /\ pos' \in [Drainers -> 0 .. N]
         /\ rand' \in [Drainers -> 0 .. SizeT - 1]
         /\ dpc' \in [Drainers -> DrainPC]
         /\ \A e \in Drainers : dpc'[e] \in {"read", "check", "lock", "asleep", "woken"}
                                  => pos'[e] < N
<1>0. rand[d] + 1 \in Int /\ pos[d] + 1 \in 0 .. N
  BY NAssumption, SizeTAssumption DEF TypeOK
<1>1. pos[d] + 1 \in 0 .. N /\ (rand[d] + 1) % SizeT \in 0 .. SizeT - 1
  BY <1>0, SizeTAssumption, RemainderInRange
<1>2. pos' \in [Drainers -> 0 .. N] /\ rand' \in [Drainers -> 0 .. SizeT - 1]
  BY <1>1 DEF TypeOK, DrainAdvance
<1>3. dpc' \in [Drainers -> DrainPC]
  BY DEF TypeOK, DrainAdvance, DrainPC
<1>4. ASSUME NEW e \in Drainers,
             dpc'[e] \in {"read", "check", "lock", "asleep", "woken"}
      PROVE  pos'[e] < N
  <2>1. CASE e = d
    <3>1. pos[d] + 1 # N
      BY <1>4, <2>1 DEF TypeOK, DrainAdvance
    <3>2. pos'[e] = pos[d] + 1
      BY <2>1 DEF TypeOK, DrainAdvance
    <3> QED
      BY <3>1, <3>2, <1>1, NAssumption
  <2>2. CASE e # d
    BY <1>4, <2>2 DEF TypeOK, DrainAdvance
  <2> QED
    BY <2>1, <2>2
<1> QED
  BY <1>2, <1>3, <1>4

LEMMA TypeInit == Init => TypeOK
<1> SUFFICES ASSUME Init PROVE TypeOK
  OBVIOUS
<1>1. \A S : <<>> \in Seq(S)
  BY EmptySeq
<1>2. 0 \in 0 .. N /\ 0 \in 0 .. SizeT - 1 /\ 0 \in Nat
  BY NAssumption, SizeTAssumption
<1> QED
  BY <1>1, <1>2 DEF Init, TypeOK, WorkerPC, DrainPC

LEMMA TypeStep == TypeOK /\ [Next]_vars => TypeOK'
<1> SUFFICES ASSUME TypeOK, [Next]_vars PROVE TypeOK'
  OBVIOUS
<1> USE NAssumption, SizeTAssumption, ShardOfAssumption
<1>1. ASSUME NEW m \in Messages, Push(m) PROVE TypeOK'
  <2> DEFINE s == ShardOf[m]
  <2>1. s \in Shards /\ "kMsg" \in MessageType
    BY DEF MessageType
  <2>2. UnitPush(s, "kMsg", m)
    BY <1>1 DEF Push
  <2>3. pushed' \in [Shards -> Seq(Messages)]
    <3>1. Append(pushed[s], m) \in Seq(Messages)
      BY <2>1, AppendProperties DEF TypeOK
    <3> QED
      BY <1>1, <2>1, <3>1 DEF TypeOK, Push
  <2> QED
    BY <1>1, <2>1, <2>2, <2>3, UnitPushType DEF TypeOK, Push, dtorVars
<1>2. ASSUME NEW s \in Shards, WorkerWait(s) PROVE TypeOK'
  BY <1>2 DEF TypeOK, WorkerWait, WorkerPC, drainVars, dtorVars
<1>3. ASSUME NEW s \in Shards, WorkerWake(s) PROVE TypeOK'
  BY <1>3 DEF TypeOK, WorkerWake, WorkerPC, unitVars, drainVars, dtorVars
<1>4. ASSUME NEW s \in Shards, WorkerPeek(s) PROVE TypeOK'
  <2> DEFINE rest == DropMarkers(que[s])
  <2>1. rest \in Seq(Entry)
    BY DropMarkersIs DEF TypeOK
  <2>2. que' \in [Shards -> Seq(Entry)]
    BY <1>4, <2>1 DEF TypeOK, WorkerPeek
  <2>3. wpc' \in [Shards -> WorkerPC]
    BY <1>4 DEF TypeOK, WorkerPeek, PeekResult, WorkerPC
  <2>4. held' \in [Shards -> Messages \cup {NoMessage}]
    <3> DEFINE h == IF PeekResult(rest) = "consume" THEN rest[1].body ELSE NoMessage
    <3>1. CASE PeekResult(rest) = "consume"
      <4>1. rest # <<>>
        BY <3>1 DEF PeekResult
      <4> HIDE DEF rest
      <4>2. rest[1] \in Entry
        BY <2>1, <4>1, EmptySeq, ElementOfSeq
      <4> QED
        BY <1>4, <3>1, <4>2 DEF TypeOK, WorkerPeek, Entry, rest
    <3>2. CASE PeekResult(rest) # "consume"
      BY <1>4, <3>2 DEF TypeOK, WorkerPeek
    <3> QED
      BY <3>1, <3>2
  <2>5. /\ dpc' \in [Drainers -> DrainPC]
        /\ \A d \in Drainers : dpc'[d] = dpc[d] \/ (dpc[d] = "asleep" /\ dpc'[d] = "woken")
    BY <1>4 DEF TypeOK, WorkerPeek, DrainersNotified, Woken, DrainPC
  <2> QED
    BY <1>4, <2>2, <2>3, <2>4, <2>5 DEF TypeOK, WorkerPeek, dtorVars
<1>5. ASSUME NEW s \in Shards, WorkerConsume(s) PROVE TypeOK'
  <2>1. Append(delivered[s], held[s]) \in Seq(Messages \cup {NoMessage})
    BY AppendProperties DEF TypeOK
  <2>2. delivered' \in [Shards -> Seq(Messages \cup {NoMessage})]
    BY <1>5, <2>1 DEF TypeOK, WorkerConsume
  <2>3. wpc' \in [Shards -> WorkerPC]
    BY <1>5 DEF TypeOK, WorkerConsume, WorkerPC
  <2> QED
    BY <1>5, <2>2, <2>3 DEF TypeOK, WorkerConsume, unitVars, drainVars, dtorVars
<1>6. ASSUME NEW s \in Shards, WorkerPop(s) PROVE TypeOK'
  <2>1. que[s] # <<>> => AfterPop(que[s]) \in Seq(Entry)
    BY HeadTailProperties, DropMarkersIs DEF TypeOK, AfterPop
  <2>2. que' \in [Shards -> Seq(Entry)]
    <3>1. que \in [Shards -> Seq(Entry)]
      BY DEF TypeOK
    <3>2. que' = que \/ (que[s] # <<>> /\ que' = [que EXCEPT ![s] = AfterPop(que[s])])
      BY <1>6 DEF WorkerPop
    <3> QED
      BY <2>1, <3>1, <3>2
  <2>3. /\ wpc' \in [Shards -> WorkerPC]
        /\ applied' \in [Shards -> Nat]
        /\ held' \in [Shards -> Messages \cup {NoMessage}]
    <3>1. wpc' \in [Shards -> WorkerPC]
      BY <1>6 DEF TypeOK, WorkerPop, WorkerPC
    <3>2. applied' \in [Shards -> Nat]
      <4>1. applied' = applied \/ applied' = [applied EXCEPT ![s] = applied[s] + 1]
        BY <1>6 DEF WorkerPop
      <4>2. applied \in [Shards -> Nat] /\ applied[s] + 1 \in Nat
        BY DEF TypeOK
      <4> QED
        BY <4>1, <4>2
    <3>3. held' \in [Shards -> Messages \cup {NoMessage}]
      BY <1>6 DEF TypeOK, WorkerPop
    <3> QED
      BY <3>1, <3>2, <3>3
  <2>4. /\ dpc' \in [Drainers -> DrainPC]
        /\ \A d \in Drainers : dpc'[d] = dpc[d] \/ (dpc[d] = "asleep" /\ dpc'[d] = "woken")
    <3>1. dpc' = dpc \/ dpc' = DrainersNotified(s)
      BY <1>6 DEF WorkerPop
    <3>2. dpc \in [Drainers -> DrainPC]
      BY DEF TypeOK
    <3> QED
      BY <3>1, <3>2 DEF DrainersNotified, Woken, DrainPC
  <2> QED
    BY <1>6, <2>2, <2>3, <2>4 DEF TypeOK, WorkerPop, dtorVars
<1>7. ASSUME NEW d \in Drainers, DrainCall(d) PROVE TypeOK'
  <2>1. \A s \in Shards : Len(pushed[s]) \in Nat
    BY LenProperties DEF TypeOK
  <2>2. called' \in [Drainers -> [Shards -> Nat]]
    BY <1>7, <2>1 DEF TypeOK, DrainCall
  <2>3. /\ dpc' \in [Drainers -> DrainPC]
        /\ pos' \in [Drainers -> 0 .. N]
        /\ rand' \in [Drainers -> 0 .. SizeT - 1]
        /\ arr' \in [Drainers -> [Shards -> Nat]]
    BY <1>7 DEF TypeOK, DrainCall, DrainPC
  <2>4. \A e \in Drainers : dpc'[e] \in {"read", "check", "lock", "asleep", "woken"}
                              => pos'[e] < N
    BY <1>7 DEF TypeOK, DrainCall
  <2> QED
    BY <1>7, <2>2, <2>3, <2>4 DEF TypeOK, DrainCall, unitVars, workerVars, dtorVars
<1>8. ASSUME NEW d \in Drainers, DrainRead(d) PROVE TypeOK'
  <2>1. pos[d] \in Shards
    <3>1. pos[d] \in 0 .. N /\ pos[d] < N
      BY <1>8 DEF TypeOK, DrainRead
    <3> QED
      BY <3>1 DEF Shards
  <2>2. ver[pos[d]] \in Nat
    BY <2>1 DEF TypeOK
  <2>3. (rand[d] + ver[pos[d]]) % SizeT \in 0 .. SizeT - 1
    <3>1. rand[d] + ver[pos[d]] \in Int
      BY <2>2 DEF TypeOK
    <3> QED
      BY <3>1, RemainderInRange
  <2>4. rand' \in [Drainers -> 0 .. SizeT - 1]
    BY <1>8, <2>3 DEF TypeOK, DrainRead
  <2>5. arr' \in [Drainers -> [Shards -> Nat]]
    BY <1>8, <2>1, <2>2 DEF TypeOK, DrainRead
  <2>6. /\ dpc' \in [Drainers -> DrainPC]
        /\ pos' \in [Drainers -> 0 .. N]
        /\ \A e \in Drainers : dpc'[e] \in {"read", "check", "lock", "asleep", "woken"}
                                 => pos'[e] < N
    <3>1. CASE pos[d] + 1 < N /\ pos' = [pos EXCEPT ![d] = @ + 1] /\ UNCHANGED dpc
      <4>1. pos[d] + 1 \in 0 .. N
        BY <3>1 DEF TypeOK
      <4> QED
        BY <3>1, <4>1 DEF TypeOK
    <3>2. CASE /\ pos' = [pos EXCEPT ![d] = 0]
               /\ dpc' = [dpc EXCEPT ![d] = "check"]
      BY <3>2 DEF TypeOK, DrainPC
    <3> QED
      BY <1>8, <3>1, <3>2 DEF DrainRead
  <2> QED
    BY <1>8, <2>4, <2>5, <2>6 DEF TypeOK, DrainRead, unitVars, workerVars, dtorVars
<1>9. ASSUME NEW d \in Drainers, DrainCheck(d) PROVE TypeOK'
  <2>1. CASE DrainAdvance(d)
    BY <1>9, <2>1, DrainAdvanceType
       DEF TypeOK, DrainCheck, unitVars, workerVars, dtorVars
  <2>2. CASE dpc' = [dpc EXCEPT ![d] = "lock"] /\ UNCHANGED <<pos, rand>>
    BY <1>9, <2>2 DEF TypeOK, DrainCheck, DrainPC, unitVars, workerVars, dtorVars
  <2> QED
    BY <1>9, <2>1, <2>2 DEF DrainCheck
<1>10. ASSUME NEW d \in Drainers, DrainLock(d) PROVE TypeOK'
  <2>1. CASE DrainAdvance(d) /\ UNCHANGED que
    BY <1>10, <2>1, DrainAdvanceType DEF TypeOK, DrainLock, workerVars, dtorVars
  <2>2. CASE /\ AppendNotify(ShardAt(d))
             /\ dpc' = [dpc EXCEPT ![d] = "asleep"]
             /\ UNCHANGED <<pos, rand>>
    <3> DEFINE s == ShardAt(d)
               e == [type |-> "kNotify", body |-> NoMessage, seq |-> ver[s]]
    <3>1. s \in Shards
      BY ShardAtIsShard
    <3>2. e \in Entry
      BY <3>1 DEF TypeOK, Entry, MessageType
    <3>3. Append(que[s], e) \in Seq(Entry)
      BY <3>1, <3>2, AppendProperties DEF TypeOK
    <3>4. que' \in [Shards -> Seq(Entry)]
      BY <2>2, <3>3 DEF TypeOK, AppendNotify
    <3> QED
      BY <1>10, <2>2, <3>4 DEF TypeOK, DrainLock, DrainPC, workerVars, dtorVars
  <2> QED
    BY <1>10, <2>1, <2>2 DEF DrainLock
<1>11. ASSUME NEW d \in Drainers, DrainWake(d) PROVE TypeOK'
  <2>1. CASE DrainAdvance(d)
    BY <1>11, <2>1, DrainAdvanceType
       DEF TypeOK, DrainWake, unitVars, workerVars, dtorVars
  <2>2. CASE dpc' = [dpc EXCEPT ![d] = "asleep"] /\ UNCHANGED <<pos, rand>>
    BY <1>11, <2>2 DEF TypeOK, DrainWake, DrainPC, unitVars, workerVars, dtorVars
  <2> QED
    BY <1>11, <2>1, <2>2 DEF DrainWake
<1>12. ASSUME NEW d \in Drainers, DrainReturn(d) PROVE TypeOK'
  BY <1>12 DEF TypeOK, DrainReturn, DrainPC, unitVars, workerVars, dtorVars
<1>13. CASE DestructorClose
  <2>1. closed \in Shards /\ "kClose" \in MessageType
    BY <1>13 DEF TypeOK, DestructorClose, Shards, MessageType
  <2>2. UnitPush(closed, "kClose", NoMessage)
    BY <1>13 DEF DestructorClose
  <2>3. closed' \in 0 .. N
    BY <1>13 DEF TypeOK, DestructorClose
  <2> QED
    BY <1>13, <2>1, <2>2, <2>3, UnitPushType DEF TypeOK, DestructorClose
<1>14. CASE DestructorJoin
  BY <1>14 DEF TypeOK, DestructorJoin, unitVars, workerVars, drainVars
<1>15. CASE SpuriousWakeup
  <2>1. wpc' \in [Shards -> WorkerPC]
    BY <1>15 DEF TypeOK, SpuriousWakeup, WorkerPC
  <2>2. /\ dpc' \in [Drainers -> DrainPC]
        /\ \A d \in Drainers : dpc'[d] = dpc[d] \/ (dpc[d] = "asleep" /\ dpc'[d] = "woken")
    BY <1>15 DEF TypeOK, SpuriousWakeup, DrainPC
  <2> QED
    BY <1>15, <2>1, <2>2 DEF TypeOK, SpuriousWakeup, unitVars, dtorVars
<1>16. CASE UNCHANGED vars
  BY <1>16 DEF TypeOK, vars, unitVars, workerVars, drainVars, dtorVars
<1> QED
  BY <1>1, <1>2, <1>3, <1>4, <1>5, <1>6, <1>7, <1>8, <1>9, <1>10, <1>11, <1>12,
     <1>13, <1>14, <1>15, <1>16 DEF Next, WorkerStep, DrainStep

\* Every variable keeps its type: in particular no drainer indexes past its
\* ver_arr, and rand_num stays a size_t (pmem_msg_queue_impl.cpp:151-166).
THEOREM TypeCorrect == SafetySpec => []TypeOK
<1> QED
  BY TypeInit, TypeStep, PTL DEF SafetySpec

-----------------------------------------------------------------------------
(***************************************************************************)
(* The chain of versions in a queue.                                       *)
(***************************************************************************)

\* Appending the next version, or a kNotify, keeps a queue chained.
LEMMA ChainedAppend ==
  ASSUME NEW q \in Seq(Entry), NEW e \in Entry, Chained(q),
         q # <<>> => e.seq = q[Len(q)].seq + IF IsNotify(e) THEN 0 ELSE 1
  PROVE  Chained(Append(q, e))
<1> DEFINE a == Append(q, e)
           n == Len(q)
<1>1. /\ n \in Nat
      /\ Len(a) = n + 1
      /\ a[n + 1] = e
      /\ \A i \in 1 .. n : a[i] = q[i]
  BY AppendProperties, LenProperties
<1>2. \A i \in 1 .. n : q[i].seq \in Nat
  <2>1. \A i \in 1 .. n : q[i] \in Entry
    BY ElementOfSeq
  <2> QED
    BY <2>1 DEF Entry
<1>e. e.seq \in Nat
  BY DEF Entry
<1>0. n > 0 => q # <<>>
  BY EmptySeq
<1> HIDE DEF a
<1>3. ASSUME NEW i \in 1 .. Len(a) - 1, ~ IsNotify(a[i + 1])
      PROVE  a[i + 1].seq = a[i].seq + 1
  <2>1. CASE i + 1 <= n
    BY <1>1, <1>3, <2>1 DEF Chained
  <2>2. CASE i = n
    BY <1>0, <1>1, <1>3, <2>2
  <2> QED
    BY <1>1, <2>1, <2>2
<1>4. ASSUME NEW i \in 1 .. Len(a), NEW j \in 1 .. Len(a), i < j,
             \A k \in i + 1 .. j : IsNotify(a[k])
      PROVE  a[j].seq = a[i].seq
  <2>1. CASE j <= n
    <3>1. \A k \in i + 1 .. j : IsNotify(q[k])
      BY <1>1, <1>4, <2>1
    <3>2. i \in 1 .. Len(q) /\ j \in 1 .. Len(q) /\ a[i] = q[i] /\ a[j] = q[j]
      BY <1>1, <1>4, <2>1
    <3>3. q[j].seq = q[i].seq
      BY <1>4, <3>1, <3>2 DEF Chained
    <3> QED
      BY <3>2, <3>3
  <2>2. CASE j = n + 1 /\ i = n
    <3>1. IsNotify(e)
      BY <1>1, <1>4, <2>2
    <3> QED
      BY <1>0, <1>1, <1>2, <2>2, <3>1
  <2>3. CASE j = n + 1 /\ i < n
    <3>1. \A k \in i + 1 .. n : IsNotify(q[k])
      BY <1>1, <1>4, <2>3
    <3>2. q[n].seq = q[i].seq
      BY <1>1, <2>3, <3>1 DEF Chained
    <3>3. IsNotify(e)
      BY <1>1, <1>4, <2>3
    <3> QED
      BY <1>0, <1>1, <1>2, <2>3, <3>2, <3>3
  <2> QED
    BY <1>1, <1>4, <2>1, <2>2, <2>3
<1> QED
  BY <1>3, <1>4 DEF Chained, a

\* So does dropping entries from the front.
LEMMA ChainedSuffix ==
  ASSUME NEW q \in Seq(Entry), NEW r \in Seq(Entry), Chained(q), NEW f \in Nat,
         Len(r) = Len(q) - f, \A i \in 1 .. Len(r) : r[i] = q[i + f]
  PROVE  Chained(r)
<1>0. Len(q) \in Nat /\ Len(r) \in Nat
  BY LenProperties
<1>1. ASSUME NEW i \in 1 .. Len(r) - 1, ~ IsNotify(r[i + 1])
      PROVE  r[i + 1].seq = r[i].seq + 1
  <2>0. /\ i + f \in 1 .. Len(q) - 1 /\ i \in 1 .. Len(r) /\ i + 1 \in 1 .. Len(r)
        /\ (i + 1) + f = (i + f) + 1
    BY <1>0
  <2>1. r[i + 1] = q[(i + f) + 1] /\ r[i] = q[i + f] /\ i + f \in 1 .. Len(q) - 1
    <3>1. r[i + 1] = q[(i + 1) + f]
      BY <2>0
    <3>2. r[i] = q[i + f]
      BY <2>0
    <3> QED
      BY <2>0, <3>1, <3>2
  <2> QED
    BY <1>1, <2>1 DEF Chained
<1>2. ASSUME NEW i \in 1 .. Len(r), NEW j \in 1 .. Len(r), i < j,
             \A k \in i + 1 .. j : IsNotify(r[k])
      PROVE  r[j].seq = r[i].seq
  <2>0. i + f \in 1 .. Len(q) /\ j + f \in 1 .. Len(q) /\ i + f < j + f
    BY <1>0, <1>2
  <2>1. /\ i + f \in 1 .. Len(q) /\ j + f \in 1 .. Len(q) /\ i + f < j + f
        /\ r[i] = q[i + f] /\ r[j] = q[j + f]
    BY <2>0
  <2>2. ASSUME NEW k \in (i + f) + 1 .. j + f PROVE IsNotify(q[k])
    <3>1. k - f \in i + 1 .. j /\ r[k - f] = q[k]
      BY <1>0, <2>1
    <3> QED
      BY <1>2, <3>1
  <2> QED
    BY <2>1, <2>2 DEF Chained
<1> QED
  BY <1>1, <1>2 DEF Chained

\* What Pop leaves of a chained queue, f entries having been removed: the
\* front and the run of kNotify behind it, all of one version.
LEMMA AfterPopIs ==
  ASSUME NEW q \in Seq(Entry), q # <<>>, Chained(q)
  PROVE  /\ AfterPop(q) \in Seq(Entry)
         /\ Chained(AfterPop(q))
         /\ AfterPop(q) = <<>> => q[Len(q)].seq = q[1].seq
         /\ AfterPop(q) # <<>> => /\ ~ IsNotify(AfterPop(q)[1])
                                  /\ AfterPop(q)[1].seq = q[1].seq + 1
                                  /\ AfterPop(q)[Len(AfterPop(q))] = q[Len(q)]
         /\ \E f \in 1 .. Len(q) :
              /\ Len(AfterPop(q)) = Len(q) - f
              /\ \A i \in 1 .. Len(AfterPop(q)) : AfterPop(q)[i] = q[i + f]
              /\ \A i \in 2 .. f : IsNotify(q[i]) /\ q[i].seq = q[1].seq
              /\ ~ ShouldNotify(Tail(q)) => f = 1
<1> DEFINE t == Tail(q)
           f == FirstReal(t)
           r == AfterPop(q)
<1>1. /\ t \in Seq(Entry) /\ Len(t) = Len(q) - 1 /\ Len(q) \in Nat \ {0}
      /\ \A i \in 1 .. Len(t) : t[i] = q[i + 1]
  BY HeadTailProperties, EmptySeq
<1>2. /\ f \in 1 .. Len(q)
      /\ \A i \in 1 .. f - 1 : IsNotify(t[i])
  <2> HIDE DEF t
  <2>1. FirstReal(t) \in 1 .. Len(t) + 1
    BY <1>1, FirstRealIsFirst
  <2> QED
    BY <1>1, <2>1, FirstRealIsFirst
<1>3. /\ r \in Seq(Entry)
      /\ Len(r) = Len(q) - f
      /\ \A i \in 1 .. Len(r) : r[i] = t[i + f - 1]
      /\ r # <<>> => ~ IsNotify(r[1])
  <2> HIDE DEF t
  <2>1. r = DropMarkers(t)
    BY DEF AfterPop, t
  <2>2. Len(DropMarkers(t)) = Len(q) - f
    BY <1>1, <1>2, DropMarkersIs
  <2> QED
    BY <1>1, <2>1, <2>2, DropMarkersIs
<1> HIDE DEF f, r, t
<1>4. \A i \in 1 .. Len(r) : r[i] = q[i + f]
  <2> SUFFICES ASSUME NEW i \in 1 .. Len(r) PROVE r[i] = q[i + f]
    OBVIOUS
  <2>1. i + f - 1 \in 1 .. Len(t)
    BY <1>1, <1>2, <1>3
  <2>2. t[i + f - 1] = q[i + f - 1 + 1]
    BY <1>1, <2>1
  <2> QED
    BY <1>2, <1>3, <2>2
<1>5. \A i \in 2 .. f : IsNotify(q[i]) /\ q[i].seq = q[1].seq
  <2>1. ASSUME NEW i \in 2 .. f PROVE IsNotify(q[i])
    <3>1. i - 1 \in 1 .. f - 1 /\ t[i - 1] = q[i - 1 + 1]
      BY <1>1, <1>2
    <3> QED
      BY <1>2, <3>1
  <2>2. ASSUME NEW i \in 2 .. f PROVE q[i].seq = q[1].seq
    <3>1. \A k \in 1 + 1 .. i : IsNotify(q[k])
      BY <1>2, <2>1
    <3>2. i \in 1 .. Len(q) /\ 1 \in 1 .. Len(q) /\ 1 < i
      BY <1>2
    <3> QED
      BY <3>1, <3>2 DEF Chained
  <2> QED
    BY <2>1, <2>2
<1>6. q[f].seq = q[1].seq
  BY <1>2, <1>5
<1>7. Chained(r)
  <2>1. f \in Nat /\ Len(r) = Len(q) - f /\ r \in Seq(Entry)
    BY <1>2, <1>3
  <2> QED
    BY <1>4, <2>1, ChainedSuffix
<1>8. r = <<>> => q[Len(q)].seq = q[1].seq
  <2> SUFFICES ASSUME r = <<>> PROVE q[Len(q)].seq = q[1].seq
    OBVIOUS
  <2>1. Len(r) = 0
    OBVIOUS
  <2>2. f = Len(q)
    BY <1>1, <1>2, <1>3, <2>1
  <2> QED
    BY <1>6, <2>2
<1>9. r # <<>> => r[1].seq = q[1].seq + 1 /\ r[Len(r)] = q[Len(q)]
  <2> SUFFICES ASSUME r # <<>> PROVE r[1].seq = q[1].seq + 1 /\ r[Len(r)] = q[Len(q)]
    OBVIOUS
  <2>1. Len(r) \in Nat \ {0}
    BY <1>3, EmptySeq
  <2>2. r[1] = q[f + 1] /\ f \in 1 .. Len(q) - 1 /\ r[Len(r)] = q[Len(q)]
    BY <1>1, <1>2, <1>3, <1>4, <2>1
  <2>3. q[f + 1].seq = q[f].seq + 1
    BY <1>3, <2>2 DEF Chained
  <2> QED
    BY <1>6, <2>2, <2>3
<1>10. ~ ShouldNotify(t) => f = 1
  <2> SUFFICES ASSUME ~ ShouldNotify(t), f # 1 PROVE FALSE
    OBVIOUS
  <2>1. IsNotify(t[1])
    BY <1>2
  <2>2. Len(t) # 0
    BY <1>1, <1>2
  <2>3. t # <<>>
    BY <2>2
  <2> QED
    BY <2>1, <2>3 DEF ShouldNotify
<1> QED
  BY <1>2, <1>3, <1>4, <1>5, <1>7, <1>8, <1>9, <1>10 DEF r, t

-----------------------------------------------------------------------------
(***************************************************************************)
(* What leaves each part of the inductive invariant alone.                 *)
(***************************************************************************)

LEMMA VersionsKept ==
  ASSUME NEW s \in Shards, VersionsInQueue(s),
         que'[s] = que[s], ver'[s] = ver[s], applied'[s] = applied[s]
  PROVE  VersionsInQueue(s)'
  BY DEF VersionsInQueue

LEMMA ContentsKept ==
  ASSUME NEW s \in Shards, ContentsOfQueue(s),
         que'[s] = que[s], ver'[s] = ver[s], pushed'[s] = pushed[s],
         (closed' > s) = (closed > s)
  PROVE  ContentsOfQueue(s)'
  BY DEF ContentsOfQueue

LEMMA WorkerKept ==
  ASSUME NEW s \in Shards, WorkerKnows(s),
         que'[s] = que[s], wpc'[s] = wpc[s], held'[s] = held[s],
         waiting'[s] = waiting[s]
  PROVE  WorkerKnows(s)'
  BY DEF WorkerKnows

LEMMA DeliveredKept ==
  ASSUME NEW s \in Shards, DeliveredSoFar(s),
         delivered'[s] = delivered[s], applied'[s] = applied[s],
         (wpc'[s] = "pop") = (wpc[s] = "pop"), pushed'[s] = pushed[s]
  PROVE  DeliveredSoFar(s)'
  BY DEF DeliveredSoFar

\* A drainer that stays where it is, or is woken, keeps what it knows as long
\* as versions grow and no kNotify is lost.
LEMMA DrainerKept ==
  ASSUME TypeOK, TypeOK', NEW d \in Drainers, DrainerKnows(d),
         arr'[d] = arr[d], rand'[d] = rand[d],
         dpc'[d] = dpc[d] \/ (dpc[d] = "asleep" /\ dpc'[d] = "woken"),
         \A s \in Shards : ver[s] <= ver'[s] /\ applied[s] <= applied'[s],
         \A s \in Shards : \A i \in DOMAIN que[s] :
           i \in DOMAIN que'[s] /\ que'[s][i] = que[s][i]
  PROVE  DrainerKnows(d)'
<1>0. ShardAt(d) \in Shards /\ ShardAt(d)' = ShardAt(d)
  BY ShardAtIsShard DEF ShardAt
<1>1. ASSUME Marked(ShardAt(d), arr[d][ShardAt(d)])
      PROVE  Marked(ShardAt(d), arr[d][ShardAt(d)])'
  BY <1>0, <1>1 DEF Marked
<1>2. Drained(d) => Drained(d)'
  <2>1. /\ applied[ShardAt(d)] \in Nat
        /\ applied'[ShardAt(d)] \in Nat
        /\ arr[d][ShardAt(d)] \in Nat
    BY <1>0 DEF TypeOK
  <2> QED
    BY <1>0, <2>1 DEF Drained
<1>3. \A s \in Shards : arr'[d][s] <= ver'[s]
  <2>1. \A s \in Shards : arr[d][s] \in Nat /\ ver[s] \in Nat /\ ver'[s] \in Nat
    BY DEF TypeOK
  <2> QED
    BY <2>1 DEF DrainerKnows
<1> QED
  BY <1>1, <1>2, <1>3 DEF DrainerKnows

-----------------------------------------------------------------------------
(***************************************************************************)
(* A push.                                                                 *)
(***************************************************************************)
LEMMA UnitPushAppends ==
  ASSUME TypeOK, NEW s \in Shards, NEW type \in {"kMsg", "kClose"},
         NEW body \in Messages \cup {NoMessage}, UnitPush(s, type, body)
  PROVE  LET e == [type |-> type, body |-> body, seq |-> ver[s] + 1] IN
         /\ e \in Entry /\ ~ IsNotify(e)
         /\ que'[s] = Append(que[s], e)
         /\ Len(que'[s]) = Len(que[s]) + 1
         /\ Len(que[s]) \in Nat
         /\ que'[s][Len(que[s]) + 1] = e
         /\ que'[s] # <<>>
         /\ \A i \in 1 .. Len(que[s]) : que'[s][i] = que[s][i]
         /\ ver'[s] = ver[s] + 1
         /\ \A t \in Shards \ {s} : que'[t] = que[t] /\ ver'[t] = ver[t]
         /\ applied' = applied
         /\ waiting' = waiting
<1> DEFINE e == [type |-> type, body |-> body, seq |-> ver[s] + 1]
<1>1. e \in Entry /\ ~ IsNotify(e)
  BY DEF TypeOK, Entry, MessageType, IsNotify
<1>2. /\ que'[s] = Append(que[s], e)
      /\ ver'[s] = ver[s] + 1
      /\ \A t \in Shards \ {s} : que'[t] = que[t] /\ ver'[t] = ver[t]
      /\ applied' = applied /\ waiting' = waiting
  BY DEF TypeOK, UnitPush
<1>3. que[s] \in Seq(Entry)
  BY DEF TypeOK
<1> HIDE DEF e
<1>4. /\ Len(que[s]) \in Nat
      /\ Append(que[s], e) # <<>>
      /\ Len(Append(que[s], e)) = Len(que[s]) + 1
      /\ Append(que[s], e)[Len(que[s]) + 1] = e
      /\ \A i \in 1 .. Len(que[s]) : Append(que[s], e)[i] = que[s][i]
  BY <1>1, <1>3, AppendProperties, LenProperties
<1> QED
  BY <1>1, <1>2, <1>4 DEF e

LEMMA UnitPushVersions ==
  ASSUME TypeOK, NEW s \in Shards, NEW type \in {"kMsg", "kClose"},
         NEW body \in Messages \cup {NoMessage}, UnitPush(s, type, body),
         \A t \in Shards : VersionsInQueue(t)
  PROVE  \A t \in Shards : VersionsInQueue(t)'
<1> DEFINE e == [type |-> type, body |-> body, seq |-> ver[s] + 1]
<1>1. ASSUME NEW t \in Shards \ {s} PROVE VersionsInQueue(t)'
  BY UnitPushAppends, VersionsKept
<1>2. VersionsInQueue(s)'
  <2>0. /\ que[s] \in Seq(Entry) /\ ver[s] \in Nat /\ VersionsInQueue(s)
        /\ e.seq = ver[s] + 1
    BY DEF TypeOK
  <2>1. /\ e \in Entry /\ ~ IsNotify(e)
        /\ que'[s] = Append(que[s], e)
        /\ Len(que'[s]) = Len(que[s]) + 1
        /\ Len(que[s]) \in Nat
        /\ que'[s][Len(que[s]) + 1] = e
        /\ que'[s] # <<>>
        /\ \A i \in 1 .. Len(que[s]) : que'[s][i] = que[s][i]
        /\ ver'[s] = ver[s] + 1
        /\ applied' = applied
    BY UnitPushAppends
  <2> HIDE DEF e
  <2>2. Chained(que'[s])
    BY <2>0, <2>1, ChainedAppend DEF VersionsInQueue
  <2>3. que'[s][Len(que'[s])].seq = ver'[s]
    BY <2>0, <2>1
  <2>4. ~ IsNotify(que'[s][1]) /\ que'[s][1].seq = applied'[s] + 1
    <3>1. CASE que[s] = <<>>
      BY <2>0, <2>1, <3>1, EmptySeq DEF VersionsInQueue
    <3>2. CASE que[s] # <<>>
      <4>1. 1 \in 1 .. Len(que[s])
        BY <2>0, <3>2, EmptySeq
      <4> QED
        BY <2>0, <2>1, <3>2, <4>1 DEF VersionsInQueue
    <3> QED
      BY <3>1, <3>2
  <2> QED
    BY <2>1, <2>2, <2>3, <2>4 DEF VersionsInQueue
<1> QED
  BY <1>1, <1>2

LEMMA UnitPushWorkers ==
  ASSUME TypeOK, NEW s \in Shards, NEW type \in {"kMsg", "kClose"},
         NEW body \in Messages \cup {NoMessage}, UnitPush(s, type, body),
         held' = held, \A t \in Shards : WorkerKnows(t)
  PROVE  \A t \in Shards : WorkerKnows(t)' /\ (wpc'[t] = "pop") = (wpc[t] = "pop")
<1>1. \A t \in Shards \ {s} : wpc'[t] = wpc[t]
  BY DEF TypeOK, UnitPush
<1>2. wpc'[s] = IF waiting[s] /\ wpc[s] = "asleep" THEN "woken" ELSE wpc[s]
  BY DEF TypeOK, UnitPush, Woken
<1>3. ASSUME NEW t \in Shards \ {s} PROVE WorkerKnows(t)'
  BY <1>1, UnitPushAppends, WorkerKept
<1>4. WorkerKnows(s)'
  <2>0. WorkerKnows(s) /\ que[s] \in Seq(Entry)
    BY DEF TypeOK
  <2>1. /\ que'[s] # <<>> /\ waiting' = waiting
        /\ \A i \in 1 .. Len(que[s]) : que'[s][i] = que[s][i]
    BY UnitPushAppends
  <2>2. que[s] # <<>> => que'[s][1] = que[s][1]
    BY <2>0, <2>1, EmptySeq
  <2> QED
    BY <1>2, <2>0, <2>1, <2>2 DEF WorkerKnows
<1> QED
  BY <1>1, <1>2, <1>3, <1>4

LEMMA UnitPushDrainers ==
  ASSUME TypeOK, TypeOK', NEW s \in Shards, NEW type \in {"kMsg", "kClose"},
         NEW body \in Messages \cup {NoMessage}, UnitPush(s, type, body),
         arr' = arr, rand' = rand, \A d \in Drainers : DrainerKnows(d)
  PROVE  \A d \in Drainers : DrainerKnows(d)'
<1>0. /\ Len(que[s]) \in Nat /\ Len(que'[s]) = Len(que[s]) + 1
      /\ \A i \in 1 .. Len(que[s]) : que'[s][i] = que[s][i]
      /\ ver'[s] = ver[s] + 1
      /\ \A t \in Shards \ {s} : que'[t] = que[t] /\ ver'[t] = ver[t]
      /\ applied' = applied
  BY UnitPushAppends
<1>1. \A t \in Shards : ver[t] <= ver'[t] /\ applied[t] <= applied'[t]
  <2>1. \A t \in Shards : ver[t] \in Nat /\ applied[t] \in Nat
    BY DEF TypeOK
  <2> QED
    BY <1>0, <2>1
<1>2. \A t \in Shards : \A i \in DOMAIN que[t] :
        i \in DOMAIN que'[t] /\ que'[t][i] = que[t][i]
  <2>1. \A t \in Shards : que[t] \in Seq(Entry) /\ que'[t] \in Seq(Entry)
    BY DEF TypeOK
  <2>2. \A t \in Shards : DOMAIN que[t] = 1 .. Len(que[t]) /\ DOMAIN que'[t] = 1 .. Len(que'[t])
    BY <2>1, LenProperties
  <2> QED
    BY <1>0, <2>2
<1>3. \A d \in Drainers : dpc'[d] = dpc[d] \/ (dpc[d] = "asleep" /\ dpc'[d] = "woken")
  BY UnitPushType DEF MessageType
<1> QED
  BY <1>1, <1>2, <1>3, DrainerKept

-----------------------------------------------------------------------------
(***************************************************************************)
(* The inductive invariant.                                                *)
(***************************************************************************)
LEMMA InvInit == Init => UnitsInv
<1> SUFFICES ASSUME Init PROVE UnitsInv
  OBVIOUS
<1>1. TypeOK
  BY TypeInit
<1>2. \A s \in Shards : que[s] = <<>> /\ Len(que[s]) = 0
  BY DEF Init
<1>3. \A s \in Shards : VersionsInQueue(s)
  BY <1>2 DEF Init, VersionsInQueue, Chained
<1>4. \A s \in Shards : ContentsOfQueue(s)
  BY <1>2, NAssumption DEF Init, ContentsOfQueue, Shards
<1>5. \A s \in Shards : WorkerKnows(s)
  BY DEF Init, WorkerKnows
<1>6. \A s \in Shards : DeliveredSoFar(s)
  BY DEF Init, DeliveredSoFar
<1>7. \A d \in Drainers : DrainerKnows(d)
  BY <1>1, ShardAtIsShard DEF Init, DrainerKnows
<1> QED
  BY <1>1, <1>3, <1>4, <1>5, <1>6, <1>7 DEF UnitsInv

LEMMA InvPush ==
  ASSUME UnitsInv, TypeOK', NEW m \in Messages, Push(m)
  PROVE  UnitsInv'
<1> DEFINE s == ShardOf[m]
<1>0. /\ TypeOK /\ s \in Shards /\ UnitPush(s, "kMsg", m) /\ closed = 0 /\ closed' = 0
      /\ held' = held /\ arr' = arr /\ rand' = rand /\ delivered' = delivered
      /\ pushed' = [pushed EXCEPT ![s] = Append(@, m)]
  BY ShardOfAssumption DEF UnitsInv, Push, dtorVars
<1> HIDE DEF s
<1>1. /\ [type |-> "kMsg", body |-> m, seq |-> ver[s] + 1] \in Entry
      /\ Len(que'[s]) = Len(que[s]) + 1
      /\ Len(que[s]) \in Nat
      /\ que'[s][Len(que[s]) + 1] = [type |-> "kMsg", body |-> m, seq |-> ver[s] + 1]
      /\ \A i \in 1 .. Len(que[s]) : que'[s][i] = que[s][i]
      /\ ver'[s] = ver[s] + 1
      /\ \A t \in Shards \ {s} : que'[t] = que[t] /\ ver'[t] = ver[t]
      /\ applied' = applied
  <2>1. m \in Messages \cup {NoMessage} /\ "kMsg" \in {"kMsg", "kClose"}
    OBVIOUS
  <2> QED
    BY <1>0, <2>1, UnitPushAppends
<1>2. /\ \A t \in Shards \ {s} : pushed'[t] = pushed[t]
      /\ Len(pushed[s]) \in Nat
      /\ Len(pushed'[s]) = Len(pushed[s]) + 1
      /\ pushed'[s][Len(pushed[s]) + 1] = m
      /\ \A i \in 1 .. Len(pushed[s]) : pushed'[s][i] = pushed[s][i]
  <2>1. pushed[s] \in Seq(Messages) /\ pushed'[s] = Append(pushed[s], m)
    BY <1>0 DEF TypeOK
  <2>2. \A t \in Shards \ {s} : pushed'[t] = pushed[t]
    BY <1>0 DEF TypeOK
  <2> QED
    BY <2>1, <2>2, AppendProperties, LenProperties
<1>3. \A t \in Shards : VersionsInQueue(t)'
  BY <1>0, UnitPushVersions DEF UnitsInv
<1>4. \A t \in Shards : WorkerKnows(t)' /\ (wpc'[t] = "pop") = (wpc[t] = "pop")
  BY <1>0, UnitPushWorkers DEF UnitsInv
<1>5. \A d \in Drainers : DrainerKnows(d)'
  BY <1>0, UnitPushDrainers DEF UnitsInv
<1>6. ASSUME NEW t \in Shards PROVE ContentsOfQueue(t)'
  <2>0. ContentsOfQueue(t)
    BY DEF UnitsInv
  <2>1. CASE t # s
    BY <1>0, <1>1, <1>2, <2>0, <2>1, ContentsKept
  <2>2. CASE t = s
    <3>0. ~ (closed > s)
      BY <1>0 DEF Shards
    <3>1. ver[s] = Len(pushed[s]) /\ ver'[s] = Len(pushed'[s])
      BY <1>1, <1>2, <2>0, <2>2, <3>0 DEF ContentsOfQueue
    <3>2. ASSUME NEW i \in 1 .. Len(que'[s]), que'[s][i].type = "kMsg"
          PROVE  /\ que'[s][i].seq \in 1 .. Len(pushed'[s])
                 /\ que'[s][i].body = pushed'[s][que'[s][i].seq]
      <4>1. CASE i = Len(que[s]) + 1
        <5>1. que'[s][i].seq = Len(pushed[s]) + 1 /\ que'[s][i].body = m
          BY <1>1, <3>1, <4>1
        <5> QED
          BY <1>2, <5>1
      <4>2. CASE i \in 1 .. Len(que[s])
        <5>1. que'[s][i] = que[s][i]
          BY <1>1, <4>2
        <5>2. /\ que[s][i].seq \in 1 .. Len(pushed[s])
              /\ que[s][i].body = pushed[s][que[s][i].seq]
          BY <2>0, <2>2, <3>2, <4>2, <5>1 DEF ContentsOfQueue
        <5> QED
          BY <1>2, <5>1, <5>2
      <4> QED
        BY <1>1, <4>1, <4>2
    <3>3. ASSUME NEW i \in 1 .. Len(que'[s]) PROVE que'[s][i].type # "kClose"
      <4>1. CASE i = Len(que[s]) + 1
        BY <1>1, <4>1
      <4>2. CASE i \in 1 .. Len(que[s])
        BY <1>1, <2>0, <2>2, <3>0, <4>2 DEF ContentsOfQueue
      <4> QED
        BY <1>1, <4>1, <4>2
    <3>4. ~ (closed' > s)
      BY <1>0, <3>0
    <3> QED
      <4>1. Len(pushed'[s]) \in Nat
        BY <1>2
      <4> QED
        BY <2>2, <3>1, <3>2, <3>3, <3>4, <4>1 DEF ContentsOfQueue
  <2> QED
    BY <2>1, <2>2
<1>7. ASSUME NEW t \in Shards PROVE DeliveredSoFar(t)'
  <2>0. DeliveredSoFar(t)
    BY DEF UnitsInv
  <2>1. CASE t # s
    BY <1>0, <1>1, <1>2, <1>4, <2>0, <2>1, DeliveredKept
  <2>2. CASE t = s
    <3>1. Len(delivered[s]) \in Nat
      BY <1>0, LenProperties DEF TypeOK
    <3> QED
      BY <1>0, <1>1, <1>2, <1>4, <2>0, <2>2, <3>1 DEF DeliveredSoFar
  <2> QED
    BY <2>1, <2>2
<1> QED
  BY <1>3, <1>4, <1>5, <1>6, <1>7 DEF UnitsInv

LEMMA InvClose ==
  ASSUME UnitsInv, TypeOK', DestructorClose
  PROVE  UnitsInv'
<1> DEFINE s == closed
<1>0. /\ TypeOK /\ s \in Shards /\ UnitPush(s, "kClose", NoMessage)
      /\ closed' = closed + 1 /\ closed \in Nat
      /\ held' = held /\ arr' = arr /\ rand' = rand /\ delivered' = delivered
      /\ pushed' = pushed
  <2>1. TypeOK /\ closed < N
    BY DEF UnitsInv, DestructorClose
  <2>2. closed \in 0 .. N
    BY <2>1 DEF TypeOK
  <2>3. closed \in Shards /\ closed \in Nat
    BY <2>1, <2>2, NAssumption DEF Shards
  <2> QED
    BY <2>1, <2>3 DEF DestructorClose
<1>1. /\ Len(que'[s]) = Len(que[s]) + 1
      /\ Len(que[s]) \in Nat
      /\ que'[s][Len(que[s]) + 1] = [type |-> "kClose", body |-> NoMessage, seq |-> ver[s] + 1]
      /\ \A i \in 1 .. Len(que[s]) : que'[s][i] = que[s][i]
      /\ ver'[s] = ver[s] + 1
      /\ \A t \in Shards \ {s} : que'[t] = que[t] /\ ver'[t] = ver[t]
      /\ applied' = applied
  <2>1. NoMessage \in Messages \cup {NoMessage} /\ "kClose" \in {"kMsg", "kClose"}
    OBVIOUS
  <2> QED
    BY <1>0, <2>1, UnitPushAppends
<1>3. \A t \in Shards : VersionsInQueue(t)'
  BY <1>0, UnitPushVersions DEF UnitsInv
<1>4. \A t \in Shards : WorkerKnows(t)' /\ (wpc'[t] = "pop") = (wpc[t] = "pop")
  BY <1>0, UnitPushWorkers DEF UnitsInv
<1>5. \A d \in Drainers : DrainerKnows(d)'
  BY <1>0, UnitPushDrainers DEF UnitsInv
<1>6. ASSUME NEW t \in Shards PROVE ContentsOfQueue(t)'
  <2>0. ContentsOfQueue(t)
    BY DEF UnitsInv
  <2>1. CASE t # s
    <3>1. (closed' > t) = (closed > t)
      BY <1>0, <2>1 DEF Shards
    <3> QED
      BY <1>0, <1>1, <2>0, <2>1, <3>1, ContentsKept
  <2>2. CASE t = s
    <3>0. ~ (closed > s) /\ closed' > s
      BY <1>0
    <3>1. ver'[s] = Len(pushed'[s]) + 1
      BY <1>0, <1>1, <2>0, <2>2, <3>0 DEF ContentsOfQueue
    <3>2. ASSUME NEW i \in 1 .. Len(que'[s])
          PROVE  /\ que'[s][i].type = "kMsg" => /\ que'[s][i].seq \in 1 .. Len(pushed'[s])
                                                /\ que'[s][i].body = pushed'[s][que'[s][i].seq]
                 /\ que'[s][i].type = "kClose" => que'[s][i].seq = ver'[s]
      <4>1. CASE i = Len(que[s]) + 1
        BY <1>1, <4>1
      <4>2. CASE i \in 1 .. Len(que[s])
        <5>1. que'[s][i] = que[s][i]
          BY <1>1, <4>2
        <5>2. que[s][i].type # "kClose"
          BY <2>0, <2>2, <3>0, <4>2 DEF ContentsOfQueue
        <5>3. que[s][i].type = "kMsg" => /\ que[s][i].seq \in 1 .. Len(pushed[s])
                                         /\ que[s][i].body = pushed[s][que[s][i].seq]
          BY <2>0, <2>2, <4>2 DEF ContentsOfQueue
        <5> QED
          BY <1>0, <5>1, <5>2, <5>3
      <4> QED
        BY <1>1, <4>1, <4>2
    <3> QED
      BY <2>2, <3>0, <3>1, <3>2 DEF ContentsOfQueue
  <2> QED
    BY <2>1, <2>2
<1>7. ASSUME NEW t \in Shards PROVE DeliveredSoFar(t)'
  BY <1>0, <1>1, <1>4, DeliveredKept DEF UnitsInv
<1> QED
  BY <1>3, <1>4, <1>5, <1>6, <1>7 DEF UnitsInv

\* Peek finds no kNotify at the front of its queue, so it consumes none: it
\* only reads.
LEMMA PeekOnlyReads ==
  ASSUME UnitsInv, NEW s \in Shards, WorkerPeek(s)
  PROVE  /\ que' = que /\ dpc' = dpc
         /\ wpc' = [wpc EXCEPT ![s] = PeekResult(que[s])]
         /\ held' = [held EXCEPT ![s] =
                       IF PeekResult(que[s]) = "consume" THEN que[s][1].body ELSE NoMessage]
         /\ que[s] # <<>> /\ que[s][1].type \in {"kMsg", "kClose"}
         /\ que[s][1] \in Entry
<1>0. TypeOK /\ que[s] \in Seq(Entry) /\ WorkerKnows(s) /\ VersionsInQueue(s)
  BY DEF UnitsInv, TypeOK
<1>1. que[s] # <<>> /\ ~ IsNotify(que[s][1])
  BY <1>0 DEF WorkerPeek, WorkerKnows, VersionsInQueue
<1>2. que[s][1] \in Entry
  BY <1>0, <1>1, EmptySeq, ElementOfSeq
<1>3. DropMarkers(que[s]) = que[s] /\ ~ ShouldNotify(que[s])
  BY <1>0, <1>1, NothingToDrop
<1>4. que' = que /\ dpc' = dpc
  BY <1>0, <1>3 DEF WorkerPeek, TypeOK
<1>5. que[s][1].type \in {"kMsg", "kClose"}
  BY <1>1, <1>2 DEF Entry, MessageType, IsNotify
<1> QED
  BY <1>1, <1>2, <1>3, <1>4, <1>5 DEF WorkerPeek

LEMMA InvPeek ==
  ASSUME UnitsInv, TypeOK', NEW s \in Shards, WorkerPeek(s)
  PROVE  UnitsInv'
<1>0. /\ TypeOK
      /\ UNCHANGED <<que, dpc, ver, applied, waiting, arr, rand, closed, pushed, delivered>>
  BY PeekOnlyReads DEF UnitsInv, WorkerPeek, dtorVars
<1>1. \A t \in Shards : VersionsInQueue(t)' /\ ContentsOfQueue(t)'
  BY <1>0, VersionsKept, ContentsKept DEF UnitsInv
<1>2. \A d \in Drainers : DrainerKnows(d)'
  <2>1. \A t \in Shards : ver[t] <= ver'[t] /\ applied[t] <= applied'[t]
    <3>1. \A t \in Shards : ver[t] \in Nat /\ applied[t] \in Nat
      BY <1>0 DEF TypeOK
    <3> QED
      BY <1>0, <3>1
  <2> QED
    BY <1>0, <2>1, DrainerKept DEF UnitsInv
<1>3. ASSUME NEW t \in Shards PROVE WorkerKnows(t)' /\ DeliveredSoFar(t)'
  <2>0. WorkerKnows(t) /\ DeliveredSoFar(t)
    BY DEF UnitsInv
  <2>1. CASE t # s
    <3>1. wpc'[t] = wpc[t] /\ held'[t] = held[t]
      BY <1>0, <2>1 DEF WorkerPeek, TypeOK
    <3> QED
      BY <1>0, <2>0, <3>1, WorkerKept, DeliveredKept
  <2>2. CASE t = s
    <3>1. /\ wpc[s] = "peek"
          /\ wpc'[s] = PeekResult(que[s])
          /\ held'[s] = IF PeekResult(que[s]) = "consume" THEN que[s][1].body ELSE NoMessage
      BY <1>0, PeekOnlyReads DEF TypeOK, WorkerPeek
    <3>2. que[s] # <<>> /\ que[s][1].type \in {"kMsg", "kClose"}
      BY PeekOnlyReads
    <3>3. wpc'[s] = IF que[s][1].type = "kClose" THEN "exited" ELSE "consume"
      BY <3>1, <3>2 DEF PeekResult
    <3>4. WorkerKnows(s)'
      BY <1>0, <3>1, <3>2, <3>3 DEF WorkerKnows
    <3>5. DeliveredSoFar(s)'
      BY <1>0, <2>0, <2>2, <3>1, <3>3, DeliveredKept
    <3> QED
      BY <2>2, <3>4, <3>5
  <2> QED
    BY <2>1, <2>2
<1> QED
  BY <1>1, <1>2, <1>3 DEF UnitsInv

\* The message that is applied is the next one that was pushed.
LEMMA InvConsume ==
  ASSUME UnitsInv, TypeOK', NEW s \in Shards, WorkerConsume(s)
  PROVE  UnitsInv'
<1>0. /\ TypeOK
      /\ UNCHANGED <<que, dpc, ver, applied, waiting, held, arr, rand, closed, pushed>>
      /\ wpc[s] = "consume"
      /\ wpc'[s] = "pop"
      /\ delivered'[s] = Append(delivered[s], held[s])
      /\ \A t \in Shards \ {s} : wpc'[t] = wpc[t] /\ delivered'[t] = delivered[t]
  BY DEF UnitsInv, TypeOK, WorkerConsume, unitVars, drainVars, dtorVars
<1>1. \A t \in Shards : VersionsInQueue(t)' /\ ContentsOfQueue(t)'
  BY <1>0, VersionsKept, ContentsKept DEF UnitsInv
<1>2. \A d \in Drainers : DrainerKnows(d)'
  <2>1. \A t \in Shards : ver[t] <= ver'[t] /\ applied[t] <= applied'[t]
    <3>1. \A t \in Shards : ver[t] \in Nat /\ applied[t] \in Nat
      BY <1>0 DEF TypeOK
    <3> QED
      BY <1>0, <3>1
  <2> QED
    BY <1>0, <2>1, DrainerKept DEF UnitsInv
<1>3. \A t \in Shards \ {s} : WorkerKnows(t)' /\ DeliveredSoFar(t)'
  BY <1>0, WorkerKept, DeliveredKept DEF UnitsInv
<1>4. WorkerKnows(s)'
  BY <1>0 DEF UnitsInv, WorkerKnows
<1>5. DeliveredSoFar(s)'
  <2> DEFINE n == Len(delivered[s])
  <2>0. /\ WorkerKnows(s) /\ DeliveredSoFar(s) /\ ContentsOfQueue(s) /\ VersionsInQueue(s)
        /\ que[s] \in Seq(Entry) /\ delivered[s] \in Seq(Messages \cup {NoMessage})
        /\ held[s] \in Messages \cup {NoMessage} /\ applied[s] \in Nat
    BY <1>0 DEF UnitsInv, TypeOK
  <2>1. que[s] # <<>> /\ que[s][1].type = "kMsg" /\ held[s] = que[s][1].body
    BY <1>0, <2>0 DEF WorkerKnows
  <2>2. 1 \in 1 .. Len(que[s]) /\ que[s][1].seq = applied[s] + 1
    BY <2>0, <2>1, EmptySeq DEF VersionsInQueue
  <2>3. applied[s] + 1 \in 1 .. Len(pushed[s]) /\ held[s] = pushed[s][applied[s] + 1]
    BY <2>0, <2>1, <2>2 DEF ContentsOfQueue
  <2>4. n = applied[s]
    BY <1>0, <2>0 DEF DeliveredSoFar
  <2>5. /\ Len(delivered'[s]) = n + 1
        /\ delivered'[s][n + 1] = held[s]
        /\ \A i \in 1 .. n : delivered'[s][i] = delivered[s][i]
    BY <1>0, <2>0, AppendProperties
  <2>6. \A i \in 1 .. n : delivered[s][i] = pushed[s][i]
    BY <2>0 DEF DeliveredSoFar
  <2>7. ASSUME NEW i \in 1 .. n + 1 PROVE delivered'[s][i] = pushed[s][i]
    BY <2>0, <2>3, <2>4, <2>5, <2>6
  <2>8. n + 1 <= Len(pushed[s]) /\ n + 1 = applied[s] + 1
    BY <2>3, <2>4
  <2> QED
    BY <1>0, <2>5, <2>7, <2>8 DEF DeliveredSoFar
<1> QED
  BY <1>1, <1>2, <1>3, <1>4, <1>5 DEF UnitsInv

\* Popping takes the front and the markers behind it.  Their version is the
\* one just applied, so whoever they wake has what it waited for.
LEMMA InvPop ==
  ASSUME UnitsInv, TypeOK', NEW s \in Shards, WorkerPop(s)
  PROVE  UnitsInv'
<1> DEFINE q == que[s]
           r == AfterPop(que[s])
<1>0. /\ TypeOK /\ q \in Seq(Entry) /\ applied[s] \in Nat
      /\ WorkerKnows(s) /\ VersionsInQueue(s) /\ ContentsOfQueue(s) /\ DeliveredSoFar(s)
  BY DEF UnitsInv, TypeOK
<1>1. q # <<>> /\ wpc[s] = "pop"
  BY <1>0 DEF WorkerPop, WorkerKnows
<1>2. /\ que'[s] = r
      /\ applied'[s] = applied[s] + 1
      /\ wpc'[s] = IF r = <<>> THEN "enter" ELSE "peek"
      /\ dpc' = IF ShouldNotify(Tail(q)) THEN DrainersNotified(s) ELSE dpc
      /\ \A t \in Shards \ {s} : /\ que'[t] = que[t] /\ applied'[t] = applied[t]
                                 /\ wpc'[t] = wpc[t] /\ held'[t] = held[t]
      /\ UNCHANGED <<ver, waiting, arr, rand, closed, pushed, delivered>>
  BY <1>0, <1>1 DEF TypeOK, WorkerPop, dtorVars
<1>3. Chained(q) /\ ~ IsNotify(q[1]) /\ q[1].seq = applied[s] + 1 /\ q[Len(q)].seq = ver[s]
  BY <1>0, <1>1 DEF VersionsInQueue
<1> HIDE DEF q, r
<1>4. /\ r \in Seq(Entry)
      /\ Chained(r)
      /\ r = <<>> => q[Len(q)].seq = q[1].seq
      /\ r # <<>> => /\ ~ IsNotify(r[1])
                     /\ r[1].seq = q[1].seq + 1
                     /\ r[Len(r)] = q[Len(q)]
  BY <1>0, <1>1, <1>3, AfterPopIs DEF q, r
<1>5. PICK f \in 1 .. Len(q) :
         /\ Len(r) = Len(q) - f
         /\ \A i \in 1 .. Len(r) : r[i] = q[i + f]
         /\ \A i \in 2 .. f : IsNotify(q[i]) /\ q[i].seq = q[1].seq
         /\ ~ ShouldNotify(Tail(q)) => f = 1
  BY <1>0, <1>1, <1>3, AfterPopIs DEF q, r
<1>6. Len(q) \in Nat /\ Len(r) \in Nat
  BY <1>0, <1>4, LenProperties
<1>7. ASSUME NEW t \in Shards \ {s}
      PROVE  VersionsInQueue(t)' /\ ContentsOfQueue(t)' /\ WorkerKnows(t)' /\ DeliveredSoFar(t)'
  BY <1>2, VersionsKept, ContentsKept, WorkerKept, DeliveredKept DEF UnitsInv
<1>8. VersionsInQueue(s)'
  BY <1>0, <1>2, <1>3, <1>4 DEF VersionsInQueue
<1>9. ContentsOfQueue(s)'
  <2>1. \A i \in 1 .. Len(q) :
          /\ q[i].type = "kMsg" => /\ q[i].seq \in 1 .. Len(pushed[s])
                                   /\ q[i].body = pushed[s][q[i].seq]
          /\ q[i].type = "kClose" => closed > s /\ q[i].seq = ver[s]
    BY <1>0 DEF ContentsOfQueue, q
  <2>2. \A i \in 1 .. Len(r) : i + f \in 1 .. Len(q) /\ r[i] = q[i + f]
    BY <1>5, <1>6
  <2>3. \A i \in 1 .. Len(r) :
          /\ r[i].type = "kMsg" => /\ r[i].seq \in 1 .. Len(pushed[s])
                                   /\ r[i].body = pushed[s][r[i].seq]
          /\ r[i].type = "kClose" => closed > s /\ r[i].seq = ver[s]
    BY <2>1, <2>2
  <2> QED
    BY <1>0, <1>2, <2>3 DEF ContentsOfQueue
<1>10. WorkerKnows(s)'
  BY <1>2 DEF WorkerKnows
<1>11. DeliveredSoFar(s)'
  BY <1>0, <1>1, <1>2 DEF DeliveredSoFar
<1>12. ASSUME NEW d \in Drainers PROVE DrainerKnows(d)'
  <2>0. /\ DrainerKnows(d) /\ ShardAt(d)' = ShardAt(d) /\ ShardAt(d) \in Shards
        /\ arr' = arr /\ ver' = ver /\ arr[d][s] \in Nat
    BY <1>0, <1>2, ShardAtIsShard DEF UnitsInv, ShardAt, TypeOK
  <2>1. \A t \in Shards : arr'[d][t] <= ver'[t]
    BY <2>0 DEF DrainerKnows
  <2>2. CASE ShardAt(d) # s
    <3>1. dpc'[d] = dpc[d] /\ que'[ShardAt(d)] = que[ShardAt(d)]
          /\ applied'[ShardAt(d)] = applied[ShardAt(d)]
      BY <1>0, <1>2, <2>0, <2>2, DrainersNotifiedType
    <3> QED
      BY <2>0, <2>1, <3>1 DEF DrainerKnows, Marked, Drained
  <2>3. CASE ShardAt(d) = s
    <3> DEFINE v == arr[d][s]
    <3>1. ASSUME NEW i \in 1 .. Len(q), IsNotify(q[i]), q[i].seq >= v
          PROVE  Drained(d)' \/ (Marked(ShardAt(d), arr[d][ShardAt(d)])')
      <4>1. CASE i <= f
        <5>1. q[i].seq = q[1].seq
          BY <1>3, <1>5, <3>1, <4>1
        <5>2. applied'[s] >= v
          BY <1>2, <1>3, <3>1, <5>1
        <5> QED
          BY <2>0, <2>3, <5>2 DEF Drained
      <4>2. CASE i > f
        <5>1. i - f \in 1 .. Len(r) /\ r[i - f] = q[(i - f) + f]
          BY <1>5, <1>6, <4>2
        <5>2. r[i - f] = q[i]
          BY <1>5, <5>1
        <5>3. DOMAIN r = 1 .. Len(r)
          BY <1>4, LenProperties
        <5> QED
          BY <1>2, <2>0, <2>3, <3>1, <5>1, <5>2, <5>3 DEF Marked
      <4> QED
        BY <1>5, <4>1, <4>2
    <3>2. DOMAIN q = 1 .. Len(q)
      BY <1>0, LenProperties
    <3>3. Marked(s, v) => Drained(d)' \/ (Marked(ShardAt(d), arr[d][ShardAt(d)])')
      BY <3>1, <3>2 DEF Marked, q
    <3>4. Drained(d) => Drained(d)'
      BY <1>0, <1>2, <2>0, <2>3 DEF Drained
    <3>5. CASE ShouldNotify(Tail(q))
      <4>1. dpc'[d] # "asleep" /\ (dpc'[d] = "woken" => dpc[d] \in {"asleep", "woken"})
        BY <1>0, <1>2, <2>3, <3>5, DrainersNotifiedType
      <4> QED
        BY <2>0, <2>1, <2>3, <3>3, <3>4, <4>1 DEF DrainerKnows
    <3>6. CASE ~ ShouldNotify(Tail(q))
      <4>1. dpc'[d] = dpc[d] /\ f = 1
        BY <1>2, <1>5, <3>6
      <4>2. ASSUME Marked(s, v) PROVE Marked(ShardAt(d), arr[d][ShardAt(d)])'
        <5>1. PICK i \in 1 .. Len(q) : IsNotify(q[i]) /\ q[i].seq >= v
          BY <3>2, <4>2 DEF Marked, q
        <5>2. i # 1
          BY <1>3, <5>1
        <5>3. i - 1 \in 1 .. Len(r) /\ r[i - 1] = q[(i - 1) + 1]
          BY <1>5, <1>6, <4>1, <5>2
        <5>4. DOMAIN r = 1 .. Len(r) /\ r[i - 1] = q[i]
          BY <1>4, <5>3, LenProperties
        <5> QED
          BY <1>2, <2>0, <2>3, <5>1, <5>3, <5>4 DEF Marked
      <4> QED
        BY <2>0, <2>1, <2>3, <3>4, <4>1, <4>2 DEF DrainerKnows
    <3> QED
      BY <3>5, <3>6
  <2> QED
    BY <2>2, <2>3
<1> QED
  BY <1>7, <1>8, <1>9, <1>10, <1>11, <1>12 DEF UnitsInv

\* A worker that finds its queue empty goes to sleep, and only then.
LEMMA InvWait ==
  ASSUME UnitsInv, TypeOK', NEW s \in Shards, WorkerWait(s) \/ WorkerWake(s)
  PROVE  UnitsInv'
<1>0. /\ TypeOK
      /\ UNCHANGED <<que, dpc, ver, applied, held, arr, rand, closed, pushed, delivered>>
      /\ \A t \in Shards \ {s} : wpc'[t] = wpc[t] /\ waiting'[t] = waiting[t]
      /\ wpc[s] \in {"enter", "woken"}
      /\ wpc'[s] = IF que[s] = <<>> THEN "asleep" ELSE "peek"
      /\ wpc[s] = "enter" /\ que[s] = <<>> => waiting'[s]
      /\ wpc[s] = "woken" => waiting' = waiting
  BY DEF UnitsInv, TypeOK, WorkerWait, WorkerWake, unitVars, drainVars, dtorVars
<1>1. \A t \in Shards : VersionsInQueue(t)' /\ ContentsOfQueue(t)'
  BY <1>0, VersionsKept, ContentsKept DEF UnitsInv
<1>2. \A d \in Drainers : DrainerKnows(d)'
  <2>1. \A t \in Shards : ver[t] <= ver'[t] /\ applied[t] <= applied'[t]
    <3>1. \A t \in Shards : ver[t] \in Nat /\ applied[t] \in Nat
      BY <1>0 DEF TypeOK
    <3> QED
      BY <1>0, <3>1
  <2> QED
    BY <1>0, <2>1, DrainerKept DEF UnitsInv
<1>3. \A t \in Shards : DeliveredSoFar(t)'
  <2>1. \A t \in Shards : (wpc'[t] = "pop") = (wpc[t] = "pop")
    BY <1>0
  <2> QED
    BY <1>0, <2>1, DeliveredKept DEF UnitsInv
<1>4. \A t \in Shards \ {s} : WorkerKnows(t)'
  BY <1>0, WorkerKept DEF UnitsInv
<1>5. WorkerKnows(s)'
  BY <1>0 DEF UnitsInv, WorkerKnows
<1> QED
  BY <1>1, <1>2, <1>3, <1>4, <1>5 DEF UnitsInv

\* cv_.wait may return for no reason.
LEMMA InvSpurious ==
  ASSUME UnitsInv, TypeOK', SpuriousWakeup
  PROVE  UnitsInv'
<1>0. /\ TypeOK
      /\ UNCHANGED <<que, ver, applied, waiting, held, arr, rand, closed, pushed, delivered>>
      /\ \A t \in Shards : wpc'[t] = wpc[t] \/ (wpc[t] = "asleep" /\ wpc'[t] = "woken")
      /\ \A d \in Drainers : dpc'[d] = dpc[d] \/ (dpc[d] = "asleep" /\ dpc'[d] = "woken")
  BY DEF UnitsInv, TypeOK, SpuriousWakeup, unitVars, dtorVars
<1>1. \A t \in Shards : VersionsInQueue(t)' /\ ContentsOfQueue(t)'
  BY <1>0, VersionsKept, ContentsKept DEF UnitsInv
<1>2. \A d \in Drainers : DrainerKnows(d)'
  <2>1. \A t \in Shards : ver[t] <= ver'[t] /\ applied[t] <= applied'[t]
    <3>1. \A t \in Shards : ver[t] \in Nat /\ applied[t] \in Nat
      BY <1>0 DEF TypeOK
    <3> QED
      BY <1>0, <3>1
  <2> QED
    BY <1>0, <2>1, DrainerKept DEF UnitsInv
<1>3. \A t \in Shards : DeliveredSoFar(t)'
  <2>1. \A t \in Shards : (wpc'[t] = "pop") = (wpc[t] = "pop")
    BY <1>0
  <2> QED
    BY <1>0, <2>1, DeliveredKept DEF UnitsInv
<1>4. ASSUME NEW t \in Shards PROVE WorkerKnows(t)'
  <2>1. WorkerKnows(t)
    BY DEF UnitsInv
  <2>2. CASE wpc'[t] = wpc[t]
    BY <1>0, <2>1, <2>2, WorkerKept
  <2>3. CASE wpc[t] = "asleep" /\ wpc'[t] = "woken"
    BY <1>0, <2>1, <2>3 DEF WorkerKnows
  <2> QED
    BY <1>0, <2>2, <2>3
<1> QED
  BY <1>1, <1>2, <1>3, <1>4 DEF UnitsInv

-----------------------------------------------------------------------------
(***************************************************************************)
(* The steps of a drainer.                                                 *)
(***************************************************************************)

\* A step that leaves the units and the workers alone preserves the invariant
\* if it preserves what the drainers know.
LEMMA InvDrainerOnly ==
  ASSUME UnitsInv, TypeOK',
         UNCHANGED <<que, ver, applied, waiting, wpc, held, closed, pushed, delivered>>,
         \A d \in Drainers : DrainerKnows(d)'
  PROVE  UnitsInv'
<1>1. \A t \in Shards : VersionsInQueue(t)' /\ ContentsOfQueue(t)'
  BY VersionsKept, ContentsKept DEF UnitsInv
<1>2. \A t \in Shards : WorkerKnows(t)' /\ DeliveredSoFar(t)'
  BY WorkerKept, DeliveredKept DEF UnitsInv
<1> QED
  BY <1>1, <1>2 DEF UnitsInv

\* Other drainers are not disturbed by the steps of one.
LEMMA OtherDrainersKept ==
  ASSUME UnitsInv, TypeOK', NEW d \in Drainers, UNCHANGED <<que, ver, applied>>,
         \A e \in Drainers \ {d} : arr'[e] = arr[e] /\ rand'[e] = rand[e] /\ dpc'[e] = dpc[e]
  PROVE  \A e \in Drainers \ {d} : DrainerKnows(e)'
<1>1. TypeOK
  BY DEF UnitsInv
<1>2. \A t \in Shards : ver[t] <= ver'[t] /\ applied[t] <= applied'[t]
  <2>1. \A t \in Shards : ver[t] \in Nat /\ applied[t] \in Nat
    BY <1>1 DEF TypeOK
  <2> QED
    BY <2>1
<1> QED
  BY <1>1, <1>2, DrainerKept DEF UnitsInv

LEMMA InvDrainWalk ==
  ASSUME UnitsInv, TypeOK', NEW d \in Drainers,
         DrainCall(d) \/ DrainRead(d) \/ DrainCheck(d) \/ DrainWake(d) \/ DrainReturn(d)
  PROVE  UnitsInv'
<1>0. /\ TypeOK
      /\ UNCHANGED <<que, ver, applied, waiting, wpc, held, closed, pushed, delivered>>
  BY DEF UnitsInv, DrainCall, DrainRead, DrainCheck, DrainWake, DrainReturn,
         unitVars, workerVars, dtorVars
<1>1. \A e \in Drainers \ {d} : arr'[e] = arr[e] /\ rand'[e] = rand[e] /\ dpc'[e] = dpc[e]
  <2>1. /\ arr \in [Drainers -> [Shards -> Nat]]
        /\ rand \in [Drainers -> 0 .. SizeT - 1]
        /\ dpc \in [Drainers -> DrainPC]
    BY <1>0 DEF TypeOK
  <2>2. CASE DrainCall(d) \/ DrainReturn(d)
    BY <2>1, <2>2 DEF DrainCall, DrainReturn
  <2>3. CASE DrainRead(d)
    BY <2>1, <2>3 DEF DrainRead
  <2>4. CASE DrainCheck(d) \/ DrainWake(d)
    BY <2>1, <2>4 DEF DrainCheck, DrainWake, DrainAdvance
  <2> QED
    BY <2>2, <2>3, <2>4
<1>2. \A e \in Drainers \ {d} : DrainerKnows(e)'
  BY <1>0, <1>1, OtherDrainersKept
<1>3. \A t \in Shards : arr'[d][t] <= ver'[t]
  <2>1. \A t \in Shards : arr[d][t] <= ver[t] /\ 0 <= ver[t]
    BY <1>0 DEF UnitsInv, DrainerKnows, TypeOK
  <2>2. CASE DrainCall(d) \/ DrainReturn(d)
    BY <1>0, <2>1, <2>2 DEF TypeOK, DrainCall, DrainReturn
  <2>3. CASE DrainRead(d)
    <3>1. pos[d] \in Shards
      BY <1>0, <2>3 DEF TypeOK, DrainRead, Shards
    <3>2. \A t \in Shards : arr'[d][t] = IF t = pos[d] THEN ver[t] ELSE arr[d][t]
      BY <1>0, <2>3, <3>1 DEF TypeOK, DrainRead
    <3>3. \A t \in Shards : ver[t] \in Nat
      BY <1>0 DEF TypeOK
    <3> QED
      BY <1>0, <2>1, <3>2, <3>3
  <2>4. CASE DrainCheck(d) \/ DrainWake(d)
    BY <1>0, <2>1, <2>4 DEF DrainCheck, DrainWake
  <2> QED
    BY <2>2, <2>3, <2>4
<1>4. dpc'[d] # "woken"
  BY <1>0 DEF TypeOK, DrainCall, DrainRead, DrainCheck, DrainWake, DrainReturn, DrainAdvance
<1>5. ASSUME dpc'[d] = "asleep"
      PROVE  Marked(ShardAt(d), arr[d][ShardAt(d)])'
  <2>1. DrainWake(d)
    BY <1>0, <1>5 DEF TypeOK, DrainCall, DrainRead, DrainCheck, DrainReturn, DrainAdvance
  <2>2. /\ dpc[d] = "woken" /\ ~ Drained(d) /\ UNCHANGED <<que, arr, rand>>
    BY <1>0, <1>5, <2>1 DEF TypeOK, DrainWake, DrainAdvance
  <2>3. Marked(ShardAt(d), arr[d][ShardAt(d)])
    BY <2>2 DEF UnitsInv, DrainerKnows
  <2> QED
    BY <2>2, <2>3 DEF Marked, ShardAt
<1>6. DrainerKnows(d)'
  BY <1>3, <1>4, <1>5 DEF DrainerKnows
<1> QED
  BY <1>0, <1>2, <1>6, InvDrainerOnly

\* The kNotify goes behind work that is not applied yet, so it never comes to
\* the front of an idle queue.
LEMMA InvDrainLock ==
  ASSUME UnitsInv, TypeOK', NEW d \in Drainers, DrainLock(d)
  PROVE  UnitsInv'
<1>0. /\ TypeOK
      /\ UNCHANGED <<ver, applied, waiting, wpc, held, arr, closed, pushed, delivered>>
      /\ \A e \in Drainers \ {d} : arr'[e] = arr[e] /\ rand'[e] = rand[e] /\ dpc'[e] = dpc[e]
  BY DEF UnitsInv, TypeOK, DrainLock, DrainAdvance, workerVars, dtorVars
<1>1. CASE Drained(d) /\ DrainAdvance(d) /\ UNCHANGED que
  <2>1. \A e \in Drainers \ {d} : DrainerKnows(e)'
    BY <1>0, <1>1, OtherDrainersKept
  <2>2. dpc'[d] \in {"return", "check"}
    BY <1>0, <1>1 DEF TypeOK, DrainAdvance
  <2>3. DrainerKnows(d)'
    BY <1>0, <2>2 DEF UnitsInv, DrainerKnows
  <2> QED
    BY <1>0, <1>1, <2>1, <2>3, InvDrainerOnly
<1>2. CASE /\ ~ Drained(d)
           /\ AppendNotify(ShardAt(d))
           /\ dpc' = [dpc EXCEPT ![d] = "asleep"]
           /\ UNCHANGED <<pos, rand>>
  <2>s. PICK s \in Shards : s = ShardAt(d)
    BY <1>0, ShardAtIsShard
  <2> DEFINE e == [type |-> "kNotify", body |-> NoMessage, seq |-> ver[s]]
             n == Len(que[s])
  <2>0. /\ s \in Shards /\ ShardAt(d) = s /\ ShardAt(d)' = s
        /\ dpc'[d] = "asleep" /\ ~ Drained(d)
    BY <1>0, <1>2, <2>s DEF ShardAt, TypeOK
  <2>1. /\ que[s] \in Seq(Entry) /\ ver[s] \in Nat /\ applied[s] \in Nat /\ arr[d][s] \in Nat
        /\ VersionsInQueue(s) /\ ContentsOfQueue(s) /\ WorkerKnows(s) /\ DrainerKnows(d)
    BY <1>0, <2>0 DEF UnitsInv, TypeOK
  <2>2. que[s] # <<>>
    <3>1. applied[s] < arr[d][s] /\ arr[d][s] <= ver[s]
      BY <2>0, <2>1 DEF Drained, DrainerKnows
    <3> QED
      BY <2>1, <3>1 DEF VersionsInQueue
  <2>3. /\ que'[s] = Append(que[s], e)
        /\ \A t \in Shards \ {s} : que'[t] = que[t]
    BY <1>0, <1>2, <2>0 DEF TypeOK, AppendNotify
  <2>4. e \in Entry /\ IsNotify(e) /\ e.seq = ver[s]
    BY <2>1 DEF Entry, MessageType, IsNotify
  <2> HIDE DEF e
  <2>5. /\ n \in Nat \ {0}
        /\ que'[s] \in Seq(Entry)
        /\ que'[s] # <<>>
        /\ Len(que'[s]) = n + 1
        /\ que'[s][n + 1] = e
        /\ \A i \in 1 .. n : que'[s][i] = que[s][i]
    BY <2>1, <2>2, <2>3, <2>4, AppendProperties, EmptySeq
  <2>6. ASSUME NEW t \in Shards
        PROVE VersionsInQueue(t)' /\ ContentsOfQueue(t)' /\ WorkerKnows(t)' /\ DeliveredSoFar(t)'
    <3>0. VersionsInQueue(t) /\ ContentsOfQueue(t) /\ WorkerKnows(t) /\ DeliveredSoFar(t)
      BY DEF UnitsInv
    <3>1. CASE t # s
      BY <1>0, <2>3, <3>0, <3>1, VersionsKept, ContentsKept, WorkerKept, DeliveredKept
    <3>2. CASE t = s
      <4>1. Chained(que'[s])
        BY <2>1, <2>2, <2>3, <2>4, ChainedAppend DEF VersionsInQueue
      <4>2. que'[s][1] = que[s][1]
        BY <2>5
      <4>3. VersionsInQueue(s)'
        BY <1>0, <2>1, <2>2, <2>4, <2>5, <4>1, <4>2 DEF VersionsInQueue
      <4>4. ASSUME NEW i \in 1 .. Len(que'[s])
            PROVE  /\ que'[s][i].type = "kMsg" => /\ que'[s][i].seq \in 1 .. Len(pushed[s])
                                                  /\ que'[s][i].body = pushed[s][que'[s][i].seq]
                   /\ que'[s][i].type = "kClose" => closed > s /\ que'[s][i].seq = ver[s]
        <5>1. CASE i = n + 1
          BY <2>4, <2>5, <5>1 DEF IsNotify
        <5>2. CASE i \in 1 .. n
          BY <2>1, <2>5, <5>2 DEF ContentsOfQueue
        <5> QED
          BY <2>5, <5>1, <5>2
      <4>5. ContentsOfQueue(s)'
        BY <1>0, <2>1, <4>4 DEF ContentsOfQueue
      <4>6. WorkerKnows(s)'
        BY <1>0, <2>1, <2>2, <2>5, <4>2 DEF WorkerKnows
      <4>7. DeliveredSoFar(s)'
        BY <1>0, <3>0, <3>2, DeliveredKept
      <4> QED
        BY <3>2, <4>3, <4>5, <4>6, <4>7
    <3> QED
      BY <3>1, <3>2
  <2>7. ASSUME NEW c \in Drainers PROVE DrainerKnows(c)'
    <3>1. CASE c # d
      <4>1. \A t \in Shards : ver[t] <= ver'[t] /\ applied[t] <= applied'[t]
        <5>1. \A t \in Shards : ver[t] \in Nat /\ applied[t] \in Nat
          BY <1>0 DEF TypeOK
        <5> QED
          BY <1>0, <5>1
      <4>2. \A t \in Shards : \A i \in DOMAIN que[t] :
              i \in DOMAIN que'[t] /\ que'[t][i] = que[t][i]
        <5>1. DOMAIN que[s] = 1 .. n /\ DOMAIN que'[s] = 1 .. n + 1
          BY <2>1, <2>5, LenProperties
        <5> QED
          BY <2>3, <2>5, <5>1
      <4> QED
        BY <1>0, <3>1, <4>1, <4>2, DrainerKept DEF UnitsInv
    <3>2. CASE c = d
      <4>1. DOMAIN que'[s] = 1 .. n + 1
        BY <2>5, LenProperties
      <4>2. arr[d][s] <= ver[s] /\ \A t \in Shards : arr'[d][t] <= ver'[t]
        BY <1>0, <2>0, <2>1 DEF DrainerKnows
      <4>3. Marked(ShardAt(d), arr[d][ShardAt(d)])'
        BY <1>0, <2>0, <2>4, <2>5, <4>1, <4>2 DEF Marked
      <4> QED
        BY <2>0, <3>2, <4>2, <4>3 DEF DrainerKnows
    <3> QED
      BY <3>1, <3>2
  <2> QED
    BY <2>6, <2>7 DEF UnitsInv
<1> QED
  BY <1>1, <1>2 DEF DrainLock

LEMMA InvStep == UnitsInv /\ [Next]_vars => UnitsInv'
<1> SUFFICES ASSUME UnitsInv, [Next]_vars PROVE UnitsInv'
  OBVIOUS
<1>0. TypeOK /\ TypeOK'
  BY TypeStep DEF UnitsInv
<1>1. ASSUME NEW m \in Messages, Push(m) PROVE UnitsInv'
  BY <1>0, <1>1, InvPush
<1>2. ASSUME NEW s \in Shards, WorkerStep(s) PROVE UnitsInv'
  BY <1>0, <1>2, InvWait, InvPeek, InvConsume, InvPop DEF WorkerStep
<1>3. ASSUME NEW d \in Drainers, DrainCall(d) \/ DrainStep(d) PROVE UnitsInv'
  BY <1>0, <1>3, InvDrainWalk, InvDrainLock DEF DrainStep
<1>4. CASE DestructorClose
  BY <1>0, <1>4, InvClose
<1>5. CASE DestructorJoin
  <2>1. UNCHANGED <<que, ver, applied, waiting, wpc, held, dpc, arr, rand, closed,
                    pushed, delivered>>
    BY <1>5 DEF DestructorJoin, unitVars, workerVars, drainVars
  <2>2. \A d \in Drainers : DrainerKnows(d)'
    BY <2>1 DEF UnitsInv, DrainerKnows, Marked, Drained, ShardAt
  <2> QED
    BY <1>0, <2>1, <2>2, InvDrainerOnly
<1>6. CASE SpuriousWakeup
  BY <1>0, <1>6, InvSpurious
<1>7. CASE UNCHANGED vars
  <2>1. UNCHANGED <<que, ver, applied, waiting, wpc, held, dpc, arr, rand, closed,
                    pushed, delivered>>
    BY <1>7 DEF vars, unitVars, workerVars, drainVars, dtorVars
  <2>2. \A d \in Drainers : DrainerKnows(d)'
    BY <2>1 DEF UnitsInv, DrainerKnows, Marked, Drained, ShardAt
  <2> QED
    BY <1>0, <2>1, <2>2, InvDrainerOnly
<1> QED
  BY <1>1, <1>2, <1>3, <1>4, <1>5, <1>6, <1>7 DEF Next

\* The inductive invariant holds in every reachable state.
THEOREM UnitsInvariant == SafetySpec => []UnitsInv
<1> QED
  BY InvInit, InvStep, PTL DEF SafetySpec

-----------------------------------------------------------------------------
(***************************************************************************)
(* The safety properties.                                                  *)
(***************************************************************************)
LEMMA InvImpliesNeverDown == UnitsInv => ConsumerNeverDown
  BY DEF UnitsInv, WorkerKnows, ConsumerNeverDown

LEMMA InvImpliesInOrder == UnitsInv => DeliveredInOrderOnce
<1> SUFFICES ASSUME UnitsInv, NEW s \in Shards
             PROVE  /\ delivered[s] = SubSeq(pushed[s], 1, Len(delivered[s]))
                    /\ Len(delivered[s]) = applied[s] + IF wpc[s] = "pop" THEN 1 ELSE 0
  BY DEF DeliveredInOrderOnce
<1> DEFINE n == Len(delivered[s])
           p == SubSeq(pushed[s], 1, n)
<1>1. /\ DeliveredSoFar(s)
      /\ pushed[s] \in Seq(Messages)
      /\ delivered[s] \in Seq(Messages \cup {NoMessage})
  BY DEF UnitsInv, TypeOK
<1>2. n \in Nat /\ n <= Len(pushed[s]) /\ Len(pushed[s]) \in Nat
  BY <1>1, LenProperties DEF DeliveredSoFar
<1>3. \A i \in 1 .. n : pushed[s][i] \in Messages \cup {NoMessage}
  <2>1. \A i \in 1 .. Len(pushed[s]) : pushed[s][i] \in Messages
    BY <1>1, ElementOfSeq
  <2> QED
    BY <1>2, <2>1
<1>4. /\ p \in Seq(Messages \cup {NoMessage})
      /\ Len(p) = n
      /\ \A i \in 1 .. n : p[i] = pushed[s][i]
  <2> HIDE DEF n
  <2>1. /\ p \in Seq(Messages \cup {NoMessage})
        /\ Len(p) = IF 1 <= n THEN n - 1 + 1 ELSE 0
        /\ \A i \in 1 .. n - 1 + 1 : p[i] = pushed[s][1 + i - 1]
    BY <1>2, <1>3, SubSeqProperties
  <2> QED
    BY <1>2, <2>1
<1>5. \A i \in 1 .. n : delivered[s][i] = p[i]
  BY <1>1, <1>4 DEF DeliveredSoFar
<1>6. delivered[s] = p
  <2> HIDE DEF p
  <2> QED
    BY <1>1, <1>4, <1>5, SeqEqual
<1> QED
  BY <1>1, <1>6 DEF DeliveredSoFar

LEMMA InvImpliesAwake == UnitsInv => SleepingWorkerHasNoWork /\ SleepingDrainerIsMarked
  BY DEF UnitsInv, WorkerKnows, DrainerKnows, SleepingWorkerHasNoWork, SleepingDrainerIsMarked

LEMMA InvImpliesNothingLeft == UnitsInv => NothingLeftBehind
<1> SUFFICES ASSUME UnitsInv, NEW s \in Shards, wpc[s] = "exited"
             PROVE  delivered[s] = pushed[s]
  BY DEF NothingLeftBehind
<1>1. /\ WorkerKnows(s) /\ VersionsInQueue(s) /\ ContentsOfQueue(s) /\ DeliveredSoFar(s)
      /\ que[s] \in Seq(Entry) /\ pushed[s] \in Seq(Messages)
      /\ delivered[s] \in Seq(Messages \cup {NoMessage})
      /\ applied[s] \in Nat
  BY DEF UnitsInv, TypeOK
<1>2. que[s] # <<>> /\ que[s][1].type = "kClose"
  BY <1>1 DEF WorkerKnows
<1>3. 1 \in 1 .. Len(que[s])
  BY <1>1, <1>2, EmptySeq
<1>4. que[s][1].seq = applied[s] + 1 /\ que[s][1].seq = ver[s] /\ closed > s
  BY <1>1, <1>2, <1>3 DEF VersionsInQueue, ContentsOfQueue
<1>5. ver[s] = Len(pushed[s]) + 1 /\ Len(pushed[s]) \in Nat
  BY <1>1, <1>4, LenProperties DEF ContentsOfQueue
<1>6. Len(delivered[s]) = Len(pushed[s])
  BY <1>1, <1>4, <1>5 DEF DeliveredSoFar
<1>7. \A i \in 1 .. Len(pushed[s]) : delivered[s][i] = pushed[s][i]
  BY <1>1, <1>6 DEF DeliveredSoFar
<1>8. pushed[s] \in Seq(Messages \cup {NoMessage})
  BY <1>1, SeqMonotonic
<1> QED
  BY <1>1, <1>6, <1>7, <1>8, SeqEqual

\* No worker thread of any queue, whatever its size and its clients, takes
\* the exit(1) of RegisterConsumeFunction (pmem_msg_queue_impl.cpp:181-184).
THEOREM NeverDown == SafetySpec => []ConsumerNeverDown
<1> QED
  BY UnitsInvariant, InvImpliesNeverDown, PTL

\* Each unit hands over its messages in the order they were pushed, each once.
THEOREM InOrderOnce == SafetySpec => []DeliveredInOrderOnce
<1> QED
  BY UnitsInvariant, InvImpliesInOrder, PTL

\* No wake-up is lost: a worker sleeps only on an empty queue, and a thread
\* asleep in WaitDrain has its kNotify still to come.
THEOREM NoLostWakeup == SafetySpec => [](SleepingWorkerHasNoWork /\ SleepingDrainerIsMarked)
<1> QED
  BY UnitsInvariant, InvImpliesAwake, PTL

\* A worker that ends on kClose has applied everything that was pushed.
THEOREM CloseLosesNothing == SafetySpec => []NothingLeftBehind
<1> QED
  BY UnitsInvariant, InvImpliesNothingLeft, PTL

-----------------------------------------------------------------------------
(***************************************************************************)
(* MessageQueueImpl::WaitDrain waits for every unit, whatever unit it      *)
(* begins with; and PmemMessageQueue implements MessageQueue.              *)
(***************************************************************************)

(***************************************************************************)
(* The remainders that rand_num runs through.                              *)
(***************************************************************************)
\* From any start r, N steps of one meet every unit.
LEMMA EveryRemainderIsMet ==
  ASSUME NEW r \in Nat, NEW s \in Shards
  PROVE  \E i \in 0 .. N - 1 : (r + i) % N = s
<1>0. N \in Nat \ {0} /\ s \in 0 .. N - 1
  BY NAssumption DEF Shards
<1>1. PICK p \in Int, t \in 0 .. N - 1 : r = p * N + t
  <2>1. PICK p \in Int, t \in Int : p = r \div N /\ t = r % N
    BY <1>0
  <2>2. r = p * N + t /\ t \in 0 .. N - 1
    BY <1>0, <2>1
  <2> QED
    BY <2>2
<1>2. CASE t <= s
  <2> DEFINE i == s - t
             a == r + i
  <2>1. i \in 0 .. N - 1 /\ a \in Int /\ \E q \in Int : a = q * N + s
    <3>1. i \in 0 .. N - 1 /\ a \in Int
      BY <1>0, <1>2
    <3>2. a = p * N + s
      BY <1>0, <1>1
    <3> HIDE DEF i, a
    <3> QED
      BY <1>1, <3>1, <3>2
  <2> HIDE DEF i, a
  <2>2. a % N = s
    BY <1>0, <2>1, RemainderIs
  <2> QED
    BY <2>1, <2>2 DEF a
<1>3. CASE t > s
  <2> DEFINE i == s - t + N
             a == r + i
             k == p + 1
  <2>1. i \in 0 .. N - 1 /\ a \in Int /\ \E q \in Int : a = q * N + s
    <3>1. i \in 0 .. N - 1 /\ a \in Int /\ k \in Int /\ a = k * N + s
      BY <1>0, <1>1, <1>3
    <3> QED
      BY <3>1
  <2> HIDE DEF i, a, k
  <2>2. a % N = s
    BY <1>0, <2>1, RemainderIs
  <2> QED
    BY <2>1, <2>2 DEF a
<1> QED
  BY <1>0, <1>1, <1>2, <1>3

\* rand_num++ goes on to the next remainder, also where it wraps.
LEMMA NextRemainder ==
  ASSUME NEW r \in 0 .. SizeT - 1, NEW i \in Nat
  PROVE  (((r + 1) % SizeT) + i) % N = (r + 1 + i) % N
<1>0. SizeT \in Nat \ {0} /\ N \in Nat \ {0} /\ SizeT % N = 0
  BY SizeTAssumption, NAssumption
<1>1. CASE r + 1 < SizeT
  <2>1. (r + 1) % SizeT = r + 1
    <3>1. r + 1 = 0 * SizeT + (r + 1) /\ r + 1 \in 0 .. SizeT - 1 /\ r + 1 \in Int
      BY <1>0, <1>1
    <3> QED
      BY <1>0, <3>1, RemainderIs
  <2> QED
    BY <2>1
<1>2. CASE r + 1 = SizeT
  <2>1. (r + 1) % SizeT = 0
    <3>1. SizeT = 1 * SizeT + 0 /\ 0 \in 0 .. SizeT - 1 /\ SizeT \in Int
      BY <1>0
    <3> QED
      BY <1>0, <1>2, <3>1, RemainderIs
  <2>2. PICK p \in Int, t \in 0 .. N - 1 : SizeT = p * N + t /\ t = SizeT % N
    BY <1>0, QuotientIs
  <2>3. r + 1 + i = p * N + i
    BY <1>0, <1>2, <2>2
  <2>4. (r + 1 + i) % N = i % N
    <3>1. r + 1 + i \in Int /\ i \in Int /\ \E q \in Int : r + 1 + i = q * N + i
      BY <2>2, <2>3
    <3> QED
      BY <1>0, <3>1, RemainderSum
  <2> QED
    BY <2>1, <2>3, <2>4
<1> QED
  BY <1>0, <1>1, <1>2

-----------------------------------------------------------------------------
(***************************************************************************)
(* What is still to be visited.                                            *)
(***************************************************************************)

\* The second loop begins with every unit to come.
LEMMA AllToVisit ==
  ASSUME TypeOK', NEW d \in Drainers, pos'[d] = 0
  PROVE  \A s \in Shards : s \in ToVisit(d)'
<1> SUFFICES ASSUME NEW s \in Shards PROVE s \in ToVisit(d)'
  OBVIOUS
<1>1. rand'[d] \in Nat /\ s \in 0 .. N - 1 /\ N \in Nat \ {0}
  BY NAssumption, SizeTAssumption DEF TypeOK, Shards
<1>2. PICK i \in 0 .. N - 1 : (rand'[d] + i) % N = s
  BY <1>1, EveryRemainderIsMet
<1>3. i \in 0 .. N - pos'[d] - 1
  BY <1>1
<1> QED
  BY <1>2, <1>3 DEF ToVisit

\* A turn takes the unit it is at from what is to come, and no other.
LEMMA AdvanceVisits ==
  ASSUME TypeOK, NEW d \in Drainers, pos[d] < N, DrainAdvance(d)
  PROVE  ToVisit(d) \subseteq ToVisit(d)' \cup {ShardAt(d)}
<1>0. /\ rand[d] \in 0 .. SizeT - 1 /\ pos[d] \in Nat /\ N \in Nat \ {0}
      /\ rand'[d] = (rand[d] + 1) % SizeT /\ pos'[d] = pos[d] + 1
  BY NAssumption DEF TypeOK, DrainAdvance
<1> SUFFICES ASSUME NEW i \in 0 .. N - pos[d] - 1
             PROVE  (rand[d] + i) % N \in ToVisit(d)' \cup {ShardAt(d)}
  BY DEF ToVisit
<1>1. CASE i = 0
  <2>1. rand[d] + i = rand[d]
    BY <1>0, <1>1, SizeTAssumption
  <2> QED
    BY <2>1 DEF ShardAt
<1>2. CASE i # 0
  <2>1. i - 1 \in Nat /\ i - 1 \in 0 .. N - pos'[d] - 1
    BY <1>0, <1>2
  <2>2. (rand'[d] + (i - 1)) % N = (rand[d] + 1 + (i - 1)) % N
    BY <1>0, <2>1, NextRemainder
  <2>3. rand[d] + 1 + (i - 1) = rand[d] + i
    <3>1. rand[d] \in Int /\ i \in Int
      BY <1>0, <2>1, SizeTAssumption
    <3> QED
      BY <3>1
  <2>4. (rand'[d] + (i - 1)) % N \in ToVisit(d)'
    BY <2>1 DEF ToVisit
  <2> QED
    BY <2>2, <2>3, <2>4
<1> QED
  BY <1>1, <1>2

-----------------------------------------------------------------------------
(***************************************************************************)
(* The steps that are not the drainer's own.                               *)
(***************************************************************************)
LEMMA VisitsKept ==
  ASSUME TypeOK, TypeOK', NEW d \in Drainers, DrainerVisits(d),
         pos'[d] = pos[d], arr'[d] = arr[d], rand'[d] = rand[d], called'[d] = called[d],
         dpc'[d] = dpc[d] \/ (dpc[d] = "asleep" /\ dpc'[d] = "woken"),
         \A s \in Shards : Len(pushed[s]) <= Len(pushed'[s]) /\ applied[s] <= applied'[s]
  PROVE  DrainerVisits(d)'
<1>1. ToVisit(d)' = ToVisit(d)
  BY DEF ToVisit
<1>2. \A s \in Shards :
        /\ arr[d][s] \in Nat /\ called[d][s] \in Nat
        /\ applied[s] \in Nat /\ applied'[s] \in Nat
        /\ Len(pushed[s]) \in Nat /\ Len(pushed'[s]) \in Nat
  BY LenProperties DEF TypeOK
<1>3. \A s \in Shards : called[d][s] <= Len(pushed'[s])
  BY <1>2 DEF DrainerVisits
<1>4. ASSUME dpc'[d] = "return" PROVE \A s \in Shards : called[d][s] <= applied'[s]
  BY <1>2, <1>4 DEF DrainerVisits
<1>5. ASSUME dpc'[d] \in {"check", "lock", "asleep", "woken"}, NEW s \in Shards
      PROVE  called[d][s] <= arr[d][s] /\ (arr[d][s] <= applied'[s] \/ s \in ToVisit(d))
  <2>1. called[d][s] <= arr[d][s] /\ (arr[d][s] <= applied[s] \/ s \in ToVisit(d))
    BY <1>5 DEF DrainerVisits
  <2> QED
    BY <1>2, <2>1
<1> QED
  BY <1>1, <1>3, <1>4, <1>5 DEF DrainerVisits

\* A client, a worker and the destructor add to the history and apply more of
\* it; they wake drainers and change nothing else of them.
LEMMA OthersOnlyAdd ==
  ASSUME IInv, TypeOK',
         \/ \E m \in Messages : Push(m)
         \/ \E s \in Shards : WorkerStep(s)
         \/ DestructorClose \/ DestructorJoin \/ SpuriousWakeup \/ UNCHANGED vars
  PROVE  /\ UNCHANGED <<pos, arr, rand, called>>
         /\ \A d \in Drainers : dpc'[d] = dpc[d] \/ (dpc[d] = "asleep" /\ dpc'[d] = "woken")
         /\ \A s \in Shards : Len(pushed[s]) <= Len(pushed'[s]) /\ applied[s] <= applied'[s]
<1>0. TypeOK
  BY DEF IInv, UnitsInv
<1>1. \A s \in Shards : Len(pushed[s]) \in Nat /\ applied[s] \in Nat /\ pushed[s] \in Seq(Messages)
  BY <1>0, LenProperties DEF TypeOK
<1>2. ASSUME NEW s \in Shards
      PROVE  \A d \in Drainers :
               \/ DrainersNotified(s)[d] = dpc[d]
               \/ dpc[d] = "asleep" /\ DrainersNotified(s)[d] = "woken"
  BY DEF DrainersNotified, Woken
<1>3. ASSUME NEW m \in Messages, Push(m)
      PROVE  /\ UNCHANGED <<pos, arr, rand, called, applied>>
             /\ \A d \in Drainers : dpc'[d] = dpc[d] \/ (dpc[d] = "asleep" /\ dpc'[d] = "woken")
             /\ \A s \in Shards : Len(pushed[s]) <= Len(pushed'[s])
  <2>1. UNCHANGED <<pos, arr, rand, called, applied>> /\ ShardOf[m] \in Shards
    BY <1>3, ShardOfAssumption DEF Push, UnitPush
  <2>2. \A d \in Drainers : dpc'[d] = dpc[d] \/ (dpc[d] = "asleep" /\ dpc'[d] = "woken")
    BY <1>2, <1>3, <2>1 DEF Push, UnitPush
  <2>3. Len(Append(pushed[ShardOf[m]], m)) = Len(pushed[ShardOf[m]]) + 1
    BY <1>1, <2>1, AppendProperties
  <2>4. \A s \in Shards : Len(pushed[s]) <= Len(pushed'[s])
    <3>1. \A s \in Shards :
            pushed'[s] = IF s = ShardOf[m] THEN Append(pushed[ShardOf[m]], m) ELSE pushed[s]
      BY <1>0, <1>3, <2>1 DEF Push, TypeOK
    <3>2. \A s \in Shards : Len(pushed'[s]) \in {Len(pushed[s]), Len(pushed[s]) + 1}
      BY <2>3, <3>1
    <3> QED
      BY <1>1, <3>2
  <2> QED
    BY <2>1, <2>2, <2>4
<1>4. ASSUME NEW s \in Shards, WorkerStep(s)
      PROVE  /\ UNCHANGED <<pos, arr, rand, called, pushed>>
             /\ \A d \in Drainers : dpc'[d] = dpc[d] \/ (dpc[d] = "asleep" /\ dpc'[d] = "woken")
             /\ \A t \in Shards : applied[t] <= applied'[t]
  <2>1. CASE WorkerWait(s) \/ WorkerWake(s) \/ WorkerConsume(s)
    BY <1>1, <2>1 DEF WorkerWait, WorkerWake, WorkerConsume, unitVars, drainVars
  <2>2. CASE WorkerPeek(s)
    BY <1>1, <1>2, <2>2 DEF WorkerPeek
  <2>3. CASE WorkerPop(s)
    <3>1. applied' = applied \/ applied' = [applied EXCEPT ![s] = applied[s] + 1]
      BY <2>3 DEF WorkerPop
    <3>2. \A t \in Shards : applied[t] <= applied'[t]
      <4>1. \A t \in Shards : applied'[t] \in {applied[t], applied[t] + 1}
        BY <1>0, <3>1 DEF TypeOK
      <4> QED
        BY <1>1, <4>1
    <3>3. dpc' = dpc \/ dpc' = DrainersNotified(s)
      BY <2>3 DEF WorkerPop
    <3> QED
      BY <1>2, <2>3, <3>2, <3>3 DEF WorkerPop
  <2> QED
    BY <1>4, <2>1, <2>2, <2>3 DEF WorkerStep
<1>5. CASE DestructorClose
  <2>1. UNCHANGED <<pos, arr, rand, called, applied, pushed>>
    BY <1>5 DEF DestructorClose, UnitPush
  <2>2. closed \in Shards
    BY <1>0, <1>5, NAssumption DEF TypeOK, DestructorClose, Shards
  <2>3. \A d \in Drainers : dpc'[d] = dpc[d] \/ (dpc[d] = "asleep" /\ dpc'[d] = "woken")
    BY <1>2, <1>5, <2>2 DEF DestructorClose, UnitPush
  <2> QED
    BY <1>1, <2>1, <2>3
<1>6. CASE DestructorJoin \/ UNCHANGED vars
  BY <1>1, <1>6 DEF DestructorJoin, vars, unitVars, drainVars
<1>7. CASE SpuriousWakeup
  BY <1>0, <1>1, <1>7 DEF SpuriousWakeup, TypeOK, unitVars
<1> QED
  BY <1>1, <1>3, <1>4, <1>5, <1>6, <1>7

-----------------------------------------------------------------------------
(***************************************************************************)
(* The drainer's own steps.                                                *)
(***************************************************************************)

\* A unit that is found drained need not be visited again.
LEMMA VisitsAdvance ==
  ASSUME TypeOK, TypeOK', NEW d \in Drainers, DrainerVisits(d), Drained(d), DrainAdvance(d),
         dpc[d] \in {"check", "lock", "woken"},
         UNCHANGED <<arr, called, pushed, applied>>
  PROVE  DrainerVisits(d)'
<1>0. /\ pos[d] < N /\ pos[d] \in Nat /\ N \in Nat
      /\ pos'[d] = pos[d] + 1
      /\ dpc'[d] = IF pos[d] + 1 = N THEN "return" ELSE "check"
  BY NAssumption DEF TypeOK, DrainAdvance
<1>1. ToVisit(d) \subseteq ToVisit(d)' \cup {ShardAt(d)}
  BY <1>0, AdvanceVisits
<1>2. ASSUME NEW s \in Shards
      PROVE  called[d][s] <= arr[d][s] /\ (arr[d][s] <= applied[s] \/ s \in ToVisit(d)')
  <2>1. called[d][s] <= arr[d][s] /\ (arr[d][s] <= applied[s] \/ s \in ToVisit(d))
    BY DEF DrainerVisits
  <2>2. s = ShardAt(d) => arr[d][s] <= applied[s]
    BY DEF Drained, TypeOK
  <2> QED
    BY <1>1, <2>1, <2>2
<1>3. CASE pos[d] + 1 = N
  <2>1. ToVisit(d)' = {}
    <3>1. pos'[d] = N
      BY <1>0, <1>3
    <3>2. 0 .. N - N - 1 = {}
      BY <1>0
    <3> QED
      BY <3>1, <3>2 DEF ToVisit
  <2>2. \A s \in Shards : called[d][s] <= applied[s]
    <3>1. \A s \in Shards : called[d][s] \in Nat /\ arr[d][s] \in Nat /\ applied[s] \in Nat
      BY DEF TypeOK
    <3> QED
      BY <1>2, <2>1, <3>1
  <2> QED
    BY <1>0, <1>3, <2>2 DEF DrainerVisits
<1>4. CASE pos[d] + 1 # N
  BY <1>0, <1>2, <1>4 DEF DrainerVisits
<1> QED
  BY <1>3, <1>4

\* A version read after the call covers what was pushed before it.
LEMMA VisitsRead ==
  ASSUME UnitsInv, TypeOK', NEW d \in Drainers, DrainerVisits(d), DrainRead(d)
  PROVE  DrainerVisits(d)'
<1>0. /\ TypeOK /\ pos[d] \in Shards /\ pos[d] \in Nat /\ pos[d] < N /\ N \in Nat \ {0}
      /\ dpc[d] = "read"
      /\ UNCHANGED <<called, pushed, applied>>
  <2>1. TypeOK /\ dpc[d] = "read" /\ UNCHANGED <<called, pushed, applied>>
    BY DEF UnitsInv, DrainRead, unitVars
  <2>2. pos[d] \in 0 .. N /\ pos[d] < N
    BY <2>1 DEF TypeOK
  <2> QED
    BY <2>1, <2>2, NAssumption DEF Shards
<1>1. ASSUME NEW s \in Shards PROVE called[d][s] <= ver[s]
  <2>1. ver[s] \in {Len(pushed[s]), Len(pushed[s]) + 1} /\ called[d][s] <= Len(pushed[s])
    <3>1. ver[s] = Len(pushed[s]) + IF closed > s THEN 1 ELSE 0
      BY DEF UnitsInv, ContentsOfQueue
    <3>2. Len(pushed[s]) + 0 = Len(pushed[s])
      BY <1>0, LenProperties DEF TypeOK
    <3> QED
      BY <3>1, <3>2 DEF DrainerVisits
  <2>2. Len(pushed[s]) \in Nat /\ called[d][s] \in Nat
    BY <1>0, LenProperties DEF TypeOK
  <2> QED
    BY <2>1, <2>2
<1>2. \A s \in Shards : arr'[d][s] = IF s = pos[d] THEN ver[s] ELSE arr[d][s]
  BY <1>0 DEF TypeOK, DrainRead
<1>3. \A s \in 0 .. pos[d] : s \in Shards /\ called'[d][s] <= arr'[d][s]
  <2>1. \A s \in 0 .. pos[d] : s \in Shards /\ (s = pos[d] \/ s \in 0 .. pos[d] - 1)
    BY <1>0 DEF Shards
  <2> QED
    BY <1>0, <1>1, <1>2, <2>1 DEF DrainerVisits
<1>4. \A s \in Shards : called'[d][s] <= Len(pushed'[s])
  BY <1>0 DEF DrainerVisits
<1>5. CASE pos[d] + 1 < N /\ pos' = [pos EXCEPT ![d] = @ + 1] /\ UNCHANGED dpc
  <2>1. pos'[d] = pos[d] + 1 /\ dpc'[d] = "read" /\ 0 .. pos'[d] - 1 = 0 .. pos[d]
    BY <1>0, <1>5 DEF TypeOK
  <2> QED
    BY <1>3, <1>4, <2>1 DEF DrainerVisits
<1>6. CASE /\ pos[d] + 1 = N
           /\ pos' = [pos EXCEPT ![d] = 0]
           /\ dpc' = [dpc EXCEPT ![d] = "check"]
  <2>1. pos'[d] = 0 /\ dpc'[d] = "check" /\ Shards = 0 .. pos[d]
    BY <1>0, <1>6 DEF TypeOK, Shards
  <2>3. \A s \in Shards : s \in ToVisit(d)'
    BY <2>1, AllToVisit
  <2> QED
    BY <1>3, <1>4, <2>1, <2>3 DEF DrainerVisits
<1> QED
  BY <1>5, <1>6 DEF DrainRead

LEMMA VisitsOwn ==
  ASSUME IInv, TypeOK', NEW d \in Drainers, DrainCall(d) \/ DrainStep(d)
  PROVE  DrainerVisits(d)'
<1>0. /\ TypeOK /\ UnitsInv /\ DrainerVisits(d)
      /\ \A s \in Shards : Len(pushed[s]) \in Nat /\ applied[s] \in Nat
  BY LenProperties DEF IInv, UnitsInv, TypeOK
<1>1. CASE DrainCall(d)
  <2>1. /\ dpc'[d] = "read" /\ pos'[d] = 0 /\ pushed' = pushed
        /\ \A s \in Shards : called'[d][s] = Len(pushed[s])
    BY <1>0, <1>1 DEF TypeOK, DrainCall
  <2>2. 0 .. 0 - 1 = {}
    OBVIOUS
  <2> QED
    BY <1>0, <2>1, <2>2 DEF DrainerVisits
<1>2. CASE DrainRead(d)
  BY <1>0, <1>2, VisitsRead
<1>3. CASE DrainCheck(d) \/ DrainLock(d) \/ DrainWake(d)
  <2>1. UNCHANGED <<arr, called, pushed, applied>> /\ dpc[d] \in {"check", "lock", "woken"}
    BY <1>3 DEF DrainCheck, DrainLock, DrainWake, unitVars
  <2>2. CASE Drained(d) /\ DrainAdvance(d)
    BY <1>0, <2>1, <2>2, VisitsAdvance
  <2>3. CASE UNCHANGED <<pos, rand>> /\ dpc'[d] \in {"lock", "asleep"}
    <3>1. ToVisit(d)' = ToVisit(d)
      BY <2>3 DEF ToVisit
    <3>2. \A s \in Shards :
            called[d][s] <= arr[d][s] /\ (arr[d][s] <= applied[s] \/ s \in ToVisit(d))
      BY <1>0, <2>1 DEF DrainerVisits
    <3> QED
      BY <1>0, <2>1, <2>3, <3>1, <3>2 DEF DrainerVisits
  <2>4. (Drained(d) /\ DrainAdvance(d)) \/ (UNCHANGED <<pos, rand>> /\ dpc'[d] \in {"lock", "asleep"})
    BY <1>0, <1>3 DEF TypeOK, DrainCheck, DrainLock, DrainWake
  <2> QED
    BY <2>2, <2>3, <2>4
<1>4. CASE DrainReturn(d)
  <2>1. dpc'[d] = "idle" /\ pushed' = pushed /\ \A s \in Shards : called'[d][s] = 0
    BY <1>0, <1>4 DEF TypeOK, DrainReturn
  <2> QED
    BY <1>0, <2>1 DEF DrainerVisits
<1> QED
  BY <1>1, <1>2, <1>3, <1>4 DEF DrainStep

\* One drainer's steps leave the others where they are.
LEMMA VisitsOfOthers ==
  ASSUME IInv, TypeOK', NEW d \in Drainers, DrainCall(d) \/ DrainStep(d),
         NEW e \in Drainers \ {d}
  PROVE  DrainerVisits(e)'
<1>0. TypeOK /\ DrainerVisits(e)
  BY DEF IInv, UnitsInv
<1>1. UNCHANGED <<pushed, applied>>
  BY DEF DrainStep, DrainCall, DrainRead, DrainCheck, DrainLock, DrainWake, DrainReturn, unitVars
<1>2. /\ pos'[e] = pos[e] /\ arr'[e] = arr[e] /\ rand'[e] = rand[e]
      /\ called'[e] = called[e] /\ dpc'[e] = dpc[e]
  <2>1. CASE DrainCall(d) \/ DrainReturn(d) \/ DrainRead(d)
    BY <1>0, <2>1 DEF TypeOK, DrainCall, DrainReturn, DrainRead
  <2>2. CASE DrainCheck(d) \/ DrainLock(d) \/ DrainWake(d)
    BY <1>0, <2>2 DEF TypeOK, DrainCheck, DrainLock, DrainWake, DrainAdvance
  <2> QED
    BY <2>1, <2>2 DEF DrainStep
<1>3. \A s \in Shards : Len(pushed[s]) <= Len(pushed'[s]) /\ applied[s] <= applied'[s]
  <2>1. \A s \in Shards : Len(pushed[s]) \in Nat /\ applied[s] \in Nat
    BY <1>0, LenProperties DEF TypeOK
  <2> QED
    BY <1>1, <2>1
<1> QED
  BY <1>0, <1>2, <1>3, VisitsKept

LEMMA WholeInvInit == Init => IInv
<1> SUFFICES ASSUME Init PROVE IInv
  OBVIOUS
<1>1. \A s \in Shards : Len(pushed[s]) = 0
  BY DEF Init
<1>2. \A d \in Drainers : DrainerVisits(d)
  BY <1>1 DEF Init, DrainerVisits
<1> QED
  BY <1>2, InvInit DEF IInv

LEMMA WholeInvStep == IInv /\ [Next]_vars => IInv'
<1> SUFFICES ASSUME IInv, [Next]_vars PROVE IInv'
  OBVIOUS
<1>0. UnitsInv' /\ TypeOK /\ TypeOK'
  BY InvStep DEF IInv, UnitsInv
<1>1. CASE \/ \E m \in Messages : Push(m)
           \/ \E s \in Shards : WorkerStep(s)
           \/ DestructorClose \/ DestructorJoin \/ SpuriousWakeup \/ UNCHANGED vars
  <2>1. /\ UNCHANGED <<pos, arr, rand, called>>
        /\ \A d \in Drainers : dpc'[d] = dpc[d] \/ (dpc[d] = "asleep" /\ dpc'[d] = "woken")
        /\ \A s \in Shards : Len(pushed[s]) <= Len(pushed'[s]) /\ applied[s] <= applied'[s]
    BY <1>0, <1>1, OthersOnlyAdd
  <2>2. ASSUME NEW d \in Drainers PROVE DrainerVisits(d)'
    <3>1. DrainerVisits(d)
      BY DEF IInv
    <3> QED
      BY <1>0, <2>1, <3>1, VisitsKept
  <2> QED
    BY <1>0, <2>2 DEF IInv
<1>2. ASSUME NEW d \in Drainers, DrainCall(d) \/ DrainStep(d) PROVE IInv'
  BY <1>0, <1>2, VisitsOwn, VisitsOfOthers DEF IInv
<1> QED
  BY <1>1, <1>2 DEF Next

\* The inductive invariant, with what WaitDrain has still to visit, holds in
\* every reachable state.
THEOREM Invariant == SafetySpec => []IInv
<1> QED
  BY WholeInvInit, WholeInvStep, PTL DEF SafetySpec

LEMMA InvImpliesDrained == IInv => DrainedOnReturn
  BY DEF IInv, DrainerVisits, DrainedOnReturn

\* When WaitDrain returns, every unit has applied what was pushed to it before
\* the call, for any number of units and wherever rand_num begins and wraps
\* (pmem_msg_queue_impl.cpp:151-166).
THEOREM WaitsForAll == SafetySpec => []DrainedOnReturn
<1> QED
  BY Invariant, InvImpliesDrained, PTL

-----------------------------------------------------------------------------
(***************************************************************************)
(* The refinement of MessageQueue.                                         *)
(***************************************************************************)
LEMMA RefinesInit == Init => Queue!QueueInit
  BY DEF Init, Queue!QueueInit, Queue!NotWaiting

LEMMA RefinesStutter ==
  ASSUME UNCHANGED <<pushed, applied, called>>,
         \A d \in Drainers : dpc'[d] = "idle" <=> dpc[d] = "idle"
  PROVE  UNCHANGED Queue!queueVars
  BY DEF Queue!queueVars

LEMMA RefinesPush ==
  ASSUME IInv, TypeOK', NEW m \in Messages, Push(m)
  PROVE  Queue!Push(m)
<1>1. UNCHANGED <<applied, called>> /\ pushed' = [pushed EXCEPT ![ShardOf[m]] = Append(@, m)]
  BY DEF Push, UnitPush
<1>2. \A d \in Drainers : dpc'[d] = "idle" <=> dpc[d] = "idle"
  BY OthersOnlyAdd
<1> QED
  BY <1>1, <1>2 DEF Queue!Push

\* Pop counts a message that was delivered, so one that is in the log.
LEMMA RefinesPop ==
  ASSUME IInv, TypeOK', NEW s \in Shards, WorkerPop(s)
  PROVE  Queue!Pop(s)
<1>0. /\ TypeOK /\ WorkerKnows(s) /\ DeliveredSoFar(s) /\ wpc[s] = "pop"
      /\ applied[s] \in Nat /\ Len(pushed[s]) \in Nat
  BY LenProperties DEF IInv, UnitsInv, TypeOK, WorkerPop
<1>1. que[s] # <<>>
  BY <1>0 DEF WorkerKnows
<1>2. applied' = [applied EXCEPT ![s] = @ + 1]
  BY <1>1 DEF WorkerPop
<1>3. applied[s] < Len(pushed[s])
  BY <1>0 DEF DeliveredSoFar
<1>4. UNCHANGED <<pushed, called>>
  BY DEF WorkerPop
<1>5. \A d \in Drainers : dpc'[d] = "idle" <=> dpc[d] = "idle"
  BY OthersOnlyAdd DEF WorkerStep
<1> QED
  BY <1>2, <1>3, <1>4, <1>5 DEF Queue!Pop, Queue!CanPeek

LEMMA RefinesDrainCall ==
  ASSUME TypeOK, NEW d \in Drainers, DrainCall(d)
  PROVE  Queue!WaitDrainCall(d)
<1>1. UNCHANGED <<pushed, applied>> /\ dpc[d] = "idle"
  BY DEF DrainCall, unitVars
<1> DEFINE Target(e) == IF dpc[e] = "idle" THEN [s \in {} |-> 0] ELSE called[e]
<1>2. \A e \in Drainers :
        Target(e)' = IF e = d THEN [s \in Shards |-> Len(pushed[s])] ELSE Target(e)
  BY <1>1 DEF TypeOK, DrainCall
<1>3. Target(d) = [s \in {} |-> 0]
  BY <1>1
<1> HIDE DEF Target
<1>4. [e \in Drainers |-> Target(e)]'
      = [[e \in Drainers |-> Target(e)] EXCEPT ![d] = [s \in Shards |-> Len(pushed[s])]]
  BY <1>2
<1> QED
  BY <1>1, <1>3, <1>4 DEF Queue!WaitDrainCall, Queue!NotWaiting, Target

\* WaitDrain may return: every unit has applied what the caller waits for.
LEMMA RefinesDrainReturn ==
  ASSUME IInv, NEW d \in Drainers, DrainReturn(d)
  PROVE  Queue!WaitDrainReturn(d)
<1>0. /\ TypeOK /\ dpc[d] = "return" /\ UNCHANGED <<pushed, applied>>
      /\ \A s \in Shards : called[d][s] \in Nat /\ applied[s] \in Nat
  BY DEF IInv, UnitsInv, TypeOK, DrainReturn, unitVars
<1>1. \A s \in Shards : applied[s] >= called[d][s]
  BY <1>0 DEF IInv, DrainerVisits
<1> DEFINE Target(e) == IF dpc[e] = "idle" THEN [s \in {} |-> 0] ELSE called[e]
<1>2. Target(d) = called[d] /\ Target(d) # [s \in {} |-> 0]
  <2>1. DOMAIN called[d] = Shards /\ 0 \in Shards
    BY <1>0, NAssumption DEF TypeOK, Shards
  <2> QED
    BY <1>0, <2>1
<1>3. \A e \in Drainers : Target(e)' = IF e = d THEN [s \in {} |-> 0] ELSE Target(e)
  BY <1>0 DEF TypeOK, DrainReturn
<1> HIDE DEF Target
<1>4. [e \in Drainers |-> Target(e)]'
      = [[e \in Drainers |-> Target(e)] EXCEPT ![d] = [s \in {} |-> 0]]
  BY <1>3
<1> QED
  BY <1>0, <1>1, <1>2, <1>4 DEF Queue!WaitDrainReturn, Queue!NotWaiting, Target

LEMMA RefinesStep ==
  ASSUME IInv, [Next]_vars
  PROVE  [Queue!QueueNext]_(Queue!queueVars)
<1>0. TypeOK /\ TypeOK'
  BY TypeStep DEF IInv, UnitsInv
<1>1. ASSUME NEW m \in Messages, Push(m) PROVE Queue!QueueNext
  BY <1>0, <1>1, RefinesPush DEF Queue!QueueNext
<1>2. ASSUME NEW s \in Shards, WorkerPop(s) PROVE Queue!QueueNext
  BY <1>0, <1>2, RefinesPop DEF Queue!QueueNext
<1>3. ASSUME NEW s \in Shards,
             WorkerWait(s) \/ WorkerWake(s) \/ WorkerPeek(s) \/ WorkerConsume(s)
      PROVE  UNCHANGED Queue!queueVars
  <2>1. UNCHANGED <<pushed, applied, called>>
    BY <1>3 DEF WorkerWait, WorkerWake, WorkerPeek, WorkerConsume, unitVars, drainVars
  <2>2. \A d \in Drainers : dpc'[d] = "idle" <=> dpc[d] = "idle"
    BY <1>0, <1>3, OthersOnlyAdd DEF WorkerStep
  <2> QED
    BY <2>1, <2>2, RefinesStutter
<1>4. ASSUME NEW d \in Drainers, DrainCall(d) PROVE Queue!QueueNext
  BY <1>0, <1>4, RefinesDrainCall DEF Queue!QueueNext
<1>5. ASSUME NEW d \in Drainers, DrainReturn(d) PROVE Queue!QueueNext
  BY <1>5, RefinesDrainReturn DEF Queue!QueueNext
<1>6. ASSUME NEW d \in Drainers, DrainRead(d) \/ DrainCheck(d) \/ DrainLock(d) \/ DrainWake(d)
      PROVE  UNCHANGED Queue!queueVars
  <2>1. UNCHANGED <<pushed, applied, called>>
    BY <1>6 DEF DrainRead, DrainCheck, DrainLock, DrainWake, unitVars
  <2>2. \A e \in Drainers : dpc'[e] = "idle" <=> dpc[e] = "idle"
    BY <1>0, <1>6 DEF TypeOK, DrainRead, DrainCheck, DrainLock, DrainWake, DrainAdvance
  <2> QED
    BY <2>1, <2>2, RefinesStutter
<1>7. CASE DestructorClose \/ DestructorJoin \/ SpuriousWakeup \/ UNCHANGED vars
  <2>1. UNCHANGED <<pushed, applied, called>>
    BY <1>7 DEF DestructorClose, UnitPush, DestructorJoin, SpuriousWakeup, vars, unitVars, drainVars
  <2>2. \A d \in Drainers : dpc'[d] = "idle" <=> dpc[d] = "idle"
    BY <1>0, <1>7, OthersOnlyAdd
  <2> QED
    BY <2>1, <2>2, RefinesStutter
<1> QED
  BY <1>1, <1>2, <1>3, <1>4, <1>5, <1>6, <1>7 DEF Next, WorkerStep, DrainStep

\* The sharded queue, with its markers, its lost and shared wake-ups and its
\* unlocked reads, keeps the safety half of what msg_queue.h promises, for any
\* number of units, clients and callers of WaitDrain
\* (pmem_msg_queue_impl.cpp:11-186).
THEOREM Refinement == SafetySpec => Queue!QueueSafetySpec
<1> QED
  BY RefinesInit, RefinesStep, Invariant, PTL DEF SafetySpec, Queue!QueueSafetySpec
=============================================================================
