---------------------- MODULE PmemUnorderedIndexProofs ----------------------
(***************************************************************************)
(* The hash table of PmemUnorderedIndex, for any number of threads, keys,  *)
(* slots and calls, on the store below it: IInv is an invariant, and what  *)
(* follows from it.                                                        *)
(***************************************************************************)
EXTENDS PmemUnorderedIndex, FiniteSetTheorems, TLAPS

\* Quotient and remainder are what they are taken for.
LEMMA DivisionIs ==
  ASSUME NEW b \in Nat \ {0}, NEW r \in 0 .. b - 1, NEW a \in Int,
         NEW q \in Int, a = q * b + r
  PROVE  a % b = r /\ a \div b = q
<1>1. PICK p \in Int, t \in Int : p = a \div b /\ t = a % b
  OBVIOUS
<1>2. a = p * b + t /\ t \in 0 .. b - 1
  BY <1>1
<1>3. p = q
  <2>1. (p - q) * b = r - t
    BY <1>2
  <2>2. CASE p - q >= 1
    <3>1. (p - q) * b >= b
      BY <2>2
    <3> QED
      BY <1>2, <2>1, <3>1
  <2>3. CASE q - p >= 1
    <3>1. (q - p) * b >= b
      BY <2>3
    <3>2. (q - p) * b = t - r
      BY <1>2
    <3> QED
      BY <1>2, <3>1, <3>2
  <2> QED
    BY <2>2, <2>3
<1> QED
  BY <1>1, <1>2, <1>3

(***************************************************************************)
(* The store: StoreImpl::Set keeps the invariant of PmemStore, and hands   *)
(* out an address that no other record has; so no record is written over   *)
(* another.                                                                *)
(***************************************************************************)

(***************************************************************************)
(* Addresses and cache lines.                                              *)
(***************************************************************************)
LEMMA AddressIs ==
  ASSUME NEW m \in Nat, NEW p \in 0 .. TableSize - 1
  PROVE  /\ m * TableSize + p \in Nat
         /\ MappingOf(m * TableSize + p) = m
         /\ Place(m * TableSize + p) = p
<1>1. TableSize \in Nat \ {0}
  BY TableSizeAssumption
<1> DEFINE a == m * TableSize + p
<1>2. a \in Nat
  BY <1>1
<1>3. a = m * TableSize + p
  OBVIOUS
<1> HIDE DEF a
<1>4. a % TableSize = p /\ a \div TableSize = m
  BY <1>1, <1>2, <1>3, DivisionIs
<1> QED
  BY <1>2, <1>4 DEF a, MappingOf, Place

\* A later byte is not in an earlier line.
LEMMA LineOfGrows ==
  ASSUME NEW a \in Nat, NEW b \in Nat, a <= b
  PROVE  LineOf(a) \in Nat /\ LineOf(b) \in Nat /\ LineOf(a) <= LineOf(b)
  BY DEF LineOf, Line

\* PMemPersistRange misses no line of the range.
LEMMA EveryLineIsPersisted ==
  ASSUME NEW a \in Nat, NEW len \in Nat
  PROVE  {LineOf(a + i) : i \in 0 .. len - 1} \subseteq LinesPersisted(a, len)
<1> SUFFICES ASSUME NEW i \in 0 .. len - 1
             PROVE  LineOf(a + i) \in LinesPersisted(a, len)
  OBVIOUS
<1>1. LineOf(a) <= LineOf(a + i) /\ LineOf(a + i) <= LineOf(a + len - 1)
  <2>1. a + i \in Nat /\ a + len - 1 \in Nat /\ a <= a + i /\ a + i <= a + len - 1
    OBVIOUS
  <2> QED
    BY <2>1, LineOfGrows
<1>2. LineOf(a) \in Int /\ LineOf(a + i) \in Int /\ LineOf(a + len - 1) \in Int
  BY LineOfGrows
<1> QED
  BY <1>1, <1>2 DEF LinesPersisted

-----------------------------------------------------------------------------
(***************************************************************************)
(* The beginning.                                                          *)
(***************************************************************************)
LEMMA StoreInitInv == StoreInit => StoreInv
<1> SUFFICES ASSUME StoreInit
             PROVE  StoreInv
  OBVIOUS
<1> USE TableSizeAssumption, MaxSetsAssumption DEF StoreInit
<1>1. DOMAIN records = {} /\ files \in Seq([path : {Path[s] : s \in Stores}, id : Nat])
      /\ DOMAIN files = {} /\ Len(files) = 0
  OBVIOUS
<1>2. 0 = 0 * TableSize /\ 0 \in 0 .. Len(files)
  BY <1>1
<1>3. table \in [Threads -> [data : {m * TableSize : m \in 0 .. Len(files)}, offset : Nat]]
  <2>1. 0 \in {m * TableSize : m \in 0 .. Len(files)}
    BY <1>2
  <2> QED
    BY <2>1
<1>4. StoreTypeOK
  BY <1>1, <1>3 DEF StoreTypeOK
<1>5. IsFiniteSet(DOMAIN records) /\ Cardinality(DOMAIN records) <= MaxSets
  BY <1>1, FS_EmptySet
<1>6. TablesAreApart
  <2>1. \A t \in Threads : TableOf(t) = 0
    <3>1. MappingOf(0 * TableSize + 0) = 0
      BY AddressIs
    <3> QED
      BY <3>1 DEF TableOf
  <2> QED
    BY <2>1 DEF TablesAreApart
<1> QED
  BY <1>1, <1>4, <1>5, <1>6
  DEF StoreInv, NoFileIsMappedTwice, IsInjective, RecordsLieInMappings,
      RecordsOfAMappingAreApart, TablesAreFilledInOrder

-----------------------------------------------------------------------------
(***************************************************************************)
(* One call of Set.                                                        *)
(***************************************************************************)
\* The table that t has is a mapping, or t has none.
LEMMA TableOfType ==
  ASSUME StoreInv, NEW t \in Threads
  PROVE  /\ TableOf(t) \in 0 .. Len(files)
         /\ table[t].data = TableOf(t) * TableSize
         /\ table[t].offset \in Nat
<1>1. Len(files) \in Nat /\ TableSize \in Nat \ {0}
  BY TableSizeAssumption DEF StoreInv, StoreTypeOK
<1>2. PICK m \in 0 .. Len(files) : table[t].data = m * TableSize
  BY DEF StoreInv, StoreTypeOK
<1>3. m * TableSize = m * TableSize + 0
  BY <1>1, <1>2
<1>4. TableOf(t) = m
  BY <1>1, <1>2, <1>3, AddressIs DEF TableOf
<1>5. table[t].offset \in Nat
  BY DEF StoreInv, StoreTypeOK
<1> QED
  BY <1>2, <1>4, <1>5

\* An address at p in a mapping m of t's own, behind the records that are
\* there, with room for the new one if there can be.
FreeAt(t, len, m, p) ==
  /\ TableFor(t, len) = [data |-> m * TableSize, offset |-> p]
  /\ Address(t, len) \in Nat \ {0}
  /\ MappingOf(Address(t, len)) = m
  /\ Place(Address(t, len)) = p
  /\ len <= TableSize => p + len <= TableSize
  /\ \A b \in DOMAIN records : MappingOf(b) = m => Place(b) + records[b].len <= p
  /\ \A u \in Threads \ {t} : TableOf(u) # m
  /\ HasSpace(t, len) => m = TableOf(t) /\ m \in DOMAIN files
  /\ ~HasSpace(t, len) => m = Len(files) + 1

\* What Set works on.
LEMMA AddressIsFree ==
  ASSUME StoreInv, NEW t \in Threads, NEW len \in Nat \ {0}
  PROVE  \E m \in Nat \ {0}, p \in 0 .. TableSize - 1 : FreeAt(t, len, m, p)
<1>0. Len(files) \in Nat /\ DOMAIN files = 1 .. Len(files) /\ TableSize \in Nat \ {0}
  BY TableSizeAssumption DEF StoreInv, StoreTypeOK
<1>1. \A u \in Threads : TableOf(u) \in 0 .. Len(files)
                         /\ table[u].data = TableOf(u) * TableSize /\ table[u].offset \in Nat
  BY TableOfType
<1>2. table[t] = [data |-> table[t].data, offset |-> table[t].offset]
  BY DEF StoreInv, StoreTypeOK
<1>3. ASSUME NEW m \in Nat \ {0}, NEW p \in 0 .. TableSize - 1,
             TableFor(t, len) = [data |-> m * TableSize, offset |-> p]
      PROVE  /\ Address(t, len) \in Nat \ {0}
             /\ MappingOf(Address(t, len)) = m
             /\ Place(Address(t, len)) = p
  <2>1. Address(t, len) = m * TableSize + p
    BY <1>3 DEF Address
  <2>2. m * TableSize >= TableSize
    BY <1>0, <1>3
  <2>3. m * TableSize + p # 0
    BY <1>0, <2>2
  <2> QED
    BY <2>1, <2>3, AddressIs
<1>4. CASE HasSpace(t, len)
  <2> DEFINE m == TableOf(t)
             p == table[t].offset
  <2>1. TableFor(t, len) = [data |-> m * TableSize, offset |-> p]
    BY <1>1, <1>2, <1>4 DEF TableFor
  <2>2. p \in 0 .. TableSize - 1 /\ p + len <= TableSize
    BY <1>0, <1>1, <1>4 DEF HasSpace
  <2>3. m # 0 /\ \A u \in Threads \ {t} : TableOf(u) # m
    BY <1>0, <2>2 DEF StoreInv, TablesAreApart
  <2>4. m \in Nat \ {0} /\ m \in DOMAIN files
    BY <1>0, <1>1, <2>3
  <2>5. \A b \in DOMAIN records : MappingOf(b) = m => Place(b) + records[b].len <= p
    BY DEF StoreInv, TablesAreFilledInOrder
  <2> HIDE DEF m, p
  <2>6. /\ Address(t, len) \in Nat \ {0}
        /\ MappingOf(Address(t, len)) = m
        /\ Place(Address(t, len)) = p
    BY <1>3, <2>1, <2>2, <2>4
  <2>7. m = TableOf(t)
    BY DEF m
  <2> QED
    BY <1>4, <2>1, <2>2, <2>3, <2>4, <2>5, <2>6, <2>7 DEF FreeAt
<1>5. CASE ~HasSpace(t, len)
  <2> DEFINE m == Len(files) + 1
  <2>1. TableFor(t, len) = [data |-> m * TableSize, offset |-> 0]
    BY <1>5 DEF TableFor
  <2>2. m \in Nat \ {0} /\ 0 \in 0 .. TableSize - 1 /\ 0 + len = len
    BY <1>0
  <2>3. \A u \in Threads \ {t} : TableOf(u) # m
    BY <1>0, <1>1
  <2>4. \A b \in DOMAIN records : MappingOf(b) # m
    BY <1>0 DEF StoreInv, RecordsLieInMappings
  <2>5. m = Len(files) + 1
    OBVIOUS
  <2> HIDE DEF m
  <2>6. /\ Address(t, len) \in Nat \ {0}
        /\ MappingOf(Address(t, len)) = m
        /\ Place(Address(t, len)) = 0
    BY <1>3, <2>1, <2>2
  <2> QED
    BY <1>5, <2>1, <2>2, <2>3, <2>4, <2>5, <2>6 DEF FreeAt
<1> QED
  BY <1>4, <1>5

\* A file is mapped that no object has mapped before, or none is.
LEMMA FilesGrow ==
  ASSUME StoreInv, NEW t \in Threads, NEW s \in Stores, NEW k \in Keys,
         StoreSet(t, s, k)
  PROVE  /\ tableId' \in [Stores -> Nat]
         /\ files' \in Seq([path : {Path[r] : r \in Stores}, id : Nat])
         /\ \A i \in DOMAIN files' : \E r \in Stores :
              files'[i].path = Path[r] /\ files'[i].id \in 0 .. tableId'[r] - 1
         /\ NoFileIsMappedTwice'
         /\ Len(files') = IF HasSpace(t, RequestLen[k]) THEN Len(files) ELSE Len(files) + 1
<1> DEFINE F == [path : {Path[r] : r \in Stores}, id : Nat]
<1>1. /\ tableId \in [Stores -> Nat] /\ files \in Seq(F)
      /\ NoFileIsMappedTwice
      /\ \A i \in DOMAIN files : \E r \in Stores :
           files[i].path = Path[r] /\ files[i].id \in 0 .. tableId[r] - 1
  BY DEF StoreInv, StoreTypeOK
<1>2. CASE HasSpace(t, RequestLen[k])
  <2>1. files' = files /\ tableId' = tableId
    BY <1>2 DEF StoreSet
  <2> QED
    BY <1>1, <1>2, <2>1 DEF NoFileIsMappedTwice
<1>3. CASE ~HasSpace(t, RequestLen[k])
  <2> DEFINE f == [path |-> Path[s], id |-> tableId[s]]
             n == Len(files)
  <2>1. files' = Append(files, f) /\ tableId' = [tableId EXCEPT ![s] = @ + 1]
    BY <1>3 DEF StoreSet, MapTable
  <2>2. f \in F /\ n \in Nat /\ DOMAIN files = 1 .. n
    BY <1>1
  <2>3. tableId' \in [Stores -> Nat] /\ tableId'[s] = tableId[s] + 1
        /\ \A r \in Stores \ {s} : tableId'[r] = tableId[r]
    BY <1>1, <2>1
  <2> HIDE DEF F
  <2>4. files' \in Seq(F) /\ Len(files') = n + 1 /\ DOMAIN files' = 1 .. n + 1
        /\ files'[n + 1] = f /\ \A i \in 1 .. n : files'[i] = files[i]
    BY <1>1, <2>1, <2>2
  <2>5. \A i \in DOMAIN files' : \E r \in Stores :
          files'[i].path = Path[r] /\ files'[i].id \in 0 .. tableId'[r] - 1
    <3> SUFFICES ASSUME NEW i \in DOMAIN files'
                 PROVE  \E r \in Stores :
                          files'[i].path = Path[r] /\ files'[i].id \in 0 .. tableId'[r] - 1
      OBVIOUS
    <3>1. CASE i = n + 1
      <4>1. files'[i].path = Path[s] /\ files'[i].id = tableId[s]
        BY <2>4, <3>1
      <4>2. tableId[s] \in 0 .. tableId'[s] - 1
        BY <1>1, <2>3
      <4> QED
        BY <4>1, <4>2
    <3>2. CASE i \in 1 .. n
      <4>1. PICK r \in Stores : files[i].path = Path[r] /\ files[i].id \in 0 .. tableId[r] - 1
        BY <1>1, <2>2, <3>2
      <4>2. tableId'[r] >= tableId[r] /\ tableId[r] \in Nat /\ tableId'[r] \in Nat
        BY <1>1, <2>3
      <4> QED
        BY <2>4, <3>2, <4>1, <4>2
    <3> QED
      BY <2>2, <2>4, <3>1, <3>2
  <2>6. \A i \in 1 .. n : files[i] # f
    <3> SUFFICES ASSUME NEW i \in 1 .. n, files[i] = f
                 PROVE  FALSE
      OBVIOUS
    <3>1. PICK r \in Stores : files[i].path = Path[r] /\ files[i].id \in 0 .. tableId[r] - 1
      BY <1>1, <2>2
    <3>2. Path[r] = Path[s] /\ files[i].id = tableId[s]
      BY <3>1
    <3>3. r = s
      BY <3>2, PathAssumption DEF IsInjective
    <3> QED
      BY <1>1, <3>1, <3>2, <3>3
  <2>7. NoFileIsMappedTwice'
    <3> HIDE DEF f
    <3> SUFFICES ASSUME NEW i \in 1 .. n + 1, NEW j \in 1 .. n + 1, files'[i] = files'[j]
                 PROVE  i = j
      BY <2>4 DEF NoFileIsMappedTwice, IsInjective
    <3>1. CASE i = n + 1 /\ j \in 1 .. n
      BY <2>4, <2>6, <3>1
    <3>2. CASE j = n + 1 /\ i \in 1 .. n
      BY <2>4, <2>6, <3>2
    <3>3. CASE i \in 1 .. n /\ j \in 1 .. n
      <4>1. files[i] = files[j]
        BY <2>4, <3>3
      <4> QED
        BY <1>1, <2>2, <3>3, <4>1 DEF NoFileIsMappedTwice, IsInjective
    <3>4. CASE i = n + 1 /\ j = n + 1
      BY <3>4
    <3> QED
      BY <2>2, <3>1, <3>2, <3>3, <3>4
  <2> QED
    BY <1>3, <2>3, <2>4, <2>5, <2>7 DEF F
<1> QED
  BY <1>2, <1>3

\* Set adds one record, at an address that it hands out for the first time,
\* and writes it back from the cache.
LEMMA StoreSetKeepsInv ==
  ASSUME StoreInv, NEW t \in Threads, NEW s \in Stores, NEW k \in Keys,
         StoreSet(t, s, k)
  PROVE  /\ StoreInv'
         /\ Address(t, RequestLen[k]) \in Nat \ {0}
         /\ Address(t, RequestLen[k]) \notin DOMAIN records
         /\ DOMAIN records' = DOMAIN records \cup {Address(t, RequestLen[k])}
         /\ records'[Address(t, RequestLen[k])] = [key |-> k, len |-> RequestLen[k]]
         /\ \A b \in DOMAIN records : records'[b] = records[b]
<1> DEFINE len == RequestLen[k]
           a == Address(t, len)
<1>1. len \in Nat \ {0} /\ TableSize \in Nat \ {0} /\ MaxSets \in Nat
  BY RequestLenAssumption, TableSizeAssumption, MaxSetsAssumption
<1>2a. PICK m \in Nat \ {0}, p \in 0 .. TableSize - 1 : FreeAt(t, len, m, p)
  BY <1>1, AddressIsFree, Zenon
<1>2. /\ TableFor(t, len) = [data |-> m * TableSize, offset |-> p]
      /\ a \in Nat \ {0}
      /\ MappingOf(a) = m
      /\ Place(a) = p
      /\ len <= TableSize => p + len <= TableSize
      /\ \A b \in DOMAIN records : MappingOf(b) = m => Place(b) + records[b].len <= p
      /\ \A u \in Threads \ {t} : TableOf(u) # m
      /\ HasSpace(t, len) => m = TableOf(t) /\ m \in DOMAIN files
      /\ ~HasSpace(t, len) => m = Len(files) + 1
  BY <1>2a DEF FreeAt
<1>3. /\ records' = Written(a, k)
      /\ table' = [table EXCEPT ![t] = [TableFor(t, len) EXCEPT !.offset = @ + len]]
      /\ dirty' = (dirty \cup {LineOf(a + i) : i \in 0 .. len - 1}) \ LinesPersisted(a, len)
      /\ Cardinality(DOMAIN records) < MaxSets
  BY DEF StoreSet
<1> HIDE DEF len, a
<1>4. /\ StoreTypeOK
      /\ IsFiniteSet(DOMAIN records)
      /\ dirty = {}
      /\ TablesAreApart
      /\ RecordsLieInMappings
      /\ RecordsOfAMappingAreApart
      /\ TablesAreFilledInOrder
  BY DEF StoreInv
<1>5. a \notin DOMAIN records
  <2> SUFFICES ASSUME a \in DOMAIN records
               PROVE  FALSE
    OBVIOUS
  <2>1. p + records[a].len <= p
    BY <1>2
  <2>2. records[a].len \in Nat /\ records[a].len > 0
    BY <1>4 DEF StoreTypeOK, RecordsLieInMappings
  <2> QED
    BY <1>2, <2>1, <2>2
<1>6. /\ DOMAIN records' = DOMAIN records \cup {a}
      /\ records'[a] = [key |-> k, len |-> len]
      /\ \A b \in DOMAIN records : records'[b] = records[b]
  BY <1>3, <1>5 DEF Written, len
<1>7. /\ tableId' \in [Stores -> Nat]
      /\ files' \in Seq([path : {Path[r] : r \in Stores}, id : Nat])
      /\ \A i \in DOMAIN files' : \E r \in Stores :
           files'[i].path = Path[r] /\ files'[i].id \in 0 .. tableId'[r] - 1
      /\ NoFileIsMappedTwice'
      /\ Len(files') = IF HasSpace(t, len) THEN Len(files) ELSE Len(files) + 1
  BY FilesGrow DEF len
<1>8. /\ Len(files) \in Nat /\ DOMAIN files = 1 .. Len(files)
      /\ Len(files') \in Nat /\ DOMAIN files' = 1 .. Len(files')
      /\ Len(files) <= Len(files') /\ m \in 1 .. Len(files')
  <2> DEFINE F == [path : {Path[r] : r \in Stores}, id : Nat]
  <2>1. files \in Seq(F) /\ files' \in Seq(F)
    BY <1>4, <1>7 DEF StoreTypeOK
  <2> HIDE DEF F
  <2>2. /\ Len(files) \in Nat /\ DOMAIN files = 1 .. Len(files)
        /\ Len(files') \in Nat /\ DOMAIN files' = 1 .. Len(files')
    BY <2>1
  <2> QED
    BY <1>2, <1>7, <2>2
<1>9. /\ table' \in [Threads -> [data : {i * TableSize : i \in 0 .. Len(files')}, offset : Nat]]
      /\ table'[t].data = m * TableSize /\ table'[t].offset = p + len
      /\ \A u \in Threads \ {t} : table'[u] = table[u]
  <2>1. [TableFor(t, len) EXCEPT !.offset = @ + len] = [data |-> m * TableSize, offset |-> p + len]
    BY <1>2
  <2>2. table' = [table EXCEPT ![t] = [data |-> m * TableSize, offset |-> p + len]]
    BY <1>3, <2>1
  <2>3. table \in [Threads -> [data : {i * TableSize : i \in 0 .. Len(files)}, offset : Nat]]
    BY <1>4 DEF StoreTypeOK
  <2>4. m * TableSize \in {i * TableSize : i \in 0 .. Len(files')}
    BY <1>8
  <2>5. {i * TableSize : i \in 0 .. Len(files)} \subseteq {i * TableSize : i \in 0 .. Len(files')}
    BY <1>8
  <2>6. p + len \in Nat
    BY <1>1
  <2> QED
    BY <2>2, <2>3, <2>4, <2>5, <2>6
<1>10. /\ TableOf(t)' = m
       /\ \A u \in Threads \ {t} : TableOf(u)' = TableOf(u)
  <2>1. m * TableSize = m * TableSize + 0 /\ 0 \in 0 .. TableSize - 1
    BY <1>1
  <2>2. MappingOf(m * TableSize) = m
    BY <2>1, AddressIs
  <2> QED
    BY <1>9, <2>2 DEF TableOf, MappingOf
<1>11. StoreTypeOK'
  <2>1. \A b \in DOMAIN records' : records'[b] \in [key : Keys, len : Nat]
    BY <1>1, <1>4, <1>6 DEF StoreTypeOK
  <2>2. dirty' \subseteq Nat
    BY <1>1, <1>2, <1>3, <1>4, EveryLineIsPersisted
  <2> QED
    BY <1>7, <1>9, <2>1, <2>2 DEF StoreTypeOK
<1>12. IsFiniteSet(DOMAIN records') /\ Cardinality(DOMAIN records') <= MaxSets
  <2>1. /\ IsFiniteSet(DOMAIN records \cup {a})
        /\ Cardinality(DOMAIN records \cup {a}) = Cardinality(DOMAIN records) + 1
    BY <1>4, <1>5, FS_AddElement
  <2>2. Cardinality(DOMAIN records) \in Nat
    BY <1>4, FS_CardinalityType
  <2> QED
    BY <1>1, <1>3, <1>6, <2>1, <2>2
<1>13. dirty' = {}
  BY <1>1, <1>2, <1>3, <1>4, EveryLineIsPersisted
<1>14. TablesAreApart'
  <2> SUFFICES ASSUME NEW u \in Threads
               PROVE  /\ TableOf(u)' = 0 => table'[u].offset = TableSize
                      /\ \A v \in Threads \ {u} : TableOf(v)' = TableOf(u)' => TableOf(u)' = 0
    BY DEF TablesAreApart
  <2>1. CASE u = t
    BY <1>2, <1>10, <2>1
  <2>2. CASE u # t
    <3>1. TableOf(u)' = 0 => table'[u].offset = TableSize
      BY <1>4, <1>9, <1>10, <2>2 DEF TablesAreApart
    <3>2. \A v \in Threads \ {u} : TableOf(v)' = TableOf(u)' => TableOf(u)' = 0
      BY <1>2, <1>4, <1>10, <2>2 DEF TablesAreApart
    <3> QED
      BY <3>1, <3>2
  <2> QED
    BY <2>1, <2>2
<1>15. RecordsLieInMappings'
  <2> SUFFICES ASSUME NEW b \in DOMAIN records'
               PROVE  /\ b \in Nat
                      /\ MappingOf(b) \in DOMAIN files'
                      /\ records'[b].len > 0
                      /\ records'[b].len <= TableSize => Place(b) + records'[b].len <= TableSize
    BY DEF RecordsLieInMappings, Short, MappingOf, Place
  <2>1. CASE b = a
    BY <1>1, <1>2, <1>6, <1>8, <2>1
  <2>2. CASE b \in DOMAIN records
    BY <1>4, <1>6, <1>8, <2>2 DEF RecordsLieInMappings, Short
  <2> QED
    BY <1>6, <2>1, <2>2
<1>16. RecordsOfAMappingAreApart'
  <2> SUFFICES ASSUME NEW b \in DOMAIN records', NEW c \in DOMAIN records',
                      b # c, MappingOf(b) = MappingOf(c)
               PROVE  \/ Place(b) + records'[b].len <= Place(c)
                      \/ Place(c) + records'[c].len <= Place(b)
    BY DEF RecordsOfAMappingAreApart, MappingOf, Place
  <2>1. CASE b = a
    BY <1>2, <1>6, <2>1
  <2>2. CASE c = a
    BY <1>2, <1>6, <2>2
  <2>3. CASE b \in DOMAIN records /\ c \in DOMAIN records
    BY <1>4, <1>6, <2>3 DEF RecordsOfAMappingAreApart
  <2> QED
    BY <1>6, <2>1, <2>2, <2>3
<1>17. TablesAreFilledInOrder'
  <2> SUFFICES ASSUME NEW u \in Threads, NEW b \in DOMAIN records',
                      MappingOf(b) = TableOf(u)'
               PROVE  Place(b) + records'[b].len <= table'[u].offset
    BY DEF TablesAreFilledInOrder, MappingOf, Place
  <2>1. CASE u = t /\ b = a
    BY <1>1, <1>2, <1>6, <1>9, <2>1
  <2>2. CASE u = t /\ b \in DOMAIN records
    <3>1. records[b].len \in Nat /\ Place(b) \in Int
      BY <1>1, <1>4, <2>2 DEF StoreTypeOK, RecordsLieInMappings, Place
    <3> QED
      BY <1>1, <1>2, <1>6, <1>9, <1>10, <2>2, <3>1
  <2>3. CASE u # t /\ b = a
    BY <1>2, <1>10, <2>3
  <2>4. CASE u # t /\ b \in DOMAIN records
    BY <1>4, <1>6, <1>9, <1>10, <2>4 DEF TablesAreFilledInOrder
  <2> QED
    BY <1>6, <2>1, <2>2, <2>3, <2>4
<1>18. StoreInv'
  BY <1>7, <1>11, <1>12, <1>13, <1>14, <1>15, <1>16, <1>17 DEF StoreInv
<1> QED
  BY <1>2, <1>5, <1>6, <1>18 DEF a, len

-----------------------------------------------------------------------------
\* In any state that Set leaves behind, no record is written over.
LEMMA StoreKeepsRecords == StoreInv => RecordsAreKept
<1> SUFFICES ASSUME StoreInv, NEW a \in DOMAIN records, Short(a)
             PROVE  /\ Place(a) + records[a].len <= TableSize
                    /\ \A b \in DOMAIN records \ {a} : Short(b) => Apart(a, b)
  BY DEF RecordsAreKept
<1>1. Place(a) + records[a].len <= TableSize
  BY DEF StoreInv, RecordsLieInMappings
<1>2. ASSUME NEW b \in DOMAIN records \ {a}
      PROVE  Apart(a, b)
  <2>1. CASE MappingOf(a) = MappingOf(b)
    BY <1>2, <2>1 DEF StoreInv, RecordsOfAMappingAreApart, Apart
  <2>2. CASE MappingOf(a) # MappingOf(b)
    <3>1. MappingOf(a) \in DOMAIN files /\ MappingOf(b) \in DOMAIN files
      BY <1>2 DEF StoreInv, RecordsLieInMappings
    <3>2. FileOf(a) # FileOf(b)
      BY <2>2, <3>1 DEF StoreInv, NoFileIsMappedTwice, IsInjective, FileOf
    <3> QED
      BY <3>2 DEF Apart
  <2> QED
    BY <2>1, <2>2
<1> QED
  BY <1>1, <1>2

(***************************************************************************)
(* The table.                                                              *)
(***************************************************************************)

\* A signature is odd, so an entry is never taken for a free slot.
LEMMA HashIs ==
  ASSUME NEW k \in Keys
  PROVE  Hash[k] \in Nat /\ Hash[k] # 0 /\ Home(k) \in 0 .. EntryNum - 1
<1>1. Hash[k] \in Nat /\ Hash[k] % 2 = 1 /\ EntryNum \in Nat \ {0}
  BY HashAssumption, EntryNumAssumption
<1>2. Hash[k] # 0
  BY <1>1
<1>3. Hash[k] % EntryNum \in 0 .. EntryNum - 1
  BY <1>1
<1> QED
  BY <1>1, <1>2, <1>3 DEF Home

\* A record of the store, and what an entry of its key is.
LEMMA KeyOfRecord ==
  ASSUME StoreTypeOK, NEW o \in Offsets
  PROVE  records[o].key \in Keys /\ Hash[records[o].key] # 0
         /\ Home(records[o].key) \in 0 .. EntryNum - 1
  BY HashIs DEF StoreTypeOK, Offsets

(***************************************************************************)
(* What a step of one thread leaves to the others.                         *)
(***************************************************************************)
OthersStay(t) ==
  \A u \in Threads \ {t} :
    /\ pc'[u] = pc[u]
    /\ offset'[u] = offset[u]
    /\ entry'[u] = entry[u]
    /\ probeLen'[u] = probeLen[u]
    /\ currMax'[u] = currMax[u]

SlotStep(t) ==
  \/ UNCHANGED slot
  \/ pc[t] = "cas" /\ slot[entry[t]] = Free /\ Claim(t)

\* Taken slots and records stay, and max_probe_len does not sink.
Extends ==
  /\ \A i \in Slots : Taken(i) => slot'[i] = slot[i]
  /\ maxProbeLen <= maxProbeLen'
  /\ \A o \in Offsets : o \in DOMAIN records' /\ records'[o] = records[o]

DoneStep(t) ==
  \/ UNCHANGED done
  \/ /\ pc[t] # "idle"
     /\ done' = done \cup {offset[t]}
     /\ \E o \in Offsets : o = offset[t] /\ Reachable(o)'

\* What t leaves unsaved is its own entry.
UnsavedStep(t) ==
  \A i \in unsaved' :
    \/ i \in unsaved /\ ~(pc[t] = "persist" /\ slot[i].offset = offset[t])
    \/ pc'[t] = "persist" /\ Taken(i)' /\ slot'[i].offset = offset'[t]

LEMMA TakenSlotsStay ==
  ASSUME TypeOK, NEW t \in Threads, SlotStep(t)
  PROVE  \A i \in Slots : Taken(i) => slot'[i] = slot[i]
  BY DEF TypeOK, SlotStep, Claim, Taken

LEMMA ReachableStays ==
  ASSUME TypeOK, TypeOK', Extends, NEW o \in Offsets, Reachable(o)
  PROVE  Reachable(o)'
<1> DEFINE home == Home(records[o].key)
<1>1. PICK i \in 0 .. maxProbeLen - 1 :
        /\ home + i \in Slots
        /\ slot[home + i] = [signature |-> Hash[records[o].key], offset |-> o]
        /\ \A j \in 0 .. i - 1 : slot[home + j] # Free
  BY DEF Reachable
<1>2. PICK m \in Int, n \in Int : m = maxProbeLen /\ n = maxProbeLen' /\ m <= n
  BY EntryNumAssumption DEF TypeOK, Extends
<1>3. records'[o] = records[o]
  BY DEF Extends
<1>4. home \in 0 .. EntryNum - 1 /\ Hash[records[o].key] # 0
  BY KeyOfRecord DEF TypeOK
<1>5. slot'[home + i] = slot[home + i]
  BY <1>1, <1>4 DEF Extends, Taken, Free
<1>6. \A j \in 0 .. i - 1 : slot'[home + j] # Free
  <2> SUFFICES ASSUME NEW j \in 0 .. i - 1
               PROVE  slot'[home + j] # Free
    OBVIOUS
  <2>1. home + j \in Slots
    BY <1>1, <1>4, EntryNumAssumption DEF Slots
  <2> QED
    BY <1>1, <2>1 DEF Extends, Taken
<1> HIDE DEF home
<1>7. i \in 0 .. n - 1
  <2>1. i \in 0 .. m - 1
    BY <1>2
  <2>2. m <= n
    BY <1>2
  <2> QED
    BY <2>1, <2>2
<1>8. \E h \in 0 .. n - 1 :
        /\ home + h \in Slots
        /\ slot'[home + h] = [signature |-> Hash[records'[o].key], offset |-> o]
        /\ \A j \in 0 .. h - 1 : slot'[home + j] # Free
  BY <1>1, <1>3, <1>5, <1>6, <1>7
<1>9. home = Home(records'[o].key)
  BY <1>3 DEF home
<1> QED
  BY <1>2, <1>8, <1>9, Zenon DEF Reachable, Slots, Free, Home

\* Another thread's Set goes on as if nothing had happened.
LEMMA OtherSetGoesOn ==
  ASSUME IInv, TypeOK', NEW t \in Threads, NEW u \in Threads \ {t},
         OthersStay(t), SlotStep(t), Extends, DoneStep(t),
         pc[u] # "idle"
  PROVE  InSet(u)'
<1> DEFINE k == KeyOf(u)
<1>1. InSet(u) /\ TypeOK
  BY DEF IInv
<1>2. /\ pc'[u] = pc[u] /\ offset'[u] = offset[u] /\ entry'[u] = entry[u]
      /\ probeLen'[u] = probeLen[u] /\ currMax'[u] = currMax[u]
  BY DEF OthersStay
<1>3. pc[t] # "idle" => offset[t] # offset[u]
  BY DEF IInv
<1>4. offset[u] \in Offsets /\ offset[u] \notin done
  BY <1>1 DEF InSet
<1>5. offset'[u] \in Offsets' \ done'
  BY <1>2, <1>3, <1>4 DEF Extends, DoneStep, Offsets
<1>6. KeyOf(u)' = k
  BY <1>2, <1>4 DEF KeyOf, Extends
<1>7. k \in Keys /\ Hash[k] # 0 /\ Home(k) \in 0 .. EntryNum - 1
  BY <1>1, <1>4, KeyOfRecord DEF TypeOK, KeyOf
<1>8. ProbedAreTaken(u)'
  <2>1. \A i \in Home(k) .. entry[u] - 1 : i \in Slots /\ slot'[i] # Free
    BY <1>1 DEF InSet, ProbedAreTaken, Taken, Extends
  <2> QED
    BY <1>1, <1>2, <1>6, <2>1 DEF InSet, ProbedAreTaken, Taken, Slots, Free, Home
<1>9. Searching(u)' => \A i \in Slots : slot'[i].offset # offset'[u]
  <2>1. Searching(u)' => \A i \in Slots : slot[i].offset # offset[u]
    BY <1>1, <1>2 DEF InSet, Searching
  <2>2. \A i \in Slots : slot'[i] = slot[i] \/ (pc[t] # "idle" /\ slot'[i].offset = offset[t])
    BY <1>1 DEF SlotStep, Claim, TypeOK
  <2> QED
    BY <1>2, <1>3, <2>1, <2>2
<1>10. ~Searching(u)' => slot'[entry'[u]] = [signature |-> Hash[k], offset |-> offset'[u]]
  <2> SUFFICES ASSUME ~Searching(u)'
               PROVE  slot'[entry'[u]] = [signature |-> Hash[k], offset |-> offset'[u]]
    OBVIOUS
  <2>1. ~Searching(u) /\ entry[u] \in Slots
    BY <1>1, <1>2 DEF InSet, Searching
  <2>2. slot[entry[u]] = [signature |-> Hash[k], offset |-> offset[u]]
    BY <1>1, <2>1 DEF InSet
  <2> QED
    BY <1>2, <1>7, <2>1, <2>2 DEF Extends, Taken, Free
<1>11. pc'[u] = "return" => probeLen'[u] <= maxProbeLen'
  BY <1>1, <1>2 DEF InSet, Extends, TypeOK
<1>12. /\ pc'[u] # "overrun" <=> entry'[u] \in Slots
       /\ pc'[u] = "raise" => probeLen'[u] > currMax'[u]
  BY <1>1, <1>2 DEF InSet
<1> HIDE DEF k
<1> QED
  BY <1>5, <1>6, <1>8, <1>9, <1>10, <1>11, <1>12 DEF InSet, Slots

\* A step of t keeps the invariant if it does what the others rely on and its
\* own Set stands as it should.
LEMMA StepKeepsInv ==
  ASSUME IInv, TypeOK', StoreInv', NEW t \in Threads,
         OthersStay(t), SlotStep(t), Extends, DoneStep(t), UnsavedStep(t),
         pc'[t] # "idle" =>
           /\ InSet(t)'
           /\ \A u \in Threads \ {t} : pc[u] # "idle" => offset'[t] # offset[u]
  PROVE  IInv'
<1>1. TypeOK /\ EntriesDiffer /\ UnsavedIsBeingSaved /\ EverySetIsReachable
  BY DEF IInv
<1>2. \A u \in Threads : pc'[u] # "idle" => InSet(u)'
  BY OtherSetGoesOn DEF OthersStay
<1>3. \A u, v \in Threads :
        u # v /\ pc'[u] # "idle" /\ pc'[v] # "idle" => offset'[u] # offset'[v]
  <2> SUFFICES ASSUME NEW u \in Threads, NEW v \in Threads,
                      u # v, pc'[u] # "idle", pc'[v] # "idle"
               PROVE  offset'[u] # offset'[v]
    OBVIOUS
  <2>1. CASE u = t
    BY <2>1 DEF OthersStay
  <2>2. CASE v = t
    BY <2>2 DEF OthersStay
  <2>3. CASE u # t /\ v # t
    BY <2>3 DEF OthersStay, IInv
  <2> QED
    BY <2>1, <2>2, <2>3
<1>4. EntriesDiffer'
  <2>1. CASE UNCHANGED slot
    BY <1>1, <2>1 DEF EntriesDiffer, Taken, Slots, Free
  <2>2. CASE pc[t] = "cas" /\ slot[entry[t]] = Free /\ Claim(t)
    <3> DEFINE e == entry[t]
    <3>1. InSet(t) /\ Searching(t) /\ e \in Slots
      BY <2>2 DEF IInv, InSet, Searching
    <3>2. \A i \in Slots : slot[i].offset # offset[t]
      BY <3>1 DEF InSet
    <3>3. slot'[e].offset = offset[t] /\ \A i \in Slots \ {e} : slot'[i] = slot[i]
      BY <1>1, <2>2, <3>1 DEF Claim, TypeOK
    <3> SUFFICES ASSUME NEW i \in Slots, NEW j \in Slots, slot'[i] # Free,
                        slot'[i].offset = slot'[j].offset
                 PROVE  i = j
      BY DEF EntriesDiffer, Taken, Slots, Free
    <3>4. CASE i # e /\ j # e
      BY <1>1, <3>3, <3>4 DEF EntriesDiffer, Taken
    <3>5. CASE i = e \/ j = e
      BY <3>2, <3>3, <3>5
    <3> QED
      BY <3>4, <3>5
  <2> QED
    BY <2>1, <2>2 DEF SlotStep
<1>5. UnsavedIsBeingSaved'
  <2> SUFFICES ASSUME NEW i \in unsaved'
               PROVE  /\ Taken(i)'
                      /\ \E u \in Threads : pc'[u] = "persist" /\ slot'[i].offset = offset'[u]
    BY DEF UnsavedIsBeingSaved
  <2>1. CASE i \in unsaved /\ ~(pc[t] = "persist" /\ slot[i].offset = offset[t])
    <3>1. PICK u \in Threads : pc[u] = "persist" /\ slot[i].offset = offset[u]
      BY <1>1, <2>1 DEF UnsavedIsBeingSaved
    <3>2. u # t
      BY <2>1, <3>1
    <3>3. slot[i] # Free /\ slot'[i] = slot[i]
      BY <1>1, <2>1 DEF UnsavedIsBeingSaved, Taken, Extends, TypeOK
    <3>4. pc'[u] = "persist" /\ slot'[i].offset = offset'[u]
      BY <3>1, <3>2, <3>3 DEF OthersStay
    <3> QED
      BY <3>3, <3>4 DEF Taken, Free
  <2>2. CASE pc'[t] = "persist" /\ Taken(i)' /\ slot'[i].offset = offset'[t]
    BY <2>2
  <2> QED
    BY <2>1, <2>2 DEF UnsavedStep
<1>6. EverySetIsReachable'
  <2> SUFFICES ASSUME NEW o \in done'
               PROVE  Reachable(o)'
    BY DEF EverySetIsReachable
  <2>1. CASE o \in done
    <3>1. o \in Offsets /\ Reachable(o)
      BY <1>1, <2>1 DEF TypeOK, EverySetIsReachable
    <3> QED
      BY <1>1, <3>1, ReachableStays
  <2>2. CASE o \notin done
    <3>1. o = offset[t] /\ \E n \in Offsets : n = offset[t] /\ Reachable(n)'
      BY <2>2 DEF DoneStep
    <3>2. PICK n \in Offsets : n = o /\ Reachable(n)'
      BY <3>1
    <3> QED
      BY <3>2
  <2> QED
    BY <2>1, <2>2
<1> QED
  BY <1>2, <1>3, <1>4, <1>5, <1>6 DEF IInv

\* A step that leaves the store alone.
LEMMA IndexStepKeepsInv ==
  ASSUME IInv, TypeOK', NEW t \in Threads, UNCHANGED storeVars,
         OthersStay(t), SlotStep(t), maxProbeLen <= maxProbeLen',
         DoneStep(t), UnsavedStep(t),
         pc'[t] # "idle" => InSet(t)' /\ pc[t] # "idle" /\ offset'[t] = offset[t]
  PROVE  IInv'
<1>1. StoreInv' = StoreInv
  BY DEF storeVars, StoreInv, StoreTypeOK, NoFileIsMappedTwice, TablesAreApart,
         RecordsLieInMappings, RecordsOfAMappingAreApart, TablesAreFilledInOrder,
         TableOf, MappingOf, Place, Short
<1>2. Extends
  BY TakenSlotsStay DEF IInv, Extends, storeVars, Offsets
<1>3. \A u \in Threads \ {t} : pc'[t] # "idle" /\ pc[u] # "idle" => offset'[t] # offset[u]
  BY DEF IInv
<1> QED
  BY <1>1, <1>2, <1>3, StepKeepsInv DEF IInv

(***************************************************************************)
(* Each step.                                                              *)
(***************************************************************************)
LEMMA InitInv == Init => IInv
<1> SUFFICES ASSUME Init
             PROVE  IInv
  OBVIOUS
<1>1. StoreInv
  BY StoreInitInv DEF Init
<1>2. TypeOK
  BY <1>1, EntryNumAssumption DEF Init, TypeOK, StoreInv, PC
<1>3. EntriesDiffer /\ UnsavedIsBeingSaved /\ EverySetIsReachable
  BY DEF Init, EntriesDiffer, UnsavedIsBeingSaved, EverySetIsReachable, Taken
<1> QED
  BY <1>1, <1>2, <1>3 DEF Init, IInv

\* The record goes to a new address, and the search begins at its home.
LEMMA SetStoreKeepsInv ==
  ASSUME IInv, NEW t \in Threads, NEW k \in Keys, SetStore(t, k)
  PROVE  IInv'
<1> DEFINE a == Address(t, RequestLen[k])
<1>1. TypeOK /\ StoreInv
  BY DEF IInv
<1>2. /\ StoreInv'
      /\ a \notin Offsets
      /\ a \in Nat \ {0}
      /\ Offsets' = Offsets \cup {a}
      /\ records'[a] = [key |-> k, len |-> RequestLen[k]]
      /\ \A o \in Offsets : records'[o] = records[o]
  BY <1>1, StoreSetKeepsInv, StoreAssumption DEF SetStore, Offsets
<1>3. /\ pc[t] = "idle"
      /\ offset' = [offset EXCEPT ![t] = a]
      /\ entry' = [entry EXCEPT ![t] = Home(k)]
      /\ probeLen' = [probeLen EXCEPT ![t] = 1]
      /\ pc' = [pc EXCEPT ![t] = Probing(Home(k))]
      /\ UNCHANGED <<tableVars, currMax, done>>
  BY DEF SetStore
<1> HIDE DEF a
<1>4. Home(k) \in 0 .. EntryNum - 1 /\ Home(k) \in Slots /\ Home(k) \in 0 .. EntryNum + Slack
  BY HashIs, EntryNumAssumption DEF Slots
<1>5. pc' = [pc EXCEPT ![t] = "test"]
  BY <1>3, <1>4 DEF Probing
<1>6. TypeOK'
  <2>1. slot' \in [Slots -> {Free} \cup [signature : {Hash[q] : q \in Keys}, offset : Offsets']]
    BY <1>1, <1>2, <1>3 DEF TypeOK, tableVars
  <2>2. /\ offset' \in [Threads -> Offsets' \cup {0}]
        /\ done' \subseteq Offsets'
    BY <1>1, <1>2, <1>3 DEF TypeOK
  <2>3. /\ entry' \in [Threads -> 0 .. EntryNum + Slack]
        /\ probeLen' \in [Threads -> Nat]
        /\ pc' \in [Threads -> PC]
    BY <1>1, <1>3, <1>4, <1>5 DEF TypeOK, PC
  <2>4. /\ maxProbeLen' \in 0 .. EntryNum + Slack
        /\ unsaved' \subseteq Slots
        /\ currMax' \in [Threads -> 0 .. EntryNum + Slack]
    BY <1>1, <1>3 DEF TypeOK, tableVars
  <2> QED
    BY <1>2, <2>1, <2>2, <2>3, <2>4 DEF TypeOK, StoreInv, Slots, Free, PC
<1>7. OthersStay(t) /\ SlotStep(t) /\ DoneStep(t)
  BY <1>1, <1>3 DEF TypeOK, OthersStay, SlotStep, DoneStep, tableVars
<1>8. Extends
  <2>1. \A i \in Slots : Taken(i) => slot'[i] = slot[i]
    BY <1>3 DEF tableVars
  <2>2. maxProbeLen <= maxProbeLen'
    BY <1>1, <1>3, EntryNumAssumption DEF TypeOK, tableVars
  <2>3. \A o \in Offsets : o \in DOMAIN records' /\ records'[o] = records[o]
    BY <1>2 DEF Offsets
  <2> QED
    BY <2>1, <2>2, <2>3 DEF Extends
<1>9. UnsavedStep(t)
  BY <1>3 DEF UnsavedStep, tableVars
<1>10. pc'[t] = "test" /\ offset'[t] = a /\ entry'[t] = Home(k) /\ probeLen'[t] = 1
  BY <1>1, <1>3, <1>5 DEF TypeOK
<1>11. InSet(t)'
  <2>1. KeyOf(t)' = k
    BY <1>2, <1>10 DEF KeyOf
  <2>2. offset'[t] \in Offsets' \ done'
    BY <1>1, <1>2, <1>3, <1>10 DEF TypeOK
  <2>3. ProbedAreTaken(t)'
    BY <1>4, <1>10, <2>1 DEF ProbedAreTaken, Home
  <2>4. \A i \in Slots : slot'[i].offset # offset'[t]
    <3>1. \A i \in Slots : slot[i].offset \in Offsets \cup {0}
      BY <1>1 DEF TypeOK, Free
    <3> QED
      BY <1>2, <1>3, <1>10, <3>1 DEF tableVars
  <2> QED
    BY <1>4, <1>10, <2>2, <2>3, <2>4 DEF InSet, Searching, Slots
<1>12. \A u \in Threads \ {t} : pc[u] # "idle" => offset'[t] # offset[u]
  BY <1>2, <1>10 DEF IInv, InSet
<1> QED
  BY <1>2, <1>6, <1>7, <1>8, <1>9, <1>11, <1>12, StepKeepsInv

LEMMA OtherStoreSetKeepsInv ==
  ASSUME IInv, NEW t \in Threads, NEW s \in Stores, NEW k \in Keys, OtherStoreSet(t, s, k)
  PROVE  IInv'
<1> DEFINE a == Address(t, RequestLen[k])
<1>1. TypeOK /\ StoreInv
  BY DEF IInv
<1>2. /\ StoreInv'
      /\ Offsets' = Offsets \cup {a}
      /\ \A o \in Offsets : records'[o] = records[o]
  BY <1>1, StoreSetKeepsInv DEF OtherStoreSet, Offsets
<1> HIDE DEF a
<1>3. pc[t] = "idle" /\ UNCHANGED <<tableVars, pc, setVars, done>>
  BY DEF OtherStoreSet
<1>4. TypeOK'
  <2>1. slot' \in [Slots -> {Free} \cup [signature : {Hash[q] : q \in Keys}, offset : Offsets']]
    BY <1>1, <1>2, <1>3 DEF TypeOK, tableVars
  <2>2. offset' \in [Threads -> Offsets' \cup {0}] /\ done' \subseteq Offsets'
    BY <1>1, <1>2, <1>3 DEF TypeOK, setVars
  <2> QED
    BY <1>1, <1>2, <1>3, <2>1, <2>2
    DEF TypeOK, StoreInv, tableVars, setVars, Slots, Free, PC
<1>5. OthersStay(t) /\ SlotStep(t) /\ DoneStep(t)
  BY <1>3 DEF OthersStay, SlotStep, DoneStep, tableVars, setVars
<1>6. Extends
  <2>1. \A i \in Slots : Taken(i) => slot'[i] = slot[i]
    BY <1>3 DEF tableVars
  <2>2. maxProbeLen <= maxProbeLen'
    BY <1>1, <1>3, EntryNumAssumption DEF TypeOK, tableVars
  <2>3. \A o \in Offsets : o \in DOMAIN records' /\ records'[o] = records[o]
    BY <1>2 DEF Offsets
  <2> QED
    BY <2>1, <2>2, <2>3 DEF Extends
<1>7. UnsavedStep(t)
  BY <1>3 DEF UnsavedStep, tableVars
<1> QED
  BY <1>2, <1>3, <1>4, <1>5, <1>6, <1>7, StepKeepsInv

\* ++entry past a taken slot, which may lead out of the table.
LEMMA ProbeNextKeepsInv ==
  ASSUME IInv, NEW t \in Threads,
         pc[t] \in {"test", "cas"}, slot[entry[t]] # Free, ProbeNext(t),
         UNCHANGED <<tableVars, storeVars, offset, currMax, done>>
  PROVE  IInv'
<1>1. TypeOK /\ InSet(t)
  BY DEF IInv
<1>2. /\ entry' = [entry EXCEPT ![t] = @ + 1]
      /\ probeLen' = [probeLen EXCEPT ![t] = @ + 1]
      /\ pc' = [pc EXCEPT ![t] = Probing(entry[t] + 1)]
  BY DEF ProbeNext
<1>3. entry[t] \in Slots /\ entry[t] \in Nat /\ entry[t] + 1 \in 0 .. EntryNum + Slack
  BY <1>1, EntryNumAssumption DEF InSet, Slots
<1>4. Probing(entry[t] + 1) \in PC
  BY DEF Probing, PC
<1>5. TypeOK'
  <2>1. /\ entry' \in [Threads -> 0 .. EntryNum + Slack]
        /\ probeLen' \in [Threads -> Nat]
        /\ pc' \in [Threads -> PC]
    BY <1>1, <1>2, <1>3, <1>4 DEF TypeOK
  <2> QED
    BY <1>1, <2>1 DEF TypeOK, StoreTypeOK, tableVars, storeVars, Offsets, Slots, Free, PC
<1>6. /\ entry'[t] = entry[t] + 1
      /\ probeLen'[t] = probeLen[t] + 1
      /\ pc'[t] = Probing(entry[t] + 1)
      /\ offset'[t] = offset[t]
  BY <1>1, <1>2 DEF TypeOK
<1>7. InSet(t)'
  <2> DEFINE k == KeyOf(t)
  <2>1. KeyOf(t)' = k
    BY DEF KeyOf, storeVars
  <2>2. k \in Keys /\ Home(k) \in 0 .. EntryNum - 1
    BY <1>1, KeyOfRecord DEF TypeOK, InSet, KeyOf
  <2>3. /\ probeLen[t] > 0
        /\ entry[t] = Home(k) + probeLen[t] - 1
        /\ \A i \in Home(k) .. entry[t] - 1 : i \in Slots /\ Taken(i)
    BY <1>1 DEF InSet, ProbedAreTaken
  <2> HIDE DEF k
  <2>4. ProbedAreTaken(t)'
    <3>1. \A i \in Home(k) .. entry[t] : i \in Slots /\ slot[i] # Free
      BY <1>3, <2>2, <2>3 DEF Taken
    <3>2. probeLen[t] \in Nat
      BY <1>1 DEF TypeOK
    <3>3. /\ probeLen'[t] > 0
          /\ entry'[t] = Home(k) + probeLen'[t] - 1
          /\ \A i \in Home(k) .. entry'[t] - 1 : i \in Slots /\ slot[i] # Free
      BY <1>3, <1>6, <2>2, <2>3, <3>1, <3>2
    <3> QED
      BY <2>1, <3>3 DEF ProbedAreTaken, Taken, Slots, Free, Home, tableVars
  <2>5. offset'[t] \in Offsets' \ done'
    BY <1>1, <1>6 DEF InSet, Offsets, storeVars
  <2>6. pc'[t] # "overrun" <=> entry'[t] \in Slots
    BY <1>6 DEF Probing
  <2>7. pc'[t] \in {"test", "overrun"}
    BY <1>6 DEF Probing
  <2>8. \A i \in Slots : slot'[i].offset # offset'[t]
    BY <1>1, <1>6 DEF InSet, Searching, tableVars
  <2> QED
    BY <2>4, <2>5, <2>6, <2>7, <2>8 DEF InSet, Searching, Slots
<1>8. OthersStay(t) /\ SlotStep(t) /\ DoneStep(t) /\ UnsavedStep(t)
  BY <1>1, <1>2 DEF TypeOK, OthersStay, SlotStep, DoneStep, UnsavedStep, tableVars
<1>9. maxProbeLen <= maxProbeLen'
  BY <1>1, EntryNumAssumption DEF TypeOK, tableVars
<1> QED
  BY <1>5, <1>6, <1>7, <1>8, <1>9, IndexStepKeepsInv

LEMMA SetTestKeepsInv ==
  ASSUME IInv, NEW t \in Threads, SetTest(t)
  PROVE  IInv'
<1>1. TypeOK /\ InSet(t)
  BY DEF IInv, SetTest
<1>2. UNCHANGED <<tableVars, storeVars, offset, currMax, done>> /\ pc[t] = "test"
  BY DEF SetTest
<1>3. CASE slot[entry[t]] # Free
  BY <1>2, <1>3, ProbeNextKeepsInv DEF SetTest
<1>4. CASE slot[entry[t]] = Free
  <2>1. pc' = [pc EXCEPT ![t] = "cas"] /\ UNCHANGED <<entry, probeLen>>
    BY <1>4 DEF SetTest
  <2>2. TypeOK'
    <3>1. pc' \in [Threads -> PC]
      BY <1>1, <2>1 DEF TypeOK, PC
    <3> QED
      BY <1>1, <1>2, <2>1, <3>1
      DEF TypeOK, StoreTypeOK, tableVars, storeVars, Offsets, Slots, Free, PC
  <2>3. pc'[t] = "cas" /\ OthersStay(t) /\ SlotStep(t) /\ DoneStep(t) /\ UnsavedStep(t)
    BY <1>1, <1>2, <2>1 DEF TypeOK, OthersStay, SlotStep, DoneStep, UnsavedStep, tableVars
  <2>4. InSet(t)'
    BY <1>1, <1>2, <2>1, <2>3
    DEF InSet, ProbedAreTaken, Searching, Taken, KeyOf, tableVars, storeVars, Offsets, Slots,
        Free, Home
  <2>5. maxProbeLen <= maxProbeLen'
    BY <1>1, <1>2, EntryNumAssumption DEF TypeOK, tableVars
  <2> QED
    BY <1>2, <2>2, <2>3, <2>4, <2>5, IndexStepKeepsInv
<1> QED
  BY <1>3, <1>4

\* The slot is taken by the compare-and-swap or was taken before.
LEMMA SetCasKeepsInv ==
  ASSUME IInv, NEW t \in Threads, SetCas(t)
  PROVE  IInv'
<1>1. TypeOK /\ InSet(t)
  BY DEF IInv, SetCas
<1>2. UNCHANGED <<storeVars, maxProbeLen, offset, currMax, done>> /\ pc[t] = "cas"
  BY DEF SetCas
<1>3. CASE slot[entry[t]] # Free
  BY <1>2, <1>3, ProbeNextKeepsInv DEF SetCas, tableVars
<1>4. CASE slot[entry[t]] = Free
  <2> DEFINE e == entry[t]
             k == KeyOf(t)
             new == [signature |-> Hash[k], offset |-> offset[t]]
  <2>1. /\ Claim(t)
        /\ unsaved' = unsaved \cup {e}
        /\ pc' = [pc EXCEPT ![t] = "persist"]
        /\ UNCHANGED <<entry, probeLen>>
    BY <1>4 DEF SetCas
  <2>2. e \in Slots /\ k \in Keys /\ offset[t] \in Offsets /\ Hash[k] # 0
    BY <1>1, <1>2, KeyOfRecord DEF TypeOK, InSet, KeyOf
  <2>3. slot' = [slot EXCEPT ![e] = new]
    BY <2>1 DEF Claim
  <2>4. slot'[e] = new /\ new # Free /\ \A i \in Slots \ {e} : slot'[i] = slot[i]
    BY <1>1, <2>2, <2>3 DEF TypeOK, Free
  <2>5. TypeOK'
    <3>1. new \in [signature : {Hash[q] : q \in Keys}, offset : Offsets]
      BY <2>2
    <3>2. slot' \in [Slots -> {Free} \cup [signature : {Hash[q] : q \in Keys}, offset : Offsets]]
      BY <1>1, <2>3, <3>1 DEF TypeOK
    <3>3. pc' \in [Threads -> PC] /\ unsaved' \subseteq Slots
      BY <1>1, <2>1, <2>2 DEF TypeOK, PC
    <3> QED
      BY <1>1, <1>2, <2>1, <3>2, <3>3
      DEF TypeOK, StoreTypeOK, storeVars, Offsets, Slots, Free, PC
  <2>6. pc'[t] = "persist" /\ OthersStay(t) /\ SlotStep(t) /\ DoneStep(t)
    BY <1>1, <1>2, <1>4, <2>1 DEF TypeOK, OthersStay, SlotStep, DoneStep
  <2>7. UnsavedStep(t)
    <3>1. \A i \in unsaved : ~(pc[t] = "persist" /\ slot[i].offset = offset[t])
      BY <1>2
    <3>2. Taken(e)' /\ slot'[e].offset = offset'[t]
      BY <1>2, <2>1, <2>4 DEF Taken, Free
    <3>3. \A i \in unsaved' : i \in unsaved \/ i = e
      BY <2>1
    <3>4. ASSUME NEW i \in unsaved', i = e
          PROVE  Taken(i)' /\ slot'[i].offset = offset'[t]
      BY <2>4, <1>2, <3>4 DEF Taken, Free
    <3> HIDE DEF e, k, new
    <3> QED
      BY <2>6, <3>1, <3>3, <3>4 DEF UnsavedStep
  <2>8. InSet(t)'
    <3>1. KeyOf(t)' = k
      BY <1>2 DEF KeyOf, storeVars
    <3>2. \A i \in Home(k) .. e - 1 : i \in Slots /\ slot'[i] # Free
      BY <1>1, <2>4 DEF InSet, ProbedAreTaken, Taken
    <3>3. probeLen[t] > 0 /\ e = Home(k) + probeLen[t] - 1
      BY <1>1 DEF InSet, ProbedAreTaken
    <3>4. ProbedAreTaken(t)'
      BY <2>1, <3>1, <3>2, <3>3 DEF ProbedAreTaken, Taken, Slots, Free, Home
    <3>5. offset'[t] \in Offsets' \ done' /\ offset'[t] = offset[t] /\ entry'[t] = e
      BY <1>1, <1>2, <2>1 DEF InSet, Offsets, storeVars
    <3>6. slot'[entry'[t]] = [signature |-> Hash[k], offset |-> offset'[t]]
      BY <2>4, <3>5
    <3> HIDE DEF e, k, new
    <3> QED
      BY <2>2, <2>6, <3>1, <3>4, <3>5, <3>6 DEF InSet, Searching, Slots
  <2>9. maxProbeLen <= maxProbeLen'
    BY <1>1, <1>2, EntryNumAssumption DEF TypeOK
  <2> QED
    BY <1>2, <2>5, <2>6, <2>7, <2>8, <2>9, IndexStepKeepsInv
<1> QED
  BY <1>3, <1>4

\* The clwb of the entry also takes those of other threads in its line.
LEMMA SetPersistKeepsInv ==
  ASSUME IInv, NEW t \in Threads, SetPersist(t)
  PROVE  IInv'
<1>1. TypeOK /\ InSet(t)
  BY DEF IInv, SetPersist
<1>2. /\ pc[t] = "persist"
      /\ unsaved' = {i \in unsaved : LineOf(16 * i) # LinePersisted(16 * entry[t])}
      /\ pc' = [pc EXCEPT ![t] = "load"]
      /\ UNCHANGED <<storeVars, slot, maxProbeLen, setVars, done>>
  BY DEF SetPersist
<1>3. TypeOK'
  <2>1. pc' \in [Threads -> PC] /\ unsaved' \subseteq Slots
    BY <1>1, <1>2 DEF TypeOK, PC
  <2> QED
    BY <1>1, <1>2, <2>1
    DEF TypeOK, StoreTypeOK, setVars, storeVars, Offsets, Slots, Free, PC
<1>4. pc'[t] = "load" /\ OthersStay(t) /\ SlotStep(t) /\ DoneStep(t)
  BY <1>1, <1>2 DEF TypeOK, OthersStay, SlotStep, DoneStep, setVars
<1>5. UnsavedStep(t)
  <2> SUFFICES ASSUME NEW i \in unsaved', slot[i].offset = offset[t]
               PROVE  FALSE
    BY <1>2 DEF UnsavedStep
  <2>1. i \in unsaved /\ LineOf(16 * i) # LineOf(16 * entry[t])
    BY <1>2 DEF LinePersisted
  <2>2. i \in Slots /\ Taken(i)
    BY <1>1, <2>1 DEF TypeOK, IInv, UnsavedIsBeingSaved
  <2>3. entry[t] \in Slots /\ slot[entry[t]].offset = offset[t]
    BY <1>1, <1>2 DEF InSet, Searching
  <2>4. i = entry[t]
    BY <2>2, <2>3 DEF IInv, EntriesDiffer
  <2> QED
    BY <2>1, <2>4
<1>6. InSet(t)'
  BY <1>1, <1>2, <1>4
  DEF InSet, ProbedAreTaken, Searching, Taken, KeyOf, setVars, storeVars, Offsets, Slots, Free, Home
<1>7. maxProbeLen <= maxProbeLen' /\ offset'[t] = offset[t]
  BY <1>1, <1>2, EntryNumAssumption DEF TypeOK, setVars
<1> QED
  BY <1>2, <1>3, <1>4, <1>5, <1>6, <1>7, IndexStepKeepsInv

\* What the test of probe_len finds is still so when max_probe_len is written.
LEMMA SetLoadKeepsInv ==
  ASSUME IInv, NEW t \in Threads, SetLoad(t)
  PROVE  IInv'
<1>1. TypeOK /\ InSet(t)
  BY DEF IInv, SetLoad
<1>2. /\ pc[t] = "load"
      /\ currMax' = [currMax EXCEPT ![t] = maxProbeLen]
      /\ pc' = [pc EXCEPT ![t] = IF probeLen[t] > maxProbeLen THEN "raise" ELSE "return"]
      /\ UNCHANGED <<storeVars, tableVars, offset, entry, probeLen, done>>
  BY DEF SetLoad
<1>3. TypeOK'
  <2>1. /\ pc' \in [Threads -> PC]
        /\ currMax' \in [Threads -> 0 .. EntryNum + Slack]
    BY <1>1, <1>2 DEF TypeOK, PC
  <2> QED
    BY <1>1, <1>2, <2>1
    DEF TypeOK, StoreTypeOK, tableVars, storeVars, Offsets, Slots, Free, PC
<1>4. OthersStay(t) /\ SlotStep(t) /\ DoneStep(t) /\ UnsavedStep(t)
  BY <1>1, <1>2 DEF TypeOK, OthersStay, SlotStep, DoneStep, UnsavedStep, tableVars
<1>5. /\ pc'[t] = IF probeLen[t] > maxProbeLen THEN "raise" ELSE "return"
      /\ currMax'[t] = maxProbeLen /\ maxProbeLen' = maxProbeLen
      /\ offset'[t] = offset[t] /\ entry'[t] = entry[t] /\ probeLen'[t] = probeLen[t]
  BY <1>1, <1>2 DEF TypeOK, tableVars
<1>6. InSet(t)'
  <2>1. /\ pc'[t] = "raise" => probeLen'[t] > currMax'[t]
        /\ pc'[t] = "return" => probeLen'[t] <= maxProbeLen'
        /\ ~Searching(t) /\ ~Searching(t)' /\ pc[t] # "overrun" /\ pc'[t] # "overrun"
    <3>1. probeLen[t] \in Nat /\ maxProbeLen \in Nat
      BY <1>1, EntryNumAssumption DEF TypeOK
    <3> QED
      BY <1>2, <1>5, <3>1 DEF Searching
  <2> QED
    BY <1>1, <1>2, <1>5, <2>1
    DEF InSet, ProbedAreTaken, Taken, KeyOf, tableVars, storeVars, Offsets, Slots, Free, Home
<1>7. maxProbeLen <= maxProbeLen'
  BY <1>1, <1>5, EntryNumAssumption DEF TypeOK
<1> QED
  BY <1>2, <1>3, <1>4, <1>5, <1>6, <1>7, IndexStepKeepsInv

\* max_probe_len is raised, or the value that another thread gave it is tested.
LEMMA SetRaiseKeepsInv ==
  ASSUME IInv, NEW t \in Threads, SetRaise(t)
  PROVE  IInv'
<1>1. TypeOK /\ InSet(t)
  BY DEF IInv, SetRaise
<1>2. pc[t] = "raise" /\ UNCHANGED <<storeVars, slot, unsaved, offset, entry, probeLen, done>>
  BY DEF SetRaise
<1>3. /\ probeLen[t] \in Nat /\ maxProbeLen \in Nat /\ currMax[t] \in Nat
      /\ probeLen[t] > currMax[t]
  BY <1>1, <1>2, EntryNumAssumption DEF TypeOK, InSet
<1>4. probeLen[t] \in 0 .. EntryNum + Slack
  <2>1. Home(KeyOf(t)) \in 0 .. EntryNum - 1
    BY <1>1, KeyOfRecord DEF TypeOK, InSet, KeyOf
  <2>2. entry[t] = Home(KeyOf(t)) + probeLen[t] - 1 /\ entry[t] \in Slots
    BY <1>1, <1>2 DEF InSet, ProbedAreTaken
  <2> QED
    BY <1>3, <2>1, <2>2, EntryNumAssumption DEF Slots
<1>5. ASSUME pc'[t] \in {"raise", "return"}, \A u \in Threads \ {t} : pc'[u] = pc[u],
             pc' \in [Threads -> PC],
             currMax' \in [Threads -> 0 .. EntryNum + Slack],
             \A u \in Threads \ {t} : currMax'[u] = currMax[u],
             maxProbeLen' \in 0 .. EntryNum + Slack,
             maxProbeLen <= maxProbeLen',
             pc'[t] = "raise" => probeLen[t] > currMax'[t],
             pc'[t] = "return" => probeLen[t] <= maxProbeLen'
      PROVE  IInv'
  <2>1. TypeOK'
    BY <1>1, <1>2, <1>5 DEF TypeOK, StoreTypeOK, storeVars, Offsets, Slots, Free, PC
  <2>2. OthersStay(t) /\ SlotStep(t) /\ DoneStep(t) /\ UnsavedStep(t)
    BY <1>2, <1>5 DEF OthersStay, SlotStep, DoneStep, UnsavedStep
  <2>3. InSet(t)'
    <3>1. ~Searching(t) /\ ~Searching(t)' /\ pc[t] # "overrun" /\ pc'[t] # "overrun"
      BY <1>2, <1>5 DEF Searching
    <3> QED
      BY <1>1, <1>2, <1>5, <3>1
      DEF InSet, ProbedAreTaken, Taken, KeyOf, storeVars, Offsets, Slots, Free, Home
  <2> QED
    BY <1>2, <1>5, <2>1, <2>2, <2>3, IndexStepKeepsInv
<1>6. CASE maxProbeLen = currMax[t]
  <2>1. /\ maxProbeLen' = probeLen[t]
        /\ pc' = [pc EXCEPT ![t] = "return"]
        /\ UNCHANGED currMax
    BY <1>6 DEF SetRaise
  <2>2. pc' \in [Threads -> PC] /\ pc'[t] = "return" /\ \A u \in Threads \ {t} : pc'[u] = pc[u]
    BY <1>1, <2>1 DEF TypeOK, PC
  <2>3. currMax' \in [Threads -> 0 .. EntryNum + Slack] /\ maxProbeLen' \in 0 .. EntryNum + Slack
    BY <1>1, <1>4, <2>1 DEF TypeOK
  <2>4. maxProbeLen <= probeLen[t] /\ probeLen[t] <= probeLen[t]
    BY <1>3, <1>6
  <2> QED
    BY <1>5, <2>1, <2>2, <2>3, <2>4
<1>7. CASE maxProbeLen # currMax[t]
  <2>1. /\ currMax' = [currMax EXCEPT ![t] = maxProbeLen]
        /\ pc' = [pc EXCEPT ![t] = IF probeLen[t] > maxProbeLen THEN "raise" ELSE "return"]
        /\ UNCHANGED maxProbeLen
    BY <1>7 DEF SetRaise
  <2>2. /\ pc' \in [Threads -> PC]
        /\ pc'[t] = IF probeLen[t] > maxProbeLen THEN "raise" ELSE "return"
        /\ \A u \in Threads \ {t} : pc'[u] = pc[u]
    BY <1>1, <2>1 DEF TypeOK, PC
  <2>3. /\ currMax' \in [Threads -> 0 .. EntryNum + Slack]
        /\ currMax'[t] = maxProbeLen
        /\ \A u \in Threads \ {t} : currMax'[u] = currMax[u]
        /\ maxProbeLen' \in 0 .. EntryNum + Slack
    BY <1>1, <2>1 DEF TypeOK
  <2>4. maxProbeLen <= maxProbeLen /\ (probeLen[t] > maxProbeLen \/ probeLen[t] <= maxProbeLen)
    BY <1>3
  <2> QED
    BY <1>5, <2>1, <2>2, <2>3, <2>4
<1> QED
  BY <1>6, <1>7

\* The entry is where a reader comes to, as it lies within max_probe_len.
LEMMA SetReturnKeepsInv ==
  ASSUME IInv, NEW t \in Threads, SetReturn(t)
  PROVE  IInv'
<1> DEFINE o == offset[t]
           k == records[o].key
<1>1. TypeOK /\ InSet(t)
  BY DEF IInv, SetReturn
<1>2. /\ pc[t] = "return"
      /\ pc' = [pc EXCEPT ![t] = "idle"]
      /\ done' = done \cup {o}
      /\ offset' = [offset EXCEPT ![t] = 0]
      /\ entry' = [entry EXCEPT ![t] = 0]
      /\ probeLen' = [probeLen EXCEPT ![t] = 0]
      /\ currMax' = [currMax EXCEPT ![t] = 0]
      /\ UNCHANGED <<storeVars, tableVars>>
  BY DEF SetReturn
<1>3. o \in Offsets
  BY <1>1 DEF InSet
<1>4. TypeOK'
  <2>1. 0 \in 0 .. EntryNum + Slack
    BY EntryNumAssumption
  <2>2. /\ pc' \in [Threads -> PC]
        /\ offset' \in [Threads -> Offsets \cup {0}]
        /\ entry' \in [Threads -> 0 .. EntryNum + Slack]
        /\ probeLen' \in [Threads -> Nat]
        /\ currMax' \in [Threads -> 0 .. EntryNum + Slack]
        /\ done' \subseteq Offsets
    BY <1>1, <1>2, <1>3, <2>1 DEF TypeOK, PC
  <2> QED
    BY <1>1, <1>2, <2>2
    DEF TypeOK, StoreTypeOK, tableVars, storeVars, Offsets, Slots, Free, PC
<1>5. pc'[t] = "idle" /\ OthersStay(t) /\ SlotStep(t) /\ UnsavedStep(t)
  BY <1>1, <1>2 DEF TypeOK, OthersStay, SlotStep, UnsavedStep, tableVars
<1>6. Reachable(o)
  <2> DEFINE i == probeLen[t] - 1
  <2>1. /\ probeLen[t] > 0 /\ probeLen[t] <= maxProbeLen
        /\ entry[t] = Home(k) + probeLen[t] - 1
        /\ entry[t] \in Slots
        /\ slot[entry[t]] = [signature |-> Hash[k], offset |-> o]
        /\ \A j \in Home(k) .. entry[t] - 1 : slot[j] # Free
    BY <1>1, <1>2 DEF InSet, ProbedAreTaken, Searching, KeyOf, Taken
  <2>2. probeLen[t] \in Nat /\ maxProbeLen \in Nat /\ Home(k) \in 0 .. EntryNum - 1
    BY <1>1, <1>3, KeyOfRecord, EntryNumAssumption DEF TypeOK
  <2> HIDE DEF o, k
  <2>3. i \in 0 .. maxProbeLen - 1 /\ Home(k) + i = entry[t]
    BY <2>1, <2>2
  <2>4. \A j \in 0 .. i - 1 : slot[Home(k) + j] # Free
    BY <2>1, <2>2
  <2> HIDE DEF i
  <2> QED
    BY <2>1, <2>3, <2>4 DEF Reachable, k
<1>7. DoneStep(t)
  <2>1. ASSUME NEW n \in Offsets, n = o
        PROVE  Reachable(n)'
    BY <1>2, <1>6, <2>1
    DEF Reachable, tableVars, storeVars, Slots, Free, Home
  <2> QED
    BY <1>2, <1>3, <2>1 DEF DoneStep
<1>8. maxProbeLen <= maxProbeLen'
  BY <1>1, <1>2, EntryNumAssumption DEF TypeOK, tableVars
<1> HIDE DEF o, k
<1> QED
  BY <1>2, <1>4, <1>5, <1>7, <1>8, IndexStepKeepsInv

(***************************************************************************)
(* The theorems.                                                           *)
(***************************************************************************)
LEMMA NextKeepsInv == IInv /\ [Next]_vars => IInv'
<1> SUFFICES ASSUME IInv, [Next]_vars
             PROVE  IInv'
  OBVIOUS
<1>1. ASSUME NEW t \in Threads, NEW k \in Keys, SetStore(t, k)
      PROVE  IInv'
  BY <1>1, SetStoreKeepsInv
<1>2. ASSUME NEW t \in Threads, NEW k \in Keys, NEW s \in Stores, OtherStoreSet(t, s, k)
      PROVE  IInv'
  BY <1>2, OtherStoreSetKeepsInv
<1>3. ASSUME NEW t \in Threads, SetStep(t)
      PROVE  IInv'
  <2>1. CASE SetTest(t)
    BY <2>1, SetTestKeepsInv
  <2>2. CASE SetCas(t)
    BY <2>2, SetCasKeepsInv
  <2>3. CASE SetPersist(t)
    BY <2>3, SetPersistKeepsInv
  <2>4. CASE SetLoad(t)
    BY <2>4, SetLoadKeepsInv
  <2>5. CASE SetRaise(t)
    BY <2>5, SetRaiseKeepsInv
  <2>6. CASE SetReturn(t)
    BY <2>6, SetReturnKeepsInv
  <2> QED
    BY <1>3, <2>1, <2>2, <2>3, <2>4, <2>5, <2>6 DEF SetStep
<1>4. CASE UNCHANGED vars
  <2>1. UNCHANGED <<storeVars, tableVars, pc, setVars, done>>
    BY <1>4 DEF vars
  <2>2. StoreInv' = StoreInv
    BY <2>1 DEF storeVars, StoreInv, StoreTypeOK, NoFileIsMappedTwice, TablesAreApart,
      RecordsLieInMappings, RecordsOfAMappingAreApart, TablesAreFilledInOrder, TableOf,
      MappingOf, Place, Short
  <2>3. TypeOK' = TypeOK
    BY <2>1 DEF TypeOK, StoreTypeOK, storeVars, tableVars, setVars, Offsets, Slots, Free, PC
  <2>4. \A u \in Threads : InSet(u)' = InSet(u)
    BY <2>1 DEF InSet, ProbedAreTaken, Searching, Taken, KeyOf, storeVars, tableVars, setVars,
      Offsets, Slots, Free, Home
  <2>5. EntriesDiffer' = EntriesDiffer /\ UnsavedIsBeingSaved' = UnsavedIsBeingSaved
    BY <2>1 DEF EntriesDiffer, UnsavedIsBeingSaved, Taken, tableVars, setVars, Slots, Free
  <2>6. EverySetIsReachable' = EverySetIsReachable
    BY <2>1 DEF EverySetIsReachable, Reachable, storeVars, tableVars, Slots, Free, Home
  <2>7. \A t, u \in Threads :
          t # u /\ pc'[t] # "idle" /\ pc'[u] # "idle" => offset'[t] # offset'[u]
    BY <2>1 DEF setVars, IInv
  <2>8. \A t \in Threads : pc'[t] # "idle" => InSet(t)'
    BY <2>1, <2>4 DEF IInv
  <2> QED
    BY <2>2, <2>3, <2>5, <2>6, <2>7, <2>8 DEF IInv
<1> QED
  BY <1>1, <1>2, <1>3, <1>4 DEF Next

\* Every Set works on a record of its own and on an entry that it reached
\* through taken slots, and raises max_probe_len before it returns.
THEOREM Invariant == Spec => []IInv
<1>1. Init => IInv
  BY InitInv
<1>2. IInv /\ [Next]_vars => IInv'
  BY NextKeepsInv
<1> QED
  BY <1>1, <1>2, PTL DEF Spec

\* Whatever Sets run beside it or after it, a reader comes to the entry of a Set
\* that has returned (pmem_unordered_index_impl.cpp:88-99, 131-159).
THEOREM Reachability == Spec => []EverySetIsReachable
<1>1. IInv => EverySetIsReachable
  BY DEF IInv
<1> QED
  BY <1>1, Invariant, PTL

\* No record is written over by another, whoever wrote it through whichever
\* StoreImpl (pmem_store_impl.cpp:32-39, 54-70).
THEOREM RecordsStay == Spec => []RecordsAreKept
<1>1. IInv => RecordsAreKept
  BY StoreKeepsRecords DEF IInv
<1> QED
  BY <1>1, Invariant, PTL

\* What a reader may see is written back from the cache, and a Set's entry is
\* when it returns (pmem_unordered_index_impl.cpp:121, 141-147).
THEOREM Durability == Spec => []SetsAreDurable
<1>1. IInv => SetsAreDurable
  <2> SUFFICES ASSUME IInv, NEW i \in Slots, slot[i] # Free, slot[i].offset \in done,
                      i \in unsaved
               PROVE  FALSE
    BY DEF SetsAreDurable, IInv, StoreInv
  <2>1. PICK t \in Threads : pc[t] = "persist" /\ slot[i].offset = offset[t]
    BY DEF IInv, UnsavedIsBeingSaved
  <2>2. offset[t] \notin done
    BY <2>1 DEF IInv, InSet
  <2> QED
    BY <2>1, <2>2
<1> QED
  BY <1>1, Invariant, PTL

\* A slot is given away once (pmem_unordered_index_impl.cpp:133-147).
THEOREM SlotsStay == Spec => SlotsAreKept
<1>1. ASSUME IInv, Next
      PROVE  \A i \in Slots : slot[i] # Free => slot'[i] = slot[i]
  <2>1. \E t \in Threads : SlotStep(t)
    <3>1. ASSUME NEW t \in Threads, NEW k \in Keys, SetStore(t, k)
          PROVE  SlotStep(t)
      BY <3>1 DEF SetStore, SlotStep, tableVars
    <3>2. ASSUME NEW t \in Threads, NEW k \in Keys, NEW s \in Stores, OtherStoreSet(t, s, k)
          PROVE  SlotStep(t)
      BY <3>2 DEF OtherStoreSet, SlotStep, tableVars
    <3>3. ASSUME NEW t \in Threads, SetStep(t)
          PROVE  SlotStep(t)
      BY <3>3 DEF SetStep, SetTest, SetCas, SetPersist, SetLoad, SetRaise, SetReturn,
                  SlotStep, tableVars
    <3> QED
      BY <1>1, <3>1, <3>2, <3>3 DEF Next
  <2> QED
    BY <1>1, <2>1, TakenSlotsStay DEF IInv, Taken
<1>2. IInv /\ [Next]_vars => [\A i \in Slots : slot[i] # Free => slot'[i] = slot[i]]_vars
  BY <1>1
<1> QED
  BY <1>2, Invariant, PTL DEF Spec, SlotsAreKept

\* A search that runs out of the table has passed a slot for every slot of the
\* slack and one more, each taken by a record of its own, and has stored another
\* record itself: there have been more Sets than the slack allows for
\* (pmem_unordered_index_impl.cpp:132-151).
THEOREM NoOverrun == Spec => []NeverOverruns
<1>1. IInv => NeverOverruns
  <2> SUFFICES ASSUME IInv, MaxSets <= Slack + 1,
                      NEW t \in Threads, pc[t] = "overrun"
               PROVE  FALSE
    BY DEF NeverOverruns
  <2> DEFINE h == Home(KeyOf(t))
             S == h .. entry[t] - 1
             T == Offsets \ {offset[t]}
             f == [i \in S |-> slot[i].offset]
  <2>1. TypeOK /\ InSet(t) /\ EntriesDiffer /\ EntryNum \in Nat \ {0} /\ Slack \in Nat
        /\ MaxSets \in Nat
    BY EntryNumAssumption, MaxSetsAssumption DEF IInv
  <2>2. h \in 0 .. EntryNum - 1
    BY <2>1, KeyOfRecord DEF TypeOK, InSet, KeyOf
  <2>3. entry[t] = EntryNum + Slack
    <3>1. entry[t] \in 0 .. EntryNum + Slack
      BY <2>1 DEF TypeOK
    <3>2. entry[t] \notin 0 .. EntryNum + Slack - 1
      BY <2>1 DEF InSet, Slots
    <3> QED
      BY <2>1, <3>1, <3>2
  <2>4. \A i \in S : i \in Slots /\ slot[i] # Free /\ slot[i].offset # offset[t]
    BY <2>1 DEF InSet, ProbedAreTaken, Searching, Taken
  <2>5. f \in Injection(S, T)
    <3>1. \A i \in S : slot[i].offset \in T
      BY <2>1, <2>4 DEF TypeOK
    <3>2. \A i, j \in S : slot[i].offset = slot[j].offset => i = j
      BY <2>1, <2>4 DEF EntriesDiffer, Taken
    <3> HIDE DEF S, T
    <3> QED
      BY <3>1, <3>2 DEF Injection, IsInjective
  <2>6. IsFiniteSet(Offsets) /\ Cardinality(Offsets) <= MaxSets /\ offset[t] \in Offsets
    BY <2>1 DEF IInv, StoreInv, Offsets, InSet
  <2>7. IsFiniteSet(T) /\ Cardinality(T) = Cardinality(Offsets) - 1
    BY <2>6, FS_RemoveElement
  <2>8. Cardinality(S) <= Cardinality(T)
    <3> HIDE DEF f, S, T
    <3> QED
      BY <2>5, <2>7, FS_Injection
  <2>9. Cardinality(S) = entry[t] - h
    <3>1. h \in Int /\ entry[t] - 1 \in Int /\ ~(h > entry[t] - 1)
      BY <2>1, <2>2, <2>3
    <3>2. Cardinality(S) = (entry[t] - 1) - h + 1
      BY <3>1, FS_Interval
    <3> QED
      BY <2>2, <2>3, <2>1, <3>2
  <2>10. Cardinality(Offsets) \in Nat
    BY <2>6, FS_CardinalityType
  <2> HIDE DEF h, S, T
  <2> QED
    BY <2>1, <2>2, <2>3, <2>6, <2>7, <2>8, <2>9, <2>10
<1> QED
  BY <1>1, Invariant, PTL
=============================================================================
