----------------------------- MODULE PmemStore -----------------------------
(***************************************************************************)
(* The store of src/pmem_impl/pmem_store_impl.{h,cpp}: a record is written *)
(* to the calling thread's table, a file of kTableSize bytes that is       *)
(* mapped into memory, and its offset is its address there.  Nothing is    *)
(* ever freed: Del does nothing.                                           *)
(*                                                                         *)
(* The table of a thread is a static thread_local, so all StoreImpl        *)
(* objects of the process share it: a record goes to a file of whichever   *)
(* object's Set ran out of table last.                                     *)
(*                                                                         *)
(* Atomicity.  Set is one step: it works on memory that no other thread    *)
(* has the address of until it returns, except that table_id_ is one       *)
(* atomic increment.  Header, key and value are written and then written   *)
(* back from the cache; what is not is in "dirty".                         *)
(*                                                                         *)
(* The m-th mapping made is at m * TableSize: mappings do not overlap and  *)
(* begin at a page.  A mapping that fails is a null pointer, and the copy  *)
(* that follows ends the process: such a step is left out.                 *)
(***************************************************************************)
EXTENDS PmemOp, Sequences, Functions, FiniteSets

CONSTANTS
  Threads,
  Stores,       \* the StoreImpl objects of the process
  Path,         \* path_ of each
  TableSize,    \* kTableSize
  Keys,
  RequestLen,   \* sizeof(Header) + k.size() + v.size() of each key
  MaxSets       \* bound: calls of Set

\* Two objects with one path would map the same files; the program opens one.
ASSUME PathAssumption == DOMAIN Path = Stores /\ IsInjective(Path)
ASSUME TableSizeAssumption == TableSize \in Nat \ {0} /\ TableSize % Line = 0
ASSUME RequestLenAssumption == \A k \in Keys : RequestLen[k] \in Nat \ {0}
ASSUME MaxSetsAssumption == MaxSets \in Nat

VARIABLES
  tableId,      \* table_id_ of each StoreImpl
  files,        \* the file behind each mapping, in the order they were made
  table,        \* tls_table of each thread: data and offset
  records,      \* the record at each address that Set has handed out
  dirty         \* the lines of records that are not written back

storeVars == <<tableId, files, table, records, dirty>>

StoreInit ==
  /\ tableId = [s \in Stores |-> 0]
  /\ files = <<>>
  /\ table = [t \in Threads |-> [data |-> 0, offset |-> TableSize]]
  /\ records = [a \in {} |-> 0]
  /\ dirty = {}

\* table_id_ read and not incremented.
MapTableAgain(s) ==
  /\ files' = Append(files, [path |-> Path[s], id |-> tableId[s]])
  /\ tableId' = tableId

MapTable(s) ==
  /\ files' = Append(files, [path |-> Path[s], id |-> tableId[s]])
  /\ tableId' = [tableId EXCEPT ![s] = @ + 1]

\* The test without the length of the record.
HasSpaceForFirstByte(t, len) == table[t].offset < TableSize
HasSpace(t, len) == table[t].offset + len <= TableSize

\* The table a record of that length goes to, before and after it.
TableFor(t, len) ==
  IF HasSpace(t, len) THEN table[t]
  ELSE [data |-> (Len(files) + 1) * TableSize, offset |-> 0]

Address(t, len) == TableFor(t, len).data + TableFor(t, len).offset

Written(a, k) ==
  [b \in DOMAIN records \cup {a} |->
     IF b = a THEN [key |-> k, len |-> RequestLen[k]] ELSE records[b]]

\* StoreImpl::Set by thread t on object s; the address is Address(t, len).
StoreSet(t, s, k) ==
  LET len == RequestLen[k]
      a == Address(t, len)
  IN /\ Cardinality(DOMAIN records) < MaxSets
     /\ IF HasSpace(t, len) THEN UNCHANGED <<files, tableId>> ELSE MapTable(s)
     /\ table' = [table EXCEPT ![t] = [TableFor(t, len) EXCEPT !.offset = @ + len]]
     /\ records' = Written(a, k)
     /\ dirty' = (dirty \cup {LineOf(a + i) : i \in 0 .. len - 1}) \ LinesPersisted(a, len)

-----------------------------------------------------------------------------
StoreTypeOK ==
  /\ tableId \in [Stores -> Nat]
  /\ files \in Seq([path : {Path[s] : s \in Stores}, id : Nat])
  /\ \A m \in DOMAIN files : \E s \in Stores :
       files[m].path = Path[s] /\ files[m].id \in 0 .. tableId[s] - 1
  /\ table \in [Threads -> [data : {m * TableSize : m \in 0 .. Len(files)}, offset : Nat]]
  /\ \A a \in DOMAIN records : records[a] \in [key : Keys, len : Nat]
  /\ dirty \subseteq Nat

\* The mapping that address a lies in, and its place in the file behind it.
MappingOf(a) == a \div TableSize
FileOf(a) == files[MappingOf(a)]
Place(a) == a % TableSize
Short(a) == records[a].len <= TableSize
Apart(a, b) ==
  \/ FileOf(a) # FileOf(b)
  \/ Place(a) + records[a].len <= Place(b)
  \/ Place(b) + records[b].len <= Place(a)

\* A record that fits into a table lies within the table it begins in, and no
\* byte of its file belongs to another such record: not to one of another
\* thread, nor to one of another StoreImpl, though StoreImpl objects with paths
\* of their own share their threads' tables.  Only a record that is longer than
\* a table is written past its end (pmem_store_impl.cpp:32-39, 54-70).
RecordsAreKept ==
  \A a \in DOMAIN records : Short(a) =>
    /\ Place(a) + records[a].len <= TableSize
    /\ \A b \in DOMAIN records \ {a} : Short(b) => Apart(a, b)

\* The mapping that is the table of thread t; 0 before its first Set.
TableOf(t) == MappingOf(table[t].data)

NoFileIsMappedTwice == IsInjective(files)

\* A thread has a table of its own, or none yet: then the test for space fails.
TablesAreApart ==
  \A t \in Threads :
    /\ TableOf(t) = 0 => table[t].offset = TableSize
    /\ \A u \in Threads \ {t} : TableOf(u) = TableOf(t) => TableOf(t) = 0

RecordsLieInMappings ==
  \A a \in DOMAIN records :
    /\ a \in Nat
    /\ MappingOf(a) \in DOMAIN files
    /\ records[a].len > 0
    /\ Short(a) => Place(a) + records[a].len <= TableSize

RecordsOfAMappingAreApart ==
  \A a, b \in DOMAIN records :
    a # b /\ MappingOf(a) = MappingOf(b) =>
      \/ Place(a) + records[a].len <= Place(b)
      \/ Place(b) + records[b].len <= Place(a)

\* Behind the offset of a table there is no record.
TablesAreFilledInOrder ==
  \A t \in Threads, a \in DOMAIN records :
    MappingOf(a) = TableOf(t) => Place(a) + records[a].len <= table[t].offset

\* Why RecordsAreKept holds: what Set relies on and leaves behind.
StoreInv ==
  /\ StoreTypeOK
  /\ IsFiniteSet(DOMAIN records) /\ Cardinality(DOMAIN records) <= MaxSets
  /\ dirty = {}
  /\ NoFileIsMappedTwice
  /\ TablesAreApart
  /\ RecordsLieInMappings
  /\ RecordsOfAMappingAreApart
  /\ TablesAreFilledInOrder
=============================================================================
