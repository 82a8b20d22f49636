----------------------------- MODULE StringKeys -----------------------------
(***************************************************************************)
(* Puts with use_strcmp = 1 into one leaf of the tree of                   *)
(* src/pmem_impl/bplustree.c, as pmem::OrderedIndexImpl::Set makes them: a *)
(* key is a length and that many bytes, compared by my_strcmp.             *)
(*                                                                         *)
(* A string is the sequence of its bytes.  my_strcmp takes the length of   *)
(* both strings from its first argument, so it may read behind the end of  *)
(* the second one: a comparison finds any one byte there.  The empty       *)
(* string, whose comparison runs on until two bytes differ, is left out.   *)
(* Each turn of the binary search is a step.                               *)
(***************************************************************************)
EXTENDS Integers, SequencesExt, FiniteSets, FiniteSetsExt

CONSTANTS
  Strings,      \* the keys: non-empty sequences of bytes
  Bytes         \* what may lie behind the end of a string

ASSUME StringsAssumption == Strings \subseteq Seq(Int) /\ <<>> \notin Strings
ASSUME BytesAssumption == Bytes \subseteq Int

VARIABLES
  key,          \* the keys of the leaf
  target,       \* the key that is being put; <<>> between two puts
  low, high,    \* of key_binary_search
  put           \* history: the keys that were put

vars == <<key, target, low, high, put>>

\* Byte n of s; "behind" is what follows s in memory.
ByteAt(s, n, behind) == IF n <= Len(s) THEN s[n] ELSE behind

FirstByteOnly(a, b, behind) ==
  CASE a[1] > b[1] -> 1 [] a[1] < b[1] -> -1 [] OTHER -> 0

\* my_strcmp: b_len is read from a, so max_len is the length of a and the tie
\* at its end is always 0.
MyStrcmp(a, b, behind) ==
  LET differ == {n \in 1 .. Len(a) : a[n] # ByteAt(b, n, behind)} IN
  IF differ = {} THEN 0
  ELSE IF a[Min(differ)] > ByteAt(b, Min(differ), behind) THEN 1 ELSE -1

Init ==
  /\ key = <<>>
  /\ target = <<>>
  /\ low = -1
  /\ high = 0
  /\ put = {}

\* leaf_insert, into a leaf that has room, begins key_binary_search.
Put(a) ==
  /\ target = <<>>
  /\ target' = a
  /\ low' = -1
  /\ high' = Len(key)
  /\ UNCHANGED <<key, put>>

Mid == low + (high - low) \div 2

SearchTurn ==
  /\ target # <<>>
  /\ low + 1 < high
  /\ \E behind \in Bytes :
       IF MyStrcmp(target, key[Mid + 1], behind) > 0
       THEN low' = Mid /\ UNCHANGED high
       ELSE high' = Mid /\ UNCHANGED low
  /\ UNCHANGED <<key, target, put>>

\* What key_binary_search answers when it has ended.
Found(behind) ==
  high < Len(key) /\ MyStrcmp(key[high + 1], target, behind) = 0

\* leaf_insert goes on: nothing is inserted if the key "already exists".
Insert ==
  /\ target # <<>>
  /\ ~ (low + 1 < high)
  /\ \E behind \in Bytes :
       key' = IF Found(behind) THEN key ELSE InsertAt(key, high + 1, target)
  /\ put' = put \cup {target}
  /\ target' = <<>>
  /\ UNCHANGED <<low, high>>

Next == (\E a \in Strings : Put(a)) \/ SearchTurn \/ Insert

Spec == Init /\ [][Next]_vars

-----------------------------------------------------------------------------
\* The order of std::map<std::string, ...>.
Below(a, b) ==
  \/ IsStrictPrefix(a, b)
  \/ \E n \in DOMAIN a \cap DOMAIN b :
       a[n] < b[n] /\ \A i \in 1 .. n - 1 : a[i] = b[i]

\* The leaf holds every key that was put, once, in the order of the strings
\* (bplustree.c:87-154).  It does so for keys of one length.
SortedByString ==
  /\ ToSet(key) = put
  /\ \A i \in 1 .. Len(key) - 1 : Below(key[i], key[i + 1])

\* Every key that was put is found again, as the assertion of
\* test/bplustree_test.cpp:53-57 expects of keys made by std::to_string, which
\* differ in length.
EveryKeyIsStored == put \subseteq ToSet(key)
=============================================================================
