----------------------------- MODULE BPlusTree -----------------------------
(***************************************************************************)
(* The B+ tree of src/pmem_impl/bplustree.{h,c}, the sorted map behind     *)
(* pmem::OrderedIndexImpl: bplus_tree_put (insert, or delete when the data *)
(* is 0) and bplus_tree_get, with splits, borrowing, merges, parent links  *)
(* and one linked list of nodes per level.                                 *)
(*                                                                         *)
(* The tree is used by one thread at a time: a put is a step, or several   *)
(* when it has to work its way up.  The recursion parent_node_build <->    *)
(* non_leaf_insert and the recursion of non_leaf_remove are loops over     *)
(* levels, one step a level; "work" is the call that is still to be made.  *)
(*                                                                         *)
(* Data.  The arrays key[], data[] and sub_ptr[] of a node are sequences,  *)
(* so entries and children are their lengths; a position of the C arrays   *)
(* is kept as the number the code computes, and 1 is added where a         *)
(* sequence is read.  A level's circular list is the sequence of its nodes.*)
(* A node is a name; a freed node is no longer in the domain of heap.      *)
(***************************************************************************)
EXTENDS Integers, SequencesExt, FiniteSets

CONSTANTS
  Order,        \* tree->order: children of a full non-leaf
  Entries,      \* tree->entries: entries of a full leaf
  MaxLevel,     \* BPLUS_MAX_LEVEL
  Keys,         \* my_key_t values, compared as numbers (use_strcmp = 0)
  DataFor       \* DataFor[k]: the non-zero data a caller puts under key k

ASSUME OrderAssumption == Order \in Nat /\ Order >= 3
ASSUME EntriesAssumption == Entries \in Nat /\ Entries >= 2
ASSUME MaxLevelAssumption == MaxLevel \in Nat \ {0}
\* my_key_t is a machine integer: there is a least and a greatest one.
ASSUME TreeKeysAssumption ==
  /\ Keys \subseteq Int
  /\ Keys # {} => \E least, greatest \in Keys : Keys \subseteq least .. greatest
ASSUME DataForAssumption == \A k \in Keys : DataFor[k] \subseteq Int \ {0}

VARIABLES
  heap,         \* the allocated nodes
  root,         \* tree->root
  level,        \* tree->level
  list,         \* tree->list
  work,         \* the call on the next level up that is still to be made
  contents      \* history: for each key, the data of the put that created
                \* its entry (first) and of the latest put (last)

treeVars == <<heap, root, level, list>>
vars == <<treeVars, work, contents>>

Null == 0
Idle == [op |-> "idle"]
Without(f, x) == Restrict(f, DOMAIN f \ {x})
With(f, x, v) == [y \in DOMAIN f \cup {x} |-> IF y = x THEN v ELSE f[y]]

\* calloc: the names of nodes do not matter, so the smallest free one is taken.
NewNode == CHOOSE n \in 1 .. Cardinality(DOMAIN heap) + 1 : n \notin DOMAIN heap

LeafNode(key, data) ==
  [leaf |-> TRUE, key |-> key, sub |-> data, parent |-> Null, idx |-> -1]
NonLeafNode(key, sub) ==
  [leaf |-> FALSE, key |-> key, sub |-> sub, parent |-> Null, idx |-> -1]

Init ==
  /\ heap = [n \in {} |-> Idle]
  /\ root = Null
  /\ level = 0
  /\ list = [l \in 0 .. MaxLevel - 1 |-> <<>>]
  /\ work = Idle
  /\ contents = [k \in {} |-> Idle]

-----------------------------------------------------------------------------
(***************************************************************************)
(* Searching.                                                              *)
(***************************************************************************)

\* A search that passes over the keys equal to target.
KeyBinarySearchPast(arr, target) ==
  - Cardinality({i \in DOMAIN arr : arr[i] <= target}) - 1

\* The place of target in arr, or -p - 1 where p is the place it would take.
KeyBinarySearch(arr, target) ==
  LET search[w \in (-1 .. Len(arr)) \X (0 .. Len(arr))] ==
        LET low == w[1]
            high == w[2]
            mid == low + (high - low) \div 2
        IN IF low + 1 < high
           THEN IF target > arr[mid + 1] THEN search[<<mid, high>>] ELSE search[<<low, mid>>]
           ELSE high
      high == search[<<-1, Len(arr)>>]
  IN IF high >= Len(arr) \/ arr[high + 1] # target THEN - high - 1 ELSE high

\* The descent of search, insert and delete: equal keys are on the right.
ChildFor(n, k) ==
  LET i == KeyBinarySearch(heap[n].key, k) IN
  heap[n].sub[IF i >= 0 THEN i + 2 ELSE - i]

LeafFor(k) ==
  LET down[n \in DOMAIN heap] == IF heap[n].leaf THEN n ELSE down[ChildFor(n, k)]
  IN down[root]

\* bplus_tree_search as bplus_tree_get answers it.
Get(k) ==
  IF root = Null THEN -1
  ELSE LET leaf == heap[LeafFor(k)]
           i == KeyBinarySearch(leaf.key, k)
       IN IF i >= 0 THEN leaf.sub[i + 1] ELSE -1

-----------------------------------------------------------------------------
(***************************************************************************)
(* Nodes, their children and their neighbours.                             *)
(***************************************************************************)
Half(capacity) == (capacity + 1) \div 2

SetNode(h, n, key, sub) == [h EXCEPT ![n].key = key, ![n].sub = sub]

\* parent_key_idx of the children of n at the places p: p - 1 in the C array.
Renumber(h, n, places) ==
  [m \in DOMAIN h |->
     IF \E p \in places : h[n].sub[p + 1] = m
     THEN [h[m] EXCEPT !.idx = (CHOOSE p \in places : h[n].sub[p + 1] = m) - 1]
     ELSE h[m]]

\* parent and parent_key_idx of the children of n at the given places.
Adopt(h, n, places) ==
  [m \in DOMAIN h |->
     IF \E p \in places : h[n].sub[p + 1] = m
     THEN [Renumber(h, n, places)[m] EXCEPT !.parent = n]
     ELSE h[m]]

Places(h, n) == 0 .. Len(h[n].sub) - 1

\* The level n is linked at, and its place there.
LevelOf(n) == CHOOSE l \in DOMAIN list : Contains(list[l], n)
PlaceIn(s, n) == CHOOSE i \in DOMAIN s : s[i] = n

\* The level lists with node n put before, or after, its neighbour m.
LinkBefore(n, m) == [list EXCEPT ![LevelOf(m)] = InsertAt(@, PlaceIn(@, m), n)]
LinkAfter(n, m) == [list EXCEPT ![LevelOf(m)] = InsertAt(@, PlaceIn(@, m) + 1, n)]
Unlinked(n) == [list EXCEPT ![LevelOf(n)] = RemoveAt(@, PlaceIn(@, n))]

\* list_prev_entry and list_next_entry; Null stands for the head of the list.
Neighbour(n, step) ==
  LET q == list[LevelOf(n)]
      i == PlaceIn(q, n) + step
  IN IF i \in DOMAIN q THEN q[i] ELSE Null
Prev(n) == Neighbour(n, -1)
NextOf(n) == Neighbour(n, 1)

-----------------------------------------------------------------------------
(***************************************************************************)
(* bplus_tree_get_range: the data of the last key between two keys.  The   *)
(* walk goes along list[0] from slot i of its p-th leaf; reading a slot    *)
(* behind a leaf's entries may find anything, so the answer is a set.      *)
(***************************************************************************)
AnyAnswer == (UNION {DataFor[k] : k \in Keys}) \cup {-1, 0}

Slots == (DOMAIN list[0]) \X (0 .. Entries) \X AnyAnswer

\* The index kept when the walk goes on to the next leaf.
RangeWalkNoReset(max) ==
  LET walk[w \in Slots] ==
        LET p == w[1]
            i == w[2]
            leaf == heap[list[0][p]]
        IN IF i >= Len(leaf.key) THEN AnyAnswer
           ELSE IF leaf.key[i + 1] > max THEN {w[3]}
           ELSE IF i + 1 < Len(leaf.key) THEN walk[<<p, i + 1, leaf.sub[i + 1]>>]
           ELSE IF p = Len(list[0]) THEN {-1}
           ELSE walk[<<p + 1, i + 1, leaf.sub[i + 1]>>]
  IN walk

\* From slot i of the p-th leaf on, with the data of the entry before in w[3].
RangeWalk(max) ==
  LET walk[w \in Slots] ==
        LET p == w[1]
            i == w[2]
            leaf == heap[list[0][p]]
        IN IF i >= Len(leaf.key) THEN AnyAnswer
           ELSE IF leaf.key[i + 1] > max THEN {w[3]}
           ELSE IF i + 1 < Len(leaf.key) THEN walk[<<p, i + 1, leaf.sub[i + 1]>>]
           ELSE IF p = Len(list[0]) THEN {-1}
           ELSE walk[<<p + 1, 0, leaf.sub[i + 1]>>]
  IN walk

\* A lower key behind the last entry of its leaf has the walk begin in the next
\* leaf, at the index it had in its own.
GetRange(key1, key2) ==
  LET min == IF key1 <= key2 THEN key1 ELSE key2
      max == IF min = key1 THEN key2 ELSE key1
      leaf == LeafFor(min)
      found == KeyBinarySearch(heap[leaf].key, min)
      i == IF found < 0 THEN - found - 1 ELSE found
      p == PlaceIn(list[0], leaf)
  IN IF root = Null THEN {0}
     ELSE IF i < Len(heap[leaf].key) THEN RangeWalk(max)[<<p, i, 0>>]
     ELSE IF p = Len(list[0]) THEN {-1}
     ELSE RangeWalk(max)[<<p + 1, i, 0>>]

-----------------------------------------------------------------------------
(***************************************************************************)
(* bplus_tree_insert and leaf_insert.                                      *)
(***************************************************************************)
Recorded(k, d) ==
  contents' = With(contents, k,
                   [first |-> IF k \in DOMAIN contents THEN contents[k].first ELSE d,
                    last |-> d])

PutFirst(k, d) ==
  /\ work = Idle
  /\ root = Null
  /\ heap' = With(heap, NewNode, LeafNode(<<k>>, <<d>>))
  /\ root' = NewNode
  /\ list' = [list EXCEPT ![level] = <<NewNode>> \o @]
  /\ Recorded(k, d)
  /\ UNCHANGED <<level, work>>

\* "Already exists": the entry keeps its data.
PutExisting(k, d) ==
  /\ work = Idle
  /\ root # Null
  /\ KeyBinarySearch(heap[LeafFor(k)].key, k) >= 0
  /\ Recorded(k, d)
  /\ UNCHANGED <<treeVars, work>>

PutSimple(k, d) ==
  /\ work = Idle
  /\ root # Null
  /\ LET leaf == LeafFor(k)
         i == KeyBinarySearch(heap[leaf].key, k)
     IN /\ i < 0
        /\ Len(heap[leaf].key) # Entries
        /\ heap' = SetNode(heap, leaf, InsertAt(heap[leaf].key, - i, k),
                                       InsertAt(heap[leaf].sub, - i, d))
  /\ Recorded(k, d)
  /\ UNCHANGED <<root, level, list, work>>

\* leaf_split_left and leaf_split_right: either way the left of the two gets
\* the first Half(Entries) entries; the new leaf is the one k goes to.
PutSplit(k, d) ==
  /\ work = Idle
  /\ root # Null
  /\ LET leaf == LeafFor(k)
         i == KeyBinarySearch(heap[leaf].key, k)
         insert == - i - 1
         split == Half(Entries)
         key == InsertAt(heap[leaf].key, insert + 1, k)
         data == InsertAt(heap[leaf].sub, insert + 1, d)
         left == IF insert < split THEN NewNode ELSE leaf
         right == IF insert < split THEN leaf ELSE NewNode
         h == With(heap, NewNode, LeafNode(<<>>, <<>>))
     IN /\ i < 0
        /\ Len(heap[leaf].key) = Entries
        /\ heap' = SetNode(SetNode(h, left, SubSeq(key, 1, split), SubSeq(data, 1, split)),
                           right, SubSeq(key, split + 1, Entries + 1),
                                  SubSeq(data, split + 1, Entries + 1))
        /\ list' = IF insert < split THEN LinkBefore(NewNode, leaf)
                                     ELSE LinkAfter(NewNode, leaf)
        /\ work' = [op |-> "build", left |-> left, right |-> right,
                    key |-> key[split + 1]]
  /\ Recorded(k, d)
  /\ UNCHANGED <<root, level>>

-----------------------------------------------------------------------------
(***************************************************************************)
(* parent_node_build: a new root, or non_leaf_insert into the parent.      *)
(***************************************************************************)
NewRoot ==
  /\ work.op = "build"
  /\ heap[work.left].parent = Null /\ heap[work.right].parent = Null
  /\ heap' = Adopt(With(heap, NewNode, NonLeafNode(<<work.key>>, <<work.left, work.right>>)),
                   NewNode, {0, 1})
  /\ root' = NewNode
  /\ level' = level + 1
  /\ list' = [list EXCEPT ![level + 1] = <<NewNode>> \o @]
  /\ work' = Idle
  /\ UNCHANGED contents

\* The node the separator goes to: whichever of the two has a parent.
Upper == IF heap[work.right].parent = Null THEN heap[work.left].parent
                                           ELSE heap[work.right].parent
\* Where it goes there.
Insert == - KeyBinarySearch(heap[Upper].key, work.key) - 1

\* The children of Upper with the one that was split replaced by the two.
NewChildren ==
  SubSeq(heap[Upper].sub, 1, Insert) \o <<work.left, work.right>>
    \o SubSeq(heap[Upper].sub, Insert + 2, Len(heap[Upper].sub))

WithParent == [heap EXCEPT ![work.left].parent = Upper, ![work.right].parent = Upper]

NonLeafSimpleInsertShort ==
  /\ work.op = "build"
  /\ Upper # Null
  /\ Len(heap[Upper].sub) # Order
  /\ LET h == SetNode(WithParent, Upper,
                      InsertAt(heap[Upper].key, Insert + 1, work.key), NewChildren)
     IN heap' = Renumber(h, Upper, {Insert, Insert + 1})
  /\ work' = Idle
  /\ UNCHANGED <<root, level, list, contents>>

NonLeafSimpleInsert ==
  /\ work.op = "build"
  /\ Upper # Null
  /\ Len(heap[Upper].sub) # Order
  /\ LET h == SetNode(WithParent, Upper,
                      InsertAt(heap[Upper].key, Insert + 1, work.key), NewChildren)
     IN heap' = Renumber(h, Upper, Insert .. Len(h[Upper].sub) - 1)
  /\ work' = Idle
  /\ UNCHANGED <<root, level, list, contents>>

\* non_leaf_split_left, _right1 and _right2.  The left of the two nodes gets
\* Half(Order) children, one more when the insertion is right of the split; the
\* key between the two goes up.  A new left node takes children of the old node
\* and shifts the rest, a new right node leaves the rest as they are.
NonLeafSplit ==
  /\ work.op = "build"
  /\ Upper # Null
  /\ Len(heap[Upper].sub) = Order
  /\ LET split == Half(Order)
         cut == IF Insert <= split THEN split ELSE split + 1
         key == InsertAt(heap[Upper].key, Insert + 1, work.key)
         goesLeft == Insert < split
         left == IF goesLeft THEN NewNode ELSE Upper
         right == IF goesLeft THEN Upper ELSE NewNode
         h0 == With(WithParent, NewNode, NonLeafNode(<<>>, <<>>))
         h1 == SetNode(h0, left, SubSeq(key, 1, cut - 1), SubSeq(NewChildren, 1, cut))
         h2 == SetNode(h1, right, SubSeq(key, cut + 1, Order),
                                  SubSeq(NewChildren, cut + 1, Order + 1))
         h3 == Adopt(h2, right, Places(h2, right))
     IN /\ heap' = IF goesLeft THEN Adopt(h3, left, Places(h3, left)) ELSE h3
        /\ list' = IF goesLeft THEN LinkBefore(NewNode, Upper) ELSE LinkAfter(NewNode, Upper)
        /\ work' = [op |-> "build", left |-> left, right |-> right, key |-> key[cut]]
  /\ UNCHANGED <<root, level, contents>>

-----------------------------------------------------------------------------
(***************************************************************************)
(* bplus_tree_delete and leaf_remove (bplus_tree_put with data 0).         *)
(***************************************************************************)

\* leaf_sibling_select and non_leaf_sibling_select: the first child borrows
\* from the right, the last from the left, the others from the fuller side.
BorrowsFromLeft(n) ==
  LET i == heap[n].idx IN
  CASE i = -1                                  -> FALSE
    [] i = Len(heap[heap[n].parent].sub) - 2   -> TRUE
    [] OTHER -> Len(heap[Prev(n)].sub) >= Len(heap[NextOf(n)].sub)

SeparatorKept(h, p, i, k) == h

\* parent->key[i] = k
SetSeparator(h, p, i, k) == [h EXCEPT ![p].key[i + 1] = k]
Separator(p, i) == heap[p].key[i + 1]

RemoveNextUpwards(p, i) == [op |-> "remove", node |-> p, remove |-> i + 1]

\* non_leaf_remove(tree, parent, i) is still to be called.
RemoveUpwards(p, i) == [op |-> "remove", node |-> p, remove |-> i]

\* The leaf k is in, and its place there.
DeleteLeaf(k) == LeafFor(k)
DeletePlace(k) == KeyBinarySearch(heap[LeafFor(k)].key, k)
Found(k) == root # Null /\ DeletePlace(k) >= 0
CanDelete(k) == work = Idle /\ Found(k)

UnderfullEager(n, capacity) == Len(heap[n].sub) <= Half(capacity) + 1 /\ heap[n].parent # Null

\* A node, not the root, that may lose nothing without a neighbour's help.
Underfull(n, capacity) == Len(heap[n].sub) <= Half(capacity) /\ heap[n].parent # Null

DeleteMissing(k) ==
  /\ work = Idle
  /\ ~ Found(k)
  /\ UNCHANGED vars

LeafSimpleRemove(k) ==
  LET leaf == DeleteLeaf(k) IN
  /\ CanDelete(k)
  /\ ~ Underfull(leaf, Entries)
  /\ \/ /\ heap[leaf].parent = Null /\ Len(heap[leaf].sub) = 1
        /\ heap' = Without(heap, leaf)
        /\ list' = Unlinked(leaf)
        /\ root' = Null
     \/ /\ heap[leaf].parent # Null \/ Len(heap[leaf].sub) # 1
        /\ heap' = SetNode(heap, leaf, RemoveAt(heap[leaf].key, DeletePlace(k) + 1),
                                       RemoveAt(heap[leaf].sub, DeletePlace(k) + 1))
        /\ UNCHANGED <<root, list>>
  /\ contents' = Without(contents, k)
  /\ UNCHANGED <<level, work>>

\* leaf_shift_from_left and leaf_merge_into_left.
LeafFromLeft(k) ==
  /\ CanDelete(k)
  /\ LET leaf == DeleteLeaf(k)
         left == Prev(leaf)
         p == heap[leaf].parent
         i == heap[leaf].idx
         key == RemoveAt(heap[leaf].key, DeletePlace(k) + 1)
         data == RemoveAt(heap[leaf].sub, DeletePlace(k) + 1)
     IN /\ Underfull(leaf, Entries)
        /\ BorrowsFromLeft(leaf)
        /\ \/ /\ Len(heap[left].key) > Half(Entries)
              /\ LET h1 == SetNode(heap, leaf, <<Last(heap[left].key)>> \o key,
                                               <<Last(heap[left].sub)>> \o data)
                     h2 == SetNode(h1, left, Front(heap[left].key), Front(heap[left].sub))
                 IN heap' = SetSeparator(h2, p, i, Last(heap[left].key))
              /\ UNCHANGED <<list, work>>
           \/ /\ Len(heap[left].key) <= Half(Entries)
              /\ heap' = Without(SetNode(heap, left, heap[left].key \o key,
                                                     heap[left].sub \o data), leaf)
              /\ list' = Unlinked(leaf)
              /\ work' = RemoveUpwards(p, i)
  /\ contents' = Without(contents, k)
  /\ UNCHANGED <<root, level>>

\* leaf_simple_remove, then leaf_shift_from_right or leaf_merge_from_right.
LeafFromRight(k) ==
  /\ CanDelete(k)
  /\ LET leaf == DeleteLeaf(k)
         right == NextOf(leaf)
         p == heap[leaf].parent
         i == heap[leaf].idx
         key == RemoveAt(heap[leaf].key, DeletePlace(k) + 1)
         data == RemoveAt(heap[leaf].sub, DeletePlace(k) + 1)
     IN /\ Underfull(leaf, Entries)
        /\ ~ BorrowsFromLeft(leaf)
        /\ \/ /\ Len(heap[right].key) > Half(Entries)
              /\ LET h1 == SetNode(heap, leaf, Append(key, Head(heap[right].key)),
                                               Append(data, Head(heap[right].sub)))
                     h2 == SetNode(h1, right, Tail(heap[right].key), Tail(heap[right].sub))
                 IN heap' = SetSeparator(h2, p, i + 1, heap[right].key[2])
              /\ UNCHANGED <<list, work>>
           \/ /\ Len(heap[right].key) <= Half(Entries)
              /\ heap' = Without(SetNode(heap, leaf, key \o heap[right].key,
                                                     data \o heap[right].sub), right)
              /\ list' = Unlinked(right)
              /\ work' = RemoveUpwards(p, i + 1)
  /\ contents' = Without(contents, k)
  /\ UNCHANGED <<root, level>>

-----------------------------------------------------------------------------
(***************************************************************************)
(* non_leaf_remove of key[remove] and sub_ptr[remove + 1] of work.node.    *)
(***************************************************************************)
KeysLeft(n, remove) == RemoveAt(heap[n].key, remove + 1)
SubsLeft(n, remove) == RemoveAt(heap[n].sub, remove + 2)

\* non_leaf_simple_remove: the children behind the removed one move up.
SimplyRemoved(n, remove) ==
  LET h == SetNode(heap, n, KeysLeft(n, remove), SubsLeft(n, remove))
  IN Renumber(h, n, remove + 1 .. Len(h[n].sub) - 1)

CollapsedKeepingParent(n) == Without(heap, n)

\* The root with one child left gives way to that child.
Collapsed(n) == Without([heap EXCEPT ![heap[n].sub[1]].parent = Null], n)

NonLeafSimpleRemove ==
  /\ work.op = "remove"
  /\ LET n == work.node IN
       /\ ~ Underfull(n, Order)
       /\ \/ /\ heap[n].parent = Null /\ Len(heap[n].sub) = 2
             /\ heap' = Collapsed(n)
             /\ root' = heap[n].sub[1]
             /\ list' = Unlinked(n)
             /\ level' = level - 1
          \/ /\ heap[n].parent # Null \/ Len(heap[n].sub) # 2
             /\ heap' = SimplyRemoved(n, work.remove)
             /\ UNCHANGED <<root, list, level>>
  /\ work' = Idle
  /\ UNCHANGED contents

\* non_leaf_shift_from_left and non_leaf_merge_into_left.
NonLeafFromLeft ==
  /\ work.op = "remove"
  /\ LET n == work.node
         left == Prev(n)
         p == heap[n].parent
         i == heap[n].idx
         key == KeysLeft(n, work.remove)
         sub == SubsLeft(n, work.remove)
     IN /\ Underfull(n, Order)
        /\ BorrowsFromLeft(n)
        /\ \/ /\ Len(heap[left].sub) > Half(Order)
              /\ LET h1 == SetNode(heap, n, <<Separator(p, i)>> \o key,
                                            <<Last(heap[left].sub)>> \o sub)
                     h2 == SetNode(h1, left, Front(heap[left].key), Front(heap[left].sub))
                     h3 == SetSeparator(h2, p, i, Last(heap[left].key))
                 IN heap' = Adopt(Renumber(h3, n, 1 .. work.remove + 1), n, {0})
              /\ work' = Idle
              /\ UNCHANGED list
           \/ /\ Len(heap[left].sub) <= Half(Order)
              /\ LET h == SetNode(heap, left, heap[left].key \o <<Separator(p, i)>> \o key,
                                              heap[left].sub \o sub)
                 IN heap' = Without(Adopt(h, left, Places(h, left) \ Places(heap, left)), n)
              /\ list' = Unlinked(n)
              /\ work' = RemoveUpwards(p, i)
  /\ UNCHANGED <<root, level, contents>>

\* non_leaf_simple_remove, then non_leaf_shift_from_right or
\* non_leaf_merge_from_right.
NonLeafFromRight ==
  /\ work.op = "remove"
  /\ LET n == work.node
         right == NextOf(n)
         p == heap[n].parent
         i == heap[n].idx
         h0 == SimplyRemoved(n, work.remove)
         key == h0[n].key
         sub == h0[n].sub
     IN /\ Underfull(n, Order)
        /\ ~ BorrowsFromLeft(n)
        /\ \/ /\ Len(heap[right].sub) > Half(Order)
              /\ LET h1 == SetNode(h0, n, Append(key, Separator(p, i + 1)),
                                          Append(sub, Head(heap[right].sub)))
                     h2 == SetNode(h1, right, Tail(heap[right].key), Tail(heap[right].sub))
                     h3 == SetSeparator(h2, p, i + 1, Head(heap[right].key))
                     h4 == Adopt(h3, n, {Len(sub)})
                 IN heap' = Renumber(h4, right, Places(h4, right))
              /\ work' = Idle
              /\ UNCHANGED list
           \/ /\ Len(heap[right].sub) <= Half(Order)
              /\ LET h == SetNode(h0, n, key \o <<Separator(p, i + 1)>> \o heap[right].key,
                                         sub \o heap[right].sub)
                 IN heap' = Without(Adopt(h, n, Places(h, n) \ Places(h0, n)), right)
              /\ list' = Unlinked(right)
              /\ work' = RemoveUpwards(p, i + 1)
  /\ UNCHANGED <<root, level, contents>>

-----------------------------------------------------------------------------
Put(k, d) == PutFirst(k, d) \/ PutExisting(k, d) \/ PutSimple(k, d) \/ PutSplit(k, d)
Delete(k) == DeleteMissing(k) \/ LeafSimpleRemove(k) \/ LeafFromLeft(k) \/ LeafFromRight(k)
ParentNodeBuild == NewRoot \/ NonLeafSimpleInsert \/ NonLeafSplit
NonLeafRemove == NonLeafSimpleRemove \/ NonLeafFromLeft \/ NonLeafFromRight

Next ==
  \/ \E k \in Keys : (\E d \in DataFor[k] : Put(k, d)) \/ Delete(k)
  \/ ParentNodeBuild
  \/ NonLeafRemove

Spec == Init /\ [][Next]_vars

-----------------------------------------------------------------------------
Data == UNION {DataFor[k] : k \in Keys}
Node ==
  [leaf : BOOLEAN, key : Seq(Keys), sub : Seq(Data \cup Nat),
   parent : DOMAIN heap \cup {Null}, idx : Int]

TypeOK ==
  /\ \A n \in DOMAIN heap : heap[n] \in Node
  /\ root \in DOMAIN heap \cup {Null}
  /\ level \in 0 .. MaxLevel - 1
  /\ list \in [0 .. MaxLevel - 1 -> Seq(DOMAIN heap)]
  /\ work.op \in {"idle", "build", "remove"}
  /\ DOMAIN contents \subseteq Keys

\* The leaves, read along list[0], hold exactly the keys that were put and not
\* deleted since, in ascending order, each with the data of the put that
\* created it, through every split, borrow and merge (bplustree.c:412-587,
\* 637-931).
LeavesHoldTheMap ==
  LET leaf == [i \in DOMAIN list[0] |-> heap[list[0][i]]]
  IN work = Idle =>
       /\ \A i \in DOMAIN leaf : \A j \in 1 .. Len(leaf[i].key) - 1 :
            leaf[i].key[j] < leaf[i].key[j + 1]
       /\ \A i \in 1 .. Len(list[0]) - 1 : Last(leaf[i].key) < Head(leaf[i + 1].key)
       /\ UNION {ToSet(leaf[i].key) : i \in DOMAIN leaf} = DOMAIN contents
       /\ \A i \in DOMAIN leaf : \A j \in DOMAIN leaf[i].key :
            leaf[i].sub[j] = contents[leaf[i].key[j]].first

\* bplus_tree_get finds every key that is there, and only those: the keys of
\* the inner nodes guide the descent to the right leaf (bplustree.c:205-227).
GetFindsTheEntry ==
  work = Idle =>
    \A k \in Keys : Get(k) = IF k \in DOMAIN contents THEN contents[k].first ELSE -1

\* bplus_tree_get_range answers with the data of the greatest key of the range,
\* with 0 if there is none, and with -1 if no key lies above the range, however
\* the entries are spread over leaves: provided the lower key is not behind the
\* last entry of its leaf and before the first of the next, where the walk
\* starts at a stale index (bplustree.c:1026-1070).
InsideItsLeaf(k) == \E i \in DOMAIN heap[LeafFor(k)].key : heap[LeafFor(k)].key[i] >= k
BehindAllLeaves(k) == \A j \in DOMAIN contents : j < k
RangeFindsLast ==
  work = Idle /\ root # Null =>
    \A k, l \in Keys :
      LET within == {j \in DOMAIN contents : k <= j /\ j <= l}
          above == {j \in DOMAIN contents : j > l}
          last == CHOOSE j \in within : \A m \in within : m <= j
      IN (k <= l /\ (InsideItsLeaf(k) \/ BehindAllLeaves(k))) =>
           GetRange(k, l) = GetRange(l, k) /\
           GetRange(k, l) = {IF above = {} THEN -1
                             ELSE IF within = {} THEN 0 ELSE contents[last].first}

\* What non_leaf_remove and the splits take on trust from earlier calls: each
\* child's parent and parent_key_idx lead to the pointer to it, each level's
\* list is the children of the level above from left to right, and nothing
\* else is allocated (bplustree.h:74-108).
LinksAgree ==
  work = Idle =>
    /\ \A l \in 0 .. MaxLevel - 1 : l > level => list[l] = <<>>
    /\ list[level] = IF root = Null THEN <<>> ELSE <<root>>
    /\ root # Null => heap[root].parent = Null
    /\ \A l \in 0 .. level : IsInjective(list[l])
    /\ \A l \in 1 .. level :
         /\ ToSet(list[l - 1]) = UNION {ToSet(heap[n].sub) : n \in ToSet(list[l])}
         /\ \A n \in ToSet(list[l]) : \A j \in DOMAIN heap[n].sub :
              NextOf(heap[n].sub[j]) =
                CASE j < Len(heap[n].sub) -> heap[n].sub[j + 1]
                  [] j = Len(heap[n].sub) /\ NextOf(n) # Null -> heap[NextOf(n)].sub[1]
                  [] OTHER -> Null
    /\ \A n \in DOMAIN heap :
         /\ \E l \in 0 .. level : Contains(list[l], n) /\ (heap[n].leaf <=> l = 0)
         /\ ~ heap[n].leaf =>
              \A j \in DOMAIN heap[n].sub :
                heap[heap[n].sub[j]].parent = n /\ heap[heap[n].sub[j]].idx = j - 2

\* No node overflows its arrays, in the middle of an operation either, and
\* every node but the root keeps at least half of its capacity, rounded down
\* (bplustree.c:443-468, 561-584, 747-787, 889-928).
FillBounds ==
  \A n \in DOMAIN heap :
    LET capacity == IF heap[n].leaf THEN Entries ELSE Order
        size == Len(heap[n].sub)
    IN /\ size <= capacity
       /\ Len(heap[n].key) = IF heap[n].leaf THEN size ELSE size - 1
       /\ work = Idle => size >= IF n = root THEN (IF heap[n].leaf THEN 1 ELSE 2)
                                             ELSE capacity \div 2

\* The assertions of the code hold: a separator is new to the node it goes to
\* (bplustree.c:440), a root that collapses keeps its first child (776), and a
\* node that loses a child has two (735).
AssertionsHold ==
  /\ (work.op = "build" /\ Upper # Null) => KeyBinarySearch(heap[Upper].key, work.key) < 0
  /\ work.op = "remove" =>
       /\ Len(heap[work.node].sub) >= 2
       /\ (heap[work.node].parent = Null /\ Len(heap[work.node].sub) = 2) => work.remove = 0

\* A put replaces the data of a key that is there, as std_map[k] = v does in
\* test/bplustree_test.cpp:22-23 and 49-50, whose assertions at 28 and 55
\* compare the two.
GetSeesLastPut ==
  work = Idle => \A k \in DOMAIN contents : Get(k) = contents[k].last
=============================================================================
