--------------------------- MODULE BPlusTreeProofs --------------------------
(***************************************************************************)
(* Theorems about the B+ tree (BPlusTree.tla): what its seven invariants   *)
(* say holds for every order, every capacity of a leaf and every set of    *)
(* keys, while level stays below BPLUS_MAX_LEVEL, a bound the code trusts  *)
(* its caller with (bplustree.c:253).                                      *)
(*                                                                         *)
(* The invariant is the TreeInvariant of BPlusTreeFacts.  One lemma per    *)
(* action, named <Action>Keeps, shows that the action keeps it; then the   *)
(* properties follow from it.                                              *)
(***************************************************************************)
EXTENDS BPlusTreeFacts

(***************************************************************************)
(* Puts and deletes that stay within a leaf, and splits of a leaf.         *)
(***************************************************************************)

\* The data of a caller are data.
LEMMA DatumIs ==
  ASSUME NEW k \in Keys, NEW d \in DataFor[k]
  PROVE  d \in Item
BY DEF Item, Data

\* What holds between two calls.
LEMMA IdleState ==
  ASSUME NEW h, NEW rt, NEW lv, NEW ls, NEW c
  PROVE  StateOK(h, Idle, rt, lv, ls, c)
           <=> (\E g : TreeIs(h, Idle, rt, lv, ls, g)) /\ Sizes(h, rt) /\ MapIs(h, c)
BY IdleIs DEF StateOK

\* The first put keeps the invariant (bplustree.c:589-619).
LEMMA PutFirstKeeps ==
  ASSUME TreeInvariant, level < MaxLevel, NEW k \in Keys, NEW d \in DataFor[k], PutFirst(k, d)
  PROVE  TreeInvariant'
<1> DEFINE z == NewNode
           rec == LeafNode(<<k>>, <<d>>)
           ls == [list EXCEPT ![level] = <<z>> \o @]
<1>1. /\ work = Idle /\ root = Null
      /\ heap' = With(heap, z, rec) /\ root' = z /\ list' = ls
      /\ Recorded(k, d) /\ level' = level /\ work' = work
  BY DEF PutFirst
<1>2. PICK g : TreeIs(heap, Idle, root, level, list, g)
  BY <1>1, IdleState DEF TreeInvariant
<1>3. HeapOK(heap) /\ Shape(heap, g, root, level) /\ Chain(list, DOMAIN heap, g) /\ MapIs(heap, contents)
  BY <1>1, <1>2, IdleTree, IdleState DEF TreeInvariant
<1>4. DOMAIN heap = {} /\ level = 0
  BY <1>1, <1>3 DEF Shape
<1>5. z \in Nat \ {0} /\ z \notin DOMAIN heap
  BY <1>3, NewNodeIs
<1>6. /\ rec.leaf = TRUE /\ rec.key = <<k>> /\ rec.sub = <<d>> /\ rec.parent = Null /\ rec.idx = -1
      /\ rec \in NodeRec
  <2> DEFINE key == <<k>>
             sub == <<d>>
  <2>1. key \in Seq(Keys)
    OBVIOUS
  <2>2. d \in Item
    BY DatumIs
  <2>3. sub \in Seq(Item)
    BY <2>2
  <2> DEFINE y == LeafNode(key, sub)
  <2> HIDE DEF key, sub
  <2>4. y.leaf = TRUE /\ y.key = key /\ y.sub = sub /\ y.parent = Null /\ y.idx = -1 /\ y \in NodeRec
    BY <2>1, <2>3 DEF LeafNode, NodeRec, Null
  <2> QED
    BY <2>4 DEF key, sub
<1> HIDE DEF rec, z
<1>7. HeapOK(heap') /\ DOMAIN heap' = {z} /\ heap'[z] = rec
  <2>1. /\ HeapOK(With(heap, z, rec)) /\ DOMAIN With(heap, z, rec) = DOMAIN heap \cup {z}
        /\ With(heap, z, rec)[z] = rec
    BY <1>3, <1>5, <1>6, WithIs
  <2> QED
    BY <1>1, <1>4, <2>1
<1>8. Len(rec.key) = 1 /\ Len(rec.sub) = 1 /\ rec.key[1] = k /\ rec.sub[1] = d
  BY <1>6
<1> DEFINE g2 == [n \in {z} |-> [lo |-> Bottom, hi |-> Top, dep |-> 0]]
<1>9. g2[z].lo = Bottom /\ g2[z].hi = Top /\ g2[z].dep = 0
  OBVIOUS
<1> HIDE DEF g2
<1>10. Shape(heap', g2, z, 0)
  BY <1>5, <1>6, <1>7, <1>8, <1>9, FirstShape
<1>11. Links(heap', z)
  BY <1>6, <1>7 DEF Links, Slot
<1>12. Chain(ls, {z}, g2)
  <2> DEFINE D == DOMAIN heap
             l == level
  <2>1. /\ Chain(list, D, g) /\ z \notin D /\ (\A n \in D : g[n].dep # l) /\ g2[z].dep = l
        /\ \A n \in D : g2[n] = g[n]
    BY <1>3, <1>4, <1>9
  <2>2. Interval(g2, z)
    BY <1>9, BottomTop DEF Interval
  <2>5. D \cup {z} = {z}
    BY <1>4
  <2> DEFINE E == {z}
  <2>3. E = D \cup {z} /\ ls = Headed(list, l, z)
    BY <2>5 DEF Headed
  <2> HIDE DEF D, l, E, ls
  <2>4. Chain(ls, E, g2)
    BY ONLY <2>1, <2>2, <2>3, ChainNew
  <2> QED
    BY <2>4 DEF E
<1>13. TreeIs(heap', Idle, root', level', list', g2)
  <2>1. TreeIs(heap', Idle, z, 0, ls, g2)
    BY <1>7, <1>10, <1>11, <1>12, IdleTree
  <2> HIDE DEF ls
  <2> QED
    BY <1>1, <1>4, <2>1
<1>14. Sizes(heap', root')
  <2>1. heap'[z].leaf = TRUE /\ Len(heap'[z].sub) = 1
    BY <1>6, <1>7, <1>8
  <2>2. Fits(heap', z, z)
    BY <2>1, EntriesAssumption DEF Fits
  <2> QED
    BY <1>1, <1>7, <2>2 DEF Sizes
<1>15. MapIs(heap', contents')
  <2>1. \A l, e : ~ Entry(heap, l, e)
    BY <1>4 DEF Entry
  <2>2. ASSUME NEW l, NEW e
        PROVE  Entry(heap', l, e) <=> (l = k /\ e = d)
    <3>1. HasPair(rec.key, rec.sub, l, e) <=> (l = k /\ e = d)
      <4>1. \A i : i \in 1 .. Len(rec.key) <=> i = 1
        BY <1>8
      <4> QED
        BY <1>8, <4>1 DEF HasPair
    <3>2. Has(heap', z, l, e) <=> (l = k /\ e = d)
      BY <1>6, <1>7, <3>1 DEF Has
    <3> QED
      BY <1>7, <3>2 DEF Entry
  <2>3. contents' = With(contents, k, [first |-> IF k \in DOMAIN contents THEN contents[k].first ELSE d,
                                       last |-> d])
    BY <1>1 DEF Recorded
  <2> QED
    BY <1>3, <2>1, <2>2, <2>3, MapInsert
<1> QED
  BY <1>1, <1>13, <1>14, <1>15, IdleState DEF TreeInvariant

\* So does a put of a key that is there: it changes nothing.
LEMMA PutExistingKeeps ==
  ASSUME TreeInvariant, level < MaxLevel, NEW k \in Keys, NEW d \in DataFor[k], PutExisting(k, d)
  PROVE  TreeInvariant'
<1>1. /\ work = Idle /\ root # Null /\ KeyBinarySearch(heap[LeafFor(k)].key, k) >= 0
      /\ Recorded(k, d) /\ heap' = heap /\ root' = root /\ level' = level /\ list' = list
      /\ work' = work
  BY DEF PutExisting, treeVars
<1>2. PICK g : TreeIs(heap, Idle, root, level, list, g)
  BY <1>1, IdleState DEF TreeInvariant
<1>3. MapIs(heap, contents) /\ Sizes(heap, root)
  BY <1>1, IdleState DEF TreeInvariant
<1> DEFINE x == LeafFor(k)
<1>4. /\ x \in DOMAIN heap /\ heap[x].leaf
      /\ Run(heap[x].key, heap[x].sub, g[x].lo, g[x].hi)
  BY <1>1, <1>2, LeafOf
<1> HIDE DEF x
<1>5. k \in DOMAIN contents
  <2> DEFINE key == heap[x].key
             r == KeyBinarySearch(key, k)
  <2>1. key \in Seq(Int) /\ Ascending(key) /\ k \in Int
    BY <1>4, KeyIsInt, TreeKeysAssumption DEF Run
  <2>2. r >= 0
    BY <1>1 DEF x
  <2> HIDE DEF key
  <2>3. r + 1 \in 1 .. Len(key) /\ key[r + 1] = k
    BY <2>1, <2>2, SearchSays
  <2> DEFINE i == r + 1
  <2> HIDE DEF r
  <2>4. i \in 1 .. Len(key) /\ key[i] = k
    BY <2>3
  <2> HIDE DEF i
  <2>5. Has(heap, x, k, heap[x].sub[i])
    BY <1>4, <2>4 DEF Has, HasPair, key
  <2> QED
    BY <1>3, <1>4, <2>5 DEF MapIs, Entry
<1>6. MapIs(heap, contents')
  <2>1. contents' = With(contents, k, [first |-> IF k \in DOMAIN contents THEN contents[k].first ELSE d,
                                       last |-> d])
    BY <1>1 DEF Recorded
  <2> QED
    BY <1>3, <1>5, <2>1, MapSame
<1>7. StateOK(heap, Idle, root, level, list, contents')
  BY <1>2, <1>3, <1>6, IdleState
<1> QED
  BY <1>1, <1>7 DEF TreeInvariant

\* So does a put into a leaf with room.
LEMMA PutSimpleKeeps ==
  ASSUME TreeInvariant, level < MaxLevel, NEW k \in Keys, NEW d \in DataFor[k], PutSimple(k, d)
  PROVE  TreeInvariant'
<1> DEFINE x == LeafFor(k)
           i == - KeyBinarySearch(heap[x].key, k)
           key == InsertAt(heap[x].key, i, k)
           sub == InsertAt(heap[x].sub, i, d)
<1>1. /\ work = Idle /\ root # Null /\ KeyBinarySearch(heap[x].key, k) < 0
      /\ Len(heap[x].key) # Entries /\ heap' = SetNode(heap, x, key, sub)
      /\ Recorded(k, d) /\ root' = root /\ level' = level /\ list' = list /\ work' = work
  BY DEF PutSimple
<1>2. PICK g : TreeIs(heap, Idle, root, level, list, g)
  BY <1>1, IdleState DEF TreeInvariant
<1>3. MapIs(heap, contents) /\ Sizes(heap, root)
  BY <1>1, IdleState DEF TreeInvariant
<1>4. /\ x \in DOMAIN heap /\ heap[x].leaf
      /\ Run(heap[x].key, heap[x].sub, g[x].lo, g[x].hi)
      /\ Interval(g, x) /\ g[x].lo <= k /\ k < g[x].hi
      /\ \A m \in DOMAIN heap : \A e : m # x => ~ Has(heap, m, k, e)
      /\ Len(heap[x].sub) = Len(heap[x].key)
  BY <1>1, <1>2, LeafOf
<1> HIDE DEF x
<1>5. d \in Item
  BY DatumIs
<1>6. /\ Run(key, sub, g[x].lo, g[x].hi) /\ Len(key) = Len(heap[x].key) + 1
      /\ \A l, e : HasPair(key, sub, l, e)
                     <=> HasPair(heap[x].key, heap[x].sub, l, e) \/ (l = k /\ e = d)
      /\ \A e : ~ HasPair(heap[x].key, heap[x].sub, k, e)
  <2> DEFINE ky == heap[x].key
             sb == heap[x].sub
             lo == g[x].lo
             hi == g[x].hi
  <2>1. /\ lo \in Int /\ hi \in Int /\ Run(ky, sb, lo, hi) /\ k \in Keys /\ lo <= k /\ k < hi
        /\ d \in Item /\ KeyBinarySearch(ky, k) < 0 /\ i = - KeyBinarySearch(ky, k)
    BY <1>1, <1>4, <1>5 DEF Interval
  <2> HIDE DEF ky, sb, lo, hi, i
  <2>2. RunWith(ky, sb, lo, hi, i, k, d)
    BY ONLY <2>1, RunInsert
  <2> QED
    BY <2>2 DEF RunWith, ky, sb, lo, hi
<1> HIDE DEF key, sub
<1>7. /\ TreeIs(heap', Idle, root, level, list, g)
      /\ DOMAIN heap' = DOMAIN heap /\ heap'[x].leaf /\ heap'[x].key = key /\ heap'[x].sub = sub
      /\ \A m \in DOMAIN heap \ {x} : heap'[m] = heap[m]
  <2> DEFINE H == heap'
  <2>1. TreeIs(heap, Idle, root, level, list, g) /\ x \in DOMAIN heap /\ heap[x].leaf
        /\ Run(key, sub, g[x].lo, g[x].hi) /\ H = SetNode(heap, x, key, sub)
    BY <1>1, <1>2, <1>4, <1>6
  <2> HIDE DEF H
  <2>2. TreeIs(H, Idle, root, level, list, g) /\ Edited(heap, H, x, key, sub)
    BY ONLY <2>1, LeafEdit
  <2> QED
    BY <1>4, <2>2 DEF H, Edited
<1>8. Sizes(heap', root)
  <2>1. Len(sub) = Len(heap[x].sub) + 1 /\ Len(heap[x].sub) \in Nat
    BY <1>4, <1>6, KeyIsInt DEF Run
  <2>2. Fits(heap, root, x)
    BY <1>3, <1>4 DEF Sizes
  <2>3. Fits(heap', root, x)
    BY <1>1, <1>4, <1>7, <2>1, <2>2, EntriesAssumption DEF Fits
  <2>4. \A m \in DOMAIN heap \ {x} : Fits(heap', root, m)
    BY <1>3, <1>7 DEF Sizes, Fits
  <2> QED
    BY <1>7, <2>3, <2>4 DEF Sizes
<1>9. MapIs(heap', contents')
  <2>1. \A e : ~ Entry(heap, k, e)
    BY <1>4, <1>6 DEF Entry, Has
  <2>2. ASSUME NEW l, NEW e
        PROVE  Entry(heap', l, e) <=> Entry(heap, l, e) \/ (l = k /\ e = d)
    <3>1. \A m \in DOMAIN heap \ {x} : Has(heap', m, l, e) <=> Has(heap, m, l, e)
      BY <1>7 DEF Has
    <3>2. Has(heap', x, l, e) <=> Has(heap, x, l, e) \/ (l = k /\ e = d)
      BY <1>4, <1>6, <1>7 DEF Has
    <3> QED
      BY <1>4, <1>7, <3>1, <3>2 DEF Entry
  <2>3. contents' = With(contents, k, [first |-> IF k \in DOMAIN contents THEN contents[k].first ELSE d,
                                       last |-> d])
    BY <1>1 DEF Recorded
  <2> QED
    BY <1>3, <2>1, <2>2, <2>3, MapInsert
<1> QED
  BY <1>1, <1>7, <1>8, <1>9, IdleState DEF TreeInvariant

\* The node without a parent is the root; a leaf that is the root is alone.
LEMMA OrphanIsRoot ==
  ASSUME NEW h, NEW g, NEW rt, NEW lv, HeapOK(h), Shape(h, g, rt, lv), Links(h, rt),
         NEW n \in DOMAIN h
  PROVE  /\ h[n].parent = Null <=> n = rt
         /\ n = rt /\ h[n].leaf => DOMAIN h = {n} /\ lv = 0
<1>1. n # rt => h[n].parent # Null
  <2>1. SUFFICES ASSUME n # rt PROVE h[n].parent # Null
    OBVIOUS
  <2>2. PICK p, j : Slot(h, p, j, n)
    BY <2>1 DEF Shape, NodeOK, HasParent
  <2> QED
    BY <2>2, SlotUnique
<1>2. n = rt => h[n].parent = Null
  BY DEF Links, HeapOK, Null
<1>3. ASSUME n = rt, h[n].leaf PROVE DOMAIN h = {n} /\ lv = 0
  <2>1. rt # Null /\ g[rt].dep = lv /\ g[n].dep = 0
    BY <1>3, DepthIs DEF Shape, HeapOK, Null
  <2>2. ASSUME NEW m \in DOMAIN h, m # n PROVE FALSE
    <3>1. PICK p, j : Slot(h, p, j, m)
      BY <1>3, <2>2 DEF Shape, NodeOK, HasParent
    <3>2. p \in DOMAIN h /\ g[p].dep = g[m].dep + 1
      BY <3>1, SlotIs
    <3>3. g[p].dep \in 0 .. lv /\ g[m].dep \in 0 .. lv
      BY <3>2, DepthIs
    <3> QED
      BY <1>3, <2>1, <3>2, <3>3
  <2> QED
    BY <1>3, <2>1, <2>2
<1> QED
  BY <1>1, <1>2, <1>3

\* The entry a deletion takes out of its leaf.
LEMMA DeletedIs ==
  ASSUME NEW g, TreeIs(heap, Idle, root, level, list, g), level < MaxLevel, NEW k \in Keys,
         CanDelete(k), NEW x, x = LeafFor(k), NEW i, i = DeletePlace(k) + 1
  PROVE  /\ work = Idle /\ root # Null
         /\ x \in DOMAIN heap /\ heap[x].leaf
         /\ Run(heap[x].key, heap[x].sub, g[x].lo, g[x].hi) /\ Interval(g, x)
         /\ i \in 1 .. Len(heap[x].key) /\ heap[x].key[i] = k
         /\ Len(heap[x].sub) = Len(heap[x].key)
         /\ \A m \in DOMAIN heap : \A d : m # x => ~ Has(heap, m, k, d)
<1>1. work = Idle /\ root # Null /\ KeyBinarySearch(heap[x].key, k) >= 0
      /\ i = KeyBinarySearch(heap[x].key, k) + 1
  BY DEF CanDelete, Found, DeletePlace
<1>2. /\ x \in DOMAIN heap /\ heap[x].leaf
      /\ Run(heap[x].key, heap[x].sub, g[x].lo, g[x].hi) /\ Interval(g, x)
      /\ \A m \in DOMAIN heap : \A d : m # x => ~ Has(heap, m, k, d)
      /\ Len(heap[x].sub) = Len(heap[x].key)
  BY <1>1, LeafOf
<1>3. i \in 1 .. Len(heap[x].key) /\ heap[x].key[i] = k
  <2> DEFINE key == heap[x].key
             r == KeyBinarySearch(key, k)
  <2>1. key \in Seq(Int) /\ Ascending(key) /\ k \in Int
    BY <1>2, KeyIsInt, TreeKeysAssumption DEF Run
  <2>2. r >= 0 /\ i = r + 1
    BY <1>1
  <2> HIDE DEF key
  <2>3. r + 1 \in 1 .. Len(key) /\ key[r + 1] = k
    BY <2>1, <2>2, SearchSays
  <2> HIDE DEF r
  <2> QED
    BY <2>2, <2>3 DEF key
<1> QED
  BY <1>1, <1>2, <1>3

\* The contents of leaf x without the entry of k.
Less(x, g, key, sub, k) ==
  /\ Run(key, sub, g[x].lo, g[x].hi) /\ Len(key) = Len(heap[x].key) - 1
  /\ Len(sub) = Len(heap[x].sub) - 1
  /\ \A l, e : HasPair(key, sub, l, e) <=> HasPair(heap[x].key, heap[x].sub, l, e) /\ l # k

\* A leaf's entries without one of them.
LEMMA RunLess ==
  ASSUME NEW g, NEW x, Run(heap[x].key, heap[x].sub, g[x].lo, g[x].hi), Interval(g, x),
         NEW i \in 1 .. Len(heap[x].key), NEW key, key = RemoveAt(heap[x].key, i),
         NEW sub, sub = RemoveAt(heap[x].sub, i),
         NEW k, k = heap[x].key[i]
  PROVE  Less(x, g, key, sub, k)
<1> DEFINE ky == heap[x].key
           sb == heap[x].sub
           lo == g[x].lo
           hi == g[x].hi
<1>1. /\ lo \in Int /\ hi \in Int /\ Run(ky, sb, lo, hi) /\ i \in 1 .. Len(ky)
      /\ Len(sb) = Len(ky)
  BY DEF Interval, Run
<1>2. key = RemoveAt(ky, i) /\ sub = RemoveAt(sb, i)
  OBVIOUS
<1> HIDE DEF ky, sb, lo, hi
<1>3. /\ Run(RemoveAt(ky, i), RemoveAt(sb, i), lo, hi)
      /\ Len(RemoveAt(ky, i)) = Len(ky) - 1
      /\ \A l, e : HasPair(RemoveAt(ky, i), RemoveAt(sb, i), l, e)
                     <=> HasPair(ky, sb, l, e) /\ l # ky[i]
  BY ONLY <1>1, RunRemove
<1>4. /\ Run(key, sub, lo, hi) /\ Len(key) = Len(ky) - 1
      /\ \A l, e : HasPair(key, sub, l, e) <=> HasPair(ky, sb, l, e) /\ l # ky[i]
  BY <1>2, <1>3
<1>5. Len(sub) = Len(sb) - 1
  BY <1>1, <1>4 DEF Run
<1> QED
  BY <1>4, <1>5 DEF ky, sb, lo, hi, Less

\* A delete from a leaf that has enough entries keeps the invariant
\* (bplustree.c:871-931).
LEMMA LeafSimpleRemoveKeeps ==
  ASSUME TreeInvariant, level < MaxLevel, NEW k \in Keys, LeafSimpleRemove(k)
  PROVE  TreeInvariant'
<1> DEFINE x == LeafFor(k)
           i == DeletePlace(k) + 1
           key == RemoveAt(heap[x].key, i)
           sub == RemoveAt(heap[x].sub, i)
<1>1. /\ CanDelete(k) /\ ~ Underfull(x, Entries)
      /\ \/ /\ heap[x].parent = Null /\ Len(heap[x].sub) = 1
            /\ heap' = Without(heap, x) /\ list' = Unlinked(x) /\ root' = Null
         \/ /\ heap[x].parent # Null \/ Len(heap[x].sub) # 1
            /\ heap' = SetNode(heap, x, key, sub) /\ root' = root /\ list' = list
      /\ contents' = Without(contents, k) /\ level' = level /\ work' = work
  BY DEF LeafSimpleRemove, DeleteLeaf
<1>2. work = Idle
  BY <1>1 DEF CanDelete
<1>3. PICK g : TreeIs(heap, Idle, root, level, list, g)
  BY <1>2, IdleState DEF TreeInvariant
<1>4. MapIs(heap, contents) /\ Sizes(heap, root)
  BY <1>2, IdleState DEF TreeInvariant
<1>5. /\ work = Idle /\ root # Null
      /\ x \in DOMAIN heap /\ heap[x].leaf
      /\ Run(heap[x].key, heap[x].sub, g[x].lo, g[x].hi) /\ Interval(g, x)
      /\ i \in 1 .. Len(heap[x].key) /\ heap[x].key[i] = k
      /\ Len(heap[x].sub) = Len(heap[x].key)
      /\ \A m \in DOMAIN heap : \A d : m # x => ~ Has(heap, m, k, d)
  BY <1>1, <1>3, DeletedIs
<1> HIDE DEF x, i
<1>6. /\ Run(key, sub, g[x].lo, g[x].hi) /\ Len(key) = Len(heap[x].key) - 1
      /\ Len(sub) = Len(heap[x].sub) - 1
      /\ \A l, e : HasPair(key, sub, l, e)
                     <=> HasPair(heap[x].key, heap[x].sub, l, e) /\ l # k
  <2>1. key = RemoveAt(heap[x].key, i) /\ sub = RemoveAt(heap[x].sub, i)
    OBVIOUS
  <2> HIDE DEF key, sub
  <2>2. Less(x, g, key, sub, k)
    BY ONLY <1>5, <2>1, RunLess
  <2> QED
    BY <2>2 DEF Less
<1>7. HeapOK(heap) /\ Shape(heap, g, root, level) /\ Links(heap, root)
      /\ Chain(list, DOMAIN heap, g)
  BY <1>3, IdleTree
<1> HIDE DEF key, sub
<1>8. CASE heap[x].parent = Null /\ Len(heap[x].sub) = 1
  <2>1. heap' = Without(heap, x) /\ list' = Unlinked(x) /\ root' = Null
    BY <1>1, <1>8
  <2>2. x = root /\ DOMAIN heap = {x} /\ level = 0
    BY <1>5, <1>7, <1>8, OrphanIsRoot
  <2>3. HeapOK(Without(heap, x)) /\ DOMAIN Without(heap, x) = DOMAIN heap \ {x}
    BY <1>7, WithoutIs
  <2>4. HeapOK(heap') /\ DOMAIN heap' = {}
    BY <2>1, <2>2, <2>3
  <2>5. Shape(heap', g, Null, 0) /\ Links(heap', Null)
    BY <2>4, EmptyShape DEF Links
  <2>6. Chain(Unlinked(x), DOMAIN heap \ {x}, g)
    <3> DEFINE D == DOMAIN heap
    <3>1. \A n \in D : Interval(g, n)
      BY <1>7, DepthIs
    <3>2. g[x].dep \in DOMAIN list
      BY <1>5, <1>7, DepthIs, MaxLevelAssumption DEF Chain
    <3>3. x \in D /\ Chain(list, D, g)
      BY <1>5, <1>7
    <3> HIDE DEF D
    <3>4. Chain(Unlinked(x), D \ {x}, g)
      BY <3>1, <3>2, <3>3, ChainUnlink
    <3> QED
      BY <3>4 DEF D
  <2>7. DOMAIN heap \ {x} = DOMAIN heap'
    BY <2>2, <2>4
  <2>8. TreeIs(heap', Idle, Null, 0, Unlinked(x), g)
    BY <2>4, <2>5, <2>6, <2>7, IdleTree
  <2>9. Sizes(heap', Null)
    BY <2>4 DEF Sizes
  <2>10. MapIs(heap', contents')
    <3>1. Len(heap[x].key) = 1
      BY <1>5, <1>8
    <3>2. \A l, e : ~ (Entry(heap, l, e) /\ l # k)
      <4>1. i = 1
        BY <1>5, <3>1
      <4>2. \A l, e : HasPair(heap[x].key, heap[x].sub, l, e) => l = k
        BY <1>5, <3>1, <4>1 DEF HasPair
      <4> QED
        BY <2>2, <4>2 DEF Entry, Has
    <3>3. \A l, e : ~ Entry(heap', l, e)
      BY <2>4 DEF Entry
    <3>4. \A l, e : Entry(heap', l, e) <=> Entry(heap, l, e) /\ l # k
      BY <3>2, <3>3
    <3> QED
      BY <1>1, <1>4, <3>4, MapRemove
  <2>11. StateOK(heap', Idle, Null, 0, Unlinked(x), contents')
    BY <2>8, <2>9, <2>10, IdleState
  <2> QED
    BY <1>1, <1>2, <2>1, <2>2, <2>11 DEF TreeInvariant
<1>9. CASE heap[x].parent # Null \/ Len(heap[x].sub) # 1
  <2>1. heap' = SetNode(heap, x, key, sub) /\ root' = root /\ list' = list
    BY <1>1, <1>9
  <2> DEFINE H == heap'
  <2>2. TreeIs(heap, Idle, root, level, list, g) /\ x \in DOMAIN heap /\ heap[x].leaf
        /\ Run(key, sub, g[x].lo, g[x].hi) /\ H = SetNode(heap, x, key, sub)
    BY <1>3, <1>5, <1>6, <2>1
  <2> HIDE DEF H
  <2>3. TreeIs(H, Idle, root, level, list, g) /\ Edited(heap, H, x, key, sub)
    BY ONLY <2>2, LeafEdit
  <2>4. /\ TreeIs(heap', Idle, root, level, list, g)
        /\ DOMAIN heap' = DOMAIN heap /\ heap'[x].leaf /\ heap'[x].key = key /\ heap'[x].sub = sub
        /\ \A m \in DOMAIN heap \ {x} : heap'[m] = heap[m]
    BY <1>5, <2>3 DEF H, Edited
  <2>5. Sizes(heap', root)
    <3>1. Fits(heap, root, x) /\ Len(heap[x].sub) \in Nat
      BY <1>4, <1>5, <1>7, NodeFields DEF Sizes
    <3>2. Len(heap[x].sub) > Half(Entries) \/ x = root
      <4>1. heap[x].parent = Null => x = root
        BY <1>5, <1>7, OrphanIsRoot, ZenonT(60)
      <4> QED
        BY <1>1, <3>1, <4>1, EntriesAssumption DEF Underfull, Half
    <3>3. Len(heap[x].sub) # 1 \/ x # root
      <4>1. x = root => heap[x].parent = Null
        BY <1>5, <1>7, OrphanIsRoot
      <4> QED
        BY <1>9, <4>1
    <3>4. Fits(heap', root, x)
      <4> DEFINE n == Len(heap[x].sub)
                 m == Len(heap'[x].sub)
      <4>1. n \in Nat /\ m = n - 1 /\ 1 <= n /\ n <= Entries /\ (n > (Entries + 1) \div 2 \/ x = root)
            /\ (n # 1 \/ x # root)
        BY <1>5, <1>6, <2>4, <3>1, <3>2, <3>3 DEF Fits, Half
      <4> HIDE DEF n, m
      <4>2. 1 <= m /\ m <= Entries /\ (x # root => m >= Entries \div 2)
        BY <4>1, EntriesAssumption
      <4> QED
        BY <2>4, <4>2 DEF m, Fits
    <3>5. \A m \in DOMAIN heap \ {x} : Fits(heap', root, m)
      BY <1>4, <2>4 DEF Sizes, Fits
    <3> QED
      BY <2>4, <3>4, <3>5 DEF Sizes
  <2>6. MapIs(heap', contents')
    <3>1. ASSUME NEW l, NEW e
          PROVE  Entry(heap', l, e) <=> Entry(heap, l, e) /\ l # k
      <4>1. \A m \in DOMAIN heap \ {x} : Has(heap', m, l, e) <=> Has(heap, m, l, e) /\ l # k
        BY <1>5, <2>4 DEF Has
      <4>2. Has(heap', x, l, e) <=> Has(heap, x, l, e) /\ l # k
        BY <1>5, <1>6, <2>4 DEF Has
      <4> QED
        BY <1>5, <2>4, <4>1, <4>2 DEF Entry
    <3> QED
      BY <1>1, <1>4, <3>1, MapRemove
  <2>7. StateOK(heap', Idle, root, level, list, contents')
    BY <2>4, <2>5, <2>6, IdleState
  <2> QED
    BY <1>1, <1>2, <2>1, <2>7 DEF TreeInvariant
<1> QED
  BY <1>8, <1>9

\* Tree H is tree h but for the contents of the nodes a and b.
PairSet(h, H, a, b, k1, s1, k2, s2) ==
  /\ HeapOK(H) /\ DOMAIN H = DOMAIN h
  /\ H[a].key = k1 /\ H[a].sub = s1 /\ H[a].leaf = h[a].leaf
  /\ H[a].parent = h[a].parent /\ H[a].idx = h[a].idx
  /\ H[b].key = k2 /\ H[b].sub = s2 /\ H[b].leaf = h[b].leaf
  /\ H[b].parent = h[b].parent /\ H[b].idx = h[b].idx
  /\ \A m \in DOMAIN h \ {a, b} : H[m] = h[m]

\* Rewriting two nodes.
LEMMA PairSetIs ==
  ASSUME NEW h, HeapOK(h), NEW a \in DOMAIN h, NEW b \in DOMAIN h, a # b,
         NEW k1 \in Seq(Keys), NEW s1 \in Seq(Item), NEW k2 \in Seq(Keys), NEW s2 \in Seq(Item),
         NEW H, H = SetNode(SetNode(h, a, k1, s1), b, k2, s2)
  PROVE  PairSet(h, H, a, b, k1, s1, k2, s2)
<1> DEFINE y == SetNode(h, a, k1, s1)
<1>1. /\ HeapOK(y) /\ DOMAIN y = DOMAIN h /\ y[a].key = k1 /\ y[a].sub = s1
      /\ y[a].leaf = h[a].leaf /\ y[a].parent = h[a].parent /\ y[a].idx = h[a].idx
      /\ \A m \in DOMAIN h \ {a} : y[m] = h[m]
  BY SetNodeIs
<1>2. H = SetNode(y, b, k2, s2)
  OBVIOUS
<1> HIDE DEF y
<1>3. /\ HeapOK(H) /\ DOMAIN H = DOMAIN y /\ H[b].key = k2 /\ H[b].sub = s2
      /\ H[b].leaf = y[b].leaf /\ H[b].parent = y[b].parent /\ H[b].idx = y[b].idx
      /\ \A m \in DOMAIN y \ {b} : H[m] = y[m]
  BY <1>1, <1>2, SetNodeIs, SMTT(60)
<1> QED
  BY <1>1, <1>3 DEF PairSet

\* The bounds of the nodes D once a and b share what x held; r may come above them.
Shares(g, D, x, a, b, s, r) ==
  [n \in D \cup {a, b, r} |->
     IF n = a THEN [lo |-> g[x].lo, hi |-> s, dep |-> g[x].dep]
     ELSE IF n = b THEN [lo |-> s, hi |-> g[x].hi, dep |-> g[x].dep]
     ELSE IF n = r THEN [lo |-> g[x].lo, hi |-> g[x].hi, dep |-> g[x].dep + 1]
     ELSE g[n]]

\* The intervals of the two halves, and of a root above them.
LEMMA SharesIs ==
  ASSUME NEW g, NEW D, NEW x, NEW a, NEW b, NEW s, NEW r, a # b, r # a, r # b,
         NEW g2, g2 = Shares(g, D, x, a, b, s, r)
  PROVE  /\ g2[a].lo = g[x].lo /\ g2[a].hi = s /\ g2[a].dep = g[x].dep
         /\ g2[b].lo = s /\ g2[b].hi = g[x].hi /\ g2[b].dep = g[x].dep
         /\ g2[r].lo = g[x].lo /\ g2[r].hi = g[x].hi /\ g2[r].dep = g[x].dep + 1
         /\ \A m \in D \ {a, b, r} : g2[m] = g[m]
BY DEF Shares

\* Leaves have no children to move.
LEMMA LeafKids ==
  ASSUME NEW h, NEW H, NEW a, NEW b,
         \A c \in {a, b} : (c \in DOMAIN h => h[c].leaf) /\ (c \in DOMAIN H => H[c].leaf),
         \A m \in DOMAIN h \cap DOMAIN H : SameLink(h, H, m)
  PROVE  KidsMoved(h, H, a, b)
<1>1. \A c \in {a, b} : c \in DOMAIN H => KidsOf(H, c)
  BY DEF KidsOf
<1>2. \A m : ~ KidOf(h, a, m) /\ ~ KidOf(h, b, m)
  BY DEF KidOf, Slot
<1> QED
  BY <1>1, <1>2 DEF KidsMoved

\* A leaf split in two.
LEMMA LeafSplits ==
  ASSUME HeapOK(heap), NEW g, NEW x \in DOMAIN heap, heap[x].leaf,
         NEW z, z = NewNode, NEW a, NEW b, (a = x /\ b = z) \/ (a = z /\ b = x),
         NEW s \in Keys, g[x].lo < s, s < g[x].hi,
         NEW k1, NEW s1, NEW k2, NEW s2, Run(k1, s1, g[x].lo, s), Run(k2, s2, s, g[x].hi),
         NEW H, H = SetNode(SetNode(With(heap, z, LeafNode(<<>>, <<>>)), a, k1, s1), b, k2, s2),
         NEW g2, g2 = Shares(g, DOMAIN heap, x, a, b, s, FreeOf(H))
  PROVE  /\ Split(heap, H, g, g2, x, z, a, b, s) /\ HeapOK(H)
         /\ g2[FreeOf(H)].lo = g[x].lo /\ g2[FreeOf(H)].hi = g[x].hi
         /\ g2[FreeOf(H)].dep = g[x].dep + 1
         /\ H[a].key = k1 /\ H[a].sub = s1 /\ H[b].key = k2 /\ H[b].sub = s2
<1>1. z \in Nat \ {0} /\ z \notin DOMAIN heap /\ x # z
  BY NewNodeIs
<1> DEFINE rec == LeafNode(<<>>, <<>>)
           h == With(heap, z, rec)
           r == FreeOf(H)
<1>2. rec.leaf = TRUE /\ rec.parent = Null /\ rec.idx = -1 /\ rec \in NodeRec
  <2>1. <<>> \in Seq(Keys) /\ <<>> \in Seq(Item)
    OBVIOUS
  <2> QED
    BY <2>1 DEF LeafNode, NodeRec, Null
<1> HIDE DEF rec
<1>3. /\ HeapOK(h) /\ DOMAIN h = DOMAIN heap \cup {z} /\ h[z] = rec
      /\ \A m \in DOMAIN heap : h[m] = heap[m]
  <2>1. /\ HeapOK(With(heap, z, rec)) /\ DOMAIN With(heap, z, rec) = DOMAIN heap \cup {z}
        /\ With(heap, z, rec)[z] = rec
        /\ \A m \in DOMAIN heap \ {z} : With(heap, z, rec)[m] = heap[m]
    <3>1. HeapOK(heap) /\ z \in Nat \ {0} /\ rec \in NodeRec
      BY <1>1, <1>2
    <3> QED
      BY ONLY <3>1, WithIs, ZenonT(60)
  <2> HIDE DEF r
  <2> QED
    BY <1>1, <2>1
<1>4. /\ a \in DOMAIN h /\ b \in DOMAIN h /\ a # b
      /\ k1 \in Seq(Keys) /\ s1 \in Seq(Item) /\ k2 \in Seq(Keys) /\ s2 \in Seq(Item)
      /\ H = SetNode(SetNode(h, a, k1, s1), b, k2, s2)
  BY <1>1, <1>3 DEF Run, rec
<1> HIDE DEF h
<1>5. PairSet(h, H, a, b, k1, s1, k2, s2)
  BY ONLY <1>3, <1>4, PairSetIs
<1>6. /\ HeapOK(H) /\ DOMAIN H = DOMAIN heap \cup {z}
      /\ H[a].key = k1 /\ H[a].sub = s1 /\ H[a].leaf = TRUE
      /\ H[b].key = k2 /\ H[b].sub = s2 /\ H[b].leaf = TRUE
      /\ H[z].parent = Null
      /\ H[x].parent = heap[x].parent /\ H[x].idx = heap[x].idx
      /\ \A m \in DOMAIN heap \ {x} : H[m] = heap[m]
  <2>1. h[x].leaf = TRUE /\ h[z].leaf = TRUE
    BY <1>1, <1>2, <1>3, NodeFields
  <2> QED
    BY <1>1, <1>2, <1>3, <1>5, <2>1 DEF PairSet
<1>7. r \notin DOMAIN heap /\ r # a /\ r # b
  BY <1>6, <1>1, FreeIs
<1>8. /\ g2[a].lo = g[x].lo /\ g2[a].hi = s /\ g2[a].dep = g[x].dep
      /\ g2[b].lo = s /\ g2[b].hi = g[x].hi /\ g2[b].dep = g[x].dep
      /\ g2[r].lo = g[x].lo /\ g2[r].hi = g[x].hi /\ g2[r].dep = g[x].dep + 1
      /\ \A m \in DOMAIN heap \ {a, b, r} : g2[m] = g[m]
  <2>1. a # b /\ r # a /\ r # b /\ g2 = Shares(g, DOMAIN heap, x, a, b, s, r)
    BY <1>4, <1>7
  <2> HIDE DEF r
  <2> QED
    BY <2>1, SharesIs
<1>9. \A m \in DOMAIN heap \ {x} : g2[m] = g[m]
  BY <1>1, <1>7, <1>8
<1>10. OwnOK(H, g2, a) /\ OwnOK(H, g2, b)
  <2>1. a \in DOMAIN H /\ b \in DOMAIN H
    BY <1>6, <1>1
  <2>2. Run(H[a].key, H[a].sub, g2[a].lo, g2[a].hi) /\ Run(H[b].key, H[b].sub, g2[b].lo, g2[b].hi)
    BY <1>6, <1>8
  <2>3. LeafOK(H, g2, a) /\ LeafOK(H, g2, b)
    BY <1>6, <2>1, <2>2, LeafRun
  <2> QED
    BY <1>6, <2>3 DEF OwnOK
<1>11. KidsMoved(heap, H, a, b)
  <2>1. \A c \in {a, b} : (c \in DOMAIN heap => heap[c].leaf) /\ (c \in DOMAIN H => H[c].leaf)
    BY <1>1, <1>6
  <2>2. \A m \in DOMAIN heap \cap DOMAIN H : SameLink(heap, H, m)
    BY <1>6 DEF SameLink
  <2> QED
    BY ONLY <2>1, <2>2, LeafKids
<1>12. heap[x].leaf = TRUE
  BY NodeFields
<1>13. \A m \in DOMAIN heap \ {x} : Same(heap, H, m)
  BY <1>6 DEF Same
<1>14. Split(heap, H, g, g2, x, z, a, b, s)
  BY <1>1, <1>6, <1>8, <1>9, <1>10, <1>11, <1>12, <1>13 DEF Split
<1> QED
  BY <1>6, <1>8, <1>14

\* Half a full leaf, or non-leaf, and what is left of it and one more.
LEMMA HalfIs ==
  ASSUME NEW n \in Nat, n >= 2
  PROVE  /\ Half(n) \in Nat /\ Half(n) >= 1 /\ Half(n) <= n
         /\ Half(n) >= n \div 2 /\ n + 1 - Half(n) >= n \div 2 /\ n + 1 - Half(n) >= 1
         /\ n \div 2 \in Nat /\ 2 * Half(n) - 1 <= n
         /\ n >= 3 => Half(n) >= 2 /\ n + 1 - Half(n) >= 2
BY DEF Half

\* A full leaf and the new entry, cut in two.
CutAt(key, sub, k1, s1, k2, s2, m, n, s) ==
  /\ k1 = SubSeq(key, 1, m) /\ s1 = SubSeq(sub, 1, m)
  /\ k2 = SubSeq(key, m + 1, n) /\ s2 = SubSeq(sub, m + 1, n)
  /\ s = key[m + 1]

RunsOf(key, sub, k1, s1, k2, s2, lo, hi, m, n, s) ==
  /\ Len(s1) = m /\ Len(s2) = n - m
  /\ Run(k1, s1, lo, s) /\ Run(k2, s2, s, hi)
  /\ s \in Keys /\ lo < s /\ s < hi
  /\ \A l, e : HasPair(key, sub, l, e) <=> HasPair(k1, s1, l, e) \/ HasPair(k2, s2, l, e)

\* The two halves of a leaf's entries.
LEMMA RunCutAt ==
  ASSUME NEW key, NEW sub, NEW lo \in Int, NEW hi \in Int, Run(key, sub, lo, hi),
         NEW m \in 1 .. Len(key) - 1, NEW n, n = Len(key),
         NEW k1, NEW s1, NEW k2, NEW s2, NEW s, CutAt(key, sub, k1, s1, k2, s2, m, n, s)
  PROVE  RunsOf(key, sub, k1, s1, k2, s2, lo, hi, m, n, s)
<1>1. m \in 0 .. Len(key) - 1 /\ m > 0
  OBVIOUS
<1>2. /\ Run(SubSeq(key, 1, m), SubSeq(sub, 1, m), lo, key[m + 1])
      /\ Run(SubSeq(key, m + 1, n), SubSeq(sub, m + 1, n), key[m + 1], hi)
      /\ Len(SubSeq(key, 1, m)) = m /\ Len(SubSeq(key, m + 1, n)) = n - m
      /\ key[m + 1] \in Keys /\ lo < key[m + 1] /\ key[m + 1] < hi
      /\ \A l, e : HasPair(key, sub, l, e)
                     <=> \/ HasPair(SubSeq(key, 1, m), SubSeq(sub, 1, m), l, e)
                         \/ HasPair(SubSeq(key, m + 1, n), SubSeq(sub, m + 1, n), l, e)
  <2>1. Parts(key, sub, lo, hi, m, n)
    BY <1>1, RunCut
  <2> QED
    BY ONLY <1>1, <2>1 DEF Parts
<1>3. /\ Run(k1, s1, lo, s) /\ Run(k2, s2, s, hi) /\ Len(k1) = m /\ Len(k2) = n - m
      /\ s \in Keys /\ lo < s /\ s < hi
      /\ \A l, e : HasPair(key, sub, l, e) <=> HasPair(k1, s1, l, e) \/ HasPair(k2, s2, l, e)
  BY <1>2 DEF CutAt
<1>4. Len(s1) = m /\ Len(s2) = n - m
  BY <1>3 DEF Run
<1> QED
  BY <1>3, <1>4 DEF RunsOf

\* A put that splits its leaf keeps the invariant: the new leaf is the
\* parent's once parent_node_build is done (bplustree.c:473-587).
LEMMA PutSplitKeeps ==
  ASSUME TreeInvariant, level < MaxLevel, NEW k \in Keys, NEW d \in DataFor[k], PutSplit(k, d)
  PROVE  TreeInvariant'
<1> DEFINE x == LeafFor(k)
           r == KeyBinarySearch(heap[x].key, k)
           ins == - r - 1
           m == Half(Entries)
           key == InsertAt(heap[x].key, ins + 1, k)
           sub == InsertAt(heap[x].sub, ins + 1, d)
           z == NewNode
           a == IF ins < m THEN z ELSE x
           b == IF ins < m THEN x ELSE z
           k1 == SubSeq(key, 1, m)
           s1 == SubSeq(sub, 1, m)
           k2 == SubSeq(key, m + 1, Entries + 1)
           s2 == SubSeq(sub, m + 1, Entries + 1)
           s == key[m + 1]
           w == [op |-> "build", left |-> a, right |-> b, key |-> s]
<1>1. /\ work = Idle /\ root # Null /\ r < 0 /\ Len(heap[x].key) = Entries
      /\ heap' = SetNode(SetNode(With(heap, z, LeafNode(<<>>, <<>>)), a, k1, s1), b, k2, s2)
      /\ list' = IF ins < m THEN LinkBefore(z, x) ELSE LinkAfter(z, x)
      /\ work' = w /\ Recorded(k, d) /\ root' = root /\ level' = level
  BY DEF PutSplit
<1>2. PICK g : TreeIs(heap, Idle, root, level, list, g)
  BY <1>1, IdleState DEF TreeInvariant
<1>3. MapIs(heap, contents) /\ Sizes(heap, root)
  BY <1>1, IdleState DEF TreeInvariant
<1>4. HeapOK(heap) /\ Shape(heap, g, root, level) /\ Links(heap, root)
      /\ Chain(list, DOMAIN heap, g)
  BY <1>2, IdleTree
<1>5. /\ x \in DOMAIN heap /\ heap[x].leaf
      /\ Run(heap[x].key, heap[x].sub, g[x].lo, g[x].hi)
      /\ Interval(g, x) /\ g[x].lo <= k /\ k < g[x].hi
      /\ \A n \in DOMAIN heap : \A e : n # x => ~ Has(heap, n, k, e)
      /\ Len(heap[x].sub) = Len(heap[x].key)
  BY <1>1, <1>2, LeafOf
<1> HIDE DEF x
<1>6. /\ Run(key, sub, g[x].lo, g[x].hi) /\ Len(key) = Entries + 1
      /\ \A l, e : HasPair(key, sub, l, e)
                     <=> HasPair(heap[x].key, heap[x].sub, l, e) \/ (l = k /\ e = d)
      /\ \A e : ~ HasPair(heap[x].key, heap[x].sub, k, e)
  <2> DEFINE ky == heap[x].key
             sb == heap[x].sub
             lo == g[x].lo
             hi == g[x].hi
             i == ins + 1
  <2>1. d \in Item
    BY DatumIs
  <2>2. ky \in Seq(Int) /\ Ascending(ky) /\ k \in Int
    BY <1>5, KeyIsInt, TreeKeysAssumption DEF Run
  <2>3. KeyBinarySearch(ky, k) \in Int
    <3> HIDE DEF ky
    <3> QED
      BY <2>2, SearchSays
  <2>4. i = - KeyBinarySearch(ky, k)
    <3> DEFINE q == KeyBinarySearch(ky, k)
    <3>1. i = - q - 1 + 1 /\ q \in Int
      BY <2>3
    <3> HIDE DEF q, i
    <3>2. i = - q
      BY <3>1
    <3> QED
      BY <3>2 DEF q
  <2>5. /\ lo \in Int /\ hi \in Int /\ Run(ky, sb, lo, hi) /\ k \in Keys /\ lo <= k /\ k < hi
        /\ d \in Item /\ KeyBinarySearch(ky, k) < 0 /\ i = - KeyBinarySearch(ky, k)
    BY <1>1, <1>5, <2>1, <2>4 DEF Interval
  <2>6. key = InsertAt(ky, i, k) /\ sub = InsertAt(sb, i, d) /\ Len(ky) = Entries
    BY <1>1
  <2> HIDE DEF ky, sb, lo, hi, i, key, sub
  <2>7. RunWith(ky, sb, lo, hi, i, k, d)
    BY ONLY <2>5, RunInsert
  <2> QED
    BY <2>6, <2>7 DEF RunWith, ky, sb, lo, hi
<1>7. (a = x /\ b = z) \/ (a = z /\ b = x)
  OBVIOUS
<1>8. (a = z => list' = LinkBefore(z, x)) /\ (b = z => list' = LinkAfter(z, x))
  BY <1>1, <1>4, <1>5, NewNodeIs
<1> DEFINE e1 == Entries + 1
<1>9. CutAt(key, sub, k1, s1, k2, s2, m, e1, s)
  BY DEF CutAt
<1> HIDE DEF key, sub, r, ins, z, a, b, k1, k2, s1, s2, s
<1>10. /\ RunsOf(key, sub, k1, s1, k2, s2, g[x].lo, g[x].hi, m, e1, s)
       /\ Len(s1) = m /\ Len(s2) = e1 - m
  <2> DEFINE lo == g[x].lo
             hi == g[x].hi
  <2>3. /\ lo \in Int /\ hi \in Int /\ Run(key, sub, lo, hi)
        /\ m \in 1 .. Len(key) - 1 /\ e1 = Len(key)
    <3>1. m \in Nat /\ m >= 1 /\ m <= Entries
      BY EntriesAssumption, HalfIs
    <3>2. m \in 1 .. Entries
      <4> HIDE DEF m
      <4> QED
        BY <3>1, EntriesAssumption
    <3>3. Len(key) = Entries + 1 /\ Len(key) - 1 = Entries
      BY <1>6, EntriesAssumption
    <3> HIDE DEF m
    <3> QED
      BY <1>5, <1>6, <3>2, <3>3 DEF Interval
  <2>1. /\ lo \in Int /\ hi \in Int /\ Run(key, sub, lo, hi)
        /\ m \in 1 .. Len(key) - 1 /\ e1 = Len(key)
        /\ CutAt(key, sub, k1, s1, k2, s2, m, e1, s)
    BY <1>9, <2>3
  <2> HIDE DEF lo, hi, m, e1
  <2>2. RunsOf(key, sub, k1, s1, k2, s2, lo, hi, m, e1, s)
    BY ONLY <2>1, RunCutAt
  <2> QED
    BY <2>2 DEF lo, hi, RunsOf
<1> DEFINE H == heap'
           g2 == Shares(g, DOMAIN heap, x, a, b, s, FreeOf(H))
<1>11. /\ HeapOK(heap) /\ x \in DOMAIN heap /\ heap[x].leaf /\ z = NewNode
       /\ ((a = x /\ b = z) \/ (a = z /\ b = x))
       /\ s \in Keys /\ g[x].lo < s /\ s < g[x].hi
       /\ Run(k1, s1, g[x].lo, s) /\ Run(k2, s2, s, g[x].hi)
       /\ H = SetNode(SetNode(With(heap, z, LeafNode(<<>>, <<>>)), a, k1, s1), b, k2, s2)
       /\ g2 = Shares(g, DOMAIN heap, x, a, b, s, FreeOf(H))
  BY <1>1, <1>4, <1>5, <1>7, <1>10 DEF RunsOf, z
<1> HIDE DEF H, g2
<1>12. /\ Split(heap, H, g, g2, x, z, a, b, s) /\ HeapOK(H)
       /\ g2[FreeOf(H)].lo = g[x].lo /\ g2[FreeOf(H)].hi = g[x].hi
       /\ g2[FreeOf(H)].dep = g[x].dep + 1
       /\ H[a].key = k1 /\ H[a].sub = s1 /\ H[b].key = k2 /\ H[b].sub = s2
  BY ONLY <1>11, LeafSplits
<1>13. TreeIs(H, w, root, level, list', g2)
  <2> DEFINE ls == list'
  <2>1. w.op = "build" /\ w.left = a /\ w.right = b /\ w.key = s
    OBVIOUS
  <2>2. (a = z => ls = LinkBefore(z, x)) /\ (b = z => ls = LinkAfter(z, x)) /\ level < MaxLevel
    BY <1>8
  <2> HIDE DEF w, ls
  <2>4. /\ HeapOK(heap) /\ Shape(heap, g, root, level) /\ Links(heap, root)
        /\ Chain(list, DOMAIN heap, g) /\ level < MaxLevel /\ HeapOK(H)
        /\ Split(heap, H, g, g2, x, z, a, b, s)
        /\ g2[FreeOf(H)].lo = g[x].lo /\ g2[FreeOf(H)].hi = g[x].hi
        /\ g2[FreeOf(H)].dep = g[x].dep + 1
        /\ w.op = "build" /\ w.left = a /\ w.right = b /\ w.key = s
        /\ (a = z => ls = LinkBefore(z, x)) /\ (b = z => ls = LinkAfter(z, x))
    BY <1>4, <1>12, <2>1, <2>2
  <2>3. TreeIs(H, w, root, level, ls, g2)
    BY ONLY <2>4, SplitStep
  <2> QED
    BY <2>3 DEF ls
<1>14. /\ DOMAIN H = DOMAIN heap \cup {z} /\ x # z /\ a # b /\ z \notin DOMAIN heap
       /\ \A n \in DOMAIN heap \ {x} : Same(heap, H, n)
       /\ H[a].leaf /\ H[b].leaf
  BY <1>5, <1>12 DEF Split
<1>15. Sizes(H, RootOf(H, w, root))
  <2> DEFINE rt == RootOf(H, w, root)
  <2>1. \A n \in {a, b} : Fits(H, rt, n)
    <3>1. Len(H[a].sub) = m /\ Len(H[b].sub) = e1 - m
      BY <1>10, <1>12
    <3>2. \A n \in {m, e1 - m} : 1 <= n /\ n <= Entries /\ n >= Entries \div 2
      <4>1. /\ m \in Nat /\ m >= 1 /\ m <= Entries /\ m >= Entries \div 2
            /\ Entries + 1 - m >= Entries \div 2 /\ Entries + 1 - m >= 1
        BY EntriesAssumption, HalfIs
      <4> DEFINE half == Entries \div 2
      <4> HIDE DEF m, half
      <4>2. /\ 1 <= m /\ m <= Entries /\ m >= half
            /\ 1 <= e1 - m /\ e1 - m <= Entries /\ e1 - m >= half
        BY <4>1, EntriesAssumption DEF half
      <4> QED
        BY <4>2 DEF half
    <3> HIDE DEF m, e1, rt
    <3> QED
      BY <1>14, <3>1, <3>2 DEF Fits
  <2>2. \A n \in DOMAIN heap \ {x} : Fits(H, rt, n)
    <3>1. ASSUME NEW n \in DOMAIN heap, n # x PROVE Fits(H, rt, n)
      <4>1. n # root \/ rt = root \/ (n = root /\ rt # root)
        OBVIOUS
      <4>2. Fits(heap, root, n) /\ Same(heap, H, n)
        BY <1>3, <1>14, <3>1 DEF Sizes
      <4>3. n = root => rt = root
        <5>1. n = root => ~ Tall(H, w)
          <6>1. SUFFICES ASSUME n = root PROVE ~ Tall(H, w)
            OBVIOUS
          <6>2. heap[x].parent # Null
            BY <1>4, <1>5, <3>1, <6>1, OrphanIsRoot, ZenonT(60)
          <6>3. H[x].parent = heap[x].parent
            <7>1. heap[x].leaf /\ x \in DOMAIN H
              BY <1>5, <1>14
            <7>2. \A i : ~ Slot(heap, a, i, x) /\ ~ Slot(heap, b, i, x)
              BY <1>5, <1>7, <1>14 DEF Slot
            <7>3. KidsMoved(heap, H, a, b)
              BY <1>12 DEF Split
            <7> QED
              BY <1>5, <7>1, <7>2, <7>3 DEF KidsMoved, KidOf, SameLink
          <6>4. H[z].parent = Null
            BY <1>12 DEF Split
          <6>5. w.left = a /\ w.right = b
            OBVIOUS
          <6> QED
            BY <1>7, <6>2, <6>3, <6>4, <6>5 DEF Tall, UpperOf
        <5> QED
          BY <5>1 DEF RootOf
      <4> QED
        BY <4>2, <4>3 DEF Fits, Same
    <3> QED
      BY <3>1
  <2> HIDE DEF rt
  <2>3. Sizes(H, rt)
    BY <1>7, <1>14, <2>1, <2>2 DEF Sizes
  <2> QED
    BY <2>3 DEF rt
<1>16. MapIs(H, contents')
  <2>1. \A e : ~ Entry(heap, k, e)
    BY <1>5, <1>6 DEF Entry, Has
  <2>2. ASSUME NEW l, NEW e
        PROVE  Entry(H, l, e) <=> Entry(heap, l, e) \/ (l = k /\ e = d)
    <3>1. \A n \in DOMAIN heap \ {x} : Has(H, n, l, e) <=> Has(heap, n, l, e)
      BY <1>14 DEF Has, Same
    <3>2. Has(H, a, l, e) \/ Has(H, b, l, e) <=> Has(heap, x, l, e) \/ (l = k /\ e = d)
      BY <1>5, <1>6, <1>10, <1>12, <1>14 DEF Has, RunsOf
    <3> QED
      BY <1>5, <1>7, <1>14, <3>1, <3>2 DEF Entry
  <2>3. contents' = With(contents, k, [first |-> IF k \in DOMAIN contents THEN contents[k].first ELSE d,
                                       last |-> d])
    BY <1>1 DEF Recorded
  <2> QED
    BY <1>3, <2>1, <2>2, <2>3, MapInsert
<1> HIDE DEF w
<1>17. StateOK(H, w, root, level, list', contents')
  BY <1>13, <1>15, <1>16 DEF StateOK
<1> QED
  BY <1>1, <1>17 DEF TreeInvariant, H

-----------------------------------------------------------------------------
(***************************************************************************)
(* Leaves that borrow and merge.                                           *)
(***************************************************************************)

\* The neighbour leaf_sibling_select and non_leaf_sibling_select choose for n
\* is the child of the same parent on that side.
LEMMA SiblingIs ==
  ASSUME NEW v, NEW g, NEW rt, NEW lv, HeapOK(v), Shape(v, g, rt, lv), Links(v, rt),
         NEW D, D = DOMAIN v, Chain(list, D, g), lv < MaxLevel,
         NEW p, NEW j, NEW n, Slot(v, p, j, n), Len(v[p].sub) >= 2,
         heap[n].idx = v[n].idx, heap[n].parent = v[n].parent, heap[p].sub = v[p].sub
  PROVE  /\ BorrowsFromLeft(n) => Slot(v, p, j - 1, Prev(n))
         /\ ~ BorrowsFromLeft(n) => Slot(v, p, j + 1, NextOf(n))
<1>1. /\ p \in DOMAIN v /\ ~ v[p].leaf /\ j \in 1 .. Len(v[p].sub) /\ v[p].sub[j] = n
      /\ n \in DOMAIN v /\ g[n].lo = Bound(v, g, p, j - 1) /\ g[n].hi = Bound(v, g, p, j)
      /\ g[p].dep = g[n].dep + 1 /\ g[n].dep \in Nat
  BY SlotIs
<1>2. heap[n].parent = p /\ heap[n].idx = j - 2
  BY SlotUnique
<1>3. Len(v[p].sub) \in Nat
  BY <1>1, NodeFields
<1>4. \A m \in D : Interval(g, m)
  BY DepthIs
<1>5. g[n].dep \in DOMAIN list
  BY <1>1, DepthIs, MaxLevelAssumption DEF Chain
<1>6. InnerOK(v, g, p)
  BY <1>1, DepthIs DEF OwnOK
<1> DEFINE len == Len(v[p].sub)
<1>7. ASSUME j > 1 PROVE Slot(v, p, j - 1, Prev(n))
  <2> DEFINE i == j - 1
             a == v[p].sub[i]
  <2>1. i \in 1 .. len /\ i \in Int /\ j = i + 1
    BY <1>1, <1>3, <1>7
  <2>2. Slot(v, p, i, a)
    BY <1>1, <2>1 DEF Slot
  <2> HIDE DEF i, len
  <2>3. a \in DOMAIN v /\ g[a].hi = Bound(v, g, p, i) /\ g[p].dep = g[a].dep + 1 /\ g[a].dep \in Nat
    BY <2>2, SlotIs, SMTT(60)
  <2>4. g[n].lo = Bound(v, g, p, i)
    BY <1>1 DEF i
  <2>5. g[a].dep = g[n].dep
    BY <1>1, <2>3, SMTT(60)
  <2>6. a \in D /\ n \in D /\ g[a].dep \in DOMAIN list /\ g[a].hi = g[n].lo
    BY <1>1, <1>5, <2>3, <2>4, <2>5
  <2>7. Prev(n) = a
    BY <1>4, <2>5, <2>6, NeighboursAre
  <2> QED
    BY <2>2, <2>7 DEF i
<1>8. ASSUME j < Len(v[p].sub) PROVE Slot(v, p, j + 1, NextOf(n))
  <2> DEFINE i == j + 1
             b == v[p].sub[i]
  <2>1. i \in 1 .. len /\ i \in Int /\ i - 1 = j
    BY <1>1, <1>3, <1>8
  <2>2. Slot(v, p, i, b)
    BY <1>1, <2>1 DEF Slot
  <2> HIDE DEF i, len
  <2>3. b \in DOMAIN v /\ g[b].lo = Bound(v, g, p, i - 1) /\ g[p].dep = g[b].dep + 1 /\ g[b].dep \in Nat
    BY <2>2, SlotIs, SMTT(60)
  <2>4. g[b].lo = Bound(v, g, p, j)
    BY <2>1, <2>3
  <2>5. g[b].dep = g[n].dep
    BY <1>1, <2>3, SMTT(60)
  <2>6. b \in D /\ n \in D /\ g[n].hi = g[b].lo
    BY <1>1, <2>3, <2>4
  <2>7. NextOf(n) = b
    BY <1>4, <1>5, <2>5, <2>6, NeighboursAre
  <2> QED
    BY <2>2, <2>7 DEF i
<1>9. BorrowsFromLeft(n) => j > 1
  <2>1. SUFFICES ASSUME ~ (j > 1) PROVE ~ BorrowsFromLeft(n)
    OBVIOUS
  <2>3. len \in Nat /\ len >= 2 /\ j \in 1 .. len /\ ~ (j > 1) /\ len = Len(heap[p].sub)
    BY <1>1, <1>3, <2>1
  <2>4. j - 2 = -1 /\ len - 2 # -1
    <3> HIDE DEF len
    <3>1. j = 1 /\ len \in Int /\ len >= 2
      BY ONLY <2>3
    <3>2. j - 2 = -1
      BY ONLY <3>1
    <3>3. len - 2 # -1
      BY ONLY <3>1
    <3> QED
      BY ONLY <3>2, <3>3
  <2>2. heap[n].idx = -1 /\ Len(heap[p].sub) - 2 # -1
    BY <1>2, <2>3, <2>4
  <2> QED
    BY <1>2, <2>2 DEF BorrowsFromLeft
<1>10. ~ BorrowsFromLeft(n) => j < Len(v[p].sub)
  <2>1. SUFFICES ASSUME ~ (j < Len(v[p].sub)) PROVE BorrowsFromLeft(n)
    OBVIOUS
  <2>2. heap[n].idx = Len(heap[p].sub) - 2 /\ heap[n].idx # -1
    BY <1>1, <1>2, <1>3, <2>1
  <2> QED
    BY <1>2, <2>2 DEF BorrowsFromLeft
<1> QED
  BY <1>7, <1>8, <1>9, <1>10

\* Another separator in p.
NewSeparator(h, H, p, i, s) ==
  /\ HeapOK(H) /\ DOMAIN H = DOMAIN h
  /\ H[p].leaf = h[p].leaf /\ H[p].sub = h[p].sub
  /\ H[p].parent = h[p].parent /\ H[p].idx = h[p].idx
  /\ Len(H[p].key) = Len(h[p].key) /\ H[p].key[i + 1] = s
  /\ \A q \in 1 .. Len(h[p].key) : q # i + 1 => H[p].key[q] = h[p].key[q]
  /\ \A m \in DOMAIN h \ {p} : H[m] = h[m]

\* Setting a key of the parent.
LEMMA SeparatorIs ==
  ASSUME NEW h, HeapOK(h), NEW p \in DOMAIN h, NEW i, i + 1 \in 1 .. Len(h[p].key),
         NEW s \in Keys, NEW H, H = SetSeparator(h, p, i, s)
  PROVE  NewSeparator(h, H, p, i, s)
<1> DEFINE q == i + 1
           key == [h[p].key EXCEPT ![q] = s]
           rec == [leaf |-> h[p].leaf, key |-> key, sub |-> h[p].sub,
                   parent |-> h[p].parent, idx |-> h[p].idx]
<1>1. /\ h[p] = [leaf |-> h[p].leaf, key |-> h[p].key, sub |-> h[p].sub,
                 parent |-> h[p].parent, idx |-> h[p].idx]
      /\ h[p].leaf \in BOOLEAN /\ h[p].key \in Seq(Keys) /\ h[p].sub \in Seq(Item)
      /\ h[p].parent \in Nat /\ h[p].idx \in Int
  BY NodeFields
<1>2. H = [h EXCEPT ![p] = [h[p] EXCEPT !.key = key]]
  BY DEF SetSeparator
<1> HIDE DEF q
<1>3. /\ key \in Seq(Keys) /\ Len(key) = Len(h[p].key) /\ key[q] = s
      /\ \A r \in 1 .. Len(h[p].key) : r # q => key[r] = h[p].key[r]
  <2> DEFINE k == h[p].key
  <2>1. k \in Seq(Keys) /\ q \in 1 .. Len(k)
    BY <1>1 DEF q
  <2> HIDE DEF k
  <2>2. /\ [k EXCEPT ![q] = s] \in Seq(Keys) /\ Len([k EXCEPT ![q] = s]) = Len(k)
        /\ [k EXCEPT ![q] = s][q] = s
        /\ \A r \in 1 .. Len(k) : r # q => [k EXCEPT ![q] = s][r] = k[r]
    BY <2>1
  <2> QED
    BY <2>2 DEF k
<1> HIDE DEF key
<1>4. [h[p] EXCEPT !.key = key] = rec
  BY <1>1
<1>5. rec \in NodeRec /\ rec.leaf = h[p].leaf /\ rec.key = key /\ rec.sub = h[p].sub
      /\ rec.parent = h[p].parent /\ rec.idx = h[p].idx
  BY <1>1, <1>3 DEF NodeRec
<1> HIDE DEF rec
<1>6. DOMAIN H = DOMAIN h /\ H[p] = rec /\ \A m \in DOMAIN h \ {p} : H[m] = h[m]
  BY <1>2, <1>4
<1>7. HeapOK(H)
  BY <1>5, <1>6 DEF HeapOK
<1> QED
  BY <1>3, <1>5, <1>6, <1>7 DEF NewSeparator, q

\* Two neighbouring runs share their entries out anew, with s between them.
Reshared(ka, sa, kb, sb, k1, s1, k2, s2, lo, hi, n1, n2, s) ==
  /\ Len(s1) = n1 /\ Len(s2) = n2
  /\ Run(k1, s1, lo, s) /\ Run(k2, s2, s, hi)
  /\ s \in Keys /\ lo < s /\ s < hi
  /\ \A l, e : HasPair(k1, s1, l, e) \/ HasPair(k2, s2, l, e)
                 <=> HasPair(ka, sa, l, e) \/ HasPair(kb, sb, l, e)

\* The last entry of the left one becomes the first of the right one.
LEMMA BorrowLast ==
  ASSUME NEW lo \in Int, NEW mid \in Int, NEW hi \in Int, lo < mid, mid < hi,
         NEW ka, NEW sa, NEW kb, NEW sb, Run(ka, sa, lo, mid), Run(kb, sb, mid, hi),
         Len(ka) >= 2,
         NEW k1, k1 = Front(ka), NEW s1, s1 = Front(sa),
         NEW k2, k2 = <<Last(ka)>> \o kb, NEW s2, s2 = <<Last(sa)>> \o sb,
         NEW s, s = Last(ka),
         NEW n1, n1 = Len(sa) - 1, NEW n2, n2 = Len(sb) + 1
  PROVE  Reshared(ka, sa, kb, sb, k1, s1, k2, s2, lo, hi, n1, n2, s)
<1> DEFINE n == Len(ka)
           m == n - 1
<1>1. /\ ka \in Seq(Keys) /\ sa \in Seq(Item) /\ Len(sa) = n /\ n \in Nat /\ n >= 2
      /\ kb \in Seq(Keys) /\ sb \in Seq(Item) /\ Len(sb) = Len(kb) /\ Len(kb) \in Nat
  BY KeyIsInt DEF Run
<1>2. m \in 0 .. n - 1 /\ m \in Int /\ m + 1 = n /\ m > 0
  BY <1>1
<1>3. /\ k1 = SubSeq(ka, 1, m) /\ <<Last(ka)>> = SubSeq(ka, n, n) /\ s = ka[n]
      /\ s1 = SubSeq(sa, 1, m) /\ <<Last(sa)>> = SubSeq(sa, n, n)
  <2>1. Len(ka) >= 1 /\ Len(sa) >= 1
    BY <1>1
  <2>2. k1 = SubSeq(ka, 1, m) /\ <<Last(ka)>> = SubSeq(ka, n, n) /\ s = ka[n]
    BY <1>1, <2>1, EndsAre
  <2>3. s1 = SubSeq(sa, 1, Len(sa) - 1) /\ <<Last(sa)>> = SubSeq(sa, Len(sa), Len(sa))
    BY <1>1, <2>1, EndsAre
  <2> QED
    BY <1>1, <2>2, <2>3
<1> DEFINE kl == SubSeq(ka, n, n)
           sl == SubSeq(sa, n, n)
<1>4. /\ Run(k1, s1, lo, s) /\ Run(kl, sl, s, mid) /\ Len(k1) = m /\ Len(kl) = 1
      /\ s \in Keys /\ lo < s /\ s < mid
      /\ \A l, e : HasPair(ka, sa, l, e) <=> HasPair(k1, s1, l, e) \/ HasPair(kl, sl, l, e)
  <2>1. m + 1 = n /\ n - m = 1
    BY <1>1, <1>2
  <2> HIDE DEF n, m
  <2>2. m \in 0 .. Len(ka) - 1 /\ n = Len(ka)
    BY <1>2 DEF n
  <2>3. /\ Run(SubSeq(ka, 1, m), SubSeq(sa, 1, m), lo, ka[m + 1])
        /\ Run(SubSeq(ka, m + 1, n), SubSeq(sa, m + 1, n), ka[m + 1], mid)
        /\ Len(SubSeq(ka, 1, m)) = m /\ Len(SubSeq(ka, m + 1, n)) = n - m
        /\ ka[m + 1] \in Keys /\ lo < ka[m + 1] /\ ka[m + 1] < mid
        /\ \A l, e : HasPair(ka, sa, l, e)
                       <=> \/ HasPair(SubSeq(ka, 1, m), SubSeq(sa, 1, m), l, e)
                           \/ HasPair(SubSeq(ka, m + 1, n), SubSeq(sa, m + 1, n), l, e)
    <3>1. Parts(ka, sa, lo, mid, m, n)
      BY <1>2, <2>2, RunCut
    <3> QED
      BY ONLY <1>2, <3>1 DEF Parts
  <2> QED
    BY <1>3, <2>1, <2>3
<1> HIDE DEF kl, sl
<1>5. k2 = kl \o kb /\ s2 = sl \o sb
  BY <1>3 DEF kl, sl
<1>6. s \in Int /\ s <= mid /\ mid <= hi /\ s < hi
  BY <1>4, TreeKeysAssumption
<1>7. /\ Run(k2, s2, s, hi) /\ Len(k2) = 1 + Len(kb)
      /\ \A l, e : HasPair(k2, s2, l, e) <=> HasPair(kl, sl, l, e) \/ HasPair(kb, sb, l, e)
  <2>1. /\ Run(kl \o kb, sl \o sb, s, hi) /\ Len(kl \o kb) = Len(kl) + Len(kb)
        /\ \A l, e : HasPair(kl \o kb, sl \o sb, l, e)
                       <=> HasPair(kl, sl, l, e) \/ HasPair(kb, sb, l, e)
    BY <1>4, <1>6, RunJoin
  <2> QED
    BY <1>4, <1>5, <2>1
<1>8. Len(s1) = n1 /\ Len(s2) = n2
  <2>1. Len(s1) = Len(k1) /\ Len(s2) = Len(k2)
    BY <1>4, <1>7 DEF Run
  <2> QED
    BY <1>1, <1>4, <1>7, <2>1
<1> QED
  BY <1>4, <1>6, <1>7, <1>8 DEF Reshared

\* The first entry of the right run becomes the last of the left one.
LEMMA BorrowFirst ==
  ASSUME NEW lo \in Int, NEW mid \in Int, NEW hi \in Int, lo < mid, mid < hi,
         NEW ka, NEW sa, NEW kb, NEW sb, Run(ka, sa, lo, mid), Run(kb, sb, mid, hi),
         Len(kb) >= 2,
         NEW k1, k1 = Append(ka, Head(kb)), NEW s1, s1 = Append(sa, Head(sb)),
         NEW k2, k2 = Tail(kb), NEW s2, s2 = Tail(sb), NEW s, s = kb[2],
         NEW n1, n1 = Len(sa) + 1, NEW n2, n2 = Len(sb) - 1
  PROVE  Reshared(ka, sa, kb, sb, k1, s1, k2, s2, lo, hi, n1, n2, s)
<1> DEFINE n == Len(kb)
<1>1. /\ ka \in Seq(Keys) /\ sa \in Seq(Item) /\ Len(sa) = Len(ka) /\ Len(ka) \in Nat
      /\ kb \in Seq(Keys) /\ sb \in Seq(Item) /\ Len(sb) = n /\ n \in Nat /\ n >= 2
  BY KeyIsInt DEF Run
<1> DEFINE kl == SubSeq(kb, 1, 1)
           sl == SubSeq(sb, 1, 1)
<1>2. /\ k2 = SubSeq(kb, 2, n) /\ s2 = SubSeq(sb, 2, n) /\ kl = <<Head(kb)>> /\ sl = <<Head(sb)>>
      /\ Head(kb) \in Keys /\ Head(sb) \in Item
  <2>1. Len(kb) >= 1 /\ Len(sb) >= 1
    BY <1>1
  <2>2. k2 = SubSeq(kb, 2, n) /\ kl = <<Head(kb)>> /\ Head(kb) \in Keys
    BY <1>1, <2>1, EndsAre
  <2>3. s2 = SubSeq(sb, 2, Len(sb)) /\ sl = <<Head(sb)>> /\ Head(sb) \in Item
    BY <1>1, <2>1, EndsAre
  <2> QED
    BY <1>1, <2>2, <2>3
<1>3. k1 = ka \o kl /\ s1 = sa \o sl
  <2>1. k1 = ka \o <<Head(kb)>>
    BY <1>1, <1>2, SMTT(60)
  <2>2. s1 = sa \o <<Head(sb)>>
    <3> DEFINE e == Head(sb)
    <3>1. e \in Item /\ sa \in Seq(Item) /\ s1 = Append(sa, e)
      BY <1>1, <1>2
    <3> HIDE DEF e
    <3>2. Append(sa, e) = sa \o <<e>>
      BY ONLY <3>1
    <3> QED
      BY <3>1, <3>2 DEF e
  <2> HIDE DEF kl, sl
  <2> QED
    BY <1>2, <2>1, <2>2
<1>4. /\ Run(kl, sl, mid, s) /\ Run(k2, s2, s, hi) /\ Len(kl) = 1 /\ Len(k2) = n - 1
      /\ s \in Keys /\ mid < s /\ s < hi
      /\ \A l, e : HasPair(kb, sb, l, e) <=> HasPair(kl, sl, l, e) \/ HasPair(k2, s2, l, e)
  <2> DEFINE m == 1
             m1 == m + 1
  <2>1. m \in 0 .. Len(kb) - 1 /\ m > 0 /\ n = Len(kb)
    BY <1>1
  <2>4. m1 = 2 /\ m = 1
    OBVIOUS
  <2> HIDE DEF m, n
  <2>2. /\ Run(SubSeq(kb, 1, m), SubSeq(sb, 1, m), mid, kb[m + 1])
        /\ Run(SubSeq(kb, m + 1, n), SubSeq(sb, m + 1, n), kb[m + 1], hi)
        /\ Len(SubSeq(kb, 1, m)) = m /\ Len(SubSeq(kb, m + 1, n)) = n - m
        /\ kb[m + 1] \in Keys /\ mid < kb[m + 1] /\ kb[m + 1] < hi
        /\ \A l, e : HasPair(kb, sb, l, e)
                       <=> \/ HasPair(SubSeq(kb, 1, m), SubSeq(sb, 1, m), l, e)
                           \/ HasPair(SubSeq(kb, m + 1, n), SubSeq(sb, m + 1, n), l, e)
    <3>1. Parts(kb, sb, mid, hi, m, n)
      BY <2>1, RunCut
    <3> QED
      BY ONLY <2>1, <3>1 DEF Parts
  <2>3. /\ Run(SubSeq(kb, 1, m), SubSeq(sb, 1, m), mid, kb[m1])
        /\ Run(SubSeq(kb, m1, n), SubSeq(sb, m1, n), kb[m1], hi)
        /\ Len(SubSeq(kb, 1, m)) = m /\ Len(SubSeq(kb, m1, n)) = n - m
        /\ kb[m1] \in Keys /\ mid < kb[m1] /\ kb[m1] < hi
        /\ \A l, e : HasPair(kb, sb, l, e)
                       <=> \/ HasPair(SubSeq(kb, 1, m), SubSeq(sb, 1, m), l, e)
                           \/ HasPair(SubSeq(kb, m1, n), SubSeq(sb, m1, n), l, e)
    BY <2>2
  <2> HIDE DEF m1
  <2> QED
    BY <1>2, <2>3, <2>4
<1> HIDE DEF kl, sl
<1>5. s \in Int /\ lo <= mid /\ mid <= s /\ lo < s
  BY <1>4, TreeKeysAssumption
<1>6. /\ Run(k1, s1, lo, s) /\ Len(k1) = Len(ka) + 1
      /\ \A l, e : HasPair(k1, s1, l, e) <=> HasPair(ka, sa, l, e) \/ HasPair(kl, sl, l, e)
  <2>2. lo \in Int /\ mid \in Int /\ s \in Int /\ Run(ka, sa, lo, mid) /\ Run(kl, sl, mid, s)
        /\ lo <= mid /\ mid <= s
    BY <1>4, <1>5
  <2>1. /\ Run(ka \o kl, sa \o sl, lo, s) /\ Len(ka \o kl) = Len(ka) + Len(kl)
        /\ \A l, e : HasPair(ka \o kl, sa \o sl, l, e)
                       <=> HasPair(ka, sa, l, e) \/ HasPair(kl, sl, l, e)
    BY ONLY <2>2, RunJoin
  <2> QED
    BY <1>3, <1>4, <2>1
<1>7. Len(s1) = n1 /\ Len(s2) = n2
  <2>1. Len(s1) = Len(k1) /\ Len(s2) = Len(k2)
    BY <1>4, <1>6 DEF Run
  <2> QED
    BY <1>1, <1>4, <1>6, <2>1
<1> QED
  BY <1>4, <1>5, <1>6, <1>7 DEF Reshared

\* The bounds once a and b have shared what they hold out anew, s between them.
Recutting(g, D, a, b, s) ==
  [n \in D |-> IF n = a THEN [lo |-> g[a].lo, hi |-> s, dep |-> g[a].dep]
               ELSE IF n = b THEN [lo |-> s, hi |-> g[b].hi, dep |-> g[b].dep] ELSE g[n]]

\* The bounds once a has taken over what b held.
Merging(g, D, a, b) ==
  [n \in D |-> IF n = a THEN [lo |-> g[a].lo, hi |-> g[b].hi, dep |-> g[a].dep] ELSE g[n]]

\* The order in which two nodes are rewritten does not matter.
LEMMA PairSwap ==
  ASSUME NEW h, NEW H, NEW a, NEW b, NEW k1, NEW s1, NEW k2, NEW s2,
         PairSet(h, H, b, a, k2, s2, k1, s1)
  PROVE  PairSet(h, H, a, b, k1, s1, k2, s2)
<1>1. {a, b} = {b, a}
  OBVIOUS
<1> QED
  BY <1>1 DEF PairSet

\* What RecutKeeps needs to know of the result.
Sharing(h, H, a, b, p, k1, s1, k2, s2) ==
  /\ DOMAIN H = DOMAIN h /\ H[a].leaf /\ H[b].leaf /\ a # b /\ p # a /\ p # b
  /\ H[a].key = k1 /\ H[a].sub = s1 /\ H[b].key = k2 /\ H[b].sub = s2
  /\ H[p].leaf = h[p].leaf /\ H[p].sub = h[p].sub
  /\ \A m \in DOMAIN h \ {a, b, p} : H[m] = h[m]

\* Two leaves and the key between them, after an entry moved from one to the
\* other.
LEMMA LeafRecut ==
  ASSUME NEW h, NEW g, NEW rt, NEW lv, HeapOK(h), Shape(h, g, rt, lv), Links(h, rt),
         NEW p, NEW j, NEW a, NEW b, Slot(h, p, j, a), Slot(h, p, j + 1, b),
         h[a].leaf, h[b].leaf,
         NEW k1, NEW s1, NEW k2, NEW s2, NEW s \in Keys, g[a].lo < s, s < g[b].hi,
         Run(k1, s1, g[a].lo, s), Run(k2, s2, s, g[b].hi),
         NEW y, PairSet(h, y, a, b, k1, s1, k2, s2), NEW i, i + 1 = j,
         NEW H, H = SetSeparator(y, p, i, s),
         NEW g2, g2 = Recutting(g, DOMAIN h, a, b, s)
  PROVE  /\ Recut(h, H, g, g2, p, j, a, b, s) /\ HeapOK(H)
         /\ Sharing(h, H, a, b, p, k1, s1, k2, s2)
<1>1. /\ p \in DOMAIN h /\ ~ h[p].leaf /\ j \in 1 .. Len(h[p].sub)
      /\ a \in DOMAIN h /\ g[p].dep = g[a].dep + 1 /\ p # a
      /\ Len(h[p].sub) = Len(h[p].key) + 1 /\ g[a].hi = Bound(h, g, p, j)
      /\ b \in DOMAIN h /\ p # b /\ j + 1 \in 1 .. Len(h[p].sub) /\ h[p].sub[j + 1] = b
  BY SlotIs
<1>2. a # b
  <2>1. \A q, r : Slot(h, q, r, a) => r = j
    BY SlotUnique
  <2>2. j + 1 # j
    BY <1>1
  <2> QED
    BY <2>1, <2>2
<1>3. j \in 1 .. Len(h[p].key)
  <2>1. Len(h[p].key) \in Nat
    BY <1>1, NodeFields
  <2> QED
    BY <1>1, <2>1
<1>4. /\ HeapOK(y) /\ DOMAIN y = DOMAIN h
      /\ y[a].key = k1 /\ y[a].sub = s1 /\ y[a].leaf = h[a].leaf
      /\ y[a].parent = h[a].parent /\ y[a].idx = h[a].idx
      /\ y[b].key = k2 /\ y[b].sub = s2 /\ y[b].leaf = h[b].leaf
      /\ y[b].parent = h[b].parent /\ y[b].idx = h[b].idx
      /\ \A m \in DOMAIN h \ {a, b} : y[m] = h[m]
  BY DEF PairSet
<1>5. y[p] = h[p]
  BY <1>1, <1>4
<1>6. NewSeparator(y, H, p, i, s)
  <2>1. p \in DOMAIN y /\ i + 1 \in 1 .. Len(y[p].key)
    BY <1>1, <1>3, <1>4, <1>5
  <2> QED
    BY <1>4, <2>1, SeparatorIs
<1>7. /\ HeapOK(H) /\ DOMAIN H = DOMAIN h
      /\ H[p].leaf = h[p].leaf /\ H[p].sub = h[p].sub
      /\ H[p].parent = h[p].parent /\ H[p].idx = h[p].idx
      /\ Len(H[p].key) = Len(h[p].key) /\ H[p].key[j] = s
      /\ \A q \in 1 .. Len(h[p].key) : q # j => H[p].key[q] = h[p].key[q]
      /\ H[a].key = k1 /\ H[a].sub = s1 /\ H[a].leaf = h[a].leaf
      /\ H[a].parent = h[a].parent /\ H[a].idx = h[a].idx
      /\ H[b].key = k2 /\ H[b].sub = s2 /\ H[b].leaf = h[b].leaf
      /\ H[b].parent = h[b].parent /\ H[b].idx = h[b].idx
      /\ \A m \in DOMAIN h \ {a, b, p} : H[m] = h[m]
  <2>1. /\ HeapOK(H) /\ DOMAIN H = DOMAIN h
        /\ H[p].leaf = h[p].leaf /\ H[p].sub = h[p].sub
        /\ H[p].parent = h[p].parent /\ H[p].idx = h[p].idx
        /\ Len(H[p].key) = Len(h[p].key) /\ H[p].key[j] = s
        /\ \A q \in 1 .. Len(h[p].key) : q # j => H[p].key[q] = h[p].key[q]
    BY <1>4, <1>5, <1>6 DEF NewSeparator
  <2>2. \A m \in DOMAIN h \ {p} : H[m] = y[m]
    BY <1>4, <1>6 DEF NewSeparator
  <2>3. H[a] = y[a] /\ H[b] = y[b]
    BY <1>1, <2>2
  <2>4. \A m \in DOMAIN h \ {a, b, p} : H[m] = h[m]
    BY <1>4, <2>2
  <2> QED
    BY <1>4, <2>1, <2>3, <2>4
<1>8. /\ g2[a].lo = g[a].lo /\ g2[a].hi = s /\ g2[a].dep = g[a].dep
      /\ g2[b].lo = s /\ g2[b].hi = g[b].hi /\ g2[b].dep = g[b].dep
      /\ \A m \in DOMAIN h \ {a, b} : g2[m] = g[m]
  BY <1>1, <1>2 DEF Recutting
<1>9. OwnOK(H, g2, a) /\ OwnOK(H, g2, b)
  <2>1. Run(H[a].key, H[a].sub, g2[a].lo, g2[a].hi) /\ Run(H[b].key, H[b].sub, g2[b].lo, g2[b].hi)
    BY <1>7, <1>8
  <2>2. LeafOK(H, g2, a) /\ LeafOK(H, g2, b)
    BY <1>1, <1>7, <2>1, LeafRun
  <2> QED
    BY <1>7, <2>2 DEF OwnOK
<1>10. KidsMoved(h, H, a, b)
  <2>1. \A c \in {a, b} : (c \in DOMAIN h => h[c].leaf) /\ (c \in DOMAIN H => H[c].leaf)
    BY <1>7
  <2>2. \A m \in DOMAIN h \cap DOMAIN H : SameLink(h, H, m)
    BY <1>7 DEF SameLink
  <2> QED
    BY ONLY <2>1, <2>2, LeafKids
<1>11. s \in Int
  BY TreeKeysAssumption
<1>12. \A m \in DOMAIN h \ {a, b, p} : Same(h, H, m)
  BY <1>7 DEF Same
<1>13. Recut(h, H, g, g2, p, j, a, b, s)
  BY <1>7, <1>8, <1>9, <1>10, <1>11, <1>12 DEF Recut
<1> QED
  BY <1>1, <1>2, <1>7, <1>13 DEF Sharing

\* What MergeKeeps needs to know of the result.
Taking(h, H, a, b, k, s) ==
  /\ DOMAIN H = DOMAIN h \ {b} /\ H[a].leaf /\ a # b /\ H[a].key = k /\ H[a].sub = s
  /\ \A m \in DOMAIN h \ {a, b} : H[m] = h[m]

\* Two leaves after all entries went to the left one.
LEMMA LeafMerge ==
  ASSUME NEW h, NEW g, NEW rt, NEW lv, HeapOK(h), Shape(h, g, rt, lv), Links(h, rt),
         NEW p, NEW j, NEW a, NEW b, Slot(h, p, j, a), Slot(h, p, j + 1, b),
         h[a].leaf, h[b].leaf,
         NEW k, NEW s, Run(k, s, g[a].lo, g[b].hi),
         NEW H, H = Without(SetNode(h, a, k, s), b),
         NEW g2, g2 = Merging(g, DOMAIN h, a, b)
  PROVE  Merged(h, H, g, g2, p, j, a, b) /\ HeapOK(H) /\ Taking(h, H, a, b, k, s)
<1>1. j \in 1 .. Len(h[p].sub) /\ a \in DOMAIN h /\ b \in DOMAIN h
  BY SlotIs
<1>2. a # b
  <2>1. \A q, r : Slot(h, q, r, a) => r = j
    BY SlotUnique
  <2>2. j + 1 # j
    BY <1>1
  <2> QED
    BY <2>1, <2>2
<1> DEFINE y == SetNode(h, a, k, s)
<1>3. /\ HeapOK(y) /\ DOMAIN y = DOMAIN h /\ y[a].key = k /\ y[a].sub = s
      /\ y[a].leaf = h[a].leaf /\ y[a].parent = h[a].parent /\ y[a].idx = h[a].idx
      /\ \A m \in DOMAIN h \ {a} : y[m] = h[m]
  <2>1. HeapOK(h) /\ a \in DOMAIN h /\ k \in Seq(Keys) /\ s \in Seq(Item)
    BY <1>1 DEF Run
  <2> QED
    BY ONLY <2>1, SetNodeIs
<1>4. H = Without(y, b)
  OBVIOUS
<1> HIDE DEF y
<1>5. HeapOK(H) /\ DOMAIN H = DOMAIN y \ {b} /\ \A m \in DOMAIN y \ {b} : H[m] = y[m]
  <2>1. /\ HeapOK(Without(y, b)) /\ DOMAIN Without(y, b) = DOMAIN y \ {b}
        /\ \A m \in DOMAIN y \ {b} : Without(y, b)[m] = y[m]
    BY ONLY <1>3, WithoutIs
  <2> QED
    BY <1>4, <2>1
<1>6. /\ DOMAIN H = DOMAIN h \ {b} /\ H[a].key = k /\ H[a].sub = s /\ H[a].leaf = h[a].leaf
      /\ H[a].parent = h[a].parent /\ H[a].idx = h[a].idx
      /\ \A m \in DOMAIN h \ {a, b} : H[m] = h[m]
  BY <1>1, <1>2, <1>3, <1>5
<1>7. /\ g2[a].lo = g[a].lo /\ g2[a].hi = g[b].hi /\ g2[a].dep = g[a].dep
      /\ \A m \in DOMAIN h \ {a, b} : g2[m] = g[m]
  BY <1>1 DEF Merging
<1>8. OwnOK(H, g2, a)
  <2>1. Run(H[a].key, H[a].sub, g2[a].lo, g2[a].hi) /\ a \in DOMAIN H
    BY <1>1, <1>2, <1>6, <1>7
  <2>2. LeafOK(H, g2, a)
    BY <1>5, <2>1, LeafRun
  <2> QED
    BY <1>6, <2>2 DEF OwnOK
<1>9. KidsMoved(h, H, a, b)
  <2>1. \A c \in {a, b} : (c \in DOMAIN h => h[c].leaf) /\ (c \in DOMAIN H => H[c].leaf)
    BY <1>6
  <2>2. \A m \in DOMAIN h \cap DOMAIN H : SameLink(h, H, m)
    BY <1>6 DEF SameLink
  <2> QED
    BY ONLY <2>1, <2>2, LeafKids
<1>10. \A m \in DOMAIN h \ {a, b} : Same(h, H, m)
  BY <1>6 DEF Same
<1>11. Merged(h, H, g, g2, p, j, a, b)
  BY <1>6, <1>7, <1>8, <1>9, <1>10 DEF Merged
<1> QED
  BY <1>2, <1>5, <1>6, <1>11 DEF Taking

\* A leaf of n entries is full enough, and not too full.
LeafFits(n) == 1 <= n /\ n <= Entries /\ n >= Entries \div 2

\* The leaves a and b have shared what they held, without k, out anew.
LEMMA SharedKeeps ==
  ASSUME Sizes(heap, root), MapIs(heap, contents),
         NEW H, NEW g2, TreeIs(H, Idle, root, level, list, g2),
         NEW a \in DOMAIN heap, NEW b \in DOMAIN heap, NEW p \in DOMAIN heap,
         heap[a].leaf, heap[b].leaf, ~ heap[p].leaf, NEW k1, NEW s1, NEW k2, NEW s2,
         Sharing(heap, H, a, b, p, k1, s1, k2, s2), LeafFits(Len(s1)), LeafFits(Len(s2)), NEW k,
         \A l, e : HasPair(k1, s1, l, e) \/ HasPair(k2, s2, l, e)
                     <=> (\/ HasPair(heap[a].key, heap[a].sub, l, e)
                          \/ HasPair(heap[b].key, heap[b].sub, l, e)) /\ l # k,
         \A m \in DOMAIN heap \ {a, b} : \A d : ~ Has(heap, m, k, d)
  PROVE  StateOK(H, Idle, root, level, list, Without(contents, k))
<1>1. /\ DOMAIN H = DOMAIN heap /\ H[a].leaf /\ H[b].leaf /\ a # b /\ p # a /\ p # b
      /\ H[a].key = k1 /\ H[a].sub = s1 /\ H[b].key = k2 /\ H[b].sub = s2
      /\ H[p].leaf = heap[p].leaf /\ H[p].sub = heap[p].sub
      /\ \A m \in DOMAIN heap \ {a, b, p} : H[m] = heap[m]
  BY DEF Sharing
<1>2. Sizes(H, root)
  <2>1. Fits(H, root, a) /\ Fits(H, root, b)
    BY <1>1 DEF Fits, LeafFits
  <2>2. Fits(H, root, p)
    BY <1>1 DEF Fits, Sizes
  <2>3. \A m \in DOMAIN heap \ {a, b, p} : Fits(H, root, m)
    BY <1>1 DEF Fits, Sizes
  <2> QED
    BY <1>1, <2>1, <2>2, <2>3 DEF Sizes
<1>3. MapIs(H, Without(contents, k))
  <2>1. ASSUME NEW l, NEW e
        PROVE  Entry(H, l, e) <=> Entry(heap, l, e) /\ l # k
    <3>1. \A m \in DOMAIN heap \ {a, b, p} : Has(H, m, l, e) <=> Has(heap, m, l, e) /\ l # k
      BY <1>1 DEF Has
    <3>2. ~ Has(H, p, l, e) /\ ~ Has(heap, p, l, e)
      BY <1>1 DEF Has
    <3>3. Has(H, a, l, e) \/ Has(H, b, l, e)
            <=> (Has(heap, a, l, e) \/ Has(heap, b, l, e)) /\ l # k
      BY <1>1 DEF Has
    <3> QED
      BY <1>1, <3>1, <3>2, <3>3 DEF Entry
  <2> QED
    BY <2>1, MapRemove
<1> QED
  BY <1>2, <1>3, IdleState

\* The leaf a has taken over what b held, without k.
LEMMA TakenKeeps ==
  ASSUME Sizes(heap, root), MapIs(heap, contents),
         NEW H, NEW w, w.op = "remove", NEW ls, NEW g2, TreeIs(H, w, root, level, ls, g2),
         NEW a \in DOMAIN heap, NEW b \in DOMAIN heap, heap[a].leaf, heap[b].leaf,
         NEW ky, NEW sb, Taking(heap, H, a, b, ky, sb), LeafFits(Len(sb)), NEW k,
         \A l, e : HasPair(ky, sb, l, e)
                     <=> (\/ HasPair(heap[a].key, heap[a].sub, l, e)
                          \/ HasPair(heap[b].key, heap[b].sub, l, e)) /\ l # k,
         \A m \in DOMAIN heap \ {a, b} : \A d : ~ Has(heap, m, k, d)
  PROVE  StateOK(H, w, root, level, ls, Without(contents, k))
<1>1. /\ DOMAIN H = DOMAIN heap \ {b} /\ H[a].leaf /\ a # b /\ H[a].key = ky /\ H[a].sub = sb
      /\ \A m \in DOMAIN heap \ {a, b} : H[m] = heap[m]
  BY DEF Taking
<1>2. RootOf(H, w, root) = root
  BY DEF RootOf, Tall
<1>3. Sizes(H, root)
  <2>1. Fits(H, root, a)
    BY <1>1 DEF Fits, LeafFits
  <2>2. \A m \in DOMAIN heap \ {a, b} : Fits(H, root, m)
    BY <1>1 DEF Fits, Sizes
  <2> QED
    BY <1>1, <2>1, <2>2 DEF Sizes
<1>4. MapIs(H, Without(contents, k))
  <2>1. ASSUME NEW l, NEW e
        PROVE  Entry(H, l, e) <=> Entry(heap, l, e) /\ l # k
    <3>1. \A m \in DOMAIN heap \ {a, b} : Has(H, m, l, e) <=> Has(heap, m, l, e) /\ l # k
      BY <1>1 DEF Has
    <3>2. Has(H, a, l, e) <=> (Has(heap, a, l, e) \/ Has(heap, b, l, e)) /\ l # k
      BY <1>1 DEF Has
    <3> QED
      BY <1>1, <3>1, <3>2 DEF Entry
  <2> QED
    BY <2>1, MapRemove
<1> QED
  BY <1>2, <1>3, <1>4 DEF StateOK

\* A leaf x that loses the entry of k and needs a neighbour's help: key and sub
\* are what it keeps, and it is the j-th child of p.
Losing(g, k, x, key, sub, p, j) ==
  /\ HeapOK(heap) /\ Shape(heap, g, root, level) /\ Links(heap, root)
  /\ Chain(list, DOMAIN heap, g) /\ MapIs(heap, contents) /\ Sizes(heap, root) /\ work = Idle
  /\ x \in DOMAIN heap /\ heap[x].leaf /\ Interval(g, x) /\ Less(x, g, key, sub, k)
  /\ \A m \in DOMAIN heap : \A d : m # x => ~ Has(heap, m, k, d)
  /\ Slot(heap, p, j, x) /\ heap[x].parent = p /\ heap[x].idx = j - 2
  /\ BorrowsFromLeft(x) => Slot(heap, p, j - 1, Prev(x))
  /\ ~ BorrowsFromLeft(x) => Slot(heap, p, j + 1, NextOf(x))
  /\ 1 <= Len(heap[x].sub) /\ Len(heap[x].sub) <= Half(Entries)
  /\ x # root

\* What is known of a leaf that has too few entries for a delete.
LEMMA LosingIs ==
  ASSUME TreeInvariant, level < MaxLevel, NEW k \in Keys, CanDelete(k),
         NEW x, x = LeafFor(k), Underfull(x, Entries),
         NEW key, key = RemoveAt(heap[x].key, DeletePlace(k) + 1),
         NEW sub, sub = RemoveAt(heap[x].sub, DeletePlace(k) + 1)
  PROVE  \E g, p, j : Losing(g, k, x, key, sub, p, j)
<1>1. work = Idle
  BY DEF CanDelete
<1>2. PICK g : TreeIs(heap, Idle, root, level, list, g)
  BY <1>1, IdleState DEF TreeInvariant
<1>3. MapIs(heap, contents) /\ Sizes(heap, root)
  BY <1>1, IdleState DEF TreeInvariant
<1>4. HeapOK(heap) /\ Shape(heap, g, root, level) /\ Links(heap, root)
      /\ Chain(list, DOMAIN heap, g)
  BY <1>2, IdleTree
<1> DEFINE i == DeletePlace(k) + 1
<1>5. /\ x \in DOMAIN heap /\ heap[x].leaf
      /\ Run(heap[x].key, heap[x].sub, g[x].lo, g[x].hi) /\ Interval(g, x)
      /\ i \in 1 .. Len(heap[x].key) /\ heap[x].key[i] = k
      /\ \A m \in DOMAIN heap : \A d : m # x => ~ Has(heap, m, k, d)
  BY <1>2, DeletedIs
<1>6. key = RemoveAt(heap[x].key, i) /\ sub = RemoveAt(heap[x].sub, i)
  OBVIOUS
<1> HIDE DEF i
<1>7. Less(x, g, key, sub, k)
  BY ONLY <1>5, <1>6, RunLess
<1>8. Len(heap[x].sub) <= Half(Entries) /\ heap[x].parent # Null
  BY DEF Underfull
<1>9. x # root
  <2>1. heap[x].parent = Null <=> x = root
    BY ONLY <1>4, <1>5, OrphanIsRoot, ZenonT(60)
  <2> QED
    BY <1>8, <2>1
<1>10. PICK p, j : Slot(heap, p, j, x)
  BY <1>4, <1>5, <1>9 DEF Shape, NodeOK, HasParent
<1>11. heap[x].parent = p /\ heap[x].idx = j - 2
  BY <1>4, <1>10, SlotUnique
<1>12. Len(heap[p].sub) >= 2
  BY <1>3, <1>10 DEF Slot, Sizes, Fits
<1>13. /\ BorrowsFromLeft(x) => Slot(heap, p, j - 1, Prev(x))
       /\ ~ BorrowsFromLeft(x) => Slot(heap, p, j + 1, NextOf(x))
  <2> DEFINE D == DOMAIN heap
             v == heap
  <2>1. /\ HeapOK(v) /\ Shape(v, g, root, level) /\ Links(v, root)
        /\ D = DOMAIN v /\ Chain(list, D, g) /\ level < MaxLevel
        /\ Slot(v, p, j, x) /\ Len(v[p].sub) >= 2
        /\ heap[x].idx = v[x].idx /\ heap[x].parent = v[x].parent /\ heap[p].sub = v[p].sub
    BY <1>4, <1>10, <1>12
  <2> HIDE DEF D, v
  <2>2. /\ BorrowsFromLeft(x) => Slot(v, p, j - 1, Prev(x))
        /\ ~ BorrowsFromLeft(x) => Slot(v, p, j + 1, NextOf(x))
    BY ONLY <2>1, SiblingIs
  <2> QED
    BY <2>2 DEF v
<1>14. 1 <= Len(heap[x].sub)
  BY <1>3, <1>5 DEF Sizes, Fits
<1>15. Losing(g, k, x, key, sub, p, j)
  BY <1>1, <1>3, <1>4, <1>5, <1>7, <1>8, <1>9, <1>10, <1>11, <1>13, <1>14 DEF Losing
<1> QED
  BY <1>15

\* The sizes of two leaves after one gave the other an entry, or all.
LEMMA LentFits ==
  ASSUME NEW m \in Nat, NEW n \in Nat, m > Half(Entries), m <= Entries, 1 <= n, n <= Half(Entries),
         n >= Entries \div 2
  PROVE  LeafFits(m - 1) /\ LeafFits(n) /\ m >= 2
<1> DEFINE half == Half(Entries)
           low == Entries \div 2
<1>1. half \in Nat /\ half >= 1 /\ half <= Entries /\ half >= low /\ low \in Nat
  BY EntriesAssumption, HalfIs
<1>2. m > half /\ n <= half /\ n >= low
  OBVIOUS
<1> HIDE DEF half, low
<1>3. /\ 1 <= m - 1 /\ m - 1 <= Entries /\ m - 1 >= low /\ 1 <= n /\ n <= Entries /\ n >= low
      /\ m >= 2
  BY <1>1, <1>2, EntriesAssumption
<1> QED
  BY <1>3 DEF LeafFits, low

\* Two leaves that are merged fit into one (bplustree.c:889-928).
LEMMA JoinedFits ==
  ASSUME NEW m \in Nat, NEW n \in Nat, 1 <= m, m <= Half(Entries), m >= Entries \div 2,
         1 <= n, n <= Half(Entries)
  PROVE  LeafFits(m + (n - 1))
<1> DEFINE half == Half(Entries)
           low == Entries \div 2
<1>1. half \in Nat /\ 2 * half - 1 <= Entries /\ low \in Nat
  BY EntriesAssumption, HalfIs
<1>2. m <= half /\ n <= half /\ m >= low
  OBVIOUS
<1> HIDE DEF half, low
<1>3. 1 <= m + (n - 1) /\ m + (n - 1) <= Entries /\ m + (n - 1) >= low
  BY <1>1, <1>2, EntriesAssumption
<1> QED
  BY <1>3 DEF LeafFits, low

\* A delete that borrows from the left leaf, or merges into it, keeps the
\* invariant (bplustree.c:806-837, 879-931).
LEMMA LeafFromLeftKeeps ==
  ASSUME TreeInvariant, level < MaxLevel, NEW k \in Keys, LeafFromLeft(k)
  PROVE  TreeInvariant'
<1> DEFINE x == LeafFor(k)
           a == Prev(x)
           i == heap[x].idx
           key == RemoveAt(heap[x].key, DeletePlace(k) + 1)
           sub == RemoveAt(heap[x].sub, DeletePlace(k) + 1)
           k1 == Front(heap[a].key)
           s1 == Front(heap[a].sub)
           s == Last(heap[a].key)
           k2 == <<s>> \o key
           s2 == <<Last(heap[a].sub)>> \o sub
           y == SetNode(SetNode(heap, x, k2, s2), a, k1, s1)
           kj == heap[a].key \o key
           sj == heap[a].sub \o sub
<1>1. /\ CanDelete(k) /\ Underfull(x, Entries) /\ BorrowsFromLeft(x)
      /\ \/ /\ Len(heap[a].key) > Half(Entries)
            /\ heap' = SetSeparator(y, heap[x].parent, i, s)
            /\ list' = list /\ work' = work
         \/ /\ Len(heap[a].key) <= Half(Entries)
            /\ heap' = Without(SetNode(heap, a, kj, sj), x)
            /\ list' = Unlinked(x) /\ work' = RemoveUpwards(heap[x].parent, i)
      /\ contents' = Without(contents, k) /\ root' = root /\ level' = level
  BY DEF LeafFromLeft, DeleteLeaf
<1>2. PICK g, p, j0 : Losing(g, k, x, key, sub, p, j0)
  <2> HIDE DEF x
  <2>1. x = LeafFor(k)
    BY DEF x
  <2> QED
    BY <1>1, <2>1, LosingIs
<1> HIDE DEF x
<1> DEFINE j == j0 - 1
<1>3. /\ HeapOK(heap) /\ Shape(heap, g, root, level) /\ Links(heap, root)
      /\ Chain(list, DOMAIN heap, g) /\ MapIs(heap, contents) /\ Sizes(heap, root) /\ work = Idle
      /\ x \in DOMAIN heap /\ heap[x].leaf /\ Interval(g, x) /\ Less(x, g, key, sub, k)
      /\ \A m \in DOMAIN heap : \A d : m # x => ~ Has(heap, m, k, d)
      /\ Slot(heap, p, j0, x) /\ heap[x].parent = p /\ i = j0 - 2
      /\ Slot(heap, p, j, a)
      /\ 1 <= Len(heap[x].sub) /\ Len(heap[x].sub) <= Half(Entries)
      /\ x # root
  BY <1>1, <1>2 DEF Losing
<1>4. j + 1 = j0 /\ i = j - 1 /\ i + 1 = j /\ j \in Int
  BY <1>3 DEF Slot
<1> HIDE DEF j, i, a, key, sub
<1>5. Slot(heap, p, j + 1, x)
  BY <1>3, <1>4
<1>6. /\ a \in DOMAIN heap /\ p \in DOMAIN heap /\ ~ heap[p].leaf /\ g[a].hi = g[x].lo
      /\ g[p].dep = g[a].dep + 1 /\ g[p].dep = g[x].dep + 1 /\ g[a].dep \in Nat /\ g[x].dep \in Nat
  <2>1. /\ a \in DOMAIN heap /\ p \in DOMAIN heap /\ ~ heap[p].leaf
        /\ g[a].hi = Bound(heap, g, p, j) /\ g[p].dep = g[a].dep + 1 /\ g[a].dep \in Nat
    BY <1>3, SlotIs
  <2>2. g[x].lo = Bound(heap, g, p, j0 - 1) /\ g[p].dep = g[x].dep + 1 /\ g[x].dep \in Nat
    BY <1>3, SlotIs
  <2> QED
    BY <2>1, <2>2 DEF j
<1>7. heap[a].leaf /\ Interval(g, a)
  <2>1. g[a].dep = g[x].dep
    BY <1>6
  <2> QED
    BY <1>3, <1>6, <2>1, DepthIs
<1>8. Run(heap[a].key, heap[a].sub, g[a].lo, g[x].lo)
  <2>1. LeafOK(heap, g, a)
    BY <1>3, <1>6, <1>7, DepthIs DEF OwnOK
  <2> QED
    BY <1>3, <1>6, <2>1, LeafRun
<1>9. a # root
  BY <1>3, SlotUnique
<1>10. /\ 1 <= Len(heap[a].sub) /\ Len(heap[a].sub) <= Entries
       /\ Len(heap[a].sub) >= Entries \div 2 /\ Len(heap[x].sub) >= Entries \div 2
       /\ Len(heap[a].sub) \in Nat /\ Len(heap[x].sub) \in Nat
  <2>1. Fits(heap, root, a) /\ Fits(heap, root, x)
    BY <1>3, <1>6 DEF Sizes
  <2> QED
    BY <1>3, <1>6, <1>7, <1>9, <2>1, NodeFields DEF Fits
<1>11. /\ Run(key, sub, g[x].lo, g[x].hi) /\ Len(sub) = Len(heap[x].sub) - 1
       /\ \A l, e : HasPair(key, sub, l, e) <=> HasPair(heap[x].key, heap[x].sub, l, e) /\ l # k
  BY <1>3 DEF Less
<1>12. /\ g[a].lo \in Int /\ g[x].lo \in Int /\ g[x].hi \in Int /\ g[a].lo < g[x].lo
       /\ g[x].lo < g[x].hi
  BY <1>3, <1>6, <1>7 DEF Interval
<1>13. \A l, e : HasPair(heap[a].key, heap[a].sub, l, e) => l # k
  <2>1. a # x
    BY <1>6, <1>12
  <2> QED
    BY <1>3, <1>6, <1>7, <2>1 DEF Has
<1>14. Len(heap[a].key) = Len(heap[a].sub)
  BY <1>8 DEF Run
<1>15. \A m \in DOMAIN heap \ {a, x} : \A d : ~ Has(heap, m, k, d)
  BY <1>3
<1>18. Len(heap[a].key) \in Int /\ Half(Entries) \in Int
  BY <1>10, <1>14, EntriesAssumption, HalfIs
<1>16. CASE Len(heap[a].key) > Half(Entries)
  <2>0. ~ (Len(heap[a].key) <= Half(Entries))
    BY <1>16, <1>18
  <2> HIDE DEF y, s, kj, sj
  <2>1. heap' = SetSeparator(y, p, i, s) /\ list' = list /\ work' = Idle
    BY <1>1, <1>3, <2>0
  <2> USE DEF y, s, kj, sj
  <2> DEFINE n1 == Len(heap[a].sub) - 1
             n2 == Len(sub) + 1
  <2>2. LeafFits(n1) /\ LeafFits(n2) /\ Len(heap[a].key) >= 2
    <3> DEFINE m == Len(heap[a].sub)
               n == Len(heap[x].sub)
    <3>1. /\ m \in Nat /\ n \in Nat /\ m > Half(Entries) /\ m <= Entries /\ 1 <= n
          /\ n <= Half(Entries) /\ n >= Entries \div 2
      BY <1>3, <1>10, <1>14, <1>16
    <3>2. n2 = n /\ n1 = m - 1
      BY <1>10, <1>11
    <3> HIDE DEF m, n, n1, n2
    <3>3. LeafFits(m - 1) /\ LeafFits(n) /\ m >= 2
      BY ONLY <3>1, LentFits
    <3> QED
      BY <1>14, <3>2, <3>3 DEF m
  <2>3. Reshared(heap[a].key, heap[a].sub, key, sub, k1, s1, k2, s2, g[a].lo, g[x].hi, n1, n2, s)
    <3> DEFINE lo == g[a].lo
               mid == g[x].lo
               hi == g[x].hi
               ka == heap[a].key
               sa == heap[a].sub
    <3>1. /\ lo \in Int /\ mid \in Int /\ hi \in Int /\ lo < mid /\ mid < hi
          /\ Run(ka, sa, lo, mid) /\ Run(key, sub, mid, hi) /\ Len(ka) >= 2
          /\ k1 = Front(ka) /\ s1 = Front(sa) /\ k2 = <<Last(ka)>> \o key
          /\ s2 = <<Last(sa)>> \o sub /\ s = Last(ka) /\ n1 = Len(sa) - 1 /\ n2 = Len(sub) + 1
      BY <1>8, <1>11, <1>12, <2>2
    <3> HIDE DEF lo, mid, hi, ka, sa, k1, k2, s1, s2, s, n1, n2
    <3>2. Reshared(ka, sa, key, sub, k1, s1, k2, s2, lo, hi, n1, n2, s)
      BY ONLY <3>1, BorrowLast
    <3> QED
      BY <3>2 DEF lo, hi, ka, sa
  <2> HIDE DEF k1, k2, s1, s2, s, n1, n2
  <2>4. /\ Len(s1) = n1 /\ Len(s2) = n2
        /\ Run(k1, s1, g[a].lo, s) /\ Run(k2, s2, s, g[x].hi)
        /\ s \in Keys /\ g[a].lo < s /\ s < g[x].hi
        /\ \A l, e : HasPair(k1, s1, l, e) \/ HasPair(k2, s2, l, e)
                       <=> HasPair(heap[a].key, heap[a].sub, l, e) \/ HasPair(key, sub, l, e)
    BY <2>3 DEF Reshared
  <2>5. PairSet(heap, y, a, x, k1, s1, k2, s2)
    <3>1. /\ HeapOK(heap) /\ a \in DOMAIN heap /\ x \in DOMAIN heap /\ x # a
          /\ k1 \in Seq(Keys) /\ s1 \in Seq(Item) /\ k2 \in Seq(Keys) /\ s2 \in Seq(Item)
          /\ y = SetNode(SetNode(heap, x, k2, s2), a, k1, s1)
      BY <1>3, <1>6, <1>12, <2>4 DEF Run
    <3> HIDE DEF y
    <3>2. PairSet(heap, y, x, a, k2, s2, k1, s1)
      BY ONLY <3>1, PairSetIs
    <3> QED
      BY <3>2, PairSwap
  <2> DEFINE H == heap'
             D == DOMAIN heap
             g2 == Recutting(g, D, a, x, s)
  <2>6. H = SetSeparator(y, p, i, s)
    BY <2>1
  <2>7. g2 = Recutting(g, DOMAIN heap, a, x, s)
    OBVIOUS
  <2> HIDE DEF H, D, g2, y
  <2>8. /\ Recut(heap, H, g, g2, p, j, a, x, s) /\ HeapOK(H)
        /\ Sharing(heap, H, a, x, p, k1, s1, k2, s2)
    BY ONLY <1>3, <1>4, <1>5, <1>7, <2>4, <2>5, <2>6, <2>7, LeafRecut
  <2>9. TreeIs(H, Idle, root, level, list, g2)
    BY ONLY <1>3, <2>8, RecutStep
  <2>10. StateOK(H, Idle, root, level, list, Without(contents, k))
    <3>1. \A l, e : HasPair(k1, s1, l, e) \/ HasPair(k2, s2, l, e)
                      <=> (\/ HasPair(heap[a].key, heap[a].sub, l, e)
                           \/ HasPair(heap[x].key, heap[x].sub, l, e)) /\ l # k
      BY <1>11, <1>13, <2>4
    <3>2. LeafFits(Len(s1)) /\ LeafFits(Len(s2))
      BY <2>2, <2>4
    <3> QED
      BY ONLY <1>3, <1>6, <1>7, <1>15, <2>8, <2>9, <3>1, <3>2, SharedKeeps
  <2> QED
    BY <1>1, <2>1, <2>10 DEF TreeInvariant, H
<1>17. CASE Len(heap[a].key) <= Half(Entries)
  <2>1. heap' = Without(SetNode(heap, a, kj, sj), x)
        /\ list' = Unlinked(x) /\ work' = RemoveUpwards(p, i)
    <3>1. ~ (Len(heap[a].key) > Half(Entries))
      BY <1>17, <1>18
    <3> HIDE DEF y, s, kj, sj
    <3> QED
      BY <1>1, <1>3, <3>1
  <2>2. /\ Run(kj, sj, g[a].lo, g[x].hi) /\ Len(kj) = Len(heap[a].key) + Len(key)
        /\ \A l, e : HasPair(kj, sj, l, e)
                       <=> HasPair(heap[a].key, heap[a].sub, l, e) \/ HasPair(key, sub, l, e)
    <3> DEFINE lo == g[a].lo
               mid == g[x].lo
               hi == g[x].hi
               ka == heap[a].key
               sa == heap[a].sub
    <3>1. /\ lo \in Int /\ mid \in Int /\ hi \in Int /\ lo <= mid /\ mid <= hi
          /\ Run(ka, sa, lo, mid) /\ Run(key, sub, mid, hi)
      BY <1>8, <1>11, <1>12
    <3> HIDE DEF lo, mid, hi, ka, sa
    <3>2. /\ Run(ka \o key, sa \o sub, lo, hi) /\ Len(ka \o key) = Len(ka) + Len(key)
          /\ \A l, e : HasPair(ka \o key, sa \o sub, l, e)
                         <=> HasPair(ka, sa, l, e) \/ HasPair(key, sub, l, e)
      BY ONLY <3>1, RunJoin
    <3> QED
      BY <3>2 DEF lo, hi, ka, sa
  <2> HIDE DEF kj, sj
  <2>3. LeafFits(Len(sj))
    <3> DEFINE m == Len(heap[a].sub)
               n == Len(heap[x].sub)
    <3>1. /\ m \in Nat /\ n \in Nat /\ 1 <= m /\ m <= Half(Entries) /\ m >= Entries \div 2
          /\ 1 <= n /\ n <= Half(Entries)
      BY <1>3, <1>10, <1>14, <1>17
    <3>2. Len(sj) = Len(kj) /\ Len(sub) = Len(key)
      BY <1>11, <2>2 DEF Run
    <3>3. Len(sj) = m + (n - 1)
      BY <1>11, <1>14, <2>2, <3>2
    <3> HIDE DEF m, n
    <3>4. LeafFits(m + (n - 1))
      BY ONLY <3>1, JoinedFits
    <3> QED
      BY <3>3, <3>4
  <2> DEFINE H == heap'
             D == DOMAIN heap
             g2 == Merging(g, D, a, x)
             w == RemoveUpwards(p, i)
  <2>4. H = Without(SetNode(heap, a, kj, sj), x) /\ g2 = Merging(g, DOMAIN heap, a, x)
        /\ w = RemoveUpwards(p, i) /\ Run(kj, sj, g[a].lo, g[x].hi)
    BY <2>1, <2>2
  <2>5. w.op = "remove"
    BY DEF RemoveUpwards
  <2>10. level < MaxLevel
    OBVIOUS
  <2> HIDE DEF H, D, g2, w
  <2>6. Merged(heap, H, g, g2, p, j, a, x) /\ HeapOK(H) /\ Taking(heap, H, a, x, kj, sj)
    BY ONLY <1>3, <1>5, <1>7, <2>4, LeafMerge
  <2>7. TreeIs(H, w, root, level, Unlinked(x), g2)
    <3>1. TreeIs(H, RemoveUpwards(p, i), root, level, Unlinked(x), g2)
      BY ONLY <1>3, <1>4, <2>6, <2>10, MergeStep
    <3> QED
      BY <2>4, <3>1
  <2>8. StateOK(H, w, root, level, Unlinked(x), Without(contents, k))
    <3>1. \A l, e : HasPair(kj, sj, l, e)
                      <=> (\/ HasPair(heap[a].key, heap[a].sub, l, e)
                           \/ HasPair(heap[x].key, heap[x].sub, l, e)) /\ l # k
      BY <1>11, <1>13, <2>2
    <3> QED
      BY ONLY <1>3, <1>6, <1>7, <1>15, <2>3, <2>5, <2>6, <2>7, <3>1, TakenKeeps
  <2> QED
    BY <1>1, <2>1, <2>8 DEF TreeInvariant, H, w
<1> QED
  BY <1>16, <1>17, <1>18

\* So does one that borrows from the right leaf, or merges it in
\* (bplustree.c:839-869, 879-931).
LEMMA LeafFromRightKeeps ==
  ASSUME TreeInvariant, level < MaxLevel, NEW k \in Keys, LeafFromRight(k)
  PROVE  TreeInvariant'
<1> DEFINE x == LeafFor(k)
           b == NextOf(x)
           i == heap[x].idx
           key == RemoveAt(heap[x].key, DeletePlace(k) + 1)
           sub == RemoveAt(heap[x].sub, DeletePlace(k) + 1)
           k1 == Append(key, Head(heap[b].key))
           s1 == Append(sub, Head(heap[b].sub))
           s == heap[b].key[2]
           k2 == Tail(heap[b].key)
           s2 == Tail(heap[b].sub)
           y == SetNode(SetNode(heap, x, k1, s1), b, k2, s2)
           kj == key \o heap[b].key
           sj == sub \o heap[b].sub
           i1 == i + 1
<1>1. /\ CanDelete(k) /\ Underfull(x, Entries) /\ ~ BorrowsFromLeft(x)
      /\ \/ /\ Len(heap[b].key) > Half(Entries)
            /\ heap' = SetSeparator(y, heap[x].parent, i1, s)
            /\ list' = list /\ work' = work
         \/ /\ Len(heap[b].key) <= Half(Entries)
            /\ heap' = Without(SetNode(heap, x, kj, sj), b)
            /\ list' = Unlinked(b) /\ work' = RemoveUpwards(heap[x].parent, i1)
      /\ contents' = Without(contents, k) /\ root' = root /\ level' = level
  BY DEF LeafFromRight, DeleteLeaf
<1>2. PICK g, p, j : Losing(g, k, x, key, sub, p, j)
  <2> HIDE DEF x
  <2>1. x = LeafFor(k)
    BY DEF x
  <2> QED
    BY <1>1, <2>1, LosingIs
<1> HIDE DEF x
<1>3. /\ HeapOK(heap) /\ Shape(heap, g, root, level) /\ Links(heap, root)
      /\ Chain(list, DOMAIN heap, g) /\ MapIs(heap, contents) /\ Sizes(heap, root) /\ work = Idle
      /\ x \in DOMAIN heap /\ heap[x].leaf /\ Interval(g, x) /\ Less(x, g, key, sub, k)
      /\ \A m \in DOMAIN heap : \A d : m # x => ~ Has(heap, m, k, d)
      /\ Slot(heap, p, j, x) /\ heap[x].parent = p /\ i = j - 2
      /\ Slot(heap, p, j + 1, b)
      /\ 1 <= Len(heap[x].sub) /\ Len(heap[x].sub) <= Half(Entries)
      /\ x # root
  BY <1>1, <1>2 DEF Losing
<1>4. i1 = j - 1 /\ i1 + 1 = j /\ j \in Int
  BY <1>3 DEF Slot
<1> HIDE DEF i1, i, b, key, sub
<1>6. /\ b \in DOMAIN heap /\ p \in DOMAIN heap /\ ~ heap[p].leaf /\ g[x].hi = g[b].lo
      /\ g[p].dep = g[b].dep + 1 /\ g[p].dep = g[x].dep + 1 /\ g[b].dep \in Nat /\ g[x].dep \in Nat
  <2>1. /\ b \in DOMAIN heap /\ p \in DOMAIN heap /\ ~ heap[p].leaf
        /\ g[b].lo = Bound(heap, g, p, (j + 1) - 1) /\ g[p].dep = g[b].dep + 1 /\ g[b].dep \in Nat
    BY <1>3, SlotIs
  <2>2. g[x].hi = Bound(heap, g, p, j) /\ g[p].dep = g[x].dep + 1 /\ g[x].dep \in Nat
    BY <1>3, SlotIs
  <2>3. (j + 1) - 1 = j
    BY <1>4
  <2> QED
    BY <2>1, <2>2, <2>3
<1>7. heap[b].leaf /\ Interval(g, b)
  <2>1. g[b].dep = g[x].dep
    BY <1>6
  <2> QED
    BY <1>3, <1>6, <2>1, DepthIs
<1>8. Run(heap[b].key, heap[b].sub, g[x].hi, g[b].hi)
  <2>1. LeafOK(heap, g, b)
    BY <1>3, <1>6, <1>7, DepthIs DEF OwnOK
  <2> QED
    BY <1>3, <1>6, <2>1, LeafRun
<1>9. b # root
  BY <1>3, SlotUnique
<1>10. /\ 1 <= Len(heap[b].sub) /\ Len(heap[b].sub) <= Entries
       /\ Len(heap[b].sub) >= Entries \div 2 /\ Len(heap[x].sub) >= Entries \div 2
       /\ Len(heap[b].sub) \in Nat /\ Len(heap[x].sub) \in Nat
  <2>1. Fits(heap, root, b) /\ Fits(heap, root, x)
    BY <1>3, <1>6 DEF Sizes
  <2> QED
    BY <1>3, <1>6, <1>7, <1>9, <2>1, NodeFields DEF Fits
<1>11. /\ Run(key, sub, g[x].lo, g[x].hi) /\ Len(sub) = Len(heap[x].sub) - 1
       /\ \A l, e : HasPair(key, sub, l, e) <=> HasPair(heap[x].key, heap[x].sub, l, e) /\ l # k
  BY <1>3 DEF Less
<1>12. /\ g[x].lo \in Int /\ g[x].hi \in Int /\ g[b].hi \in Int /\ g[x].lo < g[x].hi
       /\ g[x].hi < g[b].hi
  BY <1>3, <1>6, <1>7 DEF Interval
<1>13. \A l, e : HasPair(heap[b].key, heap[b].sub, l, e) => l # k
  <2>1. b # x
    BY <1>6, <1>12
  <2> QED
    BY <1>3, <1>6, <1>7, <2>1 DEF Has
<1>14. Len(heap[b].key) = Len(heap[b].sub)
  BY <1>8 DEF Run
<1>15. \A m \in DOMAIN heap \ {x, b} : \A d : ~ Has(heap, m, k, d)
  BY <1>3
<1>18. Len(heap[b].key) \in Int /\ Half(Entries) \in Int
  BY <1>10, <1>14, EntriesAssumption, HalfIs
<1>16. CASE Len(heap[b].key) > Half(Entries)
  <2>0. ~ (Len(heap[b].key) <= Half(Entries))
    BY <1>16, <1>18
  <2> HIDE DEF y, s, kj, sj
  <2>1. heap' = SetSeparator(y, p, i1, s) /\ list' = list /\ work' = Idle
    BY <1>1, <1>3, <2>0
  <2> USE DEF y, s, kj, sj
  <2> DEFINE n1 == Len(sub) + 1
             n2 == Len(heap[b].sub) - 1
  <2>2. LeafFits(n1) /\ LeafFits(n2) /\ Len(heap[b].key) >= 2
    <3> DEFINE m == Len(heap[b].sub)
               n == Len(heap[x].sub)
    <3>1. /\ m \in Nat /\ n \in Nat /\ m > Half(Entries) /\ m <= Entries /\ 1 <= n
          /\ n <= Half(Entries) /\ n >= Entries \div 2
      BY <1>3, <1>10, <1>14, <1>16
    <3>2. n1 = n /\ n2 = m - 1
      BY <1>10, <1>11
    <3> HIDE DEF m, n, n1, n2
    <3>3. LeafFits(m - 1) /\ LeafFits(n) /\ m >= 2
      BY ONLY <3>1, LentFits
    <3> QED
      BY <1>14, <3>2, <3>3 DEF m
  <2>3. Reshared(key, sub, heap[b].key, heap[b].sub, k1, s1, k2, s2, g[x].lo, g[b].hi, n1, n2, s)
    <3> DEFINE lo == g[x].lo
               mid == g[x].hi
               hi == g[b].hi
               kb == heap[b].key
               sb == heap[b].sub
    <3>1. /\ lo \in Int /\ mid \in Int /\ hi \in Int /\ lo < mid /\ mid < hi
          /\ Run(key, sub, lo, mid) /\ Run(kb, sb, mid, hi) /\ Len(kb) >= 2
          /\ k1 = Append(key, Head(kb)) /\ s1 = Append(sub, Head(sb))
          /\ k2 = Tail(kb) /\ s2 = Tail(sb) /\ s = kb[2]
          /\ n1 = Len(sub) + 1 /\ n2 = Len(sb) - 1
      BY <1>8, <1>11, <1>12, <2>2
    <3> HIDE DEF lo, mid, hi, kb, sb, k1, k2, s1, s2, s, n1, n2
    <3>2. Reshared(key, sub, kb, sb, k1, s1, k2, s2, lo, hi, n1, n2, s)
      BY ONLY <3>1, BorrowFirst
    <3> QED
      BY <3>2 DEF lo, hi, kb, sb
  <2> HIDE DEF k1, k2, s1, s2, s, n1, n2
  <2>4. /\ Len(s1) = n1 /\ Len(s2) = n2
        /\ Run(k1, s1, g[x].lo, s) /\ Run(k2, s2, s, g[b].hi)
        /\ s \in Keys /\ g[x].lo < s /\ s < g[b].hi
        /\ \A l, e : HasPair(k1, s1, l, e) \/ HasPair(k2, s2, l, e)
                       <=> HasPair(key, sub, l, e) \/ HasPair(heap[b].key, heap[b].sub, l, e)
    BY <2>3 DEF Reshared
  <2>5. PairSet(heap, y, x, b, k1, s1, k2, s2)
    <3>1. /\ HeapOK(heap) /\ x \in DOMAIN heap /\ b \in DOMAIN heap /\ x # b
          /\ k1 \in Seq(Keys) /\ s1 \in Seq(Item) /\ k2 \in Seq(Keys) /\ s2 \in Seq(Item)
          /\ y = SetNode(SetNode(heap, x, k1, s1), b, k2, s2)
      BY <1>3, <1>6, <1>12, <2>4 DEF Run
    <3> HIDE DEF y
    <3> QED
      BY ONLY <3>1, PairSetIs
  <2> DEFINE H == heap'
             D == DOMAIN heap
             g2 == Recutting(g, D, x, b, s)
  <2>6. H = SetSeparator(y, p, i1, s)
    BY <2>1
  <2>7. g2 = Recutting(g, DOMAIN heap, x, b, s)
    OBVIOUS
  <2> HIDE DEF H, D, g2, y
  <2>8. /\ Recut(heap, H, g, g2, p, j, x, b, s) /\ HeapOK(H)
        /\ Sharing(heap, H, x, b, p, k1, s1, k2, s2)
    BY ONLY <1>3, <1>4, <1>7, <2>4, <2>5, <2>6, <2>7, LeafRecut
  <2>9. TreeIs(H, Idle, root, level, list, g2)
    BY ONLY <1>3, <2>8, RecutStep
  <2>10. StateOK(H, Idle, root, level, list, Without(contents, k))
    <3>1. \A l, e : HasPair(k1, s1, l, e) \/ HasPair(k2, s2, l, e)
                      <=> (\/ HasPair(heap[x].key, heap[x].sub, l, e)
                           \/ HasPair(heap[b].key, heap[b].sub, l, e)) /\ l # k
      BY <1>11, <1>13, <2>4
    <3>2. LeafFits(Len(s1)) /\ LeafFits(Len(s2))
      BY <2>2, <2>4
    <3> QED
      BY ONLY <1>3, <1>6, <1>7, <1>15, <2>8, <2>9, <3>1, <3>2, SharedKeeps
  <2> QED
    BY <1>1, <2>1, <2>10 DEF TreeInvariant, H
<1>17. CASE Len(heap[b].key) <= Half(Entries)
  <2>1. heap' = Without(SetNode(heap, x, kj, sj), b)
        /\ list' = Unlinked(b) /\ work' = RemoveUpwards(p, i1)
    <3>1. ~ (Len(heap[b].key) > Half(Entries))
      BY <1>17, <1>18
    <3> HIDE DEF y, s, kj, sj
    <3> QED
      BY <1>1, <1>3, <3>1
  <2>2. /\ Run(kj, sj, g[x].lo, g[b].hi) /\ Len(kj) = Len(key) + Len(heap[b].key)
        /\ \A l, e : HasPair(kj, sj, l, e)
                       <=> HasPair(key, sub, l, e) \/ HasPair(heap[b].key, heap[b].sub, l, e)
    <3> DEFINE lo == g[x].lo
               mid == g[x].hi
               hi == g[b].hi
               kb == heap[b].key
               sb == heap[b].sub
    <3>1. /\ lo \in Int /\ mid \in Int /\ hi \in Int /\ lo <= mid /\ mid <= hi
          /\ Run(key, sub, lo, mid) /\ Run(kb, sb, mid, hi)
      BY <1>8, <1>11, <1>12
    <3> HIDE DEF lo, mid, hi, kb, sb
    <3>2. /\ Run(key \o kb, sub \o sb, lo, hi) /\ Len(key \o kb) = Len(key) + Len(kb)
          /\ \A l, e : HasPair(key \o kb, sub \o sb, l, e)
                         <=> HasPair(key, sub, l, e) \/ HasPair(kb, sb, l, e)
      BY ONLY <3>1, RunJoin
    <3> QED
      BY <3>2 DEF lo, hi, kb, sb
  <2> HIDE DEF kj, sj
  <2>3. LeafFits(Len(sj))
    <3> DEFINE m == Len(heap[b].sub)
               n == Len(heap[x].sub)
    <3>1. /\ m \in Nat /\ n \in Nat /\ 1 <= m /\ m <= Half(Entries) /\ m >= Entries \div 2
          /\ 1 <= n /\ n <= Half(Entries)
      BY <1>3, <1>10, <1>14, <1>17
    <3>2. Len(sj) = Len(kj) /\ Len(sub) = Len(key)
      BY <1>11, <2>2 DEF Run
    <3>3. Len(sj) = m + (n - 1)
      <4>1. m \in Nat /\ n \in Nat /\ Len(sub) = n - 1 /\ Len(sj) = Len(sub) + m
        BY <1>10, <1>11, <1>14, <2>2, <3>2
      <4> HIDE DEF m, n
      <4>2. (n - 1) + m = m + (n - 1)
        BY ONLY <4>1
      <4> QED
        BY <4>1, <4>2
    <3> HIDE DEF m, n
    <3>4. LeafFits(m + (n - 1))
      BY ONLY <3>1, JoinedFits
    <3> QED
      BY <3>3, <3>4
  <2> DEFINE H == heap'
             D == DOMAIN heap
             g2 == Merging(g, D, x, b)
             w == RemoveUpwards(p, i1)
  <2>4. H = Without(SetNode(heap, x, kj, sj), b) /\ g2 = Merging(g, DOMAIN heap, x, b)
        /\ w = RemoveUpwards(p, i1) /\ Run(kj, sj, g[x].lo, g[b].hi)
    BY <2>1, <2>2
  <2>5. w.op = "remove"
    BY DEF RemoveUpwards
  <2>10. level < MaxLevel
    OBVIOUS
  <2> HIDE DEF H, D, g2, w
  <2>6. Merged(heap, H, g, g2, p, j, x, b) /\ HeapOK(H) /\ Taking(heap, H, x, b, kj, sj)
    BY ONLY <1>3, <1>7, <2>4, LeafMerge
  <2>7. TreeIs(H, w, root, level, Unlinked(b), g2)
    <3>1. TreeIs(H, RemoveUpwards(p, i1), root, level, Unlinked(b), g2)
      BY ONLY <1>3, <1>4, <2>6, <2>10, MergeStep
    <3> QED
      BY <2>4, <3>1
  <2>8. StateOK(H, w, root, level, Unlinked(b), Without(contents, k))
    <3>1. \A l, e : HasPair(kj, sj, l, e)
                      <=> (\/ HasPair(heap[x].key, heap[x].sub, l, e)
                           \/ HasPair(heap[b].key, heap[b].sub, l, e)) /\ l # k
      BY <1>11, <1>13, <2>2
    <3> QED
      BY ONLY <1>3, <1>6, <1>7, <1>15, <2>3, <2>5, <2>6, <2>7, <3>1, TakenKeeps
  <2> QED
    BY <1>1, <2>1, <2>8 DEF TreeInvariant, H, w
<1> QED
  BY <1>16, <1>17, <1>18

-----------------------------------------------------------------------------
(***************************************************************************)
(* parent_node_build.                                                      *)
(***************************************************************************)

\* A tree with the same leaves holds the same map.
LEMMA LeavesKept ==
  ASSUME NEW h, NEW H, NEW c, MapIs(h, c),
         \A n : (n \in DOMAIN H /\ H[n].leaf) <=> (n \in DOMAIN h /\ h[n].leaf),
         \A n \in DOMAIN h : h[n].leaf => H[n].key = h[n].key /\ H[n].sub = h[n].sub
  PROVE  MapIs(H, c)
<1>1. ASSUME NEW l, NEW e PROVE Entry(H, l, e) <=> Entry(h, l, e)
  <2>1. \A n \in DOMAIN H : Has(H, n, l, e) => n \in DOMAIN h /\ Has(h, n, l, e)
    BY DEF Has
  <2>2. \A n \in DOMAIN h : Has(h, n, l, e) => n \in DOMAIN H /\ Has(H, n, l, e)
    BY DEF Has
  <2> QED
    BY <2>1, <2>2 DEF Entry
<1> QED
  BY <1>1 DEF MapIs

\* What comes of a tree whose pending call adds a key and a child to its parent.
Building(g) ==
  /\ HeapOK(heap) /\ BuildOK(heap, work) /\ WorkOK(heap, work)
  /\ root \in DOMAIN heap \cup {Null}
  /\ Shape(Settled(heap, work), g, RootOf(heap, work, root), HeightOf(heap, work, level))
  /\ Links(Settled(heap, work), RootOf(heap, work, root))
  /\ Chain(list, DOMAIN heap, g)
  /\ Sizes(heap, RootOf(heap, work, root)) /\ MapIs(heap, contents)

\* What is known while parent_node_build is pending.
LEMMA BuildingIs ==
  ASSUME TreeInvariant, work.op = "build"
  PROVE  \E g : Building(g)
<1>1. PICK g : TreeIs(heap, work, root, level, list, g)
  BY DEF TreeInvariant, StateOK
<1>2. Sizes(heap, RootOf(heap, work, root)) /\ MapIs(heap, contents)
  BY DEF TreeInvariant, StateOK
<1>3. Building(g)
  BY <1>1, <1>2 DEF TreeIs, WorkOK, Building
<1> QED
  BY <1>3

\* A new root keeps the invariant (bplustree.c:234-266).
LEMMA NewRootKeeps ==
  ASSUME TreeInvariant, level < MaxLevel, NewRoot
  PROVE  TreeInvariant'
<1> DEFINE z == NewNode
           w == work
           H == heap'
           ls == list'
<1>1. /\ w.op = "build" /\ heap[w.left].parent = Null /\ heap[w.right].parent = Null
      /\ H = RootedOf(heap, w) /\ root' = z /\ level' = level + 1
      /\ ls = [list EXCEPT ![level + 1] = <<z>> \o @]
      /\ work' = Idle /\ contents' = contents /\ z = FreeOf(heap)
  BY DEF NewRoot, RootedOf, FreeOf, NewNode
<1>2. PICK g : Building(g)
  BY <1>1, BuildingIs
<1>3. UpperOf(heap, w) = Null /\ Tall(heap, w)
  BY <1>1 DEF UpperOf, Tall
<1>4. Settled(heap, w) = H /\ RootOf(heap, w, root) = z /\ HeightOf(heap, w, level) = level + 1
  BY <1>1, <1>3 DEF Settled, RootOf, HeightOf
<1>5. /\ HeapOK(heap) /\ BuildOK(heap, w) /\ Shape(H, g, z, level + 1) /\ Links(H, z)
      /\ Chain(list, DOMAIN heap, g) /\ Sizes(heap, z) /\ MapIs(heap, contents)
  BY <1>2, <1>4 DEF Building
<1>6. w.left \in DOMAIN heap /\ w.right \in DOMAIN heap /\ w.left # w.right /\ w.key \in Keys
  BY <1>5 DEF BuildOK
<1> HIDE DEF H, z, w, ls
<1>7. RootedBy(heap, H, z, w.left, w.right, w.key)
  <2>1. RootedBy(heap, RootedOf(heap, w), FreeOf(heap), w.left, w.right, w.key)
    BY ONLY <1>5, <1>6, RootedIs
  <2> QED
    BY <1>1, <2>1
<1>8. /\ HeapOK(H) /\ DOMAIN H = DOMAIN heap \cup {z}
      /\ \A m \in DOMAIN heap : Same(heap, H, m)
      /\ H[z].leaf = FALSE /\ Len(H[z].sub) = 2
  BY <1>7 DEF RootedBy
<1>9. z \in Nat \ {0} /\ z \notin DOMAIN heap
  BY <1>1, <1>5, FreeIs
<1>10. level + 1 \in Nat
  BY <1>5 DEF Shape
<1>11. g[z].dep = level + 1
  BY <1>5, <1>9 DEF Shape, Null
<1>12. \A n \in DOMAIN heap : g[n].dep # level + 1
  <2>1. SUFFICES ASSUME NEW n \in DOMAIN heap PROVE g[n].dep # level + 1
    OBVIOUS
  <2>2. PICK p, j : Slot(H, p, j, n)
    BY <1>5, <1>8, <1>9 DEF Shape, NodeOK, HasParent
  <2>3. p \in DOMAIN H /\ g[p].dep = g[n].dep + 1 /\ g[n].dep \in Nat
    BY <1>5, <2>2, SlotIs
  <2>4. g[p].dep \in 0 .. level + 1
    BY <1>5, <2>3, DepthIs
  <2> DEFINE top == level + 1
  <2> HIDE DEF top
  <2>5. g[p].dep \in 0 .. top /\ top \in Nat
    BY <1>10, <2>4 DEF top
  <2>6. g[n].dep # top
    BY <2>3, <2>5
  <2> QED
    BY <2>6 DEF top
<1>13. Chain(ls, DOMAIN H, g)
  <2> DEFINE D == DOMAIN heap
             E == DOMAIN H
             l == level + 1
  <2>1. /\ Chain(list, D, g) /\ z \notin D /\ (\A n \in D : g[n].dep # l) /\ g[z].dep = l
        /\ (\A n \in D : g[n] = g[n]) /\ E = D \cup {z} /\ ls = Headed(list, l, z)
    BY <1>1, <1>5, <1>8, <1>9, <1>11, <1>12 DEF Headed
  <2>2. Interval(g, z)
    BY <1>5, <1>8, DepthIs
  <2> HIDE DEF D, E, l
  <2>3. Chain(ls, E, g)
    BY ONLY <2>1, <2>2, ChainNew
  <2> QED
    BY <2>3 DEF E
<1>14. TreeIs(H, Idle, z, level + 1, ls, g)
  BY <1>5, <1>8, <1>13, IdleTree
<1>15. Sizes(H, z)
  <2>1. Fits(H, z, z)
    BY <1>8, OrderAssumption DEF Fits
  <2>2. \A m \in DOMAIN heap : Fits(H, z, m)
    BY <1>5, <1>8 DEF Sizes, Fits, Same
  <2> QED
    BY <1>8, <2>1, <2>2 DEF Sizes
<1>16. MapIs(H, contents)
  <2>1. \A n : (n \in DOMAIN H /\ H[n].leaf) <=> (n \in DOMAIN heap /\ heap[n].leaf)
    BY <1>8 DEF Same
  <2>2. \A n \in DOMAIN heap : heap[n].leaf => H[n].key = heap[n].key /\ H[n].sub = heap[n].sub
    BY <1>8 DEF Same
  <2> QED
    BY ONLY <1>5, <2>1, <2>2, LeavesKept
<1>17. StateOK(H, Idle, z, level + 1, ls, contents)
  BY <1>14, <1>15, <1>16, IdleState
<1> QED
  BY <1>1, <1>17 DEF TreeInvariant, H, ls

\* An insertion into a parent with room keeps the invariant
\* (bplustree.c:412-428).
LEMMA NonLeafSimpleInsertKeeps ==
  ASSUME TreeInvariant, level < MaxLevel, NonLeafSimpleInsert
  PROVE  TreeInvariant'
<1> DEFINE u == Upper
           i == Insert
           w == work
           H == heap'
<1>1. w.op = "build" /\ u # Null /\ Len(heap[u].sub) # Order
      /\ work' = Idle /\ root' = root /\ level' = level /\ list' = list /\ contents' = contents
  BY DEF NonLeafSimpleInsert
<1>2. u = UpperOf(heap, w) /\ i = PlaceOf(heap, w)
  BY DEF Upper, Insert, UpperOf, PlaceOf
<1>3. H = Settled(heap, w)
  <2>1. H = InsertedAt(heap, u, i, w.key, w.left, w.right)
    BY DEF NonLeafSimpleInsert, InsertedAt, WithParent, ParentsTo, NewChildren, TwoFor
  <2>2. H = InsertedOf(heap, w)
    BY <1>2, <2>1 DEF InsertedOf
  <2> QED
    BY <1>1, <1>2, <2>2 DEF Settled
<1>4. PICK g : Building(g)
  BY <1>1, BuildingIs
<1>5. RootOf(heap, w, root) = root /\ HeightOf(heap, w, level) = level
  BY <1>1, <1>2 DEF Tall, RootOf, HeightOf
<1>6. /\ HeapOK(heap) /\ WorkOK(heap, w) /\ Shape(H, g, root, level) /\ Links(H, root)
      /\ Chain(list, DOMAIN heap, g) /\ Sizes(heap, root) /\ MapIs(heap, contents)
  BY <1>3, <1>4, <1>5 DEF Building
<1>7. /\ u \in DOMAIN heap /\ ~ heap[u].leaf /\ i \in 0 .. Len(heap[u].key)
      /\ w.left \in DOMAIN heap /\ w.right \in DOMAIN heap
      /\ Len(heap[u].sub) = Len(heap[u].key) + 1
      /\ HeapOK(H) /\ DOMAIN H = DOMAIN heap
      /\ \A m \in DOMAIN heap \ {u} : Same(heap, H, m)
      /\ H[u].leaf = heap[u].leaf
      /\ H[u].sub = TwoFor(heap[u].sub, i, w.left, w.right)
  <2>1. HeapOK(heap) /\ w.op = "build" /\ WorkOK(heap, w) /\ UpperOf(heap, w) # Null
    BY <1>1, <1>2, <1>6
  <2> HIDE DEF w, H
  <2> QED
    BY <1>2, <1>3, <2>1, BuildIs
<1> HIDE DEF w, u, i, H
<1>8. Len(H[u].sub) = Len(heap[u].sub) + 1 /\ Len(heap[u].sub) \in Nat
  <2>1. heap[u].sub \in Seq(Item) /\ Len(heap[u].key) \in Nat /\ Len(heap[u].sub) \in Nat
        /\ w.left \in Item /\ w.right \in Item
    BY <1>6, <1>7, NodeFields
  <2> DEFINE sb == heap[u].sub
             a == w.left
             b == w.right
  <2>2. sb \in Seq(Item) /\ i \in 0 .. Len(sb) - 1 /\ a \in Item /\ b \in Item
    BY <1>7, <2>1
  <2> HIDE DEF sb, a, b
  <2>3. Len(TwoFor(sb, i, a, b)) = Len(sb) + 1
    <3>1. Doubled(TwoFor(sb, i, a, b), Item, sb, i, a, b)
      BY ONLY <2>2, ReplacedByTwo
    <3> QED
      BY ONLY <3>1 DEF Doubled
  <2> QED
    BY <1>7, <2>1, <2>3 DEF sb, a, b
<1>9. TreeIs(H, Idle, root, level, list, g)
  BY <1>6, <1>7, IdleTree
<1>10. Sizes(H, root)
  <2>1. Fits(H, root, u)
    <3>1. Fits(heap, root, u)
      BY <1>6, <1>7 DEF Sizes
    <3> DEFINE n == Len(heap[u].sub)
               m == Len(H[u].sub)
    <3>2. n \in Nat /\ m = n + 1 /\ 2 <= n /\ n <= Order /\ n # Order
          /\ (u # root => n >= Order \div 2)
      BY <1>1, <1>7, <1>8, <3>1 DEF Fits, u
    <3> DEFINE low == Order \div 2
    <3>4. low \in Nat
      BY OrderAssumption
    <3> HIDE DEF n, m, low
    <3>3. 2 <= m /\ m <= Order /\ (u # root => m >= low)
      BY <3>2, <3>4, OrderAssumption DEF low
    <3> QED
      BY <1>7, <3>3 DEF Fits, m, low
  <2>2. \A m \in DOMAIN heap \ {u} : Fits(H, root, m)
    BY <1>6, <1>7 DEF Sizes, Fits, Same
  <2> QED
    BY <1>7, <2>1, <2>2 DEF Sizes
<1>11. MapIs(H, contents)
  <2>1. \A n : (n \in DOMAIN H /\ H[n].leaf) <=> (n \in DOMAIN heap /\ heap[n].leaf)
    BY <1>7 DEF Same
  <2>2. \A n \in DOMAIN heap : heap[n].leaf => H[n].key = heap[n].key /\ H[n].sub = heap[n].sub
    BY <1>7 DEF Same
  <2> QED
    BY ONLY <1>6, <2>1, <2>2, LeavesKept
<1>12. StateOK(H, Idle, root, level, list, contents)
  BY <1>9, <1>10, <1>11, IdleState
<1> QED
  BY <1>1, <1>12 DEF TreeInvariant, H

\* The children of b have all been told their parent and their place.
Adopted(h, H, b) ==
  /\ HeapOK(H) /\ DOMAIN H = DOMAIN h
  /\ \A m \in DOMAIN h : Same(h, H, m)
  /\ \A j \in 1 .. Len(h[b].sub) : H[h[b].sub[j]].parent = b /\ H[h[b].sub[j]].idx = j - 2
  /\ \A m \in DOMAIN h : (\A j \in 1 .. Len(h[b].sub) : h[b].sub[j] # m) => H[m] = h[m]

\* A node's children, all told their parent.
LEMMA AdoptAll ==
  ASSUME NEW h, HeapOK(h), NEW b \in DOMAIN h, Distinct(h[b].sub),
         \A j \in 1 .. Len(h[b].sub) : h[b].sub[j] \in DOMAIN h,
         NEW H, H = Adopt(h, b, Places(h, b))
  PROVE  Adopted(h, H, b)
<1> DEFINE pl == Places(h, b)
           len == Len(h[b].sub)
<1>1. len \in Nat
  BY NodeFields
<1>2. pl = 0 .. len - 1
  BY DEF Places
<1> HIDE DEF pl, len
<1>3. \A p \in pl : p + 1 \in 1 .. len /\ (p + 1) - 2 = p - 1
  BY <1>1, <1>2
<1>4. \A j \in 1 .. len : j - 1 \in pl /\ (j - 1) + 1 = j /\ (j - 1) - 1 = j - 2
  BY <1>1, <1>2
<1>5. Apart(h, b, pl)
  <2>1. ASSUME NEW p \in pl, NEW q \in pl, h[b].sub[p + 1] = h[b].sub[q + 1] PROVE p = q
    <3>1. p + 1 = q + 1
      BY <1>3, <2>1 DEF Distinct, len
    <3> QED
      BY <1>2, <3>1
  <2> QED
    BY <1>2, <2>1 DEF Apart, len
<1>6. /\ HeapOK(H) /\ DOMAIN H = DOMAIN h
      /\ \A m \in DOMAIN h : H[m].leaf = h[m].leaf /\ H[m].key = h[m].key /\ H[m].sub = h[m].sub
      /\ \A p \in pl : h[b].sub[p + 1] \in DOMAIN h =>
           H[h[b].sub[p + 1]].idx = p - 1 /\ H[h[b].sub[p + 1]].parent = b
      /\ \A m \in DOMAIN h : (\A p \in pl : h[b].sub[p + 1] # m) => H[m] = h[m]
  <2>1. H = Adopt(h, b, pl)
    BY DEF pl
  <2>2. LET r == Adopt(h, b, pl) IN
        /\ HeapOK(r) /\ DOMAIN r = DOMAIN h
        /\ \A m \in DOMAIN h : r[m].leaf = h[m].leaf /\ r[m].key = h[m].key /\ r[m].sub = h[m].sub
        /\ \A p \in pl : h[b].sub[p + 1] \in DOMAIN h =>
             r[h[b].sub[p + 1]].idx = p - 1 /\ r[h[b].sub[p + 1]].parent = b
        /\ \A m \in DOMAIN h : (\A p \in pl : h[b].sub[p + 1] # m) => r[m] = h[m]
    BY <1>5, AdoptIs
  <2> QED
    BY <2>1, <2>2
<1>7. \A j \in 1 .. len : H[h[b].sub[j]].parent = b /\ H[h[b].sub[j]].idx = j - 2
  <2>1. SUFFICES ASSUME NEW j \in 1 .. len
                 PROVE  H[h[b].sub[j]].parent = b /\ H[h[b].sub[j]].idx = j - 2
    OBVIOUS
  <2> DEFINE p == j - 1
  <2>2. p \in pl /\ p + 1 = j /\ p - 1 = j - 2
    BY <1>4
  <2> HIDE DEF p
  <2>3. h[b].sub[j] \in DOMAIN h
    BY DEF len
  <2> QED
    BY <1>6, <2>2, <2>3
<1>8. ASSUME NEW m \in DOMAIN h, \A j \in 1 .. len : h[b].sub[j] # m PROVE H[m] = h[m]
  <2>1. \A p \in pl : h[b].sub[p + 1] # m
    BY <1>3, <1>8
  <2> QED
    BY <1>6, <2>1
<1> QED
  BY <1>6, <1>7, <1>8 DEF Adopted, Same, len

\* Unless the root was split, it stays the root.
LEMMA SplitRoot ==
  ASSUME NEW h, NEW H, NEW g, NEW g2, NEW rt, NEW lv,
         HeapOK(h), Shape(h, g, rt, lv), Links(h, rt),
         NEW x, NEW z, NEW a, NEW b, NEW s, Split(h, H, g, g2, x, z, a, b, s),
         NEW w, w.left = a, w.right = b
  PROVE  x = rt \/ RootOf(H, w, rt) = rt
<1>1. SUFFICES ASSUME x # rt PROVE ~ Tall(H, w)
  BY DEF RootOf
<1>2. x \in DOMAIN h /\ z \notin DOMAIN h /\ ((a = x /\ b = z) \/ (a = z /\ b = x))
      /\ DOMAIN H = DOMAIN h \cup {z} /\ H[z].parent = Null /\ KidsMoved(h, H, a, b)
  BY DEF Split
<1>3. h[x].parent # Null
  <2>2. HeapOK(h) /\ Shape(h, g, rt, lv) /\ Links(h, rt) /\ x \in DOMAIN h
    BY <1>2
  <2>1. h[x].parent = Null <=> x = rt
    BY ONLY <2>2, OrphanIsRoot
  <2> QED
    BY <1>1, <2>1
<1>4. ~ KidOf(h, a, x) /\ ~ KidOf(h, b, x)
  <2>1. ~ KidOf(h, x, x)
    BY SlotIs DEF KidOf
  <2>2. ~ KidOf(h, z, x)
    BY <1>2 DEF KidOf, Slot
  <2> QED
    BY <1>2, <2>1, <2>2
<1>5. H[x].parent = h[x].parent
  BY <1>2, <1>4 DEF KidsMoved, SameLink
<1> QED
  BY <1>2, <1>3, <1>5 DEF Tall, UpperOf

\* Where a full non-leaf and the new child are cut in two.
CutPlace(i) == IF i <= Half(Order) THEN Half(Order) ELSE Half(Order) + 1

NodeFits(n) == 2 <= n /\ n <= Order /\ n >= Order \div 2

\* Both halves of a full inner node are half full.
LEMMA CutPlaceIs ==
  ASSUME NEW i \in 0 .. Order - 1
  PROVE  /\ CutPlace(i) \in 1 .. Order
         /\ NodeFits(CutPlace(i)) /\ NodeFits(Order + 1 - CutPlace(i))
         /\ i >= Half(Order) => CutPlace(i) <= i
<1> DEFINE half == Half(Order)
           low == Order \div 2
           c == CutPlace(i)
<1>1. /\ half \in Nat /\ half >= 2 /\ half <= Order /\ half >= low /\ low \in Nat
      /\ Order + 1 - half >= 2 /\ Order + 1 - half >= low /\ Order - half >= low /\ low <= Order
  BY OrderAssumption DEF Half
<1>2. c = IF i <= half THEN half ELSE half + 1
  BY DEF CutPlace
<1> HIDE DEF half, low, c
<1>3. c \in 1 .. Order
  BY <1>1, <1>2, OrderAssumption
<1>4. 2 <= c /\ c <= Order /\ c >= low
  BY <1>1, <1>2, OrderAssumption
<1>5. 2 <= Order + 1 - c /\ Order + 1 - c <= Order /\ Order + 1 - c >= low
  BY <1>1, <1>2, OrderAssumption
<1>6. i >= half => c <= i
  BY <1>1, <1>2, OrderAssumption
<1> QED
  BY <1>3, <1>4, <1>5, <1>6 DEF NodeFits, low, half, c

\* A full non-leaf u and its new child: v is the tree as if there was room, p
\* the tree in which only the two children know their parent.
Prepared(g, v, p, u, i) ==
  /\ HeapOK(v) /\ HeapOK(p) /\ DOMAIN v = DOMAIN heap /\ DOMAIN p = DOMAIN heap
  /\ Shape(v, g, root, level) /\ Links(v, root) /\ Chain(list, DOMAIN v, g)
  /\ u \in DOMAIN heap /\ ~ heap[u].leaf /\ ~ v[u].leaf
  /\ Len(heap[u].sub) = Len(heap[u].key) + 1 /\ i \in 0 .. Len(heap[u].key)
  /\ v[u].key = InsertAt(heap[u].key, i + 1, work.key) /\ v[u].sub = NewChildren
  /\ Len(v[u].sub) = Len(heap[u].sub) + 1 /\ Len(v[u].key) = Len(heap[u].sub)
  /\ \A m \in DOMAIN heap : Same(heap, p, m) /\ p[m].parent = v[m].parent
  /\ \A m \in DOMAIN heap \ {u} : Same(heap, v, m)
  /\ KidsOf(v, u) /\ Distinct(v[u].sub)
  /\ \A j \in 1 .. Len(v[u].sub) : v[u].sub[j] \in DOMAIN heap /\ v[u].sub[j] # u
  /\ \A m \in DOMAIN heap : (\A q \in i + 1 .. Len(v[u].sub) : v[u].sub[q] # m)
                              => p[m].idx = v[m].idx

\* What is known of the full parent before it is split.
LEMMA PreparedIs ==
  ASSUME TreeInvariant, work.op = "build", Upper # Null
  PROVE  \E g : Prepared(g, Settled(heap, work), WithParent, Upper, Insert)
<1> DEFINE u == Upper
           i == Insert
           w == work
           l == w.left
           r == w.right
           v == Settled(heap, w)
           p == WithParent
<1>1. u = UpperOf(heap, w) /\ i = PlaceOf(heap, w)
  BY DEF Upper, Insert, UpperOf, PlaceOf
<1>2. PICK g : Building(g)
  BY BuildingIs
<1>3. RootOf(heap, w, root) = root /\ HeightOf(heap, w, level) = level
  BY <1>1 DEF Tall, RootOf, HeightOf
<1>4. /\ HeapOK(heap) /\ WorkOK(heap, w) /\ Shape(v, g, root, level) /\ Links(v, root)
      /\ Chain(list, DOMAIN heap, g)
  BY <1>2, <1>3 DEF Building
<1>5. /\ u \in DOMAIN heap /\ ~ heap[u].leaf /\ i \in 0 .. Len(heap[u].key)
      /\ l \in DOMAIN heap /\ r \in DOMAIN heap /\ l # r /\ u # l /\ u # r /\ w.key \in Keys
      /\ Len(heap[u].sub) = Len(heap[u].key) + 1
      /\ v = InsertedAt(heap, u, i, w.key, l, r)
  <2>1. HeapOK(heap) /\ w.op = "build" /\ WorkOK(heap, w) /\ UpperOf(heap, w) # Null
    BY <1>1, <1>4
  <2> HIDE DEF w
  <2> QED
    BY <1>1, <2>1, BuildIs
<1>6. NewChildren = TwoFor(heap[u].sub, i, l, r) /\ p = ParentsTo(heap, u, l, r)
  BY DEF NewChildren, TwoFor, WithParent, ParentsTo
<1> HIDE DEF u, i, w, l, r, v, p
<1>7. /\ HeapOK(p) /\ DOMAIN p = DOMAIN heap /\ p[l].parent = u /\ p[r].parent = u
      /\ \A m \in DOMAIN heap : /\ p[m].leaf = heap[m].leaf /\ p[m].key = heap[m].key
                                /\ p[m].sub = heap[m].sub /\ p[m].idx = heap[m].idx
                                /\ m \notin {l, r} => p[m].parent = heap[m].parent
  <2>1. HeapOK(heap) /\ u \in DOMAIN heap /\ l \in DOMAIN heap /\ r \in DOMAIN heap /\ l # r
    BY <1>4, <1>5
  <2>2. LET h0 == ParentsTo(heap, u, l, r) IN
        /\ HeapOK(h0) /\ DOMAIN h0 = DOMAIN heap
        /\ h0[l].parent = u /\ h0[r].parent = u
        /\ \A m \in DOMAIN heap : /\ h0[m].leaf = heap[m].leaf /\ h0[m].key = heap[m].key
                                  /\ h0[m].sub = heap[m].sub /\ h0[m].idx = heap[m].idx
                                  /\ m \notin {l, r} => h0[m].parent = heap[m].parent
    BY ONLY <2>1, ParentsSet
  <2> QED
    BY <1>6, <2>2
<1>8. /\ HeapOK(v) /\ DOMAIN v = DOMAIN heap
      /\ \A m \in DOMAIN heap \ {u} : Same(heap, v, m)
      /\ v[u].leaf = heap[u].leaf
      /\ v[u].key = InsertAt(heap[u].key, i + 1, w.key)
      /\ v[u].sub = TwoFor(heap[u].sub, i, l, r)
      /\ v[l].parent = u /\ v[r].parent = u
      /\ \A m \in DOMAIN heap \ {l, r} : v[m].parent = heap[m].parent
      /\ \A m \in DOMAIN heap :
           (\A q \in i + 1 .. Len(v[u].sub) : v[u].sub[q] # m) => v[m].idx = heap[m].idx
  BY <1>4, <1>5, InsertedIs
<1>9. Len(v[u].sub) = Len(heap[u].sub) + 1 /\ Len(v[u].key) = Len(heap[u].sub)
  <2> DEFINE sb == heap[u].sub
             ky == heap[u].key
             k == w.key
             e == i + 1
  <2>1. /\ sb \in Seq(Item) /\ l \in Item /\ r \in Item /\ ky \in Seq(Keys) /\ k \in Keys
        /\ Len(sb) = Len(ky) + 1 /\ i \in 0 .. Len(ky) /\ Len(ky) \in Nat
    BY <1>4, <1>5, NodeFields
  <2>2. i \in 0 .. Len(sb) - 1 /\ e \in 1 .. Len(ky) + 1
    BY <2>1
  <2>6. sb \in Seq(Item) /\ i \in 0 .. Len(sb) - 1 /\ l \in Item /\ r \in Item
    BY <2>1, <2>2
  <2>3. v[u].sub = TwoFor(sb, i, l, r) /\ v[u].key = InsertAt(ky, e, k)
    BY <1>8
  <2> HIDE DEF sb, ky, k, e
  <2>4. Len(TwoFor(sb, i, l, r)) = Len(sb) + 1
    <3>1. Doubled(TwoFor(sb, i, l, r), Item, sb, i, l, r)
      BY ONLY <2>6, ReplacedByTwo
    <3> QED
      BY ONLY <3>1 DEF Doubled
  <2>5. Len(InsertAt(ky, e, k)) = Len(ky) + 1
    <3>1. Added(InsertAt(ky, e, k), Keys, ky, e, k)
      BY ONLY <2>1, <2>2, InsertAtIs
    <3> QED
      BY ONLY <3>1 DEF Added
  <2> QED
    BY <2>1, <2>3, <2>4, <2>5 DEF sb
<1>10. \A m \in DOMAIN heap : Same(heap, p, m) /\ p[m].parent = v[m].parent
  BY <1>7, <1>8 DEF Same
<1>11. KidsOf(v, u)
  BY <1>4, <1>5, <1>8, LinksAre
<1>12. Distinct(v[u].sub)
  BY <1>4, <1>5, <1>8, ShapeDistinct
<1>13. \A j \in 1 .. Len(v[u].sub) : v[u].sub[j] \in DOMAIN heap /\ v[u].sub[j] # u
  <2>1. SUFFICES ASSUME NEW j \in 1 .. Len(v[u].sub)
                 PROVE  v[u].sub[j] \in DOMAIN heap /\ v[u].sub[j] # u
    OBVIOUS
  <2> DEFINE n == v[u].sub[j]
  <2>2. Slot(v, u, j, n)
    BY <1>5, <1>8 DEF Slot
  <2> HIDE DEF n
  <2>3. n \in DOMAIN v /\ u # n
    BY <1>4, <2>2, SlotIs
  <2> QED
    BY <1>8, <2>3 DEF n
<1>14. \A m \in DOMAIN heap : (\A q \in i + 1 .. Len(v[u].sub) : v[u].sub[q] # m)
                                 => p[m].idx = v[m].idx
  BY <1>7, <1>8
<1>15. v[u].sub = NewChildren
  BY <1>6, <1>8
<1>16. v[u].key = InsertAt(heap[u].key, i + 1, work.key)
  BY <1>8 DEF w
<1>17. Prepared(g, v, p, u, i)
  BY <1>4, <1>5, <1>7, <1>8, <1>9, <1>10, <1>11, <1>12, <1>13, <1>14, <1>15, <1>16 DEF Prepared
<1> QED
  BY <1>17 DEF v, p, u, i, w

\* The heap of non_leaf_split before the children are told their parents.
Halved(p, y, u, z, a, b, k1, s1, k2, s2) ==
  /\ HeapOK(y) /\ DOMAIN y = DOMAIN p \cup {z} /\ u # z /\ z \notin DOMAIN p
  /\ ~ y[a].leaf /\ y[a].key = k1 /\ y[a].sub = s1
  /\ ~ y[b].leaf /\ y[b].key = k2 /\ y[b].sub = s2
  /\ y[z].parent = Null /\ y[u].parent = p[u].parent /\ y[u].idx = p[u].idx
  /\ \A m \in DOMAIN p \ {u} : y[m] = p[m]

\* The two nodes of a split before the children are told.
LEMMA HalvedIs ==
  ASSUME NEW p, HeapOK(p), NEW u \in DOMAIN p, p[u].leaf = FALSE,
         NEW z \in Nat \ {0}, z \notin DOMAIN p,
         NEW a, NEW b, (a = u /\ b = z) \/ (a = z /\ b = u),
         NEW k1 \in Seq(Keys), NEW s1 \in Seq(Item), NEW k2 \in Seq(Keys), NEW s2 \in Seq(Item),
         NEW y, y = SetNode(SetNode(With(p, z, NonLeafNode(<<>>, <<>>)), a, k1, s1), b, k2, s2)
  PROVE  Halved(p, y, u, z, a, b, k1, s1, k2, s2)
<1> DEFINE rec == NonLeafNode(<<>>, <<>>)
           h == With(p, z, rec)
<1>1. rec.leaf = FALSE /\ rec.parent = Null /\ rec \in NodeRec
  <2>1. <<>> \in Seq(Keys) /\ <<>> \in Seq(Item)
    OBVIOUS
  <2> QED
    BY <2>1 DEF NonLeafNode, NodeRec, Null
<1> HIDE DEF rec
<1>2. /\ HeapOK(h) /\ DOMAIN h = DOMAIN p \cup {z} /\ h[z] = rec
      /\ \A m \in DOMAIN p : h[m] = p[m]
  <2>1. /\ HeapOK(With(p, z, rec)) /\ DOMAIN With(p, z, rec) = DOMAIN p \cup {z}
        /\ With(p, z, rec)[z] = rec
        /\ \A m \in DOMAIN p \ {z} : With(p, z, rec)[m] = p[m]
    <3>1. HeapOK(p) /\ z \in Nat \ {0} /\ rec \in NodeRec
      BY <1>1
    <3> QED
      BY ONLY <3>1, WithIs, ZenonT(60)
  <2> QED
    BY <2>1
<1>3. /\ a \in DOMAIN h /\ b \in DOMAIN h /\ a # b
      /\ k1 \in Seq(Keys) /\ s1 \in Seq(Item) /\ k2 \in Seq(Keys) /\ s2 \in Seq(Item)
      /\ y = SetNode(SetNode(h, a, k1, s1), b, k2, s2)
  BY <1>2 DEF rec
<1> HIDE DEF h
<1>4. PairSet(h, y, a, b, k1, s1, k2, s2)
  BY ONLY <1>2, <1>3, PairSetIs
<1>5. h[u].leaf = FALSE /\ h[z].leaf = FALSE
  BY <1>1, <1>2
<1> QED
  BY <1>1, <1>2, <1>4, <1>5, ZenonT(60) DEF PairSet, Halved

\* What the children of a and b have been told in H, from the halved heap y.
Told(p, y, H, u, i, a, b, s1, s2) ==
  /\ HeapOK(H) /\ DOMAIN H = DOMAIN y /\ \A m \in DOMAIN y : Same(y, H, m)
  /\ \A j \in 1 .. Len(s2) : H[s2[j]].parent = b /\ H[s2[j]].idx = j - 2
  /\ b = u => \A j \in 1 .. Len(s1) : H[s1[j]].parent = a /\ H[s1[j]].idx = j - 2
  /\ \A m \in DOMAIN y : /\ \A j \in 1 .. Len(s2) : s2[j] # m
                         /\ b = u => \A j \in 1 .. Len(s1) : s1[j] # m
                         => SameLink(y, H, m)

\* The children of the two nodes after they are told.
LEMMA ToldIs ==
  ASSUME NEW p, NEW y, NEW u, NEW i, NEW z, NEW a, NEW b, NEW k1, NEW s1, NEW k2, NEW s2,
         Halved(p, y, u, z, a, b, k1, s1, k2, s2),
         (a = u /\ b = z) \/ (a = z /\ b = u), u \in DOMAIN p,
         Distinct(s1), Distinct(s2),
         \A j \in 1 .. Len(s1) : s1[j] \in DOMAIN p,
         \A j \in 1 .. Len(s2) : s2[j] \in DOMAIN p,
         \A j \in 1 .. Len(s1), q \in 1 .. Len(s2) : s1[j] # s2[q],
         NEW h3, h3 = Adopt(y, b, Places(y, b)),
         NEW H, H = IF a = z THEN Adopt(h3, a, Places(h3, a)) ELSE h3
  PROVE  Told(p, y, H, u, i, a, b, s1, s2)
<1>1. /\ HeapOK(y) /\ DOMAIN y = DOMAIN p \cup {z} /\ u # z /\ z \notin DOMAIN p
      /\ y[a].sub = s1 /\ y[b].sub = s2 /\ a \in DOMAIN y /\ b \in DOMAIN y
  BY DEF Halved
<1>2. Adopted(y, h3, b)
  <2>1. /\ HeapOK(y) /\ b \in DOMAIN y /\ Distinct(y[b].sub)
        /\ (\A j \in 1 .. Len(y[b].sub) : y[b].sub[j] \in DOMAIN y)
        /\ h3 = Adopt(y, b, Places(y, b))
    BY <1>1
  <2> QED
    BY ONLY <2>1, AdoptAll
<1>3. /\ HeapOK(h3) /\ DOMAIN h3 = DOMAIN y /\ \A m \in DOMAIN y : Same(y, h3, m)
      /\ \A j \in 1 .. Len(s2) : h3[s2[j]].parent = b /\ h3[s2[j]].idx = j - 2
      /\ \A m \in DOMAIN y : (\A j \in 1 .. Len(s2) : s2[j] # m) => h3[m] = y[m]
  BY <1>1, <1>2 DEF Adopted
<1>4. CASE a # z
  <2>1. H = h3 /\ b # u
    BY <1>1, <1>4
  <2>2. \A m \in DOMAIN y : (\A j \in 1 .. Len(s2) : s2[j] # m) => SameLink(y, H, m)
    BY <1>3, <2>1 DEF SameLink
  <2> QED
    BY <1>3, <2>1, <2>2 DEF Told
<1>5. CASE a = z
  <2>1. h3[a].sub = s1 /\ b = u
    BY <1>1, <1>3, <1>5 DEF Same
  <2>2. Adopted(h3, H, a)
    <3>1. /\ HeapOK(h3) /\ a \in DOMAIN h3 /\ Distinct(h3[a].sub)
          /\ (\A j \in 1 .. Len(h3[a].sub) : h3[a].sub[j] \in DOMAIN h3)
          /\ H = Adopt(h3, a, Places(h3, a))
      BY <1>1, <1>3, <1>5, <2>1
    <3> QED
      BY ONLY <3>1, AdoptAll
  <2>3. /\ HeapOK(H) /\ DOMAIN H = DOMAIN h3 /\ \A m \in DOMAIN h3 : Same(h3, H, m)
        /\ \A j \in 1 .. Len(s1) : H[s1[j]].parent = a /\ H[s1[j]].idx = j - 2
        /\ \A m \in DOMAIN h3 : (\A j \in 1 .. Len(s1) : s1[j] # m) => H[m] = h3[m]
    BY <2>1, <2>2 DEF Adopted
  <2>4. \A j \in 1 .. Len(s2) : H[s2[j]].parent = b /\ H[s2[j]].idx = j - 2
    <3>1. \A j \in 1 .. Len(s2) : H[s2[j]] = h3[s2[j]]
      BY <1>1, <1>3, <2>3
    <3> QED
      BY <1>3, <3>1
  <2>5. ASSUME NEW m \in DOMAIN y, \A j \in 1 .. Len(s2) : s2[j] # m,
               \A j \in 1 .. Len(s1) : s1[j] # m
        PROVE  SameLink(y, H, m)
    BY <1>3, <2>3, <2>5 DEF SameLink
  <2>6. \A m \in DOMAIN y : Same(y, H, m)
    BY <1>3, <2>3 DEF Same
  <2> QED
    BY <1>3, <2>1, <2>3, <2>4, <2>5, <2>6 DEF Told
<1> QED
  BY <1>4, <1>5

\* The two nodes a and b that the full node u has become: s1 and s2 are their children,
\* n + 1 in all, and H is the tree in which these have been told.
Divided(g, v, p, y, H, u, i, z, a, b, k1, s1, k2, s2, c, n, s) ==
  /\ Prepared(g, v, p, u, i)
  /\ Halved(p, y, u, z, a, b, k1, s1, k2, s2)
  /\ Told(p, y, H, u, i, a, b, s1, s2)
  /\ FansOf(DOMAIN v, g, v[u].key, v[u].sub, g[u].lo, g[u].hi, g[u].dep,
            k1, s1, k2, s2, c, n, s)
  /\ (a = u /\ b = z) \/ (a = z /\ b = u)
  /\ c \in Nat /\ n \in Nat /\ c <= n + 1 /\ n + 1 = Len(v[u].sub) /\ (a = u => c <= i)

\* The children of the two halves, in the order of the full node.
LEMMA DividedKids ==
  ASSUME NEW g, NEW v, NEW p, NEW y, NEW H, NEW u, NEW i, NEW z, NEW a, NEW b, NEW k1, NEW s1,
         NEW k2, NEW s2, NEW c, NEW n, NEW s,
         Divided(g, v, p, y, H, u, i, z, a, b, k1, s1, k2, s2, c, n, s)
  PROVE  /\ \A j \in 1 .. Len(s1) : j \in 1 .. Len(v[u].sub) /\ s1[j] = v[u].sub[j]
         /\ \A j \in 1 .. Len(s2) : c + j \in 1 .. Len(v[u].sub) /\ s2[j] = v[u].sub[c + j]
         /\ \A j \in 1 .. Len(v[u].sub) : \/ j \in 1 .. Len(s1) /\ s1[j] = v[u].sub[j]
                                          \/ j - c \in 1 .. Len(s2) /\ s2[j - c] = v[u].sub[j]
         /\ \A j \in 1 .. Len(s1), q \in 1 .. Len(s2) : s1[j] # s2[q]
<1>1. /\ c \in Nat /\ n \in Nat /\ c <= n + 1 /\ Len(v[u].sub) = n + 1
      /\ Len(s1) = c /\ Len(s2) = n + 1 - c
      /\ \A j \in 1 .. c : s1[j] = v[u].sub[j]
      /\ \A j \in 1 .. n + 1 - c : s2[j] = v[u].sub[c + j]
      /\ Distinct(v[u].sub)
  BY DEF Divided, FansOf, Prepared
<1>2. \A j \in 1 .. c : j \in 1 .. n + 1
  BY <1>1
<1>3. \A j \in 1 .. n + 1 - c : c + j \in 1 .. n + 1
  BY <1>1
<1>4. ASSUME NEW j \in 1 .. n + 1
      PROVE  \/ j \in 1 .. Len(s1) /\ s1[j] = v[u].sub[j]
             \/ j - c \in 1 .. Len(s2) /\ s2[j - c] = v[u].sub[j]
  <2>1. CASE j <= c
    BY <1>1, <2>1
  <2>2. CASE j > c
    <3>1. j - c \in 1 .. n + 1 - c /\ c + (j - c) = j
      BY <1>1, <2>2
    <3>2. s2[j - c] = v[u].sub[c + (j - c)]
      BY <1>1, <3>1
    <3> QED
      BY <1>1, <3>1, <3>2
  <2> QED
    BY <1>1, <2>1, <2>2
<1>5. ASSUME NEW j \in 1 .. Len(s1), NEW q \in 1 .. Len(s2)
      PROVE  s1[j] # s2[q]
  <2>1. j \in 1 .. n + 1 /\ c + q \in 1 .. n + 1 /\ j # c + q
    BY <1>1
  <2>2. s1[j] = v[u].sub[j] /\ s2[q] = v[u].sub[c + q]
    BY <1>1
  <2> QED
    BY <1>1, <2>1, <2>2 DEF Distinct
<1> QED
  BY <1>1, <1>2, <1>3, <1>4, <1>5

\* The tree in which they have been told differs from v as a split may.
LEMMA DividedMoves ==
  ASSUME NEW g, NEW v, NEW p, NEW y, NEW H, NEW u, NEW i, NEW z, NEW a, NEW b, NEW k1, NEW s1,
         NEW k2, NEW s2, NEW c, NEW n, NEW s,
         Divided(g, v, p, y, H, u, i, z, a, b, k1, s1, k2, s2, c, n, s)
  PROVE  KidsMoved(v, H, a, b)
<1> DEFINE sub == v[u].sub
<1>1. /\ \A j \in 1 .. Len(s1) : j \in 1 .. Len(sub) /\ s1[j] = sub[j]
      /\ \A j \in 1 .. Len(s2) : c + j \in 1 .. Len(sub) /\ s2[j] = sub[c + j]
      /\ \A j \in 1 .. Len(sub) : \/ j \in 1 .. Len(s1) /\ s1[j] = sub[j]
                                  \/ j - c \in 1 .. Len(s2) /\ s2[j - c] = sub[j]
      /\ \A j \in 1 .. Len(s1), q \in 1 .. Len(s2) : s1[j] # s2[q]
  BY DividedKids
<1>2. /\ DOMAIN v = DOMAIN heap /\ DOMAIN p = DOMAIN heap /\ u \in DOMAIN heap /\ ~ v[u].leaf
      /\ \A m \in DOMAIN heap : p[m].parent = v[m].parent
      /\ KidsOf(v, u) /\ Distinct(sub) /\ i \in Nat
      /\ \A j \in 1 .. Len(sub) : sub[j] \in DOMAIN heap /\ sub[j] # u
      /\ \A m \in DOMAIN heap : (\A q \in i + 1 .. Len(sub) : sub[q] # m) => p[m].idx = v[m].idx
  <2>1. Len(heap[u].key) \in Nat
    BY NodeFields, SMTT(60) DEF Divided, Prepared
  <2> QED
    BY DEF Divided, Prepared
<1>3. /\ DOMAIN y = DOMAIN p \cup {z} /\ u # z /\ z \notin DOMAIN p
      /\ ~ y[a].leaf /\ y[a].sub = s1 /\ ~ y[b].leaf /\ y[b].sub = s2
      /\ y[u].parent = p[u].parent /\ y[u].idx = p[u].idx
      /\ \A m \in DOMAIN p \ {u} : y[m] = p[m]
  BY DEF Divided, Halved
<1>4. /\ HeapOK(H) /\ DOMAIN H = DOMAIN y /\ \A m \in DOMAIN y : Same(y, H, m)
      /\ \A j \in 1 .. Len(s2) : H[s2[j]].parent = b /\ H[s2[j]].idx = j - 2
      /\ b = u => \A j \in 1 .. Len(s1) : H[s1[j]].parent = a /\ H[s1[j]].idx = j - 2
      /\ \A m \in DOMAIN y : /\ \A j \in 1 .. Len(s2) : s2[j] # m
                             /\ b = u => \A j \in 1 .. Len(s1) : s1[j] # m
                             => SameLink(y, H, m)
  BY DEF Divided, Told
<1>5. /\ (a = u /\ b = z) \/ (a = z /\ b = u)
      /\ (a = u => c <= i)
      /\ c \in Nat /\ n \in Nat /\ n + 1 = Len(sub) /\ Len(s1) = c
  BY DEF Divided, FansOf
<1>6. a \in DOMAIN y /\ b \in DOMAIN y /\ H[a].sub = s1 /\ H[b].sub = s2 /\ ~ H[a].leaf /\ ~ H[b].leaf
  BY <1>2, <1>3, <1>4, <1>5 DEF Same
<1> HIDE DEF sub
<1>7. KidsOf(H, b)
  BY <1>4, <1>6 DEF KidsOf
<1>8. KidsOf(H, a)
  <2>1. CASE b = u
    BY <1>4, <1>6, <2>1 DEF KidsOf
  <2>2. CASE a = u
    <3> SUFFICES ASSUME NEW j \in 1 .. Len(s1)
                 PROVE  H[s1[j]].parent = a /\ H[s1[j]].idx = j - 2
      BY <1>6 DEF KidsOf
    <3>1. j \in 1 .. Len(sub) /\ s1[j] = sub[j] /\ sub[j] \in DOMAIN heap /\ sub[j] # u
      BY <1>1, <1>2
    <3>2. v[sub[j]].parent = u /\ v[sub[j]].idx = j - 2
      BY <1>2, <3>1 DEF KidsOf, sub
    <3>3. \A q \in i + 1 .. Len(sub) : sub[q] # sub[j]
      <4> TAKE q \in i + 1 .. Len(sub)
      <4>1. q \in 1 .. Len(sub) /\ q # j
        BY <1>2, <1>5, <2>2
      <4> QED
        BY <1>2, <3>1, <4>1 DEF Distinct
    <3>4. y[sub[j]].parent = u /\ y[sub[j]].idx = j - 2
      BY <1>2, <1>3, <3>1, <3>2, <3>3
    <3>5. SameLink(y, H, sub[j])
      <4>1. sub[j] \in DOMAIN y /\ b # u
        BY <1>2, <1>3, <1>5, <2>2, <3>1
      <4>2. \A q \in 1 .. Len(s2) : s2[q] # sub[j]
        BY <1>1, <3>1
      <4> QED
        BY <1>4, <4>1, <4>2
    <3> QED
      BY <2>2, <3>1, <3>4, <3>5 DEF SameLink
  <2> QED
    BY <1>5, <2>1, <2>2
<1>9. ASSUME NEW m \in DOMAIN v \cap DOMAIN H, ~ KidOf(v, a, m), ~ KidOf(v, b, m)
      PROVE  SameLink(v, H, m)
  <2>1. \A j \in 1 .. Len(sub) : sub[j] # m
    BY <1>2, <1>5, <1>9 DEF KidOf, Slot, sub
  <2>2. p[m].parent = v[m].parent /\ p[m].idx = v[m].idx
    <3>1. \A q \in i + 1 .. Len(sub) : q \in 1 .. Len(sub)
      BY <1>2, <1>5
    <3> QED
      BY <1>2, <2>1, <3>1
  <2>3. y[m].parent = p[m].parent /\ y[m].idx = p[m].idx
    BY <1>2, <1>3
  <2>4. SameLink(y, H, m)
    <3>1. \A j \in 1 .. Len(s2) : s2[j] # m
      BY <1>1, <2>1
    <3>2. \A j \in 1 .. Len(s1) : s1[j] # m
      BY <1>1, <2>1
    <3>3. m \in DOMAIN y
      BY <1>4
    <3> QED
      BY <1>4, <3>1, <3>2, <3>3
  <2> QED
    BY <2>2, <2>3, <2>4 DEF SameLink
<1>10. ASSUME NEW m \in DOMAIN v, KidOf(v, a, m) \/ KidOf(v, b, m)
       PROVE  KidOf(H, a, m) \/ KidOf(H, b, m)
  <2>1. PICK j : Slot(v, u, j, m)
    <3>1. \A j : ~ Slot(v, z, j, m)
      BY <1>2, <1>3 DEF Slot
    <3> QED
      BY <1>5, <1>10, <3>1 DEF KidOf
  <2>2. j \in 1 .. Len(sub) /\ sub[j] = m
    BY <2>1 DEF Slot, sub
  <2>3. CASE j \in 1 .. Len(s1) /\ s1[j] = sub[j]
    <3>1. Slot(H, a, j, m)
      BY <1>4, <1>6, <2>2, <2>3 DEF Slot
    <3> QED
      BY <3>1 DEF KidOf
  <2>4. CASE j - c \in 1 .. Len(s2) /\ s2[j - c] = sub[j]
    <3>1. Slot(H, b, j - c, m)
      BY <1>4, <1>6, <2>2, <2>4 DEF Slot
    <3> QED
      BY <3>1 DEF KidOf
  <2> QED
    BY <1>1, <2>2, <2>3, <2>4
<1> QED
  BY <1>7, <1>8, <1>9, <1>10 DEF KidsMoved

\* What the split of an inner node comes to is a split of the settled tree.
LEMMA DividedSplits ==
  ASSUME NEW g, NEW v, NEW p, NEW y, NEW H, NEW u, NEW i, NEW z, NEW a, NEW b, NEW k1, NEW s1,
         NEW k2, NEW s2, NEW c, NEW n, NEW s,
         Divided(g, v, p, y, H, u, i, z, a, b, k1, s1, k2, s2, c, n, s),
         NEW g2, g2 = Shares(g, DOMAIN v, u, a, b, s, FreeOf(H))
  PROVE  /\ Split(v, H, g, g2, u, z, a, b, s)
         /\ g2[FreeOf(H)].lo = g[u].lo /\ g2[FreeOf(H)].hi = g[u].hi
         /\ g2[FreeOf(H)].dep = g[u].dep + 1
<1>1. /\ DOMAIN v = DOMAIN heap /\ DOMAIN p = DOMAIN heap /\ u \in DOMAIN heap /\ v[u].leaf = FALSE
      /\ \A j \in 1 .. Len(v[u].sub) : v[u].sub[j] \in DOMAIN heap /\ v[u].sub[j] # u
      /\ \A m \in DOMAIN heap : Same(heap, p, m)
      /\ \A m \in DOMAIN heap \ {u} : Same(heap, v, m)
  <2>1. HeapOK(v) /\ u \in DOMAIN v /\ ~ v[u].leaf
    BY DEF Divided, Prepared
  <2>2. v[u].leaf = FALSE
    BY <2>1, NodeFields
  <2> QED
    BY <2>2 DEF Divided, Prepared
<1>2. /\ DOMAIN y = DOMAIN p \cup {z} /\ u # z /\ z \notin DOMAIN p
      /\ y[a].leaf = FALSE /\ y[a].key = k1 /\ y[a].sub = s1
      /\ y[b].leaf = FALSE /\ y[b].key = k2 /\ y[b].sub = s2
      /\ y[z].parent = Null
      /\ \A m \in DOMAIN p \ {u} : y[m] = p[m]
  <2>1. /\ HeapOK(y) /\ DOMAIN y = DOMAIN p \cup {z} /\ u # z /\ z \notin DOMAIN p
        /\ ~ y[a].leaf /\ y[a].key = k1 /\ y[a].sub = s1
        /\ ~ y[b].leaf /\ y[b].key = k2 /\ y[b].sub = s2
        /\ y[z].parent = Null
        /\ \A m \in DOMAIN p \ {u} : y[m] = p[m]
    BY DEF Divided, Halved
  <2>2. a \in DOMAIN y /\ b \in DOMAIN y
    BY <1>1, <2>1 DEF Divided
  <2>3. y[a].leaf \in BOOLEAN /\ y[b].leaf \in BOOLEAN
    BY <2>1, <2>2, NodeFields
  <2> QED
    BY <2>1, <2>3
<1>3. /\ HeapOK(H) /\ DOMAIN H = DOMAIN y /\ \A m \in DOMAIN y : Same(y, H, m)
      /\ \A m \in DOMAIN y : /\ \A j \in 1 .. Len(s2) : s2[j] # m
                             /\ b = u => \A j \in 1 .. Len(s1) : s1[j] # m
                             => SameLink(y, H, m)
  BY DEF Divided, Told
<1>4. (a = u /\ b = z) \/ (a = z /\ b = u)
  BY DEF Divided
<1>5. /\ Fan(DOMAIN v, g, k1, s1, g[u].lo, s, g[u].dep)
      /\ Fan(DOMAIN v, g, k2, s2, s, g[u].hi, g[u].dep)
      /\ s \in Keys /\ g[u].lo < s /\ s < g[u].hi
  BY DEF Divided, FansOf
<1>6. /\ \A j \in 1 .. Len(s1) : j \in 1 .. Len(v[u].sub) /\ s1[j] = v[u].sub[j]
      /\ \A j \in 1 .. Len(s2) : c + j \in 1 .. Len(v[u].sub) /\ s2[j] = v[u].sub[c + j]
  BY DividedKids
<1> DEFINE f == FreeOf(H)
<1>7. f # a /\ f # b /\ f \notin DOMAIN H
  <2>1. f \notin DOMAIN H
    BY <1>3, FreeIs
  <2> QED
    BY <1>1, <1>2, <1>3, <1>4, <2>1
<1>8. a # b /\ g2 = Shares(g, DOMAIN v, u, a, b, s, f)
  BY <1>2, <1>4
<1> HIDE DEF f
<1>9. /\ g2[a].lo = g[u].lo /\ g2[a].hi = s /\ g2[a].dep = g[u].dep
      /\ g2[b].lo = s /\ g2[b].hi = g[u].hi /\ g2[b].dep = g[u].dep
      /\ g2[f].lo = g[u].lo /\ g2[f].hi = g[u].hi /\ g2[f].dep = g[u].dep + 1
      /\ \A m \in DOMAIN v \ {a, b, f} : g2[m] = g[m]
  BY ONLY <1>7, <1>8, SharesIs
<1>10. \A m \in DOMAIN v \ {u} : g2[m] = g[m]
  <2>1. \A m \in DOMAIN v \ {u} : m \in DOMAIN v \ {a, b, f}
    BY <1>1, <1>2, <1>3, <1>4, <1>7
  <2> QED
    BY <1>9, <2>1
<1>11. /\ \A j \in 1 .. Len(s1) : s1[j] \in DOMAIN H /\ g2[s1[j]] = g[s1[j]]
       /\ \A j \in 1 .. Len(s2) : s2[j] \in DOMAIN H /\ g2[s2[j]] = g[s2[j]]
  BY <1>1, <1>2, <1>3, <1>6, <1>10, SMTT(60)
<1>12. H[a].leaf = FALSE /\ H[b].leaf = FALSE /\ H[a].key = k1 /\ H[a].sub = s1 /\ H[b].key = k2
       /\ H[b].sub = s2 /\ a \in DOMAIN H /\ b \in DOMAIN H
  BY <1>1, <1>2, <1>3, <1>4 DEF Same
<1>13. OwnOK(H, g2, a)
  <2>1. Fan(DOMAIN H, g2, k1, s1, g[u].lo, s, g[u].dep)
    BY <1>5, <1>11, FanKept
  <2>2. Fan(DOMAIN H, g2, H[a].key, H[a].sub, g2[a].lo, g2[a].hi, g2[a].dep)
    BY <1>9, <1>12, <2>1
  <2>3. InnerOK(H, g2, a)
    BY <1>3, <1>12, <2>2, InnerFan
  <2> QED
    BY <1>12, <2>3 DEF OwnOK
<1>14. OwnOK(H, g2, b)
  <2>1. Fan(DOMAIN H, g2, k2, s2, s, g[u].hi, g[u].dep)
    BY <1>5, <1>11, FanKept
  <2>2. Fan(DOMAIN H, g2, H[b].key, H[b].sub, g2[b].lo, g2[b].hi, g2[b].dep)
    BY <1>9, <1>12, <2>1
  <2>3. InnerOK(H, g2, b)
    BY <1>3, <1>12, <2>2, InnerFan
  <2> QED
    BY <1>12, <2>3 DEF OwnOK
<1>15. \A m \in DOMAIN v \ {u} : Same(v, H, m)
  <2> TAKE m \in DOMAIN v \ {u}
  <2>1. Same(heap, p, m) /\ Same(heap, v, m) /\ y[m] = p[m] /\ Same(y, H, m)
    BY <1>1, <1>2, <1>3
  <2> QED
    BY <2>1 DEF Same
<1>16. H[z].parent = Null
  <2>1. z \in DOMAIN y /\ z \notin DOMAIN heap
    BY <1>1, <1>2
  <2>2. /\ \A j \in 1 .. Len(s1) : s1[j] # z
        /\ \A j \in 1 .. Len(s2) : s2[j] # z
    BY <1>1, <1>6, <2>1
  <2>3. SameLink(y, H, z)
    BY <1>3, <2>1, <2>2
  <2> QED
    BY <1>2, <2>3 DEF SameLink
<1>17. KidsMoved(v, H, a, b)
  BY DividedMoves
<1>18. u \in DOMAIN v /\ z \notin DOMAIN v /\ DOMAIN H = DOMAIN v \cup {z}
  BY <1>1, <1>2, <1>3
<1>19. Split(v, H, g, g2, u, z, a, b, s)
  BY <1>1, <1>4, <1>5, <1>9, <1>10, <1>12, <1>13, <1>14, <1>15, <1>16, <1>17, <1>18 DEF Split
<1> QED
  BY <1>9, <1>19 DEF f

\* The pieces of NonLeafSplit make a division.
Pieces(v, p, u, i, z, a, b, y, H, k1, s1, k2, s2, c, n, s) ==
  /\ z = NewNode
  /\ (i < Half(Order) => a = z /\ b = u) /\ (~ (i < Half(Order)) => a = u /\ b = z)
  /\ c = CutPlace(i) /\ n = Order
  /\ k1 = SubSeq(v[u].key, 1, c - 1) /\ s1 = SubSeq(v[u].sub, 1, c)
  /\ k2 = SubSeq(v[u].key, c + 1, n) /\ s2 = SubSeq(v[u].sub, c + 1, n + 1)
  /\ s = v[u].key[c]
  /\ y = SetNode(SetNode(With(p, z, NonLeafNode(<<>>, <<>>)), a, k1, s1), b, k2, s2)
  /\ LET h3 == Adopt(y, b, Places(y, b)) IN
     H = IF a = z THEN Adopt(h3, a, Places(h3, a)) ELSE h3

\* The two nodes of the code are the two halves of the settled tree.
LEMMA PiecesDivide ==
  ASSUME HeapOK(heap), NEW g, NEW v, NEW p, NEW u, NEW i, Prepared(g, v, p, u, i),
         Len(heap[u].sub) = Order, level < MaxLevel,
         NEW z, NEW a, NEW b, NEW y, NEW H, NEW k1, NEW s1, NEW k2, NEW s2, NEW c, NEW n, NEW s,
         Pieces(v, p, u, i, z, a, b, y, H, k1, s1, k2, s2, c, n, s)
  PROVE  Divided(g, v, p, y, H, u, i, z, a, b, k1, s1, k2, s2, c, n, s)
<1>1. /\ HeapOK(v) /\ HeapOK(p) /\ DOMAIN v = DOMAIN heap /\ DOMAIN p = DOMAIN heap
      /\ Shape(v, g, root, level) /\ u \in DOMAIN heap /\ v[u].leaf = FALSE /\ p[u].leaf = FALSE
      /\ i \in 0 .. Order - 1 /\ Len(v[u].sub) = Order + 1 /\ Len(v[u].key) = Order
      /\ Distinct(v[u].sub)
      /\ \A j \in 1 .. Len(v[u].sub) : v[u].sub[j] \in DOMAIN heap /\ v[u].sub[j] # u
  <2>1. /\ HeapOK(v) /\ HeapOK(p) /\ DOMAIN v = DOMAIN heap /\ DOMAIN p = DOMAIN heap
        /\ Shape(v, g, root, level) /\ u \in DOMAIN heap /\ ~ v[u].leaf /\ ~ heap[u].leaf
        /\ Same(heap, p, u) /\ Len(heap[u].sub) = Len(heap[u].key) + 1 /\ i \in 0 .. Len(heap[u].key)
        /\ Len(v[u].sub) = Len(heap[u].sub) + 1 /\ Len(v[u].key) = Len(heap[u].sub)
        /\ Distinct(v[u].sub)
        /\ \A j \in 1 .. Len(v[u].sub) : v[u].sub[j] \in DOMAIN heap /\ v[u].sub[j] # u
    BY DEF Prepared
  <2>2. v[u].leaf \in BOOLEAN /\ p[u].leaf \in BOOLEAN /\ Len(heap[u].key) \in Nat
    BY <2>1, NodeFields
  <2>3. p[u].leaf = heap[u].leaf
    BY <2>1 DEF Same
  <2>4. Len(heap[u].key) = Order - 1
    BY <2>1, <2>2
  <2> QED
    BY <2>1, <2>2, <2>3, <2>4
<1>2. /\ z = NewNode
      /\ (i < Half(Order) => a = z /\ b = u) /\ (~ (i < Half(Order)) => a = u /\ b = z)
      /\ c = CutPlace(i) /\ n = Order
      /\ k1 = SubSeq(v[u].key, 1, c - 1) /\ s1 = SubSeq(v[u].sub, 1, c)
      /\ k2 = SubSeq(v[u].key, c + 1, n) /\ s2 = SubSeq(v[u].sub, c + 1, n + 1)
      /\ s = v[u].key[c]
      /\ y = SetNode(SetNode(With(p, z, NonLeafNode(<<>>, <<>>)), a, k1, s1), b, k2, s2)
      /\ LET h3 == Adopt(y, b, Places(y, b)) IN
         H = IF a = z THEN Adopt(h3, a, Places(h3, a)) ELSE h3
  BY DEF Pieces
<1>3. z \in Nat \ {0} /\ z \notin DOMAIN heap
  BY <1>2, NewNodeIs
<1>4. (a = u /\ b = z) \/ (a = z /\ b = u)
  BY <1>2
<1>5. Order \in Nat /\ Order >= 3 /\ Half(Order) \in Nat
  BY OrderAssumption, HalfIs
<1>6. c \in 1 .. Order /\ (i >= Half(Order) => c <= i)
  BY <1>1, <1>2, CutPlaceIs
<1>7. a = u => c <= i
  <2>1. a = u => ~ (i < Half(Order))
    BY <1>1, <1>2, <1>3
  <2> QED
    BY <1>1, <1>5, <1>6, <2>1
<1>8. FansOf(DOMAIN v, g, v[u].key, v[u].sub, g[u].lo, g[u].hi, g[u].dep,
             k1, s1, k2, s2, c, n, s)
  <2>1. Interval(g, u) /\ OwnOK(v, g, u)
    BY <1>1, DepthIs
  <2>2. InnerOK(v, g, u)
    BY <1>1, <2>1 DEF OwnOK
  <2>3. /\ g[u].lo \in Int /\ g[u].hi \in Int
        /\ Fan(DOMAIN v, g, v[u].key, v[u].sub, g[u].lo, g[u].hi, g[u].dep)
        /\ c \in 1 .. Len(v[u].key) /\ n = Len(v[u].key)
        /\ k1 = SubSeq(v[u].key, 1, c - 1) /\ s1 = SubSeq(v[u].sub, 1, c)
        /\ k2 = SubSeq(v[u].key, c + 1, n) /\ s2 = SubSeq(v[u].sub, c + 1, n + 1)
        /\ s = v[u].key[c]
    BY <1>1, <1>2, <1>6, <2>1, <2>2, InnerFan DEF Interval
  <2> QED
    BY ONLY <2>3, FanCutAt
<1>9. k1 \in Seq(Keys) /\ s1 \in Seq(Item) /\ k2 \in Seq(Keys) /\ s2 \in Seq(Item)
  BY <1>8 DEF FansOf, Fan
<1>10. Halved(p, y, u, z, a, b, k1, s1, k2, s2)
  <2>1. /\ HeapOK(p) /\ u \in DOMAIN p /\ p[u].leaf = FALSE /\ z \in Nat \ {0} /\ z \notin DOMAIN p
        /\ y = SetNode(SetNode(With(p, z, NonLeafNode(<<>>, <<>>)), a, k1, s1), b, k2, s2)
    BY <1>1, <1>2, <1>3
  <2> QED
    BY ONLY <1>4, <1>9, <2>1, HalvedIs
<1>11. /\ Len(s1) = c /\ Len(s2) = n + 1 - c
       /\ \A j \in 1 .. c : s1[j] = v[u].sub[j]
       /\ \A j \in 1 .. n + 1 - c : s2[j] = v[u].sub[c + j]
  BY <1>8 DEF FansOf
<1>12. \A j \in 1 .. Len(s1) : j \in 1 .. Len(v[u].sub) /\ s1[j] = v[u].sub[j]
  BY <1>1, <1>6, <1>11
<1>13. \A j \in 1 .. Len(s2) : c + j \in 1 .. Len(v[u].sub) /\ c + j > c /\ s2[j] = v[u].sub[c + j]
  <2> TAKE j \in 1 .. Len(s2)
  <2>1. Len(s2) = n + 1 - c /\ n = Order /\ c \in Int /\ Order \in Int /\ 1 <= c
        /\ Len(v[u].sub) = Order + 1
    <3>1. c \in 1 .. Order /\ Order \in Nat
      BY <1>5, <1>6
    <3>2. c \in Int /\ 1 <= c
      BY ONLY <3>1
    <3>3. n = Order
      BY ONLY <1>2
    <3>4. Len(v[u].sub) = Order + 1
      BY ONLY <1>1
    <3> QED
      BY <1>11, <3>1, <3>2, <3>3, <3>4
  <2>2. j \in 1 .. n + 1 - c
    BY <2>1
  <2>3. c + j \in 1 .. Len(v[u].sub) /\ c + j > c
    BY ONLY <2>1, <2>2
  <2> QED
    BY <1>11, <2>2, <2>3
<1>14. Told(p, y, H, u, i, a, b, s1, s2)
  <2>1. Distinct(s1)
    BY <1>1, <1>12 DEF Distinct
  <2>2. Distinct(s2)
    <3> SUFFICES ASSUME NEW j \in 1 .. Len(s2), NEW q \in 1 .. Len(s2), s2[j] = s2[q]
                 PROVE  j = q
      BY DEF Distinct
    <3>1. c + j = c + q
      <4>1. /\ c + j \in 1 .. Len(v[u].sub) /\ c + q \in 1 .. Len(v[u].sub)
            /\ v[u].sub[c + j] = v[u].sub[c + q]
        BY <1>13
      <4> QED
        BY <1>1, <4>1 DEF Distinct
    <3> QED
      BY <1>6, <3>1
  <2>3. /\ \A j \in 1 .. Len(s1) : s1[j] \in DOMAIN p
        /\ \A j \in 1 .. Len(s2) : s2[j] \in DOMAIN p
    BY <1>1, <1>12, <1>13
  <2>4. \A j \in 1 .. Len(s1), q \in 1 .. Len(s2) : s1[j] # s2[q]
    <3> TAKE j \in 1 .. Len(s1), q \in 1 .. Len(s2)
    <3>1. j <= c /\ c + q > c /\ j \in Int /\ c \in Int
      BY <1>6, <1>11, <1>13
    <3>2. j # c + q
      BY ONLY <3>1
    <3> QED
      BY <1>1, <1>12, <1>13, <3>2, ZenonT(60) DEF Distinct
  <2> DEFINE h3 == Adopt(y, b, Places(y, b))
  <2>5. H = IF a = z THEN Adopt(h3, a, Places(h3, a)) ELSE h3
    BY <1>2
  <2>6. u \in DOMAIN p /\ h3 = Adopt(y, b, Places(y, b))
    BY <1>1
  <2> HIDE DEF h3
  <2> QED
    BY ONLY <1>4, <1>10, <2>1, <2>2, <2>3, <2>4, <2>5, <2>6, ToldIs
<1>15. c \in Nat /\ n \in Nat /\ c <= n + 1 /\ n + 1 = Len(v[u].sub)
  BY <1>1, <1>2, <1>5, <1>6, SMTT(60)
<1> QED
  BY <1>4, <1>7, <1>8, <1>10, <1>14, <1>15 DEF Divided

\* Of a split non-leaf and its parent the tree after NonLeafSplit knows.
LEMMA NonLeafSplitPieces ==
  ASSUME NonLeafSplit, HeapOK(heap), NEW g, NEW v, v = Settled(heap, work),
         NEW p, p = WithParent, NEW u, u = Upper, NEW i, i = Insert, Prepared(g, v, p, u, i)
  PROVE  \E z, a, b, y, k1, s1, k2, s2, c, n, s :
           /\ Pieces(v, p, u, i, z, a, b, y, heap', k1, s1, k2, s2, c, n, s)
           /\ work' = [op |-> "build", left |-> a, right |-> b, key |-> s]
           /\ a = z => list' = LinkBefore(z, u)
           /\ b = z => list' = LinkAfter(z, u)
<1> DEFINE z == NewNode
           a == IF i < Half(Order) THEN z ELSE u
           b == IF i < Half(Order) THEN u ELSE z
           c == CutPlace(i)
           key == v[u].key
           sub == v[u].sub
           k1 == SubSeq(key, 1, c - 1)
           s1 == SubSeq(sub, 1, c)
           k2 == SubSeq(key, c + 1, Order)
           s2 == SubSeq(sub, c + 1, Order + 1)
           y == SetNode(SetNode(With(p, z, NonLeafNode(<<>>, <<>>)), a, k1, s1), b, k2, s2)
           h3 == Adopt(y, b, Places(y, b))
<1>1. key = InsertAt(heap[u].key, i + 1, work.key) /\ sub = NewChildren /\ u \in DOMAIN heap
  BY DEF Prepared
<1>2. u # z
  BY <1>1, NewNodeIs
<1>3. heap' = IF i < Half(Order) THEN Adopt(h3, a, Places(h3, a)) ELSE h3
  BY <1>1 DEF NonLeafSplit, CutPlace
<1>4. work' = [op |-> "build", left |-> a, right |-> b, key |-> key[c]]
  BY <1>1 DEF NonLeafSplit, CutPlace
<1>5. list' = IF i < Half(Order) THEN LinkBefore(z, u) ELSE LinkAfter(z, u)
  BY DEF NonLeafSplit
<1>6. (i < Half(Order) <=> a = z) /\ (i < Half(Order) <=> b = u) /\ (~ (i < Half(Order)) <=> b = z)
  BY <1>2
<1>7. Pieces(v, p, u, i, z, a, b, y, heap', k1, s1, k2, s2, c, Order, key[c])
  <2>1. heap' = IF a = z THEN Adopt(h3, a, Places(h3, a)) ELSE h3
    BY <1>3, <1>6
  <2>2. (i < Half(Order) => a = z /\ b = u) /\ (~ (i < Half(Order)) => a = u /\ b = z)
    OBVIOUS
  <2> HIDE DEF a, b
  <2> QED
    BY <2>1, <2>2 DEF Pieces
<1>8. (a = z => list' = LinkBefore(z, u)) /\ (b = z => list' = LinkAfter(z, u))
  BY <1>5, <1>6
<1> HIDE DEF z, a, b, c, key, sub, k1, s1, k2, s2, y, h3
<1> QED
  BY <1>4, <1>7, <1>8

\* A split of an inner node keeps the invariant (bplustree.c:268-409,
\* 430-471).
LEMMA NonLeafSplitKeeps ==
  ASSUME TreeInvariant, level < MaxLevel, NonLeafSplit
  PROVE  TreeInvariant'
<1> DEFINE u == Upper
           i == Insert
           v == Settled(heap, work)
           p == WithParent
           H == heap'
           w == work'
           ls == list'
<1>1. work.op = "build" /\ u # Null /\ Len(heap[u].sub) = Order
      /\ root' = root /\ level' = level /\ contents' = contents
  BY DEF NonLeafSplit
<1>2. PICK g0 : Building(g0)
  BY <1>1, BuildingIs
<1>3. HeapOK(heap) /\ Sizes(heap, root) /\ MapIs(heap, contents)
  <2>1. u = UpperOf(heap, work)
    BY DEF Upper, UpperOf
  <2>2. RootOf(heap, work, root) = root
    BY <1>1, <2>1 DEF Tall, RootOf
  <2> QED
    BY <1>2, <2>2 DEF Building
<1>4. PICK g : Prepared(g, v, p, u, i)
  BY <1>1, PreparedIs
<1>5. PICK z, a, b, y, k1, s1, k2, s2, c, n, s :
         /\ Pieces(v, p, u, i, z, a, b, y, H, k1, s1, k2, s2, c, n, s)
         /\ w = [op |-> "build", left |-> a, right |-> b, key |-> s]
         /\ a = z => ls = LinkBefore(z, u)
         /\ b = z => ls = LinkAfter(z, u)
  <2>1. v = Settled(heap, work) /\ p = WithParent /\ u = Upper /\ i = Insert
    OBVIOUS
  <2> HIDE DEF v, p, u, i
  <2> QED
    BY ONLY <1>3, <1>4, <2>1, NonLeafSplit, NonLeafSplitPieces
<1>6. w.op = "build" /\ w.left = a /\ w.right = b /\ w.key = s
  BY <1>5
<1> HIDE DEF u, i, v, p, H, w, ls
<1>7. Divided(g, v, p, y, H, u, i, z, a, b, k1, s1, k2, s2, c, n, s)
  BY ONLY <1>1, <1>3, <1>4, <1>5, level < MaxLevel, PiecesDivide
<1> DEFINE g2 == Shares(g, DOMAIN v, u, a, b, s, FreeOf(H))
<1> HIDE DEF g2
<1>8. /\ Split(v, H, g, g2, u, z, a, b, s)
      /\ g2[FreeOf(H)].lo = g[u].lo /\ g2[FreeOf(H)].hi = g[u].hi
      /\ g2[FreeOf(H)].dep = g[u].dep + 1
  <2>1. g2 = Shares(g, DOMAIN v, u, a, b, s, FreeOf(H))
    BY DEF g2
  <2> QED
    BY ONLY <1>7, <2>1, DividedSplits
<1>9. /\ HeapOK(v) /\ Shape(v, g, root, level) /\ Links(v, root) /\ Chain(list, DOMAIN v, g)
      /\ DOMAIN v = DOMAIN heap /\ ~ heap[u].leaf /\ u \in DOMAIN heap
      /\ i \in 0 .. Len(heap[u].key) /\ Len(heap[u].sub) = Len(heap[u].key) + 1
      /\ \A m \in DOMAIN heap \ {u} : Same(heap, v, m)
  BY <1>4 DEF Prepared
<1>10. HeapOK(H)
  BY <1>7 DEF Divided, Told
<1>11. TreeIs(H, w, root, level, ls, g2)
  BY ONLY <1>5, <1>6, <1>8, <1>9, <1>10, level < MaxLevel, SplitStep
<1>12. /\ DOMAIN H = DOMAIN heap \cup {z} /\ z \notin DOMAIN heap
       /\ (a = u /\ b = z) \/ (a = z /\ b = u)
       /\ ~ H[a].leaf /\ ~ H[b].leaf
       /\ \A m \in DOMAIN heap \ {u} : Same(heap, H, m)
  <2>1. /\ DOMAIN H = DOMAIN heap \cup {z} /\ z \notin DOMAIN heap
        /\ (a = u /\ b = z) \/ (a = z /\ b = u)
        /\ H[a].leaf = v[u].leaf /\ H[b].leaf = v[u].leaf
        /\ \A m \in DOMAIN heap \ {u} : Same(v, H, m)
    BY <1>8, <1>9 DEF Split
  <2>2. ~ v[u].leaf
    BY <1>4 DEF Prepared
  <2>3. \A m \in DOMAIN heap \ {u} : Same(heap, H, m)
    BY <1>9, <2>1 DEF Same
  <2> QED
    BY <2>1, <2>2, <2>3
<1>13. NodeFits(Len(H[a].sub)) /\ NodeFits(Len(H[b].sub))
  <2>1. Len(s1) = c /\ Len(s2) = n + 1 - c /\ y[a].sub = s1 /\ y[b].sub = s2
        /\ DOMAIN y = DOMAIN p \cup {z} /\ \A m \in DOMAIN y : Same(y, H, m)
        /\ DOMAIN p = DOMAIN heap
    BY <1>4, <1>7 DEF Divided, FansOf, Halved, Told, Prepared
  <2>2. H[a].sub = s1 /\ H[b].sub = s2
    BY <1>9, <1>12, <2>1 DEF Same
  <2>3. c = CutPlace(i) /\ n = Order
    BY <1>5 DEF Pieces
  <2>4. i \in 0 .. Order - 1
    <3>1. Len(heap[u].key) \in Nat
      BY <1>3, <1>9, NodeFields
    <3>2. Len(heap[u].key) = Order - 1
      BY <1>1, <1>9, <3>1
    <3> QED
      BY <1>9, <3>2
  <2>5. NodeFits(CutPlace(i)) /\ NodeFits(Order + 1 - CutPlace(i))
    BY ONLY <2>4, CutPlaceIs
  <2> QED
    BY <2>1, <2>2, <2>3, <2>5
<1>14. Sizes(H, RootOf(H, w, root))
  <2> DEFINE rt == RootOf(H, w, root)
  <2>1. Fits(H, rt, a) /\ Fits(H, rt, b)
    BY <1>12, <1>13 DEF Fits, NodeFits
  <2>2. u = root \/ rt = root
    <3>1. /\ HeapOK(v) /\ Shape(v, g, root, level) /\ Links(v, root)
          /\ Split(v, H, g, g2, u, z, a, b, s) /\ w.left = a /\ w.right = b
      BY <1>6, <1>8, <1>9
    <3>2. u = root \/ RootOf(H, w, root) = root
      BY ONLY <3>1, SplitRoot
    <3> QED
      BY <3>2
  <2>3. ASSUME NEW m \in DOMAIN heap, m # u PROVE Fits(H, rt, m)
    <3>1. Fits(heap, root, m) /\ Same(heap, H, m)
      BY <1>3, <1>12, <2>3 DEF Sizes
    <3>2. m = root => rt = root
      BY <2>2, <2>3
    <3> HIDE DEF rt
    <3> QED
      BY <3>1, <3>2 DEF Fits, Same
  <2> HIDE DEF rt
  <2>4. Sizes(H, rt)
    BY <1>12, <2>1, <2>3 DEF Sizes
  <2> QED
    BY <2>4 DEF rt
<1>15. MapIs(H, contents)
  <2>1. \A m : (m \in DOMAIN H /\ H[m].leaf) <=> (m \in DOMAIN heap /\ heap[m].leaf)
    BY <1>9, <1>12 DEF Same
  <2>2. \A m \in DOMAIN heap : heap[m].leaf => H[m].key = heap[m].key /\ H[m].sub = heap[m].sub
    BY <1>9, <1>12 DEF Same
  <2> QED
    BY ONLY <1>3, <2>1, <2>2, LeavesKept
<1>16. StateOK(H, w, root, level, ls, contents)
  BY <1>11, <1>14, <1>15 DEF StateOK
<1> QED
  BY <1>1, <1>16 DEF TreeInvariant, H, w, ls

-----------------------------------------------------------------------------
(***************************************************************************)
(* non_leaf_remove.                                                        *)
(***************************************************************************)

\* What the tree is like when the pending call takes a key and a child from n,
\* v being the tree without them.
Removing(g, v, n, r) ==
  /\ HeapOK(heap) /\ HeapOK(v) /\ DOMAIN v = DOMAIN heap
  /\ Shape(v, g, root, level) /\ Links(v, root) /\ Chain(list, DOMAIN v, g)
  /\ MapIs(heap, contents) /\ Sizes(heap, root) /\ root \in DOMAIN heap \cup {Null}
  /\ v = SimplyRemoved(n, r)
  /\ n \in DOMAIN heap /\ heap[n].leaf = FALSE /\ v[n].leaf = FALSE
  /\ Len(heap[n].sub) = Len(heap[n].key) + 1 /\ r \in 0 .. Len(heap[n].key) - 1
  /\ v[n].key = KeysLeft(n, r) /\ v[n].sub = SubsLeft(n, r)
  /\ Len(v[n].sub) = Len(heap[n].sub) - 1 /\ Len(v[n].key) = Len(heap[n].key) - 1
  /\ \A q \in 1 .. r + 1 : v[n].sub[q] = heap[n].sub[q]
  /\ \A q \in r + 2 .. Len(v[n].sub) : v[n].sub[q] = heap[n].sub[q + 1]
  /\ \A m \in DOMAIN heap \ {n} : Same(heap, v, m)
  /\ \A m \in DOMAIN heap : v[m].parent = heap[m].parent
  /\ \A m \in DOMAIN heap :
       (\A q \in r + 2 .. Len(v[n].sub) : v[n].sub[q] # m) => v[m].idx = heap[m].idx
  /\ \A q \in 1 .. Len(heap[n].sub) : q # r + 2 => heap[heap[n].sub[q]].idx = q - 2

\* What is known while non_leaf_remove is pending.
LEMMA RemovingIs ==
  ASSUME TreeInvariant, work.op = "remove"
  PROVE  \E g : Removing(g, Settled(heap, work), work.node, work.remove)
<1> DEFINE v == Settled(heap, work)
           n == work.node
           r == work.remove
           w == work
<1>1. PICK g : TreeIs(heap, w, root, level, list, g)
  BY DEF TreeInvariant, StateOK
<1>2. RootOf(heap, w, root) = root /\ HeightOf(heap, w, level) = level
  BY DEF RootOf, HeightOf, Tall
<1>3. Sizes(heap, root) /\ MapIs(heap, contents)
  BY <1>2 DEF TreeInvariant, StateOK
<1>4. /\ HeapOK(heap) /\ WorkOK(heap, w) /\ root \in DOMAIN heap \cup {Null}
      /\ Shape(v, g, root, level) /\ Links(v, root) /\ Chain(list, DOMAIN heap, g)
  BY <1>1, <1>2 DEF TreeIs
<1>5. w.op = "remove" /\ n = w.node /\ r = w.remove /\ v = Settled(heap, w)
  OBVIOUS
<1> HIDE DEF v, n, r, w
<1>6. /\ n \in DOMAIN heap /\ ~ heap[n].leaf /\ Len(heap[n].sub) = Len(heap[n].key) + 1
      /\ r \in 0 .. Len(heap[n].key) - 1
      /\ v = RemovedAt(heap, n, r)
      /\ HeapOK(v) /\ DOMAIN v = DOMAIN heap
      /\ \A m \in DOMAIN heap \ {n} : Same(heap, v, m)
      /\ v[n].leaf = heap[n].leaf
      /\ v[n].key = RemoveAt(heap[n].key, r + 1)
      /\ v[n].sub = RemoveAt(heap[n].sub, r + 2)
      /\ \A m \in DOMAIN heap : v[m].parent = heap[m].parent
      /\ \A m \in DOMAIN heap :
           (\A q \in r + 2 .. Len(v[n].sub) : v[n].sub[q] # m) => v[m].idx = heap[m].idx
      /\ \A q \in 1 .. Len(heap[n].sub) : q # r + 2 => heap[heap[n].sub[q]].idx = q - 2
  <2>1. HeapOK(heap) /\ w.op = "remove" /\ WorkOK(heap, w)
    BY <1>4, <1>5
  <2> QED
    <3>1. Removal(heap, Settled(heap, w), w.node, w.remove)
      BY ONLY <2>1, RemoveIs
    <3> QED
      BY ONLY <1>5, <3>1 DEF Removal
<1>7. heap[n].leaf = FALSE /\ v[n].leaf = FALSE
  <2>1. heap[n].leaf \in BOOLEAN
    BY <1>4, <1>6, NodeFields, SMTT(60)
  <2> QED
    BY <1>6, <2>1
<1>8. v = SimplyRemoved(n, r)
  BY <1>6, Zenon DEF SimplyRemoved, RemovedAt, KeysLeft, SubsLeft
<1>9. /\ Len(v[n].sub) = Len(heap[n].sub) - 1
      /\ \A q \in 1 .. r + 1 : v[n].sub[q] = heap[n].sub[q]
      /\ \A q \in r + 2 .. Len(v[n].sub) : v[n].sub[q] = heap[n].sub[q + 1]
  <2> DEFINE s == heap[n].sub
             i == r + 2
  <2>1. s \in Seq(Item) /\ Len(heap[n].key) \in Nat
    BY <1>4, <1>6, NodeFields
  <2>2. i \in 1 .. Len(s)
    BY <1>6, <2>1
  <2> HIDE DEF s, i
  <2>3. /\ Len(RemoveAt(s, i)) = Len(s) - 1
        /\ \A q \in 1 .. i - 1 : RemoveAt(s, i)[q] = s[q]
        /\ \A q \in i .. Len(s) - 1 : RemoveAt(s, i)[q] = s[q + 1]
    BY ONLY <2>1, <2>2, RemoveAtIs
  <2>4. v[n].sub = RemoveAt(s, i)
    BY <1>6 DEF s, i
  <2>5. i - 1 = r + 1
    BY <1>6 DEF i
  <2> QED
    BY <2>3, <2>4, <2>5 DEF s, i
<1>10. Len(v[n].key) = Len(heap[n].key) - 1
  <2> DEFINE s == heap[n].key
             i == r + 1
  <2>1. s \in Seq(Keys) /\ Len(s) \in Nat
    BY <1>4, <1>6, NodeFields
  <2>2. i \in 1 .. Len(s)
    BY <1>6, <2>1
  <2> HIDE DEF s, i
  <2>3. Len(RemoveAt(s, i)) = Len(s) - 1
    BY ONLY <2>1, <2>2, RemoveAtIs
  <2> QED
    BY <1>6, <2>3 DEF s, i
<1>11. v[n].key = KeysLeft(n, r) /\ v[n].sub = SubsLeft(n, r)
  BY <1>6 DEF KeysLeft, SubsLeft
<1>12. Removing(g, v, n, r)
  BY <1>3, <1>4, <1>6, <1>7, <1>8, <1>9, <1>10, <1>11 DEF Removing
<1> QED
  BY <1>12 DEF v, n, r

\* Two children or more, the root also when it is to lose one.
LEMMA RemovingSizes ==
  ASSUME NEW g, NEW v, NEW n, NEW r, Removing(g, v, n, r)
  PROVE  /\ Len(heap[n].sub) \in Nat /\ 2 <= Len(heap[n].sub) /\ Len(heap[n].sub) <= Order
         /\ heap[n].parent = Null <=> n = root
         /\ Half(Order) \in Nat /\ Half(Order) >= 2 /\ Half(Order) >= Order \div 2
         /\ Order \div 2 \in Nat /\ 2 * Half(Order) - 1 <= Order
<1>1. /\ HeapOK(heap) /\ n \in DOMAIN heap /\ heap[n].leaf = FALSE /\ Sizes(heap, root)
      /\ HeapOK(v) /\ Shape(v, g, root, level) /\ Links(v, root) /\ n \in DOMAIN v
      /\ v[n].parent = heap[n].parent
  BY DEF Removing
<1>2. Len(heap[n].sub) \in Nat
  BY <1>1, NodeFields
<1>3. 2 <= Len(heap[n].sub) /\ Len(heap[n].sub) <= Order
  BY <1>1 DEF Sizes, Fits
<1>4. v[n].parent = Null <=> n = root
  BY ONLY <1>1, OrphanIsRoot
<1>5. /\ Half(Order) \in Nat /\ Half(Order) >= 2 /\ Half(Order) >= Order \div 2
      /\ Order \div 2 \in Nat /\ 2 * Half(Order) - 1 <= Order
  <2>1. Order \in Nat /\ Order >= 2 /\ Order >= 3
    BY OrderAssumption
  <2> QED
    BY ONLY <2>1, HalfIs
<1> QED
  BY <1>1, <1>2, <1>3, <1>4, <1>5

\* A non-leaf n that loses a child and needs a neighbour's help, the j-th child of p.
Lacking(g, v, n, r, p, j) ==
  /\ Removing(g, v, n, r)
  /\ Slot(v, p, j, n) /\ heap[n].parent = p /\ heap[n].idx = j - 2 /\ p # n
  /\ heap[p].key = v[p].key /\ heap[p].sub = v[p].sub /\ heap[p].leaf = FALSE
  /\ BorrowsFromLeft(n) => Slot(v, p, j - 1, Prev(n))
  /\ ~ BorrowsFromLeft(n) => Slot(v, p, j + 1, NextOf(n))
  /\ Len(heap[n].sub) <= Half(Order) /\ n # root

\* What is known of an inner node with too few children for it.
LEMMA LackingIs ==
  ASSUME TreeInvariant, level < MaxLevel, work.op = "remove", NEW n, n = work.node,
         Underfull(n, Order)
  PROVE  \E g, p, j : Lacking(g, Settled(heap, work), n, work.remove, p, j)
<1> DEFINE v == Settled(heap, work)
           r == work.remove
<1> HIDE DEF v, r
<1>1. PICK g : Removing(g, v, n, r)
  BY RemovingIs DEF v, r
<1>2. Len(heap[n].sub) <= Half(Order) /\ heap[n].parent # Null
  BY DEF Underfull
<1>3. n # root
  BY <1>1, <1>2, RemovingSizes
<1>4. /\ HeapOK(v) /\ Shape(v, g, root, level) /\ Links(v, root) /\ n \in DOMAIN v
      /\ Chain(list, DOMAIN v, g) /\ DOMAIN v = DOMAIN heap /\ Sizes(heap, root)
      /\ v[n].parent = heap[n].parent
      /\ \A m \in DOMAIN heap \ {n} : Same(heap, v, m)
      /\ HeapOK(heap)
  BY <1>1 DEF Removing
<1>5. PICK p, j : Slot(v, p, j, n)
  BY <1>3, <1>4 DEF Shape, NodeOK, HasParent
<1>6. p \in DOMAIN v /\ ~ v[p].leaf /\ p # n
  BY <1>4, <1>5, SlotIs
<1>7. v[n].parent = p /\ v[n].idx = j - 2
  BY <1>4, <1>5, SlotUnique
<1>8. heap[n].idx = v[n].idx
  <2>1. \A q \in 1 .. Len(v[n].sub) : v[n].sub[q] # n
    <3> TAKE q \in 1 .. Len(v[n].sub)
    <3>1. SUFFICES ASSUME v[n].sub[q] = n PROVE FALSE
      OBVIOUS
    <3>2. v[n].leaf = FALSE
      BY <1>1 DEF Removing
    <3>3. Slot(v, n, q, n)
      BY <1>4, <3>1, <3>2 DEF Slot
    <3> QED
      BY <1>4, <3>3, SlotIs
  <2>2. \A q \in r + 2 .. Len(v[n].sub) : q \in 1 .. Len(v[n].sub)
    <3>1. r \in Nat /\ Len(v[n].sub) \in Nat
      BY <1>1, <1>4, NodeFields DEF Removing
    <3> QED
      BY <3>1
  <2> QED
    BY <1>1, <2>1, <2>2 DEF Removing
<1>9. heap[p].key = v[p].key /\ heap[p].sub = v[p].sub /\ heap[p].leaf = FALSE
  <2>1. Same(heap, v, p) /\ heap[p].leaf \in BOOLEAN
    BY <1>4, <1>6, NodeFields
  <2> QED
    BY <1>6, <2>1 DEF Same
<1>10. Len(v[p].sub) >= 2
  BY <1>4, <1>6, <1>9 DEF Sizes, Fits
<1>11. /\ BorrowsFromLeft(n) => Slot(v, p, j - 1, Prev(n))
       /\ ~ BorrowsFromLeft(n) => Slot(v, p, j + 1, NextOf(n))
  <2> DEFINE D == DOMAIN v
  <2>1. /\ HeapOK(v) /\ Shape(v, g, root, level) /\ Links(v, root)
        /\ D = DOMAIN v /\ Chain(list, D, g) /\ level < MaxLevel
        /\ Slot(v, p, j, n) /\ Len(v[p].sub) >= 2
        /\ heap[n].idx = v[n].idx /\ heap[n].parent = v[n].parent /\ heap[p].sub = v[p].sub
    BY <1>4, <1>5, <1>8, <1>9, <1>10
  <2> HIDE DEF D
  <2> QED
    BY ONLY <2>1, SiblingIs
<1>12. Lacking(g, v, n, r, p, j)
  BY <1>1, <1>2, <1>3, <1>4, <1>5, <1>6, <1>7, <1>8, <1>9, <1>11 DEF Lacking
<1> QED
  BY <1>12 DEF v, r

\* The children left are enough, and the map is as it was.
LEMMA RemovedKeeps ==
  ASSUME NEW g, NEW v, NEW n, NEW r, Removing(g, v, n, r), ~ Underfull(n, Order),
         heap[n].parent # Null \/ Len(heap[n].sub) # 2
  PROVE  StateOK(v, Idle, root, level, list, contents)
<1>1. /\ HeapOK(v) /\ DOMAIN v = DOMAIN heap
      /\ Shape(v, g, root, level) /\ Links(v, root) /\ Chain(list, DOMAIN v, g)
      /\ MapIs(heap, contents) /\ Sizes(heap, root)
      /\ n \in DOMAIN heap /\ heap[n].leaf = FALSE /\ v[n].leaf = FALSE
      /\ Len(v[n].sub) = Len(heap[n].sub) - 1
      /\ \A m \in DOMAIN heap \ {n} : Same(heap, v, m)
      /\ root \in DOMAIN heap \cup {Null}
  BY DEF Removing
<1>2. TreeIs(v, Idle, root, level, list, g)
  BY <1>1, IdleTree
<1>3. Sizes(v, root)
  <2>1. Fits(v, root, n)
    <3> DEFINE size == Len(heap[n].sub)
               half == Half(Order)
               low == Order \div 2
    <3>1. /\ size \in Nat /\ 2 <= size /\ size <= Order /\ (heap[n].parent = Null <=> n = root)
          /\ half \in Nat /\ half >= 2 /\ half >= low /\ low \in Nat
      BY RemovingSizes
    <3>2. size > half \/ n = root
      BY <3>1 DEF Underfull
    <3>3. size # 2 \/ n # root
      BY <3>1
    <3>4. Order \in Nat
      BY OrderAssumption
    <3> HIDE DEF size, half, low
    <3>5. 2 <= size - 1 /\ size - 1 <= Order /\ (n # root => size - 1 >= low)
      BY ONLY <3>1, <3>2, <3>3, <3>4
    <3> QED
      BY <1>1, <3>5 DEF Fits, size, low
  <2>2. \A m \in DOMAIN heap \ {n} : Fits(v, root, m)
    BY <1>1 DEF Sizes, Fits, Same
  <2> QED
    BY <1>1, <2>1, <2>2 DEF Sizes
<1>4. MapIs(v, contents)
  <2>1. \A m : (m \in DOMAIN v /\ v[m].leaf) <=> (m \in DOMAIN heap /\ heap[m].leaf)
    BY <1>1 DEF Same
  <2>2. \A m \in DOMAIN heap : heap[m].leaf => v[m].key = heap[m].key /\ v[m].sub = heap[m].sub
    BY <1>1 DEF Same
  <2> QED
    BY ONLY <1>1, <2>1, <2>2, LeavesKept
<1> QED
  BY <1>2, <1>3, <1>4, IdleState

\* The root that is to keep one child gives way to it.
Orphaned(h, H, n, c) ==
  /\ HeapOK(H) /\ DOMAIN H = DOMAIN h \ {n} /\ c # n /\ c \in DOMAIN H /\ H[c].parent = Null
  /\ \A m \in DOMAIN H : Same(h, H, m) /\ H[m].idx = h[m].idx
  /\ \A m \in DOMAIN H \ {c} : H[m].parent = h[m].parent

\* The tree whose root gave way to a child.
LEMMA OrphanedIs ==
  ASSUME NEW h, HeapOK(h), NEW n \in DOMAIN h, NEW c \in DOMAIN h, c # n,
         NEW H, H = Without([h EXCEPT ![c].parent = Null], n)
  PROVE  Orphaned(h, H, n, c)
<1> DEFINE h1 == [h EXCEPT ![c].parent = Null]
<1>1. h[c] \in NodeRec /\ Null \in Nat
  BY DEF HeapOK, Null
<1>2. [h[c] EXCEPT !.parent = Null] \in NodeRec
  BY <1>1 DEF NodeRec
<1>3. /\ DOMAIN h1 = DOMAIN h /\ h1[c] = [h[c] EXCEPT !.parent = Null]
      /\ \A m \in DOMAIN h \ {c} : h1[m] = h[m]
  OBVIOUS
<1>4. HeapOK(h1)
  BY <1>2, <1>3 DEF HeapOK
<1>5. /\ h1[c].parent = Null /\ h1[c].leaf = h[c].leaf /\ h1[c].key = h[c].key
      /\ h1[c].sub = h[c].sub /\ h1[c].idx = h[c].idx
  BY <1>1, <1>3 DEF NodeRec
<1>6. H = Without(h1, n)
  OBVIOUS
<1> HIDE DEF h1
<1>7. /\ HeapOK(Without(h1, n)) /\ DOMAIN Without(h1, n) = DOMAIN h1 \ {n}
      /\ \A m \in DOMAIN h1 \ {n} : Without(h1, n)[m] = h1[m]
  BY <1>4, WithoutIs
<1> QED
  BY <1>3, <1>5, <1>6, <1>7, ZenonT(60) DEF Orphaned, Same

\* A root with one child left gives way to it (bplustree.c:771-782).
LEMMA CollapseKeeps ==
  ASSUME NEW g, NEW v, NEW n, NEW r, Removing(g, v, n, r), level < MaxLevel,
         heap[n].parent = Null, Len(heap[n].sub) = 2,
         NEW c, c = heap[n].sub[1], NEW H, H = Collapsed(n), NEW ls, ls = Unlinked(n),
         NEW lv, lv = level - 1
  PROVE  StateOK(H, Idle, c, lv, ls, contents)
<1>1. /\ HeapOK(heap) /\ HeapOK(v) /\ DOMAIN v = DOMAIN heap
      /\ Shape(v, g, root, level) /\ Links(v, root) /\ Chain(list, DOMAIN v, g)
      /\ MapIs(heap, contents) /\ Sizes(heap, root)
      /\ n \in DOMAIN heap /\ heap[n].leaf = FALSE /\ v[n].leaf = FALSE
      /\ Len(heap[n].sub) = Len(heap[n].key) + 1 /\ r \in 0 .. Len(heap[n].key) - 1
      /\ Len(v[n].sub) = Len(heap[n].sub) - 1
      /\ \A q \in 1 .. r + 1 : v[n].sub[q] = heap[n].sub[q]
      /\ \A m \in DOMAIN heap \ {n} : Same(heap, v, m)
      /\ \A m \in DOMAIN heap : v[m].parent = heap[m].parent
      /\ \A m \in DOMAIN heap :
           (\A q \in r + 2 .. Len(v[n].sub) : v[n].sub[q] # m) => v[m].idx = heap[m].idx
  BY DEF Removing
<1>2. n = root /\ root # Null
  <2>1. n = root
    BY RemovingSizes
  <2> QED
    BY <1>1, <2>1, NodeFields DEF Null
<1>3. r = 0 /\ Len(v[n].sub) = 1 /\ v[n].sub[1] = c
  <2>1. Len(heap[n].key) \in Nat
    BY <1>1, NodeFields
  <2>2. Len(heap[n].key) = 1
    <3>1. Len(heap[n].sub) = 2 /\ Len(heap[n].sub) = Len(heap[n].key) + 1
      BY ONLY <1>1, Len(heap[n].sub) = 2
    <3> DEFINE e == Len(heap[n].key)
    <3>2. e \in Nat /\ 2 = e + 1
      BY ONLY <2>1, <3>1
    <3> HIDE DEF e
    <3>3. e = 1
      BY ONLY <3>2
    <3> QED
      BY ONLY <3>3 DEF e
  <2>3. r = 0 /\ Len(v[n].sub) = 1
    <3>1. Len(v[n].sub) = Len(heap[n].sub) - 1 /\ Len(heap[n].sub) = 2
          /\ r \in 0 .. Len(heap[n].key) - 1
      BY ONLY <1>1, Len(heap[n].sub) = 2
    <3> QED
      BY ONLY <2>2, <3>1
  <2>4. 1 \in 1 .. r + 1
    BY ONLY <2>3
  <2>5. v[n].sub[1] = heap[n].sub[1]
    BY ONLY <1>1, <2>4
  <2> QED
    BY <2>3, <2>5
<1>4. Slot(v, n, 1, c)
  BY <1>1, <1>3 DEF Slot
<1>5. c \in DOMAIN v /\ c # n
  BY <1>1, <1>4, SlotIs
<1>6. Orphaned(heap, H, n, c)
  <2>1. HeapOK(heap) /\ n \in DOMAIN heap /\ c \in DOMAIN heap /\ c # n
    BY <1>1, <1>5
  <2>2. H = Without([heap EXCEPT ![c].parent = Null], n)
    BY DEF Collapsed
  <2> QED
    BY ONLY <2>1, <2>2, OrphanedIs
<1>7. /\ HeapOK(H) /\ DOMAIN H = DOMAIN v \ {n} /\ c \in DOMAIN H /\ H[c].parent = Null
      /\ \A m \in DOMAIN H : Same(heap, H, m) /\ H[m].idx = heap[m].idx
      /\ \A m \in DOMAIN H \ {c} : H[m].parent = heap[m].parent
  BY <1>1, <1>6 DEF Orphaned
<1>8. \A m \in DOMAIN H : Same(v, H, m) /\ H[m].idx = v[m].idx
  <2> TAKE m \in DOMAIN H
  <2>1. Same(heap, v, m) /\ Same(heap, H, m)
    BY <1>1, <1>7
  <2>2. v[m].idx = heap[m].idx
    <3>1. \A q \in r + 2 .. Len(v[n].sub) : FALSE
      BY ONLY <1>3
    <3>2. m \in DOMAIN heap
      BY <1>1, <1>7
    <3> QED
      BY ONLY <1>1, <3>1, <3>2
  <2> QED
    BY <1>7, <2>1, <2>2 DEF Same
<1>9. Shape(H, g, c, lv)
  <2>1. /\ HeapOK(v) /\ Shape(v, g, root, level) /\ Links(v, root) /\ root # Null
        /\ ~ v[root].leaf /\ Len(v[root].sub) = 1 /\ c = v[root].sub[1]
        /\ DOMAIN H = DOMAIN v \ {root} /\ \A m \in DOMAIN H : Same(v, H, m)
    BY <1>1, <1>2, <1>3, <1>7, <1>8
  <2>2. Shape(H, g, c, level - 1)
    BY ONLY <2>1, CollapseShape
  <2> QED
    BY <2>2
<1>10. Links(H, c)
  <2>1. ASSUME NEW q \in DOMAIN H, ~ H[q].leaf, NEW i \in 1 .. Len(H[q].sub)
        PROVE  H[H[q].sub[i]].parent = q /\ H[H[q].sub[i]].idx = i - 2
    <3> DEFINE m == H[q].sub[i]
    <3>1. Slot(v, q, i, m)
      BY <1>7, <1>8, <2>1 DEF Slot, Same
    <3>2. m \in DOMAIN v /\ m # root /\ v[m].parent = q /\ v[m].idx = i - 2
      BY <1>1, <3>1, SlotIs, SlotUnique, SMTT(60)
    <3>3. m # c
      <4>1. \A y, z : Slot(v, y, z, c) => y = n
        BY <1>1, <1>4, SlotUnique
      <4> QED
        BY <1>7, <3>1, <4>1
    <3> HIDE DEF m
    <3>4. m \in DOMAIN H
      BY <1>2, <1>7, <3>2
    <3>5. H[m].parent = q /\ H[m].idx = i - 2
      BY <1>1, <1>7, <1>8, <3>2, <3>3, <3>4
    <3> QED
      BY <3>5 DEF m
  <2>2. \A q \in DOMAIN H : KidsOf(H, q)
    BY <2>1 DEF KidsOf
  <2> QED
    BY <1>7, <2>2, LinksAre
<1>11. Chain(ls, DOMAIN H, g)
  <2>1. \A m \in DOMAIN v : Interval(g, m)
    BY <1>1, DepthIs
  <2>2. g[n].dep \in DOMAIN list
    <3>1. g[n].dep \in 0 .. MaxLevel - 1
      BY <1>1, DepthIs, MaxLevelAssumption
    <3> QED
      BY <1>1, <3>1 DEF Chain
  <2> DEFINE D == DOMAIN v
  <2>3. Chain(list, D, g) /\ (\A m \in D : Interval(g, m)) /\ n \in D
    BY <1>1, <2>1
  <2> HIDE DEF D
  <2>4. Chain(Unlinked(n), D \ {n}, g)
    BY ONLY <2>2, <2>3, ChainUnlink
  <2> QED
    BY <1>7, <2>4 DEF D
<1>12. TreeIs(H, Idle, c, lv, ls, g)
  BY <1>7, <1>9, <1>10, <1>11, IdleTree
<1>13. Sizes(H, c)
  <2>1. ASSUME NEW m \in DOMAIN H PROVE Fits(H, c, m)
    <3>1. Fits(heap, root, m) /\ Same(heap, H, m) /\ m # root
      BY <1>1, <1>2, <1>7 DEF Sizes
    <3> QED
      BY <3>1 DEF Fits, Same
  <2> QED
    BY <2>1 DEF Sizes
<1>14. MapIs(H, contents)
  <2>1. \A m : (m \in DOMAIN H /\ H[m].leaf) <=> (m \in DOMAIN heap /\ heap[m].leaf)
    BY <1>1, <1>7 DEF Same
  <2>2. \A m \in DOMAIN heap : heap[m].leaf => H[m].key = heap[m].key /\ H[m].sub = heap[m].sub
    BY <1>1, <1>7 DEF Same
  <2> QED
    BY ONLY <1>1, <2>1, <2>2, LeavesKept
<1> QED
  BY <1>12, <1>13, <1>14, IdleState

\* A removal from an inner node that has enough children keeps the invariant.
LEMMA NonLeafSimpleRemoveKeeps ==
  ASSUME TreeInvariant, level < MaxLevel, NonLeafSimpleRemove
  PROVE  TreeInvariant'
<1> DEFINE n == work.node
           r == work.remove
           v == Settled(heap, work)
<1>1. /\ work.op = "remove" /\ ~ Underfull(n, Order) /\ work' = Idle /\ contents' = contents
      /\ \/ /\ heap[n].parent = Null /\ Len(heap[n].sub) = 2
            /\ heap' = Collapsed(n) /\ root' = heap[n].sub[1]
            /\ list' = Unlinked(n) /\ level' = level - 1
         \/ /\ heap[n].parent # Null \/ Len(heap[n].sub) # 2
            /\ heap' = SimplyRemoved(n, r) /\ root' = root /\ list' = list /\ level' = level
  BY DEF NonLeafSimpleRemove
<1>2. PICK g : Removing(g, v, n, r)
  BY <1>1, RemovingIs
<1> HIDE DEF n, r, v
<1>3. CASE /\ heap[n].parent = Null /\ Len(heap[n].sub) = 2
           /\ heap' = Collapsed(n) /\ root' = heap[n].sub[1]
           /\ list' = Unlinked(n) /\ level' = level - 1
  <2> DEFINE H == heap'
             ls == list'
             lv == level'
             c == root'
  <2>1. /\ heap[n].parent = Null /\ Len(heap[n].sub) = 2
        /\ H = Collapsed(n) /\ c = heap[n].sub[1] /\ ls = Unlinked(n) /\ lv = level - 1
        /\ level < MaxLevel
    BY <1>3
  <2> HIDE DEF H, ls, lv, c
  <2>2. StateOK(H, Idle, c, lv, ls, contents)
    BY ONLY <1>2, <2>1, CollapseKeeps
  <2> QED
    BY <1>1, <2>2 DEF TreeInvariant, H, ls, lv, c
<1>4. CASE /\ heap[n].parent # Null \/ Len(heap[n].sub) # 2
           /\ heap' = SimplyRemoved(n, r) /\ root' = root /\ list' = list /\ level' = level
  <2>1. StateOK(v, Idle, root, level, list, contents)
    BY <1>1, <1>2, <1>4, RemovedKeeps
  <2>2. heap' = v
    BY <1>2, <1>4 DEF Removing
  <2> QED
    BY <1>1, <1>4, <2>1, <2>2 DEF TreeInvariant
<1> QED
  BY <1>1, <1>3, <1>4

\* Two neighbouring fans share their children out anew, with s between them.
Refanned(D, g, k1, s1, k2, s2, lo, hi, d, s) ==
  /\ Fan(D, g, k1, s1, lo, s, d) /\ Fan(D, g, k2, s2, s, hi, d)
  /\ s \in Keys /\ lo < s /\ s < hi

\* The last of sa has become the first of sb, or the first of sb the last of sa.
MovedRight(sa, sb, s1, s2) ==
  /\ Len(s1) = Len(sa) - 1 /\ Len(s2) = Len(sb) + 1
  /\ \A j \in 1 .. Len(sa) - 1 : s1[j] = sa[j]
  /\ s2[1] = sa[Len(sa)]
  /\ \A j \in 1 .. Len(sb) : s2[j + 1] = sb[j]
MovedLeft(sa, sb, s1, s2) ==
  /\ Len(s1) = Len(sa) + 1 /\ Len(s2) = Len(sb) - 1
  /\ \A j \in 1 .. Len(sa) : s1[j] = sa[j]
  /\ s1[Len(sa) + 1] = sb[1]
  /\ \A j \in 1 .. Len(sb) - 1 : s2[j] = sb[j + 1]

\* One element put before, or behind, a sequence.
LEMMA PrefixOne ==
  ASSUME NEW S, NEW e \in S, NEW s \in Seq(S)
  PROVE  /\ <<e>> \o s \in Seq(S) /\ Len(<<e>> \o s) = Len(s) + 1 /\ (<<e>> \o s)[1] = e
         /\ \A j \in 1 .. Len(s) : (<<e>> \o s)[j + 1] = s[j]
         /\ Append(s, e) \in Seq(S) /\ Len(Append(s, e)) = Len(s) + 1
         /\ Append(s, e)[Len(s) + 1] = e
         /\ \A j \in 1 .. Len(s) : Append(s, e)[j] = s[j]
         /\ s \o <<e>> = Append(s, e) /\ <<>> \o s = s /\ s \o <<>> = s
<1>1. <<e>> \in Seq(S) /\ Len(<<e>>) = 1 /\ <<e>>[1] = e
  OBVIOUS
<1>2. /\ <<e>> \o s \in Seq(S) /\ Len(<<e>> \o s) = 1 + Len(s)
      /\ \A j \in 1 .. 1 + Len(s) : (<<e>> \o s)[j] = IF j <= 1 THEN <<e>>[j] ELSE s[j - 1]
  BY <1>1, JoinIs
<1>3. (<<e>> \o s)[1] = e
  BY <1>1
<1>4. \A j \in 1 .. Len(s) : (<<e>> \o s)[j + 1] = s[j]
  BY <1>1
<1>5. /\ Append(s, e) \in Seq(S) /\ Len(Append(s, e)) = Len(s) + 1
      /\ Append(s, e)[Len(s) + 1] = e
      /\ \A j \in 1 .. Len(s) : Append(s, e)[j] = s[j]
  OBVIOUS
<1>6. s \o <<e>> = Append(s, e)
  OBVIOUS
<1>7. <<>> \o s = s /\ s \o <<>> = s
  OBVIOUS
<1> QED
  BY <1>2, <1>3, <1>4, <1>5, <1>6, <1>7

\* Two inner nodes after the last child of the left one moved right.
LEMMA FanLendsLast ==
  ASSUME NEW D, NEW g, NEW lo \in Int, NEW mid \in Keys, NEW hi \in Int, NEW d,
         NEW ka, NEW sa, NEW kb, NEW sb,
         Fan(D, g, ka, sa, lo, mid, d), Fan(D, g, kb, sb, mid, hi, d), mid < hi, Len(ka) >= 1,
         NEW k1, k1 = Front(ka), NEW s1, s1 = Front(sa),
         NEW k2, k2 = <<mid>> \o kb, NEW s2, s2 = <<Last(sa)>> \o sb, NEW s, s = Last(ka)
  PROVE  Refanned(D, g, k1, s1, k2, s2, lo, hi, d, s) /\ MovedRight(sa, sb, s1, s2)
<1> DEFINE n == Len(ka)
           e == Last(sa)
           no == SubSeq(ka, n + 1, n)
           one == SubSeq(sa, n + 1, n + 1)
<1>1. /\ ka \in Seq(Keys) /\ sa \in Seq(Item) /\ Len(sa) = n + 1 /\ n \in Nat /\ n >= 1
      /\ kb \in Seq(Keys) /\ sb \in Seq(Item)
  BY DEF Fan
<1>2. mid \in Int
  BY TreeKeysAssumption
<1>3. s = ka[n] /\ k1 = SubSeq(ka, 1, n - 1)
  BY <1>1, EndsAre
<1>4. s1 = SubSeq(sa, 1, n) /\ <<e>> = one /\ e = sa[n + 1] /\ e \in Item
  <2>1. Len(sa) >= 1 /\ Len(sa) - 1 = n
    BY <1>1
  <2> HIDE DEF n
  <2>2. /\ Last(sa) = sa[Len(sa)] /\ Last(sa) \in Item /\ Front(sa) = SubSeq(sa, 1, Len(sa) - 1)
        /\ <<Last(sa)>> = SubSeq(sa, Len(sa), Len(sa))
    BY <1>1, <2>1, EndsAre
  <2> QED
    BY <1>1, <2>1, <2>2
<1>5. no = <<>>
  BY <1>1
<1>6. FansOf(D, g, ka, sa, lo, mid, d, k1, s1, no, one, n, n, s)
  <2>1. /\ lo \in Int /\ mid \in Int /\ Fan(D, g, ka, sa, lo, mid, d) /\ n \in 1 .. Len(ka)
        /\ n = Len(ka) /\ k1 = SubSeq(ka, 1, n - 1) /\ s1 = SubSeq(sa, 1, n)
        /\ no = SubSeq(ka, n + 1, n) /\ one = SubSeq(sa, n + 1, n + 1) /\ s = ka[n]
    BY <1>1, <1>2, <1>3, <1>4
  <2> HIDE DEF n, no, one
  <2> QED
    BY ONLY <2>1, FanCutAt
<1>7. /\ Fan(D, g, k1, s1, lo, s, d) /\ Fan(D, g, <<>>, <<e>>, s, mid, d)
      /\ Len(s1) = n /\ \A j \in 1 .. n : s1[j] = sa[j]
      /\ s \in Keys /\ lo < s /\ s < mid
  BY <1>4, <1>5, <1>6 DEF FansOf
<1>8. s \in Int /\ s < hi
  BY <1>2, <1>7, TreeKeysAssumption
<1> HIDE DEF e
<1>9. Fan(D, g, <<>> \o <<mid>> \o kb, <<e>> \o sb, s, hi, d)
  <2>1. s \in Int /\ mid \in Keys /\ hi \in Int /\ s < mid /\ mid < hi
        /\ Fan(D, g, <<>>, <<e>>, s, mid, d) /\ Fan(D, g, kb, sb, mid, hi, d)
    BY <1>7, <1>8
  <2> QED
    BY ONLY <2>1, FanJoin
<1>10. <<>> \o <<mid>> = <<mid>>
  OBVIOUS
<1>11. Fan(D, g, k2, s2, s, hi, d)
  <2>1. <<>> \o <<mid>> \o kb = k2 /\ <<e>> \o sb = s2
    BY <1>10 DEF e
  <2> QED
    BY <1>9, <2>1
<1>12. MovedRight(sa, sb, s1, s2)
  <2>1. Len(s2) = Len(sb) + 1 /\ s2[1] = e /\ \A j \in 1 .. Len(sb) : s2[j + 1] = sb[j]
    <3>1. s2 = <<e>> \o sb
      BY DEF e
    <3> QED
      BY <1>1, <1>4, <3>1, PrefixOne
  <2>2. Len(sa) - 1 = n /\ sa[Len(sa)] = e
    BY <1>1, <1>4
  <2> HIDE DEF n
  <2> QED
    BY <1>7, <2>1, <2>2 DEF MovedRight
<1> QED
  BY <1>7, <1>8, <1>11, <1>12 DEF Refanned

\* Two inner nodes after the first child of the right one moved left.
LEMMA FanLendsFirst ==
  ASSUME NEW D, NEW g, NEW lo \in Int, NEW mid \in Keys, NEW hi \in Int, NEW d,
         NEW ka, NEW sa, NEW kb, NEW sb,
         Fan(D, g, ka, sa, lo, mid, d), Fan(D, g, kb, sb, mid, hi, d), lo < mid, Len(kb) >= 1,
         NEW k1, k1 = Append(ka, mid), NEW s1, s1 = Append(sa, Head(sb)),
         NEW k2, k2 = Tail(kb), NEW s2, s2 = Tail(sb), NEW s, s = Head(kb)
  PROVE  Refanned(D, g, k1, s1, k2, s2, lo, hi, d, s) /\ MovedLeft(sa, sb, s1, s2)
<1> DEFINE n == Len(kb)
           e == Head(sb)
           no == SubSeq(kb, 1, 1 - 1)
           one == SubSeq(sb, 1, 1)
<1>1. /\ kb \in Seq(Keys) /\ sb \in Seq(Item) /\ Len(sb) = n + 1 /\ n \in Nat /\ n >= 1
      /\ ka \in Seq(Keys) /\ sa \in Seq(Item)
  BY DEF Fan
<1>2. mid \in Int
  BY TreeKeysAssumption
<1>3. s = kb[1] /\ k2 = SubSeq(kb, 1 + 1, n)
  BY <1>1, EndsAre
<1>4. s2 = SubSeq(sb, 1 + 1, n + 1) /\ <<e>> = one /\ e = sb[1] /\ e \in Item
  <2>1. Len(sb) >= 1
    BY <1>1
  <2> HIDE DEF n
  <2>2. /\ Head(sb) = sb[1] /\ Head(sb) \in Item /\ Tail(sb) = SubSeq(sb, 2, Len(sb))
        /\ <<Head(sb)>> = SubSeq(sb, 1, 1)
    BY <1>1, <2>1, EndsAre
  <2> QED
    BY <1>1, <2>1, <2>2
<1>5. no = <<>>
  BY <1>1
<1>6. FansOf(D, g, kb, sb, mid, hi, d, no, one, k2, s2, 1, n, s)
  <2> DEFINE c == 1
  <2>1. /\ mid \in Int /\ hi \in Int /\ Fan(D, g, kb, sb, mid, hi, d) /\ c \in 1 .. Len(kb)
        /\ n = Len(kb) /\ no = SubSeq(kb, 1, c - 1) /\ one = SubSeq(sb, 1, c)
        /\ k2 = SubSeq(kb, c + 1, n) /\ s2 = SubSeq(sb, c + 1, n + 1) /\ s = kb[c]
    BY <1>1, <1>2, <1>3, <1>4
  <2> HIDE DEF n, no, one, c
  <2>2. FansOf(D, g, kb, sb, mid, hi, d, no, one, k2, s2, c, n, s)
    BY ONLY <2>1, FanCutAt
  <2> QED
    BY <2>2 DEF c
<1>7. /\ Fan(D, g, <<>>, <<e>>, mid, s, d) /\ Fan(D, g, k2, s2, s, hi, d)
      /\ Len(s2) = n + 1 - 1 /\ \A j \in 1 .. n + 1 - 1 : s2[j] = sb[1 + j]
      /\ s \in Keys /\ mid < s /\ s < hi
  BY <1>4, <1>5, <1>6 DEF FansOf
<1>8. s \in Int /\ lo < s
  BY <1>2, <1>7, TreeKeysAssumption, SMTT(60)
<1> HIDE DEF e
<1>9. Fan(D, g, ka \o <<mid>> \o <<>>, sa \o <<e>>, lo, s, d)
  <2>1. lo \in Int /\ mid \in Keys /\ s \in Int /\ lo < mid /\ mid < s
        /\ Fan(D, g, ka, sa, lo, mid, d) /\ Fan(D, g, <<>>, <<e>>, mid, s, d)
    BY <1>7, <1>8
  <2> QED
    BY ONLY <2>1, FanJoin
<1>10. Fan(D, g, k1, s1, lo, s, d)
  <2>1. ka \o <<mid>> = Append(ka, mid) /\ Append(ka, mid) \in Seq(Keys)
    BY <1>1, PrefixOne
  <2>2. Append(ka, mid) \o <<>> = Append(ka, mid)
    BY <2>1, PrefixOne
  <2>3. sa \o <<e>> = Append(sa, e)
    BY <1>1, <1>4, PrefixOne
  <2>4. ka \o <<mid>> \o <<>> = k1 /\ sa \o <<e>> = s1
    BY <2>1, <2>2, <2>3 DEF e
  <2> QED
    BY <1>9, <2>4
<1>11. MovedLeft(sa, sb, s1, s2)
  <2>1. Len(s1) = Len(sa) + 1 /\ s1[Len(sa) + 1] = e /\ \A j \in 1 .. Len(sa) : s1[j] = sa[j]
    <3>1. s1 = Append(sa, e)
      BY DEF e
    <3> QED
      BY <1>1, <1>4, <3>1, PrefixOne
  <2>2. Len(sb) - 1 = n /\ n + 1 - 1 = n /\ sb[1] = e
    BY <1>1, <1>4
  <2>3. \A j \in 1 .. n : s2[j] = sb[j + 1]
    <3>1. \A j \in 1 .. n : 1 + j = j + 1
      BY <1>1
    <3> QED
      BY <1>7, <2>2, <3>1
  <2> HIDE DEF n
  <2> QED
    BY <1>7, <2>1, <2>2, <2>3 DEF MovedLeft
<1> QED
  BY <1>7, <1>8, <1>10, <1>11 DEF Refanned

In(s, x) == \E q \in 1 .. Len(s) : s[q] = x

\* s1 and s2 hold what sa and sb held.
SameKids(sa, sb, s1, s2) == \A x : In(s1, x) \/ In(s2, x) <=> In(sa, x) \/ In(sb, x)

\* Moving a child right keeps the children of the two.
LEMMA MovedRightKids ==
  ASSUME NEW sa \in Seq(Item), NEW sb \in Seq(Item), NEW s1, NEW s2, MovedRight(sa, sb, s1, s2),
         Len(sa) >= 1
  PROVE  SameKids(sa, sb, s1, s2)
<1> DEFINE l == Len(sa)
           m == Len(sb)
<1>1. /\ l \in Nat /\ m \in Nat /\ l >= 1 /\ Len(s1) = l - 1 /\ Len(s2) = m + 1
      /\ \A j \in 1 .. l - 1 : s1[j] = sa[j]
      /\ s2[1] = sa[l]
      /\ \A j \in 1 .. m : s2[j + 1] = sb[j]
  BY DEF MovedRight
<1>2. Len(sa) = l /\ Len(sb) = m
  OBVIOUS
<1> HIDE DEF l, m
<1>3. ASSUME NEW x, In(s1, x) PROVE In(sa, x)
  <2>1. PICK q \in 1 .. l - 1 : s1[q] = x
    BY <1>1, <1>3 DEF In
  <2>2. q \in 1 .. l /\ sa[q] = x
    BY <1>1, <2>1
  <2> QED
    BY <1>2, <2>2 DEF In
<1>4. ASSUME NEW x, In(s2, x) PROVE In(sa, x) \/ In(sb, x)
  <2>1. PICK q \in 1 .. m + 1 : s2[q] = x
    BY <1>1, <1>4 DEF In
  <2>2. CASE q = 1
    <3>1. l \in 1 .. l /\ sa[l] = x
      BY <1>1, <2>1, <2>2
    <3> QED
      BY <1>2, <3>1 DEF In
  <2>3. CASE q # 1
    <3>1. q - 1 \in 1 .. m /\ (q - 1) + 1 = q
      BY <1>1, <2>3
    <3>2. sb[q - 1] = x
      BY <1>1, <2>1, <3>1
    <3> QED
      BY <1>2, <3>1, <3>2 DEF In
  <2> QED
    BY <2>2, <2>3
<1>5. ASSUME NEW x, In(sa, x) PROVE In(s1, x) \/ In(s2, x)
  <2>1. PICK q \in 1 .. l : sa[q] = x
    BY <1>2, <1>5 DEF In
  <2>2. CASE q = l
    <3>1. 1 \in 1 .. m + 1 /\ s2[1] = x
      BY <1>1, <2>1, <2>2
    <3> QED
      BY <1>1, <3>1 DEF In
  <2>3. CASE q # l
    <3>1. q \in 1 .. l - 1 /\ s1[q] = x
      BY <1>1, <2>1, <2>3
    <3> QED
      BY <1>1, <3>1 DEF In
  <2> QED
    BY <2>2, <2>3
<1>6. ASSUME NEW x, In(sb, x) PROVE In(s2, x)
  <2>1. PICK q \in 1 .. m : sb[q] = x
    BY <1>2, <1>6 DEF In
  <2>2. q + 1 \in 1 .. m + 1 /\ s2[q + 1] = x
    BY <1>1, <2>1, SMTT(60)
  <2> QED
    BY <1>1, <2>2 DEF In
<1> QED
  BY <1>3, <1>4, <1>5, <1>6 DEF SameKids

\* Moving a child left keeps the children of the two.
LEMMA MovedLeftKids ==
  ASSUME NEW sa \in Seq(Item), NEW sb \in Seq(Item), NEW s1, NEW s2, MovedLeft(sa, sb, s1, s2),
         Len(sb) >= 1
  PROVE  SameKids(sa, sb, s1, s2)
<1> DEFINE l == Len(sa)
           m == Len(sb)
<1>1. /\ l \in Nat /\ m \in Nat /\ m >= 1 /\ Len(s1) = l + 1 /\ Len(s2) = m - 1
      /\ \A j \in 1 .. l : s1[j] = sa[j]
      /\ s1[l + 1] = sb[1]
      /\ \A j \in 1 .. m - 1 : s2[j] = sb[j + 1]
  BY DEF MovedLeft
<1>2. Len(sa) = l /\ Len(sb) = m
  OBVIOUS
<1> HIDE DEF l, m
<1>3. ASSUME NEW x, In(s1, x) PROVE In(sa, x) \/ In(sb, x)
  <2>1. PICK q \in 1 .. l + 1 : s1[q] = x
    BY <1>1, <1>3 DEF In
  <2>2. CASE q = l + 1
    <3>1. 1 \in 1 .. m /\ sb[1] = x
      BY <1>1, <2>1, <2>2
    <3> QED
      BY <1>2, <3>1 DEF In
  <2>3. CASE q # l + 1
    <3>1. q \in 1 .. l
      BY <1>1, <2>3
    <3>2. sa[q] = x
      BY <1>1, <2>1, <3>1
    <3> QED
      BY <1>2, <3>1, <3>2 DEF In
  <2> QED
    BY <2>2, <2>3
<1>4. ASSUME NEW x, In(s2, x) PROVE In(sb, x)
  <2>1. PICK q \in 1 .. m - 1 : s2[q] = x
    BY <1>1, <1>4 DEF In
  <2>2. q + 1 \in 1 .. m /\ sb[q + 1] = x
    BY <1>1, <2>1
  <2> QED
    BY <1>2, <2>2 DEF In
<1>5. ASSUME NEW x, In(sa, x) PROVE In(s1, x)
  <2>1. PICK q \in 1 .. l : sa[q] = x
    BY <1>2, <1>5 DEF In
  <2>2. q \in 1 .. l + 1 /\ s1[q] = x
    BY <1>1, <2>1
  <2> QED
    BY <1>1, <2>2 DEF In
<1>6. ASSUME NEW x, In(sb, x) PROVE In(s1, x) \/ In(s2, x)
  <2>1. PICK q \in 1 .. m : sb[q] = x
    BY <1>2, <1>6 DEF In
  <2>2. CASE q = 1
    <3>1. l + 1 \in 1 .. l + 1 /\ s1[l + 1] = x
      BY <1>1, <2>1, <2>2
    <3> QED
      BY <1>1, <3>1 DEF In
  <2>3. CASE q # 1
    <3>1. q - 1 \in 1 .. m - 1 /\ (q - 1) + 1 = q
      BY <1>1, <2>3
    <3>2. s2[q - 1] = x
      BY <1>1, <2>1, <3>1
    <3> QED
      BY <1>1, <3>1, <3>2 DEF In
  <2> QED
    BY <2>2, <2>3
<1> QED
  BY <1>3, <1>4, <1>5, <1>6 DEF SameKids

\* Joining two nodes keeps their children.
LEMMA JoinedKids ==
  ASSUME NEW sa \in Seq(Item), NEW sb \in Seq(Item), NEW s, s = sa \o sb, NEW no, no = <<>>
  PROVE  SameKids(sa, sb, s, no)
<1> DEFINE l == Len(sa)
           m == Len(sb)
<1>1. /\ l \in Nat /\ m \in Nat /\ Len(s) = l + m
      /\ \A j \in 1 .. l + m : s[j] = IF j <= l THEN sa[j] ELSE sb[j - l]
  BY JoinIs
<1>2. Len(sa) = l /\ Len(sb) = m
  OBVIOUS
<1> HIDE DEF l, m
<1>3. ASSUME NEW x, In(s, x) PROVE In(sa, x) \/ In(sb, x)
  <2>1. PICK q \in 1 .. l + m : s[q] = x
    BY <1>1, <1>3 DEF In
  <2>2. CASE q <= l
    <3>1. q \in 1 .. l /\ sa[q] = x
      BY <1>1, <2>1, <2>2
    <3> QED
      BY <1>2, <3>1 DEF In
  <2>3. CASE ~ (q <= l)
    <3>1. q - l \in 1 .. m /\ sb[q - l] = x
      BY <1>1, <2>1, <2>3
    <3> QED
      BY <1>2, <3>1 DEF In
  <2> QED
    BY <2>2, <2>3
<1>4. ASSUME NEW x, In(sa, x) PROVE In(s, x)
  <2>1. PICK q \in 1 .. l : sa[q] = x
    BY <1>2, <1>4 DEF In
  <2>2. q \in 1 .. l + m /\ s[q] = x
    BY <1>1, <2>1
  <2> QED
    BY <1>1, <2>2 DEF In
<1>5. ASSUME NEW x, In(sb, x) PROVE In(s, x)
  <2>1. PICK q \in 1 .. m : sb[q] = x
    BY <1>2, <1>5 DEF In
  <2>2. l + q \in 1 .. l + m /\ ~ (l + q <= l) /\ (l + q) - l = q
    BY <1>1
  <2>3. s[l + q] = x
    BY <1>1, <2>1, <2>2
  <2> QED
    BY <1>1, <2>2, <2>3 DEF In
<1>6. \A x : ~ In(no, x)
  BY DEF In
<1> QED
  BY <1>3, <1>4, <1>5, <1>6 DEF SameKids

\* The children s1 and s2 of a and b know their place in H; no other link has changed.
Linked(v, H, a, b, s1, s2) ==
  /\ \A q \in 1 .. Len(s1) : H[s1[q]].parent = a /\ H[s1[q]].idx = q - 2
  /\ \A q \in 1 .. Len(s2) : H[s2[q]].parent = b /\ H[s2[q]].idx = q - 2
  /\ \A m \in DOMAIN v \cap DOMAIN H :
       ~ In(v[a].sub, m) /\ ~ In(v[b].sub, m) => SameLink(v, H, m)

\* They are the children a and b had in v; b may be gone from H.
Moves(v, H, a, b, s1, s2) ==
  /\ a \in DOMAIN v /\ b \in DOMAIN v /\ ~ v[a].leaf /\ ~ v[b].leaf
  /\ a \in DOMAIN H /\ ~ H[a].leaf /\ H[a].sub = s1
  /\ b \in DOMAIN H => ~ H[b].leaf /\ H[b].sub = s2
  /\ b \notin DOMAIN H => s2 = <<>>
  /\ SameKids(v[a].sub, v[b].sub, s1, s2) /\ Linked(v, H, a, b, s1, s2)

\* Children that moved are told their new parent.
LEMMA MovesAre ==
  ASSUME NEW v, NEW H, NEW a, NEW b, NEW s1, NEW s2, Moves(v, H, a, b, s1, s2)
  PROVE  KidsMoved(v, H, a, b)
<1> DEFINE sa == v[a].sub
           sb == v[b].sub
<1>0. /\ a \in DOMAIN v /\ b \in DOMAIN v /\ ~ v[a].leaf /\ ~ v[b].leaf
      /\ a \in DOMAIN H /\ ~ H[a].leaf /\ H[a].sub = s1
      /\ b \in DOMAIN H => ~ H[b].leaf /\ H[b].sub = s2
      /\ b \notin DOMAIN H => s2 = <<>>
      /\ SameKids(sa, sb, s1, s2)
      /\ \A q \in 1 .. Len(s1) : H[s1[q]].parent = a /\ H[s1[q]].idx = q - 2
      /\ \A q \in 1 .. Len(s2) : H[s2[q]].parent = b /\ H[s2[q]].idx = q - 2
      /\ \A m \in DOMAIN v \cap DOMAIN H : ~ In(sa, m) /\ ~ In(sb, m) => SameLink(v, H, m)
  BY DEF Moves, Linked
<1>1. \A c \in {a, b} : c \in DOMAIN H => KidsOf(H, c)
  BY <1>0 DEF KidsOf
<1>2. \A m : (KidOf(v, a, m) <=> In(sa, m)) /\ (KidOf(v, b, m) <=> In(sb, m))
  BY <1>0 DEF KidOf, Slot, In
<1>3. \A m : In(s1, m) => KidOf(H, a, m)
  BY <1>0 DEF KidOf, Slot, In
<1>4. \A m : In(s2, m) => KidOf(H, b, m)
  <2>1. CASE b \in DOMAIN H
    BY <1>0, <2>1 DEF KidOf, Slot, In
  <2>2. CASE b \notin DOMAIN H
    BY <1>0, <2>2 DEF In
  <2> QED
    BY <2>1, <2>2
<1>5. \A m \in DOMAIN v : KidOf(v, a, m) \/ KidOf(v, b, m) => KidOf(H, a, m) \/ KidOf(H, b, m)
  BY <1>0, <1>2, <1>3, <1>4 DEF SameKids
<1>6. \A m \in DOMAIN v \cap DOMAIN H :
        ~ KidOf(v, a, m) /\ ~ KidOf(v, b, m) => SameLink(v, H, m)
  BY <1>0, <1>2
<1> QED
  BY <1>1, <1>5, <1>6 DEF KidsMoved

\* Tree H is tree v with other contents in the inner nodes a and b, and with s
\* between them in their parent p.
Rebalanced(v, H, p, j, a, b, k1, s1, k2, s2, s) ==
  /\ HeapOK(H) /\ DOMAIN H = DOMAIN v
  /\ H[a].leaf = FALSE /\ H[a].key = k1 /\ H[a].sub = s1
  /\ H[b].leaf = FALSE /\ H[b].key = k2 /\ H[b].sub = s2
  /\ H[p].leaf = v[p].leaf /\ H[p].sub = v[p].sub /\ Len(H[p].key) = Len(v[p].key)
  /\ H[p].key[j] = s /\ \A i \in 1 .. Len(v[p].key) : i # j => H[p].key[i] = v[p].key[i]
  /\ \A m \in DOMAIN v \ {a, b, p} : Same(v, H, m)

\* Two inner nodes after a child moved: a new border between neighbours.
LEMMA InnerRecut ==
  ASSUME NEW v, NEW g, NEW rt, NEW lv, HeapOK(v), Shape(v, g, rt, lv), Links(v, rt),
         NEW p, NEW j, NEW a, NEW b, Slot(v, p, j, a), Slot(v, p, j + 1, b),
         v[a].leaf = FALSE, v[b].leaf = FALSE,
         NEW k1, NEW s1, NEW k2, NEW s2, NEW s,
         Refanned(DOMAIN v, g, k1, s1, k2, s2, g[a].lo, g[b].hi, g[a].dep, s),
         NEW H, Rebalanced(v, H, p, j, a, b, k1, s1, k2, s2, s), KidsMoved(v, H, a, b),
         NEW g2, g2 = Recutting(g, DOMAIN v, a, b, s)
  PROVE  Recut(v, H, g, g2, p, j, a, b, s)
<1>1. /\ a \in DOMAIN v /\ b \in DOMAIN v /\ g[p].dep = g[a].dep + 1 /\ g[p].dep = g[b].dep + 1
      /\ g[a].dep \in Nat /\ g[b].dep \in Nat /\ j \in Int
  <2>1. a \in DOMAIN v /\ g[p].dep = g[a].dep + 1 /\ g[a].dep \in Nat /\ j \in 1 .. Len(v[p].sub)
    BY ONLY Shape(v, g, rt, lv), Slot(v, p, j, a), SlotIs
  <2> DEFINE j1 == j + 1
  <2>2. Slot(v, p, j1, b)
    OBVIOUS
  <2> HIDE DEF j1
  <2>3. b \in DOMAIN v /\ g[p].dep = g[b].dep + 1 /\ g[b].dep \in Nat
    BY ONLY Shape(v, g, rt, lv), <2>2, SlotIs
  <2> QED
    BY <2>1, <2>3
<1>2. a # b
  <2>1. \A q, i : Slot(v, q, i, a) => i = j
    BY SlotUnique
  <2> QED
    BY <1>1, <2>1
<1>3. g[a].dep = g[b].dep
  BY <1>1
<1>4. /\ Fan(DOMAIN v, g, k1, s1, g[a].lo, s, g[a].dep) /\ Fan(DOMAIN v, g, k2, s2, s, g[b].hi, g[a].dep)
      /\ s \in Keys /\ g[a].lo < s /\ s < g[b].hi
  BY DEF Refanned
<1>5. /\ HeapOK(H) /\ DOMAIN H = DOMAIN v
      /\ H[a].leaf = FALSE /\ H[a].key = k1 /\ H[a].sub = s1
      /\ H[b].leaf = FALSE /\ H[b].key = k2 /\ H[b].sub = s2
      /\ H[p].leaf = v[p].leaf /\ H[p].sub = v[p].sub /\ Len(H[p].key) = Len(v[p].key)
      /\ H[p].key[j] = s /\ \A i \in 1 .. Len(v[p].key) : i # j => H[p].key[i] = v[p].key[i]
      /\ \A m \in DOMAIN v \ {a, b, p} : Same(v, H, m)
  BY DEF Rebalanced
<1>6. /\ g2[a].lo = g[a].lo /\ g2[a].hi = s /\ g2[a].dep = g[a].dep
      /\ g2[b].lo = s /\ g2[b].hi = g[b].hi /\ g2[b].dep = g[b].dep
      /\ \A m \in DOMAIN v \ {a, b} : g2[m] = g[m]
  BY <1>1, <1>2 DEF Recutting
<1>7. \A x \in DOMAIN v : g[a].dep = g[x].dep + 1 => x \in DOMAIN H /\ g2[x] = g[x]
  <2> TAKE x \in DOMAIN v
  <2>1. g[a].dep = g[x].dep + 1 => x # a /\ x # b
    <3>1. SUFFICES ASSUME g[a].dep = g[x].dep + 1, x = a \/ x = b PROVE FALSE
      OBVIOUS
    <3>2. g[x].dep = g[a].dep /\ g[a].dep \in Nat
      BY <1>1, <1>3, <3>1
    <3>3. g[a].dep = g[a].dep + 1
      BY <3>1, <3>2
    <3> QED
      BY <3>2, <3>3
  <2> QED
    BY <1>5, <1>6, <2>1
<1>8. /\ \A q \in 1 .. Len(s1) : s1[q] \in DOMAIN v /\ g[a].dep = g[s1[q]].dep + 1
      /\ \A q \in 1 .. Len(s2) : s2[q] \in DOMAIN v /\ g[a].dep = g[s2[q]].dep + 1
  BY <1>4 DEF Fan
<1>9. OwnOK(H, g2, a)
  <2>1. \A q \in 1 .. Len(s1) : s1[q] \in DOMAIN H /\ g2[s1[q]] = g[s1[q]]
    BY <1>7, <1>8
  <2>2. Fan(DOMAIN H, g2, k1, s1, g[a].lo, s, g[a].dep)
    BY <1>4, <2>1, FanKept
  <2>3. Fan(DOMAIN H, g2, H[a].key, H[a].sub, g2[a].lo, g2[a].hi, g2[a].dep)
    BY <1>5, <1>6, <2>2
  <2>4. a \in DOMAIN H
    BY <1>1, <1>5
  <2>5. InnerOK(H, g2, a)
    BY ONLY <1>5, <2>3, <2>4, InnerFan
  <2> QED
    BY <1>5, <2>5 DEF OwnOK
<1>10. OwnOK(H, g2, b)
  <2>1. \A q \in 1 .. Len(s2) : s2[q] \in DOMAIN H /\ g2[s2[q]] = g[s2[q]]
    BY <1>7, <1>8
  <2>2. Fan(DOMAIN H, g2, k2, s2, s, g[b].hi, g[a].dep)
    BY <1>4, <2>1, FanKept
  <2>3. Fan(DOMAIN H, g2, H[b].key, H[b].sub, g2[b].lo, g2[b].hi, g2[b].dep)
    BY <1>3, <1>5, <1>6, <2>2
  <2>4. b \in DOMAIN H
    BY <1>1, <1>5
  <2>5. InnerOK(H, g2, b)
    BY ONLY <1>5, <2>3, <2>4, InnerFan
  <2> QED
    BY <1>5, <2>5 DEF OwnOK
<1>11. s \in Int
  BY <1>4, TreeKeysAssumption
<1>12. H[a].leaf = v[a].leaf /\ H[b].leaf = v[b].leaf
  BY <1>5
<1> QED
  BY <1>4, <1>5, <1>6, <1>9, <1>10, <1>11, <1>12 DEF Recut

\* The inner node a has taken over what its neighbour b held.
TakenOver(v, H, a, b, k, s) ==
  /\ HeapOK(H) /\ DOMAIN H = DOMAIN v \ {b}
  /\ a \in DOMAIN H /\ H[a].leaf = FALSE /\ H[a].key = k /\ H[a].sub = s
  /\ \A m \in DOMAIN v \ {a, b} : Same(v, H, m)

\* Two inner nodes after a merge.
LEMMA InnerMerge ==
  ASSUME NEW v, NEW g, NEW rt, NEW lv, HeapOK(v), Shape(v, g, rt, lv), Links(v, rt),
         NEW p, NEW j, NEW a, NEW b, Slot(v, p, j, a), Slot(v, p, j + 1, b),
         v[a].leaf = FALSE, v[b].leaf = FALSE,
         NEW k, NEW s, Fan(DOMAIN v, g, k, s, g[a].lo, g[b].hi, g[a].dep),
         NEW H, TakenOver(v, H, a, b, k, s), KidsMoved(v, H, a, b),
         NEW g2, g2 = Merging(g, DOMAIN v, a, b)
  PROVE  Merged(v, H, g, g2, p, j, a, b)
<1>1. /\ a \in DOMAIN v /\ g[p].dep = g[a].dep + 1 /\ g[a].dep \in Nat
  BY ONLY Shape(v, g, rt, lv), Slot(v, p, j, a), SlotIs
<1>2. b \in DOMAIN v /\ g[p].dep = g[b].dep + 1 /\ g[b].dep \in Nat
  <2> DEFINE j1 == j + 1
  <2>2. Slot(v, p, j1, b)
    OBVIOUS
  <2> HIDE DEF j1
  <2> QED
    BY ONLY Shape(v, g, rt, lv), <2>2, SlotIs
<1>3. g[a].dep = g[b].dep
  BY <1>1, <1>2
<1>4. /\ HeapOK(H) /\ DOMAIN H = DOMAIN v \ {b}
      /\ a \in DOMAIN H /\ H[a].leaf = FALSE /\ H[a].key = k /\ H[a].sub = s
      /\ \A m \in DOMAIN v \ {a, b} : Same(v, H, m)
  BY DEF TakenOver
<1>5. /\ g2[a].lo = g[a].lo /\ g2[a].hi = g[b].hi /\ g2[a].dep = g[a].dep
      /\ \A m \in DOMAIN v \ {a, b} : g2[m] = g[m]
  BY <1>1 DEF Merging
<1>6. \A x \in DOMAIN v : g[a].dep = g[x].dep + 1 => x \in DOMAIN H /\ g2[x] = g[x]
  <2> TAKE x \in DOMAIN v
  <2>1. g[a].dep = g[x].dep + 1 => x # a /\ x # b
    <3>1. SUFFICES ASSUME g[a].dep = g[x].dep + 1, x = a \/ x = b PROVE FALSE
      OBVIOUS
    <3>2. g[x].dep = g[a].dep /\ g[a].dep \in Nat
      BY <1>1, <1>3, <3>1
    <3>3. g[a].dep = g[a].dep + 1
      BY <3>1, <3>2
    <3> QED
      BY <3>2, <3>3
  <2> QED
    BY <1>4, <1>5, <2>1
<1>7. OwnOK(H, g2, a)
  <2>1. \A q \in 1 .. Len(s) : s[q] \in DOMAIN v /\ g[a].dep = g[s[q]].dep + 1
    BY DEF Fan
  <2>2. \A q \in 1 .. Len(s) : s[q] \in DOMAIN H /\ g2[s[q]] = g[s[q]]
    BY <1>6, <2>1
  <2>3. Fan(DOMAIN H, g2, k, s, g[a].lo, g[b].hi, g[a].dep)
    BY <2>2, FanKept
  <2>4. Fan(DOMAIN H, g2, H[a].key, H[a].sub, g2[a].lo, g2[a].hi, g2[a].dep)
    BY <1>4, <1>5, <2>3
  <2>5. InnerOK(H, g2, a)
    BY ONLY <1>4, <2>4, InnerFan
  <2> QED
    BY <1>4, <2>5 DEF OwnOK
<1>8. H[a].leaf = v[a].leaf
  BY <1>4
<1> QED
  BY <1>4, <1>5, <1>7, <1>8 DEF Merged

\* Borrowing ends the removal: the sizes and the entries are right.
LEMMA RebalancedKeeps ==
  ASSUME NEW g, NEW v, NEW n, NEW r, Removing(g, v, n, r),
         NEW p \in DOMAIN heap, NEW j, NEW a \in DOMAIN heap, NEW b \in DOMAIN heap,
         n = a \/ n = b, v[a].leaf = FALSE, v[b].leaf = FALSE, v[p].leaf = FALSE, p # a, p # b,
         NEW k1, NEW s1, NEW k2, NEW s2, NEW s, NEW H,
         Rebalanced(v, H, p, j, a, b, k1, s1, k2, s2, s),
         NodeFits(Len(s1)), NodeFits(Len(s2)),
         NEW g2, TreeIs(H, Idle, root, level, list, g2)
  PROVE  StateOK(H, Idle, root, level, list, contents)
<1>1. /\ DOMAIN v = DOMAIN heap /\ MapIs(heap, contents) /\ Sizes(heap, root)
      /\ heap[n].leaf = FALSE /\ \A m \in DOMAIN heap \ {n} : Same(heap, v, m)
  BY DEF Removing
<1>2. /\ DOMAIN H = DOMAIN v
      /\ H[a].leaf = FALSE /\ H[a].sub = s1 /\ H[b].leaf = FALSE /\ H[b].sub = s2
      /\ H[p].leaf = v[p].leaf /\ H[p].sub = v[p].sub
      /\ \A m \in DOMAIN v \ {a, b, p} : Same(v, H, m)
  BY DEF Rebalanced
<1>3. heap[a].leaf = FALSE /\ heap[b].leaf = FALSE
  BY <1>1 DEF Same
<1>4. \A m \in DOMAIN heap \ {a, b} : H[m].leaf = heap[m].leaf /\ H[m].sub = heap[m].sub
  BY <1>1, <1>2 DEF Same
<1>5. Sizes(H, root)
  <2>1. Fits(H, root, a) /\ Fits(H, root, b)
    BY <1>2 DEF Fits, NodeFits
  <2>2. \A m \in DOMAIN heap \ {a, b} : Fits(H, root, m)
    BY <1>1, <1>4 DEF Sizes, Fits
  <2> QED
    BY <1>1, <1>2, <2>1, <2>2 DEF Sizes
<1>6. MapIs(H, contents)
  <2>1. heap[p].leaf = FALSE /\ H[p].leaf = FALSE
    BY <1>1, <1>2 DEF Same
  <2>2. \A m : (m \in DOMAIN H /\ H[m].leaf) <=> (m \in DOMAIN heap /\ heap[m].leaf)
    BY <1>1, <1>2, <1>3, <1>4
  <2>3. \A m \in DOMAIN heap : heap[m].leaf => H[m].key = heap[m].key /\ H[m].sub = heap[m].sub
    BY <1>1, <1>2, <1>3, <2>1 DEF Same
  <2> QED
    BY ONLY <1>1, <2>2, <2>3, LeavesKept
<1> QED
  BY <1>5, <1>6, IdleState

\* A merge passes the removal on: the sizes and the entries are right.
LEMMA TakenOverKeeps ==
  ASSUME NEW g, NEW v, NEW n, NEW r, Removing(g, v, n, r),
         NEW a \in DOMAIN heap, NEW b \in DOMAIN heap, a # b,
         n = a \/ n = b, v[a].leaf = FALSE, v[b].leaf = FALSE,
         NEW k, NEW s, NEW H, TakenOver(v, H, a, b, k, s), NodeFits(Len(s)),
         NEW w, w.op = "remove", NEW ls, NEW g2, TreeIs(H, w, root, level, ls, g2)
  PROVE  StateOK(H, w, root, level, ls, contents)
<1>1. /\ DOMAIN v = DOMAIN heap /\ MapIs(heap, contents) /\ Sizes(heap, root)
      /\ heap[n].leaf = FALSE /\ \A m \in DOMAIN heap \ {n} : Same(heap, v, m)
  BY DEF Removing
<1>2. /\ DOMAIN H = DOMAIN v \ {b} /\ H[a].leaf = FALSE /\ H[a].sub = s
      /\ \A m \in DOMAIN v \ {a, b} : Same(v, H, m)
  BY DEF TakenOver
<1>3. heap[a].leaf = FALSE /\ heap[b].leaf = FALSE
  BY <1>1 DEF Same
<1>4. \A m \in DOMAIN heap \ {a, b} : Same(heap, H, m)
  BY <1>1, <1>2 DEF Same
<1>5. Sizes(H, root)
  <2>1. Fits(H, root, a)
    BY <1>2 DEF Fits, NodeFits
  <2>2. \A m \in DOMAIN heap \ {a, b} : Fits(H, root, m)
    BY <1>1, <1>4 DEF Sizes, Fits, Same
  <2> QED
    BY <1>1, <1>2, <2>1, <2>2 DEF Sizes
<1>6. MapIs(H, contents)
  <2>1. \A m : (m \in DOMAIN H /\ H[m].leaf) <=> (m \in DOMAIN heap /\ heap[m].leaf)
    BY <1>1, <1>2, <1>3, <1>4 DEF Same
  <2>2. \A m \in DOMAIN heap : heap[m].leaf => H[m].key = heap[m].key /\ H[m].sub = heap[m].sub
    BY <1>1, <1>3, <1>4 DEF Same
  <2> QED
    BY ONLY <1>1, <2>1, <2>2, LeavesKept
<1>7. RootOf(H, w, root) = root
  BY DEF RootOf, Tall
<1> QED
  BY <1>5, <1>6, <1>7 DEF StateOK

\* The neighbours a and b, inner nodes that mid divides, the children j and j + 1 of p.
Beside(g, v, p, j, a, b, mid) ==
  /\ Slot(v, p, j, a) /\ Slot(v, p, j + 1, b)
  /\ p \in DOMAIN v /\ a \in DOMAIN v /\ b \in DOMAIN v /\ a # b /\ p # a /\ p # b
  /\ v[a].leaf = FALSE /\ v[b].leaf = FALSE /\ v[p].leaf = FALSE
  /\ j \in 1 .. Len(v[p].key) /\ mid = v[p].key[j] /\ mid \in Keys /\ mid \in Int
  /\ g[a].lo \in Int /\ g[b].hi \in Int /\ g[a].lo < mid /\ mid < g[b].hi
  /\ Fan(DOMAIN v, g, v[a].key, v[a].sub, g[a].lo, mid, g[a].dep)
  /\ Fan(DOMAIN v, g, v[b].key, v[b].sub, mid, g[b].hi, g[a].dep)

\* Two neighbouring children and the key between them.
LEMMA BesideIs ==
  ASSUME NEW v, NEW g, NEW rt, NEW lv, HeapOK(v), Shape(v, g, rt, lv), Links(v, rt),
         NEW p, NEW j, NEW a, NEW b, Slot(v, p, j, a), Slot(v, p, j + 1, b),
         v[a].leaf = FALSE \/ v[b].leaf = FALSE
  PROVE  Beside(g, v, p, j, a, b, v[p].key[j])
<1>1. /\ p \in DOMAIN v /\ ~ v[p].leaf /\ j \in 1 .. Len(v[p].sub) /\ a \in DOMAIN v
      /\ g[p].dep = g[a].dep + 1 /\ p # a /\ g[a].hi = Bound(v, g, p, j)
      /\ Len(v[p].sub) = Len(v[p].key) + 1 /\ g[a].dep \in Nat
  BY SlotIs
<1>2. /\ j + 1 \in 1 .. Len(v[p].sub) /\ b \in DOMAIN v
      /\ g[p].dep = g[b].dep + 1 /\ p # b /\ g[b].lo = Bound(v, g, p, (j + 1) - 1)
      /\ g[b].dep \in Nat
  <2> DEFINE j1 == j + 1
  <2>1. Slot(v, p, j1, b)
    OBVIOUS
  <2> HIDE DEF j1
  <2>2. /\ j1 \in 1 .. Len(v[p].sub) /\ b \in DOMAIN v
        /\ g[p].dep = g[b].dep + 1 /\ p # b /\ g[b].lo = Bound(v, g, p, j1 - 1)
        /\ g[b].dep \in Nat
    BY <2>1, SlotIs
  <2> QED
    BY <2>2 DEF j1
<1>3. Len(v[p].key) \in Nat /\ Len(v[p].sub) \in Nat /\ v[p].leaf \in BOOLEAN
      /\ v[a].leaf \in BOOLEAN /\ v[b].leaf \in BOOLEAN /\ v[p].key \in Seq(Keys)
  BY <1>1, <1>2, NodeFields
<1>4. j \in 1 .. Len(v[p].key) /\ (j + 1) - 1 = j /\ j # 0 /\ j # Len(v[p].sub)
  BY ONLY <1>1, <1>2, <1>3
<1>5. v[p].key[j] \in Keys /\ v[p].key[j] \in Int
  BY <1>3, <1>4, KeyIsInt
<1>6. g[a].hi = v[p].key[j] /\ g[b].lo = v[p].key[j]
  BY <1>1, <1>2, <1>4 DEF Bound
<1>7. g[a].dep = g[b].dep
  BY ONLY <1>1, <1>2
<1>8. /\ Interval(g, a) /\ Interval(g, b) /\ (v[a].leaf <=> g[a].dep = 0)
      /\ (v[b].leaf <=> g[b].dep = 0) /\ OwnOK(v, g, a) /\ OwnOK(v, g, b)
  BY <1>1, <1>2, DepthIs
<1>9. v[a].leaf = FALSE /\ v[b].leaf = FALSE /\ v[p].leaf = FALSE
  BY <1>1, <1>3, <1>7, <1>8
<1>10. a # b
  BY <1>6, <1>8 DEF Interval
<1>11. InnerOK(v, g, a) /\ InnerOK(v, g, b)
  BY <1>8, <1>9 DEF OwnOK
<1>12. /\ Fan(DOMAIN v, g, v[a].key, v[a].sub, g[a].lo, g[a].hi, g[a].dep)
       /\ Fan(DOMAIN v, g, v[b].key, v[b].sub, g[b].lo, g[b].hi, g[b].dep)
  BY <1>1, <1>2, <1>11, InnerFan
<1>13. /\ Fan(DOMAIN v, g, v[a].key, v[a].sub, g[a].lo, v[p].key[j], g[a].dep)
       /\ Fan(DOMAIN v, g, v[b].key, v[b].sub, v[p].key[j], g[b].hi, g[a].dep)
  BY <1>6, <1>7, <1>12
<1>14. /\ g[a].lo \in Int /\ g[b].hi \in Int
       /\ g[a].lo < v[p].key[j] /\ v[p].key[j] < g[b].hi
  BY <1>6, <1>8 DEF Interval
<1> QED
  BY <1>1, <1>2, <1>4, <1>5, <1>9, <1>10, <1>13, <1>14 DEF Beside

\* Two inner nodes have shared their children out anew.
LEMMA BalancedKeeps ==
  ASSUME NEW g, NEW v, NEW n, NEW r, Removing(g, v, n, r),
         NEW p, NEW j, NEW a, NEW b, NEW mid, Beside(g, v, p, j, a, b, mid), n = a \/ n = b,
         NEW k1, NEW s1, NEW k2, NEW s2, NEW s,
         Refanned(DOMAIN v, g, k1, s1, k2, s2, g[a].lo, g[b].hi, g[a].dep, s),
         NEW H, Rebalanced(v, H, p, j, a, b, k1, s1, k2, s2, s),
         SameKids(v[a].sub, v[b].sub, s1, s2), Linked(v, H, a, b, s1, s2),
         NodeFits(Len(s1)), NodeFits(Len(s2))
  PROVE  StateOK(H, Idle, root, level, list, contents)
<1> DEFINE g2 == Recutting(g, DOMAIN v, a, b, s)
<1>1. /\ HeapOK(v) /\ Shape(v, g, root, level) /\ Links(v, root) /\ Chain(list, DOMAIN v, g)
      /\ DOMAIN v = DOMAIN heap
  BY DEF Removing
<1>2. /\ Slot(v, p, j, a) /\ Slot(v, p, j + 1, b)
      /\ p \in DOMAIN v /\ a \in DOMAIN v /\ b \in DOMAIN v /\ p # a /\ p # b
      /\ v[a].leaf = FALSE /\ v[b].leaf = FALSE /\ v[p].leaf = FALSE
  BY DEF Beside
<1>3. /\ HeapOK(H) /\ DOMAIN H = DOMAIN v
      /\ H[a].leaf = FALSE /\ H[a].sub = s1 /\ H[b].leaf = FALSE /\ H[b].sub = s2
  BY DEF Rebalanced
<1>4. KidsMoved(v, H, a, b)
  <2>1. Moves(v, H, a, b, s1, s2)
    BY <1>2, <1>3 DEF Moves
  <2> QED
    BY ONLY <2>1, MovesAre
<1>5. g2 = Recutting(g, DOMAIN v, a, b, s)
  OBVIOUS
<1>6. Refanned(DOMAIN v, g, k1, s1, k2, s2, g[a].lo, g[b].hi, g[a].dep, s)
      /\ Rebalanced(v, H, p, j, a, b, k1, s1, k2, s2, s)
  OBVIOUS
<1> HIDE DEF g2
<1>7. Recut(v, H, g, g2, p, j, a, b, s)
  BY ONLY <1>1, <1>2, <1>4, <1>5, <1>6, InnerRecut
<1>8. TreeIs(H, Idle, root, level, list, g2)
  BY ONLY <1>1, <1>3, <1>7, RecutStep
<1>9. p \in DOMAIN heap /\ a \in DOMAIN heap /\ b \in DOMAIN heap
  BY <1>1, <1>2
<1>10. Removing(g, v, n, r) /\ (n = a \/ n = b) /\ NodeFits(Len(s1)) /\ NodeFits(Len(s2))
  OBVIOUS
<1> QED
  BY ONLY <1>2, <1>6, <1>8, <1>9, <1>10, RebalancedKeeps

\* One inner node has taken over the children of its neighbour.
LEMMA JoinedKeeps ==
  ASSUME NEW g, NEW v, NEW n, NEW r, Removing(g, v, n, r), level < MaxLevel,
         NEW p, NEW j, NEW a, NEW b, NEW mid, Beside(g, v, p, j, a, b, mid), n = a \/ n = b,
         NEW k, k = v[a].key \o <<mid>> \o v[b].key, NEW s, s = v[a].sub \o v[b].sub,
         NEW H, TakenOver(v, H, a, b, k, s), NEW no, no = <<>>, Linked(v, H, a, b, s, no),
         NodeFits(Len(s)), NEW i, i = j - 1
  PROVE  StateOK(H, RemoveUpwards(p, i), root, level, Unlinked(b), contents)
<1> DEFINE g2 == Merging(g, DOMAIN v, a, b)
           w == RemoveUpwards(p, i)
           ls == Unlinked(b)
<1>1. /\ HeapOK(v) /\ Shape(v, g, root, level) /\ Links(v, root) /\ Chain(list, DOMAIN v, g)
      /\ DOMAIN v = DOMAIN heap
  BY DEF Removing
<1>2. /\ Slot(v, p, j, a) /\ Slot(v, p, j + 1, b)
      /\ p \in DOMAIN v /\ a \in DOMAIN v /\ b \in DOMAIN v /\ p # a /\ p # b /\ a # b
      /\ v[a].leaf = FALSE /\ v[b].leaf = FALSE /\ v[p].leaf = FALSE
  BY DEF Beside
<1>3. /\ HeapOK(H) /\ DOMAIN H = DOMAIN v \ {b} /\ a \in DOMAIN H
      /\ H[a].leaf = FALSE /\ H[a].sub = s
  BY DEF TakenOver
<1>11. Fan(DOMAIN v, g, k, s, g[a].lo, g[b].hi, g[a].dep)
  <2> DEFINE D == DOMAIN v
             lo == g[a].lo
             hi == g[b].hi
             d == g[a].dep
             ka == v[a].key
             sa == v[a].sub
             kb == v[b].key
             sb == v[b].sub
  <2>1. /\ lo \in Int /\ mid \in Keys /\ hi \in Int /\ lo < mid /\ mid < hi
        /\ Fan(D, g, ka, sa, lo, mid, d) /\ Fan(D, g, kb, sb, mid, hi, d)
    BY DEF Beside
  <2>2. k = ka \o <<mid>> \o kb /\ s = sa \o sb
    OBVIOUS
  <2> HIDE DEF D, lo, hi, d, ka, sa, kb, sb
  <2>3. Fan(D, g, ka \o <<mid>> \o kb, sa \o sb, lo, hi, d)
    BY ONLY <2>1, FanJoin
  <2> QED
    BY <2>2, <2>3 DEF D, lo, hi, d
<1>4. KidsMoved(v, H, a, b)
  <2> DEFINE sa == v[a].sub
             sb == v[b].sub
  <2>1. s = sa \o sb /\ no = <<>> /\ sa \in Seq(Item) /\ sb \in Seq(Item)
    BY <1>1, <1>2, NodeFields
  <2> HIDE DEF sa, sb
  <2>2. SameKids(sa, sb, s, no)
    BY ONLY <2>1, JoinedKids
  <2>3. Moves(v, H, a, b, s, no)
    BY <1>2, <1>3, <2>2 DEF Moves, sa, sb
  <2> QED
    BY ONLY <2>3, MovesAre
<1>5. g2 = Merging(g, DOMAIN v, a, b) /\ i = j - 1 /\ level < MaxLevel
  OBVIOUS
<1>6. TakenOver(v, H, a, b, k, s)
  OBVIOUS
<1> HIDE DEF g2
<1>7. Merged(v, H, g, g2, p, j, a, b)
  BY ONLY <1>1, <1>2, <1>4, <1>5, <1>6, <1>11, InnerMerge
<1>8. TreeIs(H, w, root, level, ls, g2)
  BY ONLY <1>1, <1>3, <1>5, <1>7, MergeStep
<1>9. a \in DOMAIN heap /\ b \in DOMAIN heap
  BY <1>1, <1>2
<1>10. Removing(g, v, n, r) /\ (n = a \/ n = b) /\ NodeFits(Len(s))
  OBVIOUS
<1>12. w.op = "remove"
  BY DEF RemoveUpwards
<1> HIDE DEF w, ls
<1>13. StateOK(H, w, root, level, ls, contents)
  BY ONLY <1>2, <1>6, <1>8, <1>9, <1>10, <1>12, TakenOverKeeps
<1> QED
  BY <1>13, SMTT(60) DEF w, ls

\* The children of the inner nodes a and b are different nodes that know their places.
KidsApart(v, a, b) ==
  /\ \A q \in 1 .. Len(v[a].sub) : /\ v[a].sub[q] \in DOMAIN v
                                   /\ v[v[a].sub[q]].parent = a /\ v[v[a].sub[q]].idx = q - 2
  /\ \A q \in 1 .. Len(v[b].sub) : /\ v[b].sub[q] \in DOMAIN v
                                   /\ v[v[b].sub[q]].parent = b /\ v[v[b].sub[q]].idx = q - 2
  /\ \A i \in 1 .. Len(v[a].sub), q \in 1 .. Len(v[b].sub) : v[a].sub[i] # v[b].sub[q]
  /\ Distinct(v[a].sub) /\ Distinct(v[b].sub)

\* Two nodes have no child in common.
LEMMA KidsApartIs ==
  ASSUME NEW v, NEW g, NEW rt, NEW lv, HeapOK(v), Shape(v, g, rt, lv), Links(v, rt),
         NEW a \in DOMAIN v, NEW b \in DOMAIN v, v[a].leaf = FALSE, v[b].leaf = FALSE, a # b
  PROVE  KidsApart(v, a, b)
<1>1. ~ v[a].leaf /\ ~ v[b].leaf
  OBVIOUS
<1>2. \A q \in 1 .. Len(v[a].sub) : /\ v[a].sub[q] \in DOMAIN v
                                   /\ v[v[a].sub[q]].parent = a /\ v[v[a].sub[q]].idx = q - 2
  BY <1>1, OtherKids
<1>3. \A q \in 1 .. Len(v[b].sub) : /\ v[b].sub[q] \in DOMAIN v
                                   /\ v[v[b].sub[q]].parent = b /\ v[v[b].sub[q]].idx = q - 2
  BY <1>1, OtherKids
<1>4. \A i \in 1 .. Len(v[a].sub), q \in 1 .. Len(v[b].sub) : v[a].sub[i] # v[b].sub[q]
  BY <1>2, <1>3
<1>5. Distinct(v[a].sub) /\ Distinct(v[b].sub)
  BY <1>1, ShapeDistinct
<1> QED
  BY <1>2, <1>3, <1>4, <1>5 DEF KidsApart

\* non_leaf_shift_from_left numbers the first r + 2 children of n, and adopts the first.
LeftTold(h, H, n, r, s) ==
  /\ HeapOK(H) /\ DOMAIN H = DOMAIN h
  /\ \A m \in DOMAIN h : Same(h, H, m)
  /\ H[s[1]].parent = n /\ H[s[1]].idx = -1
  /\ \A q \in 2 .. r + 2 : H[s[q]].parent = h[s[q]].parent /\ H[s[q]].idx = q - 2
  /\ \A q \in r + 3 .. Len(s) : SameLink(h, H, s[q])
  /\ \A m \in DOMAIN h : ~ In(s, m) => SameLink(h, H, m)

\* The children of n after it borrowed from the left (bplustree.c:637-658).
LEMMA LeftToldIs ==
  ASSUME NEW h, HeapOK(h), NEW n \in DOMAIN h, NEW s, s = h[n].sub, Distinct(s),
         \A q \in 1 .. Len(s) : s[q] \in DOMAIN h, NEW r \in Nat, r + 2 <= Len(s),
         NEW H, H = Adopt(Renumber(h, n, 1 .. r + 1), n, {0})
  PROVE  LeftTold(h, H, n, r, s)
<1> DEFINE y == Renumber(h, n, 1 .. r + 1)
           P == 1 .. r + 1
           Z == {0}
<1>1. Len(s) \in Nat
  BY NodeFields
<1>2. Apart(h, n, P)
  <2>1. P \subseteq 0 .. Len(s) - 1
    BY <1>1
  <2>2. \A p, q \in P : s[p + 1] = s[q + 1] => p = q
    <3> SUFFICES ASSUME NEW p \in P, NEW q \in P, s[p + 1] = s[q + 1] PROVE p = q
      OBVIOUS
    <3>1. p + 1 \in 1 .. Len(s) /\ q + 1 \in 1 .. Len(s) /\ p \in Int /\ q \in Int
      BY <1>1
    <3>2. p + 1 = q + 1
      BY <3>1 DEF Distinct
    <3> QED
      BY <3>1, <3>2
  <2> QED
    BY <2>1, <2>2 DEF Apart
<1>3. /\ HeapOK(y) /\ DOMAIN y = DOMAIN h
      /\ \A m \in DOMAIN h : /\ y[m].leaf = h[m].leaf /\ y[m].key = h[m].key
                             /\ y[m].sub = h[m].sub /\ y[m].parent = h[m].parent
      /\ \A p \in P : s[p + 1] \in DOMAIN h => y[s[p + 1]].idx = p - 1
      /\ \A m \in DOMAIN h : (\A p \in P : s[p + 1] # m) => y[m] = h[m]
  <2> HIDE DEF P
  <2>1. LET gg == Renumber(h, n, P) IN
         /\ HeapOK(gg) /\ DOMAIN gg = DOMAIN h
         /\ \A m \in DOMAIN h : /\ gg[m].leaf = h[m].leaf /\ gg[m].key = h[m].key
                                /\ gg[m].sub = h[m].sub /\ gg[m].parent = h[m].parent
         /\ \A p \in P : h[n].sub[p + 1] \in DOMAIN h => gg[h[n].sub[p + 1]].idx = p - 1
         /\ \A m \in DOMAIN h : (\A p \in P : h[n].sub[p + 1] # m) => gg[m] = h[m]
    BY <1>2, RenumberIs
  <2> QED
    BY <2>1 DEF P
<1>4. H = Adopt(y, n, Z) /\ y[n].sub = s /\ n \in DOMAIN y
  BY <1>3
<1> HIDE DEF y
<1>5. Apart(y, n, Z)
  BY <1>1, <1>4 DEF Apart
<1>6. /\ HeapOK(H) /\ DOMAIN H = DOMAIN y
      /\ \A m \in DOMAIN y : /\ H[m].leaf = y[m].leaf /\ H[m].key = y[m].key
                             /\ H[m].sub = y[m].sub
      /\ \A p \in Z : s[p + 1] \in DOMAIN y =>
           H[s[p + 1]].idx = p - 1 /\ H[s[p + 1]].parent = n
      /\ \A m \in DOMAIN y : (\A p \in Z : s[p + 1] # m) => H[m] = y[m]
  <2> HIDE DEF Z
  <2>0. n \in DOMAIN y
    BY <1>4
  <2>1. LET gg == Adopt(y, n, Z) IN
         /\ HeapOK(gg) /\ DOMAIN gg = DOMAIN y
         /\ \A m \in DOMAIN y : /\ gg[m].leaf = y[m].leaf /\ gg[m].key = y[m].key
                                /\ gg[m].sub = y[m].sub
         /\ \A p \in Z : y[n].sub[p + 1] \in DOMAIN y =>
              gg[y[n].sub[p + 1]].idx = p - 1 /\ gg[y[n].sub[p + 1]].parent = n
         /\ \A m \in DOMAIN y : (\A p \in Z : y[n].sub[p + 1] # m) => gg[m] = y[m]
    BY ONLY <1>3, <2>0, <1>5, AdoptIs
  <2> QED
    BY <1>4, <2>1 DEF Z
<1>7. \A m \in DOMAIN h : Same(h, H, m)
  BY <1>3, <1>6 DEF Same
<1>8. H[s[1]].parent = n /\ H[s[1]].idx = -1
  <2>1. 1 \in 1 .. Len(s)
    BY <1>1
  <2>2. s[0 + 1] \in DOMAIN y
    BY <1>3, <2>1
  <2> QED
    BY <1>6, <2>2
<1>9. \A m \in DOMAIN h : m # s[1] => H[m] = y[m]
  BY <1>3, <1>6
<1>10. \A q \in 2 .. Len(s) : s[q] \in DOMAIN h /\ s[q] # s[1] /\ H[s[q]] = y[s[q]]
  <2> SUFFICES ASSUME NEW q \in 2 .. Len(s)
               PROVE  s[q] \in DOMAIN h /\ s[q] # s[1] /\ H[s[q]] = y[s[q]]
    OBVIOUS
  <2>1. q \in 1 .. Len(s) /\ 1 \in 1 .. Len(s) /\ q # 1
    BY <1>1
  <2> QED
    BY <1>9, <2>1 DEF Distinct
<1>11. ASSUME NEW q \in 2 .. r + 2
       PROVE  H[s[q]].parent = h[s[q]].parent /\ H[s[q]].idx = q - 2
  <2> DEFINE p == q - 1
  <2>1. q \in 2 .. Len(s) /\ p \in P /\ p + 1 = q /\ p - 1 = q - 2
    BY <1>1
  <2> HIDE DEF P
  <2>2. s[q] \in DOMAIN h /\ H[s[q]] = y[s[q]]
    BY <1>10, <2>1
  <2>3. y[s[p + 1]].idx = p - 1
    BY <1>3, <2>1, <2>2
  <2> QED
    BY <1>3, <2>1, <2>2, <2>3
<1>12. ASSUME NEW q \in r + 3 .. Len(s)
       PROVE  SameLink(h, H, s[q])
  <2>1. q \in 2 .. Len(s) /\ q \in 1 .. Len(s) /\ q \notin 1 .. r + 2
    BY <1>1
  <2>2. \A p \in P : s[p + 1] # s[q]
    <3> SUFFICES ASSUME NEW p \in P, s[p + 1] = s[q] PROVE FALSE
      OBVIOUS
    <3>1. p + 1 \in 1 .. Len(s) /\ p + 1 \in 1 .. r + 2
      BY <1>1
    <3> QED
      BY <2>1, <3>1 DEF Distinct
  <2> QED
    BY <1>3, <1>10, <2>1, <2>2 DEF SameLink
<1>13. ASSUME NEW m \in DOMAIN h, ~ In(s, m)
       PROVE  SameLink(h, H, m)
  <2>1. \A p \in P : s[p + 1] # m
    <3> SUFFICES ASSUME NEW p \in P, s[p + 1] = m PROVE FALSE
      OBVIOUS
    <3>1. p + 1 \in 1 .. Len(s)
      BY <1>1
    <3> QED
      BY <1>13, <3>1 DEF In
  <2>2. s[1] # m
    BY <1>1, <1>13 DEF In
  <2> QED
    BY <1>3, <1>9, <2>1, <2>2 DEF SameLink
<1> QED
  BY <1>3, <1>6, <1>7, <1>8, <1>11, <1>12, <1>13 DEF LeftTold

\* The children of n and the last of its left neighbour are different nodes.
LEMMA MovedRightDistinct ==
  ASSUME NEW v, NEW a, NEW b, KidsApart(v, a, b), NEW s1, NEW s2,
         MovedRight(v[a].sub, v[b].sub, s1, s2),
         Len(v[a].sub) \in Nat, Len(v[a].sub) >= 1, Len(v[b].sub) \in Nat
  PROVE  /\ Distinct(s2) /\ \A q \in 1 .. Len(s2) : s2[q] \in DOMAIN v
         /\ \A q \in 1 .. Len(s1), i \in 1 .. Len(s2) : s1[q] # s2[i]
<1> DEFINE sa == v[a].sub
           sb == v[b].sub
           la == Len(sa)
           lb == Len(sb)
<1>1. /\ Len(s1) = la - 1 /\ Len(s2) = lb + 1
      /\ \A q \in 1 .. la - 1 : s1[q] = sa[q]
      /\ s2[1] = sa[la]
      /\ \A q \in 1 .. lb : s2[q + 1] = sb[q]
  BY DEF MovedRight
<1>2. /\ \A q \in 1 .. la : sa[q] \in DOMAIN v
      /\ \A q \in 1 .. lb : sb[q] \in DOMAIN v
      /\ \A i \in 1 .. la, q \in 1 .. lb : sa[i] # sb[q]
      /\ \A i, q \in 1 .. la : sa[i] = sa[q] => i = q
      /\ \A i, q \in 1 .. lb : sb[i] = sb[q] => i = q
  BY DEF KidsApart, Distinct
<1>3. la \in Nat /\ la >= 1 /\ lb \in Nat
  OBVIOUS
<1> HIDE DEF sa, sb, la, lb
<1>4. la \in 1 .. la /\ \A q \in 2 .. Len(s2) : q - 1 \in 1 .. lb /\ s2[q] = sb[q - 1]
  <2>1. \A q \in 2 .. Len(s2) : q - 1 \in 1 .. lb /\ (q - 1) + 1 = q
    BY <1>1, <1>3
  <2>2. la \in 1 .. la
    BY <1>3
  <2> QED
    BY <1>1, <2>1, <2>2
<1>5. \A q \in 1 .. Len(s2) : q = 1 \/ q \in 2 .. Len(s2)
  BY <1>1, <1>3
<1>6. \A q \in 2 .. Len(s2) : s2[q] # s2[1]
  BY <1>1, <1>2, <1>4
<1>7. \A q, i \in 2 .. Len(s2) : s2[q] = s2[i] => q = i
  <2> SUFFICES ASSUME NEW q \in 2 .. Len(s2), NEW i \in 2 .. Len(s2), s2[q] = s2[i] PROVE q = i
    OBVIOUS
  <2>1. q - 1 = i - 1
    BY <1>2, <1>4
  <2> QED
    BY <2>1
<1>8. Distinct(s2)
  BY <1>5, <1>6, <1>7 DEF Distinct
<1>9. \A q \in 1 .. Len(s2) : s2[q] \in DOMAIN v
  BY <1>1, <1>2, <1>4, <1>5
<1>10. ASSUME NEW q \in 1 .. Len(s1), NEW i \in 1 .. Len(s2) PROVE s1[q] # s2[i]
  <2>1. q \in 1 .. la /\ q # la /\ s1[q] = sa[q]
    BY <1>1, <1>3
  <2> QED
    BY <1>1, <1>2, <1>4, <1>5, <2>1
<1> QED
  BY <1>8, <1>9, <1>10

\* Once told, the children of n and of its left neighbour know their places.
LEMMA FromLeftLinked ==
  ASSUME NEW g, NEW v, NEW n, NEW r, Removing(g, v, n, r),
         NEW p, NEW j, NEW a, NEW mid, Beside(g, v, p, j, a, n, mid),
         NEW s1, NEW s2, MovedRight(v[a].sub, v[n].sub, s1, s2), Len(v[a].sub) >= 1,
         NEW h, HeapOK(h), DOMAIN h = DOMAIN heap, h[n].sub = s2,
         \A m \in DOMAIN heap : SameLink(heap, h, m),
         NEW H, H = Adopt(Renumber(h, n, 1 .. r + 1), n, {0})
  PROVE  Linked(v, H, a, n, s1, s2) /\ LeftTold(h, H, n, r, s2)
<1>1. /\ HeapOK(heap) /\ HeapOK(v) /\ Shape(v, g, root, level) /\ Links(v, root)
      /\ DOMAIN v = DOMAIN heap /\ n \in DOMAIN heap
      /\ Len(heap[n].sub) = Len(heap[n].key) + 1 /\ r \in 0 .. Len(heap[n].key) - 1
      /\ Len(v[n].sub) = Len(heap[n].sub) - 1
      /\ \A q \in r + 2 .. Len(v[n].sub) : v[n].sub[q] = heap[n].sub[q + 1]
      /\ \A m \in DOMAIN heap : v[m].parent = heap[m].parent
      /\ \A m \in DOMAIN heap :
           (\A q \in r + 2 .. Len(v[n].sub) : v[n].sub[q] # m) => v[m].idx = heap[m].idx
      /\ \A q \in 1 .. Len(heap[n].sub) : q # r + 2 => heap[heap[n].sub[q]].idx = q - 2
  BY DEF Removing
<1>2. a \in DOMAIN v /\ v[a].leaf = FALSE /\ v[n].leaf = FALSE /\ a # n
  BY DEF Beside
<1>3. KidsApart(v, a, n)
  BY <1>1, <1>2, KidsApartIs
<1> DEFINE sa == v[a].sub
           sb == v[n].sub
           la == Len(sa)
           lb == Len(sb)
           lk == Len(heap[n].key)
<1>4. la \in Nat /\ lb \in Nat /\ lk \in Nat /\ la >= 1
  <2>1. Len(v[a].sub) \in Nat /\ Len(v[n].sub) \in Nat /\ Len(heap[n].key) \in Nat
    BY <1>1, <1>2, NodeFields
  <2> QED
    BY <2>1
<1>5. /\ Distinct(s2) /\ \A q \in 1 .. Len(s2) : s2[q] \in DOMAIN v
      /\ \A q \in 1 .. Len(s1), i \in 1 .. Len(s2) : s1[q] # s2[i]
  <2>1. /\ KidsApart(v, a, n) /\ MovedRight(v[a].sub, v[n].sub, s1, s2)
        /\ Len(v[a].sub) \in Nat /\ Len(v[a].sub) >= 1 /\ Len(v[n].sub) \in Nat
    BY <1>3, <1>4
  <2> QED
    BY ONLY <2>1, MovedRightDistinct
<1>6. /\ Len(s1) = la - 1 /\ Len(s2) = lb + 1
      /\ \A q \in 1 .. la - 1 : s1[q] = sa[q]
      /\ s2[1] = sa[la]
      /\ \A q \in 1 .. lb : s2[q + 1] = sb[q]
  BY DEF MovedRight
<1>7. /\ r \in Nat /\ r + 2 <= Len(s2) /\ lb = lk /\ Len(heap[n].sub) = lb + 1
  <2>1. lb = Len(heap[n].sub) - 1 /\ Len(heap[n].sub) = lk + 1 /\ r \in 0 .. lk - 1
    BY <1>1
  <2> HIDE DEF lb, lk
  <2> QED
    BY <1>4, <1>6, <2>1
<1>8. /\ \A q \in 1 .. la : sa[q] \in DOMAIN v /\ v[sa[q]].parent = a /\ v[sa[q]].idx = q - 2
      /\ \A q \in 1 .. lb : sb[q] \in DOMAIN v /\ v[sb[q]].parent = n /\ v[sb[q]].idx = q - 2
      /\ \A i \in 1 .. la, q \in 1 .. lb : sa[i] # sb[q]
  BY <1>3 DEF KidsApart
<1>9. LeftTold(h, H, n, r, s2)
  BY <1>1, <1>5, <1>7, LeftToldIs
<1>10. /\ H[s2[1]].parent = n /\ H[s2[1]].idx = -1
       /\ \A q \in 2 .. r + 2 : H[s2[q]].parent = h[s2[q]].parent /\ H[s2[q]].idx = q - 2
       /\ \A q \in r + 3 .. Len(s2) : SameLink(h, H, s2[q])
       /\ \A m \in DOMAIN h : ~ In(s2, m) => SameLink(h, H, m)
  BY <1>9 DEF LeftTold
<1> HIDE DEF sa, sb, la, lb, lk
<1>11. \A m \in DOMAIN heap : h[m].parent = v[m].parent /\ h[m].idx = heap[m].idx
  BY <1>1 DEF SameLink
<1>12. \A m \in DOMAIN heap : ~ In(sb, m) => h[m].idx = v[m].idx
  <2> SUFFICES ASSUME NEW m \in DOMAIN heap, ~ In(sb, m) PROVE h[m].idx = v[m].idx
    OBVIOUS
  <2>1. \A q \in r + 2 .. lb : sb[q] # m
    <3> SUFFICES ASSUME NEW q \in r + 2 .. lb, sb[q] = m PROVE FALSE
      OBVIOUS
    <3>1. q \in 1 .. lb
      BY <1>4, <1>7
    <3> QED
      BY <3>1 DEF In, lb
  <2>2. v[m].idx = heap[m].idx
    BY <1>1, <2>1 DEF sb, lb
  <2> QED
    BY <1>11, <2>2
<1>13. \A q \in 2 .. Len(s2) : q - 1 \in 1 .. lb /\ s2[q] = sb[q - 1]
  <2>1. \A q \in 2 .. Len(s2) : q - 1 \in 1 .. lb /\ (q - 1) + 1 = q
    BY <1>4, <1>6
  <2> QED
    BY <1>6, <2>1
<1>14. ASSUME NEW q \in 1 .. Len(s1)
       PROVE  H[s1[q]].parent = a /\ H[s1[q]].idx = q - 2
  <2>1. q \in 1 .. la /\ s1[q] = sa[q]
    BY <1>4, <1>6
  <2>2. s1[q] \in DOMAIN heap /\ v[s1[q]].parent = a /\ v[s1[q]].idx = q - 2 /\ ~ In(sb, s1[q])
    BY <1>1, <1>8, <2>1 DEF In, lb
  <2>3. ~ In(s2, s1[q])
    BY <1>5 DEF In
  <2> QED
    BY <1>10, <1>11, <1>12, <2>2, <2>3 DEF SameLink
<1>15. ASSUME NEW q \in 1 .. Len(s2)
       PROVE  H[s2[q]].parent = n /\ H[s2[q]].idx = q - 2
  <2>1. CASE q = 1
    BY <1>10, <2>1
  <2>2. CASE q \in 2 .. r + 2
    <3>1. q \in 2 .. Len(s2)
      BY <1>4, <1>6, <1>7, <2>2
    <3>2. s2[q] \in DOMAIN heap /\ v[s2[q]].parent = n
      BY <1>1, <1>8, <1>13, <3>1, SMTT(60)
    <3> QED
      BY <1>10, <1>11, <2>2, <3>2
  <2>3. CASE q \in r + 3 .. Len(s2)
    <3> DEFINE i == q - 1
    <3>1. /\ q \in 2 .. Len(s2) /\ i \in r + 2 .. lb /\ i + 1 = q
          /\ q \in 1 .. lb + 1 /\ q # r + 2
      BY <1>4, <1>6, <1>7, <2>3
    <3>2. s2[q] \in DOMAIN heap /\ v[s2[q]].parent = n /\ s2[q] = sb[i]
      BY <1>1, <1>8, <1>13, <3>1, SMTT(60)
    <3> HIDE DEF i
    <3>3. sb[i] = heap[n].sub[i + 1]
      BY <1>1, <3>1 DEF sb, lb
    <3>4. heap[heap[n].sub[q]].idx = q - 2
      BY <1>1, <1>7, <3>1
    <3>5. heap[s2[q]].idx = q - 2
      BY <3>1, <3>2, <3>3, <3>4
    <3>6. SameLink(h, H, s2[q])
      BY <1>10, <2>3
    <3> QED
      BY <1>11, <3>2, <3>5, <3>6 DEF SameLink
  <2>4. q = 1 \/ q \in 2 .. r + 2 \/ q \in r + 3 .. Len(s2)
    BY <1>4, <1>6, <1>7
  <2> QED
    BY <2>1, <2>2, <2>3, <2>4
<1>16. ASSUME NEW m \in DOMAIN v \cap DOMAIN H, ~ In(sa, m), ~ In(sb, m)
       PROVE  SameLink(v, H, m)
  <2>1. ~ In(s2, m)
    <3> SUFFICES ASSUME NEW q \in 1 .. Len(s2), s2[q] = m PROVE FALSE
      BY DEF In
    <3>1. CASE q = 1
      <4>1. la \in 1 .. la
        BY <1>4
      <4> QED
        BY <1>6, <1>16, <3>1, <4>1 DEF In, la
    <3>2. CASE q # 1
      <4>1. q \in 2 .. Len(s2)
        BY <3>2, <1>4, <1>6
      <4> QED
        BY <1>13, <1>16, <4>1 DEF In, lb
    <3> QED
      BY <3>1, <3>2
  <2> QED
    BY <1>1, <1>10, <1>11, <1>12, <1>16, <2>1 DEF SameLink
<1> QED
  BY <1>9, <1>14, <1>15, <1>16 DEF Linked, sa, sb

\* A merge adopts the children of a behind the first la, and frees b.
JoinTold(h, H, a, b, la, s) ==
  /\ HeapOK(H) /\ DOMAIN H = DOMAIN h \ {b}
  /\ \A m \in DOMAIN H : Same(h, H, m)
  /\ \A q \in la + 1 .. Len(s) : H[s[q]].parent = a /\ H[s[q]].idx = q - 2
  /\ \A m \in DOMAIN H : (\A q \in la + 1 .. Len(s) : s[q] # m) => SameLink(h, H, m)

\* The children of a after it took over those of b.
LEMMA JoinToldIs ==
  ASSUME NEW h, HeapOK(h), NEW a \in DOMAIN h, NEW b, NEW s, s = h[a].sub, Distinct(s),
         \A q \in 1 .. Len(s) : s[q] \in DOMAIN h \ {b}, NEW la \in Nat, la <= Len(s),
         NEW P, P = Places(h, a) \ (0 .. la - 1), NEW H, H = Without(Adopt(h, a, P), b)
  PROVE  JoinTold(h, H, a, b, la, s)
<1> DEFINE y == Adopt(h, a, P)
<1>1. Len(s) \in Nat
  BY NodeFields
<1>2. P = la .. Len(s) - 1 /\ P \subseteq 0 .. Len(s) - 1
  <2>1. P = (0 .. Len(s) - 1) \ (0 .. la - 1)
    BY DEF Places
  <2> QED
    BY <1>1, <2>1
<1>3. Apart(h, a, P)
  <2>1. \A p, q \in P : s[p + 1] = s[q + 1] => p = q
    <3> SUFFICES ASSUME NEW p \in P, NEW q \in P, s[p + 1] = s[q + 1] PROVE p = q
      OBVIOUS
    <3>1. p + 1 \in 1 .. Len(s) /\ q + 1 \in 1 .. Len(s) /\ p \in Int /\ q \in Int
      BY <1>1, <1>2, SMTT(60)
    <3>2. p + 1 = q + 1
      BY <3>1 DEF Distinct
    <3> QED
      BY <3>1, <3>2
  <2> QED
    BY <1>2, <2>1 DEF Apart
<1>4. /\ HeapOK(y) /\ DOMAIN y = DOMAIN h
      /\ \A m \in DOMAIN h : y[m].leaf = h[m].leaf /\ y[m].key = h[m].key /\ y[m].sub = h[m].sub
      /\ \A p \in P : s[p + 1] \in DOMAIN h => y[s[p + 1]].idx = p - 1 /\ y[s[p + 1]].parent = a
      /\ \A m \in DOMAIN h : (\A p \in P : s[p + 1] # m) => y[m] = h[m]
  <2>1. HeapOK(h) /\ a \in DOMAIN h
    OBVIOUS
  <2>2. LET gg == Adopt(h, a, P) IN
        /\ HeapOK(gg) /\ DOMAIN gg = DOMAIN h
        /\ \A m \in DOMAIN h : /\ gg[m].leaf = h[m].leaf /\ gg[m].key = h[m].key
                               /\ gg[m].sub = h[m].sub
        /\ \A p \in P : h[a].sub[p + 1] \in DOMAIN h =>
             gg[h[a].sub[p + 1]].idx = p - 1 /\ gg[h[a].sub[p + 1]].parent = a
        /\ \A m \in DOMAIN h : (\A p \in P : h[a].sub[p + 1] # m) => gg[m] = h[m]
    BY ONLY <1>3, <2>1, AdoptIs
  <2> QED
    BY <2>2
<1>5. H = Without(y, b)
  OBVIOUS
<1> HIDE DEF y
<1>6. HeapOK(H) /\ DOMAIN H = DOMAIN y \ {b} /\ \A m \in DOMAIN y \ {b} : H[m] = y[m]
  <2>1. HeapOK(y)
    BY <1>4
  <2>2. /\ HeapOK(Without(y, b)) /\ DOMAIN Without(y, b) = DOMAIN y \ {b}
        /\ \A m \in DOMAIN y \ {b} : Without(y, b)[m] = y[m]
    BY ONLY <2>1, WithoutIs
  <2> QED
    BY <1>5, <2>2
<1>7. \A m \in DOMAIN H : Same(h, H, m)
  BY <1>4, <1>6, ZenonT(60) DEF Same
<1>8. ASSUME NEW q \in la + 1 .. Len(s)
      PROVE  H[s[q]].parent = a /\ H[s[q]].idx = q - 2
  <2> DEFINE p == q - 1
  <2>0. q \in la + 1 .. Len(s) /\ la \in Nat
    OBVIOUS
  <2>1. p \in P /\ p + 1 = q /\ p - 1 = q - 2 /\ q \in 1 .. Len(s)
    BY ONLY <1>1, <1>2, <2>0
  <2> HIDE DEF p
  <2>2. s[q] \in DOMAIN h \ {b}
    BY <2>1
  <2>3. y[s[p + 1]].idx = p - 1 /\ y[s[p + 1]].parent = a
    BY <1>4, <2>1, <2>2
  <2> QED
    BY <1>4, <1>6, <2>1, <2>2, <2>3
<1>9. ASSUME NEW m \in DOMAIN H, \A q \in la + 1 .. Len(s) : s[q] # m
      PROVE  SameLink(h, H, m)
  <2>1. \A p \in P : s[p + 1] # m
    <3> SUFFICES ASSUME NEW p \in P PROVE s[p + 1] # m
      OBVIOUS
    <3>1. p + 1 \in la + 1 .. Len(s)
      BY <1>1, <1>2
    <3> QED
      BY <1>9, <3>1
  <2> QED
    BY <1>4, <1>6, <2>1, ZenonT(60) DEF SameLink
<1> QED
  BY <1>4, <1>6, <1>7, <1>8, <1>9 DEF JoinTold

\* The children of a and b, once they are all children of a, know their places.
JoinLinked(v, h, H, a, b, s, no) ==
  /\ Linked(v, H, a, b, s, no) /\ HeapOK(H) /\ DOMAIN H = DOMAIN h \ {b}
  /\ \A m \in DOMAIN H : Same(h, H, m)

\* Their links are those of the merged node.
LEMMA JoinedLinked ==
  ASSUME NEW v, HeapOK(v), NEW a \in DOMAIN v, NEW b \in DOMAIN v, a # b, KidsApart(v, a, b),
         \A q \in 1 .. Len(v[a].sub) : v[a].sub[q] # b,
         \A q \in 1 .. Len(v[b].sub) : v[b].sub[q] # b,
         NEW s, s = v[a].sub \o v[b].sub,
         NEW h, HeapOK(h), DOMAIN h = DOMAIN v, h[a].sub = s,
         \A m \in DOMAIN v : ~ In(v[b].sub, m) => SameLink(v, h, m),
         NEW la, la = Len(v[a].sub), NEW P, P = Places(h, a) \ (0 .. la - 1),
         NEW H, H = Without(Adopt(h, a, P), b), NEW no, no = <<>>
  PROVE  JoinLinked(v, h, H, a, b, s, no)
<1> DEFINE sa == v[a].sub
           sb == v[b].sub
           lb == Len(sb)
<1>1. /\ sa \in Seq(Item) /\ sb \in Seq(Item) /\ la \in Nat /\ lb \in Nat /\ la = Len(sa)
      /\ s = sa \o sb
  BY NodeFields
<1>2. /\ \A q \in 1 .. la : /\ sa[q] \in DOMAIN v /\ sa[q] # b
                            /\ v[sa[q]].parent = a /\ v[sa[q]].idx = q - 2
      /\ \A q \in 1 .. lb : sb[q] \in DOMAIN v /\ sb[q] # b
      /\ \A i \in 1 .. la, q \in 1 .. lb : sa[i] # sb[q]
      /\ \A i, q \in 1 .. la : sa[i] = sa[q] => i = q
      /\ \A i, q \in 1 .. lb : sb[i] = sb[q] => i = q
  BY DEF KidsApart, Distinct
<1> HIDE DEF sa, sb, lb
<1>3. Len(s) = la + lb /\ \A q \in 1 .. la + lb : s[q] = IF q <= la THEN sa[q] ELSE sb[q - la]
  BY <1>1, JoinIs DEF lb
<1>4. \A q \in 1 .. Len(s) : \/ q \in 1 .. la /\ s[q] = sa[q]
                             \/ q \in la + 1 .. Len(s) /\ q - la \in 1 .. lb /\ s[q] = sb[q - la]
  BY <1>1, <1>3
<1>5. Distinct(s)
  <2> SUFFICES ASSUME NEW i \in 1 .. Len(s), NEW q \in 1 .. Len(s), s[i] = s[q] PROVE i = q
    BY DEF Distinct
  <2>1. i \in Int /\ q \in Int /\ la \in Int
    BY <1>1
  <2>2. \/ i \in 1 .. la /\ s[i] = sa[i]
        \/ i - la \in 1 .. lb /\ s[i] = sb[i - la]
    BY <1>4
  <2>3. \/ q \in 1 .. la /\ s[q] = sa[q]
        \/ q - la \in 1 .. lb /\ s[q] = sb[q - la]
    BY <1>4
  <2>4. i = q \/ i - la = q - la
    BY <1>2, <2>2, <2>3, SMTT(60)
  <2> QED
    BY <2>1, <2>4
<1>6. \A q \in 1 .. Len(s) : s[q] \in DOMAIN h \ {b}
  <2> SUFFICES ASSUME NEW q \in 1 .. Len(s) PROVE s[q] \in DOMAIN h \ {b}
    OBVIOUS
  <2>1. CASE q \in 1 .. la /\ s[q] = sa[q]
    BY <1>2, <2>1
  <2>2. CASE q - la \in 1 .. lb /\ s[q] = sb[q - la]
    BY <1>2, <2>2
  <2> QED
    BY <1>4, <2>1, <2>2
<1>7. la <= Len(s) /\ a \in DOMAIN h /\ s = h[a].sub
  BY <1>1, <1>3, SMTT(60)
<1>8. /\ HeapOK(H) /\ DOMAIN H = DOMAIN h \ {b}
      /\ \A m \in DOMAIN H : Same(h, H, m)
      /\ \A q \in la + 1 .. Len(s) : H[s[q]].parent = a /\ H[s[q]].idx = q - 2
      /\ \A m \in DOMAIN H : (\A q \in la + 1 .. Len(s) : s[q] # m) => SameLink(h, H, m)
  <2>1. HeapOK(h) /\ P = Places(h, a) \ (0 .. la - 1) /\ H = Without(Adopt(h, a, P), b)
    OBVIOUS
  <2>2. JoinTold(h, H, a, b, la, s)
    BY ONLY <1>1, <1>5, <1>6, <1>7, <2>1, JoinToldIs
  <2> QED
    BY <2>2 DEF JoinTold
<1>9. \A q \in la + 1 .. Len(s) : q - la \in 1 .. lb /\ s[q] = sb[q - la]
  BY <1>1, <1>3
<1>10. ASSUME NEW m \in DOMAIN H, ~ In(sb, m)
       PROVE  SameLink(v, H, m)
  <2>1. \A q \in la + 1 .. Len(s) : s[q] # m
    BY <1>9, <1>10 DEF In, lb
  <2>2. SameLink(h, H, m)
    BY <1>8, <2>1
  <2>3. SameLink(v, h, m)
    BY <1>8, <1>10, SMTT(60) DEF sb
  <2> QED
    BY <2>2, <2>3 DEF SameLink
<1>11. ASSUME NEW q \in 1 .. Len(s)
       PROVE  H[s[q]].parent = a /\ H[s[q]].idx = q - 2
  <2>1. CASE q \in 1 .. la /\ s[q] = sa[q]
    <3>1. s[q] \in DOMAIN H /\ ~ In(sb, s[q]) /\ v[s[q]].parent = a /\ v[s[q]].idx = q - 2
      BY <1>2, <1>8, <2>1 DEF In, lb
    <3> QED
      BY <1>10, <3>1 DEF SameLink
  <2>2. CASE q \in la + 1 .. Len(s)
    BY <1>8, <2>2
  <2> QED
    BY <1>4, <2>1, <2>2
<1>12. \A q \in 1 .. Len(no) : FALSE
  OBVIOUS
<1>13. Linked(v, H, a, b, s, no)
  <2>1. /\ \A q \in 1 .. Len(s) : H[s[q]].parent = a /\ H[s[q]].idx = q - 2
        /\ \A m \in DOMAIN v \cap DOMAIN H : ~ In(v[b].sub, m) => SameLink(v, H, m)
    BY <1>10, <1>11 DEF sb
  <2> QED
    BY ONLY <1>12, <2>1 DEF Linked
<1> QED
  BY <1>8, <1>13 DEF JoinLinked

\* The inner node n that loses a child and its neighbour c, in order a and b under p.
Neighbours(g, v, n, r, p, j, a, b, c, mid) ==
  /\ Removing(g, v, n, r) /\ Beside(g, v, p, j, a, b, mid) /\ KidsApart(v, a, b)
  /\ \A q \in 1 .. Len(v[a].sub) : v[a].sub[q] # a /\ v[a].sub[q] # b
  /\ \A q \in 1 .. Len(v[b].sub) : v[b].sub[q] # a /\ v[b].sub[q] # b
  /\ (a = n /\ b = c) \/ (a = c /\ b = n)
  /\ c \in DOMAIN heap /\ n \in DOMAIN heap /\ p \in DOMAIN heap /\ c # n /\ p # c /\ p # n
  /\ heap[c].key = v[c].key /\ heap[c].sub = v[c].sub /\ heap[c].leaf = FALSE
  /\ heap[n].leaf = FALSE /\ heap[n].parent = p
  /\ heap[p].key = v[p].key /\ heap[p].sub = v[p].sub /\ heap[p].leaf = FALSE
  /\ Len(heap[c].sub) \in Nat /\ 2 <= Len(heap[c].sub) /\ Len(heap[c].sub) <= Order
  /\ Len(heap[c].sub) >= Order \div 2
  /\ Len(heap[n].sub) \in Nat /\ 2 <= Len(heap[n].sub) /\ Len(heap[n].sub) <= Half(Order)
  /\ Len(heap[n].sub) >= Order \div 2

\* What is known of an inner node that lacks a child and its neighbour.
LEMMA NeighboursIs ==
  ASSUME NEW g, NEW v, NEW n, NEW r, NEW p, NEW i, Lacking(g, v, n, r, p, i),
         NEW j, NEW a, NEW b, NEW c, Slot(v, p, j, a), Slot(v, p, j + 1, b),
         (a = n /\ b = c) \/ (a = c /\ b = n),
         NEW mid, mid = v[p].key[j]
  PROVE  Neighbours(g, v, n, r, p, j, a, b, c, mid)
<1>1. /\ Removing(g, v, n, r) /\ heap[n].parent = p /\ p # n
      /\ heap[p].key = v[p].key /\ heap[p].sub = v[p].sub /\ heap[p].leaf = FALSE
      /\ Len(heap[n].sub) <= Half(Order) /\ n # root
  BY DEF Lacking
<1>2. /\ HeapOK(heap) /\ HeapOK(v) /\ Shape(v, g, root, level) /\ Links(v, root)
      /\ DOMAIN v = DOMAIN heap /\ n \in DOMAIN heap /\ Sizes(heap, root)
      /\ heap[n].leaf = FALSE /\ v[n].leaf = FALSE
      /\ \A m \in DOMAIN heap \ {n} : Same(heap, v, m)
  BY <1>1 DEF Removing
<1>3. v[a].leaf = FALSE \/ v[b].leaf = FALSE
  BY <1>2
<1>4. Beside(g, v, p, j, a, b, mid)
  <2>1. /\ Slot(v, p, j, a) /\ Slot(v, p, j + 1, b) /\ mid = v[p].key[j]
    OBVIOUS
  <2>2. Beside(g, v, p, j, a, b, v[p].key[j])
    BY ONLY <1>2, <1>3, <2>1, BesideIs
  <2> QED
    BY <2>1, <2>2
<1>5. /\ p \in DOMAIN v /\ a \in DOMAIN v /\ b \in DOMAIN v /\ a # b /\ p # a /\ p # b
      /\ v[a].leaf = FALSE /\ v[b].leaf = FALSE
  BY <1>4 DEF Beside
<1>6. KidsApart(v, a, b)
  BY ONLY <1>2, <1>5, KidsApartIs
<1>7. v[a].parent = p /\ a # root
  BY <1>2, SlotUnique
<1>8. v[b].parent = p /\ b # root
  <2> DEFINE j1 == j + 1
  <2>1. Slot(v, p, j1, b)
    OBVIOUS
  <2> HIDE DEF j1
  <2> QED
    BY <1>2, <2>1, SlotUnique
<1>9. /\ \A q \in 1 .. Len(v[a].sub) : v[a].sub[q] # a /\ v[a].sub[q] # b
      /\ \A q \in 1 .. Len(v[b].sub) : v[b].sub[q] # a /\ v[b].sub[q] # b
  BY <1>5, <1>6, <1>7, <1>8 DEF KidsApart
<1>10. c \in DOMAIN heap /\ p \in DOMAIN heap /\ c # n /\ p # c /\ c # root /\ v[c].leaf = FALSE
  BY <1>2, <1>5, <1>7, <1>8
<1>11. heap[c].key = v[c].key /\ heap[c].sub = v[c].sub /\ heap[c].leaf = FALSE
  BY <1>2, <1>10 DEF Same
<1>12. Fits(heap, root, c) /\ Fits(heap, root, n)
  BY <1>2, <1>10 DEF Sizes
<1>13. Len(heap[c].sub) \in Nat /\ Len(heap[n].sub) \in Nat
  BY <1>2, <1>10, NodeFields
<1>14. /\ 2 <= Len(heap[c].sub) /\ Len(heap[c].sub) <= Order /\ Len(heap[c].sub) >= Order \div 2
       /\ 2 <= Len(heap[n].sub) /\ Len(heap[n].sub) >= Order \div 2
  BY <1>1, <1>2, <1>10, <1>11, <1>12 DEF Fits
<1>15. (a = n /\ b = c) \/ (a = c /\ b = n)
  OBVIOUS
<1> QED
  BY ONLY <1>1, <1>2, <1>4, <1>6, <1>9, <1>10, <1>11, <1>13, <1>14, <1>15 DEF Neighbours

\* The sizes of two inner nodes after one gave the other a child, or all.
LEMMA NodesLend ==
  ASSUME NEW m \in Nat, NEW n \in Nat, m > Half(Order), m <= Order, 2 <= n, n <= Half(Order),
         n >= Order \div 2
  PROVE  NodeFits(m - 1) /\ NodeFits(n) /\ m >= 2
<1> DEFINE half == Half(Order)
           low == Order \div 2
<1>1. half \in Nat /\ half >= 2 /\ half <= Order /\ half >= low /\ low \in Nat /\ Order \in Nat
  <2>1. Order \in Nat /\ Order >= 2 /\ Order >= 3
    BY OrderAssumption
  <2> QED
    BY ONLY <2>1, HalfIs
<1>2. m > half /\ n <= half /\ n >= low
  OBVIOUS
<1> HIDE DEF half, low
<1>3. /\ 2 <= m - 1 /\ m - 1 <= Order /\ m - 1 >= low /\ 2 <= n /\ n <= Order /\ n >= low
      /\ m >= 2
  BY <1>1, <1>2
<1> QED
  BY <1>3 DEF NodeFits, low

\* Two inner nodes that are merged fit into one (bplustree.c:747-787).
LEMMA NodesJoin ==
  ASSUME NEW m \in Nat, NEW n \in Nat, 2 <= m, m <= Half(Order), m >= Order \div 2,
         2 <= n, n <= Half(Order)
  PROVE  NodeFits(m + (n - 1)) /\ NodeFits((n - 1) + m)
<1> DEFINE half == Half(Order)
           low == Order \div 2
<1>1. half \in Nat /\ 2 * half - 1 <= Order /\ low \in Nat /\ Order \in Nat
  <2>1. Order \in Nat /\ Order >= 2
    BY OrderAssumption
  <2> QED
    BY ONLY <2>1, HalfIs
<1>2. m <= half /\ n <= half /\ m >= low
  OBVIOUS
<1> HIDE DEF half, low
<1>3. /\ 2 <= m + (n - 1) /\ m + (n - 1) <= Order /\ m + (n - 1) >= low
      /\ (n - 1) + m = m + (n - 1)
  BY <1>1, <1>2
<1> QED
  BY <1>3 DEF NodeFits, low

\* Heap h is heap y with other contents in a and b and another key in their parent p.
Rewritten(y, h, p, j, a, b, k1, s1, k2, s2, s) ==
  /\ HeapOK(h) /\ DOMAIN h = DOMAIN y
  /\ h[a].leaf = FALSE /\ h[a].key = k1 /\ h[a].sub = s1
  /\ h[b].leaf = FALSE /\ h[b].key = k2 /\ h[b].sub = s2
  /\ h[p].leaf = y[p].leaf /\ h[p].sub = y[p].sub /\ Len(h[p].key) = Len(y[p].key)
  /\ h[p].key[j] = s /\ \A i \in 1 .. Len(y[p].key) : i # j => h[p].key[i] = y[p].key[i]
  /\ \A m \in DOMAIN y \ {a, b, p} : h[m] = y[m]
  /\ \A m \in DOMAIN y : SameLink(y, h, m)

\* Two nodes and the key between them rewritten.
LEMMA RewrittenIs ==
  ASSUME NEW y, HeapOK(y), NEW a \in DOMAIN y, NEW b \in DOMAIN y, NEW p \in DOMAIN y,
         a # b, p # a, p # b, y[a].leaf = FALSE, y[b].leaf = FALSE,
         NEW k1 \in Seq(Keys), NEW s1 \in Seq(Item), NEW k2 \in Seq(Keys), NEW s2 \in Seq(Item),
         NEW s \in Keys, NEW i, NEW j, i + 1 = j, j \in 1 .. Len(y[p].key),
         NEW z, z = SetNode(SetNode(y, a, k1, s1), b, k2, s2),
         NEW h, h = SetSeparator(z, p, i, s)
  PROVE  Rewritten(y, h, p, j, a, b, k1, s1, k2, s2, s)
<1>1. PairSet(y, z, a, b, k1, s1, k2, s2)
  BY PairSetIs
<1>2. /\ HeapOK(z) /\ DOMAIN z = DOMAIN y
      /\ z[a].key = k1 /\ z[a].sub = s1 /\ z[a].leaf = y[a].leaf
      /\ z[a].parent = y[a].parent /\ z[a].idx = y[a].idx
      /\ z[b].key = k2 /\ z[b].sub = s2 /\ z[b].leaf = y[b].leaf
      /\ z[b].parent = y[b].parent /\ z[b].idx = y[b].idx
      /\ \A m \in DOMAIN y \ {a, b} : z[m] = y[m]
  BY <1>1 DEF PairSet
<1>3. p \in DOMAIN z /\ z[p] = y[p] /\ i + 1 \in 1 .. Len(z[p].key)
  BY <1>2
<1>4. NewSeparator(z, h, p, i, s)
  BY <1>2, <1>3, SeparatorIs
<1>5. /\ HeapOK(h) /\ DOMAIN h = DOMAIN z
      /\ h[p].leaf = z[p].leaf /\ h[p].sub = z[p].sub
      /\ h[p].parent = z[p].parent /\ h[p].idx = z[p].idx
      /\ Len(h[p].key) = Len(z[p].key) /\ h[p].key[j] = s
      /\ \A q \in 1 .. Len(z[p].key) : q # j => h[p].key[q] = z[p].key[q]
      /\ \A m \in DOMAIN z \ {p} : h[m] = z[m]
  BY <1>4 DEF NewSeparator
<1>6. \A m \in DOMAIN y : SameLink(y, h, m)
  <2> SUFFICES ASSUME NEW m \in DOMAIN y PROVE h[m].parent = y[m].parent /\ h[m].idx = y[m].idx
    BY DEF SameLink
  <2>1. CASE m = p
    BY <1>3, <1>5, <2>1
  <2>2. CASE m # p
    BY <1>2, <1>5, <2>2, SMTT(60)
  <2> QED
    BY <2>1, <2>2
<1>7. h[a] = z[a] /\ h[b] = z[b] /\ \A m \in DOMAIN y \ {a, b, p} : h[m] = y[m]
  BY <1>2, <1>5
<1> QED
  BY <1>2, <1>3, <1>5, <1>6, <1>7 DEF Rewritten

\* With children told, it is a rebalanced tree v.
LEMMA RewrittenRebalanced ==
  ASSUME NEW v, NEW y, NEW h, NEW H, NEW p, NEW j, NEW a, NEW b, NEW k1, NEW s1, NEW k2, NEW s2,
         NEW s, Rewritten(y, h, p, j, a, b, k1, s1, k2, s2, s),
         a \in DOMAIN y, b \in DOMAIN y, p \in DOMAIN y, DOMAIN v = DOMAIN y,
         \A m \in DOMAIN y \ {a, b} : Same(v, y, m), p # a, p # b,
         HeapOK(H), DOMAIN H = DOMAIN h, \A m \in DOMAIN h : Same(h, H, m)
  PROVE  Rebalanced(v, H, p, j, a, b, k1, s1, k2, s2, s)
<1>1. /\ DOMAIN h = DOMAIN y
      /\ h[a].leaf = FALSE /\ h[a].key = k1 /\ h[a].sub = s1
      /\ h[b].leaf = FALSE /\ h[b].key = k2 /\ h[b].sub = s2
      /\ h[p].leaf = y[p].leaf /\ h[p].sub = y[p].sub /\ Len(h[p].key) = Len(y[p].key)
      /\ h[p].key[j] = s /\ \A i \in 1 .. Len(y[p].key) : i # j => h[p].key[i] = y[p].key[i]
      /\ \A m \in DOMAIN y \ {a, b, p} : h[m] = y[m]
  BY DEF Rewritten
<1>2. /\ H[a].leaf = FALSE /\ H[a].key = k1 /\ H[a].sub = s1
      /\ H[b].leaf = FALSE /\ H[b].key = k2 /\ H[b].sub = s2
      /\ H[p].leaf = h[p].leaf /\ H[p].key = h[p].key /\ H[p].sub = h[p].sub
  BY <1>1 DEF Same
<1>3. y[p].leaf = v[p].leaf /\ y[p].key = v[p].key /\ y[p].sub = v[p].sub
  BY DEF Same
<1>4. \A m \in DOMAIN v \ {a, b, p} : Same(v, H, m)
  BY <1>1 DEF Same
<1> QED
  BY <1>1, <1>2, <1>3, <1>4 DEF Rebalanced

\* The heap after non_leaf_shift_from_left, step by step.
ShiftFromLeft(v, n, r, p, j, a, mid, k1, s1, k2, s2, s, i, z, h, H) ==
  /\ k1 = Front(heap[a].key) /\ s1 = Front(heap[a].sub)
  /\ k2 = <<mid>> \o v[n].key /\ s2 = <<Last(heap[a].sub)>> \o v[n].sub
  /\ s = Last(heap[a].key) /\ i + 1 = j
  /\ z = SetNode(SetNode(heap, n, k2, s2), a, k1, s1)
  /\ h = SetSeparator(z, p, i, s)
  /\ H = Adopt(Renumber(h, n, 1 .. r + 1), n, {0})

\* A child borrowed from the left keeps the invariant.
LEMMA LentFromLeft ==
  ASSUME NEW g, NEW v, NEW n, NEW r, NEW p, NEW j, NEW a, NEW mid,
         Neighbours(g, v, n, r, p, j, a, n, a, mid), Len(heap[a].sub) > Half(Order),
         NEW k1, NEW s1, NEW k2, NEW s2, NEW s, NEW i, NEW z, NEW h, NEW H,
         ShiftFromLeft(v, n, r, p, j, a, mid, k1, s1, k2, s2, s, i, z, h, H)
  PROVE  StateOK(H, Idle, root, level, list, contents)
<1>0. /\ k1 = Front(heap[a].key) /\ s1 = Front(heap[a].sub)
      /\ k2 = <<mid>> \o v[n].key /\ s2 = <<Last(heap[a].sub)>> \o v[n].sub
      /\ s = Last(heap[a].key) /\ i + 1 = j
      /\ z = SetNode(SetNode(heap, n, k2, s2), a, k1, s1)
      /\ h = SetSeparator(z, p, i, s)
      /\ H = Adopt(Renumber(h, n, 1 .. r + 1), n, {0})
  BY DEF ShiftFromLeft
<1> DEFINE lo == g[a].lo
           hi == g[n].hi
           d == g[a].dep
           D == DOMAIN v
           ka == v[a].key
           sa == v[a].sub
           kb == v[n].key
           sb == v[n].sub
           la == Len(heap[a].sub)
           ln == Len(heap[n].sub)
<1>1. /\ Removing(g, v, n, r) /\ Beside(g, v, p, j, a, n, mid)
      /\ a \in DOMAIN heap /\ n \in DOMAIN heap /\ p \in DOMAIN heap /\ a # n /\ p # a /\ p # n
      /\ heap[a].key = ka /\ heap[a].sub = sa /\ heap[a].leaf = FALSE
      /\ heap[n].leaf = FALSE /\ heap[p].key = v[p].key
      /\ la \in Nat /\ 2 <= la /\ la <= Order /\ la >= Order \div 2
      /\ ln \in Nat /\ 2 <= ln /\ ln <= Half(Order) /\ ln >= Order \div 2
  BY DEF Neighbours
<1>2. /\ HeapOK(heap) /\ DOMAIN v = DOMAIN heap /\ Len(sb) = ln - 1
      /\ HeapOK(v) /\ \A m \in DOMAIN heap \ {n} : Same(heap, v, m)
  BY <1>1 DEF Removing
<1>3. /\ lo \in Int /\ mid \in Keys /\ hi \in Int /\ lo < mid /\ mid < hi
      /\ Fan(D, g, ka, sa, lo, mid, d) /\ Fan(D, g, kb, sb, mid, hi, d)
      /\ j \in 1 .. Len(heap[p].key)
  BY <1>1 DEF Beside
<1>4. sa \in Seq(Item) /\ sb \in Seq(Item) /\ Len(sa) = Len(ka) + 1 /\ Len(ka) >= 1 /\ Len(sa) = la
  <2>1. sa \in Seq(Item) /\ sb \in Seq(Item) /\ Len(sa) = Len(ka) + 1 /\ ka \in Seq(Keys)
        /\ Len(sa) = la
    BY <1>1, <1>3 DEF Fan
  <2>2. Len(ka) \in Nat
    BY <2>1
  <2>3. la >= 2
    BY <1>1
  <2> QED
    BY ONLY <2>1, <2>2, <2>3
<1>5. /\ k1 = Front(ka) /\ s1 = Front(sa) /\ s = Last(ka)
      /\ k2 = <<mid>> \o kb /\ s2 = <<Last(sa)>> \o sb
  BY <1>0, <1>1
<1> HIDE DEF lo, hi, d, D, ka, sa, kb, sb
<1>6. Refanned(D, g, k1, s1, k2, s2, lo, hi, d, s) /\ MovedRight(sa, sb, s1, s2)
  BY ONLY <1>3, <1>4, <1>5, FanLendsLast
<1>7. SameKids(sa, sb, s1, s2)
  <2>1. Len(sa) >= 1
    BY <1>1, <1>4
  <2> QED
    BY ONLY <1>4, <1>6, <2>1, MovedRightKids
<1>8. /\ k1 \in Seq(Keys) /\ s1 \in Seq(Item) /\ k2 \in Seq(Keys) /\ s2 \in Seq(Item)
      /\ s \in Keys
  BY <1>6 DEF Refanned, Fan
<1>9. Rewritten(heap, h, p, j, n, a, k2, s2, k1, s1, s)
  <2>1. /\ z = SetNode(SetNode(heap, n, k2, s2), a, k1, s1) /\ h = SetSeparator(z, p, i, s)
        /\ i + 1 = j
    BY <1>0
  <2> QED
    BY ONLY <1>1, <1>2, <1>3, <1>8, <2>1, RewrittenIs
<1>10. /\ HeapOK(h) /\ DOMAIN h = DOMAIN heap /\ h[n].sub = s2
       /\ \A m \in DOMAIN heap : SameLink(heap, h, m)
  BY <1>9 DEF Rewritten
<1>11. Linked(v, H, a, n, s1, s2) /\ LeftTold(h, H, n, r, s2)
  <2>1. MovedRight(v[a].sub, v[n].sub, s1, s2) /\ Len(v[a].sub) >= 1
    BY <1>1, <1>4, <1>6 DEF sa, sb
  <2>2. H = Adopt(Renumber(h, n, 1 .. r + 1), n, {0})
    BY <1>0
  <2> QED
    BY ONLY <1>1, <1>10, <2>1, <2>2, FromLeftLinked
<1>12. HeapOK(H) /\ DOMAIN H = DOMAIN h /\ \A m \in DOMAIN h : Same(h, H, m)
  BY <1>11 DEF LeftTold
<1>13. Rebalanced(v, H, p, j, a, n, k1, s1, k2, s2, s)
  <2>1. Rewritten(heap, h, p, j, a, n, k1, s1, k2, s2, s)
    BY <1>9 DEF Rewritten
  <2>2. \A m \in DOMAIN heap \ {a, n} : Same(v, heap, m)
    BY <1>2 DEF Same
  <2> QED
    BY ONLY <1>1, <1>2, <1>12, <2>1, <2>2, RewrittenRebalanced
<1>14. NodeFits(Len(s1)) /\ NodeFits(Len(s2))
  <2>1. Len(s1) = la - 1 /\ Len(s2) = (ln - 1) + 1
    BY <1>2, <1>4, <1>6 DEF MovedRight, sb
  <2>2. /\ la \in Nat /\ ln \in Nat /\ la > Half(Order) /\ la <= Order /\ 2 <= ln
        /\ ln <= Half(Order) /\ ln >= Order \div 2
    BY <1>1
  <2> HIDE DEF la, ln
  <2>3. (ln - 1) + 1 = ln
    BY ONLY <2>2
  <2>4. NodeFits(la - 1) /\ NodeFits(ln)
    BY ONLY <2>2, NodesLend
  <2> QED
    BY <2>1, <2>3, <2>4
<1>15. /\ Refanned(DOMAIN v, g, k1, s1, k2, s2, g[a].lo, g[n].hi, g[a].dep, s)
       /\ SameKids(v[a].sub, v[n].sub, s1, s2) /\ (n = a \/ n = n)
  BY <1>6, <1>7, SMTT(60) DEF D, lo, hi, d, sa, sb
<1> QED
  BY ONLY <1>1, <1>11, <1>13, <1>14, <1>15, BalancedKeeps

\* Heap y, in which a holds what it and its neighbour b held, with b's children told.
LEMMA JoinedNodes ==
  ASSUME NEW g, NEW v, NEW n, NEW r, NEW p, NEW j, NEW a, NEW b, NEW c, NEW mid,
         Neighbours(g, v, n, r, p, j, a, b, c, mid), level < MaxLevel,
         Len(heap[c].sub) <= Half(Order),
         NEW y, HeapOK(y), DOMAIN y = DOMAIN v, y[a].leaf = FALSE,
         \A m \in DOMAIN v \ {a, b} : Same(v, y, m),
         \A m \in DOMAIN v : ~ In(v[b].sub, m) => SameLink(v, y, m),
         NEW k, k = v[a].key \o <<mid>> \o v[b].key, NEW s, s = v[a].sub \o v[b].sub,
         NEW h, h = SetNode(y, a, k, s),
         NEW P, P = Places(h, a) \ (0 .. Len(v[a].sub) - 1),
         NEW H, H = Without(Adopt(h, a, P), b), NEW i, i = j - 1
  PROVE  StateOK(H, RemoveUpwards(p, i), root, level, Unlinked(b), contents)
<1> DEFINE ka == v[a].key
           sa == v[a].sub
           kb == v[b].key
           sb == v[b].sub
           la == Len(v[a].sub)
           no == <<>>
<1>1. /\ Removing(g, v, n, r) /\ Beside(g, v, p, j, a, b, mid) /\ KidsApart(v, a, b)
      /\ \A q \in 1 .. Len(v[a].sub) : v[a].sub[q] # b
      /\ \A q \in 1 .. Len(v[b].sub) : v[b].sub[q] # b
      /\ (a = n /\ b = c) \/ (a = c /\ b = n)
      /\ heap[c].sub = v[c].sub
      /\ Len(heap[c].sub) \in Nat /\ 2 <= Len(heap[c].sub)
      /\ Len(heap[c].sub) >= Order \div 2
      /\ Len(heap[n].sub) \in Nat /\ 2 <= Len(heap[n].sub) /\ Len(heap[n].sub) <= Half(Order)
      /\ Len(heap[n].sub) >= Order \div 2
  BY SMTT(60) DEF Neighbours
<1>2. HeapOK(v) /\ DOMAIN v = DOMAIN heap /\ Len(v[n].sub) = Len(heap[n].sub) - 1
  BY <1>1 DEF Removing
<1>3. /\ a \in DOMAIN v /\ b \in DOMAIN v /\ a # b
      /\ mid \in Keys
  BY <1>1 DEF Beside
<1>4. /\ ka \in Seq(Keys) /\ kb \in Seq(Keys) /\ sa \in Seq(Item) /\ sb \in Seq(Item)
      /\ la \in Nat /\ Len(sb) \in Nat
  BY <1>2, <1>3, NodeFields
<1>5. k \in Seq(Keys) /\ s \in Seq(Item) /\ Len(s) = Len(sa) + Len(sb)
  <2>1. k = (ka \o <<mid>>) \o kb /\ s = sa \o sb
    OBVIOUS
  <2>2. <<mid>> \in Seq(Keys)
    BY <1>3
  <2> HIDE DEF ka, kb, sa, sb
  <2>3. ka \o <<mid>> \in Seq(Keys)
    BY ONLY <1>4, <2>2, JoinIs
  <2>4. (ka \o <<mid>>) \o kb \in Seq(Keys)
    BY ONLY <1>4, <2>3, JoinIs
  <2>5. sa \o sb \in Seq(Item) /\ Len(sa \o sb) = Len(sa) + Len(sb)
    BY ONLY <1>4, JoinIs, SMTT(60)
  <2> QED
    BY <2>1, <2>4, <2>5
<1>6. /\ HeapOK(h) /\ DOMAIN h = DOMAIN y
      /\ h[a].key = k /\ h[a].sub = s /\ h[a].leaf = FALSE
      /\ h[a].parent = y[a].parent /\ h[a].idx = y[a].idx
      /\ \A m \in DOMAIN y \ {a} : h[m] = y[m]
  <2>1. HeapOK(y) /\ a \in DOMAIN y
    BY <1>3
  <2>2. /\ HeapOK(SetNode(y, a, k, s)) /\ DOMAIN SetNode(y, a, k, s) = DOMAIN y
        /\ SetNode(y, a, k, s)[a].key = k /\ SetNode(y, a, k, s)[a].sub = s
        /\ SetNode(y, a, k, s)[a].leaf = y[a].leaf
        /\ SetNode(y, a, k, s)[a].parent = y[a].parent
        /\ SetNode(y, a, k, s)[a].idx = y[a].idx
        /\ \A m \in DOMAIN y \ {a} : SetNode(y, a, k, s)[m] = y[m]
    BY ONLY <1>5, <2>1, SetNodeIs, SMTT(60)
  <2> QED
    BY <2>2, Zenon
<1>7. \A m \in DOMAIN v : ~ In(v[b].sub, m) => SameLink(v, h, m)
  BY <1>6, ZenonT(60) DEF SameLink
<1>8. /\ Linked(v, H, a, b, s, no) /\ HeapOK(H) /\ DOMAIN H = DOMAIN h \ {b}
      /\ \A m \in DOMAIN H : Same(h, H, m)
  <2>1. /\ s = v[a].sub \o v[b].sub /\ h[a].sub = s /\ HeapOK(h) /\ DOMAIN h = DOMAIN v
        /\ la = Len(v[a].sub) /\ P = Places(h, a) \ (0 .. la - 1)
        /\ H = Without(Adopt(h, a, P), b) /\ no = <<>>
    BY <1>6, Zenon
  <2>2. /\ KidsApart(v, a, b)
        /\ \A q \in 1 .. Len(v[a].sub) : v[a].sub[q] # b
        /\ \A q \in 1 .. Len(v[b].sub) : v[b].sub[q] # b
    BY <1>1
  <2> HIDE DEF la, no
  <2>3. JoinLinked(v, h, H, a, b, s, no)
    BY ONLY <1>2, <1>3, <1>7, <2>1, <2>2, JoinedLinked, ZenonT(60)
  <2> QED
    BY <2>3, ZenonT(60) DEF JoinLinked
<1>9. TakenOver(v, H, a, b, k, s)
  <2>1. a \in DOMAIN H /\ H[a].leaf = FALSE /\ H[a].key = k /\ H[a].sub = s
    <3>1. a \in DOMAIN H /\ Same(h, H, a)
      BY <1>3, <1>6, <1>8, Zenon
    <3> QED
      BY ONLY <1>6, <3>1, Zenon DEF Same
  <2>2. \A m \in DOMAIN v \ {a, b} : Same(v, H, m)
    <3> SUFFICES ASSUME NEW m \in DOMAIN v \ {a, b} PROVE Same(v, H, m)
      OBVIOUS
    <3>1. m \in DOMAIN H /\ h[m] = y[m] /\ Same(v, y, m)
      BY <1>6, <1>8, ZenonT(60)
    <3>2. Same(h, H, m)
      BY <1>8, <3>1
    <3> QED
      BY ONLY <3>1, <3>2 DEF Same
  <2> QED
    BY <1>6, <1>8, <2>1, <2>2, ZenonT(60) DEF TakenOver
<1>10. NodeFits(Len(s))
  <2> DEFINE m == Len(heap[c].sub)
             l == Len(heap[n].sub)
  <2>1. /\ m \in Nat /\ l \in Nat /\ 2 <= m /\ m <= Half(Order) /\ m >= Order \div 2
        /\ 2 <= l /\ l <= Half(Order)
    BY <1>1, SMTT(60)
  <2>2. (Len(sa) = l - 1 /\ Len(sb) = m) \/ (Len(sa) = m /\ Len(sb) = l - 1)
    BY <1>1, <1>2
  <2>3. Len(s) = Len(sa) + Len(sb)
    BY <1>5
  <2> HIDE DEF m, l, sa, sb
  <2>4. NodeFits(m + (l - 1)) /\ NodeFits((l - 1) + m)
    BY ONLY <2>1, NodesJoin
  <2> QED
    BY <2>2, <2>3, <2>4
<1>11. /\ (n = a \/ n = b) /\ level < MaxLevel /\ i = j - 1 /\ no = <<>>
       /\ k = v[a].key \o <<mid>> \o v[b].key /\ s = v[a].sub \o v[b].sub
  BY <1>1
<1> HIDE DEF no
<1> QED
  BY ONLY <1>1, <1>8, <1>9, <1>10, <1>11, JoinedKeeps

\* A merge into the left node keeps the invariant.
LEMMA JoinedIntoLeft ==
  ASSUME NEW g, NEW v, NEW n, NEW r, NEW p, NEW j, NEW a, NEW mid,
         Neighbours(g, v, n, r, p, j, a, n, a, mid), level < MaxLevel,
         Len(heap[a].sub) <= Half(Order),
         NEW k, k = heap[a].key \o <<mid>> \o v[n].key, NEW s, s = heap[a].sub \o v[n].sub,
         NEW h, h = SetNode(heap, a, k, s),
         NEW H, H = Without(Adopt(h, a, Places(h, a) \ Places(heap, a)), n), NEW i, i = j - 1
  PROVE  StateOK(H, RemoveUpwards(p, i), root, level, Unlinked(n), contents)
<1> DEFINE P == Places(h, a) \ (0 .. Len(v[a].sub) - 1)
<1>1. /\ Removing(g, v, n, r)
      /\ heap[a].key = v[a].key /\ heap[a].sub = v[a].sub /\ heap[a].leaf = FALSE
  BY DEF Neighbours
<1>2. /\ HeapOK(heap) /\ DOMAIN heap = DOMAIN v
      /\ \A m \in DOMAIN heap \ {n} : Same(heap, v, m)
      /\ \A m \in DOMAIN heap : v[m].parent = heap[m].parent
      /\ \A m \in DOMAIN heap :
           (\A q \in r + 2 .. Len(v[n].sub) : v[n].sub[q] # m) => v[m].idx = heap[m].idx
      /\ Len(heap[n].sub) = Len(heap[n].key) + 1 /\ r \in 0 .. Len(heap[n].key) - 1
      /\ Len(v[n].sub) = Len(heap[n].sub) - 1 /\ n \in DOMAIN heap
  BY <1>1 DEF Removing
<1>3. \A m \in DOMAIN v \ {a, n} : Same(v, heap, m)
  BY <1>2 DEF Same
<1>4. \A m \in DOMAIN v : ~ In(v[n].sub, m) => SameLink(v, heap, m)
  <2> SUFFICES ASSUME NEW m \in DOMAIN v, ~ In(v[n].sub, m) PROVE SameLink(v, heap, m)
    OBVIOUS
  <2>1. Len(heap[n].key) \in Nat
    BY <1>2, NodeFields
  <2> DEFINE lb == Len(v[n].sub)
             lk == Len(heap[n].key)
  <2>2. lk \in Nat /\ r \in 0 .. lk - 1 /\ lb = (lk + 1) - 1
    BY <1>2, <2>1
  <2>3. \A q \in r + 2 .. lb : v[n].sub[q] # m
    <3> SUFFICES ASSUME NEW q \in r + 2 .. lb, v[n].sub[q] = m PROVE FALSE
      OBVIOUS
    <3> HIDE DEF lb, lk
    <3>1. q \in 1 .. lb
      BY <2>2
    <3> QED
      BY <3>1 DEF In, lb
  <2>4. v[m].idx = heap[m].idx
    BY <1>2, <2>3, SMTT(60)
  <2> QED
    BY <1>2, <2>4 DEF SameLink
<1>5. /\ k = v[a].key \o <<mid>> \o v[n].key /\ s = v[a].sub \o v[n].sub
      /\ h = SetNode(heap, a, k, s) /\ P = Places(h, a) \ (0 .. Len(v[a].sub) - 1)
      /\ H = Without(Adopt(h, a, P), n) /\ i = j - 1
  BY <1>1 DEF Places
<1>6. /\ Neighbours(g, v, n, r, p, j, a, n, a, mid) /\ level < MaxLevel
      /\ Len(heap[a].sub) <= Half(Order)
  OBVIOUS
<1> HIDE DEF P
<1> QED
  BY ONLY <1>1, <1>2, <1>3, <1>4, <1>5, <1>6, JoinedNodes, ZenonT(60)

\* A removal that borrows from the left, or merges to the left, keeps the
\* invariant (bplustree.c:637-686, 744-788).
LEMMA NonLeafFromLeftKeeps ==
  ASSUME TreeInvariant, level < MaxLevel, NonLeafFromLeft
  PROVE  TreeInvariant'
<1> DEFINE n == work.node
           r == work.remove
           a == Prev(n)
           i == heap[n].idx
           mid == Separator(heap[n].parent, i)
           key == KeysLeft(n, r)
           sub == SubsLeft(n, r)
           k1 == Front(heap[a].key)
           s1 == Front(heap[a].sub)
           s == Last(heap[a].key)
           k2 == <<mid>> \o key
           s2 == <<Last(heap[a].sub)>> \o sub
           z == SetNode(SetNode(heap, n, k2, s2), a, k1, s1)
           h == SetSeparator(z, heap[n].parent, i, s)
           H == Adopt(Renumber(h, n, 1 .. r + 1), n, {0})
           kj == heap[a].key \o <<mid>> \o key
           sj == heap[a].sub \o sub
           hj == SetNode(heap, a, kj, sj)
           Hj == Without(Adopt(hj, a, Places(hj, a) \ Places(heap, a)), n)
<1>1. /\ work.op = "remove" /\ Underfull(n, Order) /\ BorrowsFromLeft(n)
      /\ \/ /\ Len(heap[a].sub) > Half(Order)
            /\ heap' = H /\ work' = Idle /\ list' = list
         \/ /\ Len(heap[a].sub) <= Half(Order)
            /\ heap' = Hj /\ list' = Unlinked(n) /\ work' = RemoveUpwards(heap[n].parent, i)
      /\ root' = root /\ level' = level /\ contents' = contents
  BY DEF NonLeafFromLeft
<1> DEFINE v == Settled(heap, work)
<1>2. PICK g, p, j0 : Lacking(g, v, n, r, p, j0)
  <2>1. n = work.node
    OBVIOUS
  <2> HIDE DEF n
  <2> QED
    BY <1>1, <2>1, LackingIs
<1> HIDE DEF v
<1> DEFINE j == j0 - 1
<1>3. /\ Removing(g, v, n, r) /\ Slot(v, p, j0, n) /\ heap[n].parent = p /\ i = j0 - 2
      /\ heap[p].key = v[p].key /\ Slot(v, p, j, a)
  BY <1>1, <1>2 DEF Lacking
<1>4. j + 1 = j0 /\ i = j - 1 /\ i + 1 = j /\ j \in Int
  BY <1>3 DEF Slot
<1>5. v[n].key = key /\ v[n].sub = sub
  BY <1>3 DEF Removing
<1>6. mid = v[p].key[j]
  BY <1>3, <1>4 DEF Separator
<1>7. Slot(v, p, j + 1, n)
  BY <1>3, <1>4
<1> HIDE DEF n, r, a, i, mid, key, sub, j
<1>8. Neighbours(g, v, n, r, p, j, a, n, a, mid)
  BY ONLY <1>2, <1>3, <1>6, <1>7, NeighboursIs
<1>9. CASE Len(heap[a].sub) > Half(Order) /\ heap' = H /\ work' = Idle /\ list' = list
  <2>1. /\ k1 = Front(heap[a].key) /\ s1 = Front(heap[a].sub) /\ s = Last(heap[a].key)
        /\ k2 = <<mid>> \o v[n].key /\ s2 = <<Last(heap[a].sub)>> \o v[n].sub
    BY <1>5
  <2> HIDE DEF k1, s1, k2, s2, s
  <2>2. /\ z = SetNode(SetNode(heap, n, k2, s2), a, k1, s1) /\ h = SetSeparator(z, p, i, s)
        /\ H = Adopt(Renumber(h, n, 1 .. r + 1), n, {0})
    BY <1>3
  <2> HIDE DEF z, h, H
  <2>3. StateOK(H, Idle, root, level, list, contents)
    <3>1. ShiftFromLeft(v, n, r, p, j, a, mid, k1, s1, k2, s2, s, i, z, h, H)
      BY <1>4, <2>1, <2>2 DEF ShiftFromLeft
    <3> QED
      BY ONLY <1>8, <1>9, <3>1, LentFromLeft
  <2> QED
    BY <1>1, <1>9, <2>3 DEF TreeInvariant
<1>10. CASE /\ Len(heap[a].sub) <= Half(Order)
            /\ heap' = Hj /\ list' = Unlinked(n) /\ work' = RemoveUpwards(heap[n].parent, i)
  <2>1. kj = heap[a].key \o <<mid>> \o v[n].key /\ sj = heap[a].sub \o v[n].sub
    BY <1>5
  <2> HIDE DEF kj, sj
  <2>2. /\ hj = SetNode(heap, a, kj, sj)
        /\ Hj = Without(Adopt(hj, a, Places(hj, a) \ Places(heap, a)), n)
    OBVIOUS
  <2> HIDE DEF hj, Hj
  <2>3. level < MaxLevel
    BY SMTT(60)
  <2>4. StateOK(Hj, RemoveUpwards(p, i), root, level, Unlinked(n), contents)
    BY ONLY <1>4, <1>8, <1>10, <2>1, <2>2, <2>3, JoinedIntoLeft, ZenonT(60)
  <2> QED
    BY <1>1, <1>3, <1>10, <2>4 DEF TreeInvariant
<1> QED
  BY <1>1, <1>9, <1>10

\* non_leaf_shift_from_right adopts the last child of a and numbers the children of b.
RightTold(h, H, a, b, s1, s2, t) ==
  /\ HeapOK(H) /\ DOMAIN H = DOMAIN h
  /\ \A m \in DOMAIN h : Same(h, H, m)
  /\ H[s1[t + 1]].parent = a /\ H[s1[t + 1]].idx = t - 1
  /\ \A q \in 1 .. Len(s2) : H[s2[q]].parent = h[s2[q]].parent /\ H[s2[q]].idx = q - 2
  /\ \A m \in DOMAIN h : ~ In(s2, m) /\ s1[t + 1] # m => SameLink(h, H, m)

\* The children of both nodes after one was borrowed from the right.
LEMMA RightToldIs ==
  ASSUME NEW h, HeapOK(h), NEW a \in DOMAIN h, NEW b \in DOMAIN h,
         NEW s1, s1 = h[a].sub, NEW s2, s2 = h[b].sub, Distinct(s2),
         \A q \in 1 .. Len(s2) : s2[q] \in DOMAIN h,
         NEW t, t + 1 = Len(s1), t \in Nat, s1[t + 1] \in DOMAIN h, ~ In(s2, s1[t + 1]),
         NEW y, y = Adopt(h, a, {t}), NEW H, H = Renumber(y, b, Places(y, b))
  PROVE  RightTold(h, H, a, b, s1, s2, t)
<1> DEFINE Z == {t}
           P == 0 .. Len(s2) - 1
<1>1. Len(s2) \in Nat
  BY NodeFields
<1>2. Apart(h, a, Z)
  <2>1. t \in 0 .. Len(s1) - 1
    OBVIOUS
  <2> QED
    BY <2>1 DEF Apart
<1>3. /\ HeapOK(y) /\ DOMAIN y = DOMAIN h
      /\ \A m \in DOMAIN h : y[m].leaf = h[m].leaf /\ y[m].key = h[m].key /\ y[m].sub = h[m].sub
      /\ \A p \in Z : s1[p + 1] \in DOMAIN h =>
           y[s1[p + 1]].idx = p - 1 /\ y[s1[p + 1]].parent = a
      /\ \A m \in DOMAIN h : (\A p \in Z : s1[p + 1] # m) => y[m] = h[m]
  <2>1. HeapOK(h) /\ a \in DOMAIN h
    OBVIOUS
  <2>3. y = Adopt(h, a, Z)
    OBVIOUS
  <2> HIDE DEF Z
  <2>2. LET gg == Adopt(h, a, Z) IN
        /\ HeapOK(gg) /\ DOMAIN gg = DOMAIN h
        /\ \A m \in DOMAIN h : /\ gg[m].leaf = h[m].leaf /\ gg[m].key = h[m].key
                               /\ gg[m].sub = h[m].sub
        /\ \A p \in Z : h[a].sub[p + 1] \in DOMAIN h =>
             gg[h[a].sub[p + 1]].idx = p - 1 /\ gg[h[a].sub[p + 1]].parent = a
        /\ \A m \in DOMAIN h : (\A p \in Z : h[a].sub[p + 1] # m) => gg[m] = h[m]
    BY ONLY <1>2, <2>1, AdoptIs
  <2> QED
    BY <2>2, <2>3
<1>4. /\ y[s1[t + 1]].parent = a /\ y[s1[t + 1]].idx = t - 1
      /\ \A m \in DOMAIN h : s1[t + 1] # m => y[m] = h[m]
  BY <1>3
<1>5. y[b].sub = s2 /\ b \in DOMAIN y /\ H = Renumber(y, b, P)
  BY <1>3 DEF Places
<1>6. Apart(y, b, P)
  <2>1. \A p, q \in P : s2[p + 1] = s2[q + 1] => p = q
    <3> SUFFICES ASSUME NEW p \in P, NEW q \in P, s2[p + 1] = s2[q + 1] PROVE p = q
      OBVIOUS
    <3>1. p + 1 \in 1 .. Len(s2) /\ q + 1 \in 1 .. Len(s2) /\ p \in Int /\ q \in Int
      BY <1>1
    <3>2. p + 1 = q + 1
      BY <3>1 DEF Distinct
    <3> QED
      BY <3>1, <3>2
  <2> QED
    BY <1>5, <2>1 DEF Apart
<1>7. /\ HeapOK(H) /\ DOMAIN H = DOMAIN y
      /\ \A m \in DOMAIN y : /\ H[m].leaf = y[m].leaf /\ H[m].key = y[m].key
                             /\ H[m].sub = y[m].sub /\ H[m].parent = y[m].parent
      /\ \A p \in P : s2[p + 1] \in DOMAIN y => H[s2[p + 1]].idx = p - 1
      /\ \A m \in DOMAIN y : (\A p \in P : s2[p + 1] # m) => H[m] = y[m]
  <2> HIDE DEF P
  <2>1. HeapOK(y) /\ b \in DOMAIN y
    BY <1>3, <1>5
  <2>2. LET gg == Renumber(y, b, P) IN
        /\ HeapOK(gg) /\ DOMAIN gg = DOMAIN y
        /\ \A m \in DOMAIN y : /\ gg[m].leaf = y[m].leaf /\ gg[m].key = y[m].key
                               /\ gg[m].sub = y[m].sub /\ gg[m].parent = y[m].parent
        /\ \A p \in P : y[b].sub[p + 1] \in DOMAIN y => gg[y[b].sub[p + 1]].idx = p - 1
        /\ \A m \in DOMAIN y : (\A p \in P : y[b].sub[p + 1] # m) => gg[m] = y[m]
    BY ONLY <1>6, <2>1, RenumberIs
  <2>3. /\ HeapOK(H) /\ DOMAIN H = DOMAIN y
        /\ \A m \in DOMAIN y : /\ H[m].leaf = y[m].leaf /\ H[m].key = y[m].key
                               /\ H[m].sub = y[m].sub /\ H[m].parent = y[m].parent
        /\ \A p \in P : y[b].sub[p + 1] \in DOMAIN y => H[y[b].sub[p + 1]].idx = p - 1
        /\ \A m \in DOMAIN y : (\A p \in P : y[b].sub[p + 1] # m) => H[m] = y[m]
    BY ONLY <1>5, <2>2
  <2> QED
    BY ONLY <1>5, <2>3
<1>8. \A m \in DOMAIN h : Same(h, H, m)
  BY ONLY <1>3, <1>7 DEF Same
<1>9. \A m \in DOMAIN h : ~ In(s2, m) => H[m] = y[m]
  <2> SUFFICES ASSUME NEW m \in DOMAIN h, ~ In(s2, m) PROVE H[m] = y[m]
    OBVIOUS
  <2>1. \A p \in P : s2[p + 1] # m
    <3> SUFFICES ASSUME NEW p \in P, s2[p + 1] = m PROVE FALSE
      OBVIOUS
    <3>1. p + 1 \in 1 .. Len(s2)
      BY <1>1
    <3> QED
      BY <3>1 DEF In
  <2> QED
    BY <1>3, <1>7, <2>1
<1>10. H[s1[t + 1]].parent = a /\ H[s1[t + 1]].idx = t - 1
  BY <1>4, <1>9
<1>11. ASSUME NEW q \in 1 .. Len(s2)
       PROVE  H[s2[q]].parent = h[s2[q]].parent /\ H[s2[q]].idx = q - 2
  <2> DEFINE p == q - 1
  <2>0. q \in 1 .. Len(s2)
    OBVIOUS
  <2>1. p \in P /\ p + 1 = q /\ p - 1 = q - 2
    BY ONLY <1>1, <2>0
  <2> HIDE DEF p, P
  <2>2. s2[q] \in DOMAIN y /\ s2[q] \in DOMAIN h
    BY <1>3
  <2>3. H[s2[q]].idx = q - 2
    BY <1>7, <2>1, <2>2
  <2>4. s1[t + 1] # s2[q]
    BY DEF In
  <2>5. y[s2[q]] = h[s2[q]]
    BY <1>4, <2>2, <2>4
  <2>6. H[s2[q]].parent = y[s2[q]].parent
    BY <1>7, <2>2
  <2> QED
    BY ONLY <2>3, <2>5, <2>6
<1>12. \A m \in DOMAIN h : ~ In(s2, m) /\ s1[t + 1] # m => SameLink(h, H, m)
  BY <1>4, <1>9 DEF SameLink
<1> QED
  BY <1>3, <1>7, <1>8, <1>10, <1>11, <1>12 DEF RightTold

\* The first child of b, now the last of a, is none of those b keeps.
LEMMA MovedLeftDistinct ==
  ASSUME NEW v, NEW a, NEW b, KidsApart(v, a, b), NEW s1, NEW s2,
         MovedLeft(v[a].sub, v[b].sub, s1, s2),
         Len(v[a].sub) \in Nat, Len(v[b].sub) \in Nat, Len(v[b].sub) >= 1,
         NEW t, t = Len(v[a].sub)
  PROVE  /\ Distinct(s2) /\ \A q \in 1 .. Len(s2) : s2[q] \in DOMAIN v
         /\ s1[t + 1] \in DOMAIN v /\ ~ In(s2, s1[t + 1])
         /\ \A q \in 1 .. t : s1[q] # s1[t + 1] /\ ~ In(s2, s1[q])
<1> DEFINE sa == v[a].sub
           sb == v[b].sub
           lb == Len(sb)
<1>1. /\ Len(s2) = lb - 1
      /\ \A q \in 1 .. t : s1[q] = sa[q]
      /\ s1[t + 1] = sb[1]
      /\ \A q \in 1 .. lb - 1 : s2[q] = sb[q + 1]
  BY DEF MovedLeft
<1>2. /\ \A q \in 1 .. lb : sb[q] \in DOMAIN v
      /\ \A i \in 1 .. t, q \in 1 .. lb : sa[i] # sb[q]
      /\ \A i, q \in 1 .. lb : sb[i] = sb[q] => i = q
  BY DEF KidsApart, Distinct
<1>3. t \in Nat /\ lb >= 1 /\ lb \in Nat
  OBVIOUS
<1> HIDE DEF sa, sb, lb
<1>4. \A q \in 1 .. Len(s2) : q + 1 \in 1 .. lb /\ q + 1 # 1 /\ s2[q] = sb[q + 1]
  <2>1. \A q \in 1 .. Len(s2) : q + 1 \in 1 .. lb /\ q + 1 # 1 /\ q \in 1 .. lb - 1
    BY <1>1, <1>3
  <2> QED
    BY <1>1, <2>1
<1>5. 1 \in 1 .. lb
  BY <1>3
<1>6. Distinct(s2)
  <2> SUFFICES ASSUME NEW i \in 1 .. Len(s2), NEW q \in 1 .. Len(s2), s2[i] = s2[q] PROVE i = q
    BY DEF Distinct
  <2>1. i + 1 = q + 1
    BY <1>2, <1>4
  <2>2. i \in Int /\ q \in Int
    OBVIOUS
  <2> QED
    BY ONLY <2>1, <2>2
<1>7. \A q \in 1 .. Len(s2) : s2[q] \in DOMAIN v
  BY <1>2, <1>4
<1>8. s1[t + 1] \in DOMAIN v /\ ~ In(s2, s1[t + 1])
  BY <1>1, <1>2, <1>4, <1>5 DEF In
<1>9. \A q \in 1 .. t : s1[q] # s1[t + 1] /\ ~ In(s2, s1[q])
  BY <1>1, <1>2, <1>4, <1>5 DEF In
<1> QED
  BY <1>6, <1>7, <1>8, <1>9

\* Once told, the children of n and of its right neighbour know their places.
LEMMA FromRightLinked ==
  ASSUME NEW v, HeapOK(v), NEW a \in DOMAIN v, NEW b \in DOMAIN v, KidsApart(v, a, b),
         NEW s1, NEW s2, MovedLeft(v[a].sub, v[b].sub, s1, s2), Len(v[b].sub) >= 1,
         NEW h, HeapOK(h), DOMAIN h = DOMAIN v, h[a].sub = s1, h[b].sub = s2,
         \A m \in DOMAIN v : SameLink(v, h, m),
         NEW t, t = Len(v[a].sub), NEW y, y = Adopt(h, a, {t}),
         NEW H, H = Renumber(y, b, Places(y, b))
  PROVE  Linked(v, H, a, b, s1, s2) /\ RightTold(h, H, a, b, s1, s2, t)
<1> DEFINE sa == v[a].sub
           sb == v[b].sub
           lb == Len(sb)
<1>1. Len(v[a].sub) \in Nat /\ Len(v[b].sub) \in Nat /\ t \in Nat /\ lb \in Nat /\ lb >= 1
  BY NodeFields
<1>2. /\ Distinct(s2) /\ \A q \in 1 .. Len(s2) : s2[q] \in DOMAIN v
      /\ s1[t + 1] \in DOMAIN v /\ ~ In(s2, s1[t + 1])
      /\ \A q \in 1 .. t : s1[q] # s1[t + 1] /\ ~ In(s2, s1[q])
  <2>1. /\ KidsApart(v, a, b) /\ MovedLeft(v[a].sub, v[b].sub, s1, s2)
        /\ Len(v[a].sub) \in Nat /\ Len(v[b].sub) \in Nat /\ Len(v[b].sub) >= 1
        /\ t = Len(v[a].sub)
    BY <1>1
  <2> QED
    BY ONLY <2>1, MovedLeftDistinct
<1>3. /\ Len(s1) = t + 1 /\ Len(s2) = lb - 1
      /\ \A q \in 1 .. t : s1[q] = sa[q]
      /\ s1[t + 1] = sb[1]
      /\ \A q \in 1 .. lb - 1 : s2[q] = sb[q + 1]
  BY DEF MovedLeft
<1>4. /\ \A q \in 1 .. t : sa[q] \in DOMAIN v /\ v[sa[q]].parent = a /\ v[sa[q]].idx = q - 2
      /\ \A q \in 1 .. lb : sb[q] \in DOMAIN v /\ v[sb[q]].parent = b
  BY DEF KidsApart
<1>5. RightTold(h, H, a, b, s1, s2, t)
  <2>1. /\ HeapOK(h) /\ a \in DOMAIN h /\ b \in DOMAIN h /\ s1 = h[a].sub /\ s2 = h[b].sub
        /\ Distinct(s2) /\ \A q \in 1 .. Len(s2) : s2[q] \in DOMAIN h
    BY <1>2
  <2>2. /\ t + 1 = Len(s1) /\ t \in Nat /\ s1[t + 1] \in DOMAIN h /\ ~ In(s2, s1[t + 1])
        /\ y = Adopt(h, a, {t}) /\ H = Renumber(y, b, Places(y, b))
    BY <1>1, <1>2, <1>3
  <2> QED
    BY ONLY <2>1, <2>2, RightToldIs
<1>6. /\ H[s1[t + 1]].parent = a /\ H[s1[t + 1]].idx = t - 1
      /\ \A q \in 1 .. Len(s2) : H[s2[q]].parent = h[s2[q]].parent /\ H[s2[q]].idx = q - 2
      /\ \A m \in DOMAIN h : ~ In(s2, m) /\ s1[t + 1] # m => SameLink(h, H, m)
      /\ DOMAIN H = DOMAIN h
  BY <1>5 DEF RightTold
<1> HIDE DEF sa, sb, lb
<1>7. \A m \in DOMAIN v : h[m].parent = v[m].parent /\ h[m].idx = v[m].idx
  BY DEF SameLink
<1>8. \A q \in 1 .. Len(s2) : q + 1 \in 1 .. lb /\ s2[q] = sb[q + 1]
  <2>1. \A q \in 1 .. Len(s2) : q + 1 \in 1 .. lb /\ q \in 1 .. lb - 1
    BY <1>1, <1>3
  <2> QED
    BY <1>3, <2>1
<1>9. ASSUME NEW q \in 1 .. Len(s1)
      PROVE  H[s1[q]].parent = a /\ H[s1[q]].idx = q - 2
  <2>1. CASE q \in 1 .. t
    <3>1. /\ s1[q] \in DOMAIN v /\ v[s1[q]].parent = a /\ v[s1[q]].idx = q - 2
          /\ ~ In(s2, s1[q]) /\ s1[t + 1] # s1[q]
      BY <1>2, <1>3, <1>4, <2>1
    <3> QED
      BY <1>6, <1>7, <3>1, ZenonT(60) DEF SameLink
  <2>2. CASE q = t + 1
    <3>1. t - 1 = q - 2
      BY <1>1, <2>2
    <3> QED
      BY <1>6, <2>2, <3>1
  <2>3. q \in 1 .. t \/ q = t + 1
    BY <1>1, <1>3
  <2> QED
    BY <2>1, <2>2, <2>3
<1>10. ASSUME NEW q \in 1 .. Len(s2)
       PROVE  H[s2[q]].parent = b /\ H[s2[q]].idx = q - 2
  <2>1. s2[q] \in DOMAIN v /\ v[s2[q]].parent = b
    BY <1>4, <1>8
  <2> QED
    BY <1>6, <1>7, <2>1
<1>11. ASSUME NEW m \in DOMAIN v \cap DOMAIN H, ~ In(sa, m), ~ In(sb, m)
       PROVE  SameLink(v, H, m)
  <2>1. ~ In(s2, m)
    BY <1>8, <1>11 DEF In, lb
  <2>2. s1[t + 1] # m
    <3>1. 1 \in 1 .. lb
      BY <1>1
    <3> QED
      BY <1>3, <1>11, <3>1 DEF In, lb
  <2> QED
    BY <1>6, <1>7, <1>11, <2>1, <2>2, ZenonT(60) DEF SameLink
<1> QED
  BY <1>5, <1>9, <1>10, <1>11 DEF Linked, sa, sb

\* The heap after non_leaf_shift_from_right, step by step.
ShiftFromRight(v, n, p, j, b, mid, k1, s1, k2, s2, s, i, z, h, t, y, H) ==
  /\ k1 = Append(v[n].key, mid) /\ s1 = Append(v[n].sub, Head(heap[b].sub))
  /\ k2 = Tail(heap[b].key) /\ s2 = Tail(heap[b].sub)
  /\ s = Head(heap[b].key) /\ i + 1 = j
  /\ z = SetNode(SetNode(v, n, k1, s1), b, k2, s2)
  /\ h = SetSeparator(z, p, i, s)
  /\ t = Len(v[n].sub) /\ y = Adopt(h, n, {t})
  /\ H = Renumber(y, b, Places(y, b))

\* A child borrowed from the right keeps the invariant.
LEMMA LentFromRight ==
  ASSUME NEW g, NEW v, NEW n, NEW r, NEW p, NEW j, NEW b, NEW mid,
         Neighbours(g, v, n, r, p, j, n, b, b, mid), Len(heap[b].sub) > Half(Order),
         NEW k1, NEW s1, NEW k2, NEW s2, NEW s, NEW i, NEW z, NEW h, NEW t, NEW y, NEW H,
         ShiftFromRight(v, n, p, j, b, mid, k1, s1, k2, s2, s, i, z, h, t, y, H)
  PROVE  StateOK(H, Idle, root, level, list, contents)
<1>0. /\ k1 = Append(v[n].key, mid) /\ s1 = Append(v[n].sub, Head(heap[b].sub))
      /\ k2 = Tail(heap[b].key) /\ s2 = Tail(heap[b].sub)
      /\ s = Head(heap[b].key) /\ i + 1 = j
      /\ z = SetNode(SetNode(v, n, k1, s1), b, k2, s2)
      /\ h = SetSeparator(z, p, i, s)
      /\ t = Len(v[n].sub) /\ y = Adopt(h, n, {t})
      /\ H = Renumber(y, b, Places(y, b))
  BY DEF ShiftFromRight
<1> DEFINE lo == g[n].lo
           hi == g[b].hi
           d == g[n].dep
           D == DOMAIN v
           ka == v[n].key
           sa == v[n].sub
           kb == v[b].key
           sb == v[b].sub
           lb == Len(heap[b].sub)
           ln == Len(heap[n].sub)
<1>1. /\ Removing(g, v, n, r) /\ Beside(g, v, p, j, n, b, mid) /\ KidsApart(v, n, b)
      /\ b \in DOMAIN heap /\ n \in DOMAIN heap /\ p \in DOMAIN heap /\ b # n /\ p # b /\ p # n
      /\ heap[b].key = kb /\ heap[b].sub = sb
      /\ lb \in Nat /\ 2 <= lb /\ lb <= Order /\ lb >= Order \div 2
      /\ ln \in Nat /\ 2 <= ln /\ ln <= Half(Order) /\ ln >= Order \div 2
  BY DEF Neighbours
<1>2. /\ DOMAIN v = DOMAIN heap /\ Len(sa) = ln - 1 /\ HeapOK(v)
  BY <1>1 DEF Removing
<1>3. /\ lo \in Int /\ mid \in Keys /\ hi \in Int /\ lo < mid /\ mid < hi
      /\ Fan(D, g, ka, sa, lo, mid, d) /\ Fan(D, g, kb, sb, mid, hi, d)
      /\ j \in 1 .. Len(v[p].key) /\ v[n].leaf = FALSE /\ v[b].leaf = FALSE
  BY <1>1 DEF Beside
<1>4. sa \in Seq(Item) /\ sb \in Seq(Item) /\ Len(sb) = Len(kb) + 1 /\ Len(kb) >= 1 /\ Len(sb) = lb
  <2>1. sa \in Seq(Item) /\ sb \in Seq(Item) /\ Len(sb) = Len(kb) + 1 /\ kb \in Seq(Keys)
        /\ Len(sb) = lb
    BY <1>1, <1>3 DEF Fan
  <2>2. Len(kb) \in Nat
    BY <2>1
  <2>3. lb >= 2
    BY <1>1, SMTT(60)
  <2> QED
    BY ONLY <2>1, <2>2, <2>3
<1>5. /\ k1 = Append(ka, mid) /\ s1 = Append(sa, Head(sb)) /\ s = Head(kb)
      /\ k2 = Tail(kb) /\ s2 = Tail(sb)
  BY <1>0, <1>1
<1>16. n \in DOMAIN v /\ b \in DOMAIN v /\ p \in DOMAIN v
  BY <1>1, <1>2
<1> HIDE DEF lo, hi, d, D, ka, sa, kb, sb
<1>6. Refanned(D, g, k1, s1, k2, s2, lo, hi, d, s) /\ MovedLeft(sa, sb, s1, s2)
  BY ONLY <1>3, <1>4, <1>5, FanLendsFirst
<1>17. Len(sb) >= 1
  BY <1>1, <1>4
<1>7. SameKids(sa, sb, s1, s2)
  BY ONLY <1>4, <1>6, <1>17, MovedLeftKids
<1>8. /\ k1 \in Seq(Keys) /\ s1 \in Seq(Item) /\ k2 \in Seq(Keys) /\ s2 \in Seq(Item)
      /\ s \in Keys
  BY <1>6 DEF Refanned, Fan
<1>9. Rewritten(v, h, p, j, n, b, k1, s1, k2, s2, s)
  <2>1. /\ z = SetNode(SetNode(v, n, k1, s1), b, k2, s2) /\ h = SetSeparator(z, p, i, s)
        /\ i + 1 = j
    BY <1>0
  <2>2. n # b /\ p # n /\ p # b
    BY <1>1
  <2> QED
    BY ONLY <1>2, <1>3, <1>8, <1>16, <2>1, <2>2, RewrittenIs
<1>10. /\ HeapOK(h) /\ DOMAIN h = DOMAIN v /\ h[n].sub = s1 /\ h[b].sub = s2
       /\ \A m \in DOMAIN v : SameLink(v, h, m)
  BY <1>9 DEF Rewritten
<1>11. Linked(v, H, n, b, s1, s2) /\ RightTold(h, H, n, b, s1, s2, t)
  <2>1. MovedLeft(v[n].sub, v[b].sub, s1, s2) /\ Len(v[b].sub) >= 1 /\ KidsApart(v, n, b)
    BY <1>1, <1>6, <1>17 DEF sa, sb
  <2>2. t = Len(v[n].sub) /\ y = Adopt(h, n, {t}) /\ H = Renumber(y, b, Places(y, b))
    BY <1>0
  <2> QED
    BY ONLY <1>2, <1>10, <1>16, <2>1, <2>2, FromRightLinked
<1>12. HeapOK(H) /\ DOMAIN H = DOMAIN h /\ \A m \in DOMAIN h : Same(h, H, m)
  BY <1>11 DEF RightTold
<1>13. Rebalanced(v, H, p, j, n, b, k1, s1, k2, s2, s)
  <2>1. \A m \in DOMAIN v \ {n, b} : Same(v, v, m)
    BY DEF Same
  <2>2. n # b /\ p # n /\ p # b
    BY <1>1
  <2> QED
    BY ONLY <1>9, <1>12, <1>16, <2>1, <2>2, RewrittenRebalanced
<1>14. NodeFits(Len(s1)) /\ NodeFits(Len(s2))
  <2>1. Len(s1) = (ln - 1) + 1 /\ Len(s2) = lb - 1
    BY <1>2, <1>4, <1>6 DEF MovedLeft, sa
  <2>2. /\ lb \in Nat /\ ln \in Nat /\ lb > Half(Order) /\ lb <= Order /\ 2 <= ln
        /\ ln <= Half(Order) /\ ln >= Order \div 2
    BY <1>1
  <2> HIDE DEF lb, ln
  <2>3. (ln - 1) + 1 = ln
    BY ONLY <2>2
  <2>4. NodeFits(lb - 1) /\ NodeFits(ln)
    BY ONLY <2>2, NodesLend
  <2> QED
    BY <2>1, <2>3, <2>4
<1>15. /\ Refanned(DOMAIN v, g, k1, s1, k2, s2, g[n].lo, g[b].hi, g[n].dep, s)
       /\ SameKids(v[n].sub, v[b].sub, s1, s2) /\ (n = n \/ n = b)
  BY <1>6, <1>7, SMTT(60) DEF D, lo, hi, d, sa, sb
<1> QED
  BY ONLY <1>1, <1>11, <1>13, <1>14, <1>15, BalancedKeeps, SMTT(60)

\* A merge of the right node keeps the invariant.
LEMMA JoinedFromRight ==
  ASSUME NEW g, NEW v, NEW n, NEW r, NEW p, NEW j, NEW b, NEW mid,
         Neighbours(g, v, n, r, p, j, n, b, b, mid), level < MaxLevel,
         Len(heap[b].sub) <= Half(Order),
         NEW k, k = v[n].key \o <<mid>> \o heap[b].key, NEW s, s = v[n].sub \o heap[b].sub,
         NEW h, h = SetNode(v, n, k, s),
         NEW H, H = Without(Adopt(h, n, Places(h, n) \ Places(v, n)), b), NEW i, i = j - 1
  PROVE  StateOK(H, RemoveUpwards(p, i), root, level, Unlinked(b), contents)
<1> DEFINE P == Places(h, n) \ (0 .. Len(v[n].sub) - 1)
<1>1. /\ Removing(g, v, n, r) /\ Beside(g, v, p, j, n, b, mid)
      /\ heap[b].key = v[b].key /\ heap[b].sub = v[b].sub
  BY DEF Neighbours
<1>2. HeapOK(v) /\ v[n].leaf = FALSE
  BY <1>1 DEF Removing, Beside
<1>3. /\ \A m \in DOMAIN v \ {n, b} : Same(v, v, m)
      /\ \A m \in DOMAIN v : ~ In(v[b].sub, m) => SameLink(v, v, m)
  BY SMTT(60) DEF Same, SameLink
<1>4. /\ k = v[n].key \o <<mid>> \o v[b].key /\ s = v[n].sub \o v[b].sub
      /\ h = SetNode(v, n, k, s) /\ P = Places(h, n) \ (0 .. Len(v[n].sub) - 1)
      /\ H = Without(Adopt(h, n, P), b) /\ i = j - 1 /\ DOMAIN v = DOMAIN v
  BY <1>1 DEF Places
<1>5. /\ Neighbours(g, v, n, r, p, j, n, b, b, mid) /\ level < MaxLevel
      /\ Len(heap[b].sub) <= Half(Order)
  OBVIOUS
<1> HIDE DEF P
<1> QED
  BY ONLY <1>2, <1>3, <1>4, <1>5, JoinedNodes, ZenonT(60)

\* A removal that borrows from the right, or merges from there, keeps the
\* invariant (bplustree.c:688-731, 744-788).
LEMMA NonLeafFromRightKeeps ==
  ASSUME TreeInvariant, level < MaxLevel, NonLeafFromRight
  PROVE  TreeInvariant'
<1> DEFINE n == work.node
           r == work.remove
           b == NextOf(n)
           i == heap[n].idx + 1
           v == SimplyRemoved(n, r)
           mid == Separator(heap[n].parent, i)
           t == Len(v[n].sub)
           k1 == Append(v[n].key, mid)
           s1 == Append(v[n].sub, Head(heap[b].sub))
           k2 == Tail(heap[b].key)
           s2 == Tail(heap[b].sub)
           s == Head(heap[b].key)
           z == SetNode(SetNode(v, n, k1, s1), b, k2, s2)
           h == SetSeparator(z, heap[n].parent, i, s)
           y == Adopt(h, n, {t})
           H == Renumber(y, b, Places(y, b))
           kj == v[n].key \o <<mid>> \o heap[b].key
           sj == v[n].sub \o heap[b].sub
           hj == SetNode(v, n, kj, sj)
           Hj == Without(Adopt(hj, n, Places(hj, n) \ Places(v, n)), b)
<1>1. /\ work.op = "remove" /\ Underfull(n, Order) /\ ~ BorrowsFromLeft(n)
      /\ \/ /\ Len(heap[b].sub) > Half(Order)
            /\ heap' = H /\ work' = Idle /\ list' = list
         \/ /\ Len(heap[b].sub) <= Half(Order)
            /\ heap' = Hj /\ list' = Unlinked(b) /\ work' = RemoveUpwards(heap[n].parent, i)
      /\ root' = root /\ level' = level /\ contents' = contents
  BY SMTT(60) DEF NonLeafFromRight
<1> DEFINE w == Settled(heap, work)
<1>2. PICK g, p, j : Lacking(g, w, n, r, p, j)
  <2>1. n = work.node
    OBVIOUS
  <2> HIDE DEF n
  <2> QED
    BY <1>1, <2>1, LackingIs, SMTT(60)
<1>3. /\ Removing(g, w, n, r) /\ Slot(w, p, j, n) /\ heap[n].parent = p /\ heap[n].idx = j - 2
      /\ heap[p].key = w[p].key /\ Slot(w, p, j + 1, b)
  <2> HIDE DEF w
  <2> QED
    BY <1>1, <1>2 DEF Lacking
<1>4. w = v
  <2> HIDE DEF w, v, n, r
  <2>1. w = SimplyRemoved(n, r)
    BY ONLY <1>3 DEF Removing
  <2> QED
    BY <2>1 DEF v
<1> HIDE DEF w, v
<1>5. i = j - 1 /\ i + 1 = j /\ j \in Int
  BY <1>3 DEF Slot
<1>6. mid = v[p].key[j]
  BY <1>3, <1>4, <1>5 DEF Separator
<1>7. Lacking(g, v, n, r, p, j) /\ Slot(v, p, j, n) /\ Slot(v, p, j + 1, b)
  BY <1>2, <1>3, <1>4
<1> HIDE DEF n, r, b, i, mid
<1>8. Neighbours(g, v, n, r, p, j, n, b, b, mid)
  BY ONLY <1>6, <1>7, NeighboursIs
<1>9. CASE Len(heap[b].sub) > Half(Order) /\ heap' = H /\ work' = Idle /\ list' = list
  <2>1. /\ k1 = Append(v[n].key, mid) /\ s1 = Append(v[n].sub, Head(heap[b].sub))
        /\ k2 = Tail(heap[b].key) /\ s2 = Tail(heap[b].sub) /\ s = Head(heap[b].key)
        /\ t = Len(v[n].sub)
    OBVIOUS
  <2> HIDE DEF k1, s1, k2, s2, s, t
  <2>2. /\ z = SetNode(SetNode(v, n, k1, s1), b, k2, s2) /\ h = SetSeparator(z, p, i, s)
        /\ y = Adopt(h, n, {t}) /\ H = Renumber(y, b, Places(y, b))
    BY <1>3
  <2> HIDE DEF z, h, y, H
  <2>3. StateOK(H, Idle, root, level, list, contents)
    <3>1. ShiftFromRight(v, n, p, j, b, mid, k1, s1, k2, s2, s, i, z, h, t, y, H)
      BY <1>5, <2>1, <2>2 DEF ShiftFromRight
    <3> QED
      BY ONLY <1>8, <1>9, <3>1, LentFromRight, SMTT(60)
  <2> QED
    BY <1>1, <1>9, <2>3 DEF TreeInvariant
<1>10. CASE /\ Len(heap[b].sub) <= Half(Order)
            /\ heap' = Hj /\ list' = Unlinked(b) /\ work' = RemoveUpwards(heap[n].parent, i)
  <2>1. kj = v[n].key \o <<mid>> \o heap[b].key /\ sj = v[n].sub \o heap[b].sub
    OBVIOUS
  <2> HIDE DEF kj, sj
  <2>2. /\ hj = SetNode(v, n, kj, sj)
        /\ Hj = Without(Adopt(hj, n, Places(hj, n) \ Places(v, n)), b)
    BY SMTT(60)
  <2> HIDE DEF hj, Hj
  <2>3. level < MaxLevel
    OBVIOUS
  <2>4. StateOK(Hj, RemoveUpwards(p, i), root, level, Unlinked(b), contents)
    BY ONLY <1>5, <1>8, <1>10, <2>1, <2>2, <2>3, JoinedFromRight
  <2> QED
    BY <1>1, <1>3, <1>10, <2>4 DEF TreeInvariant
<1> QED
  BY <1>1, <1>9, <1>10, SMTT(60)

-----------------------------------------------------------------------------
(***************************************************************************)
(* The invariant holds.                                                    *)
(***************************************************************************)

\* The invariant holds of the empty tree.
LEMMA InitHolds ==
  ASSUME Init
  PROVE  TreeInvariant
<1> DEFINE g == [n \in {} |-> 0]
<1>1. heap = [n \in {} |-> Idle] /\ root = Null /\ level = 0 /\ work = Idle
      /\ list = [l \in 0 .. MaxLevel - 1 |-> <<>>] /\ contents = [k \in {} |-> Idle]
  BY DEF Init
<1>2. DOMAIN heap = {} /\ DOMAIN contents = {}
  BY <1>1
<1>3. HeapOK(heap)
  BY <1>2, FS_EmptySet DEF HeapOK
<1>4. Shape(heap, g, root, level) /\ Links(heap, root)
  BY <1>1, <1>2 DEF Shape, Links, Null
<1>5. Chain(list, DOMAIN heap, g)
  <2>1. DOMAIN list = 0 .. MaxLevel - 1 /\ \A l \in DOMAIN list : list[l] = <<>>
    BY <1>1
  <2>2. <<>> \in Seq(DOMAIN heap) /\ 1 .. Len(<<>>) = {}
    OBVIOUS
  <2>3. \A l \in DOMAIN list : list[l] \in Seq(DOMAIN heap) /\ 1 .. Len(list[l]) = {}
    BY ONLY <2>1, <2>2, Zenon
  <2> HIDE DEF g
  <2> QED
    BY <1>2, <2>1, <2>3, Zenon DEF Chain
<1>6. Sizes(heap, root) /\ MapIs(heap, contents)
  BY <1>2 DEF Sizes, MapIs, Entry
<1> HIDE DEF g
<1>7. TreeIs(heap, Idle, root, level, list, g)
  BY <1>3, <1>4, <1>5, IdleTree
<1> QED
  BY <1>1, <1>6, <1>7, IdleState DEF TreeInvariant

\* Every step keeps the invariant while level is within BPLUS_MAX_LEVEL.
LEMMA NextKeeps ==
  ASSUME TreeInvariant, level < MaxLevel, [Next]_vars
  PROVE  TreeInvariant'
<1>1. CASE UNCHANGED vars
  BY <1>1 DEF vars, treeVars, TreeInvariant
<1>2. ASSUME NEW k \in Keys, NEW d \in DataFor[k], Put(k, d) PROVE TreeInvariant'
  BY <1>2, PutFirstKeeps, PutExistingKeeps, PutSimpleKeeps, PutSplitKeeps DEF Put
<1>3. ASSUME NEW k \in Keys, Delete(k) PROVE TreeInvariant'
  <2>1. CASE DeleteMissing(k)
    BY <1>1, <2>1 DEF DeleteMissing
  <2> QED
    BY <1>3, <2>1, LeafSimpleRemoveKeeps, LeafFromLeftKeeps, LeafFromRightKeeps DEF Delete
<1>4. ASSUME ParentNodeBuild PROVE TreeInvariant'
  BY <1>4, NewRootKeeps, NonLeafSimpleInsertKeeps, NonLeafSplitKeeps DEF ParentNodeBuild
<1>5. ASSUME NonLeafRemove PROVE TreeInvariant'
  BY <1>5, NonLeafSimpleRemoveKeeps, NonLeafFromLeftKeeps, NonLeafFromRightKeeps
  DEF NonLeafRemove
<1>6. CASE Next
  BY <1>2, <1>3, <1>4, <1>5, <1>6 DEF Next
<1> QED
  BY <1>1, <1>6

\* The inductive invariant: at every step, the tree seen with its pending
\* call done is a search tree of even depth, its links and its level lists
\* agree with it, no node is too full or too empty, and the leaves hold the
\* keys that were put and not deleted since.
THEOREM TreeIsSound == Spec /\ [](level < MaxLevel) => []TreeInvariant
<1>1. Init => TreeInvariant
  BY InitHolds
<1>2. TreeInvariant /\ level < MaxLevel /\ [Next]_vars => TreeInvariant'
  BY NextKeeps
<1> QED
  BY <1>1, <1>2, PTL DEF Spec

-----------------------------------------------------------------------------
(***************************************************************************)
(* What follows from it: types, bounds, assertions, links, the map.        *)
(***************************************************************************)

\* What the types and the bounds say of one node.
TreeNode(h, n) ==
  /\ Len(h[n].key) = IF h[n].leaf THEN Len(h[n].sub) ELSE Len(h[n].sub) - 1
  /\ h[n].parent \in DOMAIN h \cup {Null}

\* The parent of a node is a node, or none.
LEMMA ShapedNode ==
  ASSUME NEW h, HeapOK(h), NEW g, NEW rt, NEW lv, Shape(h, g, rt, lv), Links(h, rt),
         NEW n \in DOMAIN h
  PROVE  TreeNode(h, n)
<1>1. OwnOK(h, g, n)
  BY DepthIs
<1>2. Len(h[n].key) \in Nat /\ Len(h[n].sub) \in Nat
  BY NodeFields
<1>3. Len(h[n].key) = IF h[n].leaf THEN Len(h[n].sub) ELSE Len(h[n].sub) - 1
  BY <1>1, <1>2 DEF OwnOK, LeafOK, InnerOK
<1>4. h[n].parent \in DOMAIN h \cup {Null}
  <2>1. CASE n = rt
    <3>1. n # Null
      BY NodeFields DEF Null
    <3> QED
      BY <2>1, <3>1 DEF Links
  <2>2. CASE n # rt
    <3>1. PICK p \in DOMAIN h : \E j \in 1 .. Len(h[p].sub) : Slot(h, p, j, n)
      BY <2>2 DEF Shape, NodeOK, HasParent
    <3>2. PICK j \in 1 .. Len(h[p].sub) : Slot(h, p, j, n)
      BY <3>1
    <3>3. h[n].parent = p
      BY <3>2, SlotUnique
    <3> QED
      BY <3>3
  <2> QED
    BY <2>1, <2>2
<1> QED
  BY <1>3, <1>4 DEF TreeNode

\* It is, in the middle of a call as well.
LEMMA TreeNodes ==
  ASSUME NEW h, NEW w, NEW rt, NEW lv, NEW ls, NEW g, TreeIs(h, w, rt, lv, ls, g),
         NEW n \in DOMAIN h
  PROVE  TreeNode(h, n)
<1> DEFINE v == Settled(h, w)
           rv == RootOf(h, w, rt)
           l == HeightOf(h, w, lv)
<1>1. /\ HeapOK(h) /\ WorkOK(h, w) /\ Shape(v, g, rv, l) /\ Links(v, rv)
      /\ w.op \in {"idle", "build", "remove"}
  BY DEF TreeIs, WorkOK
<1>2. ASSUME HeapOK(v), n \in DOMAIN v PROVE TreeNode(v, n)
  <2> HIDE DEF v, rv, l
  <2> QED
    BY <1>1, <1>2, ShapedNode
<1>3. Len(h[n].key) \in Nat /\ Len(h[n].sub) \in Nat
  BY <1>1, NodeFields
<1>4. CASE w.op = "idle"
  <2>1. v = h
    BY <1>4 DEF Settled
  <2> HIDE DEF v
  <2> QED
    BY <1>1, <1>2, <2>1
<1>5. CASE w.op = "remove"
  <2>1. /\ w.node \in DOMAIN h /\ ~ h[w.node].leaf
        /\ Len(h[w.node].sub) = Len(h[w.node].key) + 1
        /\ HeapOK(v) /\ DOMAIN v = DOMAIN h
        /\ \A m \in DOMAIN h \ {w.node} : Same(h, v, m)
        /\ \A m \in DOMAIN h : v[m].parent = h[m].parent
    BY <1>1, <1>5, RemoveIs DEF Removal
  <2> HIDE DEF v
  <2>2. TreeNode(v, n)
    BY <1>2, <2>1
  <2> QED
    BY <1>3, <2>1, <2>2, SMTT(60) DEF TreeNode, Same
<1>6. CASE w.op = "build" /\ UpperOf(h, w) # Null
  <2> DEFINE u == UpperOf(h, w)
             i == PlaceOf(h, w)
             a == w.left
             b == w.right
             s == w.key
  <2>1. /\ u \in DOMAIN h /\ ~ h[u].leaf /\ u # a /\ u # b
        /\ a \in DOMAIN h /\ b \in DOMAIN h /\ a # b /\ s \in Keys
        /\ Len(h[u].sub) = Len(h[u].key) + 1 /\ i \in 0 .. Len(h[u].key)
        /\ v = InsertedAt(h, u, i, s, a, b)
        /\ HeapOK(v) /\ DOMAIN v = DOMAIN h
        /\ \A m \in DOMAIN h \ {u} : Same(h, v, m)
    BY <1>1, <1>6, BuildIs
  <2>2. BuildOK(h, w)
    BY <1>1, <1>6 DEF WorkOK
  <2>3. h[a].parent \in {Null, u} /\ h[b].parent \in {Null, u}
    BY <2>2 DEF BuildOK
  <2> HIDE DEF v, u, i, a, b, s
  <2>4. \A m \in DOMAIN h \ {a, b} : v[m].parent = h[m].parent
    <3> DEFINE y == InsertedAt(h, u, i, s, a, b)
    <3>1. \A m \in DOMAIN h \ {a, b} : y[m].parent = h[m].parent
      BY <1>1, <2>1, InsertedIs
    <3> HIDE DEF y
    <3>2. v = y
      BY <2>1 DEF y
    <3> QED
      BY <3>1, <3>2
  <2>5. TreeNode(v, n)
    BY <1>2, <2>1
  <2> QED
    BY <1>3, <2>1, <2>3, <2>4, <2>5, SMTT(60) DEF TreeNode, Same
<1>7. CASE w.op = "build" /\ UpperOf(h, w) = Null
  <2> DEFINE a == w.left
             b == w.right
             r == FreeOf(h)
  <2>1. BuildOK(h, w) /\ v = RootedOf(h, w)
    BY <1>1, <1>7 DEF WorkOK, Settled
  <2>2. /\ a \in DOMAIN h /\ b \in DOMAIN h /\ a # b /\ w.key \in Keys
        /\ h[a].parent \in {Null, UpperOf(h, w)} /\ h[b].parent \in {Null, UpperOf(h, w)}
    BY <2>1 DEF BuildOK
  <2>3. h[a].parent = Null /\ h[b].parent = Null
    BY <1>7, <2>2
  <2>4. RootedBy(h, RootedOf(h, w), r, a, b, w.key)
    BY <1>1, <2>2, RootedIs
  <2> HIDE DEF v, a, b, r
  <2>5. /\ HeapOK(v) /\ DOMAIN v = DOMAIN h \cup {r}
        /\ \A m \in DOMAIN h : Same(h, v, m)
        /\ \A m \in DOMAIN h \ {a, b} : v[m].parent = h[m].parent
        /\ v[r].leaf = FALSE
    BY <2>1, <2>4 DEF RootedBy
  <2>6. TreeNode(v, n)
    BY <1>2, <2>5
  <2>7. ASSUME v[n].parent = r, n \notin {a, b} PROVE FALSE
    \* the children of the new root are a and b
    <3>1. v[r].sub[1] = a /\ v[r].sub[2] = b /\ Len(v[r].sub) = 2
      BY <2>1, <2>4 DEF RootedBy
    <3>2. r = rv /\ rv # Null /\ n # r
      <4>1. r = rv
        BY <1>7 DEF r, Tall, RootOf
      <4>2. r \in DOMAIN v
        BY <2>5
      <4>3. r # Null
        BY <2>5, <4>2, NodeFields DEF Null
      <4>4. v[r].parent = Null
        BY <2>1, <2>4 DEF RootedBy
      <4> QED
        BY <2>7, <4>1, <4>3, <4>4
    <3>3. PICK p \in DOMAIN v : \E j \in 1 .. Len(v[p].sub) : Slot(v, p, j, n)
      BY <1>1, <2>5, <3>2 DEF Shape, NodeOK, HasParent
    <3>4. PICK j \in 1 .. Len(v[p].sub) : Slot(v, p, j, n)
      BY <3>3
    <3>5. v[n].parent = p
      <4> HIDE DEF rv, l
      <4> QED
        BY <1>1, <2>5, <3>4, SlotUnique
    <3>6. Slot(v, r, j, n) /\ j \in 1 .. 2
      BY <2>7, <3>1, <3>4, <3>5
    <3> QED
      BY <2>7, <3>1, <3>6 DEF Slot
  <2> QED
    BY <1>3, <2>3, <2>5, <2>6, <2>7 DEF TreeNode, Same
<1> QED
  BY <1>1, <1>4, <1>5, <1>6, <1>7

\* level is a number and list an array: the actions never make them anything else.
IsArray(ls) == ls = [l \in 0 .. MaxLevel - 1 |-> ls[l]]
Plain == level \in Int /\ IsArray(list)

\* An array with one element set is an array.
LEMMA ArrayExcept ==
  ASSUME NEW ls, IsArray(ls), NEW l, NEW e
  PROVE  IsArray([ls EXCEPT ![l] = e])
<1>1. DOMAIN ls = 0 .. MaxLevel - 1
  BY DEF IsArray
<1>2. [ls EXCEPT ![l] = e] = [x \in DOMAIN ls |-> IF x = l THEN e ELSE ls[x]]
  BY <1>1 DEF IsArray
<1> QED
  BY <1>1, <1>2 DEF IsArray

\* Linking and unlinking leave an array of lists.
LEMMA LinksArePlain ==
  ASSUME IsArray(list)
  PROVE  /\ \A n, m : IsArray(LinkBefore(n, m)) /\ IsArray(LinkAfter(n, m))
         /\ \A n : IsArray(Unlinked(n))
BY ArrayExcept DEF LinkBefore, LinkAfter, Unlinked

\* Every step leaves level a number and list an array.
LEMMA PlainKept ==
  ASSUME Plain, [Next]_vars
  PROVE  Plain'
<1> DEFINE Kept == level' \in {level, level + 1, level - 1} /\ IsArray(list')
<1>1. SUFFICES Kept
  BY DEF Plain, IsArray
<1>2. level' = level /\ list' = list => Kept
  BY DEF Plain
<1>3. \A n, m : IsArray(LinkBefore(n, m)) /\ IsArray(LinkAfter(n, m)) /\ IsArray(Unlinked(n))
  BY LinksArePlain DEF Plain
<1>4. ASSUME NEW k, NEW d, Put(k, d) PROVE Kept
  <2>1. CASE PutFirst(k, d)
    BY <2>1, ArrayExcept DEF PutFirst, Plain
  <2>2. CASE PutExisting(k, d) \/ PutSimple(k, d)
    BY <1>2, <2>2 DEF PutExisting, PutSimple, treeVars
  <2>3. CASE PutSplit(k, d)
    <3>1. /\ level' = level
          /\ \E n, m : list' = LinkBefore(n, m) \/ list' = LinkAfter(n, m)
      BY <2>3, Zenon DEF PutSplit
    <3> QED
      BY <1>3, <3>1
  <2> QED
    BY <1>4, <2>1, <2>2, <2>3 DEF Put
<1>5. ASSUME NEW k, Delete(k) PROVE Kept
  <2>1. level' = level /\ (list' = list \/ \E n : list' = Unlinked(n))
    BY <1>5 DEF Delete, DeleteMissing, LeafSimpleRemove, LeafFromLeft, LeafFromRight, vars, treeVars
  <2> QED
    BY <1>2, <1>3, <2>1
<1>6. ASSUME ParentNodeBuild PROVE Kept
  <2>1. CASE NewRoot
    BY <2>1, ArrayExcept DEF NewRoot, Plain
  <2>2. CASE NonLeafSimpleInsert
    BY <1>2, <2>2 DEF NonLeafSimpleInsert
  <2>3. CASE NonLeafSplit
    <3>1. /\ level' = level
          /\ \E n, m : list' = LinkBefore(n, m) \/ list' = LinkAfter(n, m)
      BY <2>3, Zenon DEF NonLeafSplit
    <3> QED
      BY <1>3, <3>1
  <2> QED
    BY <1>6, <2>1, <2>2, <2>3 DEF ParentNodeBuild
<1>7. ASSUME NonLeafRemove PROVE Kept
  <2>1. level' \in {level, level - 1} /\ (list' = list \/ \E n : list' = Unlinked(n))
    BY <1>7 DEF NonLeafRemove, NonLeafSimpleRemove, NonLeafFromLeft, NonLeafFromRight
  <2> QED
    BY <1>3, <2>1, SMTT(60) DEF Plain
<1>8. CASE UNCHANGED vars
  BY <1>2, <1>8 DEF vars, treeVars
<1> QED
  BY <1>4, <1>5, <1>6, <1>7, <1>8 DEF Next

\* level is a number and list an array of BPLUS_MAX_LEVEL lists at every
\* step.
THEOREM TreeIsPlain == Spec => []Plain
<1>1. Init => Plain
  BY DEF Init, Plain, IsArray
<1>2. Plain /\ [Next]_vars => Plain'
  BY PlainKept
<1> QED
  BY <1>1, <1>2, PTL DEF Spec

\* The keys that are there are keys.
LEMMA MapKeys ==
  ASSUME NEW h, HeapOK(h), NEW c, MapIs(h, c)
  PROVE  DOMAIN c \subseteq Keys
<1> SUFFICES ASSUME NEW k \in DOMAIN c PROVE k \in Keys
  OBVIOUS
<1>1. Entry(h, k, c[k].first)
  BY DEF MapIs
<1>2. PICK n \in DOMAIN h : HasPair(h[n].key, h[n].sub, k, c[k].first)
  BY <1>1 DEF Entry, Has
<1>3. PICK i \in 1 .. Len(h[n].key) : h[n].key[i] = k
  BY <1>2 DEF HasPair
<1> QED
  BY <1>3, KeysAreInts

\* The types of the fields follow from the invariant.
LEMMA TypesFollow ==
  ASSUME TreeInvariant, level < MaxLevel, Plain
  PROVE  TypeOK
<1>1. PICK g : TreeIs(heap, work, root, level, list, g)
  BY DEF TreeInvariant, StateOK
<1>2. /\ HeapOK(heap) /\ root \in DOMAIN heap \cup {Null} /\ WorkOK(heap, work)
      /\ Chain(list, DOMAIN heap, g)
      /\ Shape(Settled(heap, work), g, RootOf(heap, work, root), HeightOf(heap, work, level))
  BY <1>1 DEF TreeIs
<1>3. ASSUME NEW n \in DOMAIN heap PROVE heap[n] \in Node
  <2>1. TreeNode(heap, n)
    BY <1>1, TreeNodes
  <2>2. /\ heap[n] = [leaf |-> heap[n].leaf, key |-> heap[n].key, sub |-> heap[n].sub,
                      parent |-> heap[n].parent, idx |-> heap[n].idx]
        /\ heap[n].leaf \in BOOLEAN /\ heap[n].key \in Seq(Keys) /\ heap[n].sub \in Seq(Item)
        /\ heap[n].idx \in Int
    BY <1>2, NodeFields
  <2> QED
    BY <2>1, <2>2 DEF TreeNode, Node, Item
<1>4. level \in 0 .. MaxLevel - 1
  <2> DEFINE rv == RootOf(heap, work, root)
             l == HeightOf(heap, work, level)
             v == Settled(heap, work)
  <2>1. l \in Nat /\ (rv # Null => rv \in DOMAIN v /\ g[rv].dep = l)
    BY <1>2 DEF Shape
  <2>2. CASE ~ Tall(heap, work)
    BY <2>1, <2>2, MaxLevelAssumption DEF HeightOf
  <2>3. CASE Tall(heap, work)
    <3> DEFINE z == FreeOf(heap)
    <3>1. BuildOK(heap, work) /\ v = RootedOf(heap, work)
      BY <1>2, <2>3 DEF WorkOK, Tall, Settled
    <3>2. /\ work.left \in DOMAIN heap /\ work.right \in DOMAIN heap
          /\ work.left # work.right /\ work.key \in Keys
      BY <3>1 DEF BuildOK
    <3>3. RootedBy(heap, RootedOf(heap, work), z, work.left, work.right, work.key)
      BY <1>2, <3>2, RootedIs
    <3>4. HeapOK(v) /\ z \in DOMAIN v /\ v[z].leaf = FALSE
      BY <3>1, <3>3 DEF RootedBy
    <3>5. rv = z /\ l = level + 1
      BY <2>3 DEF RootOf, HeightOf
    <3>6. Shape(v, g, z, l)
      BY <1>2, <3>5
    <3> HIDE DEF v, l, z
    <3>7. g[z].dep # 0 /\ z # Null
      BY <3>4, <3>6, DepthIs, NodeFields DEF Null
    <3> QED
      BY <2>1, <3>5, <3>7, MaxLevelAssumption DEF Plain
  <2> QED
    BY <2>2, <2>3
<1>5. list \in [0 .. MaxLevel - 1 -> Seq(DOMAIN heap)]
  BY <1>2 DEF Plain, IsArray, Chain
<1>6. work.op \in {"idle", "build", "remove"}
  BY <1>2 DEF WorkOK
<1>7. DOMAIN contents \subseteq Keys
  BY <1>2, MapKeys DEF TreeInvariant, StateOK
<1> QED
  BY <1>2, <1>3, <1>4, <1>5, <1>6, <1>7 DEF TypeOK

\* The bounds of the nodes follow from the invariant.
LEMMA BoundsFollow ==
  ASSUME TreeInvariant
  PROVE  FillBounds
<1>1. PICK g : TreeIs(heap, work, root, level, list, g)
  BY DEF TreeInvariant, StateOK
<1>2. HeapOK(heap) /\ Sizes(heap, RootOf(heap, work, root))
  BY <1>1 DEF TreeInvariant, StateOK, TreeIs
<1> SUFFICES ASSUME NEW n \in DOMAIN heap
             PROVE  LET capacity == IF heap[n].leaf THEN Entries ELSE Order
                        size == Len(heap[n].sub)
                    IN /\ size <= capacity
                       /\ Len(heap[n].key) = IF heap[n].leaf THEN size ELSE size - 1
                       /\ work = Idle => size >= IF n = root THEN (IF heap[n].leaf THEN 1 ELSE 2)
                                                             ELSE capacity \div 2
  BY DEF FillBounds
<1>3. TreeNode(heap, n)
  BY <1>1, TreeNodes
<1>4. Fits(heap, RootOf(heap, work, root), n)
  BY <1>2 DEF Sizes
<1>5. work = Idle => RootOf(heap, work, root) = root
  BY IdleIs
<1>6. Len(heap[n].sub) \in Nat
  BY <1>2, NodeFields
<1> QED
  BY <1>3, <1>4, <1>5, <1>6, OrderAssumption, EntriesAssumption DEF TreeNode, Fits

\* The assertions of the code follow from the invariant.
LEMMA AssertionsFollow ==
  ASSUME TreeInvariant
  PROVE  AssertionsHold
<1>1. PICK g : TreeIs(heap, work, root, level, list, g)
  BY DEF TreeInvariant, StateOK
<1>2. HeapOK(heap) /\ WorkOK(heap, work)
  BY <1>1 DEF TreeIs
<1>3. ASSUME work.op = "build", Upper # Null
      PROVE  KeyBinarySearch(heap[Upper].key, work.key) < 0
  <2> DEFINE w == work
             i == PlaceOf(heap, w)
  <2>1. Upper = UpperOf(heap, w)
    BY DEF Upper, UpperOf
  <2>2. w.op = "build" /\ UpperOf(heap, w) # Null /\ WorkOK(heap, w)
    BY <1>2, <1>3, <2>1
  <2> HIDE DEF w
  <2>3. /\ i \in 0 .. Len(heap[UpperOf(heap, w)].key)
        /\ KeyBinarySearch(heap[UpperOf(heap, w)].key, w.key) = - i - 1
    BY ONLY <1>2, <2>2, BuildIs
  <2> HIDE DEF i
  <2> QED
    BY <2>1, <2>3 DEF w
<1>4. ASSUME work.op = "remove"
      PROVE  /\ Len(heap[work.node].sub) >= 2
             /\ Len(heap[work.node].sub) = 2 => work.remove = 0
  <2>1. /\ work.node \in DOMAIN heap
        /\ Len(heap[work.node].sub) = Len(heap[work.node].key) + 1
        /\ work.remove \in 0 .. Len(heap[work.node].key) - 1
    BY <1>2, <1>4 DEF WorkOK, RemoveOK
  <2>2. Len(heap[work.node].key) \in Nat
    BY <1>2, <2>1, NodeFields
  <2> QED
    BY <2>1, <2>2
<1> QED
  BY <1>3, <1>4 DEF AssertionsHold

\* Node c, if it is one, is the next of a in the level of a, D being all nodes.
IsNext(D, g, a, c) ==
  /\ c # Null => c \in D /\ g[c].dep = g[a].dep /\ g[a].hi <= g[c].lo
  /\ \A m \in D : g[m].dep = g[a].dep /\ g[a].hi <= g[m].lo =>
                    c # Null /\ (m = c \/ g[c].hi <= g[m].lo)

\* NextOf is the right neighbour in the order of the intervals.
LEMMA NextIs ==
  ASSUME NEW D, NEW g, Chain(list, D, g), \A n \in D : Interval(g, n) /\ n # Null,
         NEW a \in D, g[a].dep \in DOMAIN list
  PROVE  IsNext(D, g, a, NextOf(a))
<1> DEFINE l == g[a].dep
           s == list[l]
           i == PlaceIn(s, a)
<1>1. LevelOf(a) = l /\ i \in 1 .. Len(s) /\ s[i] = a
  BY LevelIs
<1>2. Row(s, l, D, g)
  BY ChainRows
<1>3. Len(s) \in Nat /\ DOMAIN s = 1 .. Len(s) /\ \A e \in 1 .. Len(s) : s[e] \in D
  BY <1>2, RowIs
<1>4. NextOf(a) = IF i + 1 \in DOMAIN s THEN s[i + 1] ELSE Null
  BY <1>1 DEF Neighbour, NextOf
<1> HIDE DEF i, s
<1>5. ASSUME NextOf(a) # Null
      PROVE  NextOf(a) \in D /\ g[NextOf(a)].dep = l /\ g[a].hi <= g[NextOf(a)].lo
  <2>1. i + 1 \in 1 .. Len(s) /\ NextOf(a) = s[i + 1] /\ i < i + 1
    BY <1>1, <1>3, <1>4, <1>5
  <2>2. g[s[i]].hi <= g[s[i + 1]].lo /\ g[s[i + 1]].dep = l
    BY <1>1, <1>2, <2>1 DEF Row
  <2> QED
    BY <1>1, <1>3, <2>1, <2>2
<1>6. ASSUME NEW m \in D, g[m].dep = l, g[a].hi <= g[m].lo
      PROVE  NextOf(a) # Null /\ (m = NextOf(a) \/ g[NextOf(a)].hi <= g[m].lo)
  <2>1. PICK j \in 1 .. Len(s) : s[j] = m
    BY <1>2, <1>6 DEF Row
  <2>2. Interval(g, a) /\ Interval(g, m)
    OBVIOUS
  <2>3. j # i
    BY <1>1, <1>6, <2>1, <2>2 DEF Interval
  <2>4. ~ (j < i)
    <3>1. SUFFICES ASSUME j < i PROVE FALSE
      OBVIOUS
    <3>2. g[m].hi <= g[a].lo
      BY <1>1, <1>2, <2>1, <3>1 DEF Row
    <3> QED
      BY <1>6, <2>2, <3>2 DEF Interval
  <2>5. i + 1 \in 1 .. Len(s) /\ (j = i + 1 \/ i + 1 < j)
    BY <1>1, <1>3, <2>1, <2>3, <2>4
  <2>6. NextOf(a) = s[i + 1] /\ s[i + 1] \in D
    BY <1>3, <1>4, <2>5
  <2>7. i + 1 < j => g[s[i + 1]].hi <= g[s[j]].lo
    BY <1>2, <2>1, <2>5 DEF Row
  <2> QED
    BY <2>1, <2>5, <2>6, <2>7
<1> QED
  BY <1>5, <1>6 DEF IsNext

\* There is one right neighbour.
LEMMA NextUnique ==
  ASSUME NEW D, NEW g, \A n \in D : Interval(g, n) /\ n # Null, NEW a,
         NEW b, IsNext(D, g, a, b), NEW c, IsNext(D, g, a, c)
  PROVE  b = c
<1>1. b = Null <=> c = Null
  BY DEF IsNext
<1>2. CASE b # Null /\ c # Null
  <2>1. b \in D /\ c \in D /\ Interval(g, b) /\ Interval(g, c)
    BY <1>2 DEF IsNext
  <2>2. b = c \/ (g[c].hi <= g[b].lo /\ g[b].hi <= g[c].lo)
    BY <1>2, <2>1 DEF IsNext
  <2> QED
    BY <2>1, <2>2 DEF Interval
<1> QED
  BY <1>1, <1>2

\* A tree with no call pending, with its depths.
Upright(g) ==
  /\ HeapOK(heap) /\ Shape(heap, g, root, level) /\ Links(heap, root)
  /\ Chain(list, DOMAIN heap, g) /\ level < MaxLevel

\* What is known of a tree with no call pending.
LEMMA UprightIs ==
  ASSUME NEW g, Upright(g)
  PROVE  /\ level \in Nat /\ DOMAIN list = 0 .. MaxLevel - 1 /\ level \in DOMAIN list
         /\ \A n \in DOMAIN heap : /\ Interval(g, n) /\ n # Null
                                   /\ g[n].dep \in 0 .. level /\ g[n].dep \in DOMAIN list
                                   /\ heap[n].leaf <=> g[n].dep = 0
                                   /\ OwnOK(heap, g, n)
         /\ \A l \in DOMAIN list : /\ Row(list[l], l, DOMAIN heap, g)
                                   /\ Len(list[l]) \in Nat
                                   /\ DOMAIN list[l] = 1 .. Len(list[l])
                                   /\ \A i \in 1 .. Len(list[l]) : list[l][i] \in DOMAIN heap
                                   /\ \A i, j \in 1 .. Len(list[l]) :
                                        list[l][i] = list[l][j] => i = j
                                   /\ ToSet(list[l]) = {n \in DOMAIN heap : g[n].dep = l}
<1>1. /\ HeapOK(heap) /\ Shape(heap, g, root, level) /\ Chain(list, DOMAIN heap, g)
      /\ level < MaxLevel /\ MaxLevel \in Nat
  BY MaxLevelAssumption DEF Upright
<1>2. level \in Nat /\ DOMAIN list = 0 .. MaxLevel - 1 /\ level \in DOMAIN list
  BY <1>1 DEF Shape, Chain
<1>3. ASSUME NEW n \in DOMAIN heap
      PROVE  /\ Interval(g, n) /\ n # Null
             /\ g[n].dep \in 0 .. level /\ g[n].dep \in DOMAIN list
             /\ heap[n].leaf <=> g[n].dep = 0
             /\ OwnOK(heap, g, n)
  <2>1. n # Null
    BY <1>1, NodeFields DEF Null
  <2> QED
    BY <1>1, <1>2, <2>1, DepthIs
<1>4. ASSUME NEW l \in DOMAIN list
      PROVE  /\ Row(list[l], l, DOMAIN heap, g)
             /\ Len(list[l]) \in Nat /\ DOMAIN list[l] = 1 .. Len(list[l])
             /\ \A i \in 1 .. Len(list[l]) : list[l][i] \in DOMAIN heap
             /\ \A i, j \in 1 .. Len(list[l]) : list[l][i] = list[l][j] => i = j
             /\ ToSet(list[l]) = {n \in DOMAIN heap : g[n].dep = l}
  <2>1. Row(list[l], l, DOMAIN heap, g)
    BY <1>1, ChainRows
  <2>2. /\ Len(list[l]) \in Nat /\ DOMAIN list[l] = 1 .. Len(list[l])
        /\ \A i \in 1 .. Len(list[l]) : list[l][i] \in DOMAIN heap
        /\ \A i, j \in 1 .. Len(list[l]) : list[l][i] = list[l][j] => i = j
    BY <1>3, <2>1, RowIs
  <2>3. ToSet(list[l]) = {n \in DOMAIN heap : g[n].dep = l}
    <3> DEFINE s == list[l]
    <3>1. DOMAIN s = 1 .. Len(s) /\ \A i \in 1 .. Len(s) : s[i] \in DOMAIN heap
      BY <2>2
    <3>2. /\ \A i \in 1 .. Len(s) : g[s[i]].dep = l
          /\ \A n \in DOMAIN heap : g[n].dep = l => \E i \in 1 .. Len(s) : s[i] = n
      BY <2>1 DEF Row
    <3> HIDE DEF s
    <3>3. ToSet(s) = {n \in DOMAIN heap : g[n].dep = l}
      BY ONLY <3>1, <3>2 DEF ToSet
    <3> QED
      BY <3>3 DEF s
  <2> QED
    BY <2>1, <2>2, <2>3
<1> QED
  BY <1>2, <1>3, <1>4

\* The children of n stand a level below it, between its bounds, in order.
LEMMA KidsAre ==
  ASSUME NEW g, Upright(g), NEW n \in DOMAIN heap, ~ heap[n].leaf
  PROVE  /\ Len(heap[n].sub) \in Nat
         /\ \A j \in 1 .. Len(heap[n].sub) :
              LET m == heap[n].sub[j] IN
              /\ Slot(heap, n, j, m) /\ m \in DOMAIN heap /\ g[n].dep = g[m].dep + 1
              /\ heap[m].parent = n /\ heap[m].idx = j - 2
              /\ g[n].lo <= g[m].lo /\ g[m].hi <= g[n].hi
         /\ \A j \in 1 .. Len(heap[n].sub) :
              /\ j = 1 => g[heap[n].sub[j]].lo = g[n].lo
              /\ j = Len(heap[n].sub) => g[heap[n].sub[j]].hi = g[n].hi
         /\ \A i, j \in 1 .. Len(heap[n].sub) :
              i < j => g[heap[n].sub[i]].hi <= g[heap[n].sub[j]].lo
         /\ \A j \in 1 .. Len(heap[n].sub) - 1 : g[heap[n].sub[j]].hi = g[heap[n].sub[j + 1]].lo
<1> DEFINE sub == heap[n].sub
           B(i) == Bound(heap, g, n, i)
<1>1. HeapOK(heap) /\ Shape(heap, g, root, level) /\ Links(heap, root)
  BY DEF Upright
<1>2. Len(sub) \in Nat
  BY <1>1, NodeFields
<1>3. Interval(g, n) /\ InnerOK(heap, g, n)
  BY UprightIs DEF OwnOK
<1>4. \A i \in 0 .. Len(sub) : B(i) \in Int
  BY <1>1, <1>3, BoundIsInt
<1>5. \A i, j \in 0 .. Len(sub) : i < j => B(i) < B(j)
  BY <1>3 DEF InnerOK
<1>6. B(0) = g[n].lo /\ (Len(sub) > 0 => B(Len(sub)) = g[n].hi)
  BY <1>2 DEF Bound
<1>7. \A j \in 1 .. Len(sub) :
        /\ Slot(heap, n, j, sub[j]) /\ sub[j] \in DOMAIN heap /\ g[n].dep = g[sub[j]].dep + 1
        /\ g[sub[j]].lo = B(j - 1) /\ g[sub[j]].hi = B(j)
        /\ heap[sub[j]].parent = n /\ heap[sub[j]].idx = j - 2
  <2> SUFFICES ASSUME NEW j \in 1 .. Len(sub)
               PROVE  /\ Slot(heap, n, j, sub[j]) /\ sub[j] \in DOMAIN heap
                      /\ g[n].dep = g[sub[j]].dep + 1
                      /\ g[sub[j]].lo = B(j - 1) /\ g[sub[j]].hi = B(j)
                      /\ heap[sub[j]].parent = n /\ heap[sub[j]].idx = j - 2
    OBVIOUS
  <2>1. Slot(heap, n, j, sub[j])
    BY DEF Slot
  <2>2. heap[sub[j]].parent = n /\ heap[sub[j]].idx = j - 2
    BY <1>1, <2>1 DEF Links
  <2> QED
    BY <1>3, <2>1, <2>2 DEF InnerOK
<1> HIDE DEF B
<1>8. \A j \in 1 .. Len(sub) :
        /\ j - 1 \in 0 .. Len(sub) /\ j \in 0 .. Len(sub) /\ 0 \in 0 .. Len(sub)
        /\ Len(sub) \in 0 .. Len(sub) /\ Len(sub) > 0
        /\ (j - 1 = 0 \/ 0 < j - 1) /\ (j = Len(sub) \/ j < Len(sub))
  BY <1>2
<1>9. \A j \in 1 .. Len(sub) : g[n].lo <= g[sub[j]].lo /\ g[sub[j]].hi <= g[n].hi
  <2> SUFFICES ASSUME NEW j \in 1 .. Len(sub)
               PROVE  g[n].lo <= g[sub[j]].lo /\ g[sub[j]].hi <= g[n].hi
    OBVIOUS
  <2> DEFINE L == Len(sub)
             e == j - 1
  <2>1. /\ e \in 0 .. L /\ j \in 0 .. L /\ 0 \in 0 .. L /\ L \in 0 .. L /\ L > 0
        /\ (e = 0 \/ 0 < e) /\ (j = L \/ j < L)
    BY <1>8
  <2>2. /\ g[n].lo = B(0) /\ g[n].hi = B(L) /\ g[sub[j]].lo = B(e) /\ g[sub[j]].hi = B(j)
    BY <1>6, <1>7, <2>1
  <2> HIDE DEF L, e
  <2>3. (e = 0 \/ B(0) < B(e)) /\ (j = L \/ B(j) < B(L))
    BY <1>5, <2>1 DEF L
  <2>4. B(0) \in Int /\ B(L) \in Int /\ B(e) \in Int /\ B(j) \in Int
    BY <1>4, <2>1 DEF L
  <2> QED
    BY <2>2, <2>3, <2>4
<1>10. \A i, j \in 1 .. Len(sub) : i < j => g[sub[i]].hi <= g[sub[j]].lo
  <2> SUFFICES ASSUME NEW i \in 1 .. Len(sub), NEW j \in 1 .. Len(sub), i < j
               PROVE  g[sub[i]].hi <= g[sub[j]].lo
    OBVIOUS
  <2> DEFINE e == j - 1
  <2>1. e \in 0 .. Len(sub) /\ i \in 0 .. Len(sub) /\ (i = e \/ i < e)
    BY <1>2
  <2>2. g[sub[i]].hi = B(i) /\ g[sub[j]].lo = B(e)
    BY <1>7
  <2> HIDE DEF e
  <2>3. B(i) \in Int /\ B(e) \in Int /\ (i = e \/ B(i) < B(e))
    BY <1>4, <1>5, <2>1
  <2> QED
    BY <2>2, <2>3
<1>11. \A j \in 1 .. Len(sub) - 1 : g[sub[j]].hi = g[sub[j + 1]].lo
  <2> SUFFICES ASSUME NEW j \in 1 .. Len(sub) - 1
               PROVE  g[sub[j]].hi = g[sub[j + 1]].lo
    OBVIOUS
  <2> DEFINE e == j + 1
  <2>1. j \in 1 .. Len(sub) /\ e \in 1 .. Len(sub) /\ e - 1 = j
    BY <1>2
  <2>2. g[sub[j]].hi = B(j) /\ g[sub[e]].lo = B(e - 1)
    BY <1>7, <2>1
  <2> QED
    BY <2>1, <2>2
<1>12. \A j \in 1 .. Len(sub) : /\ j = 1 => g[sub[j]].lo = g[n].lo
                                /\ j = Len(sub) => g[sub[j]].hi = g[n].hi
  BY <1>6, <1>7, <1>8
<1> QED
  BY <1>2, <1>7, <1>9, <1>10, <1>11, <1>12

\* A node below the root is the child of a node one level up.
LEMMA ParentIs ==
  ASSUME NEW g, Upright(g), NEW x \in DOMAIN heap, g[x].dep # level
  PROVE  \E q \in DOMAIN heap : \E i \in 1 .. Len(heap[q].sub) :
           /\ heap[q].sub[i] = x /\ ~ heap[q].leaf /\ g[q].dep = g[x].dep + 1
           /\ g[q].lo <= g[x].lo /\ g[x].hi <= g[q].hi
<1>1. Shape(heap, g, root, level)
  BY DEF Upright
<1>2. x # root
  <2>1. x # Null
    BY UprightIs
  <2> QED
    BY <1>1, <2>1 DEF Shape
<1>3. PICK q \in DOMAIN heap : \E i \in 1 .. Len(heap[q].sub) : Slot(heap, q, i, x)
  BY <1>1, <1>2 DEF Shape, NodeOK, HasParent
<1>4. PICK i \in 1 .. Len(heap[q].sub) : Slot(heap, q, i, x)
  BY <1>3
<1>5. ~ heap[q].leaf /\ heap[q].sub[i] = x
  BY <1>4 DEF Slot
<1>6. g[q].dep = g[x].dep + 1 /\ g[q].lo <= g[x].lo /\ g[x].hi <= g[q].hi
  BY <1>5, KidsAre
<1> QED
  BY <1>5, <1>6

\* It is to the right of n if the child is.
LEMMA ParentAfter ==
  ASSUME NEW g, Upright(g), NEW n \in DOMAIN heap, NEW x \in DOMAIN heap,
         g[n].dep = g[x].dep + 1, g[n].hi <= g[x].lo
  PROVE  \E q \in DOMAIN heap : \E i \in 1 .. Len(heap[q].sub) :
           /\ heap[q].sub[i] = x /\ ~ heap[q].leaf /\ g[q].dep = g[n].dep
           /\ g[n].hi <= g[q].lo /\ g[q].lo <= g[x].lo
<1>1. /\ g[x].dep \in 0 .. level /\ g[n].dep \in 0 .. level /\ g[n].dep \in DOMAIN list
      /\ Interval(g, x) /\ Interval(g, n) /\ level \in Nat
      /\ \A m \in DOMAIN heap : Interval(g, m)
  BY UprightIs
<1>2. PICK q \in DOMAIN heap : \E i \in 1 .. Len(heap[q].sub) :
           /\ heap[q].sub[i] = x /\ ~ heap[q].leaf /\ g[q].dep = g[x].dep + 1
           /\ g[q].lo <= g[x].lo /\ g[x].hi <= g[q].hi
  BY <1>1, ParentIs
<1>3. PICK i \in 1 .. Len(heap[q].sub) : heap[q].sub[i] = x
  BY <1>2
<1>4. q # n
  BY <1>1, <1>2, SMTT(60) DEF Interval
<1>5. Interval(g, q)
  BY <1>1
<1> DEFINE D == DOMAIN heap
<1>6. Chain(list, D, g) /\ (\A m \in D : Interval(g, m)) /\ n \in D /\ q \in D
      /\ n # q /\ g[n].dep = g[q].dep /\ g[n].dep \in DOMAIN list
  BY <1>1, <1>2, <1>4 DEF Upright
<1> HIDE DEF D
<1>7. g[n].hi <= g[q].lo \/ g[q].hi <= g[n].lo
  BY ONLY <1>6, ChainOrder
<1>8. g[n].hi <= g[q].lo
  BY <1>1, <1>2, <1>5, <1>7, SMTT(60) DEF Interval
<1> QED
  BY <1>2, <1>3, <1>8

\* The next of a child: the next child, or the first of the next node, or none.
LEMMA NextOfKid ==
  ASSUME NEW g, Upright(g), NEW n \in DOMAIN heap, ~ heap[n].leaf,
         NEW j \in 1 .. Len(heap[n].sub), NEW x, x = heap[n].sub[j]
  PROVE  /\ j < Len(heap[n].sub) => NextOf(x) = heap[n].sub[j + 1]
         /\ j = Len(heap[n].sub) /\ NextOf(n) # Null => NextOf(x) = heap[NextOf(n)].sub[1]
         /\ j = Len(heap[n].sub) /\ NextOf(n) = Null => NextOf(x) = Null
<1> DEFINE D == DOMAIN heap
           s == heap[n].sub
           c == NextOf(n)
<1>1. Chain(list, D, g) /\ \A m \in D : Interval(g, m) /\ m # Null /\ g[m].dep \in DOMAIN list
  BY UprightIs DEF Upright
<1>2. /\ Len(s) \in Nat /\ x \in D /\ g[n].dep = g[x].dep + 1
      /\ j = Len(s) => g[x].hi = g[n].hi
  BY KidsAre
<1>3. ASSUME j < Len(s) PROVE NextOf(x) = s[j + 1]
  <2> DEFINE y == s[j + 1]
  <2>1. j \in 1 .. Len(s) - 1 /\ j + 1 \in 1 .. Len(s)
    BY <1>2, <1>3
  <2>2. g[x].hi = g[y].lo
    BY <2>1, KidsAre
  <2>3. y \in D /\ g[n].dep = g[y].dep + 1
    BY <2>1, KidsAre
  <2>4. /\ g[x].dep \in Int /\ g[y].dep \in Int
    BY <1>2, <2>3, UprightIs, SMTT(60)
  <2> HIDE DEF y, D, s
  <2>5. g[x].dep = g[y].dep /\ g[x].dep \in DOMAIN list
    BY <1>1, <1>2, <2>3, <2>4, SMTT(60)
  <2>6. NextOf(x) = y
    BY <1>1, <1>2, <2>2, <2>3, <2>5, NeighboursAre
  <2> QED
    BY <2>6 DEF y
<1>4. IsNext(D, g, n, c) /\ IsNext(D, g, x, NextOf(x))
  <2> HIDE DEF D
  <2>1. n \in D
    BY DEF D
  <2> QED
    BY <1>1, <1>2, <2>1, NextIs
<1>5. ASSUME j = Len(s), NEW y \in D, g[y].dep = g[x].dep, g[x].hi <= g[y].lo
      PROVE  \E q \in D : \E i \in 1 .. Len(heap[q].sub) :
               /\ heap[q].sub[i] = y /\ ~ heap[q].leaf /\ g[q].lo <= g[y].lo
               /\ c # Null /\ (q = c \/ g[c].hi <= g[q].lo)
  <2>1. g[n].dep = g[y].dep + 1 /\ g[n].hi <= g[y].lo
    BY <1>2, <1>5
  <2>2. PICK q \in D : \E i \in 1 .. Len(heap[q].sub) :
           /\ heap[q].sub[i] = y /\ ~ heap[q].leaf /\ g[q].dep = g[n].dep
           /\ g[n].hi <= g[q].lo /\ g[q].lo <= g[y].lo
    BY <1>5, <2>1, ParentAfter
  <2>3. c # Null /\ (q = c \/ g[c].hi <= g[q].lo)
    <3> HIDE DEF c, D
    <3> QED
      BY <1>4, <2>2 DEF IsNext
  <2> QED
    BY <2>2, <2>3
<1>6. ASSUME j = Len(s), c # Null PROVE NextOf(x) = heap[c].sub[1]
  <2> DEFINE b == heap[c].sub[1]
  <2>1. c \in D /\ g[c].dep = g[n].dep /\ g[n].hi <= g[c].lo
    BY <1>4, <1>6 DEF IsNext
  <2>2. ~ heap[c].leaf
    BY <2>1, UprightIs
  <2>3. Len(heap[c].sub) \in Nat /\ 1 \in 1 .. Len(heap[c].sub)
    <3>1. HeapOK(heap) /\ Len(heap[c].sub) = Len(heap[c].key) + 1
      BY <2>1, <2>2, UprightIs DEF Upright, OwnOK, InnerOK
    <3>2. Len(heap[c].key) \in Nat
      BY <2>1, <3>1, NodeFields
    <3> QED
      BY <3>1, <3>2
  <2>4. /\ b \in D /\ g[c].dep = g[b].dep + 1 /\ g[b].lo = g[c].lo /\ g[b].hi <= g[c].hi
    <3> HIDE DEF c
    <3>1. \A e \in 1 .. Len(heap[c].sub) :
             /\ heap[c].sub[e] \in D /\ g[c].dep = g[heap[c].sub[e]].dep + 1
             /\ g[heap[c].sub[e]].hi <= g[c].hi
             /\ e = 1 => g[heap[c].sub[e]].lo = g[c].lo
      BY <2>1, <2>2, KidsAre
    <3> QED
      BY ONLY <2>3, <3>1
  <2>5. g[b].dep \in Int /\ g[x].dep \in Int
    BY <1>2, <2>4, UprightIs, SMTT(60)
  <2>6. g[b].dep = g[x].dep /\ g[x].hi <= g[b].lo
    BY <1>2, <1>6, <2>1, <2>4, <2>5
  <2>7. ASSUME NEW y \in D, g[y].dep = g[x].dep, g[x].hi <= g[y].lo
        PROVE  y = b \/ g[b].hi <= g[y].lo
    <3>1. PICK q \in D : \E i \in 1 .. Len(heap[q].sub) :
               /\ heap[q].sub[i] = y /\ ~ heap[q].leaf /\ g[q].lo <= g[y].lo
               /\ c # Null /\ (q = c \/ g[c].hi <= g[q].lo)
      BY <1>5, <1>6, <2>7
    <3>2. PICK i \in 1 .. Len(heap[q].sub) : heap[q].sub[i] = y
      BY <3>1
    <3>3. CASE q = c
      <4>1. i = 1 \/ 1 < i
        OBVIOUS
      <4>2. 1 < i => g[b].hi <= g[y].lo
        BY <2>1, <2>2, <2>3, <3>2, <3>3, KidsAre
      <4> QED
        BY <3>2, <3>3, <4>1, <4>2
    <3>4. CASE g[c].hi <= g[q].lo
      <4>1. Interval(g, b) /\ Interval(g, c) /\ Interval(g, q) /\ Interval(g, y)
        BY <1>1, <2>1, <2>4
      <4> QED
        BY <2>4, <3>1, <3>4, <4>1, SMTT(60) DEF Interval
    <3> QED
      BY <3>1, <3>3, <3>4
  <2>8. b # Null
    BY <1>1, <2>4
  <2> HIDE DEF b, D, c
  <2>9. IsNext(D, g, x, b)
    BY <2>4, <2>6, <2>7, <2>8 DEF IsNext
  <2>10. NextOf(x) = b
    BY ONLY <1>1, <1>4, <2>9, NextUnique
  <2> QED
    BY <2>10 DEF b
<1>7. ASSUME j = Len(s), c = Null PROVE NextOf(x) = Null
  <2> HIDE DEF D, c
  <2>1. IsNext(D, g, x, Null)
    BY <1>5, <1>7 DEF IsNext
  <2> QED
    BY ONLY <1>1, <1>4, <2>1, NextUnique
<1> QED
  BY <1>3, <1>6, <1>7

\* The agreement of the links follows from the invariant.
LEMMA LinksFollow ==
  ASSUME TreeInvariant, level < MaxLevel
  PROVE  LinksAgree
<1> SUFFICES ASSUME work = Idle PROVE LinksAgree
  BY DEF LinksAgree
<1>1. PICK g : TreeIs(heap, Idle, root, level, list, g)
  BY IdleState DEF TreeInvariant
<1>2. Upright(g)
  BY <1>1, IdleTree DEF Upright
<1>3. /\ level \in Nat /\ DOMAIN list = 0 .. MaxLevel - 1 /\ level \in DOMAIN list
      /\ MaxLevel \in Nat /\ HeapOK(heap) /\ Shape(heap, g, root, level) /\ Links(heap, root)
  BY <1>2, UprightIs, MaxLevelAssumption DEF Upright
<1>4. \A n \in DOMAIN heap : /\ Interval(g, n) /\ n # Null
                             /\ g[n].dep \in 0 .. level /\ g[n].dep \in DOMAIN list
                             /\ heap[n].leaf <=> g[n].dep = 0
  BY <1>2, UprightIs
<1>5. \A l \in DOMAIN list : /\ list[l] \in Seq(DOMAIN heap)
                             /\ Len(list[l]) \in Nat
                             /\ DOMAIN list[l] = 1 .. Len(list[l])
                             /\ \A i \in 1 .. Len(list[l]) : list[l][i] \in DOMAIN heap
                             /\ \A i, j \in 1 .. Len(list[l]) : list[l][i] = list[l][j] => i = j
                             /\ ToSet(list[l]) = {n \in DOMAIN heap : g[n].dep = l}
                             /\ \A i \in 1 .. Len(list[l]) : g[list[l][i]].dep = l
                             /\ \A n \in DOMAIN heap : g[n].dep = l =>
                                  \E i \in 1 .. Len(list[l]) : list[l][i] = n
  BY <1>2, UprightIs DEF Row
<1>6. ASSUME NEW l \in 0 .. MaxLevel - 1, l > level PROVE list[l] = <<>>
  <2>1. ~ (1 \in 1 .. Len(list[l]))
    BY <1>3, <1>4, <1>5, <1>6
  <2>2. Len(list[l]) = 0
    BY <1>3, <1>5, <2>1
  <2> QED
    BY <1>3, <1>5, <2>2, EmptySeq
<1>7. list[level] = IF root = Null THEN <<>> ELSE <<root>>
  <2> DEFINE s == list[level]
  <2>1. /\ s \in Seq(DOMAIN heap) /\ Len(s) \in Nat
        /\ \A i \in 1 .. Len(s) : s[i] \in DOMAIN heap /\ g[s[i]].dep = level
        /\ \A i, j \in 1 .. Len(s) : s[i] = s[j] => i = j
        /\ \A n \in DOMAIN heap : g[n].dep = level => \E i \in 1 .. Len(s) : s[i] = n
    BY <1>3, <1>5
  <2> HIDE DEF s
  <2>2. \A n \in DOMAIN heap : g[n].dep = level => n = root
    <3> SUFFICES ASSUME NEW n \in DOMAIN heap, g[n].dep = level, n # root PROVE FALSE
      OBVIOUS
    <3>1. PICK p \in DOMAIN heap : \E i \in 1 .. Len(heap[p].sub) : Slot(heap, p, i, n)
      BY <1>3 DEF Shape, NodeOK, HasParent
    <3>2. PICK i \in 1 .. Len(heap[p].sub) : Slot(heap, p, i, n)
      BY <3>1
    <3>3. g[p].dep = level + 1
      BY <1>3, <3>2, SlotIs
    <3> QED
      BY <1>3, <1>4, <3>3
  <2>3. CASE root = Null
    <3>1. DOMAIN heap = {}
      BY <1>3, <2>3 DEF Shape
    <3>2. ~ (1 \in 1 .. Len(s))
      BY <2>1, <3>1
    <3>3. Len(s) = 0
      BY <2>1, <3>2
    <3> QED
      BY <2>1, <2>3, <3>3, EmptySeq DEF s
  <2>4. CASE root # Null
    <3>1. root \in DOMAIN heap /\ g[root].dep = level
      BY <1>3, <2>4 DEF Shape
    <3>2. PICK i \in 1 .. Len(s) : s[i] = root
      BY <2>1, <3>1
    <3>3. \A j \in 1 .. Len(s) : j = i
      BY <2>1, <2>2, <3>2
    <3>4. 1 \in 1 .. Len(s) /\ Len(s) \in 1 .. Len(s)
      BY <2>1
    <3>5. Len(s) = 1 /\ s[1] = root
      BY <2>1, <3>2, <3>3, <3>4
    <3>6. s = <<root>>
      BY <2>1, <3>1, <3>5
    <3> QED
      BY <2>4, <3>6 DEF s
  <2> QED
    BY <2>3, <2>4
<1>8. root # Null => heap[root].parent = Null
  BY <1>3 DEF Links
<1>9. \A l \in 0 .. level : IsInjective(list[l])
  <2>1. \A l \in 0 .. level : l \in DOMAIN list
    BY <1>2, <1>3 DEF Upright
  <2> QED
    BY <1>5, <2>1 DEF IsInjective
<1>10. ASSUME NEW l \in 1 .. level
       PROVE  /\ ToSet(list[l - 1]) = UNION {ToSet(heap[n].sub) : n \in ToSet(list[l])}
              /\ \A n \in ToSet(list[l]) : \A j \in DOMAIN heap[n].sub :
                   NextOf(heap[n].sub[j]) =
                     CASE j < Len(heap[n].sub) -> heap[n].sub[j + 1]
                       [] j = Len(heap[n].sub) /\ NextOf(n) # Null -> heap[NextOf(n)].sub[1]
                       [] OTHER -> Null
  <2>1. l \in DOMAIN list /\ l - 1 \in DOMAIN list /\ l - 1 # level /\ l # 0
    BY <1>2, <1>3 DEF Upright
  <2> DEFINE e == l - 1
  <2>2. /\ ToSet(list[l]) = {n \in DOMAIN heap : g[n].dep = l}
        /\ ToSet(list[e]) = {n \in DOMAIN heap : g[n].dep = e}
    BY <1>5, <2>1
  <2>3. ASSUME NEW n \in DOMAIN heap, g[n].dep = l
        PROVE  /\ ~ heap[n].leaf /\ Len(heap[n].sub) \in Nat
               /\ DOMAIN heap[n].sub = 1 .. Len(heap[n].sub)
    <3>1. heap[n].sub \in Seq(Item)
      BY <1>3, NodeFields
    <3> QED
      BY <1>4, <2>1, <2>3, <3>1, LenProperties
  <2>4. ASSUME NEW x \in DOMAIN heap, g[x].dep = e
        PROVE  \E n \in DOMAIN heap : g[n].dep = l /\ x \in ToSet(heap[n].sub)
    <3>1. g[x].dep # level /\ l = g[x].dep + 1
      BY <2>1, <2>4
    <3>2. PICK q \in DOMAIN heap : \E i \in 1 .. Len(heap[q].sub) :
             heap[q].sub[i] = x /\ g[q].dep = g[x].dep + 1
      BY <1>2, <3>1, ParentIs
    <3>3. DOMAIN heap[q].sub = 1 .. Len(heap[q].sub)
      BY <2>3, <3>1, <3>2
    <3> QED
      BY <3>1, <3>2, <3>3 DEF ToSet
  <2>5. ASSUME NEW n \in DOMAIN heap, g[n].dep = l, NEW j \in DOMAIN heap[n].sub
        PROVE  heap[n].sub[j] \in DOMAIN heap /\ g[heap[n].sub[j]].dep = e
    <3>1. j \in 1 .. Len(heap[n].sub) /\ ~ heap[n].leaf
      BY <2>3, <2>5
    <3>2. heap[n].sub[j] \in DOMAIN heap /\ l = g[heap[n].sub[j]].dep + 1
      BY <1>2, <2>5, <3>1, KidsAre
    <3>3. g[heap[n].sub[j]].dep \in Int
      BY <1>4, <3>2
    <3> QED
      BY <3>2, <3>3
  <2> HIDE DEF e
  <2>6. ToSet(list[e]) = UNION {ToSet(heap[n].sub) : n \in ToSet(list[l])}
    BY <2>2, <2>4, <2>5 DEF ToSet
  <2>7. ASSUME NEW n \in ToSet(list[l]), NEW j \in DOMAIN heap[n].sub
        PROVE  NextOf(heap[n].sub[j]) =
                 CASE j < Len(heap[n].sub) -> heap[n].sub[j + 1]
                   [] j = Len(heap[n].sub) /\ NextOf(n) # Null -> heap[NextOf(n)].sub[1]
                   [] OTHER -> Null
    <3>1. /\ n \in DOMAIN heap /\ ~ heap[n].leaf /\ j \in 1 .. Len(heap[n].sub)
          /\ Len(heap[n].sub) \in Nat
      BY <2>2, <2>3
    <3> DEFINE x == heap[n].sub[j]
    <3> HIDE DEF x
    <3>2. /\ j < Len(heap[n].sub) => NextOf(x) = heap[n].sub[j + 1]
          /\ j = Len(heap[n].sub) /\ NextOf(n) # Null => NextOf(x) = heap[NextOf(n)].sub[1]
          /\ j = Len(heap[n].sub) /\ NextOf(n) = Null => NextOf(x) = Null
      BY <1>2, <3>1, NextOfKid DEF x
    <3>3. j < Len(heap[n].sub) \/ j = Len(heap[n].sub)
      BY <3>1
    <3> QED
      BY <3>1, <3>2, <3>3 DEF x
  <2> QED
    BY <2>6, <2>7 DEF e
<1>11. ASSUME NEW n \in DOMAIN heap
       PROVE  /\ \E l \in 0 .. level : Contains(list[l], n) /\ (heap[n].leaf <=> l = 0)
              /\ ~ heap[n].leaf =>
                   \A j \in DOMAIN heap[n].sub :
                     heap[heap[n].sub[j]].parent = n /\ heap[heap[n].sub[j]].idx = j - 2
  <2>1. g[n].dep \in 0 .. level /\ (heap[n].leaf <=> g[n].dep = 0)
    BY <1>4
  <2>2. Contains(list[g[n].dep], n)
    BY <1>4, <1>5 DEF Contains
  <2>3. DOMAIN heap[n].sub = 1 .. Len(heap[n].sub)
    <3>1. heap[n].sub \in Seq(Item)
      BY <1>3, NodeFields
    <3> QED
      BY <3>1, LenProperties
  <2>4. ~ heap[n].leaf => \A j \in 1 .. Len(heap[n].sub) :
                     heap[heap[n].sub[j]].parent = n /\ heap[heap[n].sub[j]].idx = j - 2
    BY <1>2, KidsAre
  <2> QED
    BY <2>1, <2>2, <2>3, <2>4
<1> QED
  BY <1>6, <1>7, <1>8, <1>9, <1>10, <1>11 DEF LinksAgree

\* The leaves from left to right, and their entries.
LEMMA LeavesAre ==
  ASSUME NEW g, Upright(g), Sizes(heap, root), MapIs(heap, contents)
  PROVE  /\ 0 \in DOMAIN list /\ Len(list[0]) \in Nat /\ DOMAIN list[0] = 1 .. Len(list[0])
         /\ \A i \in 1 .. Len(list[0]) :
              LET x == list[0][i] IN
              /\ x \in DOMAIN heap /\ heap[x].leaf /\ Interval(g, x)
              /\ Run(heap[x].key, heap[x].sub, g[x].lo, g[x].hi)
              /\ Len(heap[x].key) \in Nat /\ 1 <= Len(heap[x].key)
              /\ Len(heap[x].key) <= Entries
              /\ \A j \in 1 .. Len(heap[x].key) :
                   /\ heap[x].key[j] \in Keys /\ heap[x].key[j] \in DOMAIN contents
                   /\ heap[x].sub[j] = contents[heap[x].key[j]].first
         /\ \A i, j \in 1 .. Len(list[0]) : i < j => g[list[0][i]].hi <= g[list[0][j]].lo
         /\ \A k \in DOMAIN contents : \E i \in 1 .. Len(list[0]) :
              \E j \in 1 .. Len(heap[list[0][i]].key) : heap[list[0][i]].key[j] = k
<1>1. /\ 0 \in DOMAIN list
      /\ \A n \in DOMAIN heap : /\ Interval(g, n) /\ OwnOK(heap, g, n)
                                /\ heap[n].leaf <=> g[n].dep = 0
  BY UprightIs, MaxLevelAssumption
<1> DEFINE s == list[0]
<1>2. /\ Row(s, 0, DOMAIN heap, g) /\ Len(s) \in Nat /\ DOMAIN s = 1 .. Len(s)
      /\ \A i \in 1 .. Len(s) : s[i] \in DOMAIN heap
  BY <1>1, UprightIs
<1> HIDE DEF s
<1>3. HeapOK(heap)
  BY DEF Upright
<1>4. ASSUME NEW i \in 1 .. Len(s), NEW x, x = s[i]
      PROVE  /\ x \in DOMAIN heap /\ heap[x].leaf /\ Interval(g, x)
             /\ Run(heap[x].key, heap[x].sub, g[x].lo, g[x].hi)
             /\ Len(heap[x].key) \in Nat /\ 1 <= Len(heap[x].key)
             /\ Len(heap[x].key) <= Entries
             /\ \A j \in 1 .. Len(heap[x].key) :
                   /\ heap[x].key[j] \in Keys /\ heap[x].key[j] \in DOMAIN contents
                   /\ heap[x].sub[j] = contents[heap[x].key[j]].first
  <2>1. x \in DOMAIN heap /\ g[x].dep = 0
    BY <1>2, <1>4 DEF Row
  <2>2. heap[x].leaf /\ Interval(g, x) /\ LeafOK(heap, g, x)
    BY <1>1, <2>1 DEF OwnOK
  <2>3. Run(heap[x].key, heap[x].sub, g[x].lo, g[x].hi)
    BY <1>3, <2>1, <2>2, LeafRun
  <2>4. Fits(heap, root, x) /\ Len(heap[x].sub) = Len(heap[x].key)
    BY <2>1, <2>2 DEF Sizes, LeafOK
  <2>5. /\ Len(heap[x].key) \in Nat /\ 1 <= Len(heap[x].key) /\ Len(heap[x].key) <= Entries
    BY <1>3, <2>1, <2>2, <2>4, NodeFields DEF Fits
  <2>6. ASSUME NEW j \in 1 .. Len(heap[x].key)
        PROVE  /\ heap[x].key[j] \in Keys /\ heap[x].key[j] \in DOMAIN contents
               /\ heap[x].sub[j] = contents[heap[x].key[j]].first
    <3>1. Entry(heap, heap[x].key[j], heap[x].sub[j])
      BY <2>1, <2>2 DEF Entry, Has, HasPair
    <3>2. heap[x].key[j] \in Keys
      BY <1>3, <2>1, KeysAreInts
    <3> QED
      BY <3>1, <3>2 DEF MapIs
  <2> QED
    BY <2>1, <2>2, <2>3, <2>5, <2>6
<1>5. \A i, j \in 1 .. Len(s) : i < j => g[s[i]].hi <= g[s[j]].lo
  BY <1>2 DEF Row
<1>6. ASSUME NEW k \in DOMAIN contents
      PROVE  \E i \in 1 .. Len(s) : \E j \in 1 .. Len(heap[s[i]].key) : heap[s[i]].key[j] = k
  <2>1. Entry(heap, k, contents[k].first)
    BY DEF MapIs
  <2>2. PICK n \in DOMAIN heap : Has(heap, n, k, contents[k].first)
    BY <2>1 DEF Entry
  <2>3. heap[n].leaf /\ \E j \in 1 .. Len(heap[n].key) : heap[n].key[j] = k
    BY <2>2 DEF Has, HasPair
  <2>4. \E i \in 1 .. Len(s) : s[i] = n
    BY <1>1, <1>2, <2>3, SMTT(60) DEF Row
  <2> QED
    BY <2>3, <2>4
<1> QED
  BY <1>1, <1>2, <1>4, <1>5, <1>6 DEF s

\* The agreement of the leaves with the map follows from the invariant.
LEMMA MapFollows ==
  ASSUME TreeInvariant, level < MaxLevel
  PROVE  LeavesHoldTheMap
<1> SUFFICES ASSUME work = Idle PROVE LeavesHoldTheMap
  BY Zenon DEF LeavesHoldTheMap
<1>1. PICK g : TreeIs(heap, Idle, root, level, list, g)
  BY IdleState DEF TreeInvariant
<1>2. Upright(g) /\ Sizes(heap, root) /\ MapIs(heap, contents)
  BY <1>1, IdleTree, IdleState, SMTT(60) DEF Upright, TreeInvariant
<1> DEFINE s == list[0]
<1>3. /\ Len(s) \in Nat /\ DOMAIN s = 1 .. Len(s)
      /\ \A i \in 1 .. Len(s) :
           /\ Interval(g, s[i])
           /\ Run(heap[s[i]].key, heap[s[i]].sub, g[s[i]].lo, g[s[i]].hi)
           /\ Len(heap[s[i]].key) \in Nat /\ 1 <= Len(heap[s[i]].key)
           /\ \A j \in 1 .. Len(heap[s[i]].key) :
                /\ heap[s[i]].key[j] \in DOMAIN contents
                /\ heap[s[i]].sub[j] = contents[heap[s[i]].key[j]].first
      /\ \A i, j \in 1 .. Len(s) : i < j => g[s[i]].hi <= g[s[j]].lo
      /\ \A k \in DOMAIN contents : \E i \in 1 .. Len(s) :
           \E j \in 1 .. Len(heap[s[i]].key) : heap[s[i]].key[j] = k
  BY <1>2, LeavesAre
<1> HIDE DEF s
<1> DEFINE leaf == [i \in DOMAIN s |-> heap[s[i]]]
<1>4. /\ DOMAIN leaf = 1 .. Len(s)
      /\ \A i \in 1 .. Len(s) : /\ leaf[i] = heap[s[i]] /\ leaf[i].key \in Seq(Keys)
                                /\ DOMAIN leaf[i].key = 1 .. Len(leaf[i].key)
                                /\ Len(leaf[i].key) \in Nat /\ 1 <= Len(leaf[i].key)
                                /\ leaf[i].key[1] \in Int
                                /\ leaf[i].key[Len(leaf[i].key)] \in Int
                                /\ Last(leaf[i].key) = leaf[i].key[Len(leaf[i].key)]
                                /\ Head(leaf[i].key) = leaf[i].key[1]
  <2>1. DOMAIN leaf = 1 .. Len(s) /\ \A i \in 1 .. Len(s) : leaf[i] = heap[s[i]]
    BY <1>3
  <2> HIDE DEF leaf
  <2>2. ASSUME NEW i \in 1 .. Len(s)
        PROVE  /\ leaf[i].key \in Seq(Keys) /\ DOMAIN leaf[i].key = 1 .. Len(leaf[i].key)
               /\ Len(leaf[i].key) \in Nat /\ 1 <= Len(leaf[i].key)
               /\ leaf[i].key[1] \in Int
               /\ leaf[i].key[Len(leaf[i].key)] \in Int
               /\ Last(leaf[i].key) = leaf[i].key[Len(leaf[i].key)]
               /\ Head(leaf[i].key) = leaf[i].key[1]
    <3> DEFINE key == leaf[i].key
    <3>1. key \in Seq(Keys) /\ Len(key) \in Nat /\ 1 <= Len(key)
      BY <1>3, <2>1 DEF Run
    <3> HIDE DEF key
    <3>2. /\ DOMAIN key = 1 .. Len(key) /\ Last(key) = key[Len(key)] /\ Head(key) = key[1]
      BY <3>1, LenProperties, EndsAre
    <3>3. key[1] \in Int /\ key[Len(key)] \in Int
      BY <3>1, KeyIsInt
    <3> QED
      BY <3>1, <3>2, <3>3 DEF key
  <2> QED
    BY <2>1, <2>2
<1>5. \A i \in 1 .. Len(s) :
        /\ Run(leaf[i].key, leaf[i].sub, g[s[i]].lo, g[s[i]].hi)
        /\ \A j \in 1 .. Len(leaf[i].key) :
                /\ leaf[i].key[j] \in DOMAIN contents
                /\ leaf[i].sub[j] = contents[leaf[i].key[j]].first
  BY <1>3, <1>4
<1>6. \A k \in DOMAIN contents : \E i \in 1 .. Len(s) :
        \E j \in 1 .. Len(leaf[i].key) : leaf[i].key[j] = k
  BY <1>3, <1>4
<1> HIDE DEF leaf
<1>7. \A i \in DOMAIN leaf : \A j \in 1 .. Len(leaf[i].key) - 1 :
         leaf[i].key[j] < leaf[i].key[j + 1]
  <2> SUFFICES ASSUME NEW i \in 1 .. Len(s), NEW j \in 1 .. Len(leaf[i].key) - 1
               PROVE  leaf[i].key[j] < leaf[i].key[j + 1]
    BY <1>4
  <2>1. Ascending(leaf[i].key) /\ Len(leaf[i].key) \in Nat
    BY <1>4, <1>5 DEF Run
  <2>2. j \in 1 .. Len(leaf[i].key) /\ j + 1 \in 1 .. Len(leaf[i].key) /\ j < j + 1
    BY <2>1
  <2> QED
    BY <2>1, <2>2 DEF Ascending
<1>8. \A i \in 1 .. Len(s) - 1 : Last(leaf[i].key) < Head(leaf[i + 1].key)
  <2> SUFFICES ASSUME NEW i \in 1 .. Len(s) - 1
               PROVE  Last(leaf[i].key) < Head(leaf[i + 1].key)
    OBVIOUS
  <2> DEFINE e == i + 1
  <2>1. i \in 1 .. Len(s) /\ e \in 1 .. Len(s) /\ i < e
    BY <1>3
  <2> HIDE DEF e
  <2> DEFINE a == s[i]
             b == s[e]
             l == Len(leaf[i].key)
  <2>2. g[a].hi <= g[b].lo /\ Interval(g, a) /\ Interval(g, b)
    BY <1>3, <2>1
  <2>3. l \in 1 .. l /\ 1 \in 1 .. Len(leaf[e].key)
    BY <1>4, <2>1
  <2>4. leaf[i].key[l] < g[a].hi /\ g[b].lo <= leaf[e].key[1]
    BY <1>5, <2>1, <2>3 DEF Run
  <2>5. leaf[i].key[l] \in Int /\ leaf[e].key[1] \in Int
    BY <1>4, <2>1
  <2> HIDE DEF a, b, l
  <2>6. leaf[i].key[l] < leaf[e].key[1]
    BY <2>2, <2>4, <2>5 DEF Interval
  <2> QED
    BY <1>4, <2>1, <2>6 DEF e, l
<1>9. UNION {ToSet(leaf[i].key) : i \in DOMAIN leaf} = DOMAIN contents
  <2>1. \A i \in DOMAIN leaf : \A k : k \in ToSet(leaf[i].key)
                                        <=> \E j \in 1 .. Len(leaf[i].key) : leaf[i].key[j] = k
    BY <1>4 DEF ToSet
  <2>0. /\ DOMAIN leaf = 1 .. Len(s)
        /\ \A i \in 1 .. Len(s) : \A j \in 1 .. Len(leaf[i].key) : leaf[i].key[j] \in DOMAIN contents
    BY <1>4, <1>5
  <2>2. \A i \in DOMAIN leaf : \A k \in ToSet(leaf[i].key) : k \in DOMAIN contents
    <3> SUFFICES ASSUME NEW i \in DOMAIN leaf, NEW k \in ToSet(leaf[i].key)
                 PROVE  k \in DOMAIN contents
      OBVIOUS
    <3>1. PICK j \in 1 .. Len(leaf[i].key) : leaf[i].key[j] = k
      BY <2>1
    <3> QED
      BY <2>0, <3>1
  <2>3. \A k \in DOMAIN contents : \E i \in DOMAIN leaf : k \in ToSet(leaf[i].key)
    BY ONLY <1>6, <2>0, <2>1
  <2> QED
    BY <2>2, <2>3
<1>10. \A i \in DOMAIN leaf : \A j \in DOMAIN leaf[i].key :
         leaf[i].sub[j] = contents[leaf[i].key[j]].first
  BY <1>4, <1>5, ZenonT(60)
<1> QED
  BY <1>7, <1>8, <1>9, <1>10, ZenonT(60) DEF LeavesHoldTheMap, leaf, s

\* What bplus_tree_get answers follows from the invariant.
LEMMA GetFollows ==
  ASSUME TreeInvariant, level < MaxLevel
  PROVE  GetFindsTheEntry
<1> SUFFICES ASSUME work = Idle, NEW k \in Keys
             PROVE  Get(k) = IF k \in DOMAIN contents THEN contents[k].first ELSE -1
  BY DEF GetFindsTheEntry
<1>1. PICK g : TreeIs(heap, Idle, root, level, list, g)
  BY IdleState DEF TreeInvariant
<1>2. MapIs(heap, contents)
  BY DEF TreeInvariant, StateOK
<1>3. CASE root = Null
  <2>1. DOMAIN heap = {}
    BY <1>1, <1>3, IdleTree DEF Shape
  <2>2. k \notin DOMAIN contents
    BY <1>2, <2>1 DEF MapIs, Entry
  <2> QED
    BY <1>3, <2>2 DEF Get
<1>4. CASE root # Null
  <2> DEFINE x == LeafFor(k)
             key == heap[x].key
             i == KeyBinarySearch(key, k)
  <2>1. /\ x \in DOMAIN heap /\ heap[x].leaf
        /\ Run(key, heap[x].sub, g[x].lo, g[x].hi)
        /\ \A m \in DOMAIN heap : \A d : m # x => ~ Has(heap, m, k, d)
    BY <1>1, <1>4, LeafOf
  <2>2. Get(k) = IF i >= 0 THEN heap[x].sub[i + 1] ELSE -1
    BY <1>4 DEF Get
  <2>3. key \in Seq(Int) /\ Ascending(key) /\ k \in Int /\ Len(key) \in Nat
    BY <2>1, KeyIsInt, TreeKeysAssumption DEF Run
  <2> HIDE DEF i, key, x
  <2>4. /\ i \in Int
        /\ i >= 0 => i + 1 \in 1 .. Len(key) /\ key[i + 1] = k
        /\ i < 0 => /\ - i - 1 \in 0 .. Len(key)
                    /\ \A e \in 1 .. - i - 1 : key[e] < k
                    /\ \A e \in - i .. Len(key) : key[e] > k
    BY <2>3, SearchSays DEF i
  <2>5. CASE i >= 0
    <3> DEFINE e == i + 1
    <3>1. e \in 1 .. Len(key) /\ key[e] = k
      BY <2>4, <2>5
    <3> HIDE DEF e
    <3>2. Entry(heap, k, heap[x].sub[e])
      BY <2>1, <3>1 DEF Entry, Has, HasPair, key
    <3>3. k \in DOMAIN contents /\ contents[k].first = heap[x].sub[e]
      BY <1>2, <3>2 DEF MapIs
    <3> QED
      BY <2>2, <2>5, <3>3 DEF e
  <2>6. CASE i < 0
    <3>1. \A e \in 1 .. Len(key) : key[e] # k
      <4> SUFFICES ASSUME NEW e \in 1 .. Len(key), key[e] = k PROVE FALSE
        OBVIOUS
      <4>1. e \in 1 .. - i - 1 \/ e \in - i .. Len(key)
        BY <2>3, <2>4, <2>6
      <4> QED
        BY <2>3, <2>4, <2>6, <4>1
    <3>2. \A d : ~ Entry(heap, k, d)
      BY <2>1, <3>1 DEF Entry, Has, HasPair, key
    <3>3. k \notin DOMAIN contents
      BY <1>2, <3>2 DEF MapIs
    <3> QED
      BY <2>2, <2>4, <2>6, <3>3
  <2> QED
    BY <2>4, <2>5, <2>6
<1> QED
  BY <1>3, <1>4

-----------------------------------------------------------------------------
(***************************************************************************)
(* bplus_tree_get_range.                                                   *)
(***************************************************************************)

\* The keys and the data of the q-th leaf.
LeafKey(q) == heap[list[0][q]].key
LeafSub(q) == heap[list[0][q]].sub

\* What the walk along the leaves relies on.
Walkable ==
  /\ Len(list[0]) \in Nat /\ DOMAIN list[0] = 1 .. Len(list[0])
  /\ \A q \in 1 .. Len(list[0]) :
       /\ Len(LeafKey(q)) \in Nat /\ 1 <= Len(LeafKey(q)) /\ Len(LeafKey(q)) <= Entries
       /\ \A j \in 1 .. Len(LeafKey(q)) :
            /\ LeafKey(q)[j] \in Int /\ LeafSub(q)[j] \in AnyAnswer
            /\ LeafSub(q)[j] = contents[LeafKey(q)[j]].first
       /\ \A i, j \in 1 .. Len(LeafKey(q)) : i < j => LeafKey(q)[i] < LeafKey(q)[j]
  /\ \A q, r \in 1 .. Len(list[0]) : q < r =>
       \A i \in 1 .. Len(LeafKey(q)), j \in 1 .. Len(LeafKey(r)) : LeafKey(q)[i] < LeafKey(r)[j]

\* The keys behind the first i entries of the p-th leaf.
KeysFrom(p, i) ==
  {x \in Int : \E q \in 1 .. Len(list[0]) : \E j \in 1 .. Len(LeafKey(q)) :
                 LeafKey(q)[j] = x /\ (q > p \/ (q = p /\ j > i))}

\* What the walk comes to from slot i of the p-th leaf.
LastWithin(S, max) ==
  LET within == {x \in S : x <= max} IN CHOOSE j \in within : \A m \in within : m <= j
WalkAnswer(max, p, i, data) ==
  IF i >= Len(LeafKey(p)) THEN AnyAnswer
  ELSE IF \A x \in KeysFrom(p, i) : x <= max THEN {-1}
  ELSE IF LeafKey(p)[i + 1] > max THEN {data}
  ELSE {contents[LastWithin(KeysFrom(p, i), max)].first}

\* S is x and the greater keys of T.
Leads(x, S, T) == x \in Int /\ x \in S /\ S = T \cup {x} /\ \A y \in T : y \in Int /\ x < y

\* The next entry of the walk comes before all the others.
LEMMA KeysBehind ==
  ASSUME Walkable, NEW p \in 1 .. Len(list[0]), NEW i \in 0 .. Len(LeafKey(p)) - 1
  PROVE  /\ i + 1 < Len(LeafKey(p)) =>
              /\ Leads(LeafKey(p)[i + 1], KeysFrom(p, i), KeysFrom(p, i + 1))
              /\ LeafKey(p)[i + 2] \in KeysFrom(p, i + 1)
         /\ i + 1 = Len(LeafKey(p)) /\ p < Len(list[0]) =>
              /\ Leads(LeafKey(p)[i + 1], KeysFrom(p, i), KeysFrom(p + 1, 0))
              /\ LeafKey(p + 1)[1] \in KeysFrom(p + 1, 0)
         /\ i + 1 = Len(LeafKey(p)) /\ p = Len(list[0]) =>
              Leads(LeafKey(p)[i + 1], KeysFrom(p, i), {})
<1> DEFINE N == Len(list[0])
           L(q) == Len(LeafKey(q))
           K(q) == LeafKey(q)
           x == K(p)[i + 1]
<1>1. /\ N \in Nat
      /\ \A q \in 1 .. N : /\ L(q) \in Nat /\ 1 <= L(q)
                           /\ \A j \in 1 .. L(q) : K(q)[j] \in Int
                           /\ \A e, j \in 1 .. L(q) : e < j => K(q)[e] < K(q)[j]
      /\ \A q, r \in 1 .. N : q < r =>
           \A e \in 1 .. L(q), j \in 1 .. L(r) : K(q)[e] < K(r)[j]
  BY DEF Walkable
<1>2. \A q, e, y : y \in KeysFrom(q, e)
                     <=> y \in Int /\ \E r \in 1 .. N : \E j \in 1 .. L(r) :
                                        K(r)[j] = y /\ (r > q \/ (r = q /\ j > e))
  BY DEF KeysFrom
<1>3. p \in 1 .. N /\ i \in 0 .. L(p) - 1
  OBVIOUS
<1> HIDE DEF N, L, K
<1>4. i + 1 \in 1 .. L(p) /\ x \in Int
  BY <1>1, <1>3
<1>5. x \in KeysFrom(p, i)
  BY <1>1, <1>2, <1>3, <1>4
<1>6. \A y \in KeysFrom(p, i) : y = x \/ y \in KeysFrom(p, i + 1)
  BY <1>1, <1>2, <1>3, <1>4, SMTT(60)
<1>7. \A y \in KeysFrom(p, i + 1) : y \in KeysFrom(p, i) /\ y \in Int /\ x < y
  <2> SUFFICES ASSUME NEW y \in KeysFrom(p, i + 1)
               PROVE  y \in KeysFrom(p, i) /\ y \in Int /\ x < y
    OBVIOUS
  <2>1. PICK r \in 1 .. N : \E j \in 1 .. L(r) :
           K(r)[j] = y /\ (r > p \/ (r = p /\ j > i + 1))
    BY <1>2
  <2>2. PICK j \in 1 .. L(r) : K(r)[j] = y /\ (r > p \/ (r = p /\ j > i + 1))
    BY <2>1
  <2>3. y \in Int /\ (r > p \/ (r = p /\ j > i))
    BY <1>1, <1>3, <2>2
  <2>4. x < y
    BY <1>1, <1>3, <1>4, <2>2
  <2> QED
    BY <1>2, <2>2, <2>3, <2>4
<1>8. Leads(x, KeysFrom(p, i), KeysFrom(p, i + 1))
  BY <1>4, <1>5, <1>6, <1>7 DEF Leads
<1>9. ASSUME i + 1 < L(p) PROVE K(p)[i + 2] \in KeysFrom(p, i + 1)
  <2>1. i + 2 \in 1 .. L(p) /\ i + 2 > i + 1
    BY <1>1, <1>3, <1>9
  <2> DEFINE e == i + 2
  <2>2. e \in 1 .. L(p) /\ e > i + 1 /\ K(p)[e] \in Int
    BY <1>1, <1>3, <2>1
  <2> HIDE DEF e
  <2>3. K(p)[e] \in KeysFrom(p, i + 1)
    BY <1>2, <1>3, <2>2
  <2> QED
    BY <2>3 DEF e
<1>10. ASSUME i + 1 = L(p), p < N
       PROVE  KeysFrom(p, i + 1) = KeysFrom(p + 1, 0) /\ K(p + 1)[1] \in KeysFrom(p + 1, 0)
  <2> DEFINE r == p + 1
  <2>1. r \in 1 .. N /\ \A q \in 1 .. N : q > p <=> q > r \/ q = r
    BY <1>1, <1>3, <1>10
  <2>2. 1 \in 1 .. L(r) /\ \A q \in 1 .. N : \A j \in 1 .. L(q) : j > 0 /\ (q = p => ~ (j > i + 1))
    BY <1>1, <1>10, <2>1
  <2> HIDE DEF r
  <2>3. \A y : y \in KeysFrom(p, i + 1) <=> y \in KeysFrom(r, 0)
    BY <1>2, <2>1, <2>2
  <2>4. K(r)[1] \in Int
    BY <1>1, <2>1, <2>2
  <2>5. K(r)[1] \in KeysFrom(r, 0)
    BY <1>2, <2>1, <2>2, <2>4
  <2>6. KeysFrom(p, i + 1) = KeysFrom(r, 0)
    <3>1. KeysFrom(p, i + 1) \subseteq Int /\ KeysFrom(r, 0) \subseteq Int
      BY DEF KeysFrom
    <3> QED
      BY <2>3, <3>1
  <2> QED
    BY <2>5, <2>6 DEF r
<1>11. ASSUME i + 1 = L(p), p = N PROVE KeysFrom(p, i + 1) = {}
  <2>1. \A y : y \notin KeysFrom(p, i + 1)
    BY <1>1, <1>2, <1>3, <1>11, SMTT(60)
  <2> QED
    BY <2>1
<1> QED
  BY <1>8, <1>9, <1>10, <1>11 DEF N, L, K

\* The last key within the range, when x comes before the others.
LEMMA LastLeads ==
  ASSUME NEW x, NEW S, NEW T, Leads(x, S, T), NEW max \in Int, x <= max
  PROVE  /\ (\A t \in T : t > max) => LastWithin(S, max) = x
         /\ (\E t \in T : t <= max) => LastWithin(S, max) = LastWithin(T, max)
<1> DEFINE V == {e \in S : e <= max}
           W == {e \in T : e <= max}
           Top1(e) == e \in V /\ \A m \in V : m <= e
           Top2(e) == e \in W /\ \A m \in W : m <= e
<1>1. /\ x \in Int /\ x \in S /\ S = T \cup {x} /\ \A y \in T : y \in Int /\ x < y
  BY DEF Leads
<1>2. LastWithin(S, max) = CHOOSE e \in V : \A m \in V : m <= e
  BY DEF LastWithin
<1>3. LastWithin(T, max) = CHOOSE e \in W : \A m \in W : m <= e
  BY DEF LastWithin
<1>4. V = W \cup {x} /\ \A y \in W : y \in Int /\ x < y
  BY <1>1
<1> HIDE DEF V, W
<1>5. ASSUME \A t \in T : t > max PROVE LastWithin(S, max) = x
  <2>1. W = {}
    <3> SUFFICES ASSUME NEW e \in W PROVE FALSE
      OBVIOUS
    <3>1. e \in T /\ e <= max
      BY DEF W
    <3> QED
      BY <1>1, <1>5, <3>1
  <2>2. V = {x} /\ x <= x
    BY <1>1, <1>4, <2>1
  <2> QED
    BY <1>2, <2>2
<1>6. ASSUME NEW t \in T, t <= max PROVE LastWithin(S, max) = LastWithin(T, max)
  <2>1. t \in W
    BY <1>6 DEF W
  <2>2. \A e : Top1(e) <=> Top2(e)
    <3>1. t \in W /\ t \in Int /\ x < t /\ x \in Int
      BY <1>1, <2>1
    <3>2. ASSUME NEW e, Top1(e) PROVE Top2(e)
      <4>1. e \in V /\ \A m \in V : m <= e
        BY <3>2
      <4>2. t <= e /\ (e \in W \/ e = x)
        BY ONLY <1>4, <3>1, <4>1
      <4>3. e \in W
        BY ONLY <3>1, <4>2
      <4> QED
        BY ONLY <1>4, <4>1, <4>3
    <3>3. ASSUME NEW e, Top2(e) PROVE Top1(e)
      <4>1. e \in W /\ \A m \in W : m <= e
        BY <3>3
      <4>2. t <= e /\ e \in Int
        BY ONLY <1>4, <3>1, <4>1
      <4>3. x <= e
        BY ONLY <3>1, <4>2
      <4> QED
        BY ONLY <1>4, <4>1, <4>3
    <3> HIDE DEF Top1, Top2
    <3> QED
      BY <3>2, <3>3
  <2>3. (CHOOSE e \in V : \A m \in V : m <= e) = CHOOSE e : Top1(e)
    OBVIOUS
  <2>4. (CHOOSE e \in W : \A m \in W : m <= e) = CHOOSE e : Top2(e)
    OBVIOUS
  <2> HIDE DEF Top1, Top2
  <2>5. (CHOOSE e : Top1(e)) = CHOOSE e : Top2(e)
    BY <2>2
  <2> QED
    BY <1>2, <1>3, <2>3, <2>4, <2>5
<1> QED
  BY <1>5, <1>6

\* The answer from an entry x that is within the range, and from the next one, y.
LEMMA AnswerLeads ==
  ASSUME Walkable, NEW max \in Int, NEW p \in 1 .. Len(list[0]),
         NEW i \in 0 .. Len(LeafKey(p)) - 1, NEW data,
         NEW x, x = LeafKey(p)[i + 1], x <= max,
         NEW r \in 1 .. Len(list[0]), NEW e \in 0 .. Len(LeafKey(r)) - 1,
         NEW y, y = LeafKey(r)[e + 1], y \in KeysFrom(r, e), Leads(x, KeysFrom(p, i), KeysFrom(r, e)),
         \A z \in KeysFrom(r, e) : y <= z
  PROVE  WalkAnswer(max, p, i, data) = WalkAnswer(max, r, e, LeafSub(p)[i + 1])
<1> DEFINE S == KeysFrom(p, i)
           T == KeysFrom(r, e)
           d == LeafSub(p)[i + 1]
<1>1. Len(LeafKey(p)) \in Nat /\ Len(LeafKey(r)) \in Nat /\ d = contents[x].first
  BY DEF Walkable
<1>2. ~ (i >= Len(LeafKey(p))) /\ ~ (e >= Len(LeafKey(r)))
  BY <1>1
<1>3. x \in S /\ S = T \cup {x} /\ x \in Int /\ \A z \in T : z \in Int /\ x < z
  BY DEF Leads
<1>4. y \in T /\ \A z \in T : y <= z
  OBVIOUS
<1>5. WalkAnswer(max, p, i, data) =
        IF \A z \in S : z <= max THEN {-1} ELSE {contents[LastWithin(S, max)].first}
  <2>1. ~ (LeafKey(p)[i + 1] > max)
    BY <1>3
  <2> HIDE DEF S
  <2> QED
    BY <1>2, <2>1 DEF WalkAnswer, S
<1>6. WalkAnswer(max, r, e, d) =
        IF \A z \in T : z <= max THEN {-1}
        ELSE IF y > max THEN {d} ELSE {contents[LastWithin(T, max)].first}
  <2> HIDE DEF d
  <2> QED
    BY <1>2 DEF WalkAnswer
<1>7. Leads(x, S, T)
  OBVIOUS
<1> HIDE DEF S, T, d
<1>8. (\A z \in S : z <= max) <=> \A z \in T : z <= max
  BY <1>3
<1>9. CASE y > max
  <2>1. \A z \in T : z > max
    BY <1>3, <1>4, <1>9
  <2>2. LastWithin(S, max) = x
    BY <1>7, <2>1, LastLeads
  <2> QED
    <3>1. WalkAnswer(max, r, e, d) = IF \A z \in T : z <= max THEN {-1} ELSE {d}
      BY <1>6, <1>9, Zenon
    <3> QED
      <4>1. CASE \A z \in T : z <= max
        BY <1>5, <1>8, <3>1, <4>1, Zenon DEF d
      <4>2. CASE ~ \A z \in T : z <= max
        <5>1. WalkAnswer(max, p, i, data) = {contents[x].first}
          BY <1>5, <1>8, <2>2, <4>2, Zenon
        <5> QED
          BY <1>1, <3>1, <4>2, <5>1, Zenon DEF d
      <4> QED
        BY <4>1, <4>2
<1>10. CASE ~ (y > max)
  <2>1. y <= max
    BY <1>3, <1>4, <1>10
  <2>2. LastWithin(S, max) = LastWithin(T, max)
    BY <1>4, <1>7, <2>1, LastLeads
  <2> QED
    <3>1. WalkAnswer(max, r, e, d)
            = IF \A z \in T : z <= max THEN {-1} ELSE {contents[LastWithin(T, max)].first}
      BY <1>6, <1>10, Zenon
    <3> QED
      <4>1. CASE \A z \in T : z <= max
        BY <1>5, <1>8, <3>1, <4>1, Zenon DEF d
      <4>2. CASE ~ \A z \in T : z <= max
        <5>1. WalkAnswer(max, p, i, data) = {contents[LastWithin(T, max)].first}
          BY <1>5, <1>8, <2>2, <4>2, Zenon
        <5> QED
          BY <3>1, <4>2, <5>1, Zenon DEF d
      <4> QED
        BY <4>1, <4>2
<1> QED
  BY <1>9, <1>10 DEF d

\* The answer from one entry to the next.
LEMMA AnswerStep ==
  ASSUME Walkable, NEW max \in Int, NEW p \in 1 .. Len(list[0]), NEW i \in Nat, NEW data
  PROVE  WalkAnswer(max, p, i, data) =
           IF i >= Len(LeafKey(p)) THEN AnyAnswer
           ELSE IF LeafKey(p)[i + 1] > max THEN {data}
           ELSE IF i + 1 < Len(LeafKey(p)) THEN WalkAnswer(max, p, i + 1, LeafSub(p)[i + 1])
           ELSE IF p = Len(list[0]) THEN {-1}
           ELSE WalkAnswer(max, p + 1, 0, LeafSub(p)[i + 1])
<1> DEFINE x == LeafKey(p)[i + 1]
           d == LeafSub(p)[i + 1]
           N == Len(list[0])
           S == KeysFrom(p, i)
<1>1. /\ N \in Nat /\ p \in 1 .. N
      /\ \A q \in 1 .. N : Len(LeafKey(q)) \in Nat /\ 1 <= Len(LeafKey(q))
  BY DEF Walkable
<1>2. CASE i >= Len(LeafKey(p))
  BY <1>2 DEF WalkAnswer
<1>3. CASE ~ (i >= Len(LeafKey(p)))
  <2>1. i \in 0 .. Len(LeafKey(p)) - 1 /\ i + 1 <= Len(LeafKey(p))
    BY <1>1, <1>3
  <2>2. /\ i + 1 < Len(LeafKey(p)) =>
             /\ Leads(x, S, KeysFrom(p, i + 1))
             /\ LeafKey(p)[i + 2] \in KeysFrom(p, i + 1)
        /\ i + 1 = Len(LeafKey(p)) /\ p < Len(list[0]) =>
             /\ Leads(x, S, KeysFrom(p + 1, 0))
             /\ LeafKey(p + 1)[1] \in KeysFrom(p + 1, 0)
        /\ i + 1 = Len(LeafKey(p)) /\ p = Len(list[0]) => Leads(x, S, {})
    BY <2>1, KeysBehind
  <2>3. x \in Int /\ x \in S /\ \A z \in S : z \in Int /\ x <= z
    <3>1. \A T : Leads(x, S, T) => x \in Int /\ x \in S /\ \A z \in S : z \in Int /\ x <= z
      BY DEF Leads
    <3>2. \E T : Leads(x, S, T)
      <4>1. i + 1 < Len(LeafKey(p)) \/ (i + 1 = Len(LeafKey(p)) /\ p < N)
              \/ (i + 1 = Len(LeafKey(p)) /\ p = N)
        BY <1>1, <2>1
      <4> HIDE DEF x, S
      <4> QED
        BY <2>2, <4>1
    <3> HIDE DEF x, S
    <3> QED
      BY <3>1, <3>2
  <2>4. CASE x > max
    <3>1. ~ \A z \in S : z <= max
      BY <2>3, <2>4
    <3> QED
      BY <1>3, <2>4, <3>1 DEF WalkAnswer
  <2>5. CASE ~ (x > max)
    <3>0. x <= max
      BY <2>3, <2>5
    <3>1. CASE i + 1 < Len(LeafKey(p))
      <4> DEFINE e == i + 1
                 y == LeafKey(p)[e + 1]
      <4>1. e + 1 = i + 2 /\ e \in 0 .. Len(LeafKey(p)) - 1 /\ e \in Nat
        BY <1>1, <2>1, <3>1
      <4>2. Leads(x, S, KeysFrom(p, e)) /\ y \in KeysFrom(p, e)
        BY <2>2, <3>1, <4>1
      <4>3. \A z \in KeysFrom(p, e) : y <= z
        <5>1. /\ e + 1 < Len(LeafKey(p)) => Leads(y, KeysFrom(p, e), KeysFrom(p, e + 1))
              /\ e + 1 = Len(LeafKey(p)) /\ p < Len(list[0]) => Leads(y, KeysFrom(p, e), KeysFrom(p + 1, 0))
              /\ e + 1 = Len(LeafKey(p)) /\ p = Len(list[0]) => Leads(y, KeysFrom(p, e), {})
          <6> HIDE DEF e
          <6> QED
            BY <4>1, KeysBehind
        <5>2. e + 1 < Len(LeafKey(p)) \/ (e + 1 = Len(LeafKey(p)) /\ p < N)
                \/ (e + 1 = Len(LeafKey(p)) /\ p = N)
          BY <1>1, <4>1
        <5>3. \A T : Leads(y, KeysFrom(p, e), T) => \A z \in KeysFrom(p, e) : y <= z
          BY DEF Leads
        <5> HIDE DEF e, y
        <5> QED
          BY <5>1, <5>2, <5>3
      <4>4. p \in 1 .. Len(list[0]) /\ i \in 0 .. Len(LeafKey(p)) - 1 /\ x = LeafKey(p)[i + 1]
            /\ y = LeafKey(p)[e + 1]
        BY <2>1
      <4> HIDE DEF e, y, x
      <4>5. Leads(x, KeysFrom(p, i), KeysFrom(p, e))
        BY <4>2
      <4> HIDE DEF S
      <4>6. WalkAnswer(max, p, i, data) = WalkAnswer(max, p, e, LeafSub(p)[i + 1])
        BY <3>0, <4>1, <4>2, <4>3, <4>4, <4>5, AnswerLeads
      <4> QED
        BY <1>3, <2>5, <3>1, <4>6 DEF e, x
    <3>2. CASE i + 1 = Len(LeafKey(p)) /\ p < N
      <4> DEFINE r == p + 1
                 e == 0
                 y == LeafKey(r)[e + 1]
      <4>1. e + 1 = 1 /\ r \in 1 .. N /\ e \in 0 .. Len(LeafKey(r)) - 1
        BY <1>1, <3>2
      <4>2. Leads(x, S, KeysFrom(r, e)) /\ y \in KeysFrom(r, e)
        BY <2>2, <3>2, <4>1
      <4>3. \A z \in KeysFrom(r, e) : y <= z
        <5>1. /\ e + 1 < Len(LeafKey(r)) => Leads(y, KeysFrom(r, e), KeysFrom(r, e + 1))
              /\ e + 1 = Len(LeafKey(r)) /\ r < Len(list[0]) => Leads(y, KeysFrom(r, e), KeysFrom(r + 1, 0))
              /\ e + 1 = Len(LeafKey(r)) /\ r = Len(list[0]) => Leads(y, KeysFrom(r, e), {})
          <6> HIDE DEF e, r
          <6> QED
            BY <4>1, KeysBehind
        <5>2. e + 1 < Len(LeafKey(r)) \/ (e + 1 = Len(LeafKey(r)) /\ r < N)
                \/ (e + 1 = Len(LeafKey(r)) /\ r = N)
          <6>1. Len(LeafKey(r)) \in Nat /\ 1 <= Len(LeafKey(r)) /\ r \in 1 .. N /\ N \in Nat
            BY <1>1, <4>1
          <6> DEFINE L == Len(LeafKey(r))
          <6>2. L \in Nat /\ 1 <= L /\ r \in Int /\ N \in Int /\ r <= N
            BY <6>1
          <6> HIDE DEF r, L, N
          <6>3. (1 < L \/ (1 = L /\ r < N)) \/ (1 = L /\ r = N)
            BY ONLY <6>2
          <6> QED
            BY ONLY <6>3, <4>1 DEF L, N
        <5>3. \A T : Leads(y, KeysFrom(r, e), T) => \A z \in KeysFrom(r, e) : y <= z
          BY DEF Leads
        <5> HIDE DEF e, y, r
        <5> QED
          BY <5>1, <5>2, <5>3
      <4>4. p \in 1 .. Len(list[0]) /\ i \in 0 .. Len(LeafKey(p)) - 1 /\ x = LeafKey(p)[i + 1]
            /\ y = LeafKey(r)[e + 1] /\ r \in 1 .. Len(list[0])
        BY <2>1, <4>1
      <4> HIDE DEF e, y, x, r
      <4>5. Leads(x, KeysFrom(p, i), KeysFrom(r, e))
        BY <4>2
      <4> HIDE DEF S
      <4>6. WalkAnswer(max, p, i, data) = WalkAnswer(max, r, e, LeafSub(p)[i + 1])
        BY <3>0, <4>1, <4>2, <4>3, <4>4, <4>5, AnswerLeads
      <4>7. ~ (i + 1 < Len(LeafKey(p))) /\ p # Len(list[0])
        BY <1>1, <3>2
      <4> QED
        BY <1>3, <2>5, <4>6, <4>7 DEF e, x, r
    <3>3. CASE i + 1 = Len(LeafKey(p)) /\ p = N
      <4>1. S = {x}
        BY <2>2, <3>3 DEF Leads
      <4>2. \A z \in S : z <= max
        BY <3>0, <4>1
      <4>3. WalkAnswer(max, p, i, data) = {-1}
        BY <1>3, <4>2 DEF WalkAnswer
      <4>4. ~ (i + 1 < Len(LeafKey(p)))
        BY <1>1, <3>3
      <4> QED
        BY <1>3, <2>5, <3>3, <4>3, <4>4
    <3>4. i + 1 < Len(LeafKey(p)) \/ (i + 1 = Len(LeafKey(p)) /\ p < N)
            \/ (i + 1 = Len(LeafKey(p)) /\ p = N)
      BY <1>1, <2>1
    <3> QED
      BY <3>1, <3>2, <3>3, <3>4
  <2> QED
    BY <2>4, <2>5
<1> QED
  BY <1>2, <1>3

\* The walk of bplus_tree_get_range answers WalkAnswer, by induction along
\* the leaves and their entries, stated with the last leaf and slot where it
\* does not.
LEMMA WalkIs ==
  ASSUME Walkable, NEW max \in Int
  PROVE  \A p \in 1 .. Len(list[0]), i \in 0 .. Entries, data \in AnyAnswer :
           RangeWalk(max)[<<p, i, data>>] = WalkAnswer(max, p, i, data)
<1> DEFINE N == Len(list[0])
           Step(f, p, i, data) ==
             IF i >= Len(LeafKey(p)) THEN AnyAnswer
             ELSE IF LeafKey(p)[i + 1] > max THEN {data}
             ELSE IF i + 1 < Len(LeafKey(p)) THEN f[<<p, i + 1, LeafSub(p)[i + 1]>>]
             ELSE IF p = Len(list[0]) THEN {-1}
             ELSE f[<<p + 1, 0, LeafSub(p)[i + 1]>>]
           Is(f) == f = [w \in Slots |-> Step(f, w[1], w[2], w[3])]
           walk == CHOOSE f : Is(f)
           Ans(p, i, data) == WalkAnswer(max, p, i, data)
           good == [w \in Slots |-> Ans(w[1], w[2], w[3])]
<1>0. /\ N \in Nat /\ Entries \in Nat
      /\ \A q \in 1 .. N : /\ Len(LeafKey(q)) \in Nat /\ Len(LeafKey(q)) <= Entries
                           /\ \A j \in 1 .. Len(LeafKey(q)) : LeafSub(q)[j] \in AnyAnswer
  BY EntriesAssumption DEF Walkable
<1>s. Slots = (1 .. N) \X (0 .. Entries) \X AnyAnswer
  <2>1. DOMAIN list[0] = 1 .. N
    BY DEF Walkable
  <2> DEFINE D == DOMAIN list[0]
             B == 0 .. Entries
  <2>2. Slots = D \X B \X AnyAnswer
    BY DEF Slots
  <2>3. D = 1 .. N
    BY <2>1
  <2> HIDE DEF N, D, B
  <2>4. Slots = (1 .. N) \X B \X AnyAnswer
    BY <2>2, <2>3
  <2> QED
    BY <2>4 DEF B
<1>w. RangeWalk(max) = walk
  BY DEF RangeWalk, LeafKey, LeafSub
<1>n. ASSUME NEW p \in 1 .. N, NEW i \in 0 .. Entries, ~ (i >= Len(LeafKey(p)))
      PROVE  /\ LeafSub(p)[i + 1] \in AnyAnswer /\ i \in Nat
             /\ i + 1 < Len(LeafKey(p)) => i + 1 \in 0 .. Entries
             /\ p # N => p + 1 \in 1 .. N
             /\ 0 \in 0 .. Entries
  <2>1. i + 1 \in 1 .. Len(LeafKey(p))
    BY <1>0, <1>n
  <2> QED
    BY <1>0, <2>1
<1> HIDE DEF walk
<1>1. Is(good)
  <2>1. ASSUME NEW p \in 1 .. N, NEW i \in 0 .. Entries, NEW data \in AnyAnswer
        PROVE  Ans(p, i, data) = Step(good, p, i, data)
    <3> DEFINE d == LeafSub(p)[i + 1]
    <3>1. Ans(p, i, data) =
            IF i >= Len(LeafKey(p)) THEN AnyAnswer
            ELSE IF LeafKey(p)[i + 1] > max THEN {data}
            ELSE IF i + 1 < Len(LeafKey(p)) THEN Ans(p, i + 1, d)
            ELSE IF p = Len(list[0]) THEN {-1}
            ELSE Ans(p + 1, 0, d)
      <4>1. i \in Nat
        BY <1>0
      <4> QED
        BY <4>1, AnswerStep
    <3>2. \A q, e, c : <<q, e, c>> \in Slots => good[<<q, e, c>>] = Ans(q, e, c)
      <4> HIDE DEF Ans
      <4> QED
        OBVIOUS
    <3> HIDE DEF good
    <3>3. ASSUME ~ (i >= Len(LeafKey(p)))
          PROVE  /\ i + 1 < Len(LeafKey(p)) => <<p, i + 1, d>> \in Slots
                 /\ p # N => <<p + 1, 0, d>> \in Slots
      <4>1. /\ d \in AnyAnswer
            /\ i + 1 < Len(LeafKey(p)) => i + 1 \in 0 .. Entries
            /\ p # N => p + 1 \in 1 .. N
            /\ 0 \in 0 .. Entries
        BY <1>n, <3>3
      <4> HIDE DEF d
      <4> QED
        BY <1>s, <4>1
    <3> HIDE DEF Ans, d
    <3>4. Step(good, p, i, data) =
            IF i >= Len(LeafKey(p)) THEN AnyAnswer
            ELSE IF LeafKey(p)[i + 1] > max THEN {data}
            ELSE IF i + 1 < Len(LeafKey(p)) THEN good[<<p, i + 1, d>>]
            ELSE IF p = Len(list[0]) THEN {-1}
            ELSE good[<<p + 1, 0, d>>]
      BY DEF d
    <3> HIDE DEF Step
    <3> QED
      BY <3>1, <3>2, <3>3, <3>4
  <2>2. ASSUME NEW w \in Slots PROVE Ans(w[1], w[2], w[3]) = Step(good, w[1], w[2], w[3])
    <3>1. w[1] \in 1 .. N /\ w[2] \in 0 .. Entries /\ w[3] \in AnyAnswer
      BY <1>s
    <3> HIDE DEF Ans, Step, good, N
    <3> QED
      BY <2>1, <3>1
  <2> HIDE DEF Ans, Step
  <2> QED
    BY <2>2, Zenon
<1>2. Is(walk)
  <2> HIDE DEF Is, good
  <2> QED
    BY <1>1, Zenon DEF walk
<1> DEFINE At(p, i, data) == walk[<<p, i, data>>]
<1>3. ASSUME NEW p \in 1 .. N, NEW i \in 0 .. Entries, NEW data \in AnyAnswer
      PROVE  At(p, i, data) = Step(walk, p, i, data)
  <2>1. <<p, i, data>> \in Slots
    BY <1>s
  <2>2. walk[<<p, i, data>>] = Step(walk, <<p, i, data>>[1], <<p, i, data>>[2], <<p, i, data>>[3])
    <3> HIDE DEF Step
    <3> QED
      BY <1>2, <2>1, Zenon
  <2>3. <<p, i, data>>[1] = p /\ <<p, i, data>>[2] = i /\ <<p, i, data>>[3] = data
    OBVIOUS
  <2> HIDE DEF Step
  <2> QED
    BY <2>2, <2>3, Zenon
<1>4. ASSUME NEW p \in 1 .. N, NEW i \in 0 .. Entries, NEW data \in AnyAnswer
      PROVE  /\ At(p, i, data) =
                  IF i >= Len(LeafKey(p)) THEN AnyAnswer
                  ELSE IF LeafKey(p)[i + 1] > max THEN {data}
                  ELSE IF i + 1 < Len(LeafKey(p)) THEN At(p, i + 1, LeafSub(p)[i + 1])
                  ELSE IF p = N THEN {-1}
                  ELSE At(p + 1, 0, LeafSub(p)[i + 1])
             /\ Ans(p, i, data) =
                  IF i >= Len(LeafKey(p)) THEN AnyAnswer
                  ELSE IF LeafKey(p)[i + 1] > max THEN {data}
                  ELSE IF i + 1 < Len(LeafKey(p)) THEN Ans(p, i + 1, LeafSub(p)[i + 1])
                  ELSE IF p = N THEN {-1}
                  ELSE Ans(p + 1, 0, LeafSub(p)[i + 1])
  <2>1. i \in Nat
    BY <1>0
  <2>2. At(p, i, data) = Step(walk, p, i, data)
    BY <1>3
  <2>3. Ans(p, i, data) =
          IF i >= Len(LeafKey(p)) THEN AnyAnswer
          ELSE IF LeafKey(p)[i + 1] > max THEN {data}
          ELSE IF i + 1 < Len(LeafKey(p)) THEN Ans(p, i + 1, LeafSub(p)[i + 1])
          ELSE IF p = N THEN {-1}
          ELSE Ans(p + 1, 0, LeafSub(p)[i + 1])
    BY <2>1, AnswerStep
  <2> HIDE DEF Ans
  <2>4. At(p, i, data) =
          IF i >= Len(LeafKey(p)) THEN AnyAnswer
          ELSE IF LeafKey(p)[i + 1] > max THEN {data}
          ELSE IF i + 1 < Len(LeafKey(p)) THEN At(p, i + 1, LeafSub(p)[i + 1])
          ELSE IF p = N THEN {-1}
          ELSE At(p + 1, 0, LeafSub(p)[i + 1])
    <3> HIDE DEF walk
    <3> QED
      BY <2>2, Zenon
  <2> QED
    BY <2>3, <2>4
<1> HIDE DEF At, Ans, Step, good
<1> DEFINE Wrong(p, i) == \E data \in AnyAnswer : At(p, i, data) # Ans(p, i, data)
           P == {n \in Nat : \E p \in 1 .. N : n = N - p /\ \E i \in 0 .. Entries : Wrong(p, i)}
           I(p) == {n \in Nat : \E i \in 0 .. Entries : n = Entries - i /\ Wrong(p, i)}
<1>5. SUFFICES ASSUME NEW p0 \in 1 .. N, NEW i0 \in 0 .. Entries, Wrong(p0, i0) PROVE FALSE
  BY <1>w, Zenon DEF At, Ans
<1>6. P # {} /\ P \subseteq Nat
  <2>1. N - p0 \in Nat
    BY <1>0
  <2> HIDE DEF Wrong
  <2> QED
    BY <1>5, <2>1
<1>7. PICK n \in P : \A m \in P : n <= m
  <2> HIDE DEF P
  <2> QED
    BY <1>6, SmallestNat
<1>8. PICK p \in 1 .. N : n = N - p /\ \E i \in 0 .. Entries : Wrong(p, i)
  BY <1>7
<1>9. I(p) # {} /\ I(p) \subseteq Nat
  <2>1. PICK i \in 0 .. Entries : Wrong(p, i)
    BY <1>8
  <2>2. Entries - i \in Nat
    BY <1>0
  <2> HIDE DEF Wrong
  <2> QED
    BY <2>1, <2>2
<1>10. PICK k \in I(p) : \A m \in I(p) : k <= m
  <2> DEFINE T == I(p)
  <2>1. T # {} /\ T \subseteq Nat
    BY <1>9
  <2> HIDE DEF T
  <2>2. PICK t \in T : \A m \in T : t <= m
    BY <2>1, SmallestNat
  <2> QED
    BY <2>2 DEF T
<1>11. PICK i \in 0 .. Entries : k = Entries - i /\ Wrong(p, i)
  BY <1>10
<1>12. PICK data \in AnyAnswer : At(p, i, data) # Ans(p, i, data)
  BY <1>11
<1> DEFINE d == LeafSub(p)[i + 1]
<1>13. ASSUME ~ (i >= Len(LeafKey(p))), i + 1 < Len(LeafKey(p)) PROVE At(p, i + 1, d) = Ans(p, i + 1, d)
  <2> SUFFICES ASSUME At(p, i + 1, d) # Ans(p, i + 1, d) PROVE FALSE
    OBVIOUS
  <2>1. d \in AnyAnswer /\ i + 1 \in 0 .. Entries
    BY <1>n, <1>13
  <2>2. Wrong(p, i + 1)
    BY <2>1
  <2> HIDE DEF Wrong, d
  <2>3. Entries - (i + 1) \in I(p)
    BY <1>0, <2>1, <2>2
  <2>4. k <= Entries - (i + 1)
    <3> DEFINE m == Entries - (i + 1)
    <3> HIDE DEF m, I
    <3> QED
      BY <1>10, <2>3 DEF m
  <2> QED
    BY <1>0, <1>11, <2>4
<1>14. ASSUME ~ (i >= Len(LeafKey(p))), p # N PROVE At(p + 1, 0, d) = Ans(p + 1, 0, d)
  <2> SUFFICES ASSUME At(p + 1, 0, d) # Ans(p + 1, 0, d) PROVE FALSE
    OBVIOUS
  <2>1. d \in AnyAnswer /\ p + 1 \in 1 .. N /\ 0 \in 0 .. Entries
    BY <1>n, <1>14
  <2>2. Wrong(p + 1, 0)
    BY <2>1
  <2> HIDE DEF Wrong, d
  <2>3. N - (p + 1) \in P
    <3> DEFINE r == p + 1
               m == N - r
    <3>1. m \in Nat /\ r \in 1 .. N
      BY <1>0, <2>1
    <3> HIDE DEF r
    <3>2. \E e \in 0 .. Entries : Wrong(r, e)
      BY <2>1, <2>2 DEF r
    <3>3. m \in P
      BY <3>1, <3>2
    <3> QED
      BY <3>3 DEF r
  <2>4. n <= N - (p + 1)
    <3> DEFINE m == N - (p + 1)
    <3> HIDE DEF m, P
    <3> QED
      BY <1>7, <2>3 DEF m
  <2> QED
    BY <1>0, <1>8, <2>4
<1>15. /\ At(p, i, data) =
            IF i >= Len(LeafKey(p)) THEN AnyAnswer
            ELSE IF LeafKey(p)[i + 1] > max THEN {data}
            ELSE IF i + 1 < Len(LeafKey(p)) THEN At(p, i + 1, d)
            ELSE IF p = N THEN {-1}
            ELSE At(p + 1, 0, d)
       /\ Ans(p, i, data) =
            IF i >= Len(LeafKey(p)) THEN AnyAnswer
            ELSE IF LeafKey(p)[i + 1] > max THEN {data}
            ELSE IF i + 1 < Len(LeafKey(p)) THEN Ans(p, i + 1, d)
            ELSE IF p = N THEN {-1}
            ELSE Ans(p + 1, 0, d)
  BY <1>4
<1> HIDE DEF d, N
<1>16. i >= Len(LeafKey(p)) \/ ~ (i >= Len(LeafKey(p)))
  OBVIOUS
<1>17. At(p, i, data) # Ans(p, i, data)
  BY <1>12
<1> QED
  BY ONLY <1>13, <1>14, <1>15, <1>17, Zenon

\* What a put recorded as the data of a new entry is data of the callers.
Recording == \A k \in DOMAIN contents : contents[k].first \in AnyAnswer

\* Every step keeps the recorded data what callers put.
LEMMA RecordingKept ==
  ASSUME Recording, [Next]_vars
  PROVE  Recording'
<1>1. AnyAnswer' = AnyAnswer
  BY DEF AnyAnswer
<1>2. ASSUME contents' = contents PROVE Recording'
  BY <1>1, <1>2 DEF Recording
<1>3. ASSUME NEW k \in Keys, NEW d \in DataFor[k], Recorded(k, d) PROVE Recording'
  <2>1. d \in AnyAnswer
    BY DEF AnyAnswer
  <2> DEFINE e == [first |-> IF k \in DOMAIN contents THEN contents[k].first ELSE d, last |-> d]
  <2>2. e.first \in AnyAnswer
    BY <2>1 DEF Recording
  <2>3. contents' = With(contents, k, e)
    BY <1>3 DEF Recorded
  <2> HIDE DEF e
  <2>4. \A l \in DOMAIN contents' : l = k \/ l \in DOMAIN contents
    BY <2>3 DEF With
  <2>5. \A l \in DOMAIN contents' : contents'[l] = IF l = k THEN e ELSE contents[l]
    BY <2>3 DEF With
  <2> QED
    BY <1>1, <2>2, <2>4, <2>5 DEF Recording
<1>4. ASSUME NEW k, contents' = Without(contents, k) PROVE Recording'
  <2>1. DOMAIN contents' \subseteq DOMAIN contents
        /\ \A l \in DOMAIN contents' : contents'[l] = contents[l]
    BY <1>4 DEF Without, Restrict
  <2> QED
    BY <1>1, <2>1 DEF Recording
<1>5. ASSUME NEW k \in Keys, NEW d \in DataFor[k], Put(k, d) PROVE Recording'
  <2>1. Recorded(k, d)
    BY <1>5 DEF Put, PutFirst, PutExisting, PutSimple, PutSplit
  <2> QED
    BY <1>3, <2>1
<1>6. ASSUME NEW k \in Keys, Delete(k) PROVE Recording'
  <2>1. contents' = contents \/ contents' = Without(contents, k)
    BY <1>6, SMTT(60) DEF Delete, DeleteMissing, LeafSimpleRemove, LeafFromLeft, LeafFromRight, vars
  <2> QED
    BY <1>2, <1>4, <2>1
<1>7. ASSUME ParentNodeBuild \/ NonLeafRemove PROVE contents' = contents
  BY <1>7 DEF ParentNodeBuild, NonLeafRemove, NewRoot, NonLeafSimpleInsert, NonLeafSplit,
              NonLeafSimpleRemove, NonLeafFromLeft, NonLeafFromRight
<1>8. CASE UNCHANGED vars
  BY <1>2, <1>8 DEF vars
<1> QED
  BY <1>2, <1>5, <1>6, <1>7, <1>8 DEF Next

\* The data the map is compared by are data that callers put.
THEOREM ContentsAreData == Spec => []Recording
<1>1. Init => Recording
  BY DEF Init, Recording
<1>2. Recording /\ [Next]_vars => Recording'
  BY RecordingKept
<1> QED
  BY <1>1, <1>2, PTL DEF Spec

\* The walk finds every key that is there.
Covers ==
  /\ \A q \in 1 .. Len(list[0]) : \A j \in 1 .. Len(LeafKey(q)) :
       LeafKey(q)[j] \in DOMAIN contents
  /\ \A k \in DOMAIN contents : k \in Int /\
       \E q \in 1 .. Len(list[0]) : \E j \in 1 .. Len(LeafKey(q)) : LeafKey(q)[j] = k

\* Between two calls the leaves are as the walk needs them.
LEMMA WalkableNow ==
  ASSUME NEW g, Upright(g), Sizes(heap, root), MapIs(heap, contents), Recording
  PROVE  Walkable /\ Covers
<1> DEFINE s == list[0]
           K(q) == LeafKey(q)
<1>1. /\ Len(s) \in Nat /\ DOMAIN s = 1 .. Len(s)
      /\ \A q \in 1 .. Len(s) :
           /\ Interval(g, s[q]) /\ Run(K(q), LeafSub(q), g[s[q]].lo, g[s[q]].hi)
           /\ Len(K(q)) \in Nat /\ 1 <= Len(K(q)) /\ Len(K(q)) <= Entries
           /\ \A j \in 1 .. Len(K(q)) : /\ K(q)[j] \in Keys /\ K(q)[j] \in DOMAIN contents
                                        /\ LeafSub(q)[j] = contents[K(q)[j]].first
      /\ \A q, r \in 1 .. Len(s) : q < r => g[s[q]].hi <= g[s[r]].lo
      /\ \A k \in DOMAIN contents : \E q \in 1 .. Len(s) : \E j \in 1 .. Len(K(q)) : K(q)[j] = k
  BY LeavesAre DEF LeafKey, LeafSub
<1> HIDE DEF s, K
<1>2. \A q \in 1 .. Len(s) : \A j \in 1 .. Len(K(q)) :
        K(q)[j] \in Int /\ LeafSub(q)[j] \in AnyAnswer
  BY <1>1, TreeKeysAssumption, ZenonT(60) DEF Recording
<1>3. \A q \in 1 .. Len(s) : \A i, j \in 1 .. Len(K(q)) : i < j => K(q)[i] < K(q)[j]
  BY <1>1 DEF Run, Ascending
<1>4. \A q, r \in 1 .. Len(s) : q < r =>
        \A i \in 1 .. Len(K(q)), j \in 1 .. Len(K(r)) : K(q)[i] < K(r)[j]
  <2> SUFFICES ASSUME NEW q \in 1 .. Len(s), NEW r \in 1 .. Len(s), q < r,
                      NEW i \in 1 .. Len(K(q)), NEW j \in 1 .. Len(K(r))
               PROVE  K(q)[i] < K(r)[j]
    OBVIOUS
  <2>1. g[s[q]].hi <= g[s[r]].lo /\ g[s[q]].hi \in Int /\ g[s[r]].lo \in Int
    BY <1>1 DEF Interval
  <2>2. K(q)[i] < g[s[q]].hi /\ g[s[r]].lo <= K(r)[j]
    BY <1>1 DEF Run
  <2>3. K(q)[i] \in Int /\ K(r)[j] \in Int
    BY <1>2
  <2> QED
    BY ONLY <2>1, <2>2, <2>3, SMTT(60)
<1>5. Walkable
  BY <1>1, <1>2, <1>3, <1>4 DEF Walkable, s, K
<1>6. Covers
  BY <1>1, <1>2 DEF Covers, s, K
<1> QED
  BY <1>5, <1>6, SMTT(60)

\* Where the search for the lower key of a range comes to.
Starts(k, p, i) ==
  /\ p \in 1 .. Len(list[0]) /\ i \in 0 .. Len(LeafKey(p))
  /\ \A j \in 1 .. i : LeafKey(p)[j] < k
  /\ \A j \in i + 1 .. Len(LeafKey(p)) : LeafKey(p)[j] >= k
  /\ \A q \in 1 .. Len(list[0]) : \A j \in 1 .. Len(LeafKey(q)) :
       (q < p => LeafKey(q)[j] < k) /\ (q > p => LeafKey(q)[j] > k)

\* The search for the lower key ends where the keys that are not below it
\* begin.
LEMMA RangeStarts ==
  ASSUME NEW g, TreeIs(heap, Idle, root, level, list, g), level < MaxLevel, root # Null,
         Sizes(heap, root), MapIs(heap, contents), Walkable, NEW k \in Keys
  PROVE  LET leaf == LeafFor(k)
             found == KeyBinarySearch(heap[leaf].key, k)
             i == IF found < 0 THEN - found - 1 ELSE found
             p == PlaceIn(list[0], leaf)
         IN list[0][p] = leaf /\ Starts(k, p, i)
<1> DEFINE x == LeafFor(k)
           key == heap[x].key
           found == KeyBinarySearch(key, k)
           i == IF found < 0 THEN - found - 1 ELSE found
           p == PlaceIn(list[0], x)
           s == list[0]
<1>1. Upright(g)
  BY IdleTree DEF Upright
<1>2. /\ x \in DOMAIN heap /\ heap[x].leaf
      /\ Run(key, heap[x].sub, g[x].lo, g[x].hi)
      /\ Interval(g, x) /\ g[x].lo <= k /\ k < g[x].hi
  BY LeafOf
<1> HIDE DEF x
<1>3. g[x].dep = 0 /\ 0 \in DOMAIN list /\ Chain(list, DOMAIN heap, g)
  BY <1>1, <1>2, UprightIs DEF Upright
<1>4. p \in 1 .. Len(s) /\ s[p] = x
  <2> DEFINE D == DOMAIN heap
  <2>1. Chain(list, D, g) /\ x \in D /\ g[x].dep \in DOMAIN list
    BY <1>2, <1>3
  <2> HIDE DEF D
  <2> QED
    BY <1>3, <2>1, LevelIs
<1>5. key \in Seq(Int) /\ Ascending(key) /\ k \in Int /\ Len(key) \in Nat
      /\ \A j \in 1 .. Len(key) : key[j] \in Int
  BY <1>2, KeyIsInt, TreeKeysAssumption, ElementOfSeq DEF Run
<1> HIDE DEF found, key, p, s
<1>6. /\ found \in Int
      /\ found >= 0 => found + 1 \in 1 .. Len(key) /\ key[found + 1] = k
      /\ found < 0 => /\ - found - 1 \in 0 .. Len(key)
                      /\ \A e \in 1 .. - found - 1 : key[e] < k
                      /\ \A e \in - found .. Len(key) : key[e] > k
  BY <1>5, SearchSays DEF found
<1>7. /\ i \in 0 .. Len(key) /\ \A j \in 1 .. i : key[j] < k
      /\ \A j \in i + 1 .. Len(key) : key[j] >= k
  <2>1. CASE found < 0
    <3>1. i = - found - 1 /\ i + 1 = - found
      BY <1>6, <2>1
    <3> HIDE DEF i
    <3>2. \A j \in - found .. Len(key) : key[j] \in Int /\ key[j] >= k
      BY <1>5, <1>6, <2>1
    <3> QED
      BY <1>6, <2>1, <3>1, <3>2
  <2>2. CASE ~ (found < 0)
    <3>1. i = found /\ i \in Nat
      BY <1>6, <2>2
    <3> HIDE DEF i
    <3>2. i + 1 \in 1 .. Len(key) /\ key[i + 1] = k
      BY <1>6, <3>1
    <3>3. \A a, b \in 1 .. Len(key) : a < b => key[a] < key[b]
      BY <1>5 DEF Ascending
    <3> QED
      BY <1>5, <3>1, <3>2, <3>3, SMTT(60)
  <2> QED
    BY <2>1, <2>2
<1>8. key = LeafKey(p)
  BY <1>4 DEF LeafKey, key, s
<1>9. /\ Len(s) \in Nat
      /\ \A q \in 1 .. Len(s) :
           /\ Interval(g, s[q]) /\ Run(LeafKey(q), LeafSub(q), g[s[q]].lo, g[s[q]].hi)
      /\ \A q, r \in 1 .. Len(s) : q < r => g[s[q]].hi <= g[s[r]].lo
      /\ \A q \in 1 .. Len(s) : \A j \in 1 .. Len(LeafKey(q)) : LeafKey(q)[j] \in Int
  BY <1>1, LeavesAre, TreeKeysAssumption DEF LeafKey, LeafSub, s
<1>10. ASSUME NEW q \in 1 .. Len(s), NEW j \in 1 .. Len(LeafKey(q))
       PROVE  (q < p => LeafKey(q)[j] < k) /\ (q > p => LeafKey(q)[j] > k)
  <2> DEFINE a == g[s[q]].lo
             b == g[s[q]].hi
             c == g[x].lo
             d == g[x].hi
             e == LeafKey(q)[j]
  <2>1. a <= e /\ e < b /\ e \in Int
    BY <1>9 DEF Run
  <2>2. a \in Int /\ b \in Int /\ c \in Int /\ d \in Int
    BY <1>2, <1>9 DEF Interval
  <2>3. c <= k /\ k < d /\ k \in Int
    BY <1>2, <1>5
  <2>4. (q < p => b <= c) /\ (q > p => d <= a)
    BY <1>4, <1>9
  <2> HIDE DEF a, b, c, d, e
  <2>5. (q < p => e < k) /\ (q > p => e > k)
    BY ONLY <2>1, <2>2, <2>3, <2>4
  <2> QED
    BY <2>5 DEF e
<1>11. Starts(k, p, i)
  <2> HIDE DEF i
  <2> QED
    BY <1>4, <1>7, <1>8, <1>10 DEF Starts, s
<1> QED
  BY <1>4, <1>11 DEF found, key, p, s, x

\* The keys behind the start of the walk are those that are not below k.
LEMMA KeysNotBelow ==
  ASSUME Walkable, Covers, NEW k \in Int, NEW p, NEW i, Starts(k, p, i), i < Len(LeafKey(p))
  PROVE  /\ KeysFrom(p, i) = {y \in DOMAIN contents : k <= y}
         /\ LeafKey(p)[i + 1] \in KeysFrom(p, i)
         /\ \A y \in KeysFrom(p, i) : LeafKey(p)[i + 1] <= y
<1> DEFINE N == Len(list[0])
           K(q) == LeafKey(q)
<1>1. /\ N \in Nat /\ p \in 1 .. N
      /\ \A q \in 1 .. N : Len(K(q)) \in Nat /\ \A j \in 1 .. Len(K(q)) : K(q)[j] \in Int
      /\ i \in 0 .. Len(K(p))
  BY DEF Walkable, Starts
<1>2. /\ \A j \in 1 .. i : K(p)[j] < k
      /\ \A j \in i + 1 .. Len(K(p)) : K(p)[j] >= k
      /\ \A q \in 1 .. N : \A j \in 1 .. Len(K(q)) :
           (q < p => K(q)[j] < k) /\ (q > p => K(q)[j] > k)
  BY DEF Starts
<1>3. /\ \A q \in 1 .. N : \A j \in 1 .. Len(K(q)) : K(q)[j] \in DOMAIN contents
      /\ \A y \in DOMAIN contents : y \in Int /\
           \E q \in 1 .. N : \E j \in 1 .. Len(K(q)) : K(q)[j] = y
  BY DEF Covers
<1>4. \A y : y \in KeysFrom(p, i)
               <=> y \in Int /\ \E q \in 1 .. N : \E j \in 1 .. Len(K(q)) :
                                   K(q)[j] = y /\ (q > p \/ (q = p /\ j > i))
  BY DEF KeysFrom
<1>5. i < Len(K(p))
  OBVIOUS
<1> HIDE DEF N, K
<1>6. ASSUME NEW q \in 1 .. N, NEW j \in 1 .. Len(K(q))
      PROVE  k <= K(q)[j] <=> q > p \/ (q = p /\ j > i)
  <2>1. CASE q < p
    BY <1>1, <1>2, <2>1
  <2>2. CASE q > p
    BY <1>1, <1>2, <2>2
  <2>3. CASE q = p /\ j > i
    <3>1. j \in i + 1 .. Len(K(p))
      BY <1>1, <2>3
    <3>2. K(q)[j] >= k
      BY <1>2, <2>3, <3>1
    <3> QED
      BY <1>1, <2>3, <3>2
  <2>4. CASE q = p /\ ~ (j > i)
    <3>1. j \in 1 .. i
      BY <1>1, <2>4
    <3>2. K(q)[j] < k
      BY <1>2, <2>4, <3>1
    <3> QED
      BY <1>1, <2>4, <3>2
  <2> QED
    BY <1>1, <2>1, <2>2, <2>3, <2>4
<1>7. \A y : y \in KeysFrom(p, i) <=> y \in DOMAIN contents /\ k <= y
  <2>1. ASSUME NEW y \in KeysFrom(p, i) PROVE y \in DOMAIN contents /\ k <= y
    <3>1. PICK q \in 1 .. N : \E j \in 1 .. Len(K(q)) : K(q)[j] = y /\ (q > p \/ (q = p /\ j > i))
      BY <1>4
    <3>2. PICK j \in 1 .. Len(K(q)) : K(q)[j] = y /\ (q > p \/ (q = p /\ j > i))
      BY <3>1
    <3>3. k <= K(q)[j]
      BY <1>6, <3>2
    <3> QED
      BY <1>3, <3>2, <3>3
  <2>2. ASSUME NEW y \in DOMAIN contents, k <= y PROVE y \in KeysFrom(p, i)
    <3>1. y \in Int
      BY <1>3
    <3>2. PICK q \in 1 .. N : \E j \in 1 .. Len(K(q)) : K(q)[j] = y
      BY <1>3
    <3>3. PICK j \in 1 .. Len(K(q)) : K(q)[j] = y
      BY <3>2
    <3>4. q > p \/ (q = p /\ j > i)
      BY <1>6, <2>2, <3>3
    <3> QED
      BY <1>4, <3>1, <3>3, <3>4
  <2> QED
    BY <2>1, <2>2
<1>8. KeysFrom(p, i) = {y \in DOMAIN contents : k <= y}
  BY <1>7
<1>9. i \in 0 .. Len(K(p)) - 1 /\ i + 1 \in 1 .. Len(K(p)) /\ i + 1 > i
  BY <1>1, <1>5
<1>10. K(p)[i + 1] \in KeysFrom(p, i)
  <2> DEFINE e == i + 1
  <2>1. e \in 1 .. Len(K(p)) /\ e > i /\ K(p)[e] \in Int
    BY <1>1, <1>9
  <2> HIDE DEF e
  <2>2. K(p)[e] \in KeysFrom(p, i)
    BY <1>1, <1>4, <2>1
  <2> QED
    BY <2>2 DEF e
<1>11. \A y \in KeysFrom(p, i) : K(p)[i + 1] <= y
  <2> DEFINE x == LeafKey(p)[i + 1]
             L == Len(LeafKey(p))
  <2>1. /\ i + 1 < L => Leads(x, KeysFrom(p, i), KeysFrom(p, i + 1))
        /\ i + 1 = L /\ p < N => Leads(x, KeysFrom(p, i), KeysFrom(p + 1, 0))
        /\ i + 1 = L /\ p = N => Leads(x, KeysFrom(p, i), {})
    BY <1>1, <1>9, KeysBehind DEF N, K
  <2>2. i + 1 < L \/ (i + 1 = L /\ p < N) \/ (i + 1 = L /\ p = N)
    <3>1. L \in Nat /\ i \in Nat /\ i + 1 <= L
      BY <1>1, <1>9 DEF K
    <3> HIDE DEF L
    <3> QED
      BY <1>1, <3>1
  <2>3. \A T : Leads(x, KeysFrom(p, i), T) => \A z \in KeysFrom(p, i) : x <= z
    BY DEF Leads
  <2> HIDE DEF x, L
  <2>4. \A z \in KeysFrom(p, i) : x <= z
    BY <2>1, <2>2, <2>3
  <2> QED
    BY <2>4 DEF x, K
<1> QED
  BY <1>8, <1>10, <1>11 DEF K

\* What bplus_tree_get_range answers for the keys between k and l.
LastOf(k, l) ==
  LET within == {j \in DOMAIN contents : k <= j /\ j <= l}
      above == {j \in DOMAIN contents : j > l}
      last == CHOOSE j \in within : \A m \in within : m <= j
  IN IF above = {} THEN -1 ELSE IF within = {} THEN 0 ELSE contents[last].first

\* From there the walk ends at the last key of the range.
LEMMA WalkFindsLast ==
  ASSUME Walkable, Covers, NEW k \in Int, NEW l \in Int, k <= l,
         NEW p, NEW i, Starts(k, p, i), i < Len(LeafKey(p))
  PROVE  RangeWalk(l)[<<p, i, 0>>] = {LastOf(k, l)}
<1> DEFINE S == KeysFrom(p, i)
           x == LeafKey(p)[i + 1]
           within == {j \in DOMAIN contents : k <= j /\ j <= l}
           above == {j \in DOMAIN contents : j > l}
           last == CHOOSE j \in within : \A m \in within : m <= j
<1>1. /\ S = {y \in DOMAIN contents : k <= y}
      /\ x \in S /\ \A y \in S : x <= y
  BY KeysNotBelow
<1>2. /\ p \in 1 .. Len(list[0]) /\ i \in 0 .. Entries /\ 0 \in AnyAnswer
      /\ ~ (i >= Len(LeafKey(p)))
  <2>1. p \in 1 .. Len(list[0]) /\ i \in 0 .. Len(LeafKey(p))
    BY DEF Starts
  <2>2. Len(LeafKey(p)) \in Nat /\ Len(LeafKey(p)) <= Entries
    BY <2>1 DEF Walkable
  <2>3. 0 \in AnyAnswer
    <3>1. 0 \in {-1, 0}
      OBVIOUS
    <3> QED
      BY <3>1, Zenon DEF AnyAnswer
  <2> QED
    BY <2>1, <2>2, <2>3, EntriesAssumption
<1>3. RangeWalk(l)[<<p, i, 0>>] = WalkAnswer(l, p, i, 0)
  BY <1>2, WalkIs
<1>4. WalkAnswer(l, p, i, 0) =
        IF \A y \in S : y <= l THEN {-1}
        ELSE IF x > l THEN {0} ELSE {contents[LastWithin(S, l)].first}
  BY <1>2 DEF WalkAnswer
<1>5. \A y \in DOMAIN contents : y \in Int
  BY DEF Covers
<1>6. {y \in S : y <= l} = within
  BY <1>1
<1>7. LastWithin(S, l) = last
  <2> HIDE DEF within, S
  <2> QED
    BY <1>6, Zenon DEF LastWithin
<1>8. (\A y \in S : y <= l) <=> above = {}
  <2>1. ASSUME \A y \in S : y <= l PROVE above = {}
    <3> SUFFICES ASSUME NEW y \in above PROVE FALSE
      OBVIOUS
    <3>1. y \in DOMAIN contents /\ y \in Int /\ y > l
      BY <1>5
    <3>2. y \in S
      BY <1>1, <3>1
    <3> HIDE DEF S
    <3> QED
      BY <2>1, <3>1, <3>2
  <2>2. ASSUME above = {} PROVE \A y \in S : y <= l
    <3> SUFFICES ASSUME NEW y \in S PROVE y <= l
      OBVIOUS
    <3>1. y \in DOMAIN contents /\ y \in Int
      BY <1>1, <1>5
    <3>2. y \notin above
      BY <2>2
    <3> HIDE DEF S
    <3> QED
      BY <3>1, <3>2
  <2> QED
    BY <2>1, <2>2
<1>9. x > l <=> within = {}
  <2>1. x \in Int /\ x \in S
    BY <1>1, <1>5
  <2> HIDE DEF x, within, S
  <2>2. ASSUME x > l PROVE within = {}
    <3> SUFFICES ASSUME NEW y \in within PROVE FALSE
      OBVIOUS
    <3>1. y \in S /\ y <= l
      BY <1>6
    <3>2. x <= y /\ y \in Int
      BY <1>1, <1>5, <3>1 DEF x
    <3> QED
      BY <2>1, <2>2, <3>1, <3>2
  <2>3. ASSUME ~ (x > l) PROVE within # {}
    <3>1. x <= l
      BY <2>1, <2>3
    <3> QED
      BY <1>6, <2>1, <3>1
  <2> QED
    BY <2>2, <2>3
<1>10. LastOf(k, l) = IF above = {} THEN -1 ELSE IF within = {} THEN 0 ELSE contents[last].first
  BY DEF LastOf
<1> HIDE DEF S, x, within, above, last
<1>11. CASE above = {}
  BY <1>3, <1>4, <1>8, <1>10, <1>11
<1>12. CASE above # {} /\ within = {}
  BY <1>3, <1>4, <1>8, <1>9, <1>10, <1>12
<1>13. CASE above # {} /\ within # {}
  BY <1>3, <1>4, <1>7, <1>8, <1>9, <1>10, <1>13
<1> QED
  BY <1>11, <1>12, <1>13

\* The order of the two keys does not matter.
LEMMA RangeFrom ==
  ASSUME NEW k \in Int, NEW l \in Int, k <= l, root # Null
  PROVE  LET leaf == LeafFor(k)
             found == KeyBinarySearch(heap[leaf].key, k)
             i == IF found < 0 THEN - found - 1 ELSE found
             p == PlaceIn(list[0], leaf)
             answer == IF i < Len(heap[leaf].key) THEN RangeWalk(l)[<<p, i, 0>>]
                       ELSE IF p = Len(list[0]) THEN {-1}
                       ELSE RangeWalk(l)[<<p + 1, i, 0>>]
         IN GetRange(k, l) = answer /\ GetRange(l, k) = answer
<1> DEFINE min(a, b) == IF a <= b THEN a ELSE b
           max(a, b) == IF min(a, b) = a THEN b ELSE a
           leaf(a) == LeafFor(a)
           found(a) == KeyBinarySearch(heap[leaf(a)].key, a)
           i(a) == IF found(a) < 0 THEN - found(a) - 1 ELSE found(a)
           p(a) == PlaceIn(list[0], leaf(a))
           answer(a, b) == IF i(a) < Len(heap[leaf(a)].key) THEN RangeWalk(b)[<<p(a), i(a), 0>>]
                           ELSE IF p(a) = Len(list[0]) THEN {-1}
                           ELSE RangeWalk(b)[<<p(a) + 1, i(a), 0>>]
<1>1. \A a, b : GetRange(a, b) = answer(min(a, b), max(a, b))
  BY DEF GetRange
<1>2. min(k, l) = k /\ max(k, l) = l /\ min(l, k) = k /\ max(l, k) = l
  OBVIOUS
<1> HIDE DEF min, max, answer
<1>3. GetRange(k, l) = answer(k, l) /\ GetRange(l, k) = answer(k, l)
  BY <1>1, <1>2
<1> QED
  BY <1>3 DEF answer

\* What bplus_tree_get_range answers follows from the invariant.
LEMMA RangeFollows ==
  ASSUME TreeInvariant, level < MaxLevel, Recording
  PROVE  RangeFindsLast
<1> SUFFICES ASSUME work = Idle, root # Null, NEW k \in Keys, NEW l \in Keys, k <= l,
                    InsideItsLeaf(k) \/ BehindAllLeaves(k)
             PROVE  GetRange(k, l) = {LastOf(k, l)} /\ GetRange(l, k) = {LastOf(k, l)}
  BY DEF RangeFindsLast, LastOf
<1>1. PICK g : TreeIs(heap, Idle, root, level, list, g)
  BY IdleState DEF TreeInvariant
<1>2. Upright(g) /\ Sizes(heap, root) /\ MapIs(heap, contents)
  BY <1>1, IdleTree, IdleState DEF Upright, TreeInvariant
<1>3. Walkable /\ Covers
  BY <1>2, WalkableNow
<1>4. k \in Int /\ l \in Int
  BY TreeKeysAssumption
<1> DEFINE leaf == LeafFor(k)
           found == KeyBinarySearch(heap[leaf].key, k)
           i == IF found < 0 THEN - found - 1 ELSE found
           p == PlaceIn(list[0], leaf)
<1>5. list[0][p] = leaf /\ Starts(k, p, i)
  BY <1>1, <1>2, <1>3, RangeStarts
<1> DEFINE answer == IF i < Len(heap[leaf].key) THEN RangeWalk(l)[<<p, i, 0>>]
                     ELSE IF p = Len(list[0]) THEN {-1}
                     ELSE RangeWalk(l)[<<p + 1, i, 0>>]
<1>6. GetRange(k, l) = answer /\ GetRange(l, k) = answer
  BY <1>4, RangeFrom
<1> HIDE DEF leaf, found, i, p
<1>7. heap[leaf].key = LeafKey(p)
  BY <1>5 DEF LeafKey
<1>8. CASE i < Len(LeafKey(p))
  <2>1. RangeWalk(l)[<<p, i, 0>>] = {LastOf(k, l)}
    BY <1>3, <1>4, <1>5, <1>8, WalkFindsLast
  <2> QED
    BY <1>6, <1>7, <1>8, <2>1
<1>9. CASE ~ (i < Len(LeafKey(p)))
  <2> DEFINE N == Len(list[0])
  <2>1. /\ N \in Nat /\ p \in 1 .. N /\ i \in 0 .. Len(LeafKey(p))
        /\ \A q \in 1 .. N : 1 \in 1 .. Len(LeafKey(q)) /\ Len(LeafKey(q)) \in Nat
                             /\ LeafKey(q)[1] \in Int
        /\ DOMAIN LeafKey(p) = 1 .. Len(LeafKey(p))
    <3>1. LeafKey(p) \in Seq(Keys)
      BY <1>2, <1>5, LeavesAre DEF Starts, Run, LeafKey
    <3> QED
      BY <1>3, <1>5, <3>1, LenProperties DEF Walkable, Starts
  <2>2. i = Len(LeafKey(p))
    <3> DEFINE L == Len(LeafKey(p))
    <3>1. L \in Nat /\ i \in 0 .. L /\ ~ (i < L)
      BY <1>9, <2>1
    <3> HIDE DEF L
    <3>2. i = L
      BY ONLY <3>1
    <3> QED
      BY <3>2 DEF L
  <2>3. \A j \in 1 .. Len(LeafKey(p)) : LeafKey(p)[j] < k /\ LeafKey(p)[j] \in Int
    BY <1>3, <1>5, <2>2 DEF Starts, Walkable
  <2>4. ~ InsideItsLeaf(k)
    <3>1. InsideItsLeaf(k) <=> \E j \in DOMAIN LeafKey(p) : LeafKey(p)[j] >= k
      BY <1>7 DEF InsideItsLeaf, leaf
    <3> QED
      BY <1>4, <2>1, <2>3, <3>1
  <2>5. \A y \in DOMAIN contents : y < k /\ y \in Int
    BY <1>3, <2>4 DEF BehindAllLeaves, Covers
  <2>6. p = N
    <3> SUFFICES ASSUME p # N PROVE FALSE
      OBVIOUS
    <3> DEFINE q == p + 1
    <3>1. q \in 1 .. N /\ q > p
      BY <2>1
    <3> HIDE DEF q
    <3>2. LeafKey(q)[1] > k /\ LeafKey(q)[1] \in DOMAIN contents
      BY <1>3, <1>5, <2>1, <3>1 DEF Starts, Covers
    <3> QED
      BY <1>4, <2>5, <3>2
  <2>7. answer = {-1}
    BY <1>7, <1>9, <2>6
  <2>8. LastOf(k, l) = -1
    <3>1. {j \in DOMAIN contents : j > l} = {}
      BY <1>4, <2>5
    <3> QED
      BY <3>1 DEF LastOf
  <2> QED
    BY <1>6, <2>7, <2>8
<1> QED
  BY <1>8, <1>9

-----------------------------------------------------------------------------
(***************************************************************************)
(* The theorems.                                                           *)
(***************************************************************************)

\* The fields of the tree keep their types: every node is a node, whose parent
\* is a node or none, root is a node or none, level and list stay within
\* BPLUS_MAX_LEVEL (bplustree.h:74-123).
THEOREM TreeTypes == Spec /\ [](level < MaxLevel) => []TypeOK
<1>1. TreeInvariant /\ level < MaxLevel /\ Plain => TypeOK
  BY TypesFollow
<1> QED
  BY <1>1, TreeIsSound, TreeIsPlain, PTL

\* No put and no delete, at whatever point of a split or a merge, leaves a node
\* with more entries than its arrays hold, or between two calls a node but the
\* root with less than half of them (bplustree.c:443-468, 561-584, 747-787,
\* 889-928).
THEOREM NodesStayWithinBounds == Spec /\ [](level < MaxLevel) => []FillBounds
<1>1. TreeInvariant => FillBounds
  BY BoundsFollow
<1> QED
  BY <1>1, TreeIsSound, PTL

\* The assertions of the insertion and of the removal hold: a separator is new
\* to its node (bplustree.c:440), a root that collapses keeps its first child
\* (776), a node that loses a child has two (735).
THEOREM AssertionsNeverFail == Spec /\ [](level < MaxLevel) => []AssertionsHold
<1>1. TreeInvariant => AssertionsHold
  BY AssertionsFollow
<1> QED
  BY <1>1, TreeIsSound, PTL

\* Between two calls the parent links, the places in the parents and the lists
\* of the levels all describe the same tree, and nothing is left allocated
\* outside it (bplustree.h:74-108).
THEOREM LinksStayInAgreement == Spec /\ [](level < MaxLevel) => []LinksAgree
<1>1. TreeInvariant /\ level < MaxLevel => LinksAgree
  BY LinksFollow
<1> QED
  BY <1>1, TreeIsSound, PTL

\* Between two calls the leaves, from left to right, hold the keys that were
\* put and not deleted since, in order and once each, with the data of the put
\* that created the entry (bplustree.c:412-587, 637-931).
THEOREM LeavesAreTheMap == Spec /\ [](level < MaxLevel) => []LeavesHoldTheMap
<1>1. TreeInvariant /\ level < MaxLevel => LeavesHoldTheMap
  BY MapFollows
<1> QED
  BY <1>1, TreeIsSound, PTL

\* bplus_tree_get finds each key that is there, wherever splits and merges have
\* taken it, and no other (bplustree.c:205-227).
THEOREM GetFindsEveryEntry == Spec /\ [](level < MaxLevel) => []GetFindsTheEntry
<1>1. TreeInvariant /\ level < MaxLevel => GetFindsTheEntry
  BY GetFollows
<1> QED
  BY <1>1, TreeIsSound, PTL

\* bplus_tree_get_range answers with the data of the last key of its range,
\* across leaves, unless its lower key lies between two leaves
\* (bplustree.c:1026-1070).
THEOREM RangeFindsTheLast == Spec /\ [](level < MaxLevel) => []RangeFindsLast
<1>1. TreeInvariant /\ level < MaxLevel /\ Recording => RangeFindsLast
  BY RangeFollows
<1> QED
  BY <1>1, TreeIsSound, ContentsAreData, PTL
=============================================================================
