--------------------------- MODULE BPlusTreeFacts ---------------------------
(***************************************************************************)
(* Lemmas about the B+ tree (BPlusTree.tla) that do not depend on its      *)
(* actions: what a tree is, what its changes make of it, and the inductive *)
(* invariant that BPlusTreeProofs shows to hold.                           *)
(*                                                                         *)
(* The invariant, TreeInvariant, looks at the tree as it will be when the  *)
(* call that is pending in work has been done in the simplest way:         *)
(* Settled(heap, work) is the heap after the separator has been put into   *)
(* the parent, or after the merged child has been taken out of it, without *)
(* another split or merge.  Of that tree it says (TreeIs) that a ghost g   *)
(* gives each node an interval of keys and a depth, such that              *)
(*   - Shape: the root covers all keys, the children of a node divide its  *)
(*     interval at its keys, one level down, and the leaves are at depth 0;*)
(*   - Links: parent and parent_key_idx lead back to the slot of a child;  *)
(*   - Chain: list[l] names the nodes of depth l in order;                 *)
(* and of the heap itself that each node is within its bounds (Sizes) and  *)
(* that the leaves hold the map (MapIs).                                   *)
(***************************************************************************)
EXTENDS BPlusTree, SequenceTheorems, FiniteSetTheorems, WellFoundedInduction, TLAPS

\* A non-empty set of naturals has a smallest element.
LEMMA SmallestNat ==
  ASSUME NEW T, T \subseteq Nat, T # {}
  PROVE  \E x \in T : \A y \in T : x <= y
<1>1. PICK x \in T : \A y \in T : ~ (<<y, x>> \in OpToRel(<, Nat))
  BY NatLessThanWellFounded, WFMin, Zenon
<1>2. \A y \in T : ~ (y < x)
  BY <1>1 DEF OpToRel
<1> QED
  BY <1>2

-----------------------------------------------------------------------------
(***************************************************************************)
(* Sequences.                                                              *)
(***************************************************************************)

\* t is s with e put in as its i-th element.
Added(t, S, s, i, e) ==
  /\ t \in Seq(S)
  /\ Len(t) = Len(s) + 1
  /\ \A j \in 1 .. Len(s) + 1 : t[j] = IF j < i THEN s[j] ELSE IF j = i THEN e ELSE s[j - 1]

\* The elements of InsertAt.
LEMMA InsertAtIs ==
  ASSUME NEW S, NEW s \in Seq(S), NEW i \in 1 .. Len(s) + 1, NEW e \in S
  PROVE  Added(InsertAt(s, i, e), S, s, i, e)
<1> DEFINE p == SubSeq(s, 1, i - 1)
           q == SubSeq(s, i, Len(s))
<1>0. Len(s) \in Nat /\ \A j \in 1 .. Len(s) : s[j] \in S
  BY LenProperties, ElementOfSeq
<1>1. p \in Seq(S) /\ Len(p) = i - 1 /\ \A j \in 1 .. i - 1 : p[j] = s[j]
  <2>1. \A j \in 1 .. i - 1 : s[j] \in S
    BY <1>0
  <2>2. 1 \in Int /\ i - 1 \in Int
    OBVIOUS
  <2>3. /\ p \in Seq(S) /\ Len(p) = IF 1 <= i - 1 THEN i - 1 - 1 + 1 ELSE 0
        /\ \A j \in 1 .. i - 1 - 1 + 1 : p[j] = s[1 + j - 1]
    BY <2>1, <2>2, SubSeqProperties
  <2> HIDE DEF p
  <2> QED
    BY <2>3
<1>2. q \in Seq(S) /\ Len(q) = Len(s) - i + 1 /\ \A j \in 1 .. Len(s) - i + 1 : q[j] = s[i + j - 1]
  <2>1. \A j \in i .. Len(s) : s[j] \in S
    BY <1>0
  <2>2. /\ q \in Seq(S) /\ Len(q) = IF i <= Len(s) THEN Len(s) - i + 1 ELSE 0
        /\ \A j \in 1 .. Len(s) - i + 1 : q[j] = s[i + j - 1]
    BY <1>0, <2>1, SubSeqProperties
  <2> HIDE DEF q
  <2> QED
    BY <1>0, <2>2
<1>3. <<e>> \in Seq(S) /\ Len(<<e>>) = 1 /\ <<e>>[1] = e
  OBVIOUS
<1>4. InsertAt(s, i, e) = (p \o <<e>>) \o q
  BY DEF InsertAt
<1> HIDE DEF p, q
<1>5. /\ p \o <<e>> \in Seq(S) /\ Len(p \o <<e>>) = i
      /\ \A j \in 1 .. i : (p \o <<e>>)[j] = IF j < i THEN s[j] ELSE e
  <2>1. /\ p \o <<e>> \in Seq(S) /\ Len(p \o <<e>>) = Len(p) + 1
        /\ \A j \in 1 .. Len(p) + 1 :
             (p \o <<e>>)[j] = IF j <= Len(p) THEN p[j] ELSE <<e>>[j - Len(p)]
    BY <1>1, <1>3, ConcatProperties
  <2> QED
    BY <1>1, <1>3, <2>1
<1> DEFINE r == p \o <<e>>
<1> HIDE DEF r
<1>r. r \in Seq(S) /\ Len(r) = i /\ \A j \in 1 .. i : r[j] = IF j < i THEN s[j] ELSE e
  BY <1>5 DEF r
<1>6. /\ r \o q \in Seq(S) /\ Len(r \o q) = Len(r) + Len(q)
      /\ \A j \in 1 .. Len(r) + Len(q) :
           (r \o q)[j] = IF j <= Len(r) THEN r[j] ELSE q[j - Len(r)]
  BY <1>2, <1>r, ConcatProperties
<1>7. Len(r \o q) = Len(s) + 1
  BY <1>0, <1>2, <1>r, <1>6
<1>8. ASSUME NEW j \in 1 .. Len(s) + 1
      PROVE  (r \o q)[j] = IF j < i THEN s[j] ELSE IF j = i THEN e ELSE s[j - 1]
  <2>1. (r \o q)[j] = IF j <= i THEN r[j] ELSE q[j - i]
    BY <1>0, <1>2, <1>r, <1>6
  <2>2. CASE j <= i
    <3>1. j \in 1 .. i
      BY <2>2
    <3>2. r[j] = IF j < i THEN s[j] ELSE e
      BY <1>r, <3>1
    <3>3. j < i \/ j = i
      BY <2>2
    <3> QED
      BY <2>1, <2>2, <3>2, <3>3
  <2>3. CASE j > i
    <3>1. j - i \in 1 .. Len(s) - i + 1 /\ i + (j - i) - 1 = j - 1
      BY <1>0, <2>3
    <3>2. q[j - i] = s[j - 1]
      BY <1>2, <3>1
    <3> QED
      BY <2>1, <2>3, <3>2
  <2>4. j <= i \/ j > i
    BY <1>0
  <2> QED
    BY <2>2, <2>3, <2>4, Zenon
<1> QED
  BY <1>4, <1>6, <1>7, <1>8 DEF Added, r

\* The elements of SubSeq.
LEMMA PartIs ==
  ASSUME NEW S, NEW s \in Seq(S), NEW m \in Int, NEW n \in Int,
         1 <= m, n <= Len(s), m <= n + 1
  PROVE  /\ SubSeq(s, m, n) \in Seq(S)
         /\ Len(SubSeq(s, m, n)) = n - m + 1
         /\ \A j \in 1 .. n - m + 1 : SubSeq(s, m, n)[j] = s[m + j - 1]
<1>1. \A j \in m .. n : s[j] \in S
  <2> SUFFICES ASSUME NEW j \in m .. n PROVE s[j] \in S
    OBVIOUS
  <2>1. Len(s) \in Nat
    BY LenProperties
  <2>2. j \in 1 .. Len(s)
    BY <2>1
  <2> QED
    BY <2>2, ElementOfSeq
<1> DEFINE p == SubSeq(s, m, n)
<1>2. /\ p \in Seq(S) /\ Len(p) = IF m <= n THEN n - m + 1 ELSE 0
      /\ \A j \in 1 .. n - m + 1 : p[j] = s[m + j - 1]
  BY <1>1, SubSeqProperties
<1> HIDE DEF p
<1>3. Len(p) = n - m + 1
  BY <1>2
<1>4. p \in Seq(S) /\ Len(p) = n - m + 1 /\ \A j \in 1 .. n - m + 1 : p[j] = s[m + j - 1]
  BY <1>2, <1>3
<1> QED
  BY <1>4 DEF p

\* The elements of RemoveAt.
LEMMA RemoveAtIs ==
  ASSUME NEW S, NEW s \in Seq(S), NEW i \in 1 .. Len(s)
  PROVE  /\ RemoveAt(s, i) \in Seq(S)
         /\ Len(RemoveAt(s, i)) = Len(s) - 1
         /\ \A j \in 1 .. i - 1 : RemoveAt(s, i)[j] = s[j]
         /\ \A j \in i .. Len(s) - 1 : RemoveAt(s, i)[j] = s[j + 1]
<1> DEFINE p == SubSeq(s, 1, i - 1)
           q == SubSeq(s, i + 1, Len(s))
<1>0. Len(s) \in Nat
  BY LenProperties
<1>1. p \in Seq(S) /\ Len(p) = i - 1 /\ \A j \in 1 .. i - 1 : p[j] = s[j]
  <2>0. 1 \in Int /\ i - 1 \in Int /\ 1 <= 1 /\ i - 1 <= Len(s) /\ 1 <= i - 1 + 1
    BY <1>0
  <2>1. /\ p \in Seq(S) /\ Len(p) = i - 1 - 1 + 1
        /\ \A j \in 1 .. i - 1 - 1 + 1 : p[j] = s[1 + j - 1]
    BY <2>0, PartIs
  <2> HIDE DEF p
  <2> QED
    BY <2>1
<1>2. q \in Seq(S) /\ Len(q) = Len(s) - i /\ \A j \in 1 .. Len(s) - i : q[j] = s[i + j]
  <2>0. i + 1 \in Int /\ Len(s) \in Int /\ 1 <= i + 1 /\ Len(s) <= Len(s) /\ i + 1 <= Len(s) + 1
    BY <1>0
  <2>1. /\ q \in Seq(S) /\ Len(q) = Len(s) - (i + 1) + 1
        /\ \A j \in 1 .. Len(s) - (i + 1) + 1 : q[j] = s[i + 1 + j - 1]
    BY <2>0, PartIs
  <2> HIDE DEF q
  <2> QED
    BY <1>0, <2>1
<1>3. RemoveAt(s, i) = p \o q
  BY DEF RemoveAt
<1> HIDE DEF p, q
<1>4. /\ p \o q \in Seq(S) /\ Len(p \o q) = Len(p) + Len(q)
      /\ \A j \in 1 .. Len(p) + Len(q) :
           (p \o q)[j] = IF j <= Len(p) THEN p[j] ELSE q[j - Len(p)]
  BY <1>1, <1>2, ConcatProperties
<1> DEFINE r == p \o q
<1> HIDE DEF r
<1>5. /\ r \in Seq(S) /\ Len(r) = Len(s) - 1
      /\ \A j \in 1 .. i - 1 : r[j] = s[j]
      /\ \A j \in i .. Len(s) - 1 : r[j] = s[j + 1]
  <2>1. r \in Seq(S) /\ Len(r) = Len(s) - 1
    BY <1>0, <1>1, <1>2, <1>4 DEF r
  <2>2. ASSUME NEW j \in 1 .. i - 1 PROVE r[j] = s[j]
    <3>1. r[j] = p[j]
      BY <1>0, <1>1, <1>2, <1>4 DEF r
    <3> QED
      BY <3>1, <1>1
  <2>3. ASSUME NEW j \in i .. Len(s) - 1 PROVE r[j] = s[j + 1]
    <3>1. r[j] = q[j - (i - 1)]
      BY <1>0, <1>1, <1>2, <1>4 DEF r
    <3>2. j - (i - 1) \in 1 .. Len(s) - i /\ i + (j - (i - 1)) = j + 1
      BY <1>0
    <3> QED
      BY <3>1, <3>2, <1>2
  <2> QED
    BY <2>1, <2>2, <2>3
<1> QED
  BY <1>3, <1>5 DEF r

\* s with its element i + 1 replaced by a and b.
TwoFor(s, i, a, b) == SubSeq(s, 1, i) \o <<a, b>> \o SubSeq(s, i + 2, Len(s))

\* t is s with a and b in the place of its element i + 1.
Doubled(t, S, s, i, a, b) ==
  /\ t \in Seq(S)
  /\ Len(t) = Len(s) + 1
  /\ \A j \in 1 .. i : t[j] = s[j]
  /\ t[i + 1] = a
  /\ t[i + 2] = b
  /\ \A j \in i + 2 .. Len(s) : t[j + 1] = s[j]

\* The elements of a sequence in which two stand for one.
LEMMA ReplacedByTwo ==
  ASSUME NEW S, NEW s \in Seq(S), NEW i \in 0 .. Len(s) - 1, NEW a \in S, NEW b \in S
  PROVE  Doubled(TwoFor(s, i, a, b), S, s, i, a, b)
<1> DEFINE p == SubSeq(s, 1, i)
           m == <<a, b>>
           q == SubSeq(s, i + 2, Len(s))
           r == TwoFor(s, i, a, b)
<1>0. Len(s) \in Nat
  BY LenProperties
<1>1. p \in Seq(S) /\ Len(p) = i /\ \A j \in 1 .. i : p[j] = s[j]
  <2>0. 1 \in Int /\ i \in Int /\ 1 <= 1 /\ i <= Len(s) /\ 1 <= i + 1
    BY <1>0
  <2>1. /\ p \in Seq(S) /\ Len(p) = i - 1 + 1
        /\ \A j \in 1 .. i - 1 + 1 : p[j] = s[1 + j - 1]
    BY <2>0, PartIs
  <2> HIDE DEF p
  <2> QED
    BY <2>1
<1>2. q \in Seq(S) /\ Len(q) = Len(s) - i - 1 /\ \A j \in 1 .. Len(s) - i - 1 : q[j] = s[i + 1 + j]
  <2>0. i + 2 \in Int /\ Len(s) \in Int /\ 1 <= i + 2 /\ Len(s) <= Len(s) /\ i + 2 <= Len(s) + 1
    BY <1>0
  <2>1. /\ q \in Seq(S) /\ Len(q) = Len(s) - (i + 2) + 1
        /\ \A j \in 1 .. Len(s) - (i + 2) + 1 : q[j] = s[i + 2 + j - 1]
    BY <2>0, PartIs
  <2> HIDE DEF q
  <2> QED
    BY <1>0, <2>1
<1>3. m \in Seq(S) /\ Len(m) = 2 /\ m[1] = a /\ m[2] = b
  OBVIOUS
<1>4. r = p \o m \o q
  BY DEF TwoFor
<1> HIDE DEF p, q, m, r
<1>5. /\ p \o m \in Seq(S) /\ Len(p \o m) = Len(p) + Len(m)
      /\ \A j \in 1 .. Len(p) + Len(m) :
           (p \o m)[j] = IF j <= Len(p) THEN p[j] ELSE m[j - Len(p)]
  BY <1>1, <1>3, ConcatProperties
<1> DEFINE t == p \o m
<1> HIDE DEF t
<1>5a. /\ t \in Seq(S) /\ Len(t) = i + 2
       /\ \A j \in 1 .. i + 2 : t[j] = IF j <= i THEN p[j] ELSE m[j - i]
  BY <1>1, <1>3, <1>5 DEF t
<1>6. /\ t \in Seq(S) /\ Len(t) = i + 2 /\ (\A j \in 1 .. i : t[j] = s[j])
      /\ t[i + 1] = a /\ t[i + 2] = b
  <2>0. i \in Nat
    BY <1>0
  <2>1. \A j \in 1 .. i : t[j] = s[j]
    BY ONLY <2>0, <1>1, <1>5a
  <2>2. i + 1 \in 1 .. i + 2 /\ ~ (i + 1 <= i) /\ i + 1 - i = 1
    BY <2>0
  <2>3. i + 2 \in 1 .. i + 2 /\ ~ (i + 2 <= i) /\ i + 2 - i = 2
    BY <2>0
  <2>4. t[i + 1] = m[1] /\ t[i + 2] = m[2]
    BY <1>5a, <2>2, <2>3
  <2> QED
    BY <1>3, <1>5a, <2>1, <2>4
<1>7. /\ t \o q \in Seq(S) /\ Len(t \o q) = Len(t) + Len(q)
      /\ \A j \in 1 .. Len(t) + Len(q) :
           (t \o q)[j] = IF j <= Len(t) THEN t[j] ELSE q[j - Len(t)]
  BY <1>2, <1>6, ConcatProperties
<1>8. r = t \o q
  BY <1>4 DEF t
<1>8a. /\ r \in Seq(S) /\ Len(r) = Len(t) + Len(q)
       /\ \A j \in 1 .. Len(t) + Len(q) : r[j] = IF j <= Len(t) THEN t[j] ELSE q[j - Len(t)]
  BY <1>7, <1>8, Zenon
<1>9. /\ r \in Seq(S) /\ Len(r) = Len(s) + 1
      /\ \A j \in 1 .. Len(s) + 1 : r[j] = IF j <= i + 2 THEN t[j] ELSE q[j - (i + 2)]
  <2>1. Len(t) = i + 2 /\ Len(q) = Len(s) - i - 1 /\ Len(s) \in Nat /\ i \in Nat
    BY <1>0, <1>2, <1>6
  <2>2. Len(t) + Len(q) = Len(s) + 1
    BY <2>1
  <2> QED
    BY <1>8a, <2>1, <2>2
<1>10. ASSUME NEW j \in i + 2 .. Len(s) PROVE r[j + 1] = s[j]
  <2>1. r[j + 1] = q[j + 1 - (i + 2)]
    BY <1>0, <1>9
  <2>2. j + 1 - (i + 2) \in 1 .. Len(s) - i - 1 /\ i + 1 + (j + 1 - (i + 2)) = j
    BY <1>0
  <2> QED
    BY <2>1, <2>2, <1>2
<1>11. \A j \in 1 .. i + 2 : r[j] = t[j]
  BY <1>0, <1>9
<1>12. /\ r \in Seq(S) /\ Len(r) = Len(s) + 1
       /\ \A j \in 1 .. i : r[j] = s[j]
       /\ r[i + 1] = a /\ r[i + 2] = b
       /\ \A j \in i + 2 .. Len(s) : r[j + 1] = s[j]
  BY <1>0, <1>6, <1>9, <1>10, <1>11
<1> QED
  BY <1>12 DEF Doubled, r

-----------------------------------------------------------------------------
(***************************************************************************)
(* Heaps, and what the tree is.                                            *)
(***************************************************************************)

Bottom == CHOOSE b \in Int : \A k \in Keys : b <= k
Top == CHOOSE t \in Int : Bottom < t /\ \A k \in Keys : k < t

Item == Data \cup Nat
NodeRec == [leaf : BOOLEAN, key : Seq(Keys), sub : Seq(Item), parent : Nat, idx : Int]
HeapOK(h) ==
  /\ IsFiniteSet(DOMAIN h)
  /\ DOMAIN h \subseteq Nat \ {0}
  /\ \A n \in DOMAIN h : h[n] \in NodeRec

\* Node n holds the keys from g[n].lo up to g[n].hi, which is not included, and
\* stands g[n].dep levels above the leaves.  The j-th child of an inner node
\* holds the keys from its bound j - 1 up to its bound j.
Bound(h, g, n, j) ==
  IF j = 0 THEN g[n].lo ELSE IF j = Len(h[n].sub) THEN g[n].hi ELSE h[n].key[j]

LeafOK(h, g, n) ==
  /\ Len(h[n].sub) = Len(h[n].key)
  /\ \A i \in 1 .. Len(h[n].key) : g[n].lo <= h[n].key[i] /\ h[n].key[i] < g[n].hi
  /\ \A i, j \in 1 .. Len(h[n].key) : i < j => h[n].key[i] < h[n].key[j]

InnerOK(h, g, n) ==
  /\ Len(h[n].sub) = Len(h[n].key) + 1
  /\ \A i, j \in 0 .. Len(h[n].sub) : i < j => Bound(h, g, n, i) < Bound(h, g, n, j)
  /\ \A j \in 1 .. Len(h[n].sub) :
       /\ h[n].sub[j] \in DOMAIN h
       /\ g[n].dep = g[h[n].sub[j]].dep + 1
       /\ g[h[n].sub[j]].lo = Bound(h, g, n, j - 1)
       /\ g[h[n].sub[j]].hi = Bound(h, g, n, j)

OwnOK(h, g, n) == (h[n].leaf => LeafOK(h, g, n)) /\ (~ h[n].leaf => InnerOK(h, g, n))

\* n is the j-th child of p.
Slot(h, p, j, n) == p \in DOMAIN h /\ ~ h[p].leaf /\ j \in 1 .. Len(h[p].sub) /\ h[p].sub[j] = n

Interval(g, n) == g[n].lo \in Int /\ g[n].hi \in Int /\ g[n].lo < g[n].hi

HasParent(h, n) == \E p \in DOMAIN h : \E j \in 1 .. Len(h[p].sub) : Slot(h, p, j, n)

NodeOK(h, g, rt, lv, n) ==
  /\ Interval(g, n)
  /\ g[n].dep \in 0 .. lv
  /\ h[n].leaf <=> g[n].dep = 0
  /\ OwnOK(h, g, n)
  /\ n # rt => HasParent(h, n)

Shape(h, g, rt, lv) ==
  /\ lv \in Nat
  /\ rt = Null => DOMAIN h = {} /\ lv = 0
  /\ rt # Null => rt \in DOMAIN h /\ g[rt].dep = lv /\ g[rt].lo = Bottom /\ g[rt].hi = Top
  /\ \A n \in DOMAIN h : NodeOK(h, g, rt, lv, n)

Links(h, rt) ==
  /\ \A p \in DOMAIN h : \A j \in 1 .. Len(h[p].sub) :
       Slot(h, p, j, h[p].sub[j]) => h[h[p].sub[j]].parent = p /\ h[h[p].sub[j]].idx = j - 2
  /\ rt # Null => h[rt].parent = Null

\* The lists of the levels hold the nodes of D from left to right.
Chain(ls, D, g) ==
  /\ DOMAIN ls = 0 .. MaxLevel - 1
  /\ \A l \in DOMAIN ls :
       /\ ls[l] \in Seq(D)
       /\ \A i \in 1 .. Len(ls[l]) : g[ls[l][i]].dep = l
       /\ \A n \in D : g[n].dep = l => \E i \in 1 .. Len(ls[l]) : ls[l][i] = n
       /\ \A i, j \in 1 .. Len(ls[l]) : i < j => g[ls[l][i]].hi <= g[ls[l][j]].lo

\* The fields of a node.
LEMMA NodeFields ==
  ASSUME NEW h, HeapOK(h), NEW n \in DOMAIN h
  PROVE  /\ h[n] = [leaf |-> h[n].leaf, key |-> h[n].key, sub |-> h[n].sub,
                    parent |-> h[n].parent, idx |-> h[n].idx]
         /\ h[n].leaf \in BOOLEAN /\ h[n].key \in Seq(Keys) /\ h[n].sub \in Seq(Item)
         /\ h[n].parent \in Nat /\ h[n].idx \in Int
         /\ n \in Nat \ {0} /\ n \in Item
         /\ Len(h[n].key) \in Nat /\ Len(h[n].sub) \in Nat
BY DEF HeapOK, NodeRec, Item

\* Another heap is well formed when it has the same nodes, or fewer, or one more.
LEMMA SetNodeIs ==
  ASSUME NEW h, HeapOK(h), NEW n \in DOMAIN h, NEW key \in Seq(Keys), NEW sub \in Seq(Item)
  PROVE  /\ HeapOK(SetNode(h, n, key, sub)) /\ DOMAIN SetNode(h, n, key, sub) = DOMAIN h
         /\ SetNode(h, n, key, sub)[n].key = key /\ SetNode(h, n, key, sub)[n].sub = sub
         /\ SetNode(h, n, key, sub)[n].leaf = h[n].leaf
         /\ SetNode(h, n, key, sub)[n].parent = h[n].parent
         /\ SetNode(h, n, key, sub)[n].idx = h[n].idx
         /\ \A m \in DOMAIN h \ {n} : SetNode(h, n, key, sub)[m] = h[m]
<1> DEFINE g == SetNode(h, n, key, sub)
<1>1. h[n] \in NodeRec
  BY DEF HeapOK
<1>2. DOMAIN g = DOMAIN h /\ \A m \in DOMAIN h \ {n} : g[m] = h[m]
  BY DEF SetNode
<1>3. g[n] = [leaf |-> h[n].leaf, key |-> key, sub |-> sub, parent |-> h[n].parent, idx |-> h[n].idx]
  BY <1>1 DEF SetNode, NodeRec
<1> HIDE DEF g
<1>4. HeapOK(g)
  <2>1. g[n] \in NodeRec
    BY <1>1, <1>3 DEF NodeRec
  <2>2. \A m \in DOMAIN h \ {n} : g[m] \in NodeRec
    BY <1>2 DEF HeapOK
  <2> QED
    BY <1>2, <2>1, <2>2 DEF HeapOK
<1>5. /\ HeapOK(g) /\ DOMAIN g = DOMAIN h
      /\ g[n].key = key /\ g[n].sub = sub /\ g[n].leaf = h[n].leaf
      /\ g[n].parent = h[n].parent /\ g[n].idx = h[n].idx
      /\ \A m \in DOMAIN h \ {n} : g[m] = h[m]
  BY <1>2, <1>3, <1>4
<1> QED
  BY <1>5 DEF g

\* The children at the given places of n are different nodes.
Apart(h, n, places) ==
  /\ places \subseteq 0 .. Len(h[n].sub) - 1
  /\ \A p, q \in places : h[n].sub[p + 1] = h[n].sub[q + 1] => p = q

\* Renumber sets the places of some children of n and nothing else.
LEMMA RenumberIs ==
  ASSUME NEW h, HeapOK(h), NEW n \in DOMAIN h, NEW places, Apart(h, n, places)
  PROVE  LET g == Renumber(h, n, places) IN
         /\ HeapOK(g) /\ DOMAIN g = DOMAIN h
         /\ \A m \in DOMAIN h : /\ g[m].leaf = h[m].leaf /\ g[m].key = h[m].key
                                /\ g[m].sub = h[m].sub /\ g[m].parent = h[m].parent
         /\ \A p \in places : h[n].sub[p + 1] \in DOMAIN h => g[h[n].sub[p + 1]].idx = p - 1
         /\ \A m \in DOMAIN h : (\A p \in places : h[n].sub[p + 1] # m) => g[m] = h[m]
<1> DEFINE g == Renumber(h, n, places)
<1>1. DOMAIN g = DOMAIN h
  BY DEF Renumber
<1>2. ASSUME NEW p \in places, NEW m \in DOMAIN h, h[n].sub[p + 1] = m
      PROVE  g[m] = [leaf |-> h[m].leaf, key |-> h[m].key, sub |-> h[m].sub,
                     parent |-> h[m].parent, idx |-> p - 1]
  <2>1. p = CHOOSE q \in places : h[n].sub[q + 1] = m
    BY <1>2 DEF Apart
  <2>2. h[m] \in NodeRec
    BY DEF HeapOK
  <2>3. g[m] = [h[m] EXCEPT !.idx = p - 1]
    BY <1>2, <2>1 DEF Renumber
  <2> QED
    BY <2>2, <2>3 DEF NodeRec
<1>3. ASSUME NEW m \in DOMAIN h, \A p \in places : h[n].sub[p + 1] # m
      PROVE  g[m] = h[m]
  BY <1>3 DEF Renumber
<1> HIDE DEF g
<1>4. ASSUME NEW m \in DOMAIN h
      PROVE  /\ g[m].leaf = h[m].leaf /\ g[m].key = h[m].key
             /\ g[m].sub = h[m].sub /\ g[m].parent = h[m].parent
             /\ g[m] \in NodeRec
  <2>1. h[m] \in NodeRec
    BY DEF HeapOK
  <2>2. CASE \A p \in places : h[n].sub[p + 1] # m
    BY <1>3, <2>1, <2>2
  <2>3. CASE \E p \in places : h[n].sub[p + 1] = m
    <3>1. PICK p \in places : h[n].sub[p + 1] = m
      BY <2>3
    <3>2. p - 1 \in Int
      BY DEF Apart
    <3>3. g[m] = [leaf |-> h[m].leaf, key |-> h[m].key, sub |-> h[m].sub,
                  parent |-> h[m].parent, idx |-> p - 1]
      BY <1>2, <3>1
    <3> QED
      BY <2>1, <3>2, <3>3 DEF NodeRec
  <2> QED
    BY <2>2, <2>3
<1>5. HeapOK(g)
  <2>1. \A m \in DOMAIN h : g[m] \in NodeRec
    BY <1>4
  <2> QED
    BY <1>1, <2>1 DEF HeapOK
<1>6. ASSUME NEW p \in places, h[n].sub[p + 1] \in DOMAIN h
      PROVE  g[h[n].sub[p + 1]].idx = p - 1
  <2>1. g[h[n].sub[p + 1]] =
          [leaf |-> h[h[n].sub[p + 1]].leaf, key |-> h[h[n].sub[p + 1]].key,
           sub |-> h[h[n].sub[p + 1]].sub, parent |-> h[h[n].sub[p + 1]].parent, idx |-> p - 1]
    BY <1>2, <1>6
  <2> QED
    BY <2>1
<1> QED
  BY <1>1, <1>3, <1>4, <1>5, <1>6 DEF g

\* Adopt sets the parents and the places of some children of n and nothing
\* else.
LEMMA AdoptIs ==
  ASSUME NEW h, HeapOK(h), NEW n \in DOMAIN h, NEW places, Apart(h, n, places)
  PROVE  LET g == Adopt(h, n, places) IN
         /\ HeapOK(g) /\ DOMAIN g = DOMAIN h
         /\ \A m \in DOMAIN h : /\ g[m].leaf = h[m].leaf /\ g[m].key = h[m].key
                                /\ g[m].sub = h[m].sub
         /\ \A p \in places : h[n].sub[p + 1] \in DOMAIN h =>
              g[h[n].sub[p + 1]].idx = p - 1 /\ g[h[n].sub[p + 1]].parent = n
         /\ \A m \in DOMAIN h : (\A p \in places : h[n].sub[p + 1] # m) => g[m] = h[m]
<1> DEFINE r == Renumber(h, n, places)
           g == Adopt(h, n, places)
<1>1. /\ HeapOK(r) /\ DOMAIN r = DOMAIN h
      /\ \A m \in DOMAIN h : /\ r[m].leaf = h[m].leaf /\ r[m].key = h[m].key
                             /\ r[m].sub = h[m].sub /\ r[m].parent = h[m].parent
      /\ \A p \in places : h[n].sub[p + 1] \in DOMAIN h => r[h[n].sub[p + 1]].idx = p - 1
      /\ \A m \in DOMAIN h : (\A p \in places : h[n].sub[p + 1] # m) => r[m] = h[m]
  BY RenumberIs
<1>2. DOMAIN g = DOMAIN h
  BY DEF Adopt
<1>3. ASSUME NEW m \in DOMAIN h, \E p \in places : h[n].sub[p + 1] = m
      PROVE  g[m] = [r[m] EXCEPT !.parent = n]
  BY <1>3 DEF Adopt
<1>4. ASSUME NEW m \in DOMAIN h, \A p \in places : h[n].sub[p + 1] # m
      PROVE  g[m] = h[m]
  BY <1>4 DEF Adopt
<1> HIDE DEF r, g
<1>5. ASSUME NEW m \in DOMAIN h
      PROVE  /\ g[m].leaf = h[m].leaf /\ g[m].key = h[m].key /\ g[m].sub = h[m].sub
             /\ g[m] \in NodeRec
             /\ (\E p \in places : h[n].sub[p + 1] = m) => g[m].idx = r[m].idx /\ g[m].parent = n
  <2>1. r[m] \in NodeRec /\ h[m] \in NodeRec
    BY <1>1 DEF HeapOK
  <2>2. CASE \A p \in places : h[n].sub[p + 1] # m
    BY <1>4, <2>1, <2>2
  <2>3. CASE \E p \in places : h[n].sub[p + 1] = m
    <3>1. n \in Nat
      BY DEF HeapOK
    <3>2. g[m] = [r[m] EXCEPT !.parent = n]
      BY <1>3, <2>3
    <3> QED
      BY <1>1, <2>1, <3>1, <3>2 DEF NodeRec
  <2> QED
    BY <2>2, <2>3
<1>6. HeapOK(g)
  BY <1>2, <1>5 DEF HeapOK
<1>7. ASSUME NEW p \in places, h[n].sub[p + 1] \in DOMAIN h
      PROVE  g[h[n].sub[p + 1]].idx = p - 1 /\ g[h[n].sub[p + 1]].parent = n
  BY <1>1, <1>5, <1>7
<1> QED
  BY <1>2, <1>4, <1>5, <1>6, <1>7 DEF g

\* A heap with one node more.
LEMMA WithIs ==
  ASSUME NEW h, HeapOK(h), NEW n \in Nat \ {0}, NEW r \in NodeRec
  PROVE  /\ HeapOK(With(h, n, r)) /\ DOMAIN With(h, n, r) = DOMAIN h \cup {n}
         /\ With(h, n, r)[n] = r
         /\ \A m \in DOMAIN h \ {n} : With(h, n, r)[m] = h[m]
<1>1. IsFiniteSet(DOMAIN h \cup {n})
  BY FS_AddElement DEF HeapOK
<1> QED
  BY <1>1 DEF With, HeapOK

\* A heap with one node less.
LEMMA WithoutIs ==
  ASSUME NEW h, HeapOK(h), NEW n
  PROVE  /\ HeapOK(Without(h, n)) /\ DOMAIN Without(h, n) = DOMAIN h \ {n}
         /\ \A m \in DOMAIN h \ {n} : Without(h, n)[m] = h[m]
<1>1. IsFiniteSet(DOMAIN h \ {n})
  BY FS_RemoveElement DEF HeapOK
<1> QED
  BY <1>1 DEF Without, Restrict, HeapOK

\* There is always a free name, so NewNode is one.
LEMMA NewNodeIs ==
  ASSUME HeapOK(heap)
  PROVE  NewNode \in Nat \ {0} /\ NewNode \notin DOMAIN heap
<1> DEFINE c == Cardinality(DOMAIN heap)
<1>1. c \in Nat /\ IsFiniteSet(DOMAIN heap)
  BY FS_CardinalityType DEF HeapOK
<1>2. \E n \in 1 .. c + 1 : n \notin DOMAIN heap
  <2>1. SUFFICES ASSUME 1 .. c + 1 \subseteq DOMAIN heap PROVE FALSE
    OBVIOUS
  <2>2. Cardinality(1 .. c + 1) <= c
    BY <1>1, <2>1, FS_Subset
  <2>3. Cardinality(1 .. c + 1) = c + 1
    <3>1. \A b \in Int : Cardinality(1 .. b) = IF 1 > b THEN 0 ELSE b - 1 + 1
      BY FS_Interval
    <3> DEFINE d == c + 1
    <3>2. d \in Int /\ ~ (1 > d)
      BY <1>1
    <3> HIDE DEF d
    <3>3. Cardinality(1 .. d) = d
      BY <3>1, <3>2
    <3> QED
      BY <3>3 DEF d
  <2> QED
    BY <1>1, <2>2, <2>3
<1> QED
  BY <1>1, <1>2 DEF NewNode

-----------------------------------------------------------------------------
(***************************************************************************)
(* key_binary_search.                                                      *)
(***************************************************************************)

Ascending(arr) == \A i, j \in 1 .. Len(arr) : i < j => arr[i] < arr[j]

\* p elements of arr are smaller than t, the others are not.
Cut(arr, t, p) ==
  /\ p \in 0 .. Len(arr)
  /\ \A i \in 1 .. p : arr[i] < t
  /\ \A i \in p + 1 .. Len(arr) : arr[i] >= t

\* A sorted array has a place where the keys that are not below t begin.
LEMMA CutExists ==
  ASSUME NEW arr \in Seq(Int), Ascending(arr), NEW t \in Int
  PROVE  \E p \in 0 .. Len(arr) : Cut(arr, t, p)
<1> DEFINE T == {p \in 0 .. Len(arr) : p = Len(arr) \/ arr[p + 1] >= t}
<1>0. Len(arr) \in Nat /\ \A i \in 1 .. Len(arr) : arr[i] \in Int
  BY LenProperties, ElementOfSeq
<1>1. T \subseteq Nat /\ Len(arr) \in T
  BY <1>0
<1>2. PICK p \in T : \A q \in T : p <= q
  BY <1>1, SmallestNat
<1>3. ASSUME NEW i \in 1 .. p PROVE arr[i] < t
  <2>0. p \in 0 .. Len(arr)
    OBVIOUS
  <2>1. i - 1 \in 0 .. Len(arr) /\ i - 1 # Len(arr) /\ ~ (p <= i - 1)
    BY <1>0, <2>0
  <2>2. ~ (arr[i - 1 + 1] >= t)
    BY <1>2, <2>1
  <2>3. arr[i] \in Int /\ i - 1 + 1 = i
    BY <1>0, <1>2
  <2> QED
    BY <2>2, <2>3
<1>4. ASSUME NEW i \in p + 1 .. Len(arr) PROVE arr[i] >= t
  <2>1. p \in 0 .. Len(arr) /\ p # Len(arr) /\ arr[p + 1] >= t
    BY <1>0, <1>2
  <2>2. i = p + 1 \/ p + 1 < i
    BY <1>0, <2>1
  <2>3. CASE i = p + 1
    BY <2>1, <2>3
  <2>4. CASE p + 1 < i
    <3>1. arr[p + 1] < arr[i] /\ arr[p + 1] \in Int /\ arr[i] \in Int
      BY <1>0, <2>1, <2>4 DEF Ascending
    <3> QED
      BY <2>1, <3>1
  <2> QED
    BY <2>2, <2>3, <2>4
<1> QED
  BY <1>2, <1>3, <1>4 DEF Cut

\* The middle of a pair that is not adjacent is strictly between.
LEMMA Middle ==
  ASSUME NEW low \in Int, NEW high \in Int, low + 1 < high
  PROVE  /\ low + (high - low) \div 2 \in Int
         /\ low < low + (high - low) \div 2 /\ low + (high - low) \div 2 < high
OBVIOUS

\* The loop of key_binary_search (bplustree.c:119-136) ends at that place, by
\* induction on the width of its interval, stated with the least
\* counterexample.
LEMMA SearchIs ==
  ASSUME NEW arr \in Seq(Int), NEW t \in Int, NEW p, Cut(arr, t, p)
  PROVE  KeyBinarySearch(arr, t) = IF p >= Len(arr) \/ arr[p + 1] # t THEN - p - 1 ELSE p
<1> DEFINE D == (-1 .. Len(arr)) \X (0 .. Len(arr))
           Mid(low, high) == low + (high - low) \div 2
           Step(f, low, high) ==
             IF low + 1 < high
             THEN IF t > arr[Mid(low, high) + 1] THEN f[<<Mid(low, high), high>>]
                                                 ELSE f[<<low, Mid(low, high)>>]
             ELSE high
           Is(f) == f = [w \in D |-> Step(f, w[1], w[2])]
           search == CHOOSE f : Is(f)
           Clamp(low, high) == IF low + 1 >= high THEN high
                               ELSE IF p < low + 1 THEN low + 1
                               ELSE IF p > high THEN high ELSE p
           good == [w \in D |-> Clamp(w[1], w[2])]
<1>0. Len(arr) \in Nat /\ \A i \in 1 .. Len(arr) : arr[i] \in Int
  BY LenProperties, ElementOfSeq
<1>p. p \in 0 .. Len(arr)
  BY DEF Cut
<1>m. ASSUME NEW low \in -1 .. Len(arr), NEW high \in 0 .. Len(arr), low + 1 < high
      PROVE  /\ Mid(low, high) \in 0 .. Len(arr) /\ low < Mid(low, high) /\ Mid(low, high) < high
             /\ Mid(low, high) \in -1 .. Len(arr)
             /\ (t > arr[Mid(low, high) + 1] <=> p >= Mid(low, high) + 1)
  <2>1. low < Mid(low, high) /\ Mid(low, high) < high /\ Mid(low, high) \in Int
    BY <1>0, <1>m, Middle
  <2> HIDE DEF Mid
  <2>2. Mid(low, high) + 1 \in 1 .. Len(arr)
    BY <1>0, <2>1
  <2>3. arr[Mid(low, high) + 1] \in Int
    BY <1>0, <2>2
  <2>4. CASE p >= Mid(low, high) + 1
    <3>1. arr[Mid(low, high) + 1] < t
      BY <1>p, <2>2, <2>4 DEF Cut
    <3> QED
      BY <1>0, <2>1, <2>3, <2>4, <3>1
  <2>5. CASE ~ (p >= Mid(low, high) + 1)
    <3>1. arr[Mid(low, high) + 1] >= t
      BY <1>p, <2>2, <2>5 DEF Cut
    <3> QED
      BY <1>0, <2>1, <2>3, <2>5, <3>1
  <2> QED
    BY <2>4, <2>5
<1>1. Is(good)
  <2> SUFFICES ASSUME NEW low \in -1 .. Len(arr), NEW high \in 0 .. Len(arr)
               PROVE  Clamp(low, high) = Step(good, low, high)
    <3>1. ASSUME NEW w \in D PROVE Clamp(w[1], w[2]) = Step(good, w[1], w[2])
      <4>1. w[1] \in -1 .. Len(arr) /\ w[2] \in 0 .. Len(arr)
        OBVIOUS
      <4> HIDE DEF Clamp, Step
      <4> QED
        BY <4>1
    <3> HIDE DEF Clamp, Step, D
    <3> QED
      BY <3>1, Zenon
  <2>1. CASE ~ (low + 1 < high)
    BY <1>0, <2>1
  <2>2. CASE low + 1 < high
    <3>1. /\ Mid(low, high) \in 0 .. Len(arr) /\ low < Mid(low, high) /\ Mid(low, high) < high
          /\ Mid(low, high) \in -1 .. Len(arr)
          /\ (t > arr[Mid(low, high) + 1] <=> p >= Mid(low, high) + 1)
      BY <1>m, <2>2
    <3> HIDE DEF Mid
    <3>2. /\ good[<<Mid(low, high), high>>] = Clamp(Mid(low, high), high)
          /\ good[<<low, Mid(low, high)>>] = Clamp(low, Mid(low, high))
      <4>1. <<Mid(low, high), high>> \in D /\ <<low, Mid(low, high)>> \in D
        BY <3>1
      <4> HIDE DEF Clamp, D
      <4> QED
        BY <4>1
    <3> HIDE DEF good
    <3>3. CASE p >= Mid(low, high) + 1
      <4>1. Step(good, low, high) = Clamp(Mid(low, high), high)
        BY <2>2, <3>1, <3>2, <3>3
      <4>2. Clamp(Mid(low, high), high) = Clamp(low, high)
        BY <1>0, <1>p, <2>2, <3>1, <3>3, SMTT(60)
      <4> QED
        BY <4>1, <4>2
    <3>4. CASE ~ (p >= Mid(low, high) + 1)
      <4>1. Step(good, low, high) = Clamp(low, Mid(low, high))
        BY <2>2, <3>1, <3>2, <3>4
      <4>2. Clamp(low, Mid(low, high)) = Clamp(low, high)
        BY <1>0, <1>p, <2>2, <3>1, <3>4
      <4> QED
        BY <4>1, <4>2
    <3> QED
      BY <3>3, <3>4
  <2> QED
    BY <2>1, <2>2
<1>2. Is(search)
  <2> HIDE DEF Is, good
  <2> QED
    BY <1>1, Zenon
<1> HIDE DEF search, good
<1> DEFINE At(low, high) == search[<<low, high>>]
<1>3. ASSUME NEW low \in -1 .. Len(arr), NEW high \in 0 .. Len(arr)
      PROVE  At(low, high) = IF low + 1 < high
                             THEN IF p >= Mid(low, high) + 1 THEN At(Mid(low, high), high)
                                                             ELSE At(low, Mid(low, high))
                             ELSE high
  <2>1. <<low, high>> \in D
    OBVIOUS
  <2>2. search[<<low, high>>] = Step(search, <<low, high>>[1], <<low, high>>[2])
    <3> HIDE DEF D, Step
    <3> QED
      BY <1>2, <2>1, Zenon
  <2>3. <<low, high>>[1] = low /\ <<low, high>>[2] = high
    OBVIOUS
  <2>4. At(low, high) = Step(search, low, high)
    BY <2>2, <2>3, Zenon
  <2>5. CASE low + 1 < high
    <3>1. t > arr[Mid(low, high) + 1] <=> p >= Mid(low, high) + 1
      BY <1>m, <2>5
    <3> HIDE DEF Mid
    <3> QED
      BY <2>4, <2>5, <3>1
  <2>6. CASE ~ (low + 1 < high)
    BY <2>4, <2>6
  <2> QED
    BY <2>5, <2>6
<1> HIDE DEF At
<1> DEFINE Wrong(d) == \E low \in -1 .. Len(arr), high \in 0 .. Len(arr) :
                          d = high - low /\ low < p /\ p <= high /\ At(low, high) # p
           W == {d \in Nat : Wrong(d)}
<1>4. W = {}
  <2>1. SUFFICES ASSUME W # {} PROVE FALSE
    OBVIOUS
  <2>2. PICK d \in W : \A e \in W : d <= e
    <3>1. W \subseteq Nat
      OBVIOUS
    <3> HIDE DEF W
    <3> QED
      BY <2>1, <3>1, SmallestNat
  <2>3. PICK low \in -1 .. Len(arr), high \in 0 .. Len(arr) :
          d = high - low /\ low < p /\ p <= high /\ At(low, high) # p
    BY <2>2
  <2>4. CASE ~ (low + 1 < high)
    BY <1>0, <1>3, <1>p, <2>3, <2>4
  <2>5. CASE low + 1 < high
    <3> DEFINE m == Mid(low, high)
    <3>1. m \in 0 .. Len(arr) /\ low < m /\ m < high /\ m \in -1 .. Len(arr)
      BY <1>m, <2>5
    <3>2. At(low, high) = IF p >= m + 1 THEN At(m, high) ELSE At(low, m)
      BY <1>3, <2>5
    <3> HIDE DEF m
    <3>3. CASE p >= m + 1
      <4>1. high - m \in Nat /\ high - m < d /\ m < p
        BY <1>0, <1>p, <2>3, <3>1, <3>3
      <4>2. At(m, high) # p
        BY <2>3, <3>2, <3>3
      <4>3. Wrong(high - m)
        BY <2>3, <3>1, <4>1, <4>2
      <4> HIDE DEF Wrong
      <4> QED
        BY <2>2, <4>1, <4>3
    <3>4. CASE ~ (p >= m + 1)
      <4>1. m - low \in Nat /\ m - low < d /\ p <= m
        BY <1>0, <1>p, <2>3, <3>1, <3>4
      <4>2. At(low, m) # p
        BY <2>3, <3>2, <3>4
      <4>3. Wrong(m - low)
        BY <2>3, <3>1, <4>1, <4>2
      <4> HIDE DEF Wrong
      <4> QED
        BY <2>2, <4>1, <4>3
    <3> QED
      BY <3>3, <3>4
  <2> QED
    BY <2>4, <2>5
<1>5. At(-1, Len(arr)) = p
  <2>1. -1 \in -1 .. Len(arr) /\ Len(arr) \in 0 .. Len(arr) /\ Len(arr) - (-1) \in Nat
    BY <1>0
  <2>2. ~ Wrong(Len(arr) - (-1))
    BY <1>4, <2>1
  <2>3. -1 < p /\ p <= Len(arr)
    BY <1>p, <1>0
  <2> QED
    BY <2>1, <2>2, <2>3
<1>6. KeyBinarySearch(arr, t) =
        IF search[<<-1, Len(arr)>>] >= Len(arr) \/ arr[search[<<-1, Len(arr)>>] + 1] # t
        THEN - search[<<-1, Len(arr)>>] - 1 ELSE search[<<-1, Len(arr)>>]
  BY DEF KeyBinarySearch, search
<1> QED
  BY <1>5, <1>6 DEF At

\* What the answer of key_binary_search says.
LEMMA SearchSays ==
  ASSUME NEW arr \in Seq(Int), Ascending(arr), NEW t \in Int
  PROVE  LET r == KeyBinarySearch(arr, t) IN
         /\ r \in Int
         /\ r >= 0 => r + 1 \in 1 .. Len(arr) /\ arr[r + 1] = t
         /\ r < 0 => /\ - r - 1 \in 0 .. Len(arr)
                     /\ \A i \in 1 .. - r - 1 : arr[i] < t
                     /\ \A i \in - r .. Len(arr) : arr[i] > t
<1>0. Len(arr) \in Nat /\ \A i \in 1 .. Len(arr) : arr[i] \in Int
  BY LenProperties, ElementOfSeq
<1>1. PICK p \in 0 .. Len(arr) : Cut(arr, t, p)
  BY CutExists
<1> DEFINE r == KeyBinarySearch(arr, t)
<1>2. r = IF p >= Len(arr) \/ arr[p + 1] # t THEN - p - 1 ELSE p
  BY <1>1, SearchIs
<1> HIDE DEF r
<1>3. CASE p >= Len(arr) \/ arr[p + 1] # t
  <2>1. r = - p - 1
    BY <1>2, <1>3
  <2>2. ASSUME NEW i \in p + 1 .. Len(arr) PROVE arr[i] > t
    <3>1. arr[i] >= t /\ arr[i] \in Int /\ arr[p + 1] >= t /\ arr[p + 1] \in Int /\ arr[p + 1] # t
      BY <1>0, <1>1, <1>3 DEF Cut
    <3>2. CASE i = p + 1
      BY <3>1, <3>2
    <3>3. CASE p + 1 < i
      <4>1. arr[p + 1] < arr[i]
        BY <1>0, <1>1, <3>3 DEF Ascending
      <4> QED
        BY <3>1, <4>1
    <3> QED
      BY <1>0, <3>2, <3>3
  <2>3. - r - 1 = p /\ - r = p + 1 /\ r < 0
    BY <2>1
  <2>4. \A i \in 1 .. p : arr[i] < t
    BY <1>1 DEF Cut
  <2> QED
    BY <2>1, <2>2, <2>3, <2>4 DEF r
<1>4. CASE ~ (p >= Len(arr) \/ arr[p + 1] # t)
  <2>1. r = p
    BY <1>2, <1>4
  <2> QED
    BY <1>0, <1>4, <2>1 DEF r
<1> QED
  BY <1>3, <1>4

-----------------------------------------------------------------------------
(***************************************************************************)
(* Changes to the tree: its shape, its links and its lists.                *)
(***************************************************************************)

\* Node n has the same contents in both heaps.
Same(h, h2, n) == h2[n].leaf = h[n].leaf /\ h2[n].key = h[n].key /\ h2[n].sub = h[n].sub

\* What holds of a node's own contents holds while they and the intervals of
\* its children stay.
LEMMA OwnKept ==
  ASSUME NEW h, NEW h2, NEW g, NEW g2, NEW n, OwnOK(h, g, n), Same(h, h2, n), g2[n] = g[n],
         ~ h[n].leaf => \A j \in 1 .. Len(h[n].sub) :
                          h[n].sub[j] \in DOMAIN h2 /\ g2[h[n].sub[j]] = g[h[n].sub[j]]
  PROVE  OwnOK(h2, g2, n)
<1>1. CASE h[n].leaf
  BY <1>1 DEF OwnOK, LeafOK, Same
<1>2. CASE ~ h[n].leaf
  <2>1. \A j : Bound(h2, g2, n, j) = Bound(h, g, n, j)
    BY DEF Bound, Same
  <2> QED
    BY <1>2, <2>1, SMTT(60) DEF OwnOK, InnerOK, Same
<1> QED
  BY <1>1, <1>2

\* A child lies one level below its parent, between the keys next to its
\* place.
LEMMA SlotIs ==
  ASSUME NEW h, NEW g, NEW rt, NEW lv, Shape(h, g, rt, lv),
         NEW p, NEW j, NEW n, Slot(h, p, j, n)
  PROVE  /\ p \in DOMAIN h /\ ~ h[p].leaf /\ j \in 1 .. Len(h[p].sub) /\ h[p].sub[j] = n
         /\ n \in DOMAIN h /\ g[p].dep = g[n].dep + 1 /\ p # n
         /\ g[n].lo = Bound(h, g, p, j - 1) /\ g[n].hi = Bound(h, g, p, j)
         /\ Len(h[p].sub) = Len(h[p].key) + 1
         /\ g[n].dep \in Nat /\ g[p].dep \in Nat
<1>1. p \in DOMAIN h /\ ~ h[p].leaf /\ j \in 1 .. Len(h[p].sub) /\ h[p].sub[j] = n
  BY DEF Slot
<1>2. InnerOK(h, g, p) /\ g[p].dep \in Nat
  BY <1>1 DEF Shape, NodeOK, OwnOK
<1>3. /\ n \in DOMAIN h /\ g[p].dep = g[n].dep + 1
      /\ g[n].lo = Bound(h, g, p, j - 1) /\ g[n].hi = Bound(h, g, p, j)
  BY <1>1, <1>2 DEF InnerOK
<1>4. Len(h[p].sub) = Len(h[p].key) + 1
  BY <1>2 DEF InnerOK
<1>5. g[n].dep \in Nat
  BY <1>3 DEF Shape, NodeOK
<1> QED
  BY <1>1, <1>2, <1>3, <1>4, <1>5

\* A node is the child of one node, at one place, and the root of none.
LEMMA SlotUnique ==
  ASSUME NEW h, NEW g, NEW rt, NEW lv, HeapOK(h), Shape(h, g, rt, lv), Links(h, rt),
         NEW p, NEW j, NEW n, Slot(h, p, j, n)
  PROVE  /\ n # rt
         /\ h[n].parent = p /\ h[n].idx = j - 2 /\ h[n].parent # Null
         /\ \A q, i : Slot(h, q, i, n) => q = p /\ i = j
<1>1. ASSUME NEW q, NEW i, Slot(h, q, i, n) PROVE h[n].parent = q /\ h[n].idx = i - 2 /\ i \in Int
  BY <1>1 DEF Slot, Links
<1>2. h[n].parent = p /\ h[n].idx = j - 2 /\ j \in Int
  BY <1>1
<1>3. p # Null
  BY DEF HeapOK, Slot, Null
<1>4. n # rt
  <2>1. n \in DOMAIN h /\ n # Null
    BY SlotIs DEF HeapOK, Null
  <2> QED
    BY <1>2, <1>3, <2>1 DEF Links
<1>5. ASSUME NEW q, NEW i, Slot(h, q, i, n) PROVE q = p /\ i = j
  BY <1>1, <1>2, <1>5
<1> QED
  BY <1>2, <1>3, <1>4, <1>5

\* The contents of one leaf change.
LEMMA LeafShape ==
  ASSUME NEW h, NEW h2, NEW g, NEW rt, NEW lv, Shape(h, g, rt, lv),
         NEW n \in DOMAIN h, h[n].leaf, DOMAIN h2 = DOMAIN h,
         h2[n].leaf = h[n].leaf, OwnOK(h2, g, n),
         \A m \in DOMAIN h \ {n} : Same(h, h2, m)
  PROVE  Shape(h2, g, rt, lv)
<1>1. ASSUME NEW m \in DOMAIN h PROVE OwnOK(h2, g, m)
  <2>1. CASE m # n
    <3>1. OwnOK(h, g, m)
      BY DEF Shape, NodeOK
    <3>2. ~ h[m].leaf => \A j \in 1 .. Len(h[m].sub) : h[m].sub[j] \in DOMAIN h2
      BY <3>1 DEF OwnOK, InnerOK
    <3>3. Same(h, h2, m)
      BY <2>1
    <3> QED
      BY <3>1, <3>2, <3>3, OwnKept
  <2> QED
    BY <2>1
<1>2. ASSUME NEW m \in DOMAIN h, m # rt PROVE HasParent(h2, m)
  <2>1. PICK p \in DOMAIN h : \E j \in 1 .. Len(h[p].sub) : Slot(h, p, j, m)
    BY <1>2 DEF Shape, NodeOK, HasParent
  <2>2. PICK j \in 1 .. Len(h[p].sub) : Slot(h, p, j, m)
    BY <2>1
  <2>3. p # n /\ Same(h, h2, p)
    BY <2>2 DEF Slot
  <2>4. Slot(h2, p, j, m) /\ j \in 1 .. Len(h2[p].sub)
    BY <2>2, <2>3 DEF Slot, Same
  <2> QED
    BY <2>4 DEF HasParent
<1>3. \A m \in DOMAIN h : h2[m].leaf = h[m].leaf
  BY DEF Same
<1> QED
  BY <1>1, <1>2, <1>3 DEF Shape, NodeOK

\* The keys in a node are numbers.
LEMMA KeysAreInts ==
  ASSUME NEW h, HeapOK(h), NEW n \in DOMAIN h
  PROVE  /\ Len(h[n].sub) \in Nat /\ Len(h[n].key) \in Nat
         /\ \A k \in 1 .. Len(h[n].key) : h[n].key[k] \in Keys /\ h[n].key[k] \in Int
<1>1. h[n].key \in Seq(Keys) /\ Len(h[n].sub) \in Nat /\ Len(h[n].key) \in Nat
  BY NodeFields
<1>2. \A k \in 1 .. Len(h[n].key) : h[n].key[k] \in Keys
  BY <1>1, ElementOfSeq
<1> QED
  BY <1>1, <1>2, TreeKeysAssumption

\* The bounds of the children of a node are numbers.
LEMMA BoundIsInt ==
  ASSUME NEW h, NEW g, HeapOK(h), NEW n \in DOMAIN h, Interval(g, n), InnerOK(h, g, n),
         NEW i \in 0 .. Len(h[n].sub)
  PROVE  Bound(h, g, n, i) \in Int
<1>1. \A k \in 1 .. Len(h[n].key) : h[n].key[k] \in Int
  BY KeysAreInts
<1>2. Len(h[n].sub) \in Nat /\ Len(h[n].key) \in Nat /\ Len(h[n].sub) = Len(h[n].key) + 1
  BY KeysAreInts DEF InnerOK
<1>3. CASE i = 0 \/ i = Len(h[n].sub)
  BY <1>3 DEF Bound, Interval
<1>4. CASE i # 0 /\ i # Len(h[n].sub)
  <2>1. i \in 1 .. Len(h[n].key)
    BY <1>2, <1>4
  <2> QED
    BY <1>1, <1>4, <2>1 DEF Bound
<1> QED
  BY <1>3, <1>4

\* No other node has a child of p among its children.
LEMMA KidKept ==
  ASSUME NEW h, NEW g, NEW rt, NEW lv, HeapOK(h), Shape(h, g, rt, lv), Links(h, rt),
         NEW p, NEW j, NEW a, Slot(h, p, j, a),
         NEW m \in DOMAIN h \ {p}, ~ h[m].leaf, NEW i \in 1 .. Len(h[m].sub)
  PROVE  h[m].sub[i] \in DOMAIN h /\ h[m].sub[i] # a
<1>1. Slot(h, m, i, h[m].sub[i])
  BY DEF Slot
<1> QED
  BY <1>1, SlotIs, SlotUnique

\* Two neighbours a and b under p share their contents out anew; s is the new
\* key between them.
LEMMA RecutShape ==
  ASSUME NEW h, NEW h2, NEW g, NEW g2, NEW rt, NEW lv,
         HeapOK(h), Shape(h, g, rt, lv), Links(h, rt),
         NEW p, NEW j, NEW a, NEW b, NEW s \in Int,
         Slot(h, p, j, a), Slot(h, p, j + 1, b), g[a].lo < s, s < g[b].hi,
         DOMAIN h2 = DOMAIN h,
         g2[a].lo = g[a].lo, g2[a].hi = s, g2[a].dep = g[a].dep,
         g2[b].lo = s, g2[b].hi = g[b].hi, g2[b].dep = g[b].dep,
         \A m \in DOMAIN h \ {a, b} : g2[m] = g[m],
         h2[a].leaf = h[a].leaf, h2[b].leaf = h[b].leaf, OwnOK(h2, g2, a), OwnOK(h2, g2, b),
         h2[p].leaf = h[p].leaf, h2[p].sub = h[p].sub, Len(h2[p].key) = Len(h[p].key),
         h2[p].key[j] = s, \A i \in 1 .. Len(h[p].key) : i # j => h2[p].key[i] = h[p].key[i],
         \A m \in DOMAIN h \ {a, b, p} : Same(h, h2, m),
         \A m \in DOMAIN h : \A i : Slot(h, a, i, m) \/ Slot(h, b, i, m) => HasParent(h2, m)
  PROVE  Shape(h2, g2, rt, lv)
<1>0. Len(h[p].sub) \in Nat /\ Len(h[p].key) \in Nat
  BY NodeFields DEF Slot
<1>1. /\ p \in DOMAIN h /\ ~ h[p].leaf /\ j \in 1 .. Len(h[p].sub) /\ h[p].sub[j] = a
      /\ a \in DOMAIN h /\ g[p].dep = g[a].dep + 1 /\ p # a
      /\ g[a].lo = Bound(h, g, p, j - 1) /\ g[a].hi = Bound(h, g, p, j)
      /\ Len(h[p].sub) = Len(h[p].key) + 1
  BY SlotIs
<1>2. /\ j + 1 \in 1 .. Len(h[p].sub) /\ h[p].sub[j + 1] = b
      /\ b \in DOMAIN h /\ g[p].dep = g[b].dep + 1 /\ p # b
      /\ g[b].lo = Bound(h, g, p, j + 1 - 1) /\ g[b].hi = Bound(h, g, p, j + 1)
  BY SlotIs, SMTT(60)
<1>3. a # rt /\ b # rt /\ a # b
  <2>1. a # rt /\ \A q, i : Slot(h, q, i, a) => q = p /\ i = j
    BY SlotUnique
  <2>2. b # rt
    BY SlotUnique
  <2> QED
    BY <1>1, <2>1, <2>2
<1>4. InnerOK(h, g, p) /\ Interval(g, p)
  BY <1>1 DEF Shape, NodeOK, OwnOK
<1>5. g2[p] = g[p]
  BY <1>1, <1>2
<1>6. InnerOK(h2, g2, p)
  <2>1. ASSUME NEW i \in 0 .. Len(h[p].sub)
        PROVE  Bound(h2, g2, p, i) = IF i = j THEN s ELSE Bound(h, g, p, i)
    BY <1>0, <1>1, <1>2, <1>5 DEF Bound
  <2>2. ASSUME NEW i \in 0 .. Len(h[p].sub) PROVE Bound(h, g, p, i) \in Int
    BY <1>1, <1>4, BoundIsInt
  <2>3. ASSUME NEW i \in 0 .. Len(h2[p].sub), NEW k \in 0 .. Len(h2[p].sub), i < k
        PROVE  Bound(h2, g2, p, i) < Bound(h2, g2, p, k)
    <3>1. i \in 0 .. Len(h[p].sub) /\ k \in 0 .. Len(h[p].sub)
      OBVIOUS
    <3>2. \A e, f \in 0 .. Len(h[p].sub) : e < f => Bound(h, g, p, e) < Bound(h, g, p, f)
      BY <1>4 DEF InnerOK
    <3>3. CASE i # j /\ k # j
      BY <2>1, <2>3, <3>1, <3>2, <3>3
    <3>4. CASE i = j
      <4>1. k = j + 1 \/ Bound(h, g, p, j + 1) < Bound(h, g, p, k)
        BY <1>0, <1>1, <1>2, <2>3, <3>1, <3>2, <3>4
      <4> QED
        BY <1>2, <2>1, <2>2, <2>3, <3>1, <3>4, <4>1
    <3>5. CASE k = j
      <4>1. i = j - 1 \/ Bound(h, g, p, i) < Bound(h, g, p, j - 1)
        BY <1>0, <1>1, <1>2, <2>3, <3>1, <3>2, <3>5
      <4>2. j - 1 \in 0 .. Len(h[p].sub)
        BY <1>0, <1>1
      <4>3. Bound(h, g, p, j - 1) < s
        BY <1>1
      <4>4. Bound(h, g, p, i) < s
        BY <2>2, <3>1, <4>1, <4>2, <4>3
      <4> QED
        BY <2>1, <2>3, <3>1, <3>5, <4>4
    <3> QED
      BY <3>3, <3>4, <3>5
  <2>4. ASSUME NEW i \in 1 .. Len(h2[p].sub)
        PROVE  /\ h2[p].sub[i] \in DOMAIN h2
               /\ g2[p].dep = g2[h2[p].sub[i]].dep + 1
               /\ g2[h2[p].sub[i]].lo = Bound(h2, g2, p, i - 1)
               /\ g2[h2[p].sub[i]].hi = Bound(h2, g2, p, i)
    <3> DEFINE c == h[p].sub[i]
    <3>1. /\ c \in DOMAIN h /\ g[p].dep = g[c].dep + 1
          /\ g[c].lo = Bound(h, g, p, i - 1) /\ g[c].hi = Bound(h, g, p, i)
          /\ i \in 0 .. Len(h[p].sub) /\ i - 1 \in 0 .. Len(h[p].sub)
      BY <1>0, <1>4 DEF InnerOK
    <3>2. CASE i = j
      BY <1>0, <1>1, <1>5, <2>1, <3>1, <3>2
    <3>3. CASE i = j + 1
      BY <1>0, <1>1, <1>2, <1>5, <2>1, <3>1, <3>3
    <3>4. CASE i # j /\ i # j + 1
      <4>1. c # a /\ c # b
        <5>1. Slot(h, p, i, c)
          BY <1>1 DEF Slot
        <5>2. \A q, k : Slot(h, q, k, a) => q = p /\ k = j
          BY SlotUnique
        <5>3. \A q, k : Slot(h, q, k, b) => q = p /\ k = j + 1
          BY SlotUnique
        <5> QED
          BY <3>4, <5>1, <5>2, <5>3
      <4>2. g2[c] = g[c]
        BY <3>1, <4>1
      <4>3. i - 1 # j /\ i # j
        BY <1>1, <3>4
      <4> QED
        BY <1>5, <2>1, <3>1, <4>2, <4>3
    <3> QED
      BY <3>2, <3>3, <3>4
  <2> QED
    BY <1>1, <2>3, <2>4 DEF InnerOK
<1>7. ASSUME NEW m \in DOMAIN h PROVE OwnOK(h2, g2, m)
  <2>1. CASE m = p
    BY <1>1, <1>6, <2>1 DEF OwnOK
  <2>2. CASE m \notin {a, b, p}
    <3>1. OwnOK(h, g, m)
      BY DEF Shape, NodeOK
    <3>2. ASSUME ~ h[m].leaf, NEW i \in 1 .. Len(h[m].sub)
          PROVE  h[m].sub[i] \in DOMAIN h2 /\ g2[h[m].sub[i]] = g[h[m].sub[i]]
      <4>1. h[m].sub[i] \in DOMAIN h /\ h[m].sub[i] # a
        BY <2>2, <3>2, KidKept
      <4>2. h[m].sub[i] # b
        BY <2>2, <3>2, KidKept
      <4> QED
        BY <4>1, <4>2
    <3>3. Same(h, h2, m) /\ g2[m] = g[m]
      BY <2>2
    <3> QED
      BY <3>1, <3>2, <3>3, OwnKept
  <2> QED
    BY <2>1, <2>2
<1>8. ASSUME NEW m \in DOMAIN h, m # rt PROVE HasParent(h2, m)
  <2>1. PICK q \in DOMAIN h : \E i \in 1 .. Len(h[q].sub) : Slot(h, q, i, m)
    BY <1>8 DEF Shape, NodeOK, HasParent
  <2>2. PICK i \in 1 .. Len(h[q].sub) : Slot(h, q, i, m)
    BY <2>1
  <2>3. CASE q \in {a, b}
    BY <2>2, <2>3
  <2>4. CASE q \notin {a, b}
    <3>1. h2[q].sub = h[q].sub /\ h2[q].leaf = h[q].leaf
      BY <2>4 DEF Same
    <3>2. Slot(h2, q, i, m) /\ i \in 1 .. Len(h2[q].sub)
      BY <2>2, <3>1 DEF Slot
    <3> QED
      BY <3>2 DEF HasParent
  <2> QED
    BY <2>3, <2>4
<1>9. ASSUME NEW m \in DOMAIN h
      PROVE  /\ Interval(g2, m) /\ g2[m].dep = g[m].dep /\ h2[m].leaf = h[m].leaf
  <2>1. Interval(g, m)
    BY DEF Shape, NodeOK
  <2>2. CASE m \in {a, b}
    BY <1>3, <2>1, <2>2 DEF Interval
  <2>3. CASE m \notin {a, b}
    BY <2>1, <2>3 DEF Interval, Same
  <2> QED
    BY <2>2, <2>3
<1>10. rt # Null => g2[rt] = g[rt]
  BY <1>3 DEF Shape
<1> QED
  BY <1>7, <1>8, <1>9, <1>10 DEF Shape, NodeOK

\* The node x of h, a child of p, has become a and b in h2.
InTwo(h, h2, g, g2, p, j, x, z, a, b, s) ==
  /\ s \in Int /\ Slot(h, p, j, x) /\ z \notin DOMAIN h
  /\ (a = x /\ b = z) \/ (a = z /\ b = x)
  /\ g[x].lo < s /\ s < g[x].hi
  /\ DOMAIN h2 = DOMAIN h \cup {z}
  /\ g2[a].lo = g[x].lo /\ g2[a].hi = s /\ g2[a].dep = g[x].dep
  /\ g2[b].lo = s /\ g2[b].hi = g[x].hi /\ g2[b].dep = g[x].dep
  /\ \A m \in DOMAIN h \ {x} : g2[m] = g[m]
  /\ h2[a].leaf = h[x].leaf /\ h2[b].leaf = h[x].leaf /\ h2[p].leaf = h[p].leaf
  /\ OwnOK(h2, g2, a) /\ OwnOK(h2, g2, b)
  /\ Len(h2[p].key) = Len(h[p].key) + 1 /\ h2[p].key[j] = s
  /\ \A i \in 1 .. j - 1 : h2[p].key[i] = h[p].key[i]
  /\ \A i \in j .. Len(h[p].key) : h2[p].key[i + 1] = h[p].key[i]
  /\ Len(h2[p].sub) = Len(h[p].sub) + 1 /\ h2[p].sub[j] = a /\ h2[p].sub[j + 1] = b
  /\ \A i \in 1 .. j - 1 : h2[p].sub[i] = h[p].sub[i]
  /\ \A i \in j + 1 .. Len(h[p].sub) : h2[p].sub[i + 1] = h[p].sub[i]
  /\ \A m \in DOMAIN h \ {x, p} : Same(h, h2, m)
  /\ \A m \in DOMAIN h : \A i : Slot(h, x, i, m) => HasParent(h2, m)

\* The child x of p is split: a and b, one of them the new node z, share what x
\* held, and the new key s goes between them.
LEMMA SplitShape ==
  ASSUME NEW h, NEW h2, NEW g, NEW g2, NEW rt, NEW lv,
         HeapOK(h), Shape(h, g, rt, lv), Links(h, rt),
         NEW p, NEW j, NEW x, NEW z, NEW a, NEW b, NEW s,
         InTwo(h, h2, g, g2, p, j, x, z, a, b, s)
  PROVE  Shape(h2, g2, rt, lv)
<1> SUFFICES ASSUME
         s \in Int /\ Slot(h, p, j, x) /\ z \notin DOMAIN h,
         ((a = x /\ b = z) \/ (a = z /\ b = x)),
         g[x].lo < s /\ s < g[x].hi,
         DOMAIN h2 = DOMAIN h \cup {z},
         g2[a].lo = g[x].lo /\ g2[a].hi = s /\ g2[a].dep = g[x].dep,
         g2[b].lo = s /\ g2[b].hi = g[x].hi /\ g2[b].dep = g[x].dep,
         (\A m \in DOMAIN h \ {x} : g2[m] = g[m]),
         h2[a].leaf = h[x].leaf /\ h2[b].leaf = h[x].leaf /\ h2[p].leaf = h[p].leaf,
         OwnOK(h2, g2, a) /\ OwnOK(h2, g2, b),
         Len(h2[p].key) = Len(h[p].key) + 1 /\ h2[p].key[j] = s,
         (\A i \in 1 .. j - 1 : h2[p].key[i] = h[p].key[i]),
         (\A i \in j .. Len(h[p].key) : h2[p].key[i + 1] = h[p].key[i]),
         Len(h2[p].sub) = Len(h[p].sub) + 1 /\ h2[p].sub[j] = a /\ h2[p].sub[j + 1] = b,
         (\A i \in 1 .. j - 1 : h2[p].sub[i] = h[p].sub[i]),
         (\A i \in j + 1 .. Len(h[p].sub) : h2[p].sub[i + 1] = h[p].sub[i]),
         (\A m \in DOMAIN h \ {x, p} : Same(h, h2, m)),
         (\A m \in DOMAIN h : \A i : Slot(h, x, i, m) => HasParent(h2, m))
    PROVE Shape(h2, g2, rt, lv)
  BY DEF InTwo
<1>1. /\ p \in DOMAIN h /\ ~ h[p].leaf /\ j \in 1 .. Len(h[p].sub) /\ h[p].sub[j] = x
      /\ x \in DOMAIN h /\ g[p].dep = g[x].dep + 1 /\ p # x
      /\ g[x].lo = Bound(h, g, p, j - 1) /\ g[x].hi = Bound(h, g, p, j)
      /\ Len(h[p].sub) = Len(h[p].key) + 1
  BY SlotIs
<1>0. Len(h[p].sub) \in Nat /\ Len(h[p].key) \in Nat
  BY <1>1, KeysAreInts
<1>3. x # rt /\ p \notin {a, b}
  <2>1. x # rt
    BY SlotUnique
  <2> QED
    BY <1>1, <2>1
<1>4. InnerOK(h, g, p) /\ Interval(g, p)
  BY <1>1, SMTT(60) DEF Shape, NodeOK, OwnOK
<1>5. g2[p] = g[p]
  BY <1>1
<1>6. InnerOK(h2, g2, p)
  <2>1. ASSUME NEW i \in 0 .. Len(h[p].sub) + 1
        PROVE  Bound(h2, g2, p, i) = IF i < j THEN Bound(h, g, p, i)
                                     ELSE IF i = j THEN s ELSE Bound(h, g, p, i - 1)
    <3>1. CASE i = 0
      BY <1>0, <1>1, <1>5, <3>1 DEF Bound
    <3>2. CASE i = Len(h[p].sub) + 1
      <4>1. i # j /\ ~ (i < j) /\ i - 1 = Len(h[p].sub) /\ i - 1 # 0 /\ i # 0
        BY <1>0, <1>1, <3>2, SMTT(60)
      <4> QED
        BY <1>5, <3>2, <4>1 DEF Bound
    <3>3. CASE i # 0 /\ i # Len(h[p].sub) + 1
      <4>0. i # Len(h2[p].sub)
        BY <3>3
      <4>1. CASE i < j
        <5>1. i \in 1 .. j - 1 /\ i # Len(h[p].sub)
          BY <1>0, <1>1, <3>3, <4>1, SMTT(60)
        <5>2. h2[p].key[i] = h[p].key[i]
          BY <5>1
        <5> QED
          BY <3>3, <4>0, <4>1, <5>1, <5>2 DEF Bound
      <4>2. CASE i = j
        BY <3>3, <4>0, <4>2, <1>1 DEF Bound
      <4>3. CASE i > j
        <5>0. i \in Int /\ i <= Len(h[p].sub) /\ j \in Int /\ 1 <= j
          BY <1>0, <1>1, <3>3, SMTT(60)
        <5>1. i - 1 \in j .. Len(h[p].key) /\ i - 1 + 1 = i /\ i - 1 # 0 /\ i - 1 # Len(h[p].sub)
          BY <1>0, <1>1, <4>3, <5>0, SMTT(60)
        <5>2. h2[p].key[i] = h[p].key[i - 1]
          BY <5>1
        <5>3. i # j /\ ~ (i < j)
          BY <1>1, <4>3
        <5> QED
          BY <3>3, <4>0, <5>1, <5>2, <5>3 DEF Bound
      <4> QED
        BY <1>1, <4>1, <4>2, <4>3
    <3> QED
      BY <3>1, <3>2, <3>3
  <2>2. ASSUME NEW i \in 0 .. Len(h[p].sub) PROVE Bound(h, g, p, i) \in Int
    BY <1>1, <1>4, BoundIsInt
  <2>b. \A e, f \in 0 .. Len(h[p].sub) : e < f => Bound(h, g, p, e) < Bound(h, g, p, f)
    BY <1>4 DEF InnerOK
  <2>3. ASSUME NEW i \in 0 .. Len(h2[p].sub), NEW k \in 0 .. Len(h2[p].sub), i < k
        PROVE  Bound(h2, g2, p, i) < Bound(h2, g2, p, k)
    <3>0. i \in 0 .. Len(h[p].sub) + 1 /\ k \in 0 .. Len(h[p].sub) + 1
      OBVIOUS
    <3>1. CASE i < j /\ k < j
      <4>1. i \in 0 .. Len(h[p].sub) /\ k \in 0 .. Len(h[p].sub)
        BY <1>0, <1>1, <3>1, SMTT(60)
      <4> QED
        BY <2>1, <2>b, <2>3, <3>0, <3>1, <4>1
    <3>2. CASE i < j /\ k = j
      <4>0. j \in 1 .. Len(h[p].sub) /\ i \in Int /\ 0 <= i
        BY <1>1, <3>0
      <4>1. i \in 0 .. Len(h[p].sub) /\ j - 1 \in 0 .. Len(h[p].sub)
        BY <1>0, <3>2, <4>0
      <4>2. i = j - 1 \/ Bound(h, g, p, i) < Bound(h, g, p, j - 1)
        BY <1>1, <2>b, <3>2, <4>1
      <4>3. Bound(h, g, p, i) < s
        BY <1>1, <2>2, <4>1, <4>2, SMTT(60)
      <4> QED
        BY <2>1, <3>0, <3>2, <4>3
    <3>3. CASE i < j /\ k > j
      <4>1. i \in 0 .. Len(h[p].sub) /\ k - 1 \in 0 .. Len(h[p].sub) /\ i < k - 1
            /\ k # j /\ ~ (k < j)
        BY <1>0, <1>1, <3>0, <3>3
      <4> QED
        BY <2>1, <2>b, <3>0, <3>3, <4>1
    <3>4. CASE i = j
      <4>1. k - 1 \in 0 .. Len(h[p].sub) /\ j \in 0 .. Len(h[p].sub) /\ k # j /\ ~ (k < j)
        BY <1>0, <1>1, <2>3, <3>0, <3>4
      <4>2. k - 1 = j \/ Bound(h, g, p, j) < Bound(h, g, p, k - 1)
        BY <1>1, <2>b, <2>3, <3>4, <4>1
      <4>3. s < Bound(h, g, p, k - 1)
        BY <1>1, <2>2, <4>1, <4>2, SMTT(60)
      <4> QED
        BY <2>1, <3>0, <3>4, <4>1, <4>3
    <3>5. CASE i > j
      <4>1. i - 1 \in 0 .. Len(h[p].sub) /\ k - 1 \in 0 .. Len(h[p].sub) /\ i - 1 < k - 1
            /\ k # j /\ ~ (k < j) /\ i # j /\ ~ (i < j)
        BY <1>0, <1>1, <2>3, <3>0, <3>5
      <4> QED
        BY <2>1, <2>b, <3>0, <4>1
    <3> QED
      BY <1>1, <3>0, <3>1, <3>2, <3>3, <3>4, <3>5
  <2>5. ASSUME NEW i \in 1 .. Len(h[p].sub), i # j
        PROVE  /\ h[p].sub[i] \in DOMAIN h2
               /\ g2[h[p].sub[i]] = g[h[p].sub[i]]
               /\ g[p].dep = g[h[p].sub[i]].dep + 1
               /\ g[h[p].sub[i]].lo = Bound(h, g, p, i - 1)
               /\ g[h[p].sub[i]].hi = Bound(h, g, p, i)
    <3> DEFINE c == h[p].sub[i]
    <3>1. /\ c \in DOMAIN h /\ g[p].dep = g[c].dep + 1
          /\ g[c].lo = Bound(h, g, p, i - 1) /\ g[c].hi = Bound(h, g, p, i)
      BY <1>4 DEF InnerOK
    <3>2. Slot(h, p, i, c)
      BY <1>1 DEF Slot
    <3>3. \A q, k : Slot(h, q, k, x) => q = p /\ k = j
      BY SlotUnique
    <3>4. c # x
      BY <2>5, <3>2, <3>3
    <3> QED
      BY <3>1, <3>4
  <2>4. ASSUME NEW i \in 1 .. Len(h2[p].sub)
        PROVE  /\ h2[p].sub[i] \in DOMAIN h2
               /\ g2[p].dep = g2[h2[p].sub[i]].dep + 1
               /\ g2[h2[p].sub[i]].lo = Bound(h2, g2, p, i - 1)
               /\ g2[h2[p].sub[i]].hi = Bound(h2, g2, p, i)
    <3>0. i \in 0 .. Len(h[p].sub) + 1 /\ i - 1 \in 0 .. Len(h[p].sub) + 1
      BY <1>0
    <3>1. CASE i < j
      <4>1. i \in 1 .. Len(h[p].sub) /\ i # j /\ i \in 1 .. j - 1 /\ i - 1 < j
        BY <1>0, <1>1, <3>1
      <4>2. /\ Bound(h2, g2, p, i) = Bound(h, g, p, i)
            /\ Bound(h2, g2, p, i - 1) = Bound(h, g, p, i - 1)
        BY <2>1, <3>0, <3>1, <4>1
      <4>3. h2[p].sub[i] = h[p].sub[i]
        BY <4>1
      <4>4. /\ h[p].sub[i] \in DOMAIN h2
            /\ g2[h[p].sub[i]] = g[h[p].sub[i]]
            /\ g[p].dep = g[h[p].sub[i]].dep + 1
            /\ g[h[p].sub[i]].lo = Bound(h, g, p, i - 1)
            /\ g[h[p].sub[i]].hi = Bound(h, g, p, i)
        BY <2>5, <4>1
      <4> QED
        BY ONLY <1>5, <4>2, <4>3, <4>4, Zenon
    <3>2. CASE i = j
      <4>1. j - 1 < j /\ a \in DOMAIN h2
        BY <1>1
      <4> QED
        BY <1>1, <1>5, <2>1, <3>0, <3>2, <4>1, SMTT(60)
    <3>3. CASE i = j + 1
      <4>1. j + 1 - 1 = j /\ ~ (j + 1 < j) /\ j + 1 # j /\ b \in DOMAIN h2
        BY <1>1
      <4> QED
        BY <1>1, <1>5, <2>1, <3>0, <3>3, <4>1, SMTT(60)
    <3>4. CASE i > j + 1
      <4>1. /\ i - 1 \in 1 .. Len(h[p].sub) /\ i - 1 # j /\ i - 1 \in j + 1 .. Len(h[p].sub)
            /\ i - 1 + 1 = i /\ ~ (i < j) /\ i # j /\ ~ (i - 1 < j)
        <5>1. j \in 1 .. Len(h[p].sub) /\ Len(h2[p].sub) = Len(h[p].sub) + 1
          BY <1>1
        <5>2. i \in 1 .. Len(h[p].sub) + 1
          BY <5>1
        <5> QED
          BY ONLY <1>0, <3>4, <5>1, <5>2
      <4>2. h2[p].sub[i] = h[p].sub[i - 1]
        BY <4>1
      <4>3. /\ Bound(h2, g2, p, i) = Bound(h, g, p, i - 1)
            /\ Bound(h2, g2, p, i - 1) = IF i - 1 = j THEN s ELSE Bound(h, g, p, i - 1 - 1)
        BY <2>1, <3>0, <4>1
      <4> QED
        BY <1>5, <2>5, <4>1, <4>2, <4>3, SMTT(60)
    <3> QED
      BY <1>1, <3>1, <3>2, <3>3, <3>4
  <2>6. Len(h2[p].sub) = Len(h2[p].key) + 1
    BY <1>0, <1>1
  <2> QED
    BY <2>3, <2>4, <2>6 DEF InnerOK
<1>7. ASSUME NEW m \in DOMAIN h2 PROVE OwnOK(h2, g2, m)
  <2>1. CASE m = p
    BY <1>1, <1>6, <2>1 DEF OwnOK
  <2>2. CASE m \notin {a, b, p}
    <3>0. m \in DOMAIN h /\ m # x
      BY <2>2
    <3>1. OwnOK(h, g, m)
      BY <3>0 DEF Shape, NodeOK
    <3>2. ASSUME ~ h[m].leaf, NEW i \in 1 .. Len(h[m].sub)
          PROVE  h[m].sub[i] \in DOMAIN h2 /\ g2[h[m].sub[i]] = g[h[m].sub[i]]
      <4>1. h[m].sub[i] \in DOMAIN h /\ h[m].sub[i] # x
        BY <2>2, <3>0, <3>2, KidKept
      <4> QED
        BY <4>1
    <3>3. Same(h, h2, m) /\ g2[m] = g[m]
      BY <2>2, <3>0
    <3> QED
      BY <3>1, <3>2, <3>3, OwnKept
  <2> QED
    BY <2>1, <2>2
<1>a. HasParent(h2, a) /\ HasParent(h2, b)
  <2>1. p \in DOMAIN h2 /\ ~ h2[p].leaf /\ j \in 1 .. Len(h2[p].sub) /\ j + 1 \in 1 .. Len(h2[p].sub)
    BY <1>0, <1>1
  <2>2. Slot(h2, p, j, a) /\ Slot(h2, p, j + 1, b)
    BY <2>1 DEF Slot
  <2> QED
    BY <2>1, <2>2 DEF HasParent
<1>8. ASSUME NEW m \in DOMAIN h2, m # rt PROVE HasParent(h2, m)
  <2>0. CASE m \in {a, b}
    BY <1>a, <2>0
  <2>5. CASE m \notin {a, b}
    <3>0. m \in DOMAIN h /\ m # x
      BY <2>5
    <3>1. PICK q \in DOMAIN h : \E i \in 1 .. Len(h[q].sub) : Slot(h, q, i, m)
      BY <1>8, <3>0 DEF Shape, NodeOK, HasParent
    <3>2. PICK i \in 1 .. Len(h[q].sub) : Slot(h, q, i, m)
      BY <3>1
    <3>3. CASE q = x
      BY <3>0, <3>2, <3>3
    <3>4. CASE q = p
      <4>1. i # j /\ h[p].sub[i] = m /\ i \in 1 .. Len(h[p].sub)
        BY <1>1, <3>0, <3>2, <3>4 DEF Slot
      <4>2. CASE i < j
        <5>0. i \in 1 .. Len(h[p].sub) /\ j \in 1 .. Len(h[p].sub)
          BY <1>1, <4>1
        <5>1. i \in 1 .. j - 1 /\ i \in 1 .. Len(h[p].sub) + 1
          BY ONLY <1>0, <4>2, <5>0
        <5>2. i \in 1 .. Len(h2[p].sub)
          BY <5>1
        <5>3. Slot(h2, p, i, m)
          BY <1>1, <4>1, <5>1, <5>2 DEF Slot
        <5> QED
          BY <1>1, <5>2, <5>3 DEF HasParent
      <4>3. CASE i > j
        <5>0. i \in Int /\ i <= Len(h[p].sub) /\ j \in Int /\ 1 <= j
          BY <1>0, <1>1, <4>1
        <5>1. i \in j + 1 .. Len(h[p].sub) /\ i + 1 \in 1 .. Len(h2[p].sub)
          BY <1>0, <4>3, <5>0, SMTT(60)
        <5>2. Slot(h2, p, i + 1, m)
          BY <1>1, <4>1, <5>1 DEF Slot
        <5> QED
          BY <1>1, <5>1, <5>2 DEF HasParent
      <4> QED
        BY <1>1, <4>1, <4>2, <4>3
    <3>5. CASE q # x /\ q # p
      <4>1. h2[q].sub = h[q].sub /\ h2[q].leaf = h[q].leaf /\ q \in DOMAIN h2
        BY <3>5 DEF Same
      <4>2. Slot(h2, q, i, m) /\ i \in 1 .. Len(h2[q].sub)
        BY <3>2, <4>1 DEF Slot
      <4> QED
        BY <4>1, <4>2 DEF HasParent
    <3> QED
      BY <3>3, <3>4, <3>5
  <2> QED
    BY <2>0, <2>5
<1>9. ASSUME NEW m \in DOMAIN h2
      PROVE  /\ Interval(g2, m) /\ g2[m].dep \in 0 .. lv /\ (h2[m].leaf <=> g2[m].dep = 0)
  <2>1. Interval(g, x) /\ g[x].dep \in 0 .. lv /\ (h[x].leaf <=> g[x].dep = 0)
    BY <1>1 DEF Shape, NodeOK
  <2>2. CASE m \in {a, b}
    BY <2>1, <2>2, SMTT(60) DEF Interval
  <2>3. CASE m \notin {a, b}
    <3>0. m \in DOMAIN h /\ m # x
      BY <2>3
    <3>1. Interval(g, m) /\ g[m].dep \in 0 .. lv /\ (h[m].leaf <=> g[m].dep = 0)
      BY <3>0 DEF Shape, NodeOK
    <3>2. h2[m].leaf = h[m].leaf /\ g2[m] = g[m]
      BY <3>0 DEF Same
    <3> QED
      BY <3>1, <3>2 DEF Interval
  <2> QED
    BY <2>2, <2>3
<1>10. rt # Null => rt \in DOMAIN h2 /\ g2[rt] = g[rt]
  BY <1>3 DEF Shape
<1>11. rt = Null => DOMAIN h = {}
  BY DEF Shape
<1> QED
  BY <1>1, <1>7, <1>8, <1>9, <1>10, <1>11 DEF Shape, NodeOK

\* The neighbours a and b under p become one: a takes what b held.
LEMMA MergeShape ==
  ASSUME NEW h, NEW h2, NEW g, NEW g2, NEW rt, NEW lv,
         HeapOK(h), Shape(h, g, rt, lv), Links(h, rt),
         NEW p, NEW j, NEW a, NEW b,
         Slot(h, p, j, a), Slot(h, p, j + 1, b),
         DOMAIN h2 = DOMAIN h \ {b},
         g2[a].lo = g[a].lo, g2[a].hi = g[b].hi, g2[a].dep = g[a].dep,
         \A m \in DOMAIN h \ {a, b} : g2[m] = g[m],
         h2[a].leaf = h[a].leaf, OwnOK(h2, g2, a),
         h2[p].leaf = h[p].leaf,
         Len(h2[p].key) = Len(h[p].key) - 1,
         \A i \in 1 .. j - 1 : h2[p].key[i] = h[p].key[i],
         \A i \in j .. Len(h[p].key) - 1 : h2[p].key[i] = h[p].key[i + 1],
         Len(h2[p].sub) = Len(h[p].sub) - 1,
         \A i \in 1 .. j : h2[p].sub[i] = h[p].sub[i],
         \A i \in j + 1 .. Len(h[p].sub) - 1 : h2[p].sub[i] = h[p].sub[i + 1],
         \A m \in DOMAIN h \ {a, b, p} : Same(h, h2, m),
         \A m \in DOMAIN h : \A i : Slot(h, a, i, m) \/ Slot(h, b, i, m) => HasParent(h2, m)
  PROVE  Shape(h2, g2, rt, lv)
<1>1. /\ p \in DOMAIN h /\ ~ h[p].leaf /\ j \in 1 .. Len(h[p].sub) /\ h[p].sub[j] = a
      /\ a \in DOMAIN h /\ g[p].dep = g[a].dep + 1 /\ p # a
      /\ g[a].lo = Bound(h, g, p, j - 1) /\ g[a].hi = Bound(h, g, p, j)
      /\ Len(h[p].sub) = Len(h[p].key) + 1
  BY SlotIs
<1>2. /\ j + 1 \in 1 .. Len(h[p].sub) /\ h[p].sub[j + 1] = b
      /\ b \in DOMAIN h /\ g[p].dep = g[b].dep + 1 /\ p # b
      /\ g[b].lo = Bound(h, g, p, j + 1 - 1) /\ g[b].hi = Bound(h, g, p, j + 1)
  BY SlotIs
<1>0. Len(h[p].sub) \in Nat /\ Len(h[p].key) \in Nat
  BY <1>1, KeysAreInts
<1>u. /\ \A q, i : Slot(h, q, i, a) => q = p /\ i = j
      /\ \A q, i : Slot(h, q, i, b) => q = p /\ i = j + 1
  <2>1. \A q, i : Slot(h, q, i, a) => q = p /\ i = j
    BY SlotUnique
  <2>2. \A q, i : Slot(h, q, i, b) => q = p /\ i = j + 1
    BY SlotUnique
  <2> QED
    BY <2>1, <2>2
<1>3. a # rt /\ b # rt /\ a # b
  <2>1. a # rt
    BY SlotUnique
  <2>2. b # rt
    BY SlotUnique
  <2> QED
    BY <1>1, <1>u, <2>1, <2>2
<1>4. InnerOK(h, g, p) /\ Interval(g, p)
  BY <1>1 DEF Shape, NodeOK, OwnOK
<1>5. g2[p] = g[p] /\ p \in DOMAIN h2 /\ a \in DOMAIN h2
  BY <1>1, <1>2, <1>3
<1>6. InnerOK(h2, g2, p)
  <2>1. ASSUME NEW i \in 0 .. Len(h[p].sub) - 1
        PROVE  Bound(h2, g2, p, i) = IF i < j THEN Bound(h, g, p, i) ELSE Bound(h, g, p, i + 1)
    <3>0. i \in Int /\ i <= Len(h[p].sub) - 1 /\ j \in Int /\ 1 <= j /\ j <= Len(h[p].sub) - 1
      BY <1>0, <1>1, <1>2
    <3>1. CASE i = 0
      <4>1. i < j
        BY <3>0, <3>1
      <4> QED
        BY <1>5, <3>1, <4>1 DEF Bound
    <3>2. CASE i = Len(h[p].sub) - 1
      <4>1. ~ (i < j) /\ i + 1 = Len(h[p].sub) /\ i + 1 # 0 /\ i # 0
        BY <1>0, <3>0, <3>2
      <4> QED
        BY <1>5, <3>2, <4>1 DEF Bound
    <3>3. CASE i # 0 /\ i # Len(h[p].sub) - 1
      <4>0. i # Len(h2[p].sub)
        BY <3>3
      <4>1. CASE i < j
        <5>1. i \in 1 .. j - 1 /\ i # Len(h[p].sub)
          BY <1>0, <3>0, <3>3, <4>1
        <5>2. h2[p].key[i] = h[p].key[i]
          BY <5>1
        <5> QED
          BY <3>3, <4>0, <4>1, <5>1, <5>2 DEF Bound
      <4>3. CASE i >= j
        <5>1. i \in j .. Len(h[p].key) - 1 /\ i + 1 # 0 /\ i + 1 # Len(h[p].sub)
          BY <1>0, <1>1, <3>0, <3>3, <4>3
        <5>2. h2[p].key[i] = h[p].key[i + 1]
          BY <5>1
        <5>3. ~ (i < j)
          BY <3>0, <4>3
        <5> QED
          BY <3>3, <4>0, <5>1, <5>2, <5>3 DEF Bound
      <4> QED
        BY <3>0, <4>1, <4>3
    <3> QED
      BY <3>1, <3>2, <3>3
  <2>b. \A e, f \in 0 .. Len(h[p].sub) : e < f => Bound(h, g, p, e) < Bound(h, g, p, f)
    BY <1>4 DEF InnerOK
  <2>3. ASSUME NEW i \in 0 .. Len(h2[p].sub), NEW k \in 0 .. Len(h2[p].sub), i < k
        PROVE  Bound(h2, g2, p, i) < Bound(h2, g2, p, k)
    <3>0. i \in 0 .. Len(h[p].sub) - 1 /\ k \in 0 .. Len(h[p].sub) - 1
      OBVIOUS
    <3>d. /\ i \in 0 .. Len(h[p].sub) /\ k \in 0 .. Len(h[p].sub)
          /\ i + 1 \in 0 .. Len(h[p].sub) /\ k + 1 \in 0 .. Len(h[p].sub)
          /\ i < k + 1 /\ i + 1 < k + 1
      BY <1>0, <2>3, <3>0
    <3>1. CASE i < j /\ k < j
      BY <2>1, <2>b, <2>3, <3>0, <3>1, <3>d
    <3>2. CASE i < j /\ k >= j
      <4>1. ~ (k < j)
        BY <1>1, <3>0, <3>2
      <4> QED
        BY <2>1, <2>b, <2>3, <3>0, <3>2, <3>d, <4>1
    <3>3. CASE i >= j
      <4>1. ~ (k < j) /\ ~ (i < j)
        BY <1>1, <2>3, <3>0, <3>3
      <4> QED
        BY <2>1, <2>b, <2>3, <3>0, <3>d, <4>1
    <3> QED
      BY <1>1, <3>0, <3>1, <3>2, <3>3
  <2>5. ASSUME NEW i \in 1 .. Len(h[p].sub), i # j, i # j + 1
        PROVE  /\ h[p].sub[i] \in DOMAIN h2
               /\ g2[h[p].sub[i]] = g[h[p].sub[i]]
               /\ g[p].dep = g[h[p].sub[i]].dep + 1
               /\ g[h[p].sub[i]].lo = Bound(h, g, p, i - 1)
               /\ g[h[p].sub[i]].hi = Bound(h, g, p, i)
    <3> DEFINE c == h[p].sub[i]
    <3>1. /\ c \in DOMAIN h /\ g[p].dep = g[c].dep + 1
          /\ g[c].lo = Bound(h, g, p, i - 1) /\ g[c].hi = Bound(h, g, p, i)
      BY <1>4 DEF InnerOK
    <3>2. Slot(h, p, i, c)
      BY <1>1 DEF Slot
    <3>4. c # a /\ c # b
      BY <1>u, <2>5, <3>2
    <3> QED
      BY <3>1, <3>4
  <2>4. ASSUME NEW i \in 1 .. Len(h2[p].sub)
        PROVE  /\ h2[p].sub[i] \in DOMAIN h2
               /\ g2[p].dep = g2[h2[p].sub[i]].dep + 1
               /\ g2[h2[p].sub[i]].lo = Bound(h2, g2, p, i - 1)
               /\ g2[h2[p].sub[i]].hi = Bound(h2, g2, p, i)
    <3>0. i \in 0 .. Len(h[p].sub) - 1 /\ i - 1 \in 0 .. Len(h[p].sub) - 1
      BY <1>0
    <3>d. i \in Int /\ i <= Len(h[p].sub) - 1 /\ j \in Int /\ 1 <= j /\ j <= Len(h[p].sub) - 1
      BY <1>0, <1>1, <1>2, <3>0
    <3>1. CASE i < j
      <4>1. i \in 1 .. Len(h[p].sub) /\ i # j /\ i # j + 1 /\ i \in 1 .. j /\ i - 1 < j
        BY <1>0, <3>d, <3>1
      <4>2. /\ Bound(h2, g2, p, i) = Bound(h, g, p, i)
            /\ Bound(h2, g2, p, i - 1) = Bound(h, g, p, i - 1)
        BY <2>1, <3>0, <3>1, <4>1
      <4>3. h2[p].sub[i] = h[p].sub[i]
        BY <4>1
      <4>4. /\ h[p].sub[i] \in DOMAIN h2
            /\ g2[h[p].sub[i]] = g[h[p].sub[i]]
            /\ g[p].dep = g[h[p].sub[i]].dep + 1
            /\ g[h[p].sub[i]].lo = Bound(h, g, p, i - 1)
            /\ g[h[p].sub[i]].hi = Bound(h, g, p, i)
        BY <2>5, <4>1
      <4> QED
        BY ONLY <1>5, <4>2, <4>3, <4>4, Zenon
    <3>2. CASE i = j
      <4>1. j - 1 < j /\ ~ (j < j) /\ j \in 1 .. j
        BY <3>d
      <4>2. /\ Bound(h2, g2, p, i) = Bound(h, g, p, j + 1)
            /\ Bound(h2, g2, p, i - 1) = Bound(h, g, p, j - 1)
        BY <2>1, <3>0, <3>2, <4>1
      <4>3. h2[p].sub[i] = a
        BY <1>1, <3>2, <4>1
      <4> QED
        BY <1>1, <1>2, <1>5, <4>2, <4>3
    <3>4. CASE i > j
      <4>1. /\ i + 1 \in 1 .. Len(h[p].sub) /\ i + 1 # j /\ i + 1 # j + 1
            /\ i \in j + 1 .. Len(h[p].sub) - 1
            /\ ~ (i < j) /\ ~ (i - 1 < j) /\ i + 1 - 1 = i /\ i - 1 + 1 = i
        BY <1>0, <3>d, <3>4
      <4>2. h2[p].sub[i] = h[p].sub[i + 1]
        BY <4>1
      <4>3. /\ Bound(h2, g2, p, i) = Bound(h, g, p, i + 1)
            /\ Bound(h2, g2, p, i - 1) = Bound(h, g, p, i - 1 + 1)
        BY <2>1, <3>0, <4>1
      <4>4. /\ h[p].sub[i + 1] \in DOMAIN h2
            /\ g2[h[p].sub[i + 1]] = g[h[p].sub[i + 1]]
            /\ g[p].dep = g[h[p].sub[i + 1]].dep + 1
            /\ g[h[p].sub[i + 1]].lo = Bound(h, g, p, i + 1 - 1)
            /\ g[h[p].sub[i + 1]].hi = Bound(h, g, p, i + 1)
        BY <2>5, <4>1
      <4> QED
        BY ONLY <1>5, <4>1, <4>2, <4>3, <4>4, ZenonT(60)
    <3> QED
      BY <3>d, <3>1, <3>2, <3>4
  <2>6. Len(h2[p].sub) = Len(h2[p].key) + 1
    BY <1>0, <1>1
  <2> QED
    BY <2>3, <2>4, <2>6 DEF InnerOK
<1>7. ASSUME NEW m \in DOMAIN h2 PROVE OwnOK(h2, g2, m)
  <2>1. CASE m = p
    BY <1>1, <1>6, <2>1 DEF OwnOK
  <2>2. CASE m \notin {a, b, p}
    <3>0. m \in DOMAIN h
      BY <2>2
    <3>1. OwnOK(h, g, m)
      BY <3>0 DEF Shape, NodeOK
    <3>2. ASSUME ~ h[m].leaf, NEW i \in 1 .. Len(h[m].sub)
          PROVE  h[m].sub[i] \in DOMAIN h2 /\ g2[h[m].sub[i]] = g[h[m].sub[i]]
      <4>1. h[m].sub[i] \in DOMAIN h /\ h[m].sub[i] # a
        BY <2>2, <3>0, <3>2, KidKept
      <4>2. h[m].sub[i] # b
        BY <2>2, <3>0, <3>2, KidKept
      <4> QED
        BY <4>1, <4>2
    <3>3. Same(h, h2, m) /\ g2[m] = g[m]
      BY <2>2, <3>0
    <3> QED
      BY <3>1, <3>2, <3>3, OwnKept
  <2> QED
    BY <2>1, <2>2
<1>8. ASSUME NEW m \in DOMAIN h2, m # rt PROVE HasParent(h2, m)
  <2>0. m \in DOMAIN h /\ m # b
    OBVIOUS
  <2>1. PICK q \in DOMAIN h : \E i \in 1 .. Len(h[q].sub) : Slot(h, q, i, m)
    BY <1>8, <2>0 DEF Shape, NodeOK, HasParent
  <2>2. PICK i \in 1 .. Len(h[q].sub) : Slot(h, q, i, m)
    BY <2>1
  <2>3. CASE q \in {a, b}
    BY <2>0, <2>2, <2>3
  <2>4. CASE q = p
    <3>1. i # j + 1 /\ h[p].sub[i] = m /\ i \in 1 .. Len(h[p].sub)
      BY <1>2, <2>0, <2>2, <2>4 DEF Slot
    <3>2. CASE i <= j
      <4>1. i \in 1 .. j /\ i \in 1 .. Len(h2[p].sub)
        BY <1>0, <1>1, <1>2, <3>1, <3>2
      <4>2. Slot(h2, p, i, m)
        BY <1>1, <1>5, <3>1, <4>1 DEF Slot
      <4> QED
        BY <1>5, <4>1, <4>2 DEF HasParent
    <3>3. CASE i > j
      <4>0. i \in Int /\ i <= Len(h[p].sub) /\ j \in Int /\ 1 <= j
        BY <1>0, <1>1, <3>1
      <4>1. i - 1 \in j + 1 .. Len(h[p].sub) - 1 /\ i - 1 \in 1 .. Len(h2[p].sub) /\ i - 1 + 1 = i
        BY <1>0, <3>1, <3>3, <4>0
      <4>2. h2[p].sub[i - 1] = m
        BY <3>1, <4>1
      <4>3. Slot(h2, p, i - 1, m)
        BY <1>1, <1>5, <4>1, <4>2 DEF Slot
      <4> QED
        BY <1>5, <4>1, <4>3 DEF HasParent
    <3> QED
      BY <1>1, <3>1, <3>2, <3>3
  <2>5. CASE q \notin {a, b, p}
    <3>1. h2[q].sub = h[q].sub /\ h2[q].leaf = h[q].leaf /\ q \in DOMAIN h2
      BY <2>5 DEF Same
    <3>2. Slot(h2, q, i, m) /\ i \in 1 .. Len(h2[q].sub)
      BY <2>2, <3>1 DEF Slot
    <3> QED
      BY <3>1, <3>2 DEF HasParent
  <2> QED
    BY <2>3, <2>4, <2>5
<1>9. ASSUME NEW m \in DOMAIN h2
      PROVE  /\ Interval(g2, m) /\ g2[m].dep = g[m].dep /\ h2[m].leaf = h[m].leaf
  <2>0. Interval(g, a) /\ Interval(g, b) /\ g[a].hi = g[b].lo
    BY <1>1, <1>2 DEF Shape, NodeOK
  <2>1. Interval(g, m)
    BY DEF Shape, NodeOK
  <2>2. CASE m = a
    BY <2>0, <2>2 DEF Interval
  <2>3. CASE m # a
    BY <2>1, <2>3 DEF Interval, Same
  <2> QED
    BY <2>2, <2>3
<1>10. rt # Null => g2[rt] = g[rt] /\ rt \in DOMAIN h2
  BY <1>3 DEF Shape
<1>11. rt = Null => DOMAIN h = {}
  BY DEF Shape
<1>12. ASSUME NEW m \in DOMAIN h2 PROVE NodeOK(h2, g2, rt, lv, m)
  <2>1. g[m].dep \in 0 .. lv /\ (h[m].leaf <=> g[m].dep = 0)
    BY DEF Shape, NodeOK
  <2> QED
    BY <1>7, <1>8, <1>9, <2>1 DEF NodeOK
<1>13. rt # Null /\ lv \in Nat
  BY <1>1, <1>11 DEF Shape
<1> QED
  BY <1>10, <1>12, <1>13 DEF Shape

\* Every key lies between Bottom and Top.
LEMMA BottomTop ==
  /\ Bottom \in Int /\ Top \in Int /\ Bottom < Top
  /\ \A k \in Keys : Bottom <= k /\ k < Top
<1>1. \E b \in Int : \A k \in Keys : b <= k
  <2>1. CASE Keys = {}
    BY <2>1
  <2>2. CASE Keys # {}
    BY <2>2, TreeKeysAssumption
  <2> QED
    BY <2>1, <2>2
<1>2. Bottom \in Int /\ \A k \in Keys : Bottom <= k
  BY <1>1 DEF Bottom
<1>3. \E t \in Int : Bottom < t /\ \A k \in Keys : k < t
  <2>1. CASE Keys = {}
    <3>1. Bottom + 1 \in Int /\ Bottom < Bottom + 1
      BY <1>2
    <3> QED
      BY <2>1, <3>1
  <2>2. CASE Keys # {}
    <3>1. PICK least \in Keys, greatest \in Keys : Keys \subseteq least .. greatest
      BY <2>2, TreeKeysAssumption
    <3>2. greatest \in Int /\ Bottom <= greatest /\ least \in Int
      BY <1>2, <3>1, TreeKeysAssumption
    <3>3. greatest + 1 \in Int /\ Bottom < greatest + 1 /\ \A k \in Keys : k < greatest + 1
      BY <1>2, <3>1, <3>2
    <3> QED
      BY <3>3
  <2> QED
    BY <2>1, <2>2
<1>4. Top \in Int /\ Bottom < Top /\ \A k \in Keys : k < Top
  BY <1>3 DEF Top
<1> QED
  BY <1>2, <1>4

\* The tree of one leaf with one entry has the shape of a tree.
LEMMA FirstShape ==
  ASSUME NEW h, NEW g, NEW n \in Nat \ {0}, DOMAIN h = {n}, h[n].leaf = TRUE,
         Len(h[n].key) = 1, Len(h[n].sub) = 1, h[n].key[1] \in Keys,
         g[n].lo = Bottom, g[n].hi = Top, g[n].dep = 0
  PROVE  Shape(h, g, n, 0)
<1>1. LeafOK(h, g, n)
  BY BottomTop DEF LeafOK
<1>2. Interval(g, n)
  BY BottomTop DEF Interval
<1>3. NodeOK(h, g, n, 0, n)
  BY <1>1, <1>2 DEF NodeOK, OwnOK
<1> QED
  BY <1>3 DEF Shape, Null

\* So has the empty tree.
LEMMA EmptyShape ==
  ASSUME NEW h, NEW g, DOMAIN h = {}
  PROVE  Shape(h, g, Null, 0)
BY DEF Shape, Null

\* The root x of h has become a and b in h2, the children of a new root r.
InTwoUnder(h, h2, g, g2, x, z, r, a, b, s) ==
  /\ s \in Int /\ x # Null /\ z \notin DOMAIN h /\ r \in Nat \ {0} /\ r \notin DOMAIN h /\ r # z
  /\ (a = x /\ b = z) \/ (a = z /\ b = x)
  /\ g[x].lo < s /\ s < g[x].hi
  /\ DOMAIN h2 = DOMAIN h \cup {z, r}
  /\ g2[a].lo = g[x].lo /\ g2[a].hi = s /\ g2[a].dep = g[x].dep
  /\ g2[b].lo = s /\ g2[b].hi = g[x].hi /\ g2[b].dep = g[x].dep
  /\ g2[r].lo = g[x].lo /\ g2[r].hi = g[x].hi /\ g2[r].dep = g[x].dep + 1
  /\ \A m \in DOMAIN h \ {x} : g2[m] = g[m]
  /\ h2[a].leaf = h[x].leaf /\ h2[b].leaf = h[x].leaf /\ OwnOK(h2, g2, a) /\ OwnOK(h2, g2, b)
  /\ h2[r].leaf = FALSE /\ Len(h2[r].key) = 1 /\ h2[r].key[1] = s
  /\ Len(h2[r].sub) = 2 /\ h2[r].sub[1] = a /\ h2[r].sub[2] = b
  /\ \A m \in DOMAIN h \ {x} : Same(h, h2, m)
  /\ \A m \in DOMAIN h : \A i : Slot(h, x, i, m) => HasParent(h2, m)

\* The root x is split: a and b, one of them the new node z, share what x held,
\* and the new root r has them for its children.
LEMMA SplitRootShape ==
  ASSUME NEW h, NEW h2, NEW g, NEW g2, NEW x, NEW lv,
         HeapOK(h), Shape(h, g, x, lv), Links(h, x),
         NEW z, NEW r, NEW a, NEW b, NEW s, InTwoUnder(h, h2, g, g2, x, z, r, a, b, s)
  PROVE  Shape(h2, g2, r, lv + 1)
<1> SUFFICES ASSUME
         s \in Int /\ x # Null /\ z \notin DOMAIN h /\ r \in Nat \ {0} /\ r \notin DOMAIN h /\ r # z,
         ((a = x /\ b = z) \/ (a = z /\ b = x)),
         g[x].lo < s /\ s < g[x].hi,
         DOMAIN h2 = DOMAIN h \cup {z, r},
         g2[a].lo = g[x].lo /\ g2[a].hi = s /\ g2[a].dep = g[x].dep,
         g2[b].lo = s /\ g2[b].hi = g[x].hi /\ g2[b].dep = g[x].dep,
         g2[r].lo = g[x].lo /\ g2[r].hi = g[x].hi /\ g2[r].dep = g[x].dep + 1,
         (\A m \in DOMAIN h \ {x} : g2[m] = g[m]),
         h2[a].leaf = h[x].leaf /\ h2[b].leaf = h[x].leaf /\ OwnOK(h2, g2, a) /\ OwnOK(h2, g2, b),
         h2[r].leaf = FALSE /\ Len(h2[r].key) = 1 /\ h2[r].key[1] = s,
         Len(h2[r].sub) = 2 /\ h2[r].sub[1] = a /\ h2[r].sub[2] = b,
         (\A m \in DOMAIN h \ {x} : Same(h, h2, m)),
         (\A m \in DOMAIN h : \A i : Slot(h, x, i, m) => HasParent(h2, m))
    PROVE Shape(h2, g2, r, lv + 1)
  BY DEF InTwoUnder
<1>1. x \in DOMAIN h /\ g[x].dep = lv /\ g[x].lo = Bottom /\ g[x].hi = Top /\ lv \in Nat
  BY DEF Shape
<1>2. \A m \in DOMAIN h : NodeOK(h, g, x, lv, m)
  BY DEF Shape
<1>3. Interval(g, x)
  BY <1>1, <1>2 DEF NodeOK
<1>4. InnerOK(h2, g2, r)
  <2>1. Bound(h2, g2, r, 0) = g[x].lo /\ Bound(h2, g2, r, 1) = s /\ Bound(h2, g2, r, 2) = g[x].hi
    BY DEF Bound
  <2>2. \A i, k \in 0 .. 2 : i < k => Bound(h2, g2, r, i) < Bound(h2, g2, r, k)
    <3> SUFFICES ASSUME NEW i \in 0 .. 2, NEW k \in 0 .. 2, i < k
                 PROVE  Bound(h2, g2, r, i) < Bound(h2, g2, r, k)
      OBVIOUS
    <3>1. (i = 0 /\ k = 1) \/ (i = 0 /\ k = 2) \/ (i = 1 /\ k = 2)
      OBVIOUS
    <3>2. g[x].lo \in Int /\ g[x].hi \in Int
      BY <1>3 DEF Interval
    <3> QED
      BY <2>1, <3>1, <3>2
  <2>3. ASSUME NEW j \in 1 .. 2
        PROVE  /\ h2[r].sub[j] \in DOMAIN h2 /\ g2[r].dep = g2[h2[r].sub[j]].dep + 1
               /\ g2[h2[r].sub[j]].lo = Bound(h2, g2, r, j - 1)
               /\ g2[h2[r].sub[j]].hi = Bound(h2, g2, r, j)
    <3>1. CASE j = 1
      BY <1>1, <2>1, <3>1
    <3>2. CASE j = 2
      BY <1>1, <2>1, <3>2
    <3> QED
      BY <3>1, <3>2
  <2> QED
    BY <2>2, <2>3 DEF InnerOK
<1>5. ASSUME NEW m \in DOMAIN h2 PROVE OwnOK(h2, g2, m)
  <2>1. CASE m = r
    BY <1>4, <2>1 DEF OwnOK
  <2>2. CASE m \notin {a, b, r}
    <3>0. m \in DOMAIN h /\ m # x
      BY <2>2
    <3>1. OwnOK(h, g, m)
      BY <1>2, <3>0 DEF NodeOK
    <3>2. ASSUME ~ h[m].leaf, NEW i \in 1 .. Len(h[m].sub)
          PROVE  h[m].sub[i] \in DOMAIN h2 /\ g2[h[m].sub[i]] = g[h[m].sub[i]]
      <4>1. h[m].sub[i] \in DOMAIN h
        BY <3>1, <3>2 DEF OwnOK, InnerOK
      <4>2. Slot(h, m, i, h[m].sub[i])
        BY <3>0, <3>2 DEF Slot
      <4>3. h[m].sub[i] # x
        BY <4>2, SlotUnique
      <4> QED
        BY <4>1, <4>3
    <3>3. Same(h, h2, m) /\ g2[m] = g[m]
      BY <3>0
    <3> QED
      BY <3>1, <3>2, <3>3, OwnKept
  <2> QED
    BY <2>1, <2>2
<1>6. HasParent(h2, a) /\ HasParent(h2, b)
  <2>1. Slot(h2, r, 1, a) /\ Slot(h2, r, 2, b) /\ r \in DOMAIN h2
        /\ 1 \in 1 .. Len(h2[r].sub) /\ 2 \in 1 .. Len(h2[r].sub)
    BY DEF Slot
  <2> QED
    BY <2>1 DEF HasParent
<1>7. ASSUME NEW m \in DOMAIN h2, m # r PROVE HasParent(h2, m)
  <2>0. CASE m \in {a, b}
    BY <1>6, <2>0
  <2>1. CASE m \notin {a, b}
    <3>0. m \in DOMAIN h /\ m # x
      BY <1>7, <2>1
    <3>1. PICK q \in DOMAIN h : \E i \in 1 .. Len(h[q].sub) : Slot(h, q, i, m)
      BY <1>2, <3>0 DEF NodeOK, HasParent
    <3>2. PICK i \in 1 .. Len(h[q].sub) : Slot(h, q, i, m)
      BY <3>1
    <3>3. CASE q = x
      BY <3>0, <3>2, <3>3
    <3>4. CASE q # x
      <4>1. h2[q].sub = h[q].sub /\ h2[q].leaf = h[q].leaf /\ q \in DOMAIN h2
        BY <3>4 DEF Same
      <4>2. Slot(h2, q, i, m) /\ i \in 1 .. Len(h2[q].sub)
        BY <3>2, <4>1 DEF Slot
      <4> QED
        BY <4>1, <4>2 DEF HasParent
    <3> QED
      BY <3>3, <3>4
  <2> QED
    BY <2>0, <2>1
<1>8. ASSUME NEW m \in DOMAIN h2
      PROVE  /\ Interval(g2, m) /\ g2[m].dep \in 0 .. lv + 1 /\ (h2[m].leaf <=> g2[m].dep = 0)
  <2>1. g[x].dep \in 0 .. lv /\ (h[x].leaf <=> g[x].dep = 0)
    BY <1>1, <1>2 DEF NodeOK
  <2>2. CASE m \in {a, b}
    BY <1>1, <1>3, <2>1, <2>2 DEF Interval
  <2>3. CASE m = r
    BY <1>1, <1>3, <2>3 DEF Interval
  <2>4. CASE m \notin {a, b, r}
    <3>0. m \in DOMAIN h /\ m # x
      BY <2>4
    <3>1. Interval(g, m) /\ g[m].dep \in 0 .. lv /\ (h[m].leaf <=> g[m].dep = 0)
      BY <1>2, <3>0 DEF NodeOK
    <3>2. h2[m].leaf = h[m].leaf /\ g2[m] = g[m]
      BY <3>0 DEF Same
    <3> QED
      BY <1>1, <3>1, <3>2 DEF Interval
  <2> QED
    BY <2>2, <2>3, <2>4
<1>9. \A m \in DOMAIN h2 : NodeOK(h2, g2, r, lv + 1, m)
  BY <1>5, <1>7, <1>8 DEF NodeOK
<1> QED
  BY <1>1, <1>9 DEF Shape, Null

\* The root with one child gives way to it.
LEMMA CollapseShape ==
  ASSUME NEW h, NEW h2, NEW g, NEW rt, NEW lv,
         HeapOK(h), Shape(h, g, rt, lv), Links(h, rt), rt # Null,
         ~ h[rt].leaf, Len(h[rt].sub) = 1, NEW c, c = h[rt].sub[1],
         DOMAIN h2 = DOMAIN h \ {rt}, \A m \in DOMAIN h2 : Same(h, h2, m)
  PROVE  Shape(h2, g, c, lv - 1)
<1>1. rt \in DOMAIN h /\ g[rt].dep = lv /\ g[rt].lo = Bottom /\ g[rt].hi = Top /\ lv \in Nat
  BY DEF Shape
<1>2. \A m \in DOMAIN h : NodeOK(h, g, rt, lv, m)
  BY DEF Shape
<1>3. Slot(h, rt, 1, c)
  BY <1>1 DEF Slot
<1>4. /\ c \in DOMAIN h /\ g[rt].dep = g[c].dep + 1 /\ rt # c
      /\ g[c].lo = Bound(h, g, rt, 1 - 1) /\ g[c].hi = Bound(h, g, rt, 1) /\ g[c].dep \in Nat
  BY <1>3, SlotIs
<1>5. g[c].lo = Bottom /\ g[c].hi = Top /\ g[c].dep = lv - 1 /\ lv - 1 \in Nat /\ c # Null
  BY <1>1, <1>4 DEF Bound, HeapOK, Null
<1>6. ASSUME NEW m \in DOMAIN h2
      PROVE  \E q \in DOMAIN h : \E i \in 1 .. Len(h[q].sub) : Slot(h, q, i, m)
  BY <1>2 DEF NodeOK, HasParent
<1>7. ASSUME NEW m \in DOMAIN h2 PROVE g[m].dep \in 0 .. lv - 1
  <2>1. PICK q \in DOMAIN h : \E i \in 1 .. Len(h[q].sub) : Slot(h, q, i, m)
    BY <1>6
  <2>2. PICK i \in 1 .. Len(h[q].sub) : Slot(h, q, i, m)
    BY <2>1
  <2>3. g[q].dep = g[m].dep + 1 /\ g[m].dep \in Nat
    BY <2>2, SlotIs
  <2>4. g[q].dep \in 0 .. lv
    BY <1>2 DEF NodeOK
  <2> QED
    BY <1>1, <2>3, <2>4
<1>8. ASSUME NEW m \in DOMAIN h2, m # c PROVE HasParent(h2, m)
  <2>1. PICK q \in DOMAIN h : \E i \in 1 .. Len(h[q].sub) : Slot(h, q, i, m)
    BY <1>6
  <2>2. PICK i \in 1 .. Len(h[q].sub) : Slot(h, q, i, m)
    BY <2>1
  <2>3. q # rt
    <3>1. SUFFICES ASSUME q = rt PROVE FALSE
      OBVIOUS
    <3>2. i \in 1 .. 1
      BY <2>2, <3>1 DEF Slot
    <3> QED
      BY <1>8, <2>2, <3>1, <3>2 DEF Slot
  <2>4. h2[q].sub = h[q].sub /\ h2[q].leaf = h[q].leaf /\ q \in DOMAIN h2
    BY <2>3 DEF Same
  <2>5. Slot(h2, q, i, m) /\ i \in 1 .. Len(h2[q].sub)
    BY <2>2, <2>4 DEF Slot
  <2> QED
    BY <2>4, <2>5 DEF HasParent
<1>9. ASSUME NEW m \in DOMAIN h2 PROVE OwnOK(h2, g, m)
  <2>1. OwnOK(h, g, m) /\ m # rt
    BY <1>2 DEF NodeOK
  <2>2. ASSUME ~ h[m].leaf, NEW i \in 1 .. Len(h[m].sub)
        PROVE  h[m].sub[i] \in DOMAIN h2
    <3>1. h[m].sub[i] \in DOMAIN h
      BY <2>1, <2>2 DEF OwnOK, InnerOK
    <3>2. Slot(h, m, i, h[m].sub[i])
      BY <2>1, <2>2 DEF Slot
    <3>3. h[m].sub[i] # rt
      BY <3>2, SlotUnique
    <3> QED
      BY <3>1, <3>3
  <2>3. Same(h, h2, m)
    OBVIOUS
  <2> QED
    BY <2>1, <2>2, <2>3, OwnKept
<1>10. ASSUME NEW m \in DOMAIN h2 PROVE NodeOK(h2, g, c, lv - 1, m)
  <2>1. Interval(g, m) /\ (h[m].leaf <=> g[m].dep = 0) /\ h2[m].leaf = h[m].leaf
    BY <1>2 DEF NodeOK, Same
  <2> QED
    BY <1>7, <1>8, <1>9, <2>1 DEF NodeOK
<1>11. c \in DOMAIN h2
  BY <1>4
<1> QED
  BY <1>5, <1>10, <1>11 DEF Shape

\* What Chain says of one list.
Row(s, l, D, g) ==
  /\ s \in Seq(D)
  /\ \A i \in 1 .. Len(s) : g[s[i]].dep = l
  /\ \A n \in D : g[n].dep = l => \E i \in 1 .. Len(s) : s[i] = n
  /\ \A i, j \in 1 .. Len(s) : i < j => g[s[i]].hi <= g[s[j]].lo

\* The level lists, one row a level.
LEMMA ChainRows ==
  ASSUME NEW ls, NEW D, NEW g
  PROVE  Chain(ls, D, g) <=> /\ DOMAIN ls = 0 .. MaxLevel - 1
                             /\ \A l \in DOMAIN ls : Row(ls[l], l, D, g)
BY DEF Chain, Row

\* A row names each of its nodes once, and their intervals do not overlap.
LEMMA RowIs ==
  ASSUME NEW s, NEW l, NEW D, NEW g, Row(s, l, D, g), \A n \in D : Interval(g, n)
  PROVE  /\ Len(s) \in Nat /\ DOMAIN s = 1 .. Len(s)
         /\ \A i \in 1 .. Len(s) : s[i] \in D
         /\ \A i, j \in 1 .. Len(s) : s[i] = s[j] => i = j
         /\ \A m, n \in D : g[m].dep = l /\ g[n].dep = l /\ m # n =>
              g[m].hi <= g[n].lo \/ g[n].hi <= g[m].lo
<1>1. s \in Seq(D)
  BY DEF Row
<1>2. Len(s) \in Nat /\ DOMAIN s = 1 .. Len(s) /\ \A i \in 1 .. Len(s) : s[i] \in D
  BY <1>1, LenProperties, ElementOfSeq
<1>3. ASSUME NEW i \in 1 .. Len(s), NEW j \in 1 .. Len(s), i < j PROVE s[i] # s[j]
  <2>1. g[s[i]].hi <= g[s[j]].lo /\ Interval(g, s[i])
    BY <1>2, <1>3 DEF Row
  <2> QED
    BY <2>1 DEF Interval
<1>4. \A i, j \in 1 .. Len(s) : s[i] = s[j] => i = j
  <2> SUFFICES ASSUME NEW i \in 1 .. Len(s), NEW j \in 1 .. Len(s), s[i] = s[j], i # j
               PROVE  FALSE
    OBVIOUS
  <2>1. i < j \/ j < i
    OBVIOUS
  <2> QED
    BY <1>3, <2>1
<1>5. ASSUME NEW m \in D, NEW n \in D, g[m].dep = l, g[n].dep = l, m # n
      PROVE  g[m].hi <= g[n].lo \/ g[n].hi <= g[m].lo
  <2>1. PICK i \in 1 .. Len(s) : s[i] = m
    BY <1>5 DEF Row
  <2>2. PICK j \in 1 .. Len(s) : s[j] = n
    BY <1>5 DEF Row
  <2>3. i < j \/ j < i
    BY <1>5, <2>1, <2>2
  <2> QED
    BY <2>1, <2>2, <2>3 DEF Row
<1> QED
  BY <1>2, <1>4, <1>5

\* Two nodes of a level: one lies left of the other.
LEMMA ChainOrder ==
  ASSUME NEW ls, NEW D, NEW g, Chain(ls, D, g), \A n \in D : Interval(g, n),
         NEW m \in D, NEW n \in D, m # n, g[m].dep = g[n].dep, g[m].dep \in DOMAIN ls
  PROVE  g[m].hi <= g[n].lo \/ g[n].hi <= g[m].lo
BY ChainRows, RowIs

\* LevelOf and PlaceIn find a node in the lists.
LEMMA LevelIs ==
  ASSUME NEW D, NEW g, Chain(list, D, g), NEW n \in D, g[n].dep \in DOMAIN list
  PROVE  /\ LevelOf(n) = g[n].dep
         /\ PlaceIn(list[g[n].dep], n) \in 1 .. Len(list[g[n].dep])
         /\ list[g[n].dep][PlaceIn(list[g[n].dep], n)] = n
<1>1. \A l \in DOMAIN list : Row(list[l], l, D, g)
  BY ChainRows
<1>2. \E i \in 1 .. Len(list[g[n].dep]) : list[g[n].dep][i] = n
  BY <1>1 DEF Row
<1>3. Contains(list[g[n].dep], n)
  BY <1>2 DEF Contains
<1>4. ASSUME NEW l \in DOMAIN list, Contains(list[l], n) PROVE l = g[n].dep
  <2>1. PICK i \in 1 .. Len(list[l]) : list[l][i] = n
    BY <1>4 DEF Contains
  <2> QED
    BY <1>1, <2>1 DEF Row
<1>5. LevelOf(n) = g[n].dep
  BY <1>3, <1>4 DEF LevelOf
<1>6. DOMAIN list[g[n].dep] = 1 .. Len(list[g[n].dep])
  <2>1. list[g[n].dep] \in Seq(D)
    BY <1>1 DEF Row
  <2> QED
    BY <2>1, LenProperties
<1>7. \E i \in DOMAIN list[g[n].dep] : list[g[n].dep][i] = n
  BY <1>2, <1>6
<1>8. /\ PlaceIn(list[g[n].dep], n) \in DOMAIN list[g[n].dep]
      /\ list[g[n].dep][PlaceIn(list[g[n].dep], n)] = n
  BY <1>7 DEF PlaceIn
<1> QED
  BY <1>5, <1>6, <1>8

\* Nodes whose intervals meet are neighbours in the list of their level.
LEMMA NeighboursAre ==
  ASSUME NEW D, NEW g, Chain(list, D, g), \A n \in D : Interval(g, n),
         NEW a \in D, NEW b \in D, g[a].dep = g[b].dep, g[a].dep \in DOMAIN list,
         g[a].hi = g[b].lo
  PROVE  NextOf(a) = b /\ Prev(b) = a
<1> DEFINE l == g[a].dep
           s == list[l]
           i == PlaceIn(s, a)
           j == PlaceIn(s, b)
<1>1. LevelOf(a) = l /\ i \in 1 .. Len(s) /\ s[i] = a
  BY LevelIs
<1>2. LevelOf(b) = l /\ j \in 1 .. Len(s) /\ s[j] = b
  BY LevelIs
<1>3. Row(s, l, D, g)
  BY ChainRows
<1>4. /\ Len(s) \in Nat /\ DOMAIN s = 1 .. Len(s)
      /\ \A e \in 1 .. Len(s) : s[e] \in D
  BY <1>3, RowIs
<1>5. Interval(g, a) /\ Interval(g, b)
  OBVIOUS
<1>6. j = i + 1
  <2> HIDE DEF i, j, s, l
  <2>1. ~ (j <= i)
    <3>1. SUFFICES ASSUME j <= i PROVE FALSE
      OBVIOUS
    <3>2. j = i \/ j < i
      BY <1>1, <1>2, <3>1
    <3>3. CASE j = i
      BY <1>1, <1>2, <1>5, <3>3 DEF Interval
    <3>4. CASE j < i
      <4>1. g[b].hi <= g[a].lo
        BY <1>1, <1>2, <1>3, <3>4 DEF Row
      <4> QED
        BY <1>5, <4>1 DEF Interval
    <3> QED
      BY <3>2, <3>3, <3>4
  <2>2. ~ (i + 1 < j)
    <3>1. SUFFICES ASSUME i + 1 < j PROVE FALSE
      OBVIOUS
    <3>2. i + 1 \in 1 .. Len(s) /\ i < i + 1
      BY <1>1, <1>2, <1>4, <3>1
    <3>3. g[s[i]].hi <= g[s[i + 1]].lo /\ g[s[i + 1]].hi <= g[s[j]].lo
      BY <1>1, <1>2, <1>3, <3>1, <3>2 DEF Row
    <3>4. Interval(g, s[i + 1])
      BY <1>4, <3>2
    <3> QED
      BY <1>1, <1>2, <1>5, <3>3, <3>4 DEF Interval
  <2> QED
    BY <1>1, <1>2, <1>4, <2>1, <2>2
<1>7. Neighbour(a, 1) = IF i + 1 \in DOMAIN s THEN s[i + 1] ELSE Null
  BY <1>1 DEF Neighbour
<1>8. Neighbour(b, -1) = IF j + -1 \in DOMAIN s THEN s[j + -1] ELSE Null
  BY <1>2 DEF Neighbour
<1> HIDE DEF i, j, s, l
<1>9. j + -1 = i
  BY <1>1, <1>4, <1>6
<1> QED
  BY <1>1, <1>2, <1>4, <1>6, <1>7, <1>8, <1>9 DEF NextOf, Prev

\* The lists stay in order when the intervals move with them.
LEMMA ChainShift ==
  ASSUME NEW ls, NEW D, NEW g, NEW g2, Chain(ls, D, g),
         \A n \in D : g2[n].dep = g[n].dep,
         \A m, n \in D : g[m].dep = g[n].dep /\ g[m].hi <= g[n].lo /\ g[m].dep \in DOMAIN ls
                           => g2[m].hi <= g2[n].lo
  PROVE  Chain(ls, D, g2)
<1> SUFFICES ASSUME NEW l \in DOMAIN ls PROVE Row(ls[l], l, D, g2)
  BY ChainRows
<1>1. Row(ls[l], l, D, g)
  BY ChainRows
<1>2. \A i \in 1 .. Len(ls[l]) : ls[l][i] \in D
  BY <1>1, ElementOfSeq DEF Row
<1>3. ASSUME NEW i \in 1 .. Len(ls[l]), NEW j \in 1 .. Len(ls[l]), i < j
      PROVE  g2[ls[l][i]].hi <= g2[ls[l][j]].lo
  BY <1>1, <1>2, <1>3, SMTT(60) DEF Row
<1> QED
  BY <1>1, <1>2, <1>3 DEF Row

\* Taking a node out of its list.
LEMMA ChainRemove ==
  ASSUME NEW ls, NEW D, NEW g, Chain(ls, D, g), \A n \in D : Interval(g, n),
         NEW l \in DOMAIN ls, NEW i \in 1 .. Len(ls[l])
  PROVE  Chain([ls EXCEPT ![l] = RemoveAt(@, i)], D \ {ls[l][i]}, g)
<1> DEFINE b == ls[l][i]
           s == ls[l]
           t == RemoveAt(s, i)
           ls2 == [ls EXCEPT ![l] = RemoveAt(@, i)]
<1>1. Row(s, l, D, g)
  BY ChainRows
<1>2. /\ Len(s) \in Nat /\ \A k \in 1 .. Len(s) : s[k] \in D
      /\ \A k, e \in 1 .. Len(s) : s[k] = s[e] => k = e
  BY <1>1, RowIs
<1>3. /\ t \in Seq(D) /\ Len(t) = Len(s) - 1
      /\ \A k \in 1 .. i - 1 : t[k] = s[k]
      /\ \A k \in i .. Len(s) - 1 : t[k] = s[k + 1]
  BY <1>1, RemoveAtIs DEF Row
<1> HIDE DEF t
<1>4. ASSUME NEW k \in 1 .. Len(t)
      PROVE  \E e \in 1 .. Len(s) : e # i /\ t[k] = s[e] /\ e = IF k < i THEN k ELSE k + 1
  <2>1. CASE k < i
    BY <1>2, <1>3, <2>1
  <2>2. CASE ~ (k < i)
    <3>1. k \in i .. Len(s) - 1 /\ k + 1 \in 1 .. Len(s) /\ k + 1 # i
      BY <1>2, <1>3, <2>2
    <3> QED
      BY <1>3, <2>2, <3>1
  <2> QED
    BY <2>1, <2>2
<1>5. ASSUME NEW e \in 1 .. Len(s), e # i PROVE \E k \in 1 .. Len(t) : t[k] = s[e]
  <2>1. CASE e < i
    <3>1. e \in 1 .. Len(t) /\ e \in 1 .. i - 1
      BY <1>2, <1>3, <2>1
    <3> QED
      BY <1>3, <3>1
  <2>2. CASE e > i
    <3>1. e - 1 \in 1 .. Len(t) /\ e - 1 \in i .. Len(s) - 1 /\ e - 1 + 1 = e
      BY <1>2, <1>3, <2>2
    <3> QED
      BY <1>3, <3>1
  <2> QED
    BY <1>5, <2>1, <2>2
<1>6. Row(t, l, D \ {b}, g)
  <2>1. \A k \in 1 .. Len(t) : t[k] \in D \ {b} /\ g[t[k]].dep = l
    <3> SUFFICES ASSUME NEW k \in 1 .. Len(t) PROVE t[k] \in D \ {b} /\ g[t[k]].dep = l
      OBVIOUS
    <3>1. PICK e \in 1 .. Len(s) : e # i /\ t[k] = s[e]
      BY <1>4
    <3> QED
      BY <1>1, <1>2, <3>1 DEF Row
  <2>2. t \in Seq(D \ {b})
    <3>1. Len(t) \in Nat /\ t = [k \in 1 .. Len(t) |-> t[k]]
      BY <1>3, LenProperties
    <3> QED
      BY <2>1, <3>1
  <2>3. ASSUME NEW n \in D \ {b}, g[n].dep = l PROVE \E k \in 1 .. Len(t) : t[k] = n
    <3>1. PICK e \in 1 .. Len(s) : s[e] = n
      BY <1>1, <2>3 DEF Row
    <3> QED
      BY <1>5, <3>1
  <2>4. ASSUME NEW k \in 1 .. Len(t), NEW f \in 1 .. Len(t), k < f
        PROVE  g[t[k]].hi <= g[t[f]].lo
    <3>1. PICK e \in 1 .. Len(s) : e # i /\ t[k] = s[e] /\ e = IF k < i THEN k ELSE k + 1
      BY <1>4
    <3>2. PICK q \in 1 .. Len(s) : q # i /\ t[f] = s[q] /\ q = IF f < i THEN f ELSE f + 1
      BY <1>4
    <3>3. e < q
      BY <1>2, <1>3, <2>4, <3>1, <3>2
    <3> QED
      BY <1>1, <3>1, <3>2, <3>3 DEF Row
  <2> QED
    BY <2>1, <2>2, <2>3, <2>4 DEF Row
<1>7. ASSUME NEW k \in DOMAIN ls, k # l PROVE Row(ls[k], k, D \ {b}, g)
  <2>1. Row(ls[k], k, D, g)
    BY ChainRows
  <2>2. g[b].dep = l
    BY <1>1 DEF Row
  <2>3. ls[k] \in Seq(D) /\ Len(ls[k]) \in Nat /\ \A e \in 1 .. Len(ls[k]) : ls[k][e] \in D
    BY <2>1, RowIs DEF Row
  <2>4. \A e \in 1 .. Len(ls[k]) : ls[k][e] \in D \ {b}
    BY <1>7, <2>1, <2>2, <2>3 DEF Row
  <2>5. ls[k] \in Seq(D \ {b})
    <3>1. ls[k] = [e \in 1 .. Len(ls[k]) |-> ls[k][e]]
      BY <2>3, LenProperties
    <3> QED
      BY <2>3, <2>4, <3>1
  <2> QED
    BY <2>1, <2>5 DEF Row
<1>8. DOMAIN ls2 = DOMAIN ls /\ ls2[l] = t /\ \A k \in DOMAIN ls : k # l => ls2[k] = ls[k]
  BY DEF t
<1> HIDE DEF ls2
<1>9. \A k \in DOMAIN ls2 : Row(ls2[k], k, D \ {b}, g)
  BY <1>6, <1>7, <1>8
<1>10. Chain(ls2, D \ {b}, g)
  BY <1>8, <1>9, ChainRows
<1> QED
  BY <1>10 DEF ls2

\* The lists with r at the head of level l.
Headed(ls, l, r) == [ls EXCEPT ![l] = <<r>> \o @]

\* A node is added to a level that has none.
LEMMA ChainNew ==
  ASSUME NEW ls, NEW D, NEW g, NEW g2, NEW r, NEW l, Chain(ls, D, g), r \notin D,
         \A n \in D : g[n].dep # l, g2[r].dep = l, \A n \in D : g2[n] = g[n],
         Interval(g2, r),
         NEW E, E = D \cup {r}, NEW lists, lists = Headed(ls, l, r)
  PROVE  Chain(lists, E, g2)
<1> DEFINE ls2 == [ls EXCEPT ![l] = <<r>> \o @]
<1>1. DOMAIN ls = 0 .. MaxLevel - 1 /\ \A k \in DOMAIN ls : Row(ls[k], k, D, g)
  BY ChainRows
<1>2. DOMAIN ls2 = DOMAIN ls /\ \A k \in DOMAIN ls : k # l => ls2[k] = ls[k]
  OBVIOUS
<1>3. l \in DOMAIN ls => ls2[l] = <<r>>
  <2>1. SUFFICES ASSUME l \in DOMAIN ls PROVE ls2[l] = <<r>>
    OBVIOUS
  <2>2. ls[l] \in Seq(D) /\ \A i \in 1 .. Len(ls[l]) : g[ls[l][i]].dep = l
    BY <1>1, <2>1 DEF Row
  <2>3. Len(ls[l]) = 0
    <3>1. Len(ls[l]) \in Nat
      BY <2>2
    <3>2. ASSUME 1 \in 1 .. Len(ls[l]) PROVE FALSE
      <4>1. ls[l][1] \in D
        BY <2>2, <3>2
      <4> QED
        BY <2>2, <3>2, <4>1
    <3> QED
      BY <3>1, <3>2
  <2>4. ls[l] = << >>
    BY <2>2, <2>3
  <2>5. ls2[l] = <<r>> \o ls[l]
    BY <2>1
  <2> QED
    BY <2>4, <2>5
<1> HIDE DEF ls2
<1>4. ASSUME NEW k \in DOMAIN ls PROVE Row(ls2[k], k, D \cup {r}, g2)
  <2>1. CASE k = l
    <3>1. ls2[k] = <<r>>
      BY <1>3, <1>4, <2>1
    <3>2. Len(<<r>>) = 1 /\ <<r>>[1] = r /\ <<r>> \in Seq(D \cup {r})
      OBVIOUS
    <3> DEFINE s == <<r>>
    <3>3. s \in Seq(D \cup {r}) /\ Len(s) = 1 /\ s[1] = r /\ ls2[k] = s
      BY <3>1, <3>2
    <3> HIDE DEF s
    <3>4. Row(s, l, D \cup {r}, g2)
      BY <3>3 DEF Row
    <3> QED
      BY <2>1, <3>3, <3>4
  <2>2. CASE k # l
    <3> DEFINE s == ls[k]
    <3>1. Row(s, k, D, g) /\ ls2[k] = s
      BY <1>1, <1>2, <1>4, <2>2
    <3> HIDE DEF s
    <3>2. s \in Seq(D) /\ s \in Seq(D \cup {r})
      BY <3>1 DEF Row
    <3>3. \A i \in 1 .. Len(s) : s[i] \in D
      BY <3>2
    <3>4. Row(s, k, D \cup {r}, g2)
      BY <2>2, <3>1, <3>2, <3>3 DEF Row
    <3> QED
      BY <3>1, <3>4
  <2> QED
    BY <2>1, <2>2
<1>5. Chain(ls2, D \cup {r}, g2)
  BY <1>1, <1>2, <1>4, ChainRows
<1>6. lists = ls2
  BY DEF ls2, Headed
<1> QED
  BY <1>5, <1>6

\* s2 is s with a and b in the place of its element i.
PairFor(s, i, s2, a, b) ==
  /\ i \in 1 .. Len(s)
  /\ Len(s2) = Len(s) + 1 /\ s2[i] = a /\ s2[i + 1] = b
  /\ \A j \in 1 .. i - 1 : s2[j] = s[j]
  /\ \A j \in i + 1 .. Len(s) : s2[j + 1] = s[j]

\* a and b, one of them x and the other the new z, share the interval of x.
Shared(g, g2, D, x, z, a, b) ==
  /\ (a = x /\ b = z) \/ (a = z /\ b = x)
  /\ Interval(g2, a) /\ Interval(g2, b)
  /\ g2[a].lo = g[x].lo /\ g2[b].hi = g[x].hi /\ g2[a].hi = g2[b].lo
  /\ g2[a].dep = g[x].dep /\ g2[b].dep = g[x].dep
  /\ \A m \in D \ {x} : g2[m] = g[m]

\* A node is split into a and b: in a list that has the new node z beside it.
LEMMA RowSplit ==
  ASSUME NEW s, NEW l, NEW D, NEW g, NEW g2, Row(s, l, D, g), \A n \in D : Interval(g, n),
         NEW x \in D, NEW i, s[i] = x, g[x].dep = l, NEW z, z \notin D,
         NEW a, NEW b, Shared(g, g2, D, x, z, a, b),
         NEW E, \A n : n \in E <=> n \in D \/ n = z,
         NEW s2 \in Seq(E), PairFor(s, i, s2, a, b)
  PROVE  Row(s2, l, E, g2)
<1>0. /\ i \in 1 .. Len(s)
      /\ Len(s2) = Len(s) + 1 /\ s2[i] = a /\ s2[i + 1] = b
      /\ \A j \in 1 .. i - 1 : s2[j] = s[j]
      /\ \A j \in i + 1 .. Len(s) : s2[j + 1] = s[j]
  BY DEF PairFor
<1>h. /\ (a = x /\ b = z) \/ (a = z /\ b = x)
      /\ Interval(g2, a) /\ Interval(g2, b)
      /\ g2[a].lo = g[x].lo /\ g2[b].hi = g[x].hi /\ g2[a].hi = g2[b].lo
      /\ g2[a].dep = l /\ g2[b].dep = l
      /\ \A m \in D \ {x} : g2[m] = g[m]
  BY DEF Shared
<1>1. /\ Len(s) \in Nat /\ \A j \in 1 .. Len(s) : s[j] \in D
      /\ \A j, k \in 1 .. Len(s) : s[j] = s[k] => j = k
  BY RowIs
<1>2. \A j \in 1 .. Len(s) : j # i => s[j] \in D \ {x} /\ g2[s[j]] = g[s[j]]
  BY <1>0, <1>h, <1>1
<1>3. ASSUME NEW j \in 1 .. Len(s2)
      PROVE  \/ j < i /\ j \in 1 .. Len(s) /\ s2[j] = s[j]
             \/ j = i /\ s2[j] = a
             \/ j = i + 1 /\ s2[j] = b
             \/ j > i + 1 /\ j - 1 \in i + 1 .. Len(s) /\ s2[j] = s[j - 1]
  <2>1. CASE j < i
    BY <1>0, <1>h, <1>1, <2>1
  <2>2. CASE j > i + 1
    <3>1. j - 1 \in i + 1 .. Len(s) /\ (j - 1) + 1 = j
      BY <1>0, <1>h, <1>1, <2>2
    <3>2. s2[(j - 1) + 1] = s[j - 1]
      BY <1>0, <1>h, <3>1
    <3> QED
      BY <1>0, <1>h, <2>2, <3>1, <3>2
  <2> QED
    BY <1>0, <1>h, <1>1, <2>1, <2>2
<1>4. \A j \in 1 .. Len(s2) : g2[s2[j]].dep = l
  <2>1. \A j \in 1 .. Len(s) : j # i => g2[s[j]].dep = l
    BY <1>0, <1>h, <1>2 DEF Row
  <2>2. SUFFICES ASSUME NEW j \in 1 .. Len(s2) PROVE g2[s2[j]].dep = l
    OBVIOUS
  <2>3. CASE j < i
    BY <1>0, <1>h, <1>1, <1>3, <2>1, <2>3
  <2>4. CASE j > i + 1
    <3>1. j - 1 \in 1 .. Len(s) /\ s2[j] = s[j - 1] /\ j - 1 # i
      BY <1>0, <1>h, <1>1, <1>3, <2>4
    <3> QED
      BY <1>0, <1>h, <2>1, <3>1
  <2> QED
    BY <1>0, <1>h, <1>1, <2>3, <2>4
<1>5. ASSUME NEW n \in E, g2[n].dep = l
      PROVE  \E j \in 1 .. Len(s2) : s2[j] = n
  <2>1. i \in 1 .. Len(s2) /\ i + 1 \in 1 .. Len(s2)
    BY <1>0, <1>h, <1>1
  <2>2. CASE n \in {x, z}
    BY <1>0, <1>h, <2>1, <2>2
  <2>3. CASE n \in D \ {x}
    <3>1. g[n].dep = l
      BY <1>0, <1>h, <1>5, <2>3
    <3>2. PICK j \in 1 .. Len(s) : s[j] = n
      BY <1>0, <1>h, <2>3, <3>1 DEF Row
    <3>3. j # i
      BY <1>0, <1>h, <2>3, <3>2
    <3>4. CASE j < i
      BY <1>0, <1>h, <1>1, <3>2, <3>4
    <3>5. CASE j > i
      <4>1. j \in i + 1 .. Len(s) /\ j + 1 \in 1 .. Len(s2)
        BY <1>0, <1>h, <1>1, <3>5
      <4> QED
        BY <1>0, <1>h, <3>2, <4>1
    <3>6. j < i \/ j > i
      BY <1>0, <1>1, <3>3
    <3> QED
      BY <3>4, <3>5, <3>6
  <2> QED
    BY <1>0, <1>h, <1>5, <2>2, <2>3
<1>6. ASSUME NEW j \in 1 .. Len(s2), NEW k \in 1 .. Len(s2), j < k
      PROVE  g2[s2[j]].hi <= g2[s2[k]].lo
  <2>1. \A v, w \in 1 .. Len(s) : v < w => g[s[v]].hi <= g[s[w]].lo
    BY <1>0, <1>h DEF Row
  <2>2. \A v \in 1 .. Len(s) : v < i => g2[s[v]].hi <= g2[a].lo
    BY <1>0, <1>h, <1>1, <1>2, <2>1
  <2>3. \A v \in 1 .. Len(s) : v > i => g2[b].hi <= g2[s[v]].lo
    <3>1. SUFFICES ASSUME NEW v \in 1 .. Len(s), v > i PROVE g2[b].hi <= g2[s[v]].lo
      OBVIOUS
    <3>2. i < v /\ v # i
      BY <1>0, <1>1, <3>1
    <3>3. g[s[i]].hi <= g[s[v]].lo
      BY <1>0, <2>1, <3>2
    <3>4. g2[s[v]] = g[s[v]]
      BY <1>2, <3>2
    <3> QED
      BY <1>h, <3>3, <3>4
  <2>4. g2[a].hi \in Int /\ g2[a].lo \in Int /\ g2[a].lo < g2[a].hi
    BY <1>h DEF Interval
  <2>5. g2[b].hi \in Int /\ g2[b].lo \in Int /\ g2[b].lo < g2[b].hi
    BY <1>h DEF Interval
  <2>6. \A v \in 1 .. Len(s) : v # i => g2[s[v]].lo \in Int /\ g2[s[v]].hi \in Int
    BY <1>0, <1>h, <1>1, <1>2 DEF Interval
  <2>7. \A v, w \in 1 .. Len(s) : v < w /\ v # i /\ w # i => g2[s[v]].hi <= g2[s[w]].lo
    BY <1>0, <1>h, <1>2, <2>1
  <2>8. CASE j < i
    <3>1. s2[j] = s[j] /\ j \in 1 .. Len(s) /\ j # i
      BY <1>0, <1>h, <1>1, <1>3, <2>8
    <3>2. CASE k < i
      BY <1>0, <1>h, <1>1, <1>3, <1>6, <2>7, <3>1, <3>2
    <3>3. CASE k = i
      BY <1>0, <1>h, <2>2, <2>8, <3>1, <3>3
    <3>4. CASE k = i + 1
      BY <1>0, <1>h, <2>2, <2>4, <2>5, <2>6, <2>8, <3>1, <3>4
    <3>5. CASE k > i + 1
      <4>1. k - 1 \in 1 .. Len(s) /\ s2[k] = s[k - 1] /\ k - 1 # i /\ j < k - 1
        BY <1>0, <1>h, <1>1, <1>3, <2>8, <3>5
      <4> QED
        BY <1>0, <1>h, <2>7, <3>1, <4>1
    <3> QED
      BY <1>0, <1>h, <1>1, <3>2, <3>3, <3>4, <3>5
  <2>9. CASE j = i
    <3>1. CASE k = i + 1
      BY <1>0, <1>h, <2>4, <2>5, <2>9, <3>1
    <3>2. CASE k > i + 1
      <4>1. k - 1 \in 1 .. Len(s) /\ s2[k] = s[k - 1] /\ k - 1 # i /\ k - 1 > i
        BY <1>0, <1>h, <1>1, <1>3, <3>2
      <4>2. g2[b].hi <= g2[s[k - 1]].lo /\ g2[s[k - 1]].lo \in Int
        BY <1>0, <1>h, <2>3, <2>6, <4>1
      <4>3. g2[a].hi <= g2[s[k - 1]].lo
        BY <1>0, <1>h, <2>4, <2>5, <4>2, SMTT(60)
      <4> QED
        BY <1>0, <1>h, <2>9, <4>1, <4>3
    <3> QED
      BY <1>0, <1>h, <1>1, <1>6, <2>9, <3>1, <3>2
  <2>10. CASE j = i + 1
    <3>1. k - 1 \in 1 .. Len(s) /\ s2[k] = s[k - 1] /\ k - 1 > i
      BY <1>0, <1>h, <1>1, <1>3, <1>6, <2>10
    <3> QED
      BY <1>0, <1>h, <2>3, <2>10, <3>1
  <2>11. CASE j > i + 1
    <3>1. /\ j - 1 \in 1 .. Len(s) /\ s2[j] = s[j - 1] /\ j - 1 # i
          /\ k - 1 \in 1 .. Len(s) /\ s2[k] = s[k - 1] /\ k - 1 # i /\ j - 1 < k - 1
      BY <1>0, <1>h, <1>1, <1>3, <1>6, <2>11
    <3> QED
      BY <1>0, <1>h, <2>7, <3>1
  <2> QED
    BY <1>0, <1>h, <1>1, <2>8, <2>9, <2>10, <2>11
<1> QED
  BY <1>0, <1>h, <1>4, <1>5, <1>6 DEF Row

\* The lists with the new node z put beside x, which it shares its interval with.
LEMMA ChainSplit ==
  ASSUME NEW D, NEW g, NEW g2, Chain(list, D, g), \A n \in D : Interval(g, n),
         NEW x \in D, g[x].dep \in DOMAIN list, NEW z, z \notin D,
         NEW a, NEW b, Shared(g, g2, D, x, z, a, b)
  PROVE  /\ a = z => Chain(LinkBefore(z, x), D \cup {z}, g2)
         /\ b = z => Chain(LinkAfter(z, x), D \cup {z}, g2)
<1>h. /\ (a = x /\ b = z) \/ (a = z /\ b = x)
      /\ g2[a].dep = g[x].dep /\ g2[b].dep = g[x].dep
      /\ \A m \in D \ {x} : g2[m] = g[m]
  BY DEF Shared
<1> DEFINE l == g[x].dep
           s == list[l]
           i == PlaceIn(s, x)
<1>1. DOMAIN list = 0 .. MaxLevel - 1 /\ \A k \in DOMAIN list : Row(list[k], k, D, g)
  BY ChainRows
<1>2. LevelOf(x) = l /\ i \in 1 .. Len(s) /\ s[i] = x
  BY LevelIs
<1>3. Row(s, l, D, g)
  BY <1>1
<1>4. s \in Seq(D) /\ s \in Seq(D \cup {z}) /\ Len(s) \in Nat
  BY <1>3 DEF Row
<1>5. ASSUME NEW k \in DOMAIN list, k # l
      PROVE  Row(list[k], k, D \cup {z}, g2)
  <2> DEFINE q == list[k]
  <2>1. Row(q, k, D, g)
    BY <1>1
  <2> HIDE DEF q
  <2>2. q \in Seq(D) /\ q \in Seq(D \cup {z}) /\ Len(q) \in Nat
    BY <2>1 DEF Row
  <2>3. \A j \in 1 .. Len(q) : q[j] \in D /\ g[q[j]].dep = k
    BY <2>1, <2>2 DEF Row
  <2>4. \A j \in 1 .. Len(q) : g2[q[j]] = g[q[j]]
    BY <1>5, <1>h, <2>3
  <2>5. \A n \in D \cup {z} : g2[n].dep = k => \E j \in 1 .. Len(q) : q[j] = n
    <3>1. SUFFICES ASSUME NEW n \in D \cup {z}, g2[n].dep = k
                   PROVE \E j \in 1 .. Len(q) : q[j] = n
      OBVIOUS
    <3>2. n # x /\ n # z
      BY <1>5, <1>h, <3>1
    <3>3. n \in D /\ g[n].dep = k
      BY <1>h, <3>1, <3>2
    <3> QED
      BY <2>1, <3>3 DEF Row
  <2>6. \A j, v \in 1 .. Len(q) : j < v => g2[q[j]].hi <= g2[q[v]].lo
    <3>1. \A j, v \in 1 .. Len(q) : j < v => g[q[j]].hi <= g[q[v]].lo
      BY <2>1 DEF Row
    <3> QED
      BY <2>4, <3>1
  <2>7. Row(q, k, D \cup {z}, g2)
    BY <2>2, <2>3, <2>4, <2>5, <2>6 DEF Row
  <2> QED
    BY <2>7 DEF q
<1> HIDE DEF i, s, l
<1>6. ASSUME a = z
      PROVE  Row(InsertAt(s, i, z), l, D \cup {z}, g2)
  <2> DEFINE s2 == InsertAt(s, i, z)
  <2>1. i \in 1 .. Len(s) + 1 /\ z \in D \cup {z}
    BY <1>2, <1>4
  <2> DEFINE E == D \cup {z}
  <2>9. s \in Seq(E) /\ i \in 1 .. Len(s) + 1 /\ z \in E
    BY <1>4, <2>1
  <2> HIDE DEF E
  <2>10. InsertAt(s, i, z) \in Seq(E) /\ Len(InsertAt(s, i, z)) = Len(s) + 1
        /\ \A j \in 1 .. Len(s) + 1 :
             InsertAt(s, i, z)[j] = IF j < i THEN s[j] ELSE IF j = i THEN z ELSE s[j - 1]
    <3>1. Added(InsertAt(s, i, z), E, s, i, z)
      BY ONLY <2>9, InsertAtIs
    <3> QED
      BY ONLY <3>1 DEF Added
  <2>2. s2 \in Seq(D \cup {z}) /\ Len(s2) = Len(s) + 1
        /\ \A j \in 1 .. Len(s) + 1 : s2[j] = IF j < i THEN s[j] ELSE IF j = i THEN z ELSE s[j - 1]
    BY <2>10 DEF E
  <2> HIDE DEF s2
  <2>3. s2[i] = a
    BY <1>6, <1>h, <2>1, <2>2
  <2>4. s2[i + 1] = b
    <3>1. i + 1 \in 1 .. Len(s) + 1 /\ ~ (i + 1 < i) /\ i + 1 # i /\ (i + 1) - 1 = i
      BY <1>2, <1>4
    <3>2. s2[i + 1] = s[i]
      BY <2>2, <3>1
    <3> QED
      BY <1>2, <1>6, <1>h, <3>2
  <2>5. \A j \in 1 .. i - 1 : s2[j] = s[j]
    BY <1>2, <1>4, <2>2
  <2>6. \A j \in i + 1 .. Len(s) : s2[j + 1] = s[j]
    <3>1. SUFFICES ASSUME NEW j \in i + 1 .. Len(s) PROVE s2[j + 1] = s[j]
      OBVIOUS
    <3>2. j + 1 \in 1 .. Len(s) + 1 /\ ~ (j + 1 < i) /\ j + 1 # i /\ (j + 1) - 1 = j
      BY <1>2, <1>4
    <3> QED
      BY <2>2, <3>2
  <2>7. g[x].dep = l
    BY DEF l
  <2>13. PairFor(s, i, s2, a, b)
    BY <1>2, <2>2, <2>3, <2>4, <2>5, <2>6 DEF PairFor
  <2>12. (\A n : n \in E <=> n \in D \/ n = z) /\ s2 \in Seq(E) /\ E = D \cup {z}
    BY <2>2 DEF E
  <2>8. Row(s2, l, D \cup {z}, g2)
    <3>1. Row(s2, l, E, g2)
      BY <1>2, <1>3, <2>7, <2>12, <2>13, RowSplit
    <3> QED
      BY <2>12, <3>1
  <2> QED
    BY <2>8 DEF s2
<1>7. ASSUME b = z
      PROVE  Row(InsertAt(s, i + 1, z), l, D \cup {z}, g2)
  <2> DEFINE s2 == InsertAt(s, i + 1, z)
  <2>1. i + 1 \in 1 .. Len(s) + 1 /\ z \in D \cup {z}
    BY <1>2, <1>4
  <2> DEFINE E == D \cup {z}
             v == i + 1
  <2>9. s \in Seq(E) /\ v \in 1 .. Len(s) + 1 /\ z \in E
    BY <1>4, <2>1
  <2> HIDE DEF E, v
  <2>10. InsertAt(s, v, z) \in Seq(E) /\ Len(InsertAt(s, v, z)) = Len(s) + 1
        /\ \A j \in 1 .. Len(s) + 1 :
             InsertAt(s, v, z)[j] = IF j < v THEN s[j] ELSE IF j = v THEN z ELSE s[j - 1]
    <3>1. Added(InsertAt(s, v, z), E, s, v, z)
      BY ONLY <2>9, InsertAtIs
    <3> QED
      BY ONLY <3>1 DEF Added
  <2>2. s2 \in Seq(D \cup {z}) /\ Len(s2) = Len(s) + 1
        /\ \A j \in 1 .. Len(s) + 1 :
             s2[j] = IF j < i + 1 THEN s[j] ELSE IF j = i + 1 THEN z ELSE s[j - 1]
    BY <2>10 DEF E, v
  <2> HIDE DEF s2
  <2>3. s2[i] = a
    BY <1>2, <1>4, <1>7, <1>h, <2>2
  <2>4. s2[i + 1] = b
    BY <1>7, <1>h, <2>1, <2>2
  <2>5. \A j \in 1 .. i - 1 : s2[j] = s[j]
    BY <1>2, <1>4, <2>2
  <2>6. \A j \in i + 1 .. Len(s) : s2[j + 1] = s[j]
    <3>1. SUFFICES ASSUME NEW j \in i + 1 .. Len(s) PROVE s2[j + 1] = s[j]
      OBVIOUS
    <3>2. j + 1 \in 1 .. Len(s) + 1 /\ ~ (j + 1 < i + 1) /\ j + 1 # i + 1 /\ (j + 1) - 1 = j
      BY <1>2, <1>4
    <3> QED
      BY <2>2, <3>2
  <2>7. g[x].dep = l
    BY DEF l
  <2>13. PairFor(s, i, s2, a, b)
    BY <1>2, <2>2, <2>3, <2>4, <2>5, <2>6 DEF PairFor
  <2>12. (\A n : n \in E <=> n \in D \/ n = z) /\ s2 \in Seq(E) /\ E = D \cup {z}
    BY <2>2 DEF E
  <2>8. Row(s2, l, D \cup {z}, g2)
    <3>1. Row(s2, l, E, g2)
      BY <1>2, <1>3, <2>7, <2>12, <2>13, RowSplit
    <3> QED
      BY <2>12, <3>1
  <2> QED
    BY <2>8 DEF s2
<1>8. l \in DOMAIN list
  BY DEF l
<1>9. ASSUME NEW s2, Row(s2, l, D \cup {z}, g2)
      PROVE  Chain([list EXCEPT ![l] = s2], D \cup {z}, g2)
  <2> DEFINE ls2 == [list EXCEPT ![l] = s2]
  <2>1. DOMAIN ls2 = DOMAIN list /\ ls2[l] = s2 /\ \A k \in DOMAIN list : k # l => ls2[k] = list[k]
    BY <1>8
  <2> HIDE DEF ls2
  <2>2. DOMAIN ls2 = 0 .. MaxLevel - 1 /\ \A k \in DOMAIN ls2 : Row(ls2[k], k, D \cup {z}, g2)
    BY <1>1, <1>5, <1>9, <2>1
  <2>3. Chain(ls2, D \cup {z}, g2)
    BY <2>2, ChainRows
  <2> QED
    BY <2>3 DEF ls2
<1>10. LinkBefore(z, x) = [list EXCEPT ![l] = InsertAt(s, i, z)]
  BY <1>2, <1>8 DEF LinkBefore, s, i
<1>11. LinkAfter(z, x) = [list EXCEPT ![l] = InsertAt(s, i + 1, z)]
  BY <1>2, <1>8 DEF LinkAfter, s, i
<1>12. ASSUME a = z PROVE Chain(LinkBefore(z, x), D \cup {z}, g2)
  <2> DEFINE t == InsertAt(s, i, z)
  <2>1. Row(t, l, D \cup {z}, g2)
    BY <1>12, <1>6
  <2>2. LinkBefore(z, x) = [list EXCEPT ![l] = t]
    BY <1>10
  <2> HIDE DEF t
  <2>3. Chain([list EXCEPT ![l] = t], D \cup {z}, g2)
    BY <2>1, <1>9
  <2> QED
    BY <2>2, <2>3, Zenon
<1>13. ASSUME b = z PROVE Chain(LinkAfter(z, x), D \cup {z}, g2)
  <2> DEFINE t == InsertAt(s, i + 1, z)
  <2>1. Row(t, l, D \cup {z}, g2)
    BY <1>13, <1>7
  <2>2. LinkAfter(z, x) = [list EXCEPT ![l] = t]
    BY <1>11
  <2> HIDE DEF t
  <2>3. Chain([list EXCEPT ![l] = t], D \cup {z}, g2)
    BY <2>1, <1>9
  <2> QED
    BY <2>2, <2>3, Zenon
<1> QED
  BY <1>12, <1>13

\* The lists without b.
LEMMA ChainUnlink ==
  ASSUME NEW D, NEW g, Chain(list, D, g), \A n \in D : Interval(g, n),
         NEW b \in D, g[b].dep \in DOMAIN list
  PROVE  Chain(Unlinked(b), D \ {b}, g) /\ DOMAIN Unlinked(b) = DOMAIN list
<1> DEFINE l == g[b].dep
           i == PlaceIn(list[l], b)
<1>1. LevelOf(b) = l /\ i \in 1 .. Len(list[l]) /\ list[l][i] = b
  BY LevelIs
<1>2. Unlinked(b) = [list EXCEPT ![l] = RemoveAt(@, i)]
  BY <1>1 DEF Unlinked
<1>3. Chain([list EXCEPT ![l] = RemoveAt(@, i)], D \ {list[l][i]}, g)
  BY <1>1, ChainRemove
<1>4. Chain(Unlinked(b), D \ {b}, g)
  BY <1>1, <1>2, <1>3
<1>5. DOMAIN Unlinked(b) = DOMAIN list
  BY <1>2
<1> QED
  BY <1>4, <1>5

\* The list without b, whose interval its neighbour a takes.
LEMMA ChainMerge ==
  ASSUME NEW D, NEW g, NEW g2, Chain(list, D, g), \A n \in D : Interval(g, n),
         NEW a \in D, NEW b \in D, g[b].dep \in DOMAIN list, g[a].dep = g[b].dep,
         g[a].hi = g[b].lo, g2[a].lo = g[a].lo, g2[a].hi = g[b].hi, g2[a].dep = g[a].dep,
         \A m \in D \ {a, b} : g2[m] = g[m]
  PROVE  Chain(Unlinked(b), D \ {b}, g2)
<1> DEFINE ls == Unlinked(b)
           E == D \ {b}
<1>6. Chain(ls, E, g) /\ DOMAIN ls = DOMAIN list
  BY ChainUnlink
<1> HIDE DEF ls
<1>7. \A n \in E : g2[n].dep = g[n].dep
  OBVIOUS
<1>8. ASSUME NEW m \in E, NEW n \in E, g[m].dep = g[n].dep, g[m].hi <= g[n].lo,
             g[m].dep \in DOMAIN ls
      PROVE  g2[m].hi <= g2[n].lo
  <2>1. g2[n].lo = g[n].lo
    OBVIOUS
  <2>2. CASE m # a
    BY <1>8, <2>1, <2>2
  <2>3. CASE m = a
    <3>1. n # b /\ g[n].dep = g[b].dep
      BY <1>8, <2>3
    <3>2. g[n].hi <= g[b].lo \/ g[b].hi <= g[n].lo
      BY <3>1, ChainOrder
    <3>3. g[n].lo \in Int /\ g[n].hi \in Int /\ g[n].lo < g[n].hi /\ g[b].lo \in Int
      BY DEF Interval
    <3>4. g[b].hi <= g[n].lo
      BY <1>8, <2>3, <3>2, <3>3
    <3> QED
      BY <2>1, <2>3, <3>4
  <2> QED
    BY <2>2, <2>3
<1>9. Chain(ls, E, g2)
  BY <1>6, <1>7, <1>8, ChainShift
<1> QED
  BY <1>9 DEF ls

-----------------------------------------------------------------------------
(***************************************************************************)
(* The descent, and the simple ends of the two pending calls.              *)
(***************************************************************************)

\* The keys of a node are a sequence of numbers.
LEMMA KeySeq ==
  ASSUME NEW h, HeapOK(h), NEW n \in DOMAIN h
  PROVE  h[n].key \in Seq(Int)
<1> DEFINE s == h[n].key
<1>1. s \in Seq(Keys)
  BY DEF HeapOK, NodeRec
<1>2. \A i \in 1 .. Len(s) : s[i] \in Int
  BY KeysAreInts
<1> HIDE DEF s
<1>3. Len(s) \in Nat /\ s = [i \in 1 .. Len(s) |-> s[i]]
  BY <1>1
<1>4. s \in [1 .. Len(s) -> Int]
  BY <1>2, <1>3
<1>5. s \in Seq(Int)
  BY <1>3, <1>4
<1> QED
  BY <1>5 DEF s

Holds(g, n, k) == g[n].lo <= k /\ k < g[n].hi

\* One step of the descent.
LEMMA ChildIs ==
  ASSUME NEW g, HeapOK(heap), Shape(heap, g, root, level), NEW n \in DOMAIN heap, ~ heap[n].leaf,
         NEW k \in Int
  PROVE  /\ ChildFor(n, k) \in DOMAIN heap
         /\ g[n].dep = g[ChildFor(n, k)].dep + 1
         /\ Holds(g, n, k) => Holds(g, ChildFor(n, k), k)
<1> DEFINE key == heap[n].key
           r == KeyBinarySearch(key, k)
           c == heap[n].sub[IF r >= 0 THEN r + 2 ELSE - r]
<1>1. NodeOK(heap, g, root, level, n)
  BY DEF Shape
<1>2. InnerOK(heap, g, n) /\ Interval(g, n)
  BY <1>1 DEF NodeOK, OwnOK
<1>3. /\ Len(heap[n].sub) \in Nat /\ Len(key) \in Nat
      /\ \A i \in 1 .. Len(key) : key[i] \in Int
  BY KeysAreInts
<1>4. key \in Seq(Int)
  BY KeySeq
<1>5. Len(heap[n].sub) = Len(key) + 1
  BY <1>2 DEF InnerOK
<1>6. Ascending(key)
  <2>1. SUFFICES ASSUME NEW i \in 1 .. Len(key), NEW j \in 1 .. Len(key), i < j
                 PROVE  key[i] < key[j]
    BY DEF Ascending
  <2>2. Bound(heap, g, n, i) < Bound(heap, g, n, j)
    BY <1>2, <1>3, <1>5, <2>1 DEF InnerOK
  <2>3. Bound(heap, g, n, i) = key[i] /\ Bound(heap, g, n, j) = key[j]
    BY <1>3, <1>5 DEF Bound
  <2> QED
    BY <2>2, <2>3
<1>7. /\ r \in Int
      /\ r >= 0 => r + 1 \in 1 .. Len(key) /\ key[r + 1] = k
      /\ r < 0 => /\ - r - 1 \in 0 .. Len(key)
                  /\ \A i \in 1 .. - r - 1 : key[i] < k
                  /\ \A i \in - r .. Len(key) : key[i] > k
  BY <1>4, <1>6, SearchSays
<1>8. ChildFor(n, k) = c
  BY DEF ChildFor
<1> DEFINE j == IF r >= 0 THEN r + 2 ELSE - r
<1>9. j \in 1 .. Len(heap[n].sub) /\ c = heap[n].sub[j]
  BY <1>3, <1>5, <1>7
<1>10. /\ j >= 2 => key[j - 1] <= k
       /\ j <= Len(key) => k < key[j]
  <2>1. CASE r >= 0
    <3>1. j = r + 2 /\ j - 1 = r + 1 /\ key[j - 1] = k
      BY <1>7, <2>1
    <3>2. ASSUME j <= Len(key) PROVE k < key[j]
      <4>1. j - 1 \in 1 .. Len(key) /\ j \in 1 .. Len(key) /\ j - 1 < j
        BY <1>3, <1>7, <2>1, <3>1, <3>2
      <4> QED
        BY <1>6, <3>1, <4>1 DEF Ascending
    <3> QED
      BY <1>4, <3>1, <3>2
  <2>2. CASE r < 0
    <3>1. j = - r
      BY <1>7, <2>2
    <3>2. ASSUME j >= 2 PROVE key[j - 1] <= k
      <4>1. j - 1 \in 1 .. - r - 1 /\ j - 1 \in 1 .. Len(key)
        BY <1>3, <1>7, <2>2, <3>1, <3>2
      <4>2. key[j - 1] < k /\ key[j - 1] \in Int
        BY <1>3, <1>7, <2>2, <4>1
      <4> QED
        BY <4>2
    <3>3. ASSUME j <= Len(key) PROVE k < key[j]
      <4>1. j \in - r .. Len(key) /\ j \in 1 .. Len(key)
        BY <1>3, <1>7, <2>2, <3>1, <3>3
      <4>2. key[j] > k /\ key[j] \in Int
        BY <1>3, <1>7, <2>2, <4>1
      <4> QED
        BY <4>2
    <3> QED
      BY <3>2, <3>3
  <2> QED
    BY <1>7, <2>1, <2>2
<1> HIDE DEF c, r, j
<1>11. /\ c \in DOMAIN heap /\ g[n].dep = g[c].dep + 1
       /\ g[c].lo = Bound(heap, g, n, j - 1) /\ g[c].hi = Bound(heap, g, n, j)
  BY <1>2, <1>9 DEF InnerOK
<1>12. ASSUME Holds(g, n, k) PROVE Holds(g, c, k)
  <2>1. g[c].lo <= k
    <3>1. CASE j = 1
      <4>1. g[c].lo = g[n].lo
        BY <1>11, <3>1 DEF Bound
      <4> QED
        BY <1>12, <4>1 DEF Holds
    <3>2. CASE j >= 2
      <4>1. j - 1 # 0 /\ j - 1 # Len(heap[n].sub)
        BY <1>3, <1>9, <3>2
      <4>2. g[c].lo = key[j - 1]
        BY <1>11, <4>1 DEF Bound
      <4> QED
        BY <1>10, <3>2, <4>2
    <3> QED
      BY <1>3, <1>9, <3>1, <3>2
  <2>2. k < g[c].hi
    <3>1. CASE j = Len(heap[n].sub)
      <4>1. j # 0
        BY <1>9
      <4>2. g[c].hi = g[n].hi
        BY <1>11, <3>1, <4>1 DEF Bound
      <4> QED
        BY <1>12, <4>2 DEF Holds
    <3>2. CASE j # Len(heap[n].sub)
      <4>1. j # 0 /\ j <= Len(key)
        BY <1>3, <1>5, <1>9, <3>2
      <4>2. g[c].hi = key[j]
        BY <1>11, <3>2, <4>1 DEF Bound
      <4> QED
        BY <1>10, <4>1, <4>2
    <3> QED
      BY <3>1, <3>2
  <2> QED
    BY <2>1, <2>2 DEF Holds
<1> QED
  BY <1>8, <1>11, <1>12

\* f is the descent of key k from the nodes up to d levels above the leaves.
Descends(f, g, k, d) ==
  /\ DOMAIN f = DOMAIN heap
  /\ \A n \in DOMAIN heap : g[n].dep <= d =>
       f[n] = IF heap[n].leaf THEN n ELSE f[ChildFor(n, k)]

\* The descent to a leaf is defined, by induction on the depth: a least depth
\* at which it is not is shown to be none.
LEMMA DescentExists ==
  ASSUME NEW g, HeapOK(heap), Shape(heap, g, root, level), NEW k \in Int, NEW d \in Nat
  PROVE  \E f : Descends(f, g, k, d)
<1> DEFINE Bad == {e \in Nat : ~ \E f : Descends(f, g, k, e)}
<1>1. ASSUME NEW n \in DOMAIN heap PROVE g[n].dep \in Nat /\ (heap[n].leaf <=> g[n].dep = 0)
  <2>1. NodeOK(heap, g, root, level, n) /\ level \in Nat
    BY DEF Shape
  <2> QED
    BY <2>1 DEF NodeOK
<1>2. 0 \notin Bad
  <2> DEFINE f == [n \in DOMAIN heap |-> n]
  <2>1. Descends(f, g, k, 0)
    BY <1>1 DEF Descends
  <2> QED
    BY <2>1, Zenon
<1>3. ASSUME NEW e \in Nat, e \notin Bad PROVE e + 1 \notin Bad
  <2>1. PICK f : Descends(f, g, k, e)
    BY <1>3
  <2> DEFINE f2 == [n \in DOMAIN heap |-> IF g[n].dep <= e THEN f[n] ELSE f[ChildFor(n, k)]]
  <2>2. DOMAIN f2 = DOMAIN heap
    OBVIOUS
  <2>3. ASSUME NEW n \in DOMAIN heap, g[n].dep <= e + 1
        PROVE  f2[n] = IF heap[n].leaf THEN n ELSE f2[ChildFor(n, k)]
    <3> DEFINE c == ChildFor(n, k)
    <3>1. CASE heap[n].leaf
      <4>1. g[n].dep <= e
        BY <1>1, <3>1
      <4> QED
        BY <2>1, <3>1, <4>1 DEF Descends
    <3>2. CASE ~ heap[n].leaf
      <4>1. c \in DOMAIN heap /\ g[n].dep = g[c].dep + 1
        BY <3>2, ChildIs
      <4> HIDE DEF c
      <4>2. g[c].dep <= e /\ g[c].dep \in Nat
        BY <1>1, <2>3, <4>1
      <4>3. f2[c] = f[c]
        BY <4>1, <4>2
      <4>4. CASE g[n].dep <= e
        <5>1. f[n] = f[c]
          BY <2>1, <3>2, <4>4 DEF Descends, c
        <5>2. f2[n] = f[n]
          BY <4>4
        <5> QED
          BY <3>2, <4>3, <5>1, <5>2 DEF c
      <4>5. CASE ~ (g[n].dep <= e)
        <5>1. f2[n] = f[c]
          BY <4>5 DEF c
        <5> QED
          BY <3>2, <4>3, <5>1 DEF c
      <4> QED
        BY <4>4, <4>5
    <3> QED
      BY <3>1, <3>2
  <2> HIDE DEF f2
  <2>4. Descends(f2, g, k, e + 1)
    BY <2>2, <2>3 DEF Descends
  <2> QED
    BY <2>4, Zenon
<1> HIDE DEF Bad
<1>4. Bad \subseteq Nat
  BY DEF Bad
<1>5. Bad = {}
  <2>1. SUFFICES ASSUME Bad # {} PROVE FALSE
    OBVIOUS
  <2>2. PICK e \in Bad : \A b \in Bad : e <= b
    BY <1>4, <2>1, SmallestNat
  <2>3. e # 0 /\ e - 1 \in Nat /\ (e - 1) + 1 = e /\ e - 1 \notin Bad
    BY <1>2, <1>4, <2>2
  <2> QED
    BY <1>3, <2>2, <2>3
<1> QED
  BY <1>5 DEF Bad
\* The leaf that the descent finds is the one whose interval holds the key.
LEMMA LeafForIs ==
  ASSUME NEW g, HeapOK(heap), Shape(heap, g, root, level), root # Null, NEW k \in Int,
         Bottom <= k, k < Top
  PROVE  LeafFor(k) \in DOMAIN heap /\ heap[LeafFor(k)].leaf /\ Holds(g, LeafFor(k), k)
<1> DEFINE down == CHOOSE f : f = [n \in DOMAIN heap |->
                                     IF heap[n].leaf THEN n ELSE f[ChildFor(n, k)]]
<1>1. ASSUME NEW n \in DOMAIN heap
      PROVE  g[n].dep \in Nat /\ (heap[n].leaf <=> g[n].dep = 0) /\ g[n].dep <= level
  <2>1. NodeOK(heap, g, root, level, n) /\ level \in Nat
    BY DEF Shape
  <2> QED
    BY <2>1 DEF NodeOK
<1>2. level \in Nat
  BY DEF Shape
<1>3. \E f : f = [n \in DOMAIN heap |-> IF heap[n].leaf THEN n ELSE f[ChildFor(n, k)]]
  <2>1. PICK f : Descends(f, g, k, level)
    BY <1>2, DescentExists
  <2> DEFINE f2 == [n \in DOMAIN heap |-> f[n]]
  <2>2. ASSUME NEW n \in DOMAIN heap
        PROVE  f2[n] = IF heap[n].leaf THEN n ELSE f2[ChildFor(n, k)]
    <3>1. f[n] = IF heap[n].leaf THEN n ELSE f[ChildFor(n, k)]
      BY <1>1, <2>1 DEF Descends
    <3>2. ~ heap[n].leaf => ChildFor(n, k) \in DOMAIN heap
      BY ChildIs
    <3> QED
      BY <3>1, <3>2
  <2>3. f2 = [n \in DOMAIN heap |-> IF heap[n].leaf THEN n ELSE f2[ChildFor(n, k)]]
    <3>1. f2 = [n \in DOMAIN heap |-> f2[n]]
      OBVIOUS
    <3> HIDE DEF f2
    <3> QED
      BY <2>2, <3>1
  <2> HIDE DEF f2
  <2> QED
    BY <2>3
<1>4. down = [n \in DOMAIN heap |-> IF heap[n].leaf THEN n ELSE down[ChildFor(n, k)]]
  BY <1>3
<1>5. LeafFor(k) = down[root]
  BY DEF LeafFor
<1> HIDE DEF down
<1>6. \A n \in DOMAIN heap : down[n] = IF heap[n].leaf THEN n ELSE down[ChildFor(n, k)]
  BY <1>4
<1> DEFINE Good(m) == m \in DOMAIN heap /\ heap[m].leaf /\ Holds(g, m, k)
           Bad == {g[n].dep : n \in {m \in DOMAIN heap : Holds(g, m, k) /\ ~ Good(down[m])}}
<1>7. Bad = {}
  <2>1. SUFFICES ASSUME Bad # {} PROVE FALSE
    OBVIOUS
  <2>2. Bad \subseteq Nat
    BY <1>1
  <2>3. PICK e \in Bad : \A b \in Bad : e <= b
    <3> HIDE DEF Bad
    <3> QED
      BY <2>1, <2>2, SmallestNat
  <2>4. PICK n \in DOMAIN heap : Holds(g, n, k) /\ ~ Good(down[n]) /\ g[n].dep = e
    BY <2>3
  <2>5. ~ heap[n].leaf
    BY <1>6, <2>4
  <2> DEFINE c == ChildFor(n, k)
  <2>6. c \in DOMAIN heap /\ g[n].dep = g[c].dep + 1 /\ Holds(g, c, k)
    BY <2>4, <2>5, ChildIs
  <2>7. down[n] = down[c]
    BY <1>6, <2>5
  <2> HIDE DEF c
  <2>8. g[c].dep \in Bad
    BY <2>4, <2>6, <2>7
  <2> HIDE DEF Bad
  <2>9. g[c].dep \in Nat /\ g[n].dep \in Nat /\ e <= g[c].dep
    BY <1>1, <2>3, <2>6, <2>8
  <2> QED
    BY <2>4, <2>6, <2>9
<1>8. root \in DOMAIN heap /\ Holds(g, root, k)
  BY DEF Shape, Holds
<1>9. Good(down[root])
  BY <1>7, <1>8
<1> QED
  BY <1>5, <1>9

\* What renumbering keeps, whether or not the children are apart.
LEMMA RenumberKeeps ==
  ASSUME NEW h, HeapOK(h), NEW n \in DOMAIN h, NEW places \in SUBSET Int
  PROVE  LET r == Renumber(h, n, places) IN
         /\ HeapOK(r) /\ DOMAIN r = DOMAIN h
         /\ \A m \in DOMAIN h : /\ r[m].leaf = h[m].leaf /\ r[m].key = h[m].key
                                /\ r[m].sub = h[m].sub /\ r[m].parent = h[m].parent
         /\ \A m \in DOMAIN h : (\A p \in places : h[n].sub[p + 1] # m) => r[m] = h[m]
<1> DEFINE r == Renumber(h, n, places)
<1>1. DOMAIN r = DOMAIN h
  BY DEF Renumber
<1>2. ASSUME NEW m \in DOMAIN h, \A p \in places : h[n].sub[p + 1] # m
      PROVE  r[m] = h[m]
  BY <1>2 DEF Renumber
<1>3. ASSUME NEW m \in DOMAIN h, \E p \in places : h[n].sub[p + 1] = m
      PROVE  r[m] = [h[m] EXCEPT !.idx = (CHOOSE p \in places : h[n].sub[p + 1] = m) - 1]
  BY <1>3 DEF Renumber
<1> HIDE DEF r
<1>4. ASSUME NEW m \in DOMAIN h
      PROVE  /\ r[m].leaf = h[m].leaf /\ r[m].key = h[m].key
             /\ r[m].sub = h[m].sub /\ r[m].parent = h[m].parent
             /\ r[m] \in NodeRec
  <2>1. h[m] \in NodeRec
    BY DEF HeapOK
  <2>2. CASE \A p \in places : h[n].sub[p + 1] # m
    BY <1>2, <2>1, <2>2
  <2>3. CASE \E p \in places : h[n].sub[p + 1] = m
    <3> DEFINE q == CHOOSE p \in places : h[n].sub[p + 1] = m
    <3>1. q \in Int
      BY <2>3
    <3>2. r[m] = [h[m] EXCEPT !.idx = q - 1]
      BY <1>3, <2>3
    <3> HIDE DEF q
    <3> QED
      BY <2>1, <3>1, <3>2 DEF NodeRec
  <2> QED
    BY <2>2, <2>3
<1>5. HeapOK(r)
  <2>1. \A m \in DOMAIN h : r[m] \in NodeRec
    BY <1>4
  <2> QED
    BY <1>1, <2>1 DEF HeapOK
<1> QED
  BY <1>1, <1>2, <1>4, <1>5 DEF r

\* The call w on heap h seen through to its simple end.
UpperOf(h, w) == IF h[w.right].parent = Null THEN h[w.left].parent ELSE h[w.right].parent
PlaceOf(h, w) == - KeyBinarySearch(h[UpperOf(h, w)].key, w.key) - 1
FreeOf(h) == CHOOSE n \in 1 .. Cardinality(DOMAIN h) + 1 : n \notin DOMAIN h

RootedOf(h, w) ==
  Adopt(With(h, FreeOf(h), NonLeafNode(<<w.key>>, <<w.left, w.right>>)), FreeOf(h), {0, 1})

ParentsTo(h, p, a, b) == [h EXCEPT ![a].parent = p, ![b].parent = p]

\* Key s and the children a and b for the one at place i of p.
InsertedAt(h, p, i, s, a, b) ==
  LET h1 == SetNode(ParentsTo(h, p, a, b), p,
                    InsertAt(h[p].key, i + 1, s), TwoFor(h[p].sub, i, a, b))
  IN Renumber(h1, p, i .. Len(h1[p].sub) - 1)
InsertedOf(h, w) == InsertedAt(h, UpperOf(h, w), PlaceOf(h, w), w.key, w.left, w.right)

RemovedAt(h, n, i) ==
  LET h1 == SetNode(h, n, RemoveAt(h[n].key, i + 1), RemoveAt(h[n].sub, i + 2))
  IN Renumber(h1, n, i + 1 .. Len(h1[n].sub) - 1)

Settled(h, w) ==
  CASE w.op = "idle" -> h
    [] w.op = "remove" -> RemovedAt(h, w.node, w.remove)
    [] w.op = "build" -> IF UpperOf(h, w) = Null THEN RootedOf(h, w) ELSE InsertedOf(h, w)

Distinct(s) == \A i, j \in 1 .. Len(s) : s[i] = s[j] => i = j

\* Setting the parent of two nodes.
LEMMA ParentsSet ==
  ASSUME NEW h, HeapOK(h), NEW p \in DOMAIN h, NEW a \in DOMAIN h, NEW b \in DOMAIN h, a # b
  PROVE  LET h0 == ParentsTo(h, p, a, b) IN
         /\ HeapOK(h0) /\ DOMAIN h0 = DOMAIN h
         /\ h0[a].parent = p /\ h0[b].parent = p
         /\ \A m \in DOMAIN h : /\ h0[m].leaf = h[m].leaf /\ h0[m].key = h[m].key
                                /\ h0[m].sub = h[m].sub /\ h0[m].idx = h[m].idx
                                /\ m \notin {a, b} => h0[m].parent = h[m].parent
<1> DEFINE h0 == ParentsTo(h, p, a, b)
<1>1. DOMAIN h0 = DOMAIN h
  BY DEF ParentsTo
<1>2. \A m \in DOMAIN h \ {a, b} : h0[m] = h[m]
  BY DEF ParentsTo
<1>3. ASSUME NEW m \in {a, b}
      PROVE  h0[m] = [leaf |-> h[m].leaf, key |-> h[m].key, sub |-> h[m].sub,
                      parent |-> p, idx |-> h[m].idx]
  <2>1. h[a] = [leaf |-> h[a].leaf, key |-> h[a].key, sub |-> h[a].sub,
                parent |-> h[a].parent, idx |-> h[a].idx]
    BY NodeFields
  <2>2. h[b] = [leaf |-> h[b].leaf, key |-> h[b].key, sub |-> h[b].sub,
                parent |-> h[b].parent, idx |-> h[b].idx]
    BY NodeFields
  <2> DEFINE ra == h[a]
             rb == h[b]
  <2>3. h0[a] = [ra EXCEPT !.parent = p] /\ h0[b] = [rb EXCEPT !.parent = p]
    BY DEF ParentsTo
  <2> HIDE DEF h0
  <2> QED
    BY <2>1, <2>2, <2>3
<1> HIDE DEF h0
<1>4. ASSUME NEW m \in DOMAIN h
      PROVE  /\ h0[m] \in NodeRec
             /\ h0[m].leaf = h[m].leaf /\ h0[m].key = h[m].key
             /\ h0[m].sub = h[m].sub /\ h0[m].idx = h[m].idx
             /\ m \notin {a, b} => h0[m].parent = h[m].parent
  <2>1. h[m] \in NodeRec /\ p \in Nat
    BY DEF HeapOK
  <2>2. CASE m \in {a, b}
    BY <1>3, <2>1, <2>2 DEF NodeRec
  <2>3. CASE m \notin {a, b}
    BY <1>2, <2>1, <2>3
  <2> QED
    BY <2>2, <2>3
<1>5. HeapOK(h0)
  BY <1>1, <1>4 DEF HeapOK
<1>6. h0[a].parent = p /\ h0[b].parent = p
  BY <1>3
<1> QED
  BY <1>1, <1>4, <1>5, <1>6 DEF h0

\* What non_leaf_simple_insert leaves (bplustree.c:412-428).
LEMMA InsertedIs ==
  ASSUME NEW h, HeapOK(h), NEW p \in DOMAIN h, NEW a \in DOMAIN h, NEW b \in DOMAIN h,
         a # b, p # a, p # b, NEW s \in Keys, NEW i \in 0 .. Len(h[p].key),
         Len(h[p].sub) = Len(h[p].key) + 1
  PROVE  LET v == InsertedAt(h, p, i, s, a, b) IN
         /\ HeapOK(v) /\ DOMAIN v = DOMAIN h
         /\ \A m \in DOMAIN h \ {p} : Same(h, v, m)
         /\ v[p].leaf = h[p].leaf
         /\ v[p].key = InsertAt(h[p].key, i + 1, s)
         /\ v[p].sub = TwoFor(h[p].sub, i, a, b)
         /\ v[a].parent = p /\ v[b].parent = p
         /\ \A m \in DOMAIN h \ {a, b} : v[m].parent = h[m].parent
         /\ Distinct(v[p].sub) => \A q \in i + 1 .. Len(v[p].sub) :
              v[p].sub[q] \in DOMAIN h => v[v[p].sub[q]].idx = q - 2
         /\ \A m \in DOMAIN h :
              (\A q \in i + 1 .. Len(v[p].sub) : v[p].sub[q] # m) => v[m].idx = h[m].idx
<1> DEFINE h0 == ParentsTo(h, p, a, b)
           key == InsertAt(h[p].key, i + 1, s)
           sub == TwoFor(h[p].sub, i, a, b)
           h1 == SetNode(h0, p, key, sub)
           places == i .. Len(h1[p].sub) - 1
           v == Renumber(h1, p, places)
<1>1. /\ HeapOK(h0) /\ DOMAIN h0 = DOMAIN h
      /\ h0[a].parent = p /\ h0[b].parent = p
      /\ \A m \in DOMAIN h : /\ h0[m].leaf = h[m].leaf /\ h0[m].key = h[m].key
                             /\ h0[m].sub = h[m].sub /\ h0[m].idx = h[m].idx
                             /\ m \notin {a, b} => h0[m].parent = h[m].parent
  BY ParentsSet
<1> HIDE DEF h0
<1>2. /\ h[p].key \in Seq(Keys) /\ h[p].sub \in Seq(Item) /\ a \in Item /\ b \in Item
      /\ Len(h[p].key) \in Nat /\ Len(h[p].sub) \in Nat
  BY NodeFields
<1>3. key \in Seq(Keys)
  <2>1. i + 1 \in 1 .. Len(h[p].key) + 1
    BY <1>2
  <2>2. Added(key, Keys, h[p].key, i + 1, s)
    BY <1>2, <2>1, InsertAtIs
  <2> QED
    BY ONLY <2>2 DEF Added
<1>4. sub \in Seq(Item)
  <2>1. i \in 0 .. Len(h[p].sub) - 1
    BY <1>2
  <2>2. Doubled(sub, Item, h[p].sub, i, a, b)
    BY <1>2, <2>1, ReplacedByTwo
  <2> QED
    BY ONLY <2>2 DEF Doubled
<1> HIDE DEF key, sub
<1>5. /\ HeapOK(h1) /\ DOMAIN h1 = DOMAIN h
      /\ h1[p].key = key /\ h1[p].sub = sub /\ h1[p].leaf = h0[p].leaf
      /\ h1[p].parent = h0[p].parent /\ h1[p].idx = h0[p].idx
      /\ \A m \in DOMAIN h \ {p} : h1[m] = h0[m]
  BY <1>1, <1>3, <1>4, SetNodeIs
<1> HIDE DEF h1
<1>6. Len(sub) \in Nat /\ places \subseteq Int
  BY <1>4
<1> HIDE DEF places
<1>7. /\ HeapOK(v) /\ DOMAIN v = DOMAIN h1
      /\ \A m \in DOMAIN h1 : /\ v[m].leaf = h1[m].leaf /\ v[m].key = h1[m].key
                              /\ v[m].sub = h1[m].sub /\ v[m].parent = h1[m].parent
      /\ \A m \in DOMAIN h1 : (\A q \in places : h1[p].sub[q + 1] # m) => v[m] = h1[m]
  <2>1. HeapOK(h1) /\ p \in DOMAIN h1 /\ places \in SUBSET Int
    BY <1>5, <1>6
  <2> QED
    BY <2>1, RenumberKeeps
<1>8. ASSUME Distinct(sub) PROVE \A q \in places : sub[q + 1] \in DOMAIN h1 => v[sub[q + 1]].idx = q - 1
  <2>1. Apart(h1, p, places)
    <3>1. places \subseteq 0 .. Len(h1[p].sub) - 1
      BY <1>5, <1>6 DEF places
    <3>2. ASSUME NEW q \in places, NEW r \in places, h1[p].sub[q + 1] = h1[p].sub[r + 1]
          PROVE  q = r
      <4>1. q + 1 \in 1 .. Len(sub) /\ r + 1 \in 1 .. Len(sub) /\ q \in Int /\ r \in Int
        BY <1>5, <1>6, <3>1
      <4>2. q + 1 = r + 1
        BY <1>5, <1>8, <3>2, <4>1 DEF Distinct
      <4> QED
        BY <4>1, <4>2
    <3> QED
      BY <3>1, <3>2 DEF Apart
  <2> QED
    BY <1>5, <2>1, RenumberIs
<1>9. places = i .. Len(sub) - 1
  BY <1>5 DEF places
<1> HIDE DEF v
<1>10. ASSUME Distinct(v[p].sub), NEW q \in i + 1 .. Len(v[p].sub), v[p].sub[q] \in DOMAIN h
       PROVE  v[v[p].sub[q]].idx = q - 2
  <2>1. v[p].sub = sub
    BY <1>5, <1>7
  <2>2. q - 1 \in places /\ (q - 1) + 1 = q /\ (q - 1) - 1 = q - 2
    BY <1>6, <1>9, <1>10, <2>1
  <2>3. sub[(q - 1) + 1] \in DOMAIN h1 => v[sub[(q - 1) + 1]].idx = (q - 1) - 1
    BY <1>8, <1>10, <2>1, <2>2
  <2> QED
    BY <1>5, <1>10, <2>1, <2>2, <2>3
<1>11. ASSUME NEW m \in DOMAIN h, \A q \in i + 1 .. Len(v[p].sub) : v[p].sub[q] # m
       PROVE  v[m].idx = h[m].idx
  <2>1. v[p].sub = sub
    BY <1>5, <1>7
  <2>2. \A q \in places : h1[p].sub[q + 1] # m
    <3>1. SUFFICES ASSUME NEW q \in places PROVE h1[p].sub[q + 1] # m
      OBVIOUS
    <3>2. q + 1 \in i + 1 .. Len(v[p].sub)
      BY <1>6, <1>9, <2>1
    <3> QED
      BY <1>5, <1>11, <2>1, <3>2
  <2>3. v[m] = h1[m]
    BY <1>5, <1>7, <2>2
  <2> QED
    BY <1>1, <1>5, <2>3
<1>12. /\ \A m \in DOMAIN h \ {p} : Same(h, v, m)
       /\ v[p].leaf = h[p].leaf /\ v[p].key = key /\ v[p].sub = sub
  BY <1>1, <1>5, <1>7 DEF Same
<1>13. /\ v[a].parent = p /\ v[b].parent = p
       /\ \A m \in DOMAIN h \ {a, b} : v[m].parent = h[m].parent
  BY <1>1, <1>5, <1>7
<1>14. v = InsertedAt(h, p, i, s, a, b)
  BY DEF v, places, h1, h0, key, sub, InsertedAt
<1>15. HeapOK(v) /\ DOMAIN v = DOMAIN h
  BY <1>5, <1>7
<1> QED
  BY <1>10, <1>11, <1>12, <1>13, <1>14, <1>15 DEF key, sub

\* What non_leaf_simple_remove leaves (bplustree.c:733-741).
LEMMA RemovedIs ==
  ASSUME NEW h, HeapOK(h), NEW n \in DOMAIN h, NEW i \in 0 .. Len(h[n].key) - 1,
         Len(h[n].sub) = Len(h[n].key) + 1
  PROVE  LET v == RemovedAt(h, n, i) IN
         /\ HeapOK(v) /\ DOMAIN v = DOMAIN h
         /\ \A m \in DOMAIN h \ {n} : Same(h, v, m)
         /\ v[n].leaf = h[n].leaf
         /\ v[n].key = RemoveAt(h[n].key, i + 1)
         /\ v[n].sub = RemoveAt(h[n].sub, i + 2)
         /\ \A m \in DOMAIN h : v[m].parent = h[m].parent
         /\ Distinct(v[n].sub) => \A q \in i + 2 .. Len(v[n].sub) :
              v[n].sub[q] \in DOMAIN h => v[v[n].sub[q]].idx = q - 2
         /\ \A m \in DOMAIN h :
              (\A q \in i + 2 .. Len(v[n].sub) : v[n].sub[q] # m) => v[m].idx = h[m].idx
<1> DEFINE key == RemoveAt(h[n].key, i + 1)
           sub == RemoveAt(h[n].sub, i + 2)
           h1 == SetNode(h, n, key, sub)
           places == i + 1 .. Len(h1[n].sub) - 1
           v == Renumber(h1, n, places)
<1>2. /\ h[n].key \in Seq(Keys) /\ h[n].sub \in Seq(Item)
      /\ Len(h[n].key) \in Nat /\ Len(h[n].sub) \in Nat
  BY NodeFields
<1>3. key \in Seq(Keys)
  <2>1. i + 1 \in 1 .. Len(h[n].key)
    BY <1>2
  <2> QED
    BY <1>2, <2>1, RemoveAtIs
<1>4. sub \in Seq(Item)
  <2>1. i + 2 \in 1 .. Len(h[n].sub)
    BY <1>2
  <2> QED
    BY <1>2, <2>1, RemoveAtIs
<1> HIDE DEF key, sub
<1>5. /\ HeapOK(h1) /\ DOMAIN h1 = DOMAIN h
      /\ h1[n].key = key /\ h1[n].sub = sub /\ h1[n].leaf = h[n].leaf
      /\ h1[n].parent = h[n].parent /\ h1[n].idx = h[n].idx
      /\ \A m \in DOMAIN h \ {n} : h1[m] = h[m]
  BY <1>3, <1>4, SetNodeIs
<1> HIDE DEF h1
<1>6. Len(sub) \in Nat /\ places \in SUBSET Int
  BY <1>4
<1> HIDE DEF places
<1>7. /\ HeapOK(v) /\ DOMAIN v = DOMAIN h1
      /\ \A m \in DOMAIN h1 : /\ v[m].leaf = h1[m].leaf /\ v[m].key = h1[m].key
                              /\ v[m].sub = h1[m].sub /\ v[m].parent = h1[m].parent
      /\ \A m \in DOMAIN h1 : (\A q \in places : h1[n].sub[q + 1] # m) => v[m] = h1[m]
  <2>1. HeapOK(h1) /\ n \in DOMAIN h1 /\ places \in SUBSET Int
    BY <1>5, <1>6
  <2> QED
    BY <2>1, RenumberKeeps
<1>8. ASSUME Distinct(sub) PROVE \A q \in places : sub[q + 1] \in DOMAIN h1 => v[sub[q + 1]].idx = q - 1
  <2>1. Apart(h1, n, places)
    <3>1. places \subseteq 0 .. Len(h1[n].sub) - 1
      BY <1>5, <1>6 DEF places
    <3>2. ASSUME NEW q \in places, NEW r \in places, h1[n].sub[q + 1] = h1[n].sub[r + 1]
          PROVE  q = r
      <4>1. q + 1 \in 1 .. Len(sub) /\ r + 1 \in 1 .. Len(sub) /\ q \in Int /\ r \in Int
        BY <1>5, <1>6, <3>1
      <4>2. q + 1 = r + 1
        BY <1>5, <1>8, <3>2, <4>1 DEF Distinct
      <4> QED
        BY <4>1, <4>2
    <3> QED
      BY <3>1, <3>2 DEF Apart
  <2> QED
    BY <1>5, <2>1, RenumberIs
<1>9. places = i + 1 .. Len(sub) - 1
  BY <1>5 DEF places
<1> HIDE DEF v
<1>10. ASSUME Distinct(v[n].sub), NEW q \in i + 2 .. Len(v[n].sub), v[n].sub[q] \in DOMAIN h
       PROVE  v[v[n].sub[q]].idx = q - 2
  <2>1. v[n].sub = sub
    BY <1>5, <1>7
  <2>2. q - 1 \in places /\ (q - 1) + 1 = q /\ (q - 1) - 1 = q - 2
    BY <1>6, <1>9, <1>10, <2>1
  <2>3. sub[(q - 1) + 1] \in DOMAIN h1 => v[sub[(q - 1) + 1]].idx = (q - 1) - 1
    BY <1>8, <1>10, <2>1, <2>2
  <2> QED
    BY <1>5, <1>10, <2>1, <2>2, <2>3
<1>11. ASSUME NEW m \in DOMAIN h, \A q \in i + 2 .. Len(v[n].sub) : v[n].sub[q] # m
       PROVE  v[m].idx = h[m].idx
  <2>1. v[n].sub = sub
    BY <1>5, <1>7
  <2>2. \A q \in places : h1[n].sub[q + 1] # m
    <3>1. SUFFICES ASSUME NEW q \in places PROVE h1[n].sub[q + 1] # m
      OBVIOUS
    <3>2. q + 1 \in i + 2 .. Len(v[n].sub)
      BY <1>6, <1>9, <2>1
    <3> QED
      BY <1>5, <1>11, <2>1, <3>2
  <2>3. v[m] = h1[m]
    BY <1>5, <1>7, <2>2
  <2> QED
    BY <1>5, <2>3
<1>12. /\ \A m \in DOMAIN h \ {n} : Same(h, v, m)
       /\ v[n].leaf = h[n].leaf /\ v[n].key = key /\ v[n].sub = sub
  BY <1>5, <1>7 DEF Same
<1>13. \A m \in DOMAIN h : v[m].parent = h[m].parent
  BY <1>5, <1>7
<1>14. v = RemovedAt(h, n, i)
  BY DEF v, places, h1, key, sub, RemovedAt
<1>15. HeapOK(v) /\ DOMAIN v = DOMAIN h
  BY <1>5, <1>7
<1> QED
  BY <1>10, <1>11, <1>12, <1>13, <1>14, <1>15 DEF key, sub

\* There is a free name in every heap.
LEMMA FreeIs ==
  ASSUME NEW h, HeapOK(h)
  PROVE  FreeOf(h) \in Nat \ {0} /\ FreeOf(h) \notin DOMAIN h
<1> DEFINE c == Cardinality(DOMAIN h)
<1>1. c \in Nat /\ IsFiniteSet(DOMAIN h)
  BY FS_CardinalityType DEF HeapOK
<1>2. \E n \in 1 .. c + 1 : n \notin DOMAIN h
  <2>1. SUFFICES ASSUME 1 .. c + 1 \subseteq DOMAIN h PROVE FALSE
    OBVIOUS
  <2>2. Cardinality(1 .. c + 1) <= c
    BY <1>1, <2>1, FS_Subset
  <2>3. Cardinality(1 .. c + 1) = c + 1
    <3>1. \A b \in Int : Cardinality(1 .. b) = IF 1 > b THEN 0 ELSE b - 1 + 1
      BY FS_Interval
    <3> DEFINE d == c + 1
    <3>2. d \in Int /\ ~ (1 > d)
      BY <1>1
    <3> HIDE DEF d
    <3>3. Cardinality(1 .. d) = d
      BY <3>1, <3>2
    <3> QED
      BY <3>3 DEF d
  <2> QED
    BY <1>1, <2>2, <2>3
<1> QED
  BY <1>1, <1>2 DEF FreeOf

\* v is h with the new root r above a and b.
RootedBy(h, v, r, a, b, s) ==
  /\ HeapOK(v) /\ DOMAIN v = DOMAIN h \cup {r}
  /\ \A m \in DOMAIN h : Same(h, v, m)
  /\ v[r].leaf = FALSE /\ v[r].parent = Null
  /\ Len(v[r].key) = 1 /\ v[r].key[1] = s
  /\ Len(v[r].sub) = 2 /\ v[r].sub[1] = a /\ v[r].sub[2] = b
  /\ v[a].parent = r /\ v[b].parent = r
  /\ v[a].idx = -1 /\ v[b].idx = 0
  /\ \A m \in DOMAIN h \ {a, b} : v[m].parent = h[m].parent /\ v[m].idx = h[m].idx

\* What the new root of parent_node_build leaves.
LEMMA RootedIs ==
  ASSUME NEW h, HeapOK(h), NEW w, w.left \in DOMAIN h, w.right \in DOMAIN h, w.left # w.right,
         w.key \in Keys
  PROVE  RootedBy(h, RootedOf(h, w), FreeOf(h), w.left, w.right, w.key)
<1> DEFINE r == FreeOf(h)
           a == w.left
           b == w.right
           s == w.key
           node == NonLeafNode(<<s>>, <<a, b>>)
           h1 == With(h, r, node)
           v == Adopt(h1, r, {0, 1})
<1>1. r \in Nat \ {0} /\ r \notin DOMAIN h
  BY FreeIs
<1>2. a \in Item /\ b \in Item
  BY NodeFields
<1> HIDE DEF a, b, s, r
<1>3. /\ node.leaf = FALSE /\ node.key = <<s>> /\ node.sub = <<a, b>>
      /\ node.parent = Null /\ node.idx = -1
  BY DEF NonLeafNode
<1>4. s \in Keys
  BY DEF s
<1>5. node \in NodeRec
  <2>1. <<s>> \in Seq(Keys) /\ <<a, b>> \in Seq(Item)
    BY <1>2, <1>4
  <2> DEFINE key == <<s>>
             sub == <<a, b>>
  <2>2. key \in Seq(Keys) /\ sub \in Seq(Item) /\ node = NonLeafNode(key, sub)
    BY <2>1
  <2> HIDE DEF key, sub, node
  <2> QED
    BY <2>2 DEF NonLeafNode, NodeRec, Null
<1> HIDE DEF node
<1>6. /\ HeapOK(h1) /\ DOMAIN h1 = DOMAIN h \cup {r} /\ h1[r] = node
      /\ \A m \in DOMAIN h \ {r} : h1[m] = h[m]
  BY <1>1, <1>5, WithIs
<1> HIDE DEF h1
<1>7. Len(node.sub) = 2 /\ node.sub[1] = a /\ node.sub[2] = b
      /\ Len(node.key) = 1 /\ node.key[1] = s
  BY <1>3
<1>8. a # b
  BY DEF a, b
<1>9. Apart(h1, r, {0, 1})
  BY <1>6, <1>7, <1>8 DEF Apart
<1>10. /\ HeapOK(v) /\ DOMAIN v = DOMAIN h1
       /\ \A m \in DOMAIN h1 : /\ v[m].leaf = h1[m].leaf /\ v[m].key = h1[m].key
                               /\ v[m].sub = h1[m].sub
       /\ \A p \in {0, 1} : h1[r].sub[p + 1] \in DOMAIN h1 =>
            v[h1[r].sub[p + 1]].idx = p - 1 /\ v[h1[r].sub[p + 1]].parent = r
       /\ \A m \in DOMAIN h1 : (\A p \in {0, 1} : h1[r].sub[p + 1] # m) => v[m] = h1[m]
  <2> DEFINE two == {0, 1}
  <2>1. r \in DOMAIN h1 /\ Apart(h1, r, two)
    BY <1>6, <1>9
  <2> HIDE DEF two
  <2>2. LET g == Adopt(h1, r, two) IN
        /\ HeapOK(g) /\ DOMAIN g = DOMAIN h1
        /\ \A m \in DOMAIN h1 : /\ g[m].leaf = h1[m].leaf /\ g[m].key = h1[m].key
                                /\ g[m].sub = h1[m].sub
        /\ \A p \in two : h1[r].sub[p + 1] \in DOMAIN h1 =>
             g[h1[r].sub[p + 1]].idx = p - 1 /\ g[h1[r].sub[p + 1]].parent = r
        /\ \A m \in DOMAIN h1 : (\A p \in two : h1[r].sub[p + 1] # m) => g[m] = h1[m]
    BY <1>6, <2>1, AdoptIs
  <2> QED
    BY <2>2 DEF two
<1> HIDE DEF v
<1>11. a \in DOMAIN h /\ b \in DOMAIN h
  BY DEF a, b
<1>12. /\ v[a].idx = -1 /\ v[a].parent = r /\ v[b].idx = 0 /\ v[b].parent = r
       /\ \A m \in DOMAIN h1 : m # a /\ m # b => v[m] = h1[m]
  <2>1. h1[r].sub[0 + 1] = a /\ h1[r].sub[1 + 1] = b
    BY <1>6, <1>7
  <2>2. v[h1[r].sub[0 + 1]].idx = 0 - 1 /\ v[h1[r].sub[0 + 1]].parent = r
    BY <1>6, <1>10, <1>11, <2>1
  <2>3. v[h1[r].sub[1 + 1]].idx = 1 - 1 /\ v[h1[r].sub[1 + 1]].parent = r
    BY <1>6, <1>10, <1>11, <2>1
  <2>4. \A m \in DOMAIN h1 : m # a /\ m # b => v[m] = h1[m]
    BY <1>10, <2>1
  <2> QED
    BY <2>1, <2>2, <2>3, <2>4
<1>13. /\ v[r].leaf = FALSE /\ Len(v[r].key) = 1 /\ v[r].key[1] = s
       /\ Len(v[r].sub) = 2 /\ v[r].sub[1] = a /\ v[r].sub[2] = b
  BY <1>3, <1>6, <1>7, <1>10
<1>14. v[r].parent = Null
  BY <1>1, <1>3, <1>6, <1>11, <1>12
<1>15. /\ \A m \in DOMAIN h : Same(h, v, m)
       /\ \A m \in DOMAIN h \ {a, b} : v[m].parent = h[m].parent /\ v[m].idx = h[m].idx
  <2>1. \A m \in DOMAIN h : h1[m] = h[m] /\ m \in DOMAIN h1
    BY <1>1, <1>6
  <2> QED
    BY <1>10, <1>12, <2>1 DEF Same
<1>16. v = RootedOf(h, w)
  BY DEF RootedOf, v, h1, node, a, b, s, r
<1>17. HeapOK(v) /\ DOMAIN v = DOMAIN h \cup {r}
  BY <1>6, <1>10
<1>18. RootedBy(h, v, r, a, b, s)
  BY <1>12, <1>13, <1>14, <1>15, <1>17 DEF RootedBy
<1> QED
  BY <1>16, <1>18 DEF a, b, s, r

-----------------------------------------------------------------------------
(***************************************************************************)
(* Splitting, merging and moving a border keep the settled tree.           *)
(***************************************************************************)

KidsOf(h, n) ==
  ~ h[n].leaf => \A i \in 1 .. Len(h[n].sub) :
                   h[h[n].sub[i]].parent = n /\ h[h[n].sub[i]].idx = i - 2

SameLink(h, H, m) == H[m].parent = h[m].parent /\ H[m].idx = h[m].idx

KidOf(h, n, m) == \E i : Slot(h, n, i, m)

\* What a and b, or one of them, had for children in h they have in H, and the
\* children know their place; the links of the other nodes are as they were.
KidsMoved(h, H, a, b) ==
  /\ \A c \in {a, b} : c \in DOMAIN H => KidsOf(H, c)
  /\ \A m \in DOMAIN h \cap DOMAIN H :
       ~ KidOf(h, a, m) /\ ~ KidOf(h, b, m) => SameLink(h, H, m)
  /\ \A m \in DOMAIN h : KidOf(h, a, m) \/ KidOf(h, b, m) => KidOf(H, a, m) \/ KidOf(H, b, m)

\* The links of a tree, node by node.
LEMMA LinksAre ==
  ASSUME NEW h, NEW rt
  PROVE  Links(h, rt) <=> (\A p \in DOMAIN h : KidsOf(h, p)) /\ (rt # Null => h[rt].parent = Null)
BY DEF Links, KidsOf, Slot

\* Children are apart.
LEMMA ShapeDistinct ==
  ASSUME NEW h, NEW g, NEW rt, NEW lv, HeapOK(h), Shape(h, g, rt, lv),
         NEW p \in DOMAIN h, ~ h[p].leaf
  PROVE  Distinct(h[p].sub)
<1>1. NodeOK(h, g, rt, lv, p)
  BY DEF Shape
<1>2. Interval(g, p) /\ InnerOK(h, g, p)
  BY <1>1 DEF NodeOK, OwnOK
<1>3. Len(h[p].sub) \in Nat
  BY KeysAreInts
<1>4. ASSUME NEW i \in 1 .. Len(h[p].sub), NEW j \in 1 .. Len(h[p].sub),
             i < j, h[p].sub[i] = h[p].sub[j]
      PROVE  FALSE
  <2>1. i - 1 \in 0 .. Len(h[p].sub) /\ j - 1 \in 0 .. Len(h[p].sub) /\ i - 1 < j - 1
    BY <1>3, <1>4
  <2>2. Bound(h, g, p, i - 1) < Bound(h, g, p, j - 1)
    BY <1>2, <2>1 DEF InnerOK
  <2>3. Bound(h, g, p, i - 1) = Bound(h, g, p, j - 1)
    BY <1>2, <1>4 DEF InnerOK
  <2>4. Bound(h, g, p, i - 1) \in Int
    BY <1>2, <2>1, BoundIsInt
  <2> QED
    BY <2>2, <2>3, <2>4
<1> QED
  BY <1>3, <1>4 DEF Distinct

\* The children of a node that keeps its own are no children of a and b.
LEMMA OtherKids ==
  ASSUME NEW h, NEW g, NEW rt, NEW lv, HeapOK(h), Shape(h, g, rt, lv), Links(h, rt),
         NEW q \in DOMAIN h, ~ h[q].leaf, NEW i \in 1 .. Len(h[q].sub)
  PROVE  /\ h[q].sub[i] \in DOMAIN h /\ KidOf(h, q, h[q].sub[i])
         /\ \A a : a # q => ~ KidOf(h, a, h[q].sub[i])
         /\ h[h[q].sub[i]].parent = q /\ h[h[q].sub[i]].idx = i - 2
         /\ h[q].sub[i] # rt
<1> DEFINE m == h[q].sub[i]
<1>1. Slot(h, q, i, m)
  BY DEF Slot
<1> HIDE DEF m
<1>2. m # rt /\ h[m].parent = q /\ h[m].idx = i - 2 /\ \A r, k : Slot(h, r, k, m) => r = q /\ k = i
  BY <1>1, SlotUnique
<1>3. m \in DOMAIN h
  BY <1>1, SlotIs
<1> QED
  BY <1>1, <1>2, <1>3 DEF KidOf, m

\* a and b share their contents out anew, with s between them.
Recut(h, H, g, g2, p, j, a, b, s) ==
  /\ Slot(h, p, j, a) /\ Slot(h, p, j + 1, b)
  /\ s \in Int /\ g[a].lo < s /\ s < g[b].hi
  /\ DOMAIN H = DOMAIN h
  /\ g2[a].lo = g[a].lo /\ g2[a].hi = s /\ g2[a].dep = g[a].dep
  /\ g2[b].lo = s /\ g2[b].hi = g[b].hi /\ g2[b].dep = g[b].dep
  /\ \A m \in DOMAIN h \ {a, b} : g2[m] = g[m]
  /\ H[a].leaf = h[a].leaf /\ H[b].leaf = h[b].leaf
  /\ OwnOK(H, g2, a) /\ OwnOK(H, g2, b)
  /\ H[p].leaf = h[p].leaf /\ H[p].sub = h[p].sub /\ Len(H[p].key) = Len(h[p].key)
  /\ H[p].key[j] = s /\ \A i \in 1 .. Len(h[p].key) : i # j => H[p].key[i] = h[p].key[i]
  /\ \A m \in DOMAIN h \ {a, b, p} : Same(h, H, m)
  /\ KidsMoved(h, H, a, b)

\* Moving the border between two neighbours keeps the tree.
LEMMA RecutSettles ==
  ASSUME NEW h, NEW H, NEW g, NEW g2, NEW rt, NEW lv,
         HeapOK(h), Shape(h, g, rt, lv), Links(h, rt),
         NEW p, NEW j, NEW a, NEW b, NEW s, Recut(h, H, g, g2, p, j, a, b, s)
  PROVE  Shape(H, g2, rt, lv) /\ Links(H, rt)
<1>1. KidsMoved(h, H, a, b) /\ DOMAIN H = DOMAIN h /\ Slot(h, p, j, a) /\ Slot(h, p, j + 1, b)
      /\ H[p].leaf = h[p].leaf /\ H[p].sub = h[p].sub
      /\ \A m \in DOMAIN h \ {a, b, p} : Same(h, H, m)
  BY DEF Recut
<1>2. ASSUME NEW m \in DOMAIN h, NEW i, Slot(h, a, i, m) \/ Slot(h, b, i, m)
      PROVE  HasParent(H, m)
  <2>1. KidOf(H, a, m) \/ KidOf(H, b, m)
    BY <1>1, <1>2 DEF KidsMoved, KidOf
  <2> QED
    BY <2>1 DEF KidOf, HasParent, Slot
<1>3. Shape(H, g2, rt, lv)
  <2>1. \A m \in DOMAIN h : \A i : Slot(h, a, i, m) \/ Slot(h, b, i, m) => HasParent(H, m)
    BY <1>2
  <2>2. /\ Slot(h, p, j, a) /\ Slot(h, p, j + 1, b)
        /\ s \in Int /\ g[a].lo < s /\ s < g[b].hi
        /\ DOMAIN H = DOMAIN h
        /\ g2[a].lo = g[a].lo /\ g2[a].hi = s /\ g2[a].dep = g[a].dep
        /\ g2[b].lo = s /\ g2[b].hi = g[b].hi /\ g2[b].dep = g[b].dep
        /\ \A m \in DOMAIN h \ {a, b} : g2[m] = g[m]
        /\ H[a].leaf = h[a].leaf /\ H[b].leaf = h[b].leaf
        /\ OwnOK(H, g2, a) /\ OwnOK(H, g2, b)
        /\ H[p].leaf = h[p].leaf /\ H[p].sub = h[p].sub /\ Len(H[p].key) = Len(h[p].key)
        /\ H[p].key[j] = s /\ \A i \in 1 .. Len(h[p].key) : i # j => H[p].key[i] = h[p].key[i]
        /\ \A m \in DOMAIN h \ {a, b, p} : Same(h, H, m)
    BY DEF Recut
  <2> QED
    BY <2>1, <2>2, RecutShape, SMTT(60)
<1>4. \A m : KidOf(h, a, m) \/ KidOf(h, b, m) => m # rt
  BY SlotUnique DEF KidOf
<1>5. ASSUME NEW q \in DOMAIN H PROVE KidsOf(H, q)
  <2>1. CASE q \in {a, b}
    BY <1>1, <2>1 DEF KidsMoved
  <2>2. CASE q \notin {a, b}
    <3>1. H[q].leaf = h[q].leaf /\ H[q].sub = h[q].sub
      BY <1>1, <2>2 DEF Same
    <3>2. SUFFICES ASSUME ~ h[q].leaf, NEW i \in 1 .. Len(h[q].sub)
                   PROVE  H[h[q].sub[i]].parent = q /\ H[h[q].sub[i]].idx = i - 2
      BY <3>1 DEF KidsOf
    <3> DEFINE m == h[q].sub[i]
    <3>3. /\ m \in DOMAIN h /\ \A c : c # q => ~ KidOf(h, c, m)
          /\ h[m].parent = q /\ h[m].idx = i - 2
      <4>1. q \in DOMAIN h
        BY <1>1
      <4>2. HeapOK(h) /\ Shape(h, g, rt, lv) /\ Links(h, rt) /\ ~ h[q].leaf
        BY <3>2
      <4>3. m \in DOMAIN h
        BY <3>2, <4>1, <4>2, OtherKids
      <4>4. h[m].parent = q /\ h[m].idx = i - 2
        BY <3>2, <4>1, <4>2, OtherKids
      <4>5. \A c : c # q => ~ KidOf(h, c, m)
        BY <3>2, <4>1, <4>2, OtherKids
      <4> QED
        BY <4>3, <4>4, <4>5
    <3> HIDE DEF m
    <3>4. SameLink(h, H, m)
      BY <1>1, <2>2, <3>3 DEF KidsMoved
    <3>5. H[m].parent = q /\ H[m].idx = i - 2
      BY <3>3, <3>4 DEF SameLink
    <3> QED
      BY <3>5 DEF m
  <2> QED
    BY <2>1, <2>2
<1>6. rt # Null => H[rt].parent = Null
  <2>1. SUFFICES ASSUME rt # Null PROVE H[rt].parent = Null
    OBVIOUS
  <2>2. rt \in DOMAIN h /\ h[rt].parent = Null
    BY <2>1 DEF Shape, Links
  <2>3. SameLink(h, H, rt)
    BY <1>1, <1>4, <2>2 DEF KidsMoved
  <2> QED
    BY <2>2, <2>3 DEF SameLink
<1>7. Links(H, rt)
  BY <1>5, <1>6, LinksAre
<1> QED
  BY <1>3, <1>7

\* a has taken over what its neighbour b held; b is gone, but not yet from p.
Merged(h, H, g, g2, p, j, a, b) ==
  /\ Slot(h, p, j, a) /\ Slot(h, p, j + 1, b)
  /\ DOMAIN H = DOMAIN h \ {b}
  /\ g2[a].lo = g[a].lo /\ g2[a].hi = g[b].hi /\ g2[a].dep = g[a].dep
  /\ \A m \in DOMAIN h \ {a, b} : g2[m] = g[m]
  /\ H[a].leaf = h[a].leaf /\ OwnOK(H, g2, a)
  /\ \A m \in DOMAIN h \ {a, b} : Same(h, H, m)
  /\ KidsMoved(h, H, a, b)

RemoveOK(h, n, i) ==
  /\ n \in DOMAIN h /\ ~ h[n].leaf
  /\ Len(h[n].sub) = Len(h[n].key) + 1
  /\ i \in 0 .. Len(h[n].key) - 1
  /\ \A q \in 1 .. Len(h[n].sub) : q # i + 2 => h[h[n].sub[q]].idx = q - 2

\* Merging two neighbours keeps the tree, once the pending removal from the
\* parent is done.
LEMMA MergeSettles ==
  ASSUME NEW h, NEW H, NEW g, NEW g2, NEW rt, NEW lv,
         HeapOK(h), Shape(h, g, rt, lv), Links(h, rt), HeapOK(H),
         NEW p, NEW j, NEW a, NEW b, Merged(h, H, g, g2, p, j, a, b)
  PROVE  /\ RemoveOK(H, p, j - 1)
         /\ LET v == RemovedAt(H, p, j - 1) IN
            HeapOK(v) /\ DOMAIN v = DOMAIN H /\ Shape(v, g2, rt, lv) /\ Links(v, rt)
<1> DEFINE i == j - 1
           v == RemovedAt(H, p, i)
<1>1. /\ Slot(h, p, j, a) /\ Slot(h, p, j + 1, b)
      /\ DOMAIN H = DOMAIN h \ {b}
      /\ g2[a].lo = g[a].lo /\ g2[a].hi = g[b].hi /\ g2[a].dep = g[a].dep
      /\ \A m \in DOMAIN h \ {a, b} : g2[m] = g[m]
      /\ H[a].leaf = h[a].leaf /\ OwnOK(H, g2, a)
      /\ \A m \in DOMAIN h \ {a, b} : Same(h, H, m)
      /\ KidsMoved(h, H, a, b)
  BY DEF Merged
<1>2. /\ p \in DOMAIN h /\ ~ h[p].leaf /\ j \in 1 .. Len(h[p].sub) /\ h[p].sub[j] = a
      /\ a \in DOMAIN h /\ g[p].dep = g[a].dep + 1 /\ p # a
      /\ Len(h[p].sub) = Len(h[p].key) + 1 /\ g[a].dep \in Nat /\ g[p].dep \in Nat
  BY <1>1, SlotIs
<1>3. /\ j + 1 \in 1 .. Len(h[p].sub) /\ h[p].sub[j + 1] = b /\ b \in DOMAIN h /\ p # b
  BY <1>1, SlotIs
<1>4. Len(h[p].sub) \in Nat /\ Len(h[p].key) \in Nat
  BY <1>2, KeysAreInts
<1>5. Distinct(h[p].sub)
  BY <1>2, ShapeDistinct
<1>6. a # b
  <2>1. j # j + 1 /\ j \in Int
    BY <1>2, <1>4
  <2> QED
    BY <1>2, <1>3, <1>5, <2>1 DEF Distinct
<1>7. p \in DOMAIN H /\ H[p].leaf = h[p].leaf /\ H[p].key = h[p].key /\ H[p].sub = h[p].sub
  BY <1>1, <1>2, <1>3 DEF Same
<1>8. \A q \in 1 .. Len(h[p].sub) :
        /\ h[p].sub[q] \in DOMAIN h /\ KidOf(h, p, h[p].sub[q])
        /\ h[h[p].sub[q]].parent = p /\ h[h[p].sub[q]].idx = q - 2
        /\ h[p].sub[q] # rt
  BY <1>2, OtherKids
<1>9. \A q \in 1 .. Len(h[p].sub) : ~ KidOf(h, a, h[p].sub[q]) /\ ~ KidOf(h, b, h[p].sub[q])
  <2>1. SUFFICES ASSUME NEW q \in 1 .. Len(h[p].sub)
                 PROVE  ~ KidOf(h, a, h[p].sub[q]) /\ ~ KidOf(h, b, h[p].sub[q])
    OBVIOUS
  <2>2. \A c : c # p => ~ KidOf(h, c, h[p].sub[q])
    BY <1>2, OtherKids
  <2> QED
    BY <1>2, <1>3, <2>2
<1>10. \A q \in 1 .. Len(h[p].sub) : q # j + 1 =>
         h[p].sub[q] \in DOMAIN H /\ H[h[p].sub[q]].parent = p /\ H[h[p].sub[q]].idx = q - 2
  <2>1. SUFFICES ASSUME NEW q \in 1 .. Len(h[p].sub), q # j + 1
                 PROVE  h[p].sub[q] \in DOMAIN H /\ H[h[p].sub[q]].parent = p
                        /\ H[h[p].sub[q]].idx = q - 2
    OBVIOUS
  <2>2. h[p].sub[q] # b
    BY <1>3, <1>5, <2>1 DEF Distinct
  <2>3. h[p].sub[q] \in DOMAIN h \cap DOMAIN H
    BY <1>1, <1>8, <2>2
  <2>4. SameLink(h, H, h[p].sub[q])
    BY <1>1, <1>9, <2>3 DEF KidsMoved
  <2> QED
    BY <1>8, <2>3, <2>4 DEF SameLink
<1>11. j - 1 \in 0 .. Len(H[p].key) - 1 /\ j - 1 + 2 = j + 1 /\ j - 1 + 1 = j
  BY <1>2, <1>3, <1>4, <1>7
<1>12. RemoveOK(H, p, j - 1)
  <2>1. \A q \in 1 .. Len(H[p].sub) : q # j - 1 + 2 => H[H[p].sub[q]].idx = q - 2
    BY <1>7, <1>10, <1>11
  <2> QED
    BY <1>2, <1>7, <1>11, <2>1 DEF RemoveOK
<1>13. i \in 0 .. Len(H[p].key) - 1 /\ Len(H[p].sub) = Len(H[p].key) + 1 /\ p \in DOMAIN H
  BY <1>2, <1>7, <1>11
<1> HIDE DEF i
<1>14. /\ HeapOK(v) /\ DOMAIN v = DOMAIN H
       /\ \A m \in DOMAIN H \ {p} : Same(H, v, m)
       /\ v[p].leaf = H[p].leaf
       /\ v[p].key = RemoveAt(H[p].key, i + 1)
       /\ v[p].sub = RemoveAt(H[p].sub, i + 2)
       /\ \A m \in DOMAIN H : v[m].parent = H[m].parent
       /\ Distinct(v[p].sub) => \A q \in i + 2 .. Len(v[p].sub) :
            v[p].sub[q] \in DOMAIN H => v[v[p].sub[q]].idx = q - 2
       /\ \A m \in DOMAIN H :
            (\A q \in i + 2 .. Len(v[p].sub) : v[p].sub[q] # m) => v[m].idx = H[m].idx
  BY <1>13, RemovedIs
<1> HIDE DEF v
<1>15. /\ Len(v[p].key) = Len(h[p].key) - 1
       /\ \A q \in 1 .. j - 1 : v[p].key[q] = h[p].key[q]
       /\ \A q \in j .. Len(h[p].key) - 1 : v[p].key[q] = h[p].key[q + 1]
  <2>1. h[p].key \in Seq(Keys) /\ j \in 1 .. Len(h[p].key)
    BY <1>2, <1>3, <1>4, SMTT(60) DEF HeapOK, NodeRec
  <2>2. v[p].key = RemoveAt(h[p].key, j)
    BY <1>7, <1>11, <1>14 DEF i
  <2> QED
    BY <2>1, <2>2, RemoveAtIs, SMTT(60)
<1>16. /\ Len(v[p].sub) = Len(h[p].sub) - 1
       /\ \A q \in 1 .. j : v[p].sub[q] = h[p].sub[q]
       /\ \A q \in j + 1 .. Len(h[p].sub) - 1 : v[p].sub[q] = h[p].sub[q + 1]
  <2> DEFINE e == j + 1
  <2>1. h[p].sub \in Seq(Item) /\ e \in 1 .. Len(h[p].sub) /\ e - 1 = j
    BY <1>2, <1>3, <1>4 DEF HeapOK, NodeRec
  <2>2. v[p].sub = RemoveAt(h[p].sub, e)
    BY <1>7, <1>11, <1>14 DEF i
  <2> HIDE DEF e
  <2>3. /\ Len(v[p].sub) = Len(h[p].sub) - 1
        /\ \A q \in 1 .. e - 1 : v[p].sub[q] = h[p].sub[q]
        /\ \A q \in e .. Len(h[p].sub) - 1 : v[p].sub[q] = h[p].sub[q + 1]
    BY <2>1, <2>2, RemoveAtIs, ZenonT(60)
  <2> QED
    BY <2>1, <2>3 DEF e
<1>17. a \in DOMAIN H /\ a \in DOMAIN v /\ Same(H, v, a)
  BY <1>1, <1>2, <1>6, <1>14
<1>18. OwnOK(v, g2, a)
  <2>1. ~ H[a].leaf => \A q \in 1 .. Len(H[a].sub) : H[a].sub[q] \in DOMAIN v
    BY <1>1, <1>14 DEF OwnOK, InnerOK
  <2> QED
    BY <1>1, <1>17, <2>1, OwnKept
<1>19. ASSUME NEW m \in DOMAIN h, NEW q, Slot(h, a, q, m) \/ Slot(h, b, q, m)
       PROVE  HasParent(v, m)
  <2>1. KidOf(H, a, m) \/ KidOf(H, b, m)
    BY <1>1, <1>19 DEF KidsMoved, KidOf
  <2>2. PICK r : Slot(H, a, r, m)
    BY <1>1, <2>1 DEF KidOf, Slot
  <2>3. Slot(v, a, r, m)
    BY <1>14, <1>17, <2>2 DEF Slot, Same
  <2> QED
    BY <2>3 DEF HasParent, Slot
<1>20. \A m \in DOMAIN h \ {a, b, p} : Same(h, v, m)
  BY <1>1, <1>14 DEF Same
<1>21. v[a].leaf = h[a].leaf /\ v[p].leaf = h[p].leaf
  BY <1>1, <1>7, <1>14, <1>17 DEF Same
<1>22. Shape(v, g2, rt, lv)
  <2>1. DOMAIN v = DOMAIN h \ {b}
    BY <1>1, <1>14
  <2>2. \A m \in DOMAIN h : \A q : Slot(h, a, q, m) \/ Slot(h, b, q, m) => HasParent(v, m)
    BY <1>19
  <2> QED
    BY <1>1, <1>15, <1>16, <1>18, <1>20, <1>21, <2>1, <2>2, MergeShape

<1>23. Distinct(v[p].sub)
  BY <1>2, <1>7, <1>14, <1>21, <1>22, ShapeDistinct
<1>24. ASSUME NEW q \in 1 .. Len(v[p].sub)
       PROVE  v[v[p].sub[q]].parent = p /\ v[v[p].sub[q]].idx = q - 2
  <2>1. Len(v[p].sub) \in Nat /\ i = j - 1
    BY <1>4, <1>16, <1>3 DEF i
  <2>2. CASE q <= j
    <3>1. v[p].sub[q] = h[p].sub[q] /\ q \in 1 .. Len(h[p].sub) /\ q # j + 1
      BY <1>2, <1>4, <1>16, <1>24, <2>1, <2>2
    <3>2. /\ h[p].sub[q] \in DOMAIN H /\ H[h[p].sub[q]].parent = p
          /\ H[h[p].sub[q]].idx = q - 2
      BY <1>10, <3>1
    <3>3. \A r \in i + 2 .. Len(v[p].sub) : v[p].sub[r] # v[p].sub[q]
      <4>1. SUFFICES ASSUME NEW r \in i + 2 .. Len(v[p].sub) PROVE v[p].sub[r] # v[p].sub[q]
        OBVIOUS
      <4>2. r \in 1 .. Len(v[p].sub) /\ r # q
        BY <1>2, <2>1, <2>2
      <4> QED
        BY <1>23, <4>2 DEF Distinct
    <3>4. v[v[p].sub[q]].idx = q - 2
      BY <1>14, <3>1, <3>2, <3>3
    <3> QED
      BY <1>14, <3>1, <3>2, <3>4
  <2>3. CASE q > j
    <3>1. q \in i + 2 .. Len(v[p].sub) /\ q \in j + 1 .. Len(h[p].sub) - 1
          /\ q + 1 \in 1 .. Len(h[p].sub) /\ q + 1 # j + 1
      BY <1>2, <1>4, <1>16, <1>24, <2>1, <2>3
    <3>2. v[p].sub[q] = h[p].sub[q + 1]
      BY <1>16, <3>1
    <3>3. v[p].sub[q] \in DOMAIN H /\ H[v[p].sub[q]].parent = p
      BY <1>10, <3>1, <3>2
    <3>4. v[v[p].sub[q]].idx = q - 2
      BY <1>14, <1>23, <3>1, <3>3
    <3> QED
      BY <1>14, <3>3, <3>4
  <2> QED
    BY <1>2, <2>1, <2>2, <2>3
\* The children of p in v were children of p in h.
<1>25. ASSUME NEW r \in i + 2 .. Len(v[p].sub)
       PROVE  KidOf(h, p, v[p].sub[r]) /\ Slot(v, p, r, v[p].sub[r])
  <2>1. Len(v[p].sub) \in Nat /\ i = j - 1
    BY <1>4, <1>16, <1>3 DEF i
  <2>2. r \in j + 1 .. Len(h[p].sub) - 1 /\ r + 1 \in 1 .. Len(h[p].sub) /\ r \in 1 .. Len(v[p].sub)
    BY <1>2, <1>4, <1>16, <1>25, <2>1
  <2>3. v[p].sub[r] = h[p].sub[r + 1]
    BY <1>16, <2>2
  <2>4. Slot(v, p, r, v[p].sub[r])
    BY <1>2, <1>7, <1>14, <1>21, <2>2 DEF Slot
  <2> QED
    BY <1>8, <2>2, <2>3, <2>4
<1>26. ASSUME NEW q \in DOMAIN v PROVE KidsOf(v, q)
  <2>1. CASE q = p
    BY <1>24, <2>1 DEF KidsOf
  <2>2. CASE q = a
    <3>1. SUFFICES ASSUME ~ v[a].leaf, NEW r \in 1 .. Len(v[a].sub)
                   PROVE  v[v[a].sub[r]].parent = a /\ v[v[a].sub[r]].idx = r - 2
      BY <2>2 DEF KidsOf
    <3> DEFINE m == v[a].sub[r]
    <3>2. m = H[a].sub[r] /\ ~ H[a].leaf /\ r \in 1 .. Len(H[a].sub)
      BY <1>17, <3>1 DEF Same
    <3>3. Slot(v, a, r, m)
      BY <1>17, <3>1 DEF Slot
    <3> HIDE DEF m
    <3>4. m \in DOMAIN v /\ g2[a].dep = g2[m].dep + 1 /\ g2[m].dep \in Nat
      BY <1>22, <3>3, SlotIs
    <3>5. H[m].parent = a /\ H[m].idx = r - 2
      BY <1>1, <1>17, <3>2 DEF KidsMoved, KidsOf
    <3>6. \A t \in i + 2 .. Len(v[p].sub) : v[p].sub[t] # m
      <4>1. SUFFICES ASSUME NEW t \in i + 2 .. Len(v[p].sub), v[p].sub[t] = m PROVE FALSE
        OBVIOUS
      <4>2. Slot(v, p, t, m)
        BY <1>25, <4>1
      <4>3. g2[p].dep = g2[m].dep + 1
        BY <1>22, <4>2, SlotIs
      <4>4. g2[p].dep = g[p].dep
        BY <1>1, <1>2, <1>3
      <4> QED
        BY <1>1, <1>2, <3>4, <4>3, <4>4
    <3>7. v[m].parent = a /\ v[m].idx = r - 2
      BY <1>14, <3>4, <3>5, <3>6
    <3> QED
      BY <3>7 DEF m
  <2>3. CASE q # p /\ q # a
    <3>1. q \in DOMAIN h /\ q # b /\ v[q].leaf = h[q].leaf /\ v[q].sub = h[q].sub
      BY <1>1, <1>14, <1>20, <2>3 DEF Same
    <3>2. SUFFICES ASSUME ~ h[q].leaf, NEW r \in 1 .. Len(h[q].sub)
                   PROVE  v[h[q].sub[r]].parent = q /\ v[h[q].sub[r]].idx = r - 2
      BY <3>1 DEF KidsOf
    <3> DEFINE m == h[q].sub[r]
    <3>3. m \in DOMAIN h /\ h[m].parent = q /\ h[m].idx = r - 2
      BY <3>1, <3>2, OtherKids
    <3>4. \A c : c # q => ~ KidOf(h, c, m)
      BY <3>1, <3>2, OtherKids
    <3> HIDE DEF m
    <3>5. ~ KidOf(h, a, m) /\ ~ KidOf(h, b, m) /\ ~ KidOf(h, p, m)
      BY <2>3, <3>1, <3>4
    <3>6. m # b
      BY <1>1, <3>5 DEF KidOf
    <3>7. m \in DOMAIN H /\ SameLink(h, H, m)
      BY <1>1, <3>3, <3>5, <3>6 DEF KidsMoved
    <3>8. \A t \in i + 2 .. Len(v[p].sub) : v[p].sub[t] # m
      BY <1>25, <3>5
    <3>9. v[m].parent = q /\ v[m].idx = r - 2
      BY <1>14, <3>3, <3>7, <3>8 DEF SameLink
    <3> QED
      BY <3>9 DEF m
  <2> QED
    BY <2>1, <2>2, <2>3
<1>27. rt # Null => v[rt].parent = Null
  <2>1. SUFFICES ASSUME rt # Null PROVE v[rt].parent = Null
    OBVIOUS
  <2>2. rt \in DOMAIN h /\ h[rt].parent = Null
    BY <2>1 DEF Shape, Links
  <2>3. ~ KidOf(h, a, rt) /\ ~ KidOf(h, b, rt) /\ rt # b
    BY <1>1, SlotUnique DEF KidOf
  <2>4. rt \in DOMAIN H /\ SameLink(h, H, rt)
    BY <1>1, <2>2, <2>3 DEF KidsMoved
  <2> QED
    BY <1>14, <2>2, <2>4 DEF SameLink
<1>28. Links(v, rt)
  BY <1>26, <1>27, LinksAre
<1> QED
  BY <1>12, <1>14, <1>22, <1>28 DEF v, i

\* A key inside the interval of the j-th child is looked for at j.
LEMMA PlaceIs ==
  ASSUME NEW h, NEW g, NEW rt, NEW lv, HeapOK(h), Shape(h, g, rt, lv),
         NEW p, NEW j, NEW x, Slot(h, p, j, x), NEW s \in Int, g[x].lo < s, s < g[x].hi
  PROVE  KeyBinarySearch(h[p].key, s) = - j
<1> DEFINE key == h[p].key
           r == KeyBinarySearch(key, s)
<1>1. /\ p \in DOMAIN h /\ ~ h[p].leaf /\ j \in 1 .. Len(h[p].sub)
      /\ g[x].lo = Bound(h, g, p, j - 1) /\ g[x].hi = Bound(h, g, p, j)
      /\ Len(h[p].sub) = Len(key) + 1
  BY SlotIs
<1>2. NodeOK(h, g, rt, lv, p)
  BY <1>1 DEF Shape
<1>3. InnerOK(h, g, p) /\ Interval(g, p)
  BY <1>1, <1>2 DEF NodeOK, OwnOK
<1>4. /\ Len(h[p].sub) \in Nat /\ Len(key) \in Nat
      /\ \A i \in 1 .. Len(key) : key[i] \in Int
  BY <1>1, KeysAreInts
<1>5. \A i \in 1 .. Len(key) : Bound(h, g, p, i) = key[i]
  BY <1>1, <1>4 DEF Bound
<1>6. \A i, k \in 0 .. Len(h[p].sub) : i < k => Bound(h, g, p, i) < Bound(h, g, p, k)
  BY <1>3 DEF InnerOK
<1>7. Ascending(key)
  <2>1. SUFFICES ASSUME NEW i \in 1 .. Len(key), NEW k \in 1 .. Len(key), i < k
                 PROVE  key[i] < key[k]
    BY DEF Ascending
  <2>2. i \in 0 .. Len(h[p].sub) /\ k \in 0 .. Len(h[p].sub)
    BY <1>1, <1>4
  <2> QED
    BY <1>5, <1>6, <2>1, <2>2
<1>8. key \in Seq(Int)
  BY <1>1, KeySeq
<1>9. /\ r \in Int
      /\ r >= 0 => r + 1 \in 1 .. Len(key) /\ key[r + 1] = s
      /\ r < 0 => /\ - r - 1 \in 0 .. Len(key)
                  /\ \A i \in 1 .. - r - 1 : key[i] < s
                  /\ \A i \in - r .. Len(key) : key[i] > s
  BY <1>7, <1>8, SearchSays
<1> HIDE DEF r, key
<1>10. \A i \in 1 .. Len(key) : i <= j - 1 => key[i] < s
  <2>1. SUFFICES ASSUME NEW i \in 1 .. Len(key), i <= j - 1 PROVE key[i] < s
    OBVIOUS
  <2>2. i \in 0 .. Len(h[p].sub) /\ j - 1 \in 0 .. Len(h[p].sub)
    BY <1>1, <1>4, <2>1
  <2>3. Bound(h, g, p, i) \in Int /\ Bound(h, g, p, j - 1) \in Int
    BY <1>1, <1>3, <2>2, BoundIsInt
  <2>4. Bound(h, g, p, i) <= Bound(h, g, p, j - 1)
    BY <1>6, <2>1, <2>2, <2>3
  <2> QED
    BY <1>1, <1>5, <2>3, <2>4
<1>11. \A i \in 1 .. Len(key) : i >= j => key[i] > s
  <2>1. SUFFICES ASSUME NEW i \in 1 .. Len(key), i >= j PROVE key[i] > s
    OBVIOUS
  <2>2. i \in 0 .. Len(h[p].sub) /\ j \in 0 .. Len(h[p].sub)
    BY <1>1, <1>4, <2>1
  <2>3. Bound(h, g, p, i) \in Int /\ Bound(h, g, p, j) \in Int
    BY <1>1, <1>3, <2>2, BoundIsInt
  <2>4. Bound(h, g, p, j) <= Bound(h, g, p, i)
    BY <1>6, <2>1, <2>2, <2>3
  <2> QED
    BY <1>1, <1>5, <2>3, <2>4
<1>12. ~ (r >= 0)
  <2>1. SUFFICES ASSUME r >= 0 PROVE FALSE
    OBVIOUS
  <2>2. r + 1 \in 1 .. Len(key) /\ key[r + 1] = s
    BY <1>9, <2>1
  <2>3. key[r + 1] < s \/ key[r + 1] > s
    BY <1>1, <1>9, <1>10, <1>11, <2>2
  <2> QED
    BY <2>2, <2>3
<1>13. /\ - r - 1 \in 0 .. Len(key)
       /\ \A i \in 1 .. - r - 1 : key[i] < s
       /\ \A i \in - r .. Len(key) : key[i] > s
  BY <1>9, <1>12
<1>14. ~ (- r < j)
  <2>1. SUFFICES ASSUME - r < j PROVE FALSE
    OBVIOUS
  <2>2. j - 1 \in - r .. Len(key) /\ j - 1 \in 1 .. Len(key) /\ j - 1 <= j - 1
    BY <1>1, <1>4, <1>9, <1>13, <2>1
  <2>3. key[j - 1] > s /\ key[j - 1] < s /\ key[j - 1] \in Int
    BY <1>4, <1>10, <1>13, <2>2 DEF key
  <2> QED
    BY <2>3
<1>15. ~ (- r > j)
  <2>1. SUFFICES ASSUME - r > j PROVE FALSE
    OBVIOUS
  <2>2. j \in 1 .. - r - 1 /\ j \in 1 .. Len(key) /\ j >= j
    BY <1>1, <1>4, <1>9, <1>13, <2>1
  <2>3. key[j] > s /\ key[j] < s /\ key[j] \in Int
    BY <1>4, <1>11, <1>13, <2>2 DEF key
  <2> QED
    BY <2>3
<1>16. r = - j
  BY <1>1, <1>9, <1>14, <1>15
<1> QED
  BY <1>16 DEF r, key

\* What x held has been shared out between a and b, one of them the new node z,
\* but s and the new child have not been told to the parent yet.
Split(h, H, g, g2, x, z, a, b, s) ==
  /\ x \in DOMAIN h /\ z \notin DOMAIN h /\ DOMAIN H = DOMAIN h \cup {z}
  /\ (a = x /\ b = z) \/ (a = z /\ b = x)
  /\ s \in Keys /\ g[x].lo < s /\ s < g[x].hi
  /\ g2[a].lo = g[x].lo /\ g2[a].hi = s /\ g2[a].dep = g[x].dep
  /\ g2[b].lo = s /\ g2[b].hi = g[x].hi /\ g2[b].dep = g[x].dep
  /\ \A m \in DOMAIN h \ {x} : g2[m] = g[m]
  /\ H[a].leaf = h[x].leaf /\ H[b].leaf = h[x].leaf
  /\ OwnOK(H, g2, a) /\ OwnOK(H, g2, b)
  /\ \A m \in DOMAIN h \ {x} : Same(h, H, m)
  /\ H[z].parent = Null
  /\ KidsMoved(h, H, a, b)

\* Tree H with s and the children a and b for the j-th child of p.
InnerSettled(H, g, rt, lv, p, j, a, b, s) ==
  /\ (IF H[b].parent = Null THEN H[a].parent ELSE H[b].parent) = p
  /\ KeyBinarySearch(H[p].key, s) = - j /\ j - 1 \in 0 .. Len(H[p].key)
  /\ p \in DOMAIN H /\ ~ H[p].leaf /\ p # a /\ p # b /\ p # Null
  /\ Len(H[p].sub) = Len(H[p].key) + 1
  /\ HeapOK(InsertedAt(H, p, j - 1, s, a, b)) /\ DOMAIN InsertedAt(H, p, j - 1, s, a, b) = DOMAIN H
  /\ Shape(InsertedAt(H, p, j - 1, s, a, b), g, rt, lv)
  /\ Links(InsertedAt(H, p, j - 1, s, a, b), rt)

\* Splitting a node keeps the tree, once the pending insertion into the
\* parent is done.
LEMMA SplitSettles ==
  ASSUME NEW h, NEW H, NEW g, NEW g2, NEW rt, NEW lv,
         HeapOK(h), Shape(h, g, rt, lv), Links(h, rt), HeapOK(H),
         NEW p, NEW j, NEW x, NEW z, NEW a, NEW b, NEW s, Slot(h, p, j, x),
         Split(h, H, g, g2, x, z, a, b, s)
  PROVE  InnerSettled(H, g2, rt, lv, p, j, a, b, s)
<1> DEFINE i == j - 1
           v == InsertedAt(H, p, i, s, a, b)
<1>1. /\ x \in DOMAIN h /\ z \notin DOMAIN h /\ DOMAIN H = DOMAIN h \cup {z}
      /\ (a = x /\ b = z) \/ (a = z /\ b = x)
      /\ s \in Keys /\ g[x].lo < s /\ s < g[x].hi
      /\ g2[a].lo = g[x].lo /\ g2[a].hi = s /\ g2[a].dep = g[x].dep
      /\ g2[b].lo = s /\ g2[b].hi = g[x].hi /\ g2[b].dep = g[x].dep
      /\ \A m \in DOMAIN h \ {x} : g2[m] = g[m]
      /\ H[a].leaf = h[x].leaf /\ H[b].leaf = h[x].leaf
      /\ OwnOK(H, g2, a) /\ OwnOK(H, g2, b)
      /\ \A m \in DOMAIN h \ {x} : Same(h, H, m)
      /\ H[z].parent = Null
      /\ KidsMoved(h, H, a, b)
  BY DEF Split
<1>2. /\ p \in DOMAIN h /\ ~ h[p].leaf /\ j \in 1 .. Len(h[p].sub) /\ h[p].sub[j] = x
      /\ x \in DOMAIN h /\ g[p].dep = g[x].dep + 1 /\ p # x
      /\ Len(h[p].sub) = Len(h[p].key) + 1 /\ g[x].dep \in Nat /\ g[p].dep \in Nat
  BY SlotIs
<1>3. h[x].parent = p /\ x # rt /\ \A q, k : Slot(h, q, k, x) => q = p /\ k = j
  BY SlotUnique
<1>4. Len(h[p].sub) \in Nat /\ Len(h[p].key) \in Nat /\ p \in Nat \ {0}
  BY <1>2, KeysAreInts DEF HeapOK
<1>5. Distinct(h[p].sub)
  BY <1>2, ShapeDistinct
<1>6. a # b /\ p # a /\ p # b /\ p # z /\ p # Null /\ s \in Int
  BY <1>1, <1>2, <1>4, TreeKeysAssumption DEF Null
<1>7. p \in DOMAIN H /\ H[p].leaf = h[p].leaf /\ H[p].key = h[p].key /\ H[p].sub = h[p].sub
  BY <1>1, <1>2 DEF Same
<1>8. ~ KidOf(h, z, x) /\ ~ KidOf(h, x, x)
  BY <1>1, <1>2, <1>3 DEF KidOf
<1>9. SameLink(h, H, x)
  <2>1. ~ KidOf(h, a, x) /\ ~ KidOf(h, b, x) /\ x \in DOMAIN h \cap DOMAIN H
    BY <1>1, <1>8
  <2> QED
    BY <1>1, <2>1 DEF KidsMoved
<1>10. (IF H[b].parent = Null THEN H[a].parent ELSE H[b].parent) = p
  BY <1>1, <1>3, <1>6, <1>9 DEF SameLink
<1>11. KeyBinarySearch(H[p].key, s) = - j
  BY <1>1, <1>6, <1>7, PlaceIs
<1>12. /\ i \in 0 .. Len(H[p].key) /\ Len(H[p].sub) = Len(H[p].key) + 1
       /\ a \in DOMAIN H /\ b \in DOMAIN H
  BY <1>1, <1>2, <1>4, <1>7
<1> HIDE DEF i
<1>14. /\ HeapOK(v) /\ DOMAIN v = DOMAIN H
       /\ \A m \in DOMAIN H \ {p} : Same(H, v, m)
       /\ v[p].leaf = H[p].leaf
       /\ v[p].key = InsertAt(H[p].key, i + 1, s)
       /\ v[p].sub = TwoFor(H[p].sub, i, a, b)
       /\ v[a].parent = p /\ v[b].parent = p
       /\ \A m \in DOMAIN H \ {a, b} : v[m].parent = H[m].parent
       /\ Distinct(v[p].sub) => \A q \in i + 1 .. Len(v[p].sub) :
            v[p].sub[q] \in DOMAIN H => v[v[p].sub[q]].idx = q - 2
       /\ \A m \in DOMAIN H :
            (\A q \in i + 1 .. Len(v[p].sub) : v[p].sub[q] # m) => v[m].idx = H[m].idx
  <2>1. /\ HeapOK(H) /\ p \in DOMAIN H /\ a \in DOMAIN H /\ b \in DOMAIN H
        /\ a # b /\ p # a /\ p # b /\ s \in Keys /\ i \in 0 .. Len(H[p].key)
        /\ Len(H[p].sub) = Len(H[p].key) + 1
    BY <1>1, <1>6, <1>7, <1>12
  <2> QED
    BY <2>1, InsertedIs, SMTT(40)
<1> HIDE DEF v
<1>15. /\ Len(v[p].key) = Len(h[p].key) + 1 /\ v[p].key[j] = s
       /\ \A q \in 1 .. j - 1 : v[p].key[q] = h[p].key[q]
       /\ \A q \in j .. Len(h[p].key) : v[p].key[q + 1] = h[p].key[q]
  <2>1. h[p].key \in Seq(Keys) /\ j \in 1 .. Len(h[p].key) + 1
    BY <1>2, <1>4 DEF HeapOK, NodeRec
  <2>2. v[p].key = InsertAt(h[p].key, j, s)
    BY <1>2, <1>4, <1>7, <1>14 DEF i
  <2>3. /\ Len(v[p].key) = Len(h[p].key) + 1
        /\ \A q \in 1 .. Len(h[p].key) + 1 :
              v[p].key[q] = IF q < j THEN h[p].key[q] ELSE IF q = j THEN s ELSE h[p].key[q - 1]
    <3> DEFINE k == h[p].key
    <3>1. k \in Seq(Keys) /\ j \in 1 .. Len(k) + 1 /\ s \in Keys /\ v[p].key = InsertAt(k, j, s)
      BY <1>1, <2>1, <2>2
    <3> HIDE DEF k
    <3>2. /\ Len(InsertAt(k, j, s)) = Len(k) + 1
          /\ \A q \in 1 .. Len(k) + 1 :
                InsertAt(k, j, s)[q] = IF q < j THEN k[q] ELSE IF q = j THEN s ELSE k[q - 1]
      <4>1. Added(InsertAt(k, j, s), Keys, k, j, s)
        BY ONLY <3>1, InsertAtIs
      <4> QED
        BY ONLY <4>1 DEF Added
    <3>3. /\ Len(v[p].key) = Len(k) + 1
          /\ \A q \in 1 .. Len(k) + 1 :
                v[p].key[q] = IF q < j THEN k[q] ELSE IF q = j THEN s ELSE k[q - 1]
      BY <3>1, <3>2
    <3> QED
      BY <3>3 DEF k
  <2>4. \A q \in j .. Len(h[p].key) : v[p].key[q + 1] = h[p].key[q]
    <3>1. SUFFICES ASSUME NEW q \in j .. Len(h[p].key) PROVE v[p].key[q + 1] = h[p].key[q]
      OBVIOUS
    <3>2. q + 1 \in 1 .. Len(h[p].key) + 1 /\ ~ (q + 1 < j) /\ q + 1 # j /\ (q + 1) - 1 = q
      BY <1>2, <1>4
    <3> QED
      BY <2>3, <3>2
  <2>5. v[p].key[j] = s
    <3>1. ~ (j < j)
      BY <1>2, <1>4
    <3> QED
      BY <2>1, <2>3, <3>1
  <2>6. \A q \in 1 .. j - 1 : v[p].key[q] = h[p].key[q]
    <3>1. SUFFICES ASSUME NEW q \in 1 .. j - 1 PROVE v[p].key[q] = h[p].key[q]
      OBVIOUS
    <3>2. q \in 1 .. Len(h[p].key) + 1 /\ q < j
      BY <1>2, <1>4
    <3> QED
      BY <2>3, <3>2
  <2> QED
    BY <2>3, <2>4, <2>5, <2>6
<1>16. /\ Len(v[p].sub) = Len(h[p].sub) + 1
       /\ \A q \in 1 .. j - 1 : v[p].sub[q] = h[p].sub[q]
       /\ v[p].sub[j] = a /\ v[p].sub[j + 1] = b
       /\ \A q \in j + 1 .. Len(h[p].sub) : v[p].sub[q + 1] = h[p].sub[q]
  <2>1. /\ h[p].sub \in Seq(Item) /\ i \in 0 .. Len(h[p].sub) - 1
        /\ i + 1 = j /\ i + 2 = j + 1 /\ i = j - 1
    BY <1>2, <1>4 DEF HeapOK, NodeRec, i
  <2>2. a \in Item /\ b \in Item
    BY <1>12, NodeFields
  <2>3. v[p].sub = TwoFor(h[p].sub, i, a, b)
    BY <1>7, <1>14
  <2>4. /\ Len(TwoFor(h[p].sub, i, a, b)) = Len(h[p].sub) + 1
        /\ \A q \in 1 .. i : TwoFor(h[p].sub, i, a, b)[q] = h[p].sub[q]
        /\ TwoFor(h[p].sub, i, a, b)[i + 1] = a
        /\ TwoFor(h[p].sub, i, a, b)[i + 2] = b
        /\ \A q \in i + 2 .. Len(h[p].sub) : TwoFor(h[p].sub, i, a, b)[q + 1] = h[p].sub[q]
    <3> DEFINE k == h[p].sub
    <3>1. k \in Seq(Item) /\ i \in 0 .. Len(k) - 1 /\ a \in Item /\ b \in Item
      BY <2>1, <2>2
    <3> HIDE DEF k
    <3>2. /\ Len(TwoFor(k, i, a, b)) = Len(k) + 1
          /\ \A q \in 1 .. i : TwoFor(k, i, a, b)[q] = k[q]
          /\ TwoFor(k, i, a, b)[i + 1] = a
          /\ TwoFor(k, i, a, b)[i + 2] = b
          /\ \A q \in i + 2 .. Len(k) : TwoFor(k, i, a, b)[q + 1] = k[q]
      <4>1. Doubled(TwoFor(k, i, a, b), Item, k, i, a, b)
        BY ONLY <3>1, ReplacedByTwo
      <4> QED
        BY ONLY <4>1 DEF Doubled
    <3> QED
      BY <3>2 DEF k
  <2> DEFINE t == TwoFor(h[p].sub, i, a, b)
  <2>5. /\ Len(t) = Len(h[p].sub) + 1 /\ \A q \in 1 .. j - 1 : t[q] = h[p].sub[q]
        /\ t[j] = a /\ t[j + 1] = b
    BY <2>1, <2>4
  <2>6. \A q \in j + 1 .. Len(h[p].sub) : t[q + 1] = h[p].sub[q]
    BY <2>1, <2>4
  <2>7. v[p].sub = t
    BY <2>3
  <2> HIDE DEF t
  <2> QED
    BY <2>5, <2>6, <2>7
<1>17. a \in DOMAIN v /\ b \in DOMAIN v /\ Same(H, v, a) /\ Same(H, v, b)
  BY <1>6, <1>12, <1>14
<1>18. OwnOK(v, g2, a) /\ OwnOK(v, g2, b)
  <2>1. \A c \in {a, b} : ~ H[c].leaf => \A q \in 1 .. Len(H[c].sub) : H[c].sub[q] \in DOMAIN v
    BY <1>1, <1>14 DEF OwnOK, InnerOK
  <2>2. OwnOK(v, g2, a)
    BY <1>1, <1>17, <2>1, OwnKept
  <2>3. OwnOK(v, g2, b)
    BY <1>1, <1>17, <2>1, OwnKept
  <2> QED
    BY <2>2, <2>3
<1>19. ASSUME NEW m \in DOMAIN h, NEW q, Slot(h, x, q, m)
       PROVE  HasParent(v, m)
  <2>1. KidOf(H, a, m) \/ KidOf(H, b, m)
    BY <1>1, <1>19 DEF KidsMoved, KidOf
  <2>2. PICK c \in {a, b} : KidOf(H, c, m)
    BY <2>1
  <2>3. PICK r : Slot(H, c, r, m)
    BY <2>2 DEF KidOf
  <2>4. Slot(v, c, r, m)
    BY <1>14, <1>17, <2>2, <2>3 DEF Slot, Same
  <2> QED
    BY <2>4 DEF HasParent, Slot
<1>20. \A m \in DOMAIN h \ {x, p} : Same(h, v, m)
  BY <1>1, <1>14 DEF Same
<1>21. v[a].leaf = h[x].leaf /\ v[b].leaf = h[x].leaf /\ v[p].leaf = h[p].leaf
  BY <1>1, <1>7, <1>14, <1>17 DEF Same
<1>22. Shape(v, g2, rt, lv)
  <2>1. DOMAIN v = DOMAIN h \cup {z}
    BY <1>1, <1>14
  <2>2. \A m \in DOMAIN h : \A q : Slot(h, x, q, m) => HasParent(v, m)
    BY <1>19
  <2>3. InTwo(h, v, g, g2, p, j, x, z, a, b, s)
    BY <1>1, <1>6, <1>15, <1>16, <1>18, <1>20, <1>21, <2>1, <2>2 DEF InTwo
  <2> QED
    BY <2>3, SplitShape
<1>23. Distinct(v[p].sub)
  BY <1>2, <1>7, <1>14, <1>21, <1>22, ShapeDistinct
<1>8a. ASSUME NEW q \in 1 .. Len(h[p].sub), q # j
       PROVE  /\ h[p].sub[q] \in DOMAIN h /\ h[p].sub[q] # x
              /\ H[h[p].sub[q]].parent = p /\ H[h[p].sub[q]].idx = q - 2
  <2>1. h[p].sub[q] \in DOMAIN h /\ h[h[p].sub[q]].parent = p /\ h[h[p].sub[q]].idx = q - 2
    BY <1>2, OtherKids
  <2>2. \A c : c # p => ~ KidOf(h, c, h[p].sub[q])
    BY <1>2, OtherKids
  <2>3. h[p].sub[q] # x
    BY <1>2, <1>5, <1>8a DEF Distinct
  <2>4. SameLink(h, H, h[p].sub[q])
    BY <1>1, <1>6, <2>1, <2>2 DEF KidsMoved
  <2> QED
    BY <2>1, <2>3, <2>4 DEF SameLink
<1>24. ASSUME NEW q \in 1 .. Len(v[p].sub)
       PROVE  v[v[p].sub[q]].parent = p /\ v[v[p].sub[q]].idx = q - 2
  <2>1. Len(v[p].sub) \in Nat /\ i = j - 1 /\ j \in Nat
    BY <1>2, <1>4, <1>16 DEF i
  <2>2. CASE q < j
    <3>1. v[p].sub[q] = h[p].sub[q] /\ q \in 1 .. Len(h[p].sub) /\ q # j
      BY <1>2, <1>4, <1>16, <1>24, <2>1, <2>2
    <3>2. /\ h[p].sub[q] \in DOMAIN h /\ h[p].sub[q] # x
          /\ H[h[p].sub[q]].parent = p /\ H[h[p].sub[q]].idx = q - 2
      BY <1>8a, <3>1
    <3>3. \A r \in i + 1 .. Len(v[p].sub) : v[p].sub[r] # v[p].sub[q]
      <4>1. SUFFICES ASSUME NEW r \in i + 1 .. Len(v[p].sub) PROVE v[p].sub[r] # v[p].sub[q]
        OBVIOUS
      <4>2. r \in 1 .. Len(v[p].sub) /\ r # q
        BY <1>2, <2>1, <2>2
      <4> QED
        BY <1>23, <4>2 DEF Distinct
    <3>4. v[v[p].sub[q]].idx = q - 2
      BY <1>1, <1>14, <3>1, <3>2, <3>3, SMTT(60)
    <3>5. v[v[p].sub[q]].parent = p
      BY <1>1, <1>14, <3>1, <3>2
    <3> QED
      BY <3>4, <3>5
  <2>3. CASE q >= j
    <3>1. q \in i + 1 .. Len(v[p].sub)
      BY <1>24, <2>1, <2>3
    <3>2. v[p].sub[q] \in DOMAIN H /\ v[v[p].sub[q]].parent = p
      <4>1. CASE q = j
        BY <1>12, <1>14, <1>16, <4>1
      <4>2. CASE q = j + 1
        BY <1>12, <1>14, <1>16, <4>2
      <4>3. CASE q > j + 1
        <5>1. q - 1 \in j + 1 .. Len(h[p].sub) /\ q - 1 \in 1 .. Len(h[p].sub) /\ q - 1 # j
              /\ (q - 1) + 1 = q
          <6>1. Len(v[p].sub) = Len(h[p].sub) + 1 /\ q \in 1 .. Len(v[p].sub)
            BY <1>16, <1>24
          <6> QED
            BY <1>4, <2>1, <4>3, <6>1
        <5>2. v[p].sub[(q - 1) + 1] = h[p].sub[q - 1]
          BY <1>16, <5>1
        <5>3. /\ h[p].sub[q - 1] \in DOMAIN h /\ h[p].sub[q - 1] # x
              /\ H[h[p].sub[q - 1]].parent = p
          BY <1>8a, <5>1
        <5> QED
          BY <1>1, <1>14, <5>1, <5>2, <5>3
      <4> QED
        BY <1>24, <2>1, <2>3, <4>1, <4>2, <4>3
    <3>3. v[v[p].sub[q]].idx = q - 2
      BY <1>14, <1>23, <3>1, <3>2
    <3> QED
      BY <3>2, <3>3
  <2> QED
    BY <1>24, <2>1, <2>2, <2>3
\* The children of p in v from place j on are a, b or were children of p in h.
<1>25. ASSUME NEW r \in i + 1 .. Len(v[p].sub)
       PROVE  Slot(v, p, r, v[p].sub[r])
  <2>1. Len(v[p].sub) \in Nat /\ i = j - 1 /\ j \in 1 .. Len(h[p].sub)
    BY <1>2, <1>4, <1>16 DEF i
  <2>2. r \in 1 .. Len(v[p].sub)
    BY <1>25, <2>1
  <2> QED
    BY <1>2, <1>7, <1>14, <1>21, <2>2 DEF Slot
<1>26. ASSUME NEW q \in DOMAIN v PROVE KidsOf(v, q)
  <2>1. CASE q = p
    BY <1>24, <2>1 DEF KidsOf
  <2>2. CASE q # p
    <3>1. SUFFICES ASSUME ~ v[q].leaf, NEW r \in 1 .. Len(v[q].sub)
                   PROVE  v[v[q].sub[r]].parent = q /\ v[v[q].sub[r]].idx = r - 2
      BY DEF KidsOf
    <3> DEFINE m == v[q].sub[r]
    <3>2. m = H[q].sub[r] /\ ~ H[q].leaf /\ r \in 1 .. Len(H[q].sub) /\ q \in DOMAIN H
      BY <1>14, <2>2, <3>1 DEF Same
    <3>3. Slot(v, q, r, m)
      BY <3>1 DEF Slot
    <3> HIDE DEF m
    <3>4. m \in DOMAIN v /\ m \in DOMAIN H /\ g2[q].dep = g2[m].dep + 1 /\ g2[m].dep \in Nat
      BY <1>14, <1>22, <3>3, SlotIs
    <3>5. q \in {a, b} => m \notin {a, b}
      BY <1>1, <3>4
    <3>6. H[m].parent = q /\ H[m].idx = r - 2 /\ m \notin {a, b}
      <4>1. CASE q \in {a, b}
        BY <1>1, <3>2, <3>5, <4>1 DEF KidsMoved, KidsOf
      <4>2. CASE q \notin {a, b}
        <5>1. q \in DOMAIN h /\ ~ h[q].leaf /\ r \in 1 .. Len(h[q].sub) /\ m = h[q].sub[r]
          BY <1>1, <3>2, <4>2 DEF Same
        <5>2. m \in DOMAIN h /\ h[m].parent = q /\ h[m].idx = r - 2
          BY <5>1, OtherKids
        <5>3. \A c : c # q => ~ KidOf(h, c, m)
          BY <5>1, OtherKids
        <5>4. SameLink(h, H, m)
          BY <1>1, <4>2, <5>2, <5>3 DEF KidsMoved
        <5>5. m # x
          BY <1>3, <2>2, <5>1 DEF Slot
        <5> QED
          BY <1>1, <5>2, <5>4, <5>5 DEF SameLink
      <4> QED
        BY <4>1, <4>2
    <3>7. \A t \in i + 1 .. Len(v[p].sub) : v[p].sub[t] # m
      <4>1. SUFFICES ASSUME NEW t \in i + 1 .. Len(v[p].sub), v[p].sub[t] = m PROVE FALSE
        OBVIOUS
      <4>2. Slot(v, p, t, m)
        BY <1>25, <4>1
      <4>3. HeapOK(v) /\ Shape(v, g2, rt, lv)
        BY <1>14, <1>22
      <4>4. t \in 1 .. Len(v[p].sub) /\ t \in i + 1 .. Len(v[p].sub)
        BY <4>1, <4>2 DEF Slot
      <4>5. CASE m \in {a, b}
        BY <3>6, <4>5
      <4>6. CASE m \notin {a, b}
        <5>1. \E k \in 1 .. Len(h[p].sub) : k # j /\ m = h[p].sub[k]
          <6>1. t # j /\ t # j + 1 /\ i + 1 = j /\ j \in Nat
            BY <1>2, <1>4, <1>16, <4>1, <4>6, SMTT(60) DEF i
          <6>2. /\ t - 1 \in j + 1 .. Len(h[p].sub) /\ t - 1 \in 1 .. Len(h[p].sub) /\ t - 1 # j
                /\ (t - 1) + 1 = t
            BY <1>4, <1>16, <4>1, <4>4, <6>1
          <6>3. v[p].sub[(t - 1) + 1] = h[p].sub[t - 1]
            BY <1>16, <6>2
          <6> QED
            BY <4>1, <6>2, <6>3
        <5>2. H[m].parent = p
          BY <1>8a, <5>1
        <5> QED
          BY <2>2, <3>6, <5>2
      <4> QED
        BY <4>5, <4>6
    <3>8. v[m].parent = q /\ v[m].idx = r - 2
      BY <1>14, <3>4, <3>6, <3>7
    <3> QED
      BY <3>8 DEF m
  <2> QED
    BY <2>1, <2>2
<1>27. rt # Null => v[rt].parent = Null
  <2>1. SUFFICES ASSUME rt # Null PROVE v[rt].parent = Null
    OBVIOUS
  <2>2. rt \in DOMAIN h /\ h[rt].parent = Null
    BY <2>1 DEF Shape, Links
  <2>3. ~ KidOf(h, a, rt) /\ ~ KidOf(h, b, rt)
    BY SlotUnique DEF KidOf
  <2>4. rt \in DOMAIN H /\ SameLink(h, H, rt) /\ rt \notin {a, b}
    BY <1>1, <1>3, <2>2, <2>3 DEF KidsMoved
  <2> QED
    BY <1>14, <2>2, <2>4 DEF SameLink
<1>28. Links(v, rt)
  BY <1>26, <1>27, LinksAre
<1> QED
  BY <1>2, <1>6, <1>7, <1>10, <1>11, <1>12, <1>14, <1>22, <1>28 DEF v, i, InnerSettled

\* Tree H with the pending call w, which makes a root above a and b.
RootSettled(H, w, g, lv, a, b) ==
  /\ H[a].parent = Null /\ H[b].parent = Null
  /\ HeapOK(RootedOf(H, w)) /\ DOMAIN RootedOf(H, w) = DOMAIN H \cup {FreeOf(H)}
  /\ Shape(RootedOf(H, w), g, FreeOf(H), lv + 1) /\ Links(RootedOf(H, w), FreeOf(H))

\* Splitting the root keeps the tree, once the pending new root is there.
LEMMA SplitRootSettles ==
  ASSUME NEW h, NEW H, NEW g, NEW g2, NEW x, NEW lv,
         HeapOK(h), Shape(h, g, x, lv), Links(h, x), x # Null, HeapOK(H),
         NEW z, NEW a, NEW b, NEW s, Split(h, H, g, g2, x, z, a, b, s),
         NEW w, w.left = a, w.right = b, w.key = s,
         g2[FreeOf(H)].lo = g[x].lo, g2[FreeOf(H)].hi = g[x].hi,
         g2[FreeOf(H)].dep = g[x].dep + 1
  PROVE  RootSettled(H, w, g2, lv, a, b)
<1> DEFINE r == FreeOf(H)
           v == RootedOf(H, w)
<1>0. g2[r].lo = g[x].lo /\ g2[r].hi = g[x].hi /\ g2[r].dep = g[x].dep + 1
  OBVIOUS
<1>1. /\ x \in DOMAIN h /\ z \notin DOMAIN h /\ DOMAIN H = DOMAIN h \cup {z}
      /\ (a = x /\ b = z) \/ (a = z /\ b = x)
      /\ s \in Keys /\ g[x].lo < s /\ s < g[x].hi
      /\ g2[a].lo = g[x].lo /\ g2[a].hi = s /\ g2[a].dep = g[x].dep
      /\ g2[b].lo = s /\ g2[b].hi = g[x].hi /\ g2[b].dep = g[x].dep
      /\ \A m \in DOMAIN h \ {x} : g2[m] = g[m]
      /\ H[a].leaf = h[x].leaf /\ H[b].leaf = h[x].leaf
      /\ OwnOK(H, g2, a) /\ OwnOK(H, g2, b)
      /\ \A m \in DOMAIN h \ {x} : Same(h, H, m)
      /\ H[z].parent = Null
      /\ KidsMoved(h, H, a, b)
  BY DEF Split
<1>2. r \in Nat \ {0} /\ r \notin DOMAIN H
  BY FreeIs
<1>3. a # b /\ a \in DOMAIN H /\ b \in DOMAIN H /\ s \in Int
  BY <1>1, TreeKeysAssumption
<1>4. \A n : ~ KidOf(h, n, x)
  BY SlotUnique DEF KidOf
<1>5. SameLink(h, H, x) /\ h[x].parent = Null
  <2>1. ~ KidOf(h, a, x) /\ ~ KidOf(h, b, x) /\ x \in DOMAIN h \cap DOMAIN H
    BY <1>1, <1>4
  <2> QED
    BY <1>1, <2>1 DEF KidsMoved, Links
<1>6. H[a].parent = Null /\ H[b].parent = Null
  BY <1>1, <1>5 DEF SameLink
<1>7. /\ HeapOK(v) /\ DOMAIN v = DOMAIN H \cup {r}
      /\ \A m \in DOMAIN H : Same(H, v, m)
      /\ v[r].leaf = FALSE /\ v[r].parent = Null
      /\ Len(v[r].key) = 1 /\ v[r].key[1] = s
      /\ Len(v[r].sub) = 2 /\ v[r].sub[1] = a /\ v[r].sub[2] = b
      /\ v[a].parent = r /\ v[b].parent = r
      /\ v[a].idx = -1 /\ v[b].idx = 0
      /\ \A m \in DOMAIN H \ {a, b} : v[m].parent = H[m].parent /\ v[m].idx = H[m].idx
  <2>1. w.left \in DOMAIN H /\ w.right \in DOMAIN H /\ w.left # w.right /\ w.key \in Keys
    BY <1>1, <1>3
  <2>2. RootedBy(H, RootedOf(H, w), FreeOf(H), w.left, w.right, w.key)
    BY <2>1, RootedIs
  <2>3. RootedBy(H, v, r, a, b, s)
    BY <2>2
  <2> QED
    BY <2>3 DEF RootedBy
<1> HIDE DEF r, v
<1>8. Same(H, v, a) /\ Same(H, v, b)
  BY <1>3, <1>7
<1>18. OwnOK(v, g2, a) /\ OwnOK(v, g2, b)
  <2>1. \A c \in {a, b} : ~ H[c].leaf => \A q \in 1 .. Len(H[c].sub) : H[c].sub[q] \in DOMAIN v
    BY <1>1, <1>7 DEF OwnOK, InnerOK
  <2>2. OwnOK(v, g2, a)
    BY <1>1, <1>8, <2>1, OwnKept
  <2>3. OwnOK(v, g2, b)
    BY <1>1, <1>8, <2>1, OwnKept
  <2> QED
    BY <2>2, <2>3
<1>19. ASSUME NEW m \in DOMAIN h, NEW q, Slot(h, x, q, m)
       PROVE  HasParent(v, m)
  <2>1. KidOf(H, a, m) \/ KidOf(H, b, m)
    BY <1>1, <1>19 DEF KidsMoved, KidOf
  <2>2. PICK c \in {a, b} : KidOf(H, c, m)
    BY <2>1
  <2>3. PICK t : Slot(H, c, t, m)
    BY <2>2 DEF KidOf
  <2>4. Slot(v, c, t, m)
    BY <1>3, <1>7, <1>8, <2>2, <2>3 DEF Slot, Same
  <2> QED
    BY <2>4 DEF HasParent, Slot
<1>20. \A m \in DOMAIN h \ {x} : Same(h, v, m)
  BY <1>1, <1>7 DEF Same
<1>21. v[a].leaf = h[x].leaf /\ v[b].leaf = h[x].leaf
  BY <1>1, <1>8 DEF Same
<1>22. Shape(v, g2, r, lv + 1)
  <2>1. DOMAIN v = DOMAIN h \cup {z, r} /\ r # z /\ r \notin DOMAIN h
    BY <1>1, <1>2, <1>7
  <2>2. \A m \in DOMAIN h : \A q : Slot(h, x, q, m) => HasParent(v, m)
    BY <1>19
  <2>3. InTwoUnder(h, v, g, g2, x, z, r, a, b, s)
    BY <1>0, <1>1, <1>2, <1>3, <1>7, <1>18, <1>20, <1>21, <2>1, <2>2 DEF InTwoUnder
  <2> QED
    BY <2>3, SplitRootShape
<1>26. ASSUME NEW q \in DOMAIN v PROVE KidsOf(v, q)
  <2>1. CASE q = r
    <3>1. ASSUME NEW i \in 1 .. Len(v[r].sub)
          PROVE  v[v[r].sub[i]].parent = r /\ v[v[r].sub[i]].idx = i - 2
      <4>1. i = 1 \/ i = 2
        BY <1>7
      <4> QED
        BY <1>7, <4>1
    <3> QED
      BY <2>1, <3>1 DEF KidsOf
  <2>2. CASE q # r
    <3>1. SUFFICES ASSUME ~ v[q].leaf, NEW i \in 1 .. Len(v[q].sub)
                   PROVE  v[v[q].sub[i]].parent = q /\ v[v[q].sub[i]].idx = i - 2
      BY DEF KidsOf
    <3> DEFINE m == v[q].sub[i]
    <3>2. m = H[q].sub[i] /\ ~ H[q].leaf /\ i \in 1 .. Len(H[q].sub) /\ q \in DOMAIN H
      BY <1>7, <2>2, <3>1 DEF Same
    <3>3. Slot(v, q, i, m)
      BY <3>1 DEF Slot
    <3> HIDE DEF m
    <3>4. m \in DOMAIN v /\ g2[q].dep = g2[m].dep + 1 /\ g2[m].dep \in Nat
          /\ g2[q].dep \in Nat
      BY <1>22, <3>3, SlotIs
    <3>5. m # r
      <4>1. SUFFICES ASSUME m = r PROVE FALSE
        OBVIOUS
      <4>2. NodeOK(v, g2, r, lv + 1, q) /\ g2[r].dep = lv + 1 /\ lv + 1 \in Nat
        BY <1>2, <1>22 DEF Shape, Null
      <4> QED
        BY <3>4, <4>1, <4>2 DEF NodeOK
    <3>6. H[m].parent = q /\ H[m].idx = i - 2 /\ m \notin {a, b}
      <4>1. CASE q \in {a, b}
        <5>1. KidsOf(H, q)
          BY <1>1, <1>3, <4>1 DEF KidsMoved
        <5>2. H[m].parent = q /\ H[m].idx = i - 2
          BY <3>2, <5>1 DEF KidsOf
        <5>3. g2[q].dep = g[x].dep /\ g2[a].dep = g[x].dep /\ g2[b].dep = g[x].dep
          BY <1>1, <4>1
        <5>4. m # a /\ m # b
          <6>1. g2[m].dep # g2[q].dep
            BY <3>4
          <6> QED
            BY <5>3, <6>1, Zenon
        <5> QED
          BY <5>2, <5>4
      <4>2. CASE q \notin {a, b}
        <5>1. q \in DOMAIN h /\ ~ h[q].leaf /\ i \in 1 .. Len(h[q].sub) /\ m = h[q].sub[i]
          BY <1>1, <3>2, <4>2 DEF Same
        <5>2. m \in DOMAIN h /\ h[m].parent = q /\ h[m].idx = i - 2
          BY <5>1, OtherKids
        <5>3. \A c : c # q => ~ KidOf(h, c, m)
          BY <5>1, OtherKids
        <5>4. SameLink(h, H, m)
          BY <1>1, <4>2, <5>2, <5>3 DEF KidsMoved
        <5>5. m # x
          BY <5>1, OtherKids
        <5> QED
          BY <1>1, <5>2, <5>4, <5>5 DEF SameLink
      <4> QED
        BY <4>1, <4>2
    <3>8. v[m].parent = q /\ v[m].idx = i - 2
      BY <1>7, <3>4, <3>5, <3>6
    <3> QED
      BY <3>8 DEF m
  <2> QED
    BY <2>1, <2>2
<1>28. Links(v, r)
  BY <1>7, <1>26, LinksAre
<1> QED
  BY <1>6, <1>7, <1>22, <1>28 DEF v, r, RootSettled

-----------------------------------------------------------------------------
(***************************************************************************)
(* The state, its sizes and its entries.                                   *)
(***************************************************************************)

\* The pending call w will make a new root.
Tall(h, w) == w.op = "build" /\ UpperOf(h, w) = Null
RootOf(h, w, rt) == IF Tall(h, w) THEN FreeOf(h) ELSE rt
HeightOf(h, w, lv) == IF Tall(h, w) THEN lv + 1 ELSE lv

BuildOK(h, w) ==
  /\ w.left \in DOMAIN h /\ w.right \in DOMAIN h /\ w.left # w.right /\ w.key \in Keys
  /\ h[w.left].parent \in {Null, UpperOf(h, w)} /\ h[w.right].parent \in {Null, UpperOf(h, w)}
  /\ UpperOf(h, w) # Null =>
       /\ UpperOf(h, w) \in DOMAIN h /\ ~ h[UpperOf(h, w)].leaf
       /\ UpperOf(h, w) # w.left /\ UpperOf(h, w) # w.right
       /\ Len(h[UpperOf(h, w)].sub) = Len(h[UpperOf(h, w)].key) + 1
       /\ \E i \in 0 .. Len(h[UpperOf(h, w)].key) :
            KeyBinarySearch(h[UpperOf(h, w)].key, w.key) = - i - 1

WorkOK(h, w) ==
  /\ w.op \in {"idle", "build", "remove"}
  /\ w.op = "build" => BuildOK(h, w)
  /\ w.op = "remove" => RemoveOK(h, w.node, w.remove)

\* What holds of the tree at every step: once the pending call has been seen
\* through to its simple end, it is a search tree of one height.
TreeIs(h, w, rt, lv, ls, g) ==
  /\ HeapOK(h) /\ WorkOK(h, w) /\ rt \in DOMAIN h \cup {Null}
  /\ Shape(Settled(h, w), g, RootOf(h, w, rt), HeightOf(h, w, lv))
  /\ Links(Settled(h, w), RootOf(h, w, rt))
  /\ Chain(ls, DOMAIN h, g)

\* With no call pending, the tree is seen as it is.
LEMMA IdleIs ==
  ASSUME NEW h, NEW rt, NEW lv
  PROVE  /\ Settled(h, Idle) = h /\ RootOf(h, Idle, rt) = rt /\ HeightOf(h, Idle, lv) = lv
         /\ ~ Tall(h, Idle) /\ WorkOK(h, Idle)
<1>1. Idle.op = "idle"
  BY DEF Idle
<1> QED
  BY <1>1 DEF Settled, RootOf, HeightOf, Tall, WorkOK

\* The node the pending insertion goes to, its place and what comes of it.
LEMMA BuildIs ==
  ASSUME NEW h, HeapOK(h), NEW w, w.op = "build", WorkOK(h, w), UpperOf(h, w) # Null
  PROVE  LET u == UpperOf(h, w)
             i == PlaceOf(h, w)
             v == Settled(h, w)
         IN /\ u \in DOMAIN h /\ ~ h[u].leaf /\ u # w.left /\ u # w.right
            /\ w.left \in DOMAIN h /\ w.right \in DOMAIN h /\ w.left # w.right /\ w.key \in Keys
            /\ Len(h[u].sub) = Len(h[u].key) + 1 /\ i \in 0 .. Len(h[u].key)
            /\ KeyBinarySearch(h[u].key, w.key) = - i - 1
            /\ v = InsertedAt(h, u, i, w.key, w.left, w.right)
            /\ HeapOK(v) /\ DOMAIN v = DOMAIN h
            /\ \A m \in DOMAIN h \ {u} : Same(h, v, m)
            /\ v[u].leaf = h[u].leaf
            /\ v[u].key = InsertAt(h[u].key, i + 1, w.key)
            /\ v[u].sub = TwoFor(h[u].sub, i, w.left, w.right)
<1> DEFINE u == UpperOf(h, w)
           i == PlaceOf(h, w)
           v == Settled(h, w)
<1>1. BuildOK(h, w)
  BY DEF WorkOK
<1>2. /\ u \in DOMAIN h /\ ~ h[u].leaf /\ u # w.left /\ u # w.right
      /\ w.left \in DOMAIN h /\ w.right \in DOMAIN h /\ w.left # w.right /\ w.key \in Keys
      /\ Len(h[u].sub) = Len(h[u].key) + 1
  BY <1>1 DEF BuildOK
<1>3. PICK j \in 0 .. Len(h[u].key) : KeyBinarySearch(h[u].key, w.key) = - j - 1
  BY <1>1 DEF BuildOK
<1>4. Len(h[u].key) \in Nat
  BY <1>2, NodeFields
<1>5. i = j
  BY <1>3, <1>4 DEF PlaceOf
<1>6. v = InsertedAt(h, u, i, w.key, w.left, w.right)
  BY DEF Settled, InsertedOf
<1>7. i \in 0 .. Len(h[u].key) /\ KeyBinarySearch(h[u].key, w.key) = - i - 1
  BY <1>3, <1>5
<1> HIDE DEF u, i, v
<1> DEFINE a == w.left
           b == w.right
           s == w.key
           y == InsertedAt(h, u, i, s, a, b)
<1>8. a \in DOMAIN h /\ b \in DOMAIN h /\ a # b /\ u # a /\ u # b /\ s \in Keys
  BY <1>2
<1> HIDE DEF a, b, s
<1>9. /\ HeapOK(y) /\ DOMAIN y = DOMAIN h
      /\ \A m \in DOMAIN h \ {u} : Same(h, y, m)
      /\ y[u].leaf = h[u].leaf
      /\ y[u].key = InsertAt(h[u].key, i + 1, s)
      /\ y[u].sub = TwoFor(h[u].sub, i, a, b)
  BY <1>2, <1>7, <1>8, InsertedIs
<1>10. v = y
  BY <1>6 DEF a, b, s
<1> HIDE DEF y
<1>11. /\ HeapOK(v) /\ DOMAIN v = DOMAIN h
       /\ \A m \in DOMAIN h \ {u} : Same(h, v, m)
       /\ v[u].leaf = h[u].leaf
       /\ v[u].key = InsertAt(h[u].key, i + 1, w.key)
       /\ v[u].sub = TwoFor(h[u].sub, i, w.left, w.right)
  BY <1>9, <1>10 DEF a, b, s
<1> QED
  BY <1>2, <1>6, <1>7, <1>11 DEF u, i, v

\* v is h without the entry that is to be removed from n, the i-th key and the
\* child behind it.
Removal(h, v, n, i) ==
  /\ n \in DOMAIN h /\ ~ h[n].leaf /\ Len(h[n].sub) = Len(h[n].key) + 1
  /\ i \in 0 .. Len(h[n].key) - 1
  /\ v = RemovedAt(h, n, i)
  /\ HeapOK(v) /\ DOMAIN v = DOMAIN h
  /\ \A m \in DOMAIN h \ {n} : Same(h, v, m)
  /\ v[n].leaf = h[n].leaf
  /\ v[n].key = RemoveAt(h[n].key, i + 1)
  /\ v[n].sub = RemoveAt(h[n].sub, i + 2)
  /\ \A m \in DOMAIN h : v[m].parent = h[m].parent
  /\ \A m \in DOMAIN h :
       (\A q \in i + 2 .. Len(v[n].sub) : v[n].sub[q] # m) => v[m].idx = h[m].idx
  /\ \A q \in 1 .. Len(h[n].sub) : q # i + 2 => h[h[n].sub[q]].idx = q - 2

\* With non_leaf_remove pending, the tree is seen without the child that was
\* merged away.
LEMMA RemoveIs ==
  ASSUME NEW h, HeapOK(h), NEW w, w.op = "remove", WorkOK(h, w)
  PROVE  Removal(h, Settled(h, w), w.node, w.remove)
<1> DEFINE v == Settled(h, w)
           n == w.node
           i == w.remove
<1>1. RemoveOK(h, n, i)
  BY DEF WorkOK
<1>2. v = RemovedAt(h, n, i)
  BY DEF Settled
<1> HIDE DEF v, n, i
<1>3. /\ n \in DOMAIN h /\ ~ h[n].leaf /\ Len(h[n].sub) = Len(h[n].key) + 1
      /\ i \in 0 .. Len(h[n].key) - 1
      /\ \A q \in 1 .. Len(h[n].sub) : q # i + 2 => h[h[n].sub[q]].idx = q - 2
  BY <1>1 DEF RemoveOK
<1> DEFINE y == RemovedAt(h, n, i)
<1>4. /\ HeapOK(y) /\ DOMAIN y = DOMAIN h
      /\ \A m \in DOMAIN h \ {n} : Same(h, y, m)
      /\ y[n].leaf = h[n].leaf
      /\ y[n].key = RemoveAt(h[n].key, i + 1)
      /\ y[n].sub = RemoveAt(h[n].sub, i + 2)
      /\ \A m \in DOMAIN h : y[m].parent = h[m].parent
      /\ \A m \in DOMAIN h :
           (\A q \in i + 2 .. Len(y[n].sub) : y[n].sub[q] # m) => y[m].idx = h[m].idx
  BY <1>3, RemovedIs
<1>5. v = y
  BY <1>2
<1> HIDE DEF y
<1>6. /\ HeapOK(v) /\ DOMAIN v = DOMAIN h
      /\ \A m \in DOMAIN h \ {n} : Same(h, v, m)
      /\ v[n].leaf = h[n].leaf
      /\ v[n].key = RemoveAt(h[n].key, i + 1)
      /\ v[n].sub = RemoveAt(h[n].sub, i + 2)
      /\ \A m \in DOMAIN h : v[m].parent = h[m].parent
      /\ \A m \in DOMAIN h :
           (\A q \in i + 2 .. Len(v[n].sub) : v[n].sub[q] # m) => v[m].idx = h[m].idx
  BY <1>4, <1>5
<1> QED
  BY <1>2, <1>3, <1>6 DEF Removal, v, n, i

\* A node of a shaped tree: its interval, its height and its place in the lists.
LEMMA DepthIs ==
  ASSUME NEW h, NEW g, NEW rt, NEW lv, Shape(h, g, rt, lv), NEW n \in DOMAIN h
  PROVE  /\ Interval(g, n) /\ g[n].dep \in 0 .. lv /\ lv \in Nat
         /\ (h[n].leaf <=> g[n].dep = 0) /\ OwnOK(h, g, n)
         /\ lv < MaxLevel /\ MaxLevel \in Nat => g[n].dep \in 0 .. MaxLevel - 1
BY DEF Shape, NodeOK

\* A split node leaves a tree in which its parent is still to be told.
LEMMA SplitStep ==
  ASSUME NEW h, NEW H, NEW g, NEW g2, NEW rt, NEW lv,
         HeapOK(h), Shape(h, g, rt, lv), Links(h, rt), Chain(list, DOMAIN h, g), lv < MaxLevel,
         HeapOK(H),
         NEW x, NEW z, NEW a, NEW b, NEW s, Split(h, H, g, g2, x, z, a, b, s),
         g2[FreeOf(H)].lo = g[x].lo, g2[FreeOf(H)].hi = g[x].hi,
         g2[FreeOf(H)].dep = g[x].dep + 1,
         NEW w, w.op = "build", w.left = a, w.right = b, w.key = s,
         NEW ls, a = z => ls = LinkBefore(z, x), b = z => ls = LinkAfter(z, x)
  PROVE  TreeIs(H, w, rt, lv, ls, g2)
<1>1. /\ x \in DOMAIN h /\ z \notin DOMAIN h /\ DOMAIN H = DOMAIN h \cup {z}
      /\ (a = x /\ b = z) \/ (a = z /\ b = x)
      /\ s \in Keys /\ g[x].lo < s /\ s < g[x].hi
      /\ g2[a].lo = g[x].lo /\ g2[a].hi = s /\ g2[a].dep = g[x].dep
      /\ g2[b].lo = s /\ g2[b].hi = g[x].hi /\ g2[b].dep = g[x].dep
      /\ \A m \in DOMAIN h \ {x} : g2[m] = g[m]
      /\ H[z].parent = Null
  BY DEF Split
<1>2. a # b /\ a \in DOMAIN H /\ b \in DOMAIN H /\ s \in Int
  BY <1>1, TreeKeysAssumption
<1>3. Chain(ls, DOMAIN H, g2)
  <2> DEFINE D == DOMAIN h
  <2>1. \A n \in D : Interval(g, n)
    BY DepthIs
  <2>2. Interval(g, x) /\ g[x].dep \in 0 .. MaxLevel - 1
    BY <1>1, DepthIs, MaxLevelAssumption
  <2>3. g[x].dep \in DOMAIN list
    BY <2>2 DEF Chain
  <2>4. Shared(g, g2, D, x, z, a, b)
    BY <1>1, <1>2, <2>2 DEF Shared, Interval
  <2>5. Chain(list, D, g) /\ x \in D /\ z \notin D
    BY <1>1
  <2> HIDE DEF D
  <2>6. /\ a = z => Chain(LinkBefore(z, x), D \cup {z}, g2)
        /\ b = z => Chain(LinkAfter(z, x), D \cup {z}, g2)
    BY <2>1, <2>3, <2>4, <2>5, ChainSplit
  <2>7. D \cup {z} = DOMAIN H
    BY <1>1 DEF D
  <2> QED
    BY <1>1, <2>6, <2>7
<1>4. CASE x = rt
  <2>1. x # Null /\ Shape(h, g, x, lv) /\ Links(h, x)
    BY <1>1, <1>4 DEF HeapOK, Null
  <2> DEFINE r == FreeOf(H)
             v == RootedOf(H, w)
  <2>2. /\ H[a].parent = Null /\ H[b].parent = Null
        /\ HeapOK(v) /\ Shape(v, g2, r, lv + 1) /\ Links(v, r)
    <3> HIDE DEF r, v
    <3>1. RootSettled(H, w, g2, lv, a, b)
      BY <2>1, SplitRootSettles
    <3> QED
      BY <3>1 DEF RootSettled, r, v
  <2>3. UpperOf(H, w) = Null
    BY <2>2 DEF UpperOf
  <2>4. Tall(H, w) /\ Settled(H, w) = v /\ RootOf(H, w, rt) = r /\ HeightOf(H, w, lv) = lv + 1
    BY <2>3 DEF Tall, Settled, RootOf, HeightOf
  <2> HIDE DEF r, v
  <2>5. WorkOK(H, w)
    BY <1>1, <1>2, <2>2, <2>3 DEF WorkOK, BuildOK
  <2>6. rt \in DOMAIN H \cup {Null}
    BY <1>1, <1>4
  <2> QED
    BY <1>3, <2>2, <2>4, <2>5, <2>6 DEF TreeIs
<1>5. CASE x # rt
  <2>1. PICK p, j : Slot(h, p, j, x)
    BY <1>1, <1>5 DEF Shape, NodeOK, HasParent
  <2> DEFINE v == InsertedAt(H, p, j - 1, s, a, b)
             u == IF H[b].parent = Null THEN H[a].parent ELSE H[b].parent
  <2>2. /\ u = p
        /\ KeyBinarySearch(H[p].key, s) = - j /\ j - 1 \in 0 .. Len(H[p].key)
        /\ p \in DOMAIN H /\ ~ H[p].leaf /\ p # a /\ p # b /\ p # Null
        /\ Len(H[p].sub) = Len(H[p].key) + 1
        /\ Shape(v, g2, rt, lv) /\ Links(v, rt)
    <3> HIDE DEF v, u
    <3>1. InnerSettled(H, g2, rt, lv, p, j, a, b, s)
      BY <2>1, SplitSettles
    <3> QED
      BY <3>1 DEF InnerSettled, u, v
  <2>3. u = UpperOf(H, w)
    BY DEF UpperOf
  <2>10. j \in Int
    BY <1>1, <2>1, NodeFields DEF Slot
  <2>4. H[a].parent \in {Null, p} /\ H[b].parent \in {Null, p}
    BY <1>1, <2>2
  <2> HIDE DEF u, v
  <2>5. UpperOf(H, w) = p /\ PlaceOf(H, w) = j - 1
    BY <2>2, <2>3, <2>10 DEF PlaceOf
  <2>6. ~ Tall(H, w) /\ RootOf(H, w, rt) = rt /\ HeightOf(H, w, lv) = lv
    BY <2>2, <2>5 DEF Tall, RootOf, HeightOf
  <2>7. Settled(H, w) = v
    BY <2>2, <2>5 DEF Settled, InsertedOf, v
  <2>8. WorkOK(H, w)
    <3>1. KeyBinarySearch(H[p].key, s) = - (j - 1) - 1
      BY <2>2, <2>10
    <3> DEFINE i == j - 1
    <3>2. i \in 0 .. Len(H[p].key) /\ KeyBinarySearch(H[p].key, s) = - i - 1
      BY <2>2, <3>1
    <3> HIDE DEF i
    <3>3. BuildOK(H, w)
      BY <1>1, <1>2, <2>2, <2>4, <2>5, <3>2 DEF BuildOK
    <3> QED
      BY <3>3 DEF WorkOK
  <2>9. rt \in DOMAIN H \cup {Null}
    BY <1>1 DEF Shape
  <2> QED
    BY <1>3, <2>2, <2>6, <2>7, <2>8, <2>9 DEF TreeIs
<1> QED
  BY <1>4, <1>5

\* Two neighbours have shared their contents out anew.
LEMMA RecutStep ==
  ASSUME NEW h, NEW H, NEW g, NEW g2, NEW rt, NEW lv,
         HeapOK(h), Shape(h, g, rt, lv), Links(h, rt), Chain(list, DOMAIN h, g), HeapOK(H),
         NEW p, NEW j, NEW a, NEW b, NEW s, Recut(h, H, g, g2, p, j, a, b, s)
  PROVE  TreeIs(H, Idle, rt, lv, list, g2)
<1>1. Shape(H, g2, rt, lv) /\ Links(H, rt)
  BY RecutSettles
<1>2. /\ Slot(h, p, j, a) /\ Slot(h, p, j + 1, b)
      /\ s \in Int /\ g[a].lo < s /\ s < g[b].hi
      /\ DOMAIN H = DOMAIN h
      /\ g2[a].lo = g[a].lo /\ g2[a].hi = s /\ g2[a].dep = g[a].dep
      /\ g2[b].lo = s /\ g2[b].hi = g[b].hi /\ g2[b].dep = g[b].dep
      /\ \A m \in DOMAIN h \ {a, b} : g2[m] = g[m]
  BY DEF Recut
<1>3. /\ a \in DOMAIN h /\ b \in DOMAIN h /\ g[a].dep = g[b].dep /\ g[a].dep \in Nat
      /\ g[a].hi = g[b].lo
  BY <1>2, SlotIs, KeysAreInts, SMTT(60)
<1>4. Chain(list, DOMAIN h, g2)
  <2>1. \A n \in DOMAIN h : g2[n].dep = g[n].dep
    BY <1>2
  <2>2. \A n \in DOMAIN h : Interval(g, n)
    BY DepthIs
  <2>3. ASSUME NEW m \in DOMAIN h, NEW n \in DOMAIN h, g[m].dep = g[n].dep,
               g[m].hi <= g[n].lo, g[m].dep \in DOMAIN list
        PROVE  g2[m].hi <= g2[n].lo
    <3>1. Interval(g, m) /\ Interval(g, n) /\ Interval(g, a) /\ Interval(g, b)
      BY <1>3, <2>2
    <3>2. a # b
      BY <1>3, <3>1 DEF Interval
    <3>3. m # a => g[m].hi <= g[a].lo \/ g[a].hi <= g[m].lo \/ g[m].dep # g[a].dep
      BY <1>3, <2>2, <2>3, ChainOrder
    <3>4. n # b => g[n].hi <= g[b].lo \/ g[b].hi <= g[n].lo \/ g[n].dep # g[b].dep
      BY <1>3, <2>2, <2>3, ChainOrder
    <3>5. m \notin {a, b} => g2[m].hi = g[m].hi
      BY <1>2
    <3>6. n \notin {a, b} => g2[n].lo = g[n].lo
      BY <1>2
    <3> DEFINE mlo == g[m].lo
               mhi == g[m].hi
               nlo == g[n].lo
               nhi == g[n].hi
    <3>7. mlo \in Int /\ mhi \in Int /\ nlo \in Int /\ nhi \in Int /\ mlo < mhi /\ nlo < nhi
          /\ mhi <= nlo
      BY <2>3, <3>1 DEF Interval
    <3>8. CASE n = a
      <4>1. m # a /\ m # b
        BY <1>2, <1>3, <2>3, <3>1, <3>8 DEF Interval
      <4> QED
        BY <1>2, <2>3, <3>5, <3>8, <4>1
    <3>9. CASE n = b
      <4>1. CASE m = a
        BY <1>2, <3>9, <4>1
      <4>2. CASE m # a
        <5>1. m # b
          BY <2>3, <3>1, <3>9 DEF Interval
        <5>2. mhi <= g[a].lo
          BY <1>3, <2>3, <3>1, <3>3, <3>7, <3>9, <4>2 DEF Interval
        <5> QED
          BY <1>2, <3>1, <3>5, <3>7, <3>9, <4>2, <5>1, <5>2 DEF Interval
      <4> QED
        BY <4>1, <4>2
    <3>10. CASE n # a /\ n # b
      <4>1. CASE m = a
        <5>1. g[b].hi <= nlo
          BY <1>3, <2>3, <3>1, <3>4, <3>7, <3>10, <4>1 DEF Interval
        <5> QED
          BY <1>2, <3>1, <3>6, <3>7, <3>10, <4>1, <5>1 DEF Interval
      <4>2. CASE m = b
        BY <1>2, <2>3, <3>6, <3>10, <4>2
      <4>3. CASE m # a /\ m # b
        BY <2>3, <3>5, <3>6, <3>10, <4>3
      <4> QED
        BY <4>1, <4>2, <4>3
    <3> QED
      BY <3>8, <3>9, <3>10
  <2> DEFINE D == DOMAIN h
  <2>4. /\ \A n \in D : g2[n].dep = g[n].dep
        /\ \A m, n \in D : g[m].dep = g[n].dep /\ g[m].hi <= g[n].lo /\ g[m].dep \in DOMAIN list
                           => g2[m].hi <= g2[n].lo
        /\ Chain(list, D, g)
    BY <2>1, <2>3
  <2> HIDE DEF D
  <2>5. Chain(list, D, g2)
    BY <2>4, ChainShift
  <2> QED
    BY <2>5 DEF D
<1>5. rt \in DOMAIN h \cup {Null}
  BY DEF Shape
<1> QED
  BY <1>1, <1>2, <1>4, <1>5, IdleIs DEF TreeIs

\* Two neighbours have become one, and their parent is still to be told.
LEMMA MergeStep ==
  ASSUME NEW h, NEW H, NEW g, NEW g2, NEW rt, NEW lv,
         HeapOK(h), Shape(h, g, rt, lv), Links(h, rt), Chain(list, DOMAIN h, g), lv < MaxLevel,
         HeapOK(H),
         NEW p, NEW j, NEW a, NEW b, Merged(h, H, g, g2, p, j, a, b),
         NEW i, i = j - 1
  PROVE  TreeIs(H, RemoveUpwards(p, i), rt, lv, Unlinked(b), g2)
<1> DEFINE w == RemoveUpwards(p, i)
           v == RemovedAt(H, p, j - 1)
<1>1. RemoveOK(H, p, j - 1) /\ Shape(v, g2, rt, lv) /\ Links(v, rt)
  BY MergeSettles
<1>2. w.op = "remove" /\ w.node = p /\ w.remove = j - 1
  BY DEF RemoveUpwards
<1> HIDE DEF w
<1>3. /\ ~ Tall(H, w) /\ RootOf(H, w, rt) = rt /\ HeightOf(H, w, lv) = lv
      /\ Settled(H, w) = v /\ WorkOK(H, w)
  BY <1>1, <1>2 DEF Tall, RootOf, HeightOf, Settled, WorkOK
<1> HIDE DEF v
<1>4. /\ Slot(h, p, j, a) /\ Slot(h, p, j + 1, b)
      /\ DOMAIN H = DOMAIN h \ {b}
      /\ g2[a].lo = g[a].lo /\ g2[a].hi = g[b].hi /\ g2[a].dep = g[a].dep
      /\ \A m \in DOMAIN h \ {a, b} : g2[m] = g[m]
  BY DEF Merged
<1>5. /\ a \in DOMAIN h /\ b \in DOMAIN h /\ g[a].dep = g[b].dep /\ g[a].dep \in Nat
      /\ g[a].hi = g[b].lo
  BY <1>4, SlotIs, KeysAreInts
<1>6. Chain(Unlinked(b), DOMAIN H, g2)
  <2> DEFINE D == DOMAIN h
  <2>1. \A n \in D : Interval(g, n)
    BY DepthIs
  <2>2. g[b].dep \in DOMAIN list
    BY <1>5, DepthIs, MaxLevelAssumption DEF Chain
  <2>3. /\ a \in D /\ b \in D /\ Chain(list, D, g)
        /\ \A m \in D \ {a, b} : g2[m] = g[m]
    BY <1>4, <1>5
  <2> HIDE DEF D
  <2>4. Chain(Unlinked(b), D \ {b}, g2)
    BY <1>4, <1>5, <2>1, <2>2, <2>3, ChainMerge
  <2> QED
    BY <1>4, <2>4 DEF D
<1>7. rt \in DOMAIN H \cup {Null}
  <2>1. rt # b
    BY <1>4, SlotUnique
  <2>2. rt \in DOMAIN h \cup {Null}
    BY DEF Shape
  <2> QED
    BY <1>4, <2>1, <2>2
<1>8. TreeIs(H, w, rt, lv, Unlinked(b), g2)
  BY <1>1, <1>3, <1>6, <1>7 DEF TreeIs
<1> QED
  BY <1>8 DEF w

\* A sequence of keys is a sequence of numbers.
LEMMA KeyIsInt ==
  ASSUME NEW s \in Seq(Keys)
  PROVE  /\ s \in Seq(Int) /\ Len(s) \in Nat
         /\ \A i \in 1 .. Len(s) : s[i] \in Keys /\ s[i] \in Int
<1>1. Keys \subseteq Int
  BY TreeKeysAssumption
<1>2. Len(s) \in Nat /\ DOMAIN s = 1 .. Len(s)
  OBVIOUS
<1>3. \A i \in 1 .. Len(s) : s[i] \in Keys
  BY <1>2
<1>4. \A i \in 1 .. Len(s) : s[i] \in Int
  BY <1>1, <1>3
<1>5. s \in Seq(Int)
  BY <1>2, <1>4, SMT
<1> QED
  BY <1>2, <1>3, <1>4, <1>5

\* The elements of a concatenation.
LEMMA JoinIs ==
  ASSUME NEW S, NEW s \in Seq(S), NEW t \in Seq(S)
  PROVE  /\ s \o t \in Seq(S) /\ Len(s \o t) = Len(s) + Len(t)
         /\ \A j \in 1 .. Len(s) + Len(t) :
              (s \o t)[j] = IF j <= Len(s) THEN s[j] ELSE t[j - Len(s)]
  OBVIOUS

\* The entries of a leaf, in order and between two bounds.
Run(key, sub, lo, hi) ==
  /\ key \in Seq(Keys) /\ sub \in Seq(Item) /\ Len(sub) = Len(key)
  /\ \A i \in 1 .. Len(key) : lo <= key[i] /\ key[i] < hi
  /\ Ascending(key)

HasPair(key, sub, k, d) == \E i \in 1 .. Len(key) : key[i] = k /\ sub[i] = d

\* A run into which the entry of k with d is put as the i-th.
RunWith(key, sub, lo, hi, i, k, d) ==
  /\ Run(InsertAt(key, i, k), InsertAt(sub, i, d), lo, hi)
  /\ Len(InsertAt(key, i, k)) = Len(key) + 1
  /\ \A l, e : HasPair(InsertAt(key, i, k), InsertAt(sub, i, d), l, e)
                 <=> HasPair(key, sub, l, e) \/ (l = k /\ e = d)
  /\ \A e : ~ HasPair(key, sub, k, e)

\* A new entry where key_binary_search puts it.
LEMMA RunInsert ==
  ASSUME NEW key, NEW sub, NEW lo \in Int, NEW hi \in Int, Run(key, sub, lo, hi),
         NEW k \in Keys, lo <= k, k < hi, NEW d \in Item, NEW i, i = - KeyBinarySearch(key, k),
         KeyBinarySearch(key, k) < 0
  PROVE  /\ i \in 1 .. Len(key) + 1
         /\ RunWith(key, sub, lo, hi, i, k, d)
<1>1. key \in Seq(Keys) /\ sub \in Seq(Item) /\ Len(sub) = Len(key) /\ Ascending(key)
      /\ \A j \in 1 .. Len(key) : lo <= key[j] /\ key[j] < hi
  BY DEF Run
<1>2. /\ key \in Seq(Int) /\ Len(key) \in Nat /\ k \in Int
      /\ \A j \in 1 .. Len(key) : key[j] \in Keys /\ key[j] \in Int
  BY <1>1, KeyIsInt, TreeKeysAssumption
<1>3. /\ i \in 1 .. Len(key) + 1
      /\ \A j \in 1 .. i - 1 : key[j] < k
      /\ \A j \in i .. Len(key) : key[j] > k
  <2>1. LET r == KeyBinarySearch(key, k) IN
        /\ r \in Int
        /\ r < 0 => /\ - r - 1 \in 0 .. Len(key)
                    /\ \A j \in 1 .. - r - 1 : key[j] < k
                    /\ \A j \in - r .. Len(key) : key[j] > k
    BY <1>1, <1>2, SearchSays
  <2> DEFINE r == KeyBinarySearch(key, k)
  <2>2. r \in Int /\ r < 0 /\ i = - r /\ - r - 1 \in 0 .. Len(key)
        /\ (\A j \in 1 .. - r - 1 : key[j] < k)
        /\ (\A j \in - r .. Len(key) : key[j] > k)
    BY <2>1
  <2> HIDE DEF r
  <2> QED
    BY <1>2, <2>2
<1> DEFINE key2 == InsertAt(key, i, k)
           sub2 == InsertAt(sub, i, d)
<1>4. /\ key2 \in Seq(Keys) /\ Len(key2) = Len(key) + 1
      /\ \A j \in 1 .. Len(key) + 1 :
           key2[j] = IF j < i THEN key[j] ELSE IF j = i THEN k ELSE key[j - 1]
  <2>1. key \in Seq(Keys) /\ i \in 1 .. Len(key) + 1 /\ k \in Keys
    BY <1>1, <1>3
  <2>2. Added(key2, Keys, key, i, k)
    BY ONLY <2>1, InsertAtIs
  <2> QED
    BY ONLY <2>2 DEF Added
<1>5. /\ sub2 \in Seq(Item) /\ Len(sub2) = Len(sub) + 1
      /\ \A j \in 1 .. Len(sub) + 1 :
           sub2[j] = IF j < i THEN sub[j] ELSE IF j = i THEN d ELSE sub[j - 1]
  <2>1. i \in 1 .. Len(sub) + 1 /\ sub \in Seq(Item) /\ d \in Item
    BY <1>1, <1>3
  <2>2. Added(sub2, Item, sub, i, d)
    BY ONLY <2>1, InsertAtIs
  <2> QED
    BY ONLY <2>2 DEF Added
<1> HIDE DEF key2, sub2
<1>6. \A j \in 1 .. Len(key2) : lo <= key2[j] /\ key2[j] < hi
  <2> TAKE j \in 1 .. Len(key2)
  <2>1. j < i \/ j = i \/ (j > i /\ j - 1 \in 1 .. Len(key))
    BY <1>2, <1>3, <1>4
  <2>2. j < i => j \in 1 .. Len(key)
    BY <1>2, <1>3, <1>4
  <2> QED
    BY <1>1, <1>2, <1>3, <1>4, <2>1, <2>2
<1>7. Ascending(key2)
  <2>1. SUFFICES ASSUME NEW j \in 1 .. Len(key2), NEW m \in 1 .. Len(key2), j < m
                 PROVE  key2[j] < key2[m]
    BY DEF Ascending
  <2>2. \A p, q \in 1 .. Len(key) : p < q => key[p] < key[q]
    BY <1>1 DEF Ascending
  <2>3. CASE m < i
    <3>1. key2[j] = key[j] /\ key2[m] = key[m] /\ j \in 1 .. Len(key) /\ m \in 1 .. Len(key)
      BY <1>2, <1>3, <1>4, <2>1, <2>3
    <3> QED
      BY <2>1, <2>2, <3>1
  <2>4. CASE m = i
    <3>1. key2[j] = key[j] /\ key2[m] = k /\ j \in 1 .. i - 1
      BY <1>2, <1>3, <1>4, <2>1, <2>4
    <3> QED
      BY <1>3, <3>1
  <2>5. CASE m > i /\ j < i
    <3>0. /\ j \in 1 .. Len(key) + 1 /\ m \in 1 .. Len(key) + 1 /\ i \in 1 .. Len(key) + 1
          /\ Len(key) \in Nat
      BY <1>2, <1>3, <1>4, <2>1
    <3>1. /\ j \in 1 .. i - 1 /\ m - 1 \in i .. Len(key)
          /\ j \in 1 .. Len(key) /\ m - 1 \in 1 .. Len(key)
      BY ONLY <2>5, <3>0
    <3>2. key[j] < k /\ key[m - 1] > k /\ key[j] \in Int /\ key[m - 1] \in Int /\ k \in Int
      BY <1>2, <1>3, <3>1
    <3>3. key2[j] = key[j] /\ key2[m] = key[m - 1]
      BY <1>4, <2>5, <3>0
    <3> QED
      BY ONLY <3>2, <3>3
  <2>6. CASE m > i /\ j = i
    <3>1. key2[j] = k /\ key2[m] = key[m - 1] /\ m - 1 \in i .. Len(key) /\ m - 1 \in 1 .. Len(key)
      BY <1>2, <1>3, <1>4, <2>1, <2>6
    <3>2. key[m - 1] > k /\ key[m - 1] \in Int
      BY <1>2, <1>3, <3>1
    <3> QED
      BY <1>2, <3>1, <3>2
  <2>7. CASE m > i /\ j > i
    <3>1. key2[j] = key[j - 1] /\ key2[m] = key[m - 1] /\ j - 1 \in 1 .. Len(key)
          /\ m - 1 \in 1 .. Len(key) /\ j - 1 < m - 1
      BY <1>2, <1>3, <1>4, <2>1, <2>7
    <3> QED
      BY <2>2, <3>1
  <2> QED
    BY <1>3, <1>4, <2>3, <2>4, <2>5, <2>6, <2>7
<1>8. ASSUME NEW l, NEW e
      PROVE  HasPair(key2, sub2, l, e) <=> HasPair(key, sub, l, e) \/ (l = k /\ e = d)
  <2>1. ASSUME HasPair(key2, sub2, l, e) PROVE HasPair(key, sub, l, e) \/ (l = k /\ e = d)
    <3>1. PICK j \in 1 .. Len(key2) : key2[j] = l /\ sub2[j] = e
      BY <2>1 DEF HasPair
    <3>2. CASE j < i
      <4>1. j \in 1 .. Len(key) /\ key2[j] = key[j] /\ sub2[j] = sub[j]
        BY <1>1, <1>2, <1>3, <1>4, <1>5, <3>2
      <4> QED
        BY <3>1, <4>1 DEF HasPair
    <3>3. CASE j = i
      BY <1>1, <1>3, <1>4, <1>5, <3>1, <3>3
    <3>4. CASE j > i
      <4>1. j - 1 \in 1 .. Len(key) /\ key2[j] = key[j - 1] /\ sub2[j] = sub[j - 1]
        BY <1>1, <1>2, <1>3, <1>4, <1>5, <3>4, SMTT(60)
      <4> QED
        BY <3>1, <4>1 DEF HasPair
    <3> QED
      BY <1>3, <1>4, <3>2, <3>3, <3>4
  <2>2. ASSUME HasPair(key, sub, l, e) PROVE HasPair(key2, sub2, l, e)
    <3>1. PICK j \in 1 .. Len(key) : key[j] = l /\ sub[j] = e
      BY <2>2 DEF HasPair
    <3>2. CASE j < i
      <4>1. j \in 1 .. Len(key2) /\ key2[j] = key[j] /\ sub2[j] = sub[j]
        BY <1>1, <1>2, <1>3, <1>4, <1>5, <3>2
      <4> QED
        BY <3>1, <4>1 DEF HasPair
    <3>3. CASE j >= i
      <4> DEFINE q == j + 1
      <4>2. q \in 1 .. Len(key) + 1 /\ q - 1 = j /\ ~ (q < i) /\ q # i
        BY <1>2, <1>3, <3>3
      <4> HIDE DEF q
      <4>3. q \in 1 .. Len(key2) /\ key2[q] = key[q - 1] /\ sub2[q] = sub[q - 1]
        BY <1>1, <1>4, <1>5, <4>2
      <4>1. q \in 1 .. Len(key2) /\ key2[q] = key[j] /\ sub2[q] = sub[j]
        BY <4>2, <4>3
      <4> QED
        BY <3>1, <4>1 DEF HasPair
    <3> QED
      BY <1>3, <3>2, <3>3
  <2>3. HasPair(key2, sub2, k, d)
    <3>1. i \in 1 .. Len(key2) /\ key2[i] = k /\ sub2[i] = d
      BY <1>1, <1>2, <1>3, <1>4, <1>5
    <3> QED
      BY <3>1 DEF HasPair
  <2> QED
    BY <2>1, <2>2, <2>3
<1>9. \A e : ~ HasPair(key, sub, k, e)
  <2>1. \A j \in 1 .. Len(key) : key[j] # k
    BY <1>2, <1>3, SMTT(60)
  <2> QED
    BY <2>1 DEF HasPair
<1>10. Run(key2, sub2, lo, hi)
  BY <1>1, <1>4, <1>5, <1>6, <1>7 DEF Run
<1> QED
  BY <1>3, <1>4, <1>8, <1>9, <1>10 DEF key2, sub2, RunWith

\* What the two parts of a run are that is cut before the entry m + 1.
Parts(key, sub, lo, hi, m, n) ==
  /\ Run(SubSeq(key, 1, m), SubSeq(sub, 1, m), lo, key[m + 1])
  /\ Run(SubSeq(key, m + 1, n), SubSeq(sub, m + 1, n), key[m + 1], hi)
  /\ Len(SubSeq(key, 1, m)) = m /\ Len(SubSeq(key, m + 1, n)) = n - m
  /\ key[m + 1] \in Keys /\ lo <= key[m + 1] /\ key[m + 1] < hi
  /\ m > 0 => lo < key[m + 1]
  /\ \A l, e : HasPair(key, sub, l, e)
                 <=> \/ HasPair(SubSeq(key, 1, m), SubSeq(sub, 1, m), l, e)
                     \/ HasPair(SubSeq(key, m + 1, n), SubSeq(sub, m + 1, n), l, e)

\* A run cut in two.
LEMMA RunCut ==
  ASSUME NEW key, NEW sub, NEW lo \in Int, NEW hi \in Int, Run(key, sub, lo, hi),
         NEW m \in 0 .. Len(key) - 1, NEW n, n = Len(key)
  PROVE  Parts(key, sub, lo, hi, m, n)
<1>1. key \in Seq(Keys) /\ sub \in Seq(Item) /\ Len(sub) = Len(key) /\ Ascending(key)
      /\ \A j \in 1 .. Len(key) : lo <= key[j] /\ key[j] < hi
  BY DEF Run
<1>2. /\ n \in Nat /\ m \in Nat /\ m < n
      /\ \A j \in 1 .. n : key[j] \in Keys /\ key[j] \in Int
      /\ \A p, q \in 1 .. n : p < q => key[p] < key[q]
  BY <1>1, KeyIsInt DEF Ascending
<1> DEFINE k1 == SubSeq(key, 1, m)
           s1 == SubSeq(sub, 1, m)
           k2 == SubSeq(key, m + 1, n)
           s2 == SubSeq(sub, m + 1, n)
<1>3. k1 \in Seq(Keys) /\ Len(k1) = m /\ \A j \in 1 .. m : k1[j] = key[j]
  <2>1. /\ k1 \in Seq(Keys) /\ Len(k1) = m - 1 + 1
        /\ \A j \in 1 .. m - 1 + 1 : k1[j] = key[1 + j - 1]
    BY <1>1, <1>2, PartIs
  <2> HIDE DEF k1
  <2> QED
    BY <1>2, <2>1
<1>4. s1 \in Seq(Item) /\ Len(s1) = m /\ \A j \in 1 .. m : s1[j] = sub[j]
  <2>1. /\ s1 \in Seq(Item) /\ Len(s1) = m - 1 + 1
        /\ \A j \in 1 .. m - 1 + 1 : s1[j] = sub[1 + j - 1]
    BY <1>1, <1>2, PartIs
  <2> HIDE DEF s1
  <2> QED
    BY <1>2, <2>1
<1>5. k2 \in Seq(Keys) /\ Len(k2) = n - m /\ \A j \in 1 .. n - m : k2[j] = key[m + j]
  <2> DEFINE c == m + 1
  <2>0. c \in Int /\ 1 <= c /\ c <= n + 1 /\ n <= Len(key) /\ n \in Int
    BY <1>2
  <2> HIDE DEF c
  <2>1. /\ SubSeq(key, c, n) \in Seq(Keys) /\ Len(SubSeq(key, c, n)) = n - c + 1
        /\ \A j \in 1 .. n - c + 1 : SubSeq(key, c, n)[j] = key[c + j - 1]
    BY <1>1, <2>0, PartIs
  <2> DEFINE y == SubSeq(key, c, n)
  <2>2. /\ y \in Seq(Keys) /\ Len(y) = n - c + 1
        /\ \A j \in 1 .. n - c + 1 : y[j] = key[c + j - 1]
    BY <2>1
  <2>3. y = k2
    BY DEF c
  <2> HIDE DEF y, k2
  <2>4. n - c + 1 = n - m /\ \A j \in 1 .. n - m : c + j - 1 = m + j
    BY <1>2 DEF c
  <2> QED
    BY <2>2, <2>3, <2>4
<1>6. s2 \in Seq(Item) /\ Len(s2) = n - m /\ \A j \in 1 .. n - m : s2[j] = sub[m + j]
  <2> DEFINE c == m + 1
  <2>0. c \in Int /\ 1 <= c /\ c <= n + 1 /\ n <= Len(sub) /\ n \in Int
    BY <1>1, <1>2
  <2> HIDE DEF c
  <2>1. /\ SubSeq(sub, c, n) \in Seq(Item) /\ Len(SubSeq(sub, c, n)) = n - c + 1
        /\ \A j \in 1 .. n - c + 1 : SubSeq(sub, c, n)[j] = sub[c + j - 1]
    BY <1>1, <2>0, PartIs
  <2> DEFINE y == SubSeq(sub, c, n)
  <2>2. /\ y \in Seq(Item) /\ Len(y) = n - c + 1
        /\ \A j \in 1 .. n - c + 1 : y[j] = sub[c + j - 1]
    BY <2>1
  <2>3. y = s2
    BY DEF c
  <2> HIDE DEF y, s2
  <2>4. n - c + 1 = n - m /\ \A j \in 1 .. n - m : c + j - 1 = m + j
    BY <1>2 DEF c
  <2> QED
    BY <2>2, <2>3, <2>4
<1> HIDE DEF k1, s1, k2, s2
<1>7. key[m + 1] \in Keys /\ key[m + 1] \in Int /\ lo <= key[m + 1] /\ key[m + 1] < hi
  BY <1>1, <1>2
<1>8. m > 0 => lo < key[m + 1]
  <2>1. SUFFICES ASSUME m > 0 PROVE lo < key[m + 1]
    OBVIOUS
  <2>2. lo <= key[1] /\ key[1] < key[m + 1] /\ key[1] \in Int
    BY <1>1, <1>2, <2>1
  <2> QED
    BY <1>7, <2>2
<1>9. Run(k1, s1, lo, key[m + 1])
  <2>1. \A j \in 1 .. Len(k1) : lo <= k1[j] /\ k1[j] < key[m + 1]
    BY <1>1, <1>2, <1>3, SMTT(60)
  <2>2. Ascending(k1)
    BY <1>2, <1>3 DEF Ascending
  <2> QED
    BY <1>3, <1>4, <2>1, <2>2 DEF Run
<1>10. Run(k2, s2, key[m + 1], hi)
  <2>1. \A j \in 1 .. Len(k2) : key[m + 1] <= k2[j] /\ k2[j] < hi
    <3> TAKE j \in 1 .. Len(k2)
    <3>1. m + j \in 1 .. n /\ k2[j] = key[m + j] /\ m + 1 \in 1 .. n /\ (j = 1 \/ m + 1 < m + j)
      BY <1>2, <1>5
    <3>2. key[m + 1] <= key[m + j]
      BY <1>2, <3>1
    <3> QED
      BY <1>1, <3>1, <3>2
  <2>2. Ascending(k2)
    <3>1. SUFFICES ASSUME NEW p \in 1 .. Len(k2), NEW q \in 1 .. Len(k2), p < q
                   PROVE  k2[p] < k2[q]
      BY DEF Ascending
    <3>2. m + p \in 1 .. n /\ m + q \in 1 .. n /\ m + p < m + q
      BY <1>2, <1>5, <3>1
    <3> QED
      BY <1>2, <1>5, <3>1, <3>2
  <2> QED
    BY <1>5, <1>6, <2>1, <2>2 DEF Run
<1>11. ASSUME NEW l, NEW e
       PROVE  HasPair(key, sub, l, e) <=> HasPair(k1, s1, l, e) \/ HasPair(k2, s2, l, e)
  <2>1. ASSUME HasPair(key, sub, l, e) PROVE HasPair(k1, s1, l, e) \/ HasPair(k2, s2, l, e)
    <3>1. PICK j \in 1 .. n : key[j] = l /\ sub[j] = e
      BY <2>1 DEF HasPair
    <3>2. CASE j <= m
      <4>1. j \in 1 .. Len(k1) /\ k1[j] = l /\ s1[j] = e
        BY <1>2, <1>3, <1>4, <3>1, <3>2
      <4> QED
        BY <4>1 DEF HasPair
    <3>3. CASE j > m
      <4>1. j - m \in 1 .. Len(k2) /\ m + (j - m) = j
        BY <1>2, <1>5, <3>3
      <4>2. k2[j - m] = l /\ s2[j - m] = e
        BY <1>5, <1>6, <3>1, <4>1
      <4> QED
        BY <4>1, <4>2 DEF HasPair
    <3> QED
      BY <1>2, <3>2, <3>3
  <2>2. ASSUME HasPair(k1, s1, l, e) PROVE HasPair(key, sub, l, e)
    <3>1. PICK j \in 1 .. m : k1[j] = l /\ s1[j] = e
      BY <1>3, <2>2 DEF HasPair
    <3>2. j \in 1 .. Len(key) /\ key[j] = l /\ sub[j] = e
      BY <1>2, <1>3, <1>4, <3>1
    <3> QED
      BY <3>2 DEF HasPair
  <2>3. ASSUME HasPair(k2, s2, l, e) PROVE HasPair(key, sub, l, e)
    <3>1. PICK j \in 1 .. n - m : k2[j] = l /\ s2[j] = e
      BY <1>5, <2>3 DEF HasPair
    <3>2. m + j \in 1 .. Len(key) /\ key[m + j] = l /\ sub[m + j] = e
      BY <1>2, <1>5, <1>6, <3>1, SMTT(60)
    <3> QED
      BY <3>2 DEF HasPair
  <2> QED
    BY <2>1, <2>2, <2>3
<1> QED
  BY <1>3, <1>5, <1>7, <1>8, <1>9, <1>10, <1>11 DEF Parts, k1, s1, k2, s2

\* An entry taken out.
LEMMA RunRemove ==
  ASSUME NEW key, NEW sub, NEW lo \in Int, NEW hi \in Int, Run(key, sub, lo, hi),
         NEW i \in 1 .. Len(key)
  PROVE  /\ Run(RemoveAt(key, i), RemoveAt(sub, i), lo, hi)
         /\ Len(RemoveAt(key, i)) = Len(key) - 1
         /\ \A l, e : HasPair(RemoveAt(key, i), RemoveAt(sub, i), l, e)
                        <=> HasPair(key, sub, l, e) /\ l # key[i]
<1>1. key \in Seq(Keys) /\ sub \in Seq(Item) /\ Len(sub) = Len(key) /\ Ascending(key)
      /\ \A j \in 1 .. Len(key) : lo <= key[j] /\ key[j] < hi
  BY DEF Run
<1>2. /\ Len(key) \in Nat
      /\ \A j \in 1 .. Len(key) : key[j] \in Keys /\ key[j] \in Int
      /\ \A p, q \in 1 .. Len(key) : p < q => key[p] < key[q]
  BY <1>1, KeyIsInt DEF Ascending
<1> DEFINE key2 == RemoveAt(key, i)
           sub2 == RemoveAt(sub, i)
<1>3. /\ key2 \in Seq(Keys) /\ Len(key2) = Len(key) - 1
      /\ \A j \in 1 .. i - 1 : key2[j] = key[j]
      /\ \A j \in i .. Len(key) - 1 : key2[j] = key[j + 1]
  BY <1>1, RemoveAtIs
<1>4. /\ sub2 \in Seq(Item) /\ Len(sub2) = Len(key) - 1
      /\ \A j \in 1 .. i - 1 : sub2[j] = sub[j]
      /\ \A j \in i .. Len(key) - 1 : sub2[j] = sub[j + 1]
  <2>1. i \in 1 .. Len(sub) /\ sub \in Seq(Item)
    BY <1>1
  <2>2. /\ sub2 \in Seq(Item) /\ Len(sub2) = Len(sub) - 1
        /\ \A j \in 1 .. i - 1 : sub2[j] = sub[j]
        /\ \A j \in i .. Len(sub) - 1 : sub2[j] = sub[j + 1]
    BY <2>1, RemoveAtIs
  <2> HIDE DEF sub2
  <2> QED
    BY <1>1, <2>2
<1> HIDE DEF key2, sub2
<1>5. \A j \in 1 .. Len(key2) : \/ j \in 1 .. i - 1 /\ j \in 1 .. Len(key)
                                \/ j \in i .. Len(key) - 1 /\ j + 1 \in 1 .. Len(key)
  BY <1>2, <1>3
<1>6. \A j \in 1 .. Len(key2) : lo <= key2[j] /\ key2[j] < hi
  BY <1>1, <1>3, <1>5
<1>7. Ascending(key2)
  <2>1. SUFFICES ASSUME NEW p \in 1 .. Len(key2), NEW q \in 1 .. Len(key2), p < q
                 PROVE  key2[p] < key2[q]
    BY DEF Ascending
  <2>2. CASE q < i
    <3>1. p \in 1 .. i - 1 /\ q \in 1 .. i - 1 /\ p \in 1 .. Len(key) /\ q \in 1 .. Len(key)
      BY <1>2, <1>3, <2>1, <2>2
    <3> QED
      BY <1>2, <1>3, <2>1, <3>1
  <2>3. CASE p < i /\ q >= i
    <3>1. p \in 1 .. i - 1 /\ q \in i .. Len(key) - 1 /\ p \in 1 .. Len(key)
          /\ q + 1 \in 1 .. Len(key) /\ p < q + 1
      BY <1>2, <1>3, <2>1, <2>3
    <3> QED
      BY <1>2, <1>3, <3>1
  <2>4. CASE p >= i
    <3>1. p \in i .. Len(key) - 1 /\ q \in i .. Len(key) - 1 /\ p + 1 \in 1 .. Len(key)
          /\ q + 1 \in 1 .. Len(key) /\ p + 1 < q + 1
      BY <1>2, <1>3, <2>1, <2>4
    <3> QED
      BY <1>2, <1>3, <3>1
  <2> QED
    BY <1>2, <1>3, <2>1, <2>2, <2>3, <2>4
<1>8. ASSUME NEW l, NEW e
      PROVE  HasPair(key2, sub2, l, e) <=> HasPair(key, sub, l, e) /\ l # key[i]
  <2>1. ASSUME HasPair(key2, sub2, l, e) PROVE HasPair(key, sub, l, e) /\ l # key[i]
    <3>1. PICK j \in 1 .. Len(key2) : key2[j] = l /\ sub2[j] = e
      BY <2>1 DEF HasPair
    <3>2. CASE j \in 1 .. i - 1
      <4>1. j \in 1 .. Len(key) /\ key[j] = l /\ sub[j] = e /\ key[j] < key[i]
        BY <1>2, <1>3, <1>4, <1>5, <3>1, <3>2
      <4>2. key[j] # key[i]
        BY <1>2, <4>1
      <4> QED
        BY <4>1, <4>2 DEF HasPair
    <3>3. CASE j \in i .. Len(key) - 1
      <4> DEFINE q == j + 1
      <4>1. q \in 1 .. Len(key) /\ key[q] = l /\ sub[q] = e /\ i < q
        BY <1>2, <1>3, <1>4, <3>1, <3>3, SMTT(60)
      <4> HIDE DEF q
      <4>2. key[q] # key[i]
        BY <1>2, <4>1
      <4> QED
        BY <4>1, <4>2 DEF HasPair
    <3> QED
      BY <1>5, <3>2, <3>3
  <2>2. ASSUME HasPair(key, sub, l, e), l # key[i] PROVE HasPair(key2, sub2, l, e)
    <3>1. PICK j \in 1 .. Len(key) : key[j] = l /\ sub[j] = e
      BY <2>2 DEF HasPair
    <3>2. CASE j < i
      <4>1. j \in 1 .. i - 1 /\ j \in 1 .. Len(key2)
        BY <1>2, <1>3, <3>2
      <4>2. key2[j] = l /\ sub2[j] = e
        BY <1>3, <1>4, <3>1, <4>1
      <4> QED
        BY <4>1, <4>2 DEF HasPair
    <3>3. CASE j > i
      <4> DEFINE q == j - 1
      <4>1. q \in i .. Len(key) - 1 /\ q \in 1 .. Len(key2) /\ q + 1 = j
        BY <1>2, <1>3, <3>3
      <4> HIDE DEF q
      <4>2. key2[q] = l /\ sub2[q] = e
        BY <1>3, <1>4, <3>1, <4>1
      <4> QED
        BY <4>1, <4>2 DEF HasPair
    <3> QED
      BY <2>2, <3>1, <3>2, <3>3
  <2> QED
    BY <2>1, <2>2
<1>9. Run(key2, sub2, lo, hi)
  BY <1>1, <1>3, <1>4, <1>6, <1>7 DEF Run
<1> QED
  BY <1>3, <1>8, <1>9 DEF key2, sub2

\* Two runs, the second where the first ends.
LEMMA RunJoin ==
  ASSUME NEW k1, NEW s1, NEW k2, NEW s2, NEW lo \in Int, NEW mid \in Int, NEW hi \in Int,
         Run(k1, s1, lo, mid), Run(k2, s2, mid, hi), lo <= mid, mid <= hi
  PROVE  /\ Run(k1 \o k2, s1 \o s2, lo, hi)
         /\ Len(k1 \o k2) = Len(k1) + Len(k2)
         /\ \A l, e : HasPair(k1 \o k2, s1 \o s2, l, e)
                        <=> HasPair(k1, s1, l, e) \/ HasPair(k2, s2, l, e)
<1>1. /\ k1 \in Seq(Keys) /\ s1 \in Seq(Item) /\ Len(s1) = Len(k1) /\ Ascending(k1)
      /\ \A j \in 1 .. Len(k1) : lo <= k1[j] /\ k1[j] < mid
      /\ k2 \in Seq(Keys) /\ s2 \in Seq(Item) /\ Len(s2) = Len(k2) /\ Ascending(k2)
      /\ \A j \in 1 .. Len(k2) : mid <= k2[j] /\ k2[j] < hi
  BY DEF Run
<1>2. /\ Len(k1) \in Nat /\ Len(k2) \in Nat
      /\ \A j \in 1 .. Len(k1) : k1[j] \in Int
      /\ \A j \in 1 .. Len(k2) : k2[j] \in Int
      /\ \A p, q \in 1 .. Len(k1) : p < q => k1[p] < k1[q]
      /\ \A p, q \in 1 .. Len(k2) : p < q => k2[p] < k2[q]
  BY <1>1, KeyIsInt DEF Ascending
<1> DEFINE k == k1 \o k2
           s == s1 \o s2
           a == Len(k1)
           b == Len(k2)
<1>3. /\ k \in Seq(Keys) /\ Len(k) = a + b
      /\ \A j \in 1 .. a + b : k[j] = IF j <= a THEN k1[j] ELSE k2[j - a]
  BY <1>1, JoinIs
<1>4. /\ s \in Seq(Item) /\ Len(s) = a + b
      /\ \A j \in 1 .. a + b : s[j] = IF j <= a THEN s1[j] ELSE s2[j - a]
  <2>1. s \in Seq(Item) /\ Len(s) = Len(s1) + Len(s2)
    BY <1>1, JoinIs
  <2>2. \A j \in 1 .. Len(s1) + Len(s2) : s[j] = IF j <= Len(s1) THEN s1[j] ELSE s2[j - Len(s1)]
    BY <1>1, JoinIs
  <2> HIDE DEF s
  <2> QED
    BY <1>1, <2>1, <2>2
<1>5. a \in Nat /\ b \in Nat
  BY <1>2
<1>6. /\ \A j \in 1 .. a : lo <= k1[j] /\ k1[j] < mid /\ k1[j] \in Int
      /\ \A j \in 1 .. b : mid <= k2[j] /\ k2[j] < hi /\ k2[j] \in Int
      /\ \A p, q \in 1 .. a : p < q => k1[p] < k1[q]
      /\ \A p, q \in 1 .. b : p < q => k2[p] < k2[q]
  BY <1>1, <1>2
<1> HIDE DEF k, s, a, b
<1>7. \A j \in 1 .. a + b : (j <= a /\ j \in 1 .. a) \/ (~ (j <= a) /\ j - a \in 1 .. b)
  BY <1>5
<1>8. \A j \in 1 .. a + b : lo <= k[j] /\ k[j] < hi
  <2> TAKE j \in 1 .. a + b
  <2>1. CASE j <= a /\ j \in 1 .. a
    BY <1>3, <1>6, <2>1
  <2>2. CASE ~ (j <= a) /\ j - a \in 1 .. b
    <3>1. k[j] = k2[j - a]
      BY <1>3, <2>2
    <3> QED
      BY <1>6, <2>2, <3>1
  <2> QED
    BY <1>7, <2>1, <2>2
<1>9. Ascending(k)
  <2>1. SUFFICES ASSUME NEW p \in 1 .. a + b, NEW q \in 1 .. a + b, p < q
                 PROVE  k[p] < k[q]
    BY <1>3 DEF Ascending
  <2>2. CASE q <= a
    <3>1. p \in 1 .. a /\ q \in 1 .. a /\ p <= a
      BY <1>5, <2>1, <2>2
    <3> QED
      BY <1>3, <1>6, <2>1, <2>2, <3>1
  <2>3. CASE p <= a /\ ~ (q <= a)
    <3>1. p \in 1 .. a /\ q - a \in 1 .. b
      BY <1>5, <2>3
    <3>2. k[p] = k1[p] /\ k[q] = k2[q - a]
      BY <1>3, <2>3
    <3> QED
      BY <1>6, <3>1, <3>2
  <2>4. CASE ~ (p <= a)
    <3>1. p - a \in 1 .. b /\ q - a \in 1 .. b /\ p - a < q - a /\ ~ (q <= a)
      BY <1>5, <2>1, <2>4
    <3>2. k[p] = k2[p - a] /\ k[q] = k2[q - a]
      BY <1>3, <2>4, <3>1
    <3> QED
      BY <1>6, <3>1, <3>2
  <2> QED
    BY <2>2, <2>3, <2>4
<1>10. ASSUME NEW l, NEW e
       PROVE  HasPair(k, s, l, e) <=> HasPair(k1, s1, l, e) \/ HasPair(k2, s2, l, e)
  <2>1. ASSUME HasPair(k, s, l, e) PROVE HasPair(k1, s1, l, e) \/ HasPair(k2, s2, l, e)
    <3>1. PICK j \in 1 .. a + b : k[j] = l /\ s[j] = e
      BY <1>3, <2>1 DEF HasPair
    <3>2. CASE j <= a /\ j \in 1 .. a
      BY <1>3, <1>4, <3>1, <3>2 DEF HasPair, a
    <3>3. CASE ~ (j <= a) /\ j - a \in 1 .. b
      <4> DEFINE q == j - a
      <4>1. q \in 1 .. b /\ k2[q] = l /\ s2[q] = e
        BY <1>3, <1>4, <3>1, <3>3
      <4> HIDE DEF q
      <4> QED
        BY <4>1 DEF HasPair, b
    <3> QED
      BY <1>7, <3>2, <3>3
  <2>2. ASSUME HasPair(k1, s1, l, e) PROVE HasPair(k, s, l, e)
    <3>1. PICK j \in 1 .. a : k1[j] = l /\ s1[j] = e
      BY <2>2 DEF HasPair, a
    <3>2. j \in 1 .. a + b /\ j <= a
      BY <1>5
    <3>3. j \in 1 .. Len(k) /\ k[j] = l /\ s[j] = e
      BY <1>3, <1>4, <3>1, <3>2
    <3> QED
      BY <3>3 DEF HasPair
  <2>3. ASSUME HasPair(k2, s2, l, e) PROVE HasPair(k, s, l, e)
    <3>1. PICK j \in 1 .. b : k2[j] = l /\ s2[j] = e
      BY <2>3 DEF HasPair, b
    <3> DEFINE q == a + j
    <3>2. q \in 1 .. a + b /\ ~ (q <= a) /\ q - a = j
      BY <1>5
    <3> HIDE DEF q
    <3>3. q \in 1 .. Len(k) /\ k[q] = l /\ s[q] = e
      BY <1>3, <1>4, <3>1, <3>2
    <3> QED
      BY <3>3 DEF HasPair
  <2> QED
    BY <2>1, <2>2, <2>3
<1>11. Len(s) = Len(k) /\ \A j \in 1 .. Len(k) : lo <= k[j] /\ k[j] < hi
  BY <1>3, <1>4, <1>8
<1>12. Run(k, s, lo, hi)
  BY <1>3, <1>4, <1>9, <1>11 DEF Run
<1> QED
  BY <1>3, <1>10, <1>12 DEF k, s, a, b

\* A key has one entry in a run.
LEMMA RunOnce ==
  ASSUME NEW key, NEW sub, NEW lo, NEW hi, Run(key, sub, lo, hi),
         NEW k, NEW d, NEW e, HasPair(key, sub, k, d), HasPair(key, sub, k, e)
  PROVE  d = e
<1>1. PICK i \in 1 .. Len(key) : key[i] = k /\ sub[i] = d
  BY DEF HasPair
<1>2. PICK j \in 1 .. Len(key) : key[j] = k /\ sub[j] = e
  BY DEF HasPair
<1>3. /\ \A p, q \in 1 .. Len(key) : p < q => key[p] < key[q]
      /\ \A p \in 1 .. Len(key) : key[p] \in Int
      /\ Len(key) \in Nat
  BY KeyIsInt DEF Run, Ascending
<1>4. i = j
  <2>1. ~ (i < j) /\ ~ (j < i)
    BY <1>1, <1>2, <1>3
  <2> QED
    BY <2>1
<1> QED
  BY <1>1, <1>2, <1>4

\* The ends of a sequence.
LEMMA EndsAre ==
  ASSUME NEW S, NEW s \in Seq(S), Len(s) >= 1
  PROVE  /\ Last(s) = s[Len(s)] /\ Last(s) \in S /\ Head(s) = s[1] /\ Head(s) \in S
         /\ Front(s) = SubSeq(s, 1, Len(s) - 1) /\ <<Last(s)>> = SubSeq(s, Len(s), Len(s))
         /\ Tail(s) = SubSeq(s, 2, Len(s)) /\ <<Head(s)>> = SubSeq(s, 1, 1)
<1> DEFINE n == Len(s)
<1>1. n \in Nat /\ n >= 1 /\ s[n] \in S /\ s[1] \in S
  OBVIOUS
<1>2. SubSeq(s, n, n) = <<s[n]>>
  <2>1. /\ SubSeq(s, n, n) \in Seq(S) /\ Len(SubSeq(s, n, n)) = n - n + 1
        /\ \A j \in 1 .. n - n + 1 : SubSeq(s, n, n)[j] = s[n + j - 1]
    <3>1. n \in Int /\ 1 <= n /\ n <= Len(s) /\ n <= n + 1
      BY <1>1
    <3> HIDE DEF n
    <3> QED
      BY <3>1, PartIs
  <2> DEFINE y == SubSeq(s, n, n)
  <2>2. y \in Seq(S) /\ Len(y) = 1 /\ y[1] = s[n]
    BY <1>1, <2>1
  <2> HIDE DEF y, n
  <2>3. y = <<s[n]>>
    BY <2>2
  <2> QED
    BY <2>3 DEF y
<1>3. SubSeq(s, 1, 1) = <<s[1]>>
  <2>1. /\ SubSeq(s, 1, 1) \in Seq(S) /\ Len(SubSeq(s, 1, 1)) = 1 - 1 + 1
        /\ \A j \in 1 .. 1 - 1 + 1 : SubSeq(s, 1, 1)[j] = s[1 + j - 1]
    BY <1>1, PartIs
  <2> DEFINE y == SubSeq(s, 1, 1)
  <2>2. y \in Seq(S) /\ Len(y) = 1 /\ y[1] = s[1]
    BY <2>1
  <2> HIDE DEF y, n
  <2>3. y = <<s[1]>>
    BY <2>2
  <2> QED
    BY <2>3 DEF y
<1>4. Tail(s) = SubSeq(s, 2, n)
  BY <1>1 DEF Tail
<1>5. Head(s) = s[1]
  BY <1>1
<1> QED
  BY <1>1, <1>2, <1>3, <1>4, <1>5 DEF Last, Front

\* The bounds between the children of an inner node, and its children between them.
Fence(key, sub, lo, hi, j) == IF j = 0 THEN lo ELSE IF j = Len(sub) THEN hi ELSE key[j]

Fan(D, g, key, sub, lo, hi, d) ==
  /\ key \in Seq(Keys) /\ sub \in Seq(Item) /\ Len(sub) = Len(key) + 1
  /\ \A i, j \in 0 .. Len(sub) : i < j => Fence(key, sub, lo, hi, i) < Fence(key, sub, lo, hi, j)
  /\ \A j \in 1 .. Len(sub) :
       /\ sub[j] \in D /\ d = g[sub[j]].dep + 1
       /\ g[sub[j]].lo = Fence(key, sub, lo, hi, j - 1)
       /\ g[sub[j]].hi = Fence(key, sub, lo, hi, j)

\* What holds of an inner node, said of its keys and children alone.
LEMMA InnerFan ==
  ASSUME NEW h, HeapOK(h), NEW g, NEW n \in DOMAIN h
  PROVE  InnerOK(h, g, n) <=> Fan(DOMAIN h, g, h[n].key, h[n].sub, g[n].lo, g[n].hi, g[n].dep)
<1>1. h[n].key \in Seq(Keys) /\ h[n].sub \in Seq(Item)
  BY NodeFields
<1>2. \A j : Bound(h, g, n, j) = Fence(h[n].key, h[n].sub, g[n].lo, g[n].hi, j)
  BY DEF Bound, Fence
<1>3. InnerOK(h, g, n) => Fan(DOMAIN h, g, h[n].key, h[n].sub, g[n].lo, g[n].hi, g[n].dep)
  BY <1>1, <1>2 DEF InnerOK, Fan
<1>4. Fan(DOMAIN h, g, h[n].key, h[n].sub, g[n].lo, g[n].hi, g[n].dep) => InnerOK(h, g, n)
  BY <1>1, <1>2 DEF InnerOK, Fan
<1> QED
  BY <1>3, <1>4

\* The keys around a child are numbers.
LEMMA FenceIsInt ==
  ASSUME NEW key \in Seq(Keys), NEW sub, Len(sub) = Len(key) + 1, NEW lo \in Int, NEW hi \in Int,
         NEW j \in 0 .. Len(sub)
  PROVE  Fence(key, sub, lo, hi, j) \in Int
<1>1. Len(key) \in Nat /\ \A i \in 1 .. Len(key) : key[i] \in Int
  BY KeyIsInt
<1> QED
  BY <1>1 DEF Fence

\* The two halves of a fan that is cut behind its child c.
FansOf(D, g, key, sub, lo, hi, d, k1, s1, k2, s2, c, n, s) ==
  /\ Fan(D, g, k1, s1, lo, s, d) /\ Fan(D, g, k2, s2, s, hi, d)
  /\ Len(s1) = c /\ Len(s2) = n + 1 - c
  /\ \A j \in 1 .. c : s1[j] = sub[j]
  /\ \A j \in 1 .. n + 1 - c : s2[j] = sub[c + j]
  /\ s \in Keys /\ lo < s /\ s < hi

\* The two halves of an inner node that is cut, its middle key going up.
LEMMA FanCutAt ==
  ASSUME NEW D, NEW g, NEW key, NEW sub, NEW lo \in Int, NEW hi \in Int, NEW d,
         Fan(D, g, key, sub, lo, hi, d), NEW c \in 1 .. Len(key), NEW n, n = Len(key),
         NEW k1, k1 = SubSeq(key, 1, c - 1), NEW s1, s1 = SubSeq(sub, 1, c),
         NEW k2, k2 = SubSeq(key, c + 1, n), NEW s2, s2 = SubSeq(sub, c + 1, n + 1),
         NEW s, s = key[c]
  PROVE  FansOf(D, g, key, sub, lo, hi, d, k1, s1, k2, s2, c, n, s)
<1>1. /\ key \in Seq(Keys) /\ sub \in Seq(Item) /\ Len(sub) = Len(key) + 1
      /\ \A i, j \in 0 .. Len(sub) : i < j => Fence(key, sub, lo, hi, i) < Fence(key, sub, lo, hi, j)
      /\ \A j \in 1 .. Len(sub) :
           /\ sub[j] \in D /\ d = g[sub[j]].dep + 1
           /\ g[sub[j]].lo = Fence(key, sub, lo, hi, j - 1)
           /\ g[sub[j]].hi = Fence(key, sub, lo, hi, j)
  BY DEF Fan
<1>2. n \in Nat /\ Len(sub) = n + 1 /\ \A j \in 1 .. n : key[j] \in Keys /\ key[j] \in Int
  BY <1>1, KeyIsInt
<1> DEFINE c1 == c + 1
           b == c - 1
           n1 == n + 1
           m == n + 1 - c
<1>3. c \in 1 .. n /\ c \in Int /\ c1 \in Int /\ b \in Int /\ n1 \in Int /\ n \in Int
  BY <1>2
<1>0. /\ k1 = SubSeq(key, 1, b) /\ s1 = SubSeq(sub, 1, c)
      /\ k2 = SubSeq(key, c1, n) /\ s2 = SubSeq(sub, c1, n1)
  OBVIOUS
<1>4. k1 \in Seq(Keys) /\ Len(k1) = c - 1 /\ \A j \in 1 .. c - 1 : k1[j] = key[j]
  <2>1. 1 <= 1 /\ b <= Len(key) /\ 1 <= b + 1
    BY <1>2, <1>3
  <2> HIDE DEF b
  <2>2. /\ k1 \in Seq(Keys) /\ Len(k1) = b - 1 + 1
        /\ \A j \in 1 .. b - 1 + 1 : k1[j] = key[1 + j - 1]
    BY <1>0, <1>1, <1>3, <2>1, PartIs
  <2>3. b - 1 + 1 = c - 1 /\ \A j \in 1 .. c - 1 : 1 + j - 1 = j
    BY <1>3 DEF b
  <2> QED
    BY <2>2, <2>3
<1>5. s1 \in Seq(Item) /\ Len(s1) = c /\ \A j \in 1 .. c : s1[j] = sub[j]
  <2>1. c <= Len(sub) /\ 1 <= c + 1
    BY <1>2, <1>3
  <2>2. /\ s1 \in Seq(Item) /\ Len(s1) = c - 1 + 1
        /\ \A j \in 1 .. c - 1 + 1 : s1[j] = sub[1 + j - 1]
    BY <1>0, <1>1, <1>3, <2>1, PartIs
  <2>3. c - 1 + 1 = c /\ \A j \in 1 .. c : 1 + j - 1 = j
    BY <1>3
  <2> QED
    BY <2>2, <2>3
<1>6. k2 \in Seq(Keys) /\ Len(k2) = n - c /\ \A j \in 1 .. n - c : k2[j] = key[c + j]
  <2>1. 1 <= c1 /\ n <= Len(key) /\ c1 <= n + 1
    BY <1>2, <1>3
  <2> HIDE DEF c1
  <2>2. /\ k2 \in Seq(Keys) /\ Len(k2) = n - c1 + 1
        /\ \A j \in 1 .. n - c1 + 1 : k2[j] = key[c1 + j - 1]
    <3>1. k2 = SubSeq(key, c1, n) /\ key \in Seq(Keys) /\ c1 \in Int /\ n \in Int /\ 1 <= c1 /\ n <= Len(key) /\ c1 <= n + 1
      BY <1>0, <1>1, <1>3, <2>1
    <3> QED
      BY ONLY <3>1, PartIs
  <2>3. n - c1 + 1 = n - c /\ \A j \in 1 .. n - c : c1 + j - 1 = c + j
    BY <1>3 DEF c1
  <2> QED
    BY <2>2, <2>3
<1>7. s2 \in Seq(Item) /\ Len(s2) = m /\ \A j \in 1 .. m : s2[j] = sub[c + j]
  <2>1. 1 <= c1 /\ n1 <= Len(sub) /\ c1 <= n1 + 1
    BY <1>2, <1>3
  <2> HIDE DEF c1, n1
  <2>2. /\ s2 \in Seq(Item) /\ Len(s2) = n1 - c1 + 1
        /\ \A j \in 1 .. n1 - c1 + 1 : s2[j] = sub[c1 + j - 1]
    <3>1. s2 = SubSeq(sub, c1, n1) /\ sub \in Seq(Item) /\ c1 \in Int /\ n1 \in Int
          /\ 1 <= c1 /\ n1 <= Len(sub) /\ c1 <= n1 + 1
      BY <1>0, <1>1, <1>3, <2>1
    <3> QED
      BY ONLY <3>1, PartIs
  <2>3. n1 - c1 + 1 = m /\ \A j \in 1 .. m : c1 + j - 1 = c + j
    BY <1>3 DEF c1, n1
  <2> QED
    BY <2>2, <2>3
<1> DEFINE F(j) == Fence(key, sub, lo, hi, j)
           F1(j) == Fence(k1, s1, lo, key[c], j)
           F2(j) == Fence(k2, s2, key[c], hi, j)
<1>8. \A j \in 0 .. c : F1(j) = F(j)
  BY <1>2, <1>3, <1>4, <1>5 DEF Fence
<1>9. \A j \in 0 .. m : F2(j) = F(c + j)
  <2> TAKE j \in 0 .. m
  <2>1. CASE j = 0
    BY <1>2, <1>3, <1>7, <2>1 DEF Fence
  <2>2. CASE j = m
    <3>1. c + j = Len(sub) /\ j # 0 /\ c + j # 0
      BY <1>2, <1>3, <2>2
    <3> QED
      BY <1>7, <2>2, <3>1 DEF Fence
  <2>3. CASE j # 0 /\ j # m
    <3>1. j \in 1 .. n - c /\ c + j # Len(sub) /\ c + j # 0
      <4>1. n \in Int /\ c \in Int /\ 1 <= c /\ j \in Int /\ 0 <= j /\ j <= n + 1 - c /\ j # 0
            /\ j # n + 1 - c /\ Len(sub) = n + 1
        BY <1>2, <1>3, <2>3
      <4> QED
        BY ONLY <4>1
    <3> QED
      BY <1>6, <1>7, <2>3, <3>1 DEF Fence
  <2> QED
    BY <2>1, <2>2, <2>3
<1>10. F(c) = key[c] /\ F(0) = lo /\ F(n + 1) = hi
  BY <1>2, <1>3 DEF Fence
<1>11. /\ \A i, j \in 0 .. n + 1 : i < j => F(i) < F(j)
       /\ \A j \in 1 .. n + 1 :
            /\ sub[j] \in D /\ d = g[sub[j]].dep + 1
            /\ g[sub[j]].lo = F(j - 1) /\ g[sub[j]].hi = F(j)
  BY <1>1, <1>2
<1> HIDE DEF F, F1, F2
<1>12. lo < key[c] /\ key[c] < hi /\ key[c] \in Keys
  BY <1>2, <1>3, <1>10, <1>11
<1>13. /\ \A i, j \in 0 .. c : i < j => F1(i) < F1(j)
       /\ \A j \in 1 .. c :
            /\ s1[j] \in D /\ d = g[s1[j]].dep + 1
            /\ g[s1[j]].lo = F1(j - 1) /\ g[s1[j]].hi = F1(j)
  <2>1. \A j \in 0 .. c : j \in 0 .. n + 1
    BY <1>2, <1>3
  <2>2. \A i, j \in 0 .. c : i < j => F1(i) < F1(j)
    BY <1>8, <1>11, <2>1
  <2>3. \A j \in 1 .. c : j \in 1 .. n + 1 /\ j - 1 \in 0 .. c /\ j \in 0 .. c
    BY <1>2, <1>3
  <2> QED
    BY <1>5, <1>8, <1>11, <2>2, <2>3
<1>14. /\ \A i, j \in 0 .. m : i < j => F2(i) < F2(j)
       /\ \A j \in 1 .. m :
            /\ s2[j] \in D /\ d = g[s2[j]].dep + 1
            /\ g[s2[j]].lo = F2(j - 1) /\ g[s2[j]].hi = F2(j)
  <2>1. \A j \in 0 .. m : c + j \in 0 .. n + 1
    BY <1>2, <1>3
  <2>2. \A i, j \in 0 .. m : i < j => F2(i) < F2(j)
    <3> TAKE i, j \in 0 .. m
    <3>1. i < j => c + i < c + j
      BY <1>3
    <3> QED
      BY <1>9, <1>11, <2>1, <3>1
  <2>3. \A j \in 1 .. m : c + j \in 1 .. n + 1 /\ j - 1 \in 0 .. m /\ j \in 0 .. m
                          /\ c + (j - 1) = c + j - 1
    BY <1>2, <1>3
  <2>4. ASSUME NEW j \in 1 .. m
        PROVE  /\ s2[j] \in D /\ d = g[s2[j]].dep + 1
               /\ g[s2[j]].lo = F2(j - 1) /\ g[s2[j]].hi = F2(j)
    <3> DEFINE q == c + j
    <3>1. q \in 1 .. n + 1 /\ s2[j] = sub[q] /\ F2(j) = F(q)
      BY <1>7, <1>9, <2>3
    <3>2. F2(j - 1) = F(q - 1)
      <4>1. j - 1 \in 0 .. m /\ c + (j - 1) = q - 1
        BY <2>3
      <4>2. F2(j - 1) = F(c + (j - 1))
        BY <1>9, <4>1
      <4> QED
        BY <4>1, <4>2
    <3> HIDE DEF q
    <3> QED
      BY <1>11, <3>1, <3>2
  <2> QED
    BY <2>2, <2>4
<1>15. Fan(D, g, k1, s1, lo, key[c], d)
  <2>1. Len(s1) = Len(k1) + 1
    BY <1>3, <1>4, <1>5
  <2> QED
    BY <1>4, <1>5, <1>13, <2>1 DEF Fan, F1
<1>16. Fan(D, g, k2, s2, key[c], hi, d)
  <2>1. Len(s2) = Len(k2) + 1
    <3>1. n \in Int /\ c \in Int /\ Len(s2) = n + 1 - c /\ Len(k2) = n - c
      BY <1>3, <1>6, <1>7
    <3> QED
      BY ONLY <3>1
  <2> QED
    BY <1>6, <1>7, <1>14, <2>1, ZenonT(60) DEF Fan, F2
<1> QED
  BY <1>5, <1>7, <1>12, <1>15, <1>16 DEF FansOf

\* Two fans, the second where the first ends, with the bound between them.
LEMMA FanJoin ==
  ASSUME NEW D, NEW g, NEW k1, NEW s1, NEW k2, NEW s2,
         NEW lo \in Int, NEW mid \in Keys, NEW hi \in Int, NEW d,
         Fan(D, g, k1, s1, lo, mid, d), Fan(D, g, k2, s2, mid, hi, d), lo < mid, mid < hi
  PROVE  /\ Fan(D, g, k1 \o <<mid>> \o k2, s1 \o s2, lo, hi, d)
         /\ Len(s1 \o s2) = Len(s1) + Len(s2)
         /\ \A j \in 1 .. Len(s1) : (s1 \o s2)[j] = s1[j]
         /\ \A j \in 1 .. Len(s2) : (s1 \o s2)[Len(s1) + j] = s2[j]
<1>1. /\ k1 \in Seq(Keys) /\ s1 \in Seq(Item) /\ Len(s1) = Len(k1) + 1
      /\ k2 \in Seq(Keys) /\ s2 \in Seq(Item) /\ Len(s2) = Len(k2) + 1
  BY DEF Fan
<1> DEFINE a == Len(s1)
           b == Len(s2)
           key == k1 \o <<mid>> \o k2
           sub == s1 \o s2
<1>2. /\ a \in Nat /\ b \in Nat /\ a >= 1 /\ b >= 1 /\ Len(k1) = a - 1 /\ Len(k2) = b - 1
      /\ mid \in Int
  BY <1>1, TreeKeysAssumption
<1>3. /\ key \in Seq(Keys) /\ Len(key) = a + b - 1
      /\ \A j \in 1 .. a - 1 : key[j] = k1[j]
      /\ key[a] = mid
      /\ \A j \in 1 .. b - 1 : key[a + j] = k2[j]
  <2> DEFINE y == k1 \o <<mid>>
  <2>1. <<mid>> \in Seq(Keys) /\ Len(<<mid>>) = 1 /\ <<mid>>[1] = mid
    OBVIOUS
  <2>2. /\ y \in Seq(Keys) /\ Len(y) = Len(k1) + 1
        /\ \A j \in 1 .. Len(k1) + 1 : y[j] = IF j <= Len(k1) THEN k1[j] ELSE <<mid>>[j - Len(k1)]
    <3> DEFINE o == <<mid>>
    <3>1. o \in Seq(Keys) /\ Len(o) = 1
      BY <2>1
    <3> HIDE DEF o
    <3>2. /\ k1 \o o \in Seq(Keys) /\ Len(k1 \o o) = Len(k1) + Len(o)
          /\ \A j \in 1 .. Len(k1) + Len(o) :
               (k1 \o o)[j] = IF j <= Len(k1) THEN k1[j] ELSE o[j - Len(k1)]
      BY <1>1, <3>1, JoinIs
    <3> QED
      BY <3>1, <3>2 DEF o
  <2> HIDE DEF y
  <2>3. y \in Seq(Keys) /\ Len(y) = a /\ (\A j \in 1 .. a - 1 : y[j] = k1[j]) /\ y[a] = mid
    <3>1. /\ \A j \in 1 .. a - 1 : j \in 1 .. Len(k1) + 1 /\ j <= Len(k1)
          /\ a \in 1 .. Len(k1) + 1 /\ ~ (a <= Len(k1)) /\ a - Len(k1) = 1
      BY <1>2
    <3>2. \A j \in 1 .. a - 1 : y[j] = k1[j]
      BY <2>2, <3>1
    <3>3. y[a] = mid
      BY <2>1, <2>2, <3>1
    <3>4. Len(y) = a
      BY <1>2, <2>2
    <3> QED
      BY <2>2, <3>2, <3>3, <3>4
  <2>4. /\ y \o k2 \in Seq(Keys) /\ Len(y \o k2) = a + Len(k2)
        /\ \A j \in 1 .. a + Len(k2) : (y \o k2)[j] = IF j <= a THEN y[j] ELSE k2[j - a]
    <3> HIDE DEF a
    <3>1. y \in Seq(Keys) /\ k2 \in Seq(Keys) /\ Len(y) = a
      BY <1>1, <2>3
    <3>2. /\ y \o k2 \in Seq(Keys) /\ Len(y \o k2) = Len(y) + Len(k2)
          /\ \A j \in 1 .. Len(y) + Len(k2) :
               (y \o k2)[j] = IF j <= Len(y) THEN y[j] ELSE k2[j - Len(y)]
      BY ONLY <3>1, JoinIs
    <3> QED
      BY <3>1, <3>2
  <2>5. key = y \o k2
    BY DEF y
  <2> HIDE DEF key
  <2>6. Len(key) = a + b - 1 /\ key \in Seq(Keys)
    BY <1>2, <2>4, <2>5
  <2>7. \A j \in 1 .. a - 1 : j \in 1 .. a + Len(k2) /\ j <= a
    BY <1>2
  <2>8. a \in 1 .. a + Len(k2) /\ a <= a
    BY <1>2
  <2>9. \A j \in 1 .. b - 1 : a + j \in 1 .. a + Len(k2) /\ ~ (a + j <= a) /\ a + j - a = j
    BY <1>2
  <2> HIDE DEF a, b
  <2>10. \A j \in 1 .. a - 1 : key[j] = k1[j]
    BY <2>3, <2>4, <2>5, <2>7
  <2>11. key[a] = mid
    BY <2>3, <2>4, <2>5, <2>8
  <2>12. \A j \in 1 .. b - 1 : key[a + j] = k2[j]
    <3> TAKE j \in 1 .. b - 1
    <3> DEFINE q == a + j
    <3>1. q \in 1 .. a + Len(k2) /\ ~ (q <= a) /\ q - a = j
      BY <1>2
    <3> HIDE DEF q
    <3>2. key[q] = k2[q - a]
      BY <2>4, <2>5, <3>1
    <3> QED
      BY <3>1, <3>2 DEF q
  <2> QED
    BY <2>6, <2>10, <2>11, <2>12
<1>4. /\ sub \in Seq(Item) /\ Len(sub) = a + b
      /\ \A j \in 1 .. a : sub[j] = s1[j]
      /\ \A j \in 1 .. b : sub[a + j] = s2[j]
  <2>1. /\ sub \in Seq(Item) /\ Len(sub) = a + b
        /\ \A j \in 1 .. a + b : sub[j] = IF j <= a THEN s1[j] ELSE s2[j - a]
    BY <1>1, JoinIs
  <2> HIDE DEF sub, a, b
  <2>2. /\ \A j \in 1 .. a : j \in 1 .. a + b /\ j <= a
        /\ \A j \in 1 .. b : a + j \in 1 .. a + b /\ ~ (a + j <= a) /\ a + j - a = j
    BY <1>2
  <2>3. \A j \in 1 .. a : sub[j] = s1[j]
    BY <2>1, <2>2
  <2>4. \A j \in 1 .. b : sub[a + j] = s2[j]
    <3> TAKE j \in 1 .. b
    <3> DEFINE q == a + j
    <3>1. q \in 1 .. a + b /\ ~ (q <= a) /\ q - a = j
      BY <1>2
    <3> HIDE DEF q
    <3>2. sub[q] = s2[q - a]
      BY <2>1, <3>1
    <3> QED
      BY <3>1, <3>2 DEF q
  <2> QED
    BY <2>1, <2>3, <2>4
<1> DEFINE F(j) == Fence(key, sub, lo, hi, j)
           F1(j) == Fence(k1, s1, lo, mid, j)
           F2(j) == Fence(k2, s2, mid, hi, j)
<1>5. /\ \A i, j \in 0 .. a : i < j => F1(i) < F1(j)
      /\ \A j \in 1 .. a :
            /\ s1[j] \in D /\ d = g[s1[j]].dep + 1
            /\ g[s1[j]].lo = F1(j - 1) /\ g[s1[j]].hi = F1(j)
      /\ \A i, j \in 0 .. b : i < j => F2(i) < F2(j)
      /\ \A j \in 1 .. b :
            /\ s2[j] \in D /\ d = g[s2[j]].dep + 1
            /\ g[s2[j]].lo = F2(j - 1) /\ g[s2[j]].hi = F2(j)
  BY DEF Fan
<1>6. (\A j \in 0 .. a : F1(j) \in Int) /\ (\A j \in 0 .. b : F2(j) \in Int)
  BY <1>1, <1>2, FenceIsInt
<1>7. F1(a) = mid /\ F2(0) = mid
  BY <1>2 DEF Fence
<1> HIDE DEF key, sub
<1>8. \A j \in 0 .. a : F(j) = F1(j)
  <2> TAKE j \in 0 .. a
  <2> HIDE DEF a, b
  <2>1. CASE j = 0
    BY <2>1 DEF Fence
  <2>2. CASE j # 0 /\ j # a
    <3>1. j \in 1 .. a - 1 /\ j # Len(sub)
      BY <1>2, <1>4, <2>2
    <3> QED
      BY <1>3, <2>2, <3>1 DEF Fence, a
  <2>3. CASE j # 0 /\ j = a
    <3>1. j # Len(sub)
      BY <1>2, <1>4, <2>3
    <3> QED
      BY <1>3, <2>3, <3>1 DEF Fence, a
  <2> QED
    BY <2>1, <2>2, <2>3
<1>9. \A j \in 0 .. b : F(a + j) = F2(j)
  <2> TAKE j \in 0 .. b
  <2> HIDE DEF a, b
  <2>1. CASE j = 0
    <3>1. a + j = a /\ a # 0 /\ a # Len(sub)
      BY <1>2, <1>4, <2>1
    <3> QED
      BY <1>3, <2>1, <3>1 DEF Fence
  <2>2. CASE j # 0 /\ j # b
    <3>1. j \in 1 .. b - 1 /\ a + j # 0 /\ a + j # Len(sub)
      BY <1>2, <1>4, <2>2
    <3> QED
      BY <1>3, <2>2, <3>1 DEF Fence, b
  <2>3. CASE j # 0 /\ j = b
    <3>1. a + j # 0 /\ a + j = Len(sub)
      BY <1>2, <1>4, <2>3
    <3> QED
      BY <2>3, <3>1 DEF Fence, b
  <2> QED
    BY <2>1, <2>2, <2>3
<1> HIDE DEF F, F1, F2, a, b
<1>10. \A j \in 0 .. a + b : j \in 0 .. a \/ (j - a \in 0 .. b /\ j = a + (j - a))
  BY <1>2
<1>11. \A i, j \in 0 .. a + b : i < j => F(i) < F(j)
  <2>1. SUFFICES ASSUME NEW i \in 0 .. a + b, NEW j \in 0 .. a + b, i < j PROVE F(i) < F(j)
    OBVIOUS
  <2>2. CASE j \in 0 .. a
    <3>1. i \in 0 .. a
      BY <1>2, <2>1, <2>2
    <3> QED
      BY <1>5, <1>8, <2>1, <2>2, <3>1
  <2>3. CASE j \notin 0 .. a /\ i \in 0 .. a
    <3> DEFINE q == j - a
    <3>1. q \in 0 .. b /\ j = a + q /\ 0 < q /\ 0 \in 0 .. b /\ a \in 0 .. a
      BY <1>2, <2>3
    <3> HIDE DEF q
    <3>2. F2(0) < F2(q)
      BY <1>5, <3>1
    <3>3. i = a \/ F1(i) < F1(a)
      BY <1>2, <1>5, <2>3, <3>1
    <3>4. F(i) = F1(i) /\ F(j) = F2(q) /\ F1(i) \in Int /\ F2(q) \in Int
      BY <1>6, <1>8, <1>9, <2>3, <3>1
    <3> QED
      BY <1>2, <1>7, <3>2, <3>3, <3>4
  <2>4. CASE i \notin 0 .. a
    <3> DEFINE q == j - a
               p == i - a
    <3>1. q \in 0 .. b /\ j = a + q /\ p \in 0 .. b /\ i = a + p /\ p < q
      BY <1>2, <2>1, <2>4
    <3> HIDE DEF q, p
    <3> QED
      BY <1>5, <1>9, <3>1
  <2> QED
    BY <2>2, <2>3, <2>4
<1>12. ASSUME NEW j \in 1 .. a + b
       PROVE  /\ sub[j] \in D /\ d = g[sub[j]].dep + 1
              /\ g[sub[j]].lo = F(j - 1) /\ g[sub[j]].hi = F(j)
  <2>1. CASE j <= a
    <3>1. j \in 1 .. a /\ j \in 0 .. a /\ j - 1 \in 0 .. a
      BY <1>2, <2>1
    <3> QED
      BY <1>4, <1>5, <1>8, <3>1
  <2>2. CASE j > a
    <3> DEFINE q == j - a
    <3>1. q \in 1 .. b /\ q \in 0 .. b /\ q - 1 \in 0 .. b /\ j = a + q /\ j - 1 = a + (q - 1)
      BY <1>2, <2>2
    <3> HIDE DEF q
    <3>2. sub[j] = s2[q] /\ F(j) = F2(q) /\ F(j - 1) = F2(q - 1)
      BY <1>4, <1>9, <3>1
    <3> QED
      BY <1>5, <3>1, <3>2
  <2> QED
    BY <1>2, <2>1, <2>2
<1>13. Fan(D, g, key, sub, lo, hi, d)
  <2>1. Len(sub) = Len(key) + 1 /\ Len(sub) = a + b
    BY <1>2, <1>3, <1>4, SMTT(60)
  <2> QED
    BY <1>3, <1>4, <1>11, <1>12, <2>1 DEF Fan, F
<1> QED
  BY <1>4, <1>13 DEF key, sub, a, b

\* A fan in another tree that has its children as they were.
LEMMA FanKept ==
  ASSUME NEW D, NEW g, NEW key, NEW sub, NEW lo, NEW hi, NEW d, Fan(D, g, key, sub, lo, hi, d),
         NEW E, NEW g2,
         \A j \in 1 .. Len(sub) : sub[j] \in E /\ g2[sub[j]] = g[sub[j]]
  PROVE  Fan(E, g2, key, sub, lo, hi, d)
BY DEF Fan

\* The size a node may have; the root rt may be smaller than half full.
Fits(h, rt, n) ==
  LET size == Len(h[n].sub) IN
  IF h[n].leaf
  THEN 1 <= size /\ size <= Entries /\ (n # rt => size >= Entries \div 2)
  ELSE 2 <= size /\ size <= Order /\ (n # rt => size >= Order \div 2)
Sizes(h, rt) == \A n \in DOMAIN h : Fits(h, rt, n)

\* Leaf n has an entry of key k with data d.
Has(h, n, k, d) == h[n].leaf /\ HasPair(h[n].key, h[n].sub, k, d)
Entry(h, k, d) == \E n \in DOMAIN h : Has(h, n, k, d)

\* The leaves hold the keys of the map c, with the data they were created with.
MapIs(h, c) == \A k, d : Entry(h, k, d) <=> k \in DOMAIN c /\ c[k].first = d

\* What holds of the tree, the sizes of its nodes and its entries at every step.
StateOK(h, w, rt, lv, ls, c) ==
  /\ \E g : TreeIs(h, w, rt, lv, ls, g)
  /\ Sizes(h, RootOf(h, w, rt))
  /\ MapIs(h, c)

\* What holds of a leaf, said of its entries alone.
LEMMA LeafRun ==
  ASSUME NEW h, HeapOK(h), NEW g, NEW n \in DOMAIN h
  PROVE  LeafOK(h, g, n) <=> Run(h[n].key, h[n].sub, g[n].lo, g[n].hi)
<1>1. h[n].key \in Seq(Keys) /\ h[n].sub \in Seq(Item)
  BY NodeFields
<1> QED
  BY <1>1 DEF LeafOK, Run, Ascending

\* A tree with no call pending.
LEMMA IdleTree ==
  ASSUME NEW h, NEW rt, NEW lv, NEW ls, NEW g
  PROVE  TreeIs(h, Idle, rt, lv, ls, g)
           <=> HeapOK(h) /\ Shape(h, g, rt, lv) /\ Links(h, rt) /\ Chain(ls, DOMAIN h, g)
<1>1. /\ Settled(h, Idle) = h /\ RootOf(h, Idle, rt) = rt /\ HeightOf(h, Idle, lv) = lv
      /\ ~ Tall(h, Idle) /\ WorkOK(h, Idle)
  BY IdleIs
<1>2. Shape(h, g, rt, lv) => rt \in DOMAIN h \cup {Null}
  BY DEF Shape
<1> QED
  BY <1>1, <1>2 DEF TreeIs

\* The leaf the descent for k ends at, and no other, may hold k.
LEMMA LeafOf ==
  ASSUME NEW g, TreeIs(heap, Idle, root, level, list, g), level < MaxLevel, root # Null,
         NEW k \in Keys
  PROVE  LET x == LeafFor(k) IN
         /\ x \in DOMAIN heap /\ heap[x].leaf
         /\ Run(heap[x].key, heap[x].sub, g[x].lo, g[x].hi)
         /\ Interval(g, x) /\ g[x].lo <= k /\ k < g[x].hi
         /\ \A m \in DOMAIN heap : \A d : m # x => ~ Has(heap, m, k, d)
         /\ Len(heap[x].sub) = Len(heap[x].key)
<1> DEFINE x == LeafFor(k)
<1>1. HeapOK(heap) /\ Shape(heap, g, root, level) /\ Links(heap, root)
      /\ Chain(list, DOMAIN heap, g)
  BY IdleTree
<1>2. k \in Int /\ Bottom <= k /\ k < Top
  BY BottomTop, TreeKeysAssumption
<1>3. x \in DOMAIN heap /\ heap[x].leaf /\ Holds(g, x, k)
  BY <1>1, <1>2, LeafForIs
<1> HIDE DEF x
<1>4. /\ Interval(g, x) /\ OwnOK(heap, g, x) /\ g[x].dep = 0
  BY <1>1, <1>3, DepthIs
<1>5. Run(heap[x].key, heap[x].sub, g[x].lo, g[x].hi)
  BY <1>1, <1>3, <1>4, LeafRun DEF OwnOK
<1>6. ASSUME NEW m \in DOMAIN heap, NEW d, m # x, Has(heap, m, k, d) PROVE FALSE
  <2>1. heap[m].leaf
    BY <1>6 DEF Has
  <2>2. Interval(g, m) /\ OwnOK(heap, g, m) /\ g[m].dep = 0
    BY <1>1, <2>1, DepthIs
  <2>3. Run(heap[m].key, heap[m].sub, g[m].lo, g[m].hi)
    BY <1>1, <2>1, <2>2, LeafRun DEF OwnOK
  <2>4. g[m].lo <= k /\ k < g[m].hi
    BY <1>6, <2>3 DEF Has, HasPair, Run
  <2>5. \A n \in DOMAIN heap : Interval(g, n)
    BY <1>1, DepthIs
  <2>6. g[m].dep \in DOMAIN list
    BY <1>1, <2>2, MaxLevelAssumption DEF Chain
  <2> DEFINE D == DOMAIN heap
  <2>7. Chain(list, D, g) /\ (\A n \in D : Interval(g, n)) /\ m \in D /\ x \in D
        /\ g[m].dep = g[x].dep
    BY <1>1, <1>3, <1>4, <2>2, <2>5
  <2> HIDE DEF D
  <2>8. g[m].hi <= g[x].lo \/ g[x].hi <= g[m].lo
    BY <1>6, <2>6, <2>7, ChainOrder
  <2> QED
    BY <1>2, <1>3, <1>4, <2>2, <2>4, <2>8 DEF Holds, Interval
<1>7. \A m \in DOMAIN heap : \A d : m # x => ~ Has(heap, m, k, d)
  BY <1>6
<1>8. Len(heap[x].sub) = Len(heap[x].key)
  BY <1>5 DEF Run
<1> QED
  BY <1>3, <1>4, <1>5, <1>7, <1>8 DEF x, Holds

\* Tree H is tree h but for the contents of node x.
Edited(h, H, x, key, sub) ==
  /\ DOMAIN H = DOMAIN h /\ H[x].leaf = h[x].leaf /\ H[x].key = key /\ H[x].sub = sub
  /\ \A m \in DOMAIN h \ {x} : H[m] = h[m]

\* The contents of one leaf change.
LEMMA LeafEdit ==
  ASSUME NEW h, NEW H, NEW rt, NEW lv, NEW ls, NEW g, TreeIs(h, Idle, rt, lv, ls, g),
         NEW x \in DOMAIN h, h[x].leaf, NEW key, NEW sub, Run(key, sub, g[x].lo, g[x].hi),
         H = SetNode(h, x, key, sub)
  PROVE  TreeIs(H, Idle, rt, lv, ls, g) /\ Edited(h, H, x, key, sub)
<1>1. HeapOK(h) /\ Shape(h, g, rt, lv) /\ Links(h, rt) /\ Chain(ls, DOMAIN h, g)
  BY IdleTree
<1>2. key \in Seq(Keys) /\ sub \in Seq(Item)
  BY DEF Run
<1>3. /\ HeapOK(H) /\ DOMAIN H = DOMAIN h
      /\ H[x].key = key /\ H[x].sub = sub /\ H[x].leaf = h[x].leaf
      /\ H[x].parent = h[x].parent /\ H[x].idx = h[x].idx
      /\ \A m \in DOMAIN h \ {x} : H[m] = h[m]
  <2> DEFINE y == SetNode(h, x, key, sub)
  <2>1. /\ HeapOK(y) /\ DOMAIN y = DOMAIN h
        /\ y[x].key = key /\ y[x].sub = sub /\ y[x].leaf = h[x].leaf
        /\ y[x].parent = h[x].parent /\ y[x].idx = h[x].idx
        /\ \A m \in DOMAIN h \ {x} : y[m] = h[m]
    <3>1. HeapOK(h) /\ x \in DOMAIN h /\ key \in Seq(Keys) /\ sub \in Seq(Item)
      BY <1>1, <1>2
    <3> QED
      BY ONLY <3>1, SetNodeIs
  <2>2. H = y
    OBVIOUS
  <2> HIDE DEF y
  <2> QED
    BY <2>1, <2>2
<1>4. OwnOK(H, g, x)
  BY <1>3, LeafRun DEF OwnOK
<1>5. Shape(H, g, rt, lv)
  <2>1. \A m \in DOMAIN h \ {x} : Same(h, H, m)
    BY <1>3 DEF Same
  <2> QED
    BY <1>1, <1>3, <1>4, <2>1, LeafShape
<1>6. Links(H, rt)
  <2>1. \A m \in DOMAIN h : SameLink(h, H, m)
    BY <1>3 DEF SameLink
  <2>2. ASSUME NEW p \in DOMAIN H PROVE KidsOf(H, p)
    <3>1. SUFFICES ASSUME ~ H[p].leaf, NEW i \in 1 .. Len(H[p].sub)
                   PROVE  H[H[p].sub[i]].parent = p /\ H[H[p].sub[i]].idx = i - 2
      BY DEF KidsOf
    <3>2. H[p] = h[p] /\ p \in DOMAIN h
      BY <1>3, <3>1
    <3>3. h[p].sub[i] \in DOMAIN h /\ h[h[p].sub[i]].parent = p /\ h[h[p].sub[i]].idx = i - 2
      BY <1>1, <3>1, <3>2, OtherKids
    <3> QED
      BY <2>1, <3>2, <3>3 DEF SameLink
  <2>3. rt # Null => H[rt].parent = Null
    BY <1>1, <2>1 DEF Links, Shape, SameLink
  <2> QED
    BY <2>2, <2>3, LinksAre
<1> QED
  BY <1>1, <1>3, <1>5, <1>6, IdleTree DEF Edited

\* The map with one key more, one key less, or a new latest value.
LEMMA MapInsert ==
  ASSUME NEW h, NEW H, NEW c, NEW c2, MapIs(h, c), NEW k, NEW d,
         \A l, e : Entry(H, l, e) <=> Entry(h, l, e) \/ (l = k /\ e = d),
         \A e : ~ Entry(h, k, e),
         c2 = With(c, k, [first |-> IF k \in DOMAIN c THEN c[k].first ELSE d, last |-> d])
  PROVE  MapIs(H, c2)
<1>1. k \notin DOMAIN c
  BY DEF MapIs
<1>2. /\ DOMAIN c2 = DOMAIN c \cup {k} /\ c2[k].first = d
      /\ \A l \in DOMAIN c : c2[l] = c[l]
  BY <1>1 DEF With
<1>3. ASSUME NEW l, NEW e
      PROVE  Entry(H, l, e) <=> l \in DOMAIN c2 /\ c2[l].first = e
  <2>1. Entry(h, l, e) <=> l \in DOMAIN c /\ c[l].first = e
    BY DEF MapIs
  <2>2. Entry(H, l, e) <=> Entry(h, l, e) \/ (l = k /\ e = d)
    OBVIOUS
  <2> QED
    BY <1>1, <1>2, <2>1, <2>2
<1> QED
  BY <1>3 DEF MapIs

\* The map without the key whose entry went.
LEMMA MapRemove ==
  ASSUME NEW h, NEW H, NEW c, MapIs(h, c), NEW k,
         \A l, e : Entry(H, l, e) <=> Entry(h, l, e) /\ l # k
  PROVE  MapIs(H, Without(c, k))
<1> DEFINE c2 == Without(c, k)
<1>2. DOMAIN c2 = DOMAIN c \ {k} /\ \A l \in DOMAIN c2 : c2[l] = c[l]
  BY DEF Without, Restrict
<1> HIDE DEF c2
<1>3. ASSUME NEW l, NEW e
      PROVE  Entry(H, l, e) <=> l \in DOMAIN c2 /\ c2[l].first = e
  <2>1. Entry(h, l, e) <=> l \in DOMAIN c /\ c[l].first = e
    BY DEF MapIs
  <2>2. Entry(H, l, e) <=> Entry(h, l, e) /\ l # k
    OBVIOUS
  <2> QED
    BY <1>2, <2>1, <2>2
<1>4. MapIs(H, c2)
  BY <1>3 DEF MapIs
<1> QED
  BY <1>4 DEF c2

\* A put of a key that is there records nothing new about its first data.
LEMMA MapSame ==
  ASSUME NEW h, NEW c, NEW c2, MapIs(h, c), NEW k \in DOMAIN c, NEW d,
         c2 = With(c, k, [first |-> IF k \in DOMAIN c THEN c[k].first ELSE d, last |-> d])
  PROVE  MapIs(h, c2)
<1>1. DOMAIN c2 = DOMAIN c /\ \A l \in DOMAIN c : c2[l].first = c[l].first
  BY DEF With
<1> QED
  BY <1>1 DEF MapIs

\* The inductive invariant: all that, at every step of every call.
TreeInvariant == StateOK(heap, work, root, level, list, contents)
=============================================================================
