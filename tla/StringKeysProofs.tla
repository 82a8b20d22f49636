-------------------------- MODULE StringKeysProofs --------------------------
(***************************************************************************)
(* Keys of one length are stored once each and in the order of             *)
(* std::string: what my_strcmp answers for them, what a turn of the binary *)
(* search keeps, and where the key is inserted.                            *)
(***************************************************************************)
EXTENDS StringKeys, SequenceTheorems, WellFoundedInduction, TLAPS

\* A non-empty set of naturals has a smallest element.
LEMMA SmallestNat ==
  ASSUME NEW T, T \subseteq Nat, T # {}
  PROVE  \E x \in T : \A y \in T : x <= y
<1>1. PICK x \in T : \A y \in T : ~ (<<y, x>> \in OpToRel(<, Nat))
  BY NatLessThanWellFounded, WFMin, Zenon
<1>2. \A y \in T : ~ (y < x)
  BY <1>1 DEF OpToRel
<1> QED
  BY <1>2

SameLength == \A a, b \in Strings : Len(a) = Len(b)

(***************************************************************************)
(* The order of strings of one length.                                     *)
(***************************************************************************)
Less(a, b) ==
  \E n \in DOMAIN a \cap DOMAIN b : a[n] < b[n] /\ \A i \in 1 .. n - 1 : a[i] = b[i]

LEMMA StringIs ==
  ASSUME NEW a \in Strings
  PROVE  /\ a \in Seq(Int) /\ a # <<>> /\ Len(a) \in Nat /\ DOMAIN a = 1 .. Len(a)
         /\ \A i \in 1 .. Len(a) : a[i] \in Int
  BY StringsAssumption, LenProperties, ElementOfSeq

LEMMA LessTransitive ==
  ASSUME SameLength, NEW a \in Strings, NEW b \in Strings, NEW c \in Strings,
         Less(a, b), Less(b, c)
  PROVE  Less(a, c)
<1>1. /\ DOMAIN a = 1 .. Len(a) /\ DOMAIN b = 1 .. Len(a) /\ DOMAIN c = 1 .. Len(a)
      /\ Len(a) \in Nat
      /\ \A i \in 1 .. Len(a) : a[i] \in Int /\ b[i] \in Int /\ c[i] \in Int
  BY StringIs DEF SameLength
<1>2. PICK n \in 1 .. Len(a) : a[n] < b[n] /\ \A i \in 1 .. n - 1 : a[i] = b[i]
  BY <1>1 DEF Less
<1>3. PICK m \in 1 .. Len(a) : b[m] < c[m] /\ \A i \in 1 .. m - 1 : b[i] = c[i]
  BY <1>1 DEF Less
<1>4. CASE n <= m
  <2>1. a[n] < c[n]
    BY <1>1, <1>2, <1>3, <1>4
  <2>2. \A i \in 1 .. n - 1 : a[i] = c[i]
    BY <1>1, <1>2, <1>3, <1>4
  <2> QED
    BY <1>1, <2>1, <2>2 DEF Less
<1>5. CASE m < n
  <2>1. a[m] < c[m]
    BY <1>1, <1>2, <1>3, <1>5
  <2>2. \A i \in 1 .. m - 1 : a[i] = c[i]
    BY <1>1, <1>2, <1>3, <1>5
  <2> QED
    BY <1>1, <2>1, <2>2 DEF Less
<1> QED
  BY <1>4, <1>5

\* my_strcmp takes the length of the second string from the first, which is
\* right as long as all are of one length; what lies behind is not read.
LEMMA CompareIs ==
  ASSUME SameLength, NEW a \in Strings, NEW b \in Strings, NEW behind
  PROVE  /\ MyStrcmp(a, b, behind) \in {-1, 0, 1}
         /\ MyStrcmp(a, b, behind) = 0 => a = b
         /\ MyStrcmp(a, b, behind) = 1 => Less(b, a)
         /\ MyStrcmp(a, b, behind) = -1 => Less(a, b)
<1> DEFINE differ == {n \in 1 .. Len(a) : a[n] # ByteAt(b, n, behind)}
<1>1. /\ a \in Seq(Int) /\ b \in Seq(Int) /\ Len(b) = Len(a) /\ Len(a) \in Nat
      /\ DOMAIN a = 1 .. Len(a) /\ DOMAIN b = 1 .. Len(a)
      /\ \A i \in 1 .. Len(a) : a[i] \in Int /\ b[i] \in Int
  BY StringIs DEF SameLength
<1>2. \A n \in 1 .. Len(a) : ByteAt(b, n, behind) = b[n]
  BY <1>1 DEF ByteAt
<1>3. CASE differ = {}
  <2>1. MyStrcmp(a, b, behind) = 0
    BY <1>3 DEF MyStrcmp
  <2>2. \A i \in 1 .. Len(a) : a[i] = b[i]
    BY <1>2, <1>3
  <2>3. a = b
    BY <1>1, <2>2, SeqEqual
  <2> QED
    BY <2>1, <2>3
<1>4. CASE differ # {}
  <2> DEFINE m == Min(differ)
  <2>1. \E x \in differ : \A y \in differ : x <= y
    <3>1. differ \subseteq Nat
      OBVIOUS
    <3> HIDE DEF differ
    <3> QED
      BY <1>4, <3>1, SmallestNat
  <2>2. m \in differ /\ \A y \in differ : m <= y
    <3> HIDE DEF differ
    <3> QED
      BY <2>1 DEF Min
  <2>3. MyStrcmp(a, b, behind) = IF a[m] > ByteAt(b, m, behind) THEN 1 ELSE -1
    BY <1>4 DEF MyStrcmp
  <2> HIDE DEF m
  <2>4. m \in 1 .. Len(a) /\ a[m] # b[m] /\ \A i \in 1 .. m - 1 : a[i] = b[i]
    BY <1>1, <1>2, <2>2
  <2>5. MyStrcmp(a, b, behind) = IF a[m] > b[m] THEN 1 ELSE -1
    BY <1>2, <2>3, <2>4
  <2>6. CASE a[m] > b[m]
    <3>1. Less(b, a)
      BY <1>1, <2>4, <2>6 DEF Less
    <3> QED
      BY <2>5, <2>6, <3>1
  <2>7. CASE ~ (a[m] > b[m])
    <3>1. a[m] < b[m]
      BY <1>1, <2>4, <2>7
    <3>2. Less(a, b)
      BY <1>1, <2>4, <3>1 DEF Less
    <3> QED
      BY <2>5, <2>7, <3>2
  <2> QED
    BY <2>6, <2>7
<1> QED
  BY <1>3, <1>4

LEMMA InsertAtIs ==
  ASSUME NEW S, NEW s \in Seq(S), NEW i \in 1 .. Len(s) + 1, NEW e \in S
  PROVE  /\ InsertAt(s, i, e) \in Seq(S)
         /\ Len(InsertAt(s, i, e)) = Len(s) + 1
         /\ \A j \in 1 .. Len(s) + 1 :
              InsertAt(s, i, e)[j] = IF j < i THEN s[j] ELSE IF j = i THEN e ELSE s[j - 1]
<1> DEFINE p == SubSeq(s, 1, i - 1)
           q == SubSeq(s, i, Len(s))
<1>0. Len(s) \in Nat /\ \A j \in 1 .. Len(s) : s[j] \in S
  BY LenProperties, ElementOfSeq
<1>1. p \in Seq(S) /\ Len(p) = i - 1 /\ \A j \in 1 .. i - 1 : p[j] = s[j]
  <2>1. \A j \in 1 .. i - 1 : s[j] \in S
    BY <1>0
  <2>2. 1 \in Int /\ i - 1 \in Int
    OBVIOUS
  <2>3. /\ p \in Seq(S) /\ Len(p) = IF 1 <= i - 1 THEN i - 1 - 1 + 1 ELSE 0
        /\ \A j \in 1 .. i - 1 - 1 + 1 : p[j] = s[1 + j - 1]
    BY <2>1, <2>2, SubSeqProperties
  <2> HIDE DEF p
  <2> QED
    BY <2>3
<1>2. q \in Seq(S) /\ Len(q) = Len(s) - i + 1 /\ \A j \in 1 .. Len(s) - i + 1 : q[j] = s[i + j - 1]
  <2>1. \A j \in i .. Len(s) : s[j] \in S
    BY <1>0
  <2>2. /\ q \in Seq(S) /\ Len(q) = IF i <= Len(s) THEN Len(s) - i + 1 ELSE 0
        /\ \A j \in 1 .. Len(s) - i + 1 : q[j] = s[i + j - 1]
    BY <1>0, <2>1, SubSeqProperties
  <2> HIDE DEF q
  <2> QED
    BY <1>0, <2>2
<1>3. <<e>> \in Seq(S) /\ Len(<<e>>) = 1 /\ <<e>>[1] = e
  OBVIOUS
<1>4. InsertAt(s, i, e) = (p \o <<e>>) \o q
  BY DEF InsertAt
<1> HIDE DEF p, q
<1>5. /\ p \o <<e>> \in Seq(S) /\ Len(p \o <<e>>) = i
      /\ \A j \in 1 .. i : (p \o <<e>>)[j] = IF j < i THEN s[j] ELSE e
  <2>1. /\ p \o <<e>> \in Seq(S) /\ Len(p \o <<e>>) = Len(p) + 1
        /\ \A j \in 1 .. Len(p) + 1 :
             (p \o <<e>>)[j] = IF j <= Len(p) THEN p[j] ELSE <<e>>[j - Len(p)]
    BY <1>1, <1>3, ConcatProperties
  <2> QED
    BY <1>1, <1>3, <2>1
<1> DEFINE r == p \o <<e>>
<1> HIDE DEF r
<1>r. r \in Seq(S) /\ Len(r) = i /\ \A j \in 1 .. i : r[j] = IF j < i THEN s[j] ELSE e
  BY <1>5 DEF r
<1>6. /\ r \o q \in Seq(S) /\ Len(r \o q) = Len(r) + Len(q)
      /\ \A j \in 1 .. Len(r) + Len(q) :
           (r \o q)[j] = IF j <= Len(r) THEN r[j] ELSE q[j - Len(r)]
  BY <1>2, <1>r, ConcatProperties
<1>7. Len(r \o q) = Len(s) + 1
  BY <1>0, <1>2, <1>r, <1>6
<1>8. ASSUME NEW j \in 1 .. Len(s) + 1
      PROVE  (r \o q)[j] = IF j < i THEN s[j] ELSE IF j = i THEN e ELSE s[j - 1]
  <2>1. (r \o q)[j] = IF j <= i THEN r[j] ELSE q[j - i]
    BY <1>0, <1>2, <1>r, <1>6
  <2>2. CASE j <= i
    <3>1. j \in 1 .. i
      BY <2>2
    <3>2. r[j] = IF j < i THEN s[j] ELSE e
      BY <1>r, <3>1
    <3>3. j < i \/ j = i
      BY <2>2
    <3> QED
      BY <2>1, <2>2, <3>2, <3>3
  <2>3. CASE j > i
    <3>1. j - i \in 1 .. Len(s) - i + 1 /\ i + (j - i) - 1 = j - 1
      BY <1>0, <2>3
    <3>2. q[j - i] = s[j - 1]
      BY <1>2, <3>1
    <3> QED
      BY <2>1, <2>3, <3>2
  <2>4. j <= i \/ j > i
    BY <1>0
  <2> QED
    BY <2>2, <2>3, <2>4, Zenon
<1> QED
  BY <1>4, <1>6, <1>7, <1>8 DEF r

(***************************************************************************)
(* The leaf, and the search in it.                                         *)
(***************************************************************************)
Ordered(s) == \A i, j \in 1 .. Len(s) : i < j => Less(s[i], s[j])

Holds(s, P) ==
  /\ \A i \in 1 .. Len(s) : s[i] \in P
  /\ \A a \in P : \E i \in 1 .. Len(s) : s[i] = a

\* What lies left of the search is below the key that is sought, what lies
\* right of it is not.
Narrows(s, a, lo, hi) ==
  /\ lo \in Int /\ hi \in Int /\ -1 <= lo /\ lo < hi /\ hi <= Len(s)
  /\ \A i \in 1 .. lo + 1 : Less(s[i], a)
  /\ \A i \in hi + 1 .. Len(s) : s[i] = a \/ Less(a, s[i])

KeyInv == key \in Seq(Strings) /\ Ordered(key) /\ Holds(key, put)

SearchInv == target # <<>> => target \in Strings /\ Narrows(key, target, low, high)

StringInv == KeyInv /\ SearchInv

LEMMA LessIrreflexive ==
  ASSUME NEW a \in Strings
  PROVE  ~ Less(a, a)
<1>1. DOMAIN a = 1 .. Len(a) /\ \A i \in 1 .. Len(a) : a[i] \in Int
  BY StringIs
<1>2. \A n \in DOMAIN a : ~ (a[n] < a[n])
  BY <1>1
<1> QED
  BY <1>2 DEF Less

LEMMA InitString == Init => StringInv
<1> SUFFICES ASSUME Init
             PROVE  StringInv
  OBVIOUS
<1>1. key = <<>> /\ key \in Seq(Strings) /\ Len(key) = 0 /\ put = {} /\ target = <<>>
  BY DEF Init
<1>2. Ordered(key) /\ Holds(key, put)
  BY <1>1 DEF Ordered, Holds
<1> QED
  BY <1>1, <1>2 DEF StringInv, KeyInv, SearchInv

\* A search starts with nothing left and nothing right of it.
LEMMA PutString ==
  ASSUME StringInv, NEW a \in Strings, Put(a)
  PROVE  StringInv'
<1>1. KeyInv'
  BY DEF StringInv, KeyInv, Put, Ordered, Holds
<1>2. Len(key) \in Nat
  BY LenProperties DEF StringInv, KeyInv
<1>3. Narrows(key, a, -1, Len(key))
  BY <1>2 DEF Narrows
<1> QED
  BY <1>1, <1>3 DEF StringInv, SearchInv, Put

LEMMA SearchTurnString ==
  ASSUME SameLength, StringInv, SearchTurn
  PROVE  StringInv'
<1>1. /\ key \in Seq(Strings) /\ Ordered(key) /\ target \in Strings
      /\ Narrows(key, target, low, high)
  BY DEF StringInv, KeyInv, SearchInv, SearchTurn
<1>2. Len(key) \in Nat /\ \A i \in 1 .. Len(key) : key[i] \in Strings
  BY <1>1, LenProperties, ElementOfSeq
<1>3. low \in Int /\ high \in Int /\ -1 <= low /\ low + 1 < high /\ high <= Len(key)
  BY <1>1 DEF Narrows, SearchTurn
<1> DEFINE m == Mid + 1
<1>4. m \in Int /\ low + 1 < m /\ m <= high /\ m \in 1 .. Len(key)
  BY <1>2, <1>3 DEF Mid
<1>5. key[m] \in Strings
  BY <1>2, <1>4
<1>6. PICK behind \in Bytes :
        IF MyStrcmp(target, key[m], behind) > 0
        THEN low' = Mid /\ high' = high
        ELSE high' = Mid /\ low' = low
  BY DEF SearchTurn
<1>7. Mid = m - 1 /\ Mid \in Int
  BY <1>3 DEF Mid
<1> HIDE DEF m
<1>8. /\ MyStrcmp(target, key[m], behind) \in {-1, 0, 1}
      /\ MyStrcmp(target, key[m], behind) = 0 => target = key[m]
      /\ MyStrcmp(target, key[m], behind) = 1 => Less(key[m], target)
      /\ MyStrcmp(target, key[m], behind) = -1 => Less(target, key[m])
  BY <1>1, <1>5, CompareIs
<1>9. CASE MyStrcmp(target, key[m], behind) > 0
  <2>1. Less(key[m], target) /\ low' = m - 1 /\ high' = high
    BY <1>6, <1>7, <1>8, <1>9
  <2>2. ASSUME NEW i \in 1 .. m
        PROVE  Less(key[i], target)
    <3>1. i \in 1 .. Len(key) /\ key[i] \in Strings
      BY <1>2, <1>4
    <3>2. CASE i = m
      BY <2>1, <3>2
    <3>3. CASE i < m
      <4>1. Less(key[i], key[m])
        BY <1>1, <1>4, <3>1, <3>3 DEF Ordered
      <4> QED
        BY <1>1, <1>5, <2>1, <3>1, <4>1, LessTransitive
    <3> QED
      BY <1>4, <3>2, <3>3
  <2>3. Narrows(key, target, low', high')
    BY <1>1, <1>2, <1>3, <1>4, <2>1, <2>2 DEF Narrows
  <2> QED
    BY <2>3 DEF StringInv, KeyInv, SearchInv, SearchTurn
<1>10. CASE ~ (MyStrcmp(target, key[m], behind) > 0)
  <2>1. (key[m] = target \/ Less(target, key[m])) /\ high' = m - 1 /\ low' = low
    BY <1>6, <1>7, <1>8, <1>10
  <2>2. ASSUME NEW i \in m .. Len(key)
        PROVE  key[i] = target \/ Less(target, key[i])
    <3>1. i \in 1 .. Len(key) /\ key[i] \in Strings
      BY <1>2, <1>4
    <3>2. CASE i = m
      BY <2>1, <3>2
    <3>3. CASE i > m
      <4>1. Less(key[m], key[i])
        BY <1>1, <1>4, <3>1, <3>3 DEF Ordered
      <4>2. CASE key[m] = target
        BY <4>1, <4>2
      <4>3. CASE Less(target, key[m])
        BY <1>1, <1>5, <3>1, <4>1, <4>3, LessTransitive
      <4> QED
        BY <2>1, <4>2, <4>3
    <3> QED
      BY <1>4, <3>2, <3>3
  <2>3. Narrows(key, target, low', high')
    BY <1>1, <1>2, <1>3, <1>4, <2>1, <2>2 DEF Narrows
  <2> QED
    BY <2>3 DEF StringInv, KeyInv, SearchInv, SearchTurn
<1> QED
  BY <1>9, <1>10

\* A string put between the smaller and the larger ones.
LEMMA InsertedInOrder ==
  ASSUME SameLength, NEW s \in Seq(Strings), Ordered(s), NEW P, Holds(s, P),
         NEW a \in Strings, NEW h \in 1 .. Len(s) + 1,
         \A i \in 1 .. h - 1 : Less(s[i], a),
         \A i \in h .. Len(s) : Less(a, s[i])
  PROVE  /\ InsertAt(s, h, a) \in Seq(Strings)
         /\ Ordered(InsertAt(s, h, a)) /\ Holds(InsertAt(s, h, a), P \cup {a})
<1> DEFINE r == InsertAt(s, h, a)
<1>1. Len(s) \in Nat /\ \A i \in 1 .. Len(s) : s[i] \in Strings
  BY LenProperties, ElementOfSeq
<1>2. /\ r \in Seq(Strings) /\ Len(r) = Len(s) + 1
      /\ \A j \in 1 .. Len(s) + 1 :
           r[j] = IF j < h THEN s[j] ELSE IF j = h THEN a ELSE s[j - 1]
  BY InsertAtIs
<1> HIDE DEF r
<1>3. ASSUME NEW i \in 1 .. Len(r), NEW j \in 1 .. Len(r), i < j
      PROVE  Less(r[i], r[j])
  <2>1. CASE j < h
    <3>1. r[i] = s[i] /\ r[j] = s[j] /\ i \in 1 .. Len(s) /\ j \in 1 .. Len(s)
      BY <1>1, <1>2, <1>3, <2>1
    <3> QED
      BY <1>3, <3>1 DEF Ordered
  <2>2. CASE j = h
    <3>1. r[i] = s[i] /\ r[j] = a /\ i \in 1 .. h - 1
      BY <1>1, <1>2, <1>3, <2>2
    <3> QED
      BY <3>1
  <2>3. CASE j > h /\ i < h
    <3>1. r[i] = s[i] /\ r[j] = s[j - 1] /\ i \in 1 .. Len(s) /\ j - 1 \in 1 .. Len(s)
      BY <1>1, <1>2, <1>3, <2>3
    <3>2. i < j - 1
      BY <2>3
    <3> QED
      BY <3>1, <3>2 DEF Ordered
  <2>4. CASE i = h
    <3>1. r[i] = a /\ r[j] = s[j - 1] /\ j - 1 \in h .. Len(s)
      BY <1>1, <1>2, <1>3, <2>4
    <3> QED
      BY <3>1
  <2>5. CASE i > h
    <3>1. /\ r[i] = s[i - 1] /\ r[j] = s[j - 1]
          /\ i - 1 \in 1 .. Len(s) /\ j - 1 \in 1 .. Len(s)
      BY <1>1, <1>2, <1>3, <2>5
    <3>2. i - 1 < j - 1
      BY <1>3
    <3> QED
      BY <3>1, <3>2 DEF Ordered
  <2> QED
    BY <1>1, <1>2, <1>3, <2>1, <2>2, <2>3, <2>4, <2>5
<1>4. ASSUME NEW j \in 1 .. Len(r)
      PROVE  r[j] \in P \cup {a}
  <2>1. CASE j < h
    <3>1. r[j] = s[j] /\ j \in 1 .. Len(s)
      BY <1>1, <1>2, <2>1
    <3> QED
      BY <3>1 DEF Holds
  <2>2. CASE j = h
    <3>1. r[j] = a
      BY <1>1, <1>2, <2>2
    <3> QED
      BY <3>1
  <2>3. CASE j > h
    <3>1. r[j] = s[j - 1] /\ j - 1 \in 1 .. Len(s)
      BY <1>1, <1>2, <2>3
    <3> QED
      BY <3>1 DEF Holds
  <2> QED
    BY <1>1, <1>2, <2>1, <2>2, <2>3
<1>5. ASSUME NEW b \in P \cup {a}
      PROVE  \E j \in 1 .. Len(r) : r[j] = b
  <2>1. CASE b = a
    <3>1. h \in 1 .. Len(r) /\ r[h] = a
      BY <1>1, <1>2
    <3> QED
      BY <2>1, <3>1
  <2>2. CASE b \in P
    <3>1. PICK i \in 1 .. Len(s) : s[i] = b
      BY <2>2 DEF Holds
    <3>2. CASE i < h
      <4>1. i \in 1 .. Len(r) /\ r[i] = s[i]
        BY <1>1, <1>2, <3>2
      <4> QED
        BY <3>1, <4>1
    <3>3. CASE i >= h
      <4>1. i + 1 \in 1 .. Len(s) + 1 /\ i + 1 > h /\ (i + 1) - 1 = i
        BY <1>1, <3>3
      <4>2. i + 1 \in 1 .. Len(r) /\ r[i + 1] = s[i]
        BY <1>1, <1>2, <4>1
      <4> QED
        BY <3>1, <4>2
    <3> QED
      BY <1>1, <3>2, <3>3
  <2> QED
    BY <2>1, <2>2
<1>6. Ordered(r) /\ Holds(r, P \cup {a})
  BY <1>3, <1>4, <1>5 DEF Ordered, Holds
<1> QED
  BY <1>2, <1>6 DEF r

LEMMA InsertString ==
  ASSUME SameLength, StringInv, Insert
  PROVE  StringInv'
<1>1. /\ key \in Seq(Strings) /\ Ordered(key) /\ Holds(key, put) /\ target \in Strings
      /\ Narrows(key, target, low, high)
  BY DEF StringInv, KeyInv, SearchInv, Insert
<1>2. Len(key) \in Nat /\ \A i \in 1 .. Len(key) : key[i] \in Strings
  BY <1>1, LenProperties, ElementOfSeq
<1>3. high \in Int /\ high = low + 1 /\ 0 <= high /\ high <= Len(key)
  BY <1>1 DEF Narrows, Insert
<1> DEFINE h == high + 1
<1>4. h \in 1 .. Len(key) + 1
  BY <1>2, <1>3
<1>5. /\ \A i \in 1 .. h - 1 : Less(key[i], target)
      /\ \A i \in h .. Len(key) : key[i] = target \/ Less(target, key[i])
  BY <1>1, <1>3 DEF Narrows
<1>6. PICK behind \in Bytes :
        key' = IF high < Len(key) /\ MyStrcmp(key[h], target, behind) = 0
               THEN key ELSE InsertAt(key, h, target)
  BY DEF Insert, Found
<1>7. high < Len(key) <=> h <= Len(key)
  BY <1>2, <1>3
<1>8. target' = <<>> /\ put' = put \cup {target}
  BY DEF Insert
<1> HIDE DEF h
<1>9. h <= Len(key) =>
        /\ MyStrcmp(key[h], target, behind) \in {-1, 0, 1}
        /\ MyStrcmp(key[h], target, behind) = 0 => key[h] = target
        /\ MyStrcmp(key[h], target, behind) = 1 => Less(target, key[h])
        /\ MyStrcmp(key[h], target, behind) = -1 => Less(key[h], target)
  <2> SUFFICES ASSUME h <= Len(key)
               PROVE  /\ MyStrcmp(key[h], target, behind) \in {-1, 0, 1}
                      /\ MyStrcmp(key[h], target, behind) = 0 => key[h] = target
                      /\ MyStrcmp(key[h], target, behind) = 1 => Less(target, key[h])
                      /\ MyStrcmp(key[h], target, behind) = -1 => Less(key[h], target)
    OBVIOUS
  <2>1. key[h] \in Strings
    BY <1>2, <1>4
  <2> QED
    BY <1>1, <2>1, CompareIs
<1>10. CASE h <= Len(key) /\ MyStrcmp(key[h], target, behind) = 0
  <2>1. key[h] = target /\ h \in 1 .. Len(key) /\ key' = key
    BY <1>2, <1>4, <1>6, <1>7, <1>9, <1>10
  <2>2. Holds(key, put \cup {target})
    BY <1>1, <2>1 DEF Holds
  <2>3. KeyInv'
    BY <1>1, <1>8, <2>1, <2>2 DEF KeyInv
  <2> QED
    BY <1>8, <2>3 DEF StringInv, SearchInv
<1>11. CASE ~ (h <= Len(key) /\ MyStrcmp(key[h], target, behind) = 0)
  <2>1. key' = InsertAt(key, h, target)
    BY <1>2, <1>4, <1>6, <1>7, <1>11
  <2>2. ASSUME NEW i \in h .. Len(key)
        PROVE  Less(target, key[i])
    <3>1. /\ h \in 1 .. Len(key) /\ i \in 1 .. Len(key)
          /\ key[h] \in Strings /\ key[i] \in Strings /\ h \in h .. Len(key)
      BY <1>2, <1>4
    <3>2. Less(target, key[h])
      <4>1. Less(target, key[h]) \/ Less(key[h], target)
        BY <1>9, <1>11, <3>1
      <4>2. key[h] = target \/ Less(target, key[h])
        BY <1>5, <3>1
      <4> QED
        BY <1>1, <4>1, <4>2, LessIrreflexive
    <3>3. CASE i = h
      BY <3>2, <3>3
    <3>4. CASE h < i
      <4>1. Less(key[h], key[i])
        BY <1>1, <3>1, <3>4 DEF Ordered
      <4> QED
        BY <1>1, <3>1, <3>2, <4>1, LessTransitive
    <3> QED
      BY <1>4, <3>3, <3>4
  <2>3. /\ InsertAt(key, h, target) \in Seq(Strings)
        /\ Ordered(InsertAt(key, h, target))
        /\ Holds(InsertAt(key, h, target), put \cup {target})
    BY <1>1, <1>4, <1>5, <2>2, InsertedInOrder
  <2>4. KeyInv'
    BY <1>8, <2>1, <2>3 DEF KeyInv
  <2> QED
    BY <1>8, <2>4 DEF StringInv, SearchInv
<1> QED
  BY <1>10, <1>11

LEMMA StringInvariant ==
  ASSUME SameLength
  PROVE  Spec => []StringInv
<1>1. Init => StringInv
  BY InitString
<1>2. StringInv /\ [Next]_vars => StringInv'
  <2> SUFFICES ASSUME StringInv, [Next]_vars
               PROVE  StringInv'
    OBVIOUS
  <2>1. CASE \E a \in Strings : Put(a)
    BY <2>1, PutString
  <2>2. CASE SearchTurn
    BY <2>2, SearchTurnString
  <2>3. CASE Insert
    BY <2>3, InsertString
  <2>4. CASE UNCHANGED vars
    BY <2>4 DEF vars, StringInv, KeyInv, SearchInv
  <2> QED
    BY <2>1, <2>2, <2>3, <2>4 DEF Next
<1> QED
  BY <1>1, <1>2, PTL DEF Spec

LEMMA StringInvOrders == StringInv => SortedByString
<1> SUFFICES ASSUME StringInv
             PROVE  SortedByString
  OBVIOUS
<1>1. key \in Seq(Strings) /\ Ordered(key) /\ Holds(key, put)
  BY DEF StringInv, KeyInv
<1>2. Len(key) \in Nat /\ DOMAIN key = 1 .. Len(key)
  BY <1>1, LenProperties
<1>3. ToSet(key) = put
  BY <1>1, <1>2 DEF ToSet, Holds
<1>4. ASSUME NEW i \in 1 .. Len(key) - 1
      PROVE  Below(key[i], key[i + 1])
  <2>1. Less(key[i], key[i + 1])
    BY <1>1, <1>2 DEF Ordered
  <2> QED
    BY <2>1 DEF Less, Below
<1> QED
  BY <1>3, <1>4 DEF SortedByString

\* Puts of strings of one length leave every one of them in the leaf, once, in
\* the order of std::string, whatever lies in memory behind the strings and
\* however many there are: the binary search ends at the place where the key
\* is or belongs (bplustree.c:87-154).  Without SameLength this is false, as
\* the run string_keys_mixed_length shows.
THEOREM SortedInTheLeaf ==
  ASSUME SameLength
  PROVE  Spec => []SortedByString
<1> QED
  BY StringInvariant, StringInvOrders, PTL
=============================================================================
