--------------------------- MODULE PmemCopyProofs ---------------------------
(***************************************************************************)
(* A copy writes the bytes it is asked to write and no others, whatever    *)
(* the address and the length: what each piece of it covers, that the      *)
(* pieces fit together, and the inductive invariant of PMemCopy.           *)
(***************************************************************************)
EXTENDS PmemCopy, TLAPS

Stores == [to : Nat, width : Nat \ {0}, nt : BOOLEAN]

\* The stores of S write the bytes from "from" to below "to" and no others.
Covers(S, from, to) ==
  /\ S \subseteq Stores
  /\ \A s \in S : from <= s.to /\ s.to + s.width <= to
  /\ \A x \in from .. to - 1 : \E s \in S : s.to <= x /\ x < s.to + s.width

\* What a store must be like when "lines" are written back.
IsKept(s, lines) ==
  IF s.nt THEN Aligned(s)
  ELSE LineOf(dst + s.to) .. LineOf(dst + s.to + s.width - 1) \subseteq lines

LEMMA StoreIs ==
  ASSUME NEW a \in Nat, NEW w \in Nat \ {0}, NEW nt \in BOOLEAN
  PROVE  /\ Store(a, w, nt) \in Stores
         /\ Store(a, w, nt).to = a /\ Store(a, w, nt).width = w /\ Store(a, w, nt).nt = nt
  BY DEF Store, Stores

LEMMA StoresAre ==
  ASSUME NEW s \in Stores
  PROVE  s.to \in Nat /\ s.width \in Nat /\ s.width > 0 /\ s.nt \in BOOLEAN
  BY DEF Stores

LEMMA CoversJoin ==
  ASSUME NEW S, NEW T, NEW a \in Nat, NEW b \in Nat, NEW c \in Nat,
         a <= b, b <= c, Covers(S, a, b), Covers(T, b, c)
  PROVE  Covers(S \cup T, a, c)
<1>1. S \cup T \subseteq Stores
  BY DEF Covers
<1>2. ASSUME NEW s \in S \cup T PROVE a <= s.to /\ s.to + s.width <= c
  <2>1. s.to \in Nat /\ s.width \in Nat
    BY <1>1, StoresAre
  <2> QED
    BY <2>1 DEF Covers
<1>3. ASSUME NEW x \in a .. c - 1
      PROVE  \E s \in S \cup T : s.to <= x /\ x < s.to + s.width
  <2>1. x \in a .. b - 1 \/ x \in b .. c - 1
    OBVIOUS
  <2> QED
    BY <2>1 DEF Covers
<1> QED
  BY <1>1, <1>2, <1>3 DEF Covers

LEMMA CoversNothing ==
  ASSUME NEW a \in Nat
  PROVE  Covers({}, a, a)
  BY DEF Covers

\* The lines of a part of what is written back are among those written back.
LEMMA LinesOfPart ==
  ASSUME NEW a \in Nat, NEW len \in Nat, NEW b \in Nat, NEW w \in Nat \ {0},
         a <= b, b + w <= a + len
  PROVE  LineOf(b) .. LineOf(b + w - 1) \subseteq LinesPersisted(a, len)
<1>1. LineOf(a) <= LineOf(b) /\ LineOf(b + w - 1) <= LineOf(a + len - 1)
  BY DEF LineOf, Line
<1>2. LineOf(a) \in Int /\ LineOf(a + len - 1) \in Int /\ LineOf(b) \in Int
      /\ LineOf(b + w - 1) \in Int
  BY DEF LineOf, Line
<1> QED
  BY <1>1, <1>2 DEF LinesPersisted

-----------------------------------------------------------------------------
(***************************************************************************)
(* The pieces.                                                             *)
(***************************************************************************)
\* A small piece is written by one store at either end, neither of which
\* reaches out of it.
LEMMA SmallPiece ==
  ASSUME NEW at \in Nat, NEW len \in 1 .. Line
  PROVE  /\ Covers(MemmoveSmall(at, len), at, at + len)
         /\ \A s \in MemmoveSmall(at, len) : s.nt = FALSE
<1>1. CASE len <= 2
  <2>1. MemmoveSmall(at, len) = {Store(at, len, FALSE)}
    <3>1. len = IF len = 2 THEN 2 ELSE 1
      BY <1>1 DEF Line
    <3> QED
      BY <1>1, <3>1, Zenon DEF MemmoveSmall
  <2> DEFINE s == Store(at, len, FALSE)
  <2>2. s \in Stores /\ s.to = at /\ s.width = len /\ s.nt = FALSE
    <3>1. len \in Nat \ {0}
      BY DEF Line
    <3> QED
      BY <3>1, StoreIs, Zenon
  <2> HIDE DEF s
  <2>3. Covers({s}, at, at + len)
    BY <2>2 DEF Covers, Line
  <2> QED
    BY <2>1, <2>2, <2>3 DEF s
<1>2. CASE len > 2
  <2>1. \E w \in Widths : w < len /\ len <= 2 * w
    BY <1>2 DEF Widths, Line
  <2> DEFINE w == CHOOSE x \in Widths : x < len /\ len <= 2 * x
             s == Store(at, w, FALSE)
             t == Store(at + len - w, w, FALSE)
  <2>2. w \in Widths /\ w < len /\ len <= 2 * w
    BY <2>1
  <2>3. MemmoveSmall(at, len) = {s, t}
    <3>1. ~ (len <= 2)
      BY <1>2 DEF Line
    <3> QED
      BY <3>1, Zenon DEF MemmoveSmall
  <2> HIDE DEF w
  <2>4. w \in Nat \ {0} /\ at + len - w \in Nat
    BY <2>2 DEF Widths, Line
  <2>5. /\ s \in Stores /\ s.to = at /\ s.width = w /\ s.nt = FALSE
        /\ t \in Stores /\ t.to = at + len - w /\ t.width = w /\ t.nt = FALSE
    BY <2>4, StoreIs, Zenon
  <2> HIDE DEF s, t
  <2>6. Covers({s, t}, at, at + len)
    BY <2>2, <2>4, <2>5 DEF Covers, Line
  <2> QED
    BY <2>3, <2>5, <2>6
<1>3. len <= 2 \/ len > 2
  BY DEF Line
<1> QED
  BY <1>1, <1>2, <1>3, Zenon

\* Whole lines from a line's beginning on.
IsStream(S) ==
  \A s \in S : s.nt = TRUE /\ s.width = Line /\ (dst + s.to) % Line = 0

LEMMA StreamPiece ==
  ASSUME NEW at \in Nat, NEW count \in Nat, dst \in Nat,
         count > 0 => (dst + at) % Line = 0
  PROVE  /\ Covers(Stream(at, count), at, at + count * Line)
         /\ IsStream(Stream(at, count))
<1>1. ASSUME NEW s \in Stream(at, count)
      PROVE  /\ s \in Stores /\ s.nt = TRUE /\ s.width = Line
             /\ at <= s.to /\ s.to + s.width <= at + count * Line
             /\ (dst + s.to) % Line = 0
  <2>1. PICK i \in 0 .. count - 1 : s = Store(at + Line * i, Line, TRUE)
    BY DEF Stream
  <2>2. s \in Stores /\ s.to = at + Line * i /\ s.width = Line /\ s.nt = TRUE
    <3>1. at + Line * i \in Nat /\ Line \in Nat \ {0}
      BY DEF Line
    <3> QED
      BY <2>1, <3>1, StoreIs, Zenon
  <2>3. (dst + at) % Line = 0 /\ i \in Nat /\ i + 1 <= count
    OBVIOUS
  <2>4. (dst + (at + Line * i)) % Line = 0
    BY <2>3 DEF Line
  <2> QED
    BY <2>2, <2>3, <2>4 DEF Line
<1> DEFINE S == Stream(at, count)
           end == at + count * Line
<1>2. ASSUME NEW x \in at .. end - 1 PROVE  \E s \in S : s.to <= x /\ x < s.to + s.width
  <2> DEFINE i == (x - at) \div Line
             s == Store(at + Line * i, Line, TRUE)
  <2>1. i \in 0 .. count - 1 /\ at + Line * i <= x /\ x < at + Line * i + Line
    BY DEF Line
  <2>2. s \in Stream(at, count)
    BY <2>1 DEF Stream
  <2>3. s.to = at + Line * i /\ s.width = Line
    <3>1. at + Line * i \in Nat /\ Line \in Nat \ {0}
      BY <2>1 DEF Line
    <3> QED
      BY <3>1, StoreIs, Zenon
  <2> HIDE DEF s, i
  <2>4. s.to <= x /\ x < s.to + s.width
    BY <2>1, <2>3 DEF Line
  <2> QED
    BY <2>2, <2>4
<1>3. S \subseteq Stores /\ \A s \in S : at <= s.to /\ s.to + s.width <= end
  BY <1>1
<1>4. IsStream(S)
  BY <1>1, Zenon DEF IsStream
<1> HIDE DEF S, end
<1>5. Covers(S, at, end)
  BY <1>2, <1>3 DEF Covers
<1> QED
  BY <1>4, <1>5 DEF S, end

\* How far the lines from at on have come, of those up to end.
IsPart(p, at, end) ==
  /\ p.at \in Nat /\ p.len \in Nat /\ at <= p.at /\ p.at + p.len = end
  /\ p.len > 0 => (dst + p.at) % Line = 0
  /\ Covers(p.stores, at, p.at)
  /\ IsStream(p.stores)

LEMMA PartGoesOn ==
  ASSUME NEW p, NEW at \in Nat, NEW end \in Nat, NEW count \in Nat \ {0}, dst \in Nat,
         IsPart(p, at, end), p.len < 2 * count * Line
  PROVE  /\ IsPart(StreamIfLeft(p, count), at, end)
         /\ StreamIfLeft(p, count).len < count * Line
<1>1. CASE p.len < count * Line
  <2>1. StreamIfLeft(p, count) = p
    BY <1>1 DEF StreamIfLeft
  <2> QED
    BY <1>1, <2>1
<1>2. CASE ~ (p.len < count * Line)
  <2> DEFINE q == StreamIfLeft(p, count)
             size == count * Line
  <2>0. p.at \in Nat /\ p.len \in Nat /\ size \in Nat \ {0} /\ size <= p.len /\ p.len < 2 * size
        /\ at <= p.at /\ p.at + p.len = end /\ (dst + p.at) % Line = 0
    BY <1>2 DEF IsPart, Line
  <2>1. /\ q.at = p.at + size /\ q.len = p.len - size
        /\ q.stores = p.stores \cup Stream(p.at, count)
    BY <1>2 DEF StreamIfLeft
  <2>2. /\ Covers(Stream(p.at, count), p.at, p.at + size)
        /\ IsStream(Stream(p.at, count))
    BY <2>0, StreamPiece
  <2>3. Covers(p.stores \cup Stream(p.at, count), at, p.at + size)
    <3>1. p.at + size \in Nat /\ p.at <= p.at + size
      BY <2>0
    <3> QED
      BY <2>0, <2>2, <3>1, CoversJoin DEF IsPart
  <2>4. IsStream(p.stores \cup Stream(p.at, count))
    BY <2>2 DEF IsStream, IsPart
  <2>5. (dst + (p.at + size)) % Line = 0
    BY <2>0 DEF Line
  <2> HIDE DEF q
  <2> QED
    BY <2>0, <2>1, <2>3, <2>4, <2>5 DEF IsPart, q
<1> QED
  BY <1>1, <1>2

LEMMA LinesPiece ==
  ASSUME NEW at \in Nat, NEW len \in Nat, dst \in Nat, len > 0 => (dst + at) % Line = 0
  PROVE  IsPart(StreamLines(at, len), at, at + len) /\ StreamLines(at, len).len < Line
<1> DEFINE first == 32 * (len \div (32 * Line))
           p32 == [at |-> at + first * Line, len |-> len - first * Line, stores |-> Stream(at, first)]
           p16 == StreamIfLeft(p32, 16)
           p8 == StreamIfLeft(p16, 8)
           p4 == StreamIfLeft(p8, 4)
           p2 == StreamIfLeft(p4, 2)
           p1 == StreamIfLeft(p2, 1)
           end == at + len
<1>1. IsPart(p32, at, end) /\ p32.len < 2 * 16 * Line
  <2>1. first \in Nat /\ first * Line <= len /\ len - first * Line < 32 * Line
        /\ (first > 0 => len > 0)
    BY DEF Line
  <2> HIDE DEF first
  <2>2. /\ Covers(Stream(at, first), at, at + first * Line)
        /\ IsStream(Stream(at, first))
    BY <2>1, StreamPiece
  <2>3. len > 0 => (dst + (at + first * Line)) % Line = 0
    BY <2>1 DEF Line
  <2>4. at + first * Line \in Nat /\ len - first * Line \in Nat /\ at <= at + first * Line
        /\ at + first * Line + (len - first * Line) = end
        /\ (len - first * Line > 0 => len > 0)
        /\ len - first * Line < 2 * 16 * Line
    BY <2>1 DEF Line
  <2> QED
    BY <2>2, <2>3, <2>4 DEF IsPart
<1>2. end \in Nat
  OBVIOUS
<1>3. StreamLines(at, len) = p1
  BY DEF StreamLines
<1> HIDE DEF p32, end
<1>4. IsPart(p16, at, end) /\ p16.len < 2 * 8 * Line
  BY <1>1, <1>2, PartGoesOn
<1> HIDE DEF p16
<1>5. IsPart(p8, at, end) /\ p8.len < 2 * 4 * Line
  BY <1>2, <1>4, PartGoesOn
<1> HIDE DEF p8
<1>6. IsPart(p4, at, end) /\ p4.len < 2 * 2 * Line
  BY <1>2, <1>5, PartGoesOn
<1> HIDE DEF p4
<1>7. IsPart(p2, at, end) /\ p2.len < 2 * 1 * Line
  BY <1>2, <1>6, PartGoesOn
<1> HIDE DEF p2
<1>8. IsPart(p1, at, end) /\ p1.len < 1 * Line
  BY <1>2, <1>7, PartGoesOn
<1> HIDE DEF p1
<1> QED
  BY <1>3, <1>8 DEF Line, end

-----------------------------------------------------------------------------
(***************************************************************************)
(* pmem_memcpy.                                                            *)
(***************************************************************************)
AreKept(S, lines) == \A s \in S : IsKept(s, lines)

LEMMA KeptBoth ==
  ASSUME NEW S, NEW T, NEW L, NEW M, AreKept(S, L), AreKept(T, M)
  PROVE  AreKept(S \cup T, L \cup M)
  BY DEF AreKept, IsKept

\* A small piece whose lines are written back.
LEMMA SmallIsKept ==
  ASSUME NEW at \in Nat, NEW len \in 1 .. Line, dst \in Nat
  PROVE  AreKept(MemmoveSmall(at, len), LinesPersisted(dst + at, len))
<1> SUFFICES ASSUME NEW s \in MemmoveSmall(at, len)
             PROVE  IsKept(s, LinesPersisted(dst + at, len))
  BY DEF AreKept
<1>1. s \in Stores /\ s.nt = FALSE /\ at <= s.to /\ s.to + s.width <= at + len
  BY SmallPiece DEF Covers
<1>2. s.to \in Nat /\ s.width \in Nat \ {0}
  BY <1>1, StoresAre
<1>3. /\ dst + at \in Nat /\ dst + s.to \in Nat /\ len \in Nat
      /\ dst + at <= dst + s.to /\ dst + s.to + s.width <= dst + at + len
  BY <1>1, <1>2 DEF Line
<1>4. LineOf(dst + s.to) .. LineOf(dst + s.to + s.width - 1) \subseteq LinesPersisted(dst + at, len)
  BY <1>2, <1>3, LinesOfPart
<1> QED
  BY <1>1, <1>4, Zenon DEF IsKept

LEMMA StreamIsKept ==
  ASSUME NEW S, IsStream(S)
  PROVE  AreKept(S, {})
<1> SUFFICES ASSUME NEW s \in S PROVE IsKept(s, {})
  BY DEF AreKept
<1>1. s.nt = TRUE /\ s.width = Line /\ (dst + s.to) % Line = 0
  BY DEF IsStream
<1>2. Aligned(s)
  BY <1>1 DEF Aligned
<1> QED
  BY <1>1, <1>2, Zenon DEF IsKept

\* The head, up to the first whole line, is written with ordinary stores and
\* written back.
Head(at, len) ==
  [stores |-> IF (dst + at) % Line = 0 THEN {} ELSE MemmoveSmall(at, len),
   flushed |-> IF (dst + at) % Line = 0 THEN {} ELSE LinesPersisted(dst + at, len)]

LEMMA HeadPiece ==
  ASSUME NEW at \in Nat, NEW len \in Nat \ {0}, NEW cnt, dst \in Nat,
         cnt = BytesToLine(dst + at, len)
  PROVE  /\ cnt \in Nat /\ cnt <= len
         /\ len - cnt > 0 => (dst + (at + cnt)) % Line = 0
         /\ Covers(Head(at, cnt).stores, at, at + cnt)
         /\ AreKept(Head(at, cnt).stores, Head(at, cnt).flushed)
<1>1. CASE (dst + at) % Line = 0
  <2>1. cnt = 0
    BY <1>1 DEF BytesToLine
  <2>2. Head(at, cnt).stores = {} /\ Head(at, cnt).flushed = {}
    BY <1>1 DEF Head
  <2>3. Covers({}, at, at + cnt)
    BY <2>1, CoversNothing
  <2>4. AreKept({}, {})
    BY DEF AreKept
  <2>5. cnt \in Nat /\ cnt <= len /\ (dst + (at + cnt)) % Line = 0
    BY <1>1, <2>1
  <2> QED
    BY <2>2, <2>3, <2>4, <2>5, Zenon
<1>2. CASE (dst + at) % Line # 0
  <2> DEFINE room == Line - ((dst + at) % Line)
  <2>1. room \in 1 .. Line - 1 /\ (dst + at + room) % Line = 0
    BY <1>2 DEF Line
  <2>2. cnt = IF room > len THEN len ELSE room
    BY <1>2 DEF BytesToLine
  <2>3. cnt \in 1 .. Line /\ cnt <= len /\ (len - cnt > 0 => cnt = room)
    BY <2>1, <2>2 DEF Line
  <2>4. len - cnt > 0 => (dst + (at + cnt)) % Line = 0
    BY <2>1, <2>3
  <2>5. /\ Head(at, cnt).stores = MemmoveSmall(at, cnt)
        /\ Head(at, cnt).flushed = LinesPersisted(dst + at, cnt)
    BY <1>2 DEF Head
  <2>6. /\ Covers(MemmoveSmall(at, cnt), at, at + cnt)
        /\ AreKept(MemmoveSmall(at, cnt), LinesPersisted(dst + at, cnt))
    BY <2>3, SmallPiece, SmallIsKept
  <2>7. cnt \in Nat
    BY <2>3 DEF Line
  <2>8. /\ Covers(Head(at, cnt).stores, at, at + cnt)
        /\ AreKept(Head(at, cnt).stores, Head(at, cnt).flushed)
    BY <2>5, <2>6, Zenon
  <2>9. cnt <= len
    BY <2>3
  <2> QED
    BY <2>4, <2>7, <2>8, <2>9, Zenon
<1> QED
  BY <1>1, <1>2

\* What is left of the last line: one store past the cache where its width
\* allows it, else ordinary stores that are written back.
Tail(tail, len) ==
  [stores |-> IF len = 0 THEN {}
              ELSE IF OneStore(len) THEN {Store(tail, len, TRUE)} ELSE MemmoveSmall(tail, len),
   flushed |-> IF len = 0 \/ OneStore(len) THEN {} ELSE LinesPersisted(dst + tail, len)]

LEMMA TailPiece ==
  ASSUME NEW tail \in Nat, NEW len \in 0 .. Line - 1, dst \in Nat,
         len > 0 => (dst + tail) % Line = 0
  PROVE  /\ Covers(Tail(tail, len).stores, tail, tail + len)
         /\ AreKept(Tail(tail, len).stores, Tail(tail, len).flushed)
<1>1. CASE len = 0
  <2>1. Tail(tail, len).stores = {} /\ Tail(tail, len).flushed = {}
    BY <1>1 DEF Tail
  <2>2. Covers({}, tail, tail + len) /\ AreKept({}, {})
    BY <1>1, CoversNothing DEF AreKept
  <2> QED
    BY <2>1, <2>2
<1>2. CASE len # 0 /\ OneStore(len)
  <2> DEFINE s == Store(tail, len, TRUE)
  <2>1. Tail(tail, len).stores = {s} /\ Tail(tail, len).flushed = {}
    BY <1>2 DEF Tail
  <2>2. len \in Nat \ {0} /\ len \in {4, 8, 16, 32}
    BY <1>2 DEF OneStore, Line
  <2>3. s \in Stores /\ s.to = tail /\ s.width = len /\ s.nt = TRUE
    BY <2>2, StoreIs, Zenon
  <2> HIDE DEF s
  <2>4. Covers({s}, tail, tail + len)
    BY <2>2, <2>3 DEF Covers
  <2>5. (dst + tail) % Line = 0
    BY <2>2
  <2>6. (dst + tail) % len = 0
    <3>1. (dst + tail) % 4 = 0 /\ (dst + tail) % 8 = 0 /\ (dst + tail) % 16 = 0 /\ (dst + tail) % 32 = 0
      BY <2>5 DEF Line
    <3> QED
      BY <2>2, <3>1
  <2>7. Aligned(s)
    BY <2>3, <2>6 DEF Aligned
  <2>8. IsKept(s, {})
    BY <2>3, <2>7, Zenon DEF IsKept
  <2> QED
    BY <2>1, <2>4, <2>8 DEF AreKept
<1>3. CASE len # 0 /\ ~ OneStore(len)
  <2>1. /\ Tail(tail, len).stores = MemmoveSmall(tail, len)
        /\ Tail(tail, len).flushed = LinesPersisted(dst + tail, len)
    BY <1>3 DEF Tail
  <2>2. len \in 1 .. Line
    BY <1>3 DEF Line
  <2> QED
    BY <2>1, <2>2, SmallPiece, SmallIsKept
<1> QED
  BY <1>1, <1>2, <1>3

\* pmem_memcpy writes the len bytes from "at" on, and leaves none in the cache.
LEMMA MemcpyPiece ==
  ASSUME NEW at \in Nat, NEW len \in Nat \ {0}, dst \in Nat
  PROVE  /\ Covers(Memcpy(at, len).stores, at, at + len)
         /\ AreKept(Memcpy(at, len).stores, Memcpy(at, len).flushed)
<1> DEFINE cnt == BytesToLine(dst + at, len)
           lines == StreamLines(at + cnt, len - cnt)
           tail == at + len - lines.len
           head == Head(at, cnt)
           rest == Tail(tail, lines.len)
<1>1. /\ Memcpy(at, len).stores = head.stores \cup lines.stores \cup rest.stores
      /\ Memcpy(at, len).flushed = head.flushed \cup rest.flushed
  BY DEF Memcpy, Head, Tail
<1>2. /\ cnt \in Nat /\ cnt <= len
      /\ len - cnt > 0 => (dst + (at + cnt)) % Line = 0
      /\ Covers(head.stores, at, at + cnt)
      /\ AreKept(head.stores, head.flushed)
  BY HeadPiece
<1> HIDE DEF cnt, head
<1>3. at + cnt \in Nat /\ len - cnt \in Nat /\ (at + cnt) + (len - cnt) = at + len
  BY <1>2
<1>4. IsPart(lines, at + cnt, at + len) /\ lines.len < Line
  BY <1>2, <1>3, LinesPiece
<1> HIDE DEF lines
<1>5. /\ lines.at \in Nat /\ lines.len \in 0 .. Line - 1 /\ tail = lines.at /\ at + cnt <= lines.at
      /\ lines.at + lines.len = at + len
      /\ lines.len > 0 => (dst + lines.at) % Line = 0
      /\ Covers(lines.stores, at + cnt, lines.at)
      /\ IsStream(lines.stores)
  <2>1. /\ lines.at \in Nat /\ lines.len \in Nat /\ at + cnt <= lines.at
        /\ lines.at + lines.len = at + len
    BY <1>4 DEF IsPart
  <2>2. lines.len \in 0 .. Line - 1 /\ tail = lines.at
    BY <1>4, <2>1 DEF Line
  <2> QED
    BY <1>4, <2>1, <2>2, Zenon DEF IsPart
<1>6. Covers(rest.stores, lines.at, at + len) /\ AreKept(rest.stores, rest.flushed)
  BY <1>5, TailPiece
<1> HIDE DEF rest, tail
<1>7. Covers(head.stores \cup lines.stores, at, lines.at)
  BY <1>2, <1>3, <1>5, CoversJoin
<1>8. Covers(head.stores \cup lines.stores \cup rest.stores, at, at + len)
  <2>1. at <= lines.at /\ lines.at <= at + len /\ at + len \in Nat
    BY <1>2, <1>5 DEF Line
  <2> QED
    BY <1>5, <1>6, <1>7, <2>1, CoversJoin
<1>9. AreKept(head.stores \cup lines.stores \cup rest.stores, head.flushed \cup {} \cup rest.flushed)
  BY <1>2, <1>5, <1>6, StreamIsKept, KeptBoth
<1> QED
  BY <1>1, <1>8, <1>9

-----------------------------------------------------------------------------
(***************************************************************************)
(* PMemCopy.                                                               *)
(***************************************************************************)
\* What has been copied is what lies before pos, and it is kept; the loop is
\* entered with something left, at a block's beginning unless the rest is
\* shorter than a block.
CopyInv ==
  /\ dst \in Nat /\ n \in Nat /\ pos \in Nat
  /\ pc \in {"call", "direct", "loop", "done"}
  /\ Covers(stores, 0, pos)
  /\ AreKept(stores, flushed)
  /\ pc \in {"call", "direct"} => pos = 0
  /\ pc = "direct" => n > 0
  /\ pc = "loop" => pos < n
  /\ pc = "loop" => (dst + pos) % Granularity = 0 \/ n - pos < Granularity
  /\ pc = "done" => pos = n

LEMMA CopyInit == Init => CopyInv
<1> SUFFICES ASSUME Init PROVE CopyInv
  OBVIOUS
<1>1. dst \in Nat /\ n \in Nat /\ pos = 0
  BY DestinationsAssumption, LengthsAssumption DEF Init
<1>2. pc = "call" \/ (pc = "direct" /\ n # 0)
  BY DEF Init
<1>3. Covers(stores, 0, pos) /\ AreKept(stores, flushed)
  BY <1>1, CoversNothing DEF Init, AreKept
<1> QED
  BY <1>1, <1>2, <1>3 DEF CopyInv

\* A call of pmem_memcpy goes on where the last store ended.
LEMMA MemcpyGoesOn ==
  ASSUME CopyInv, NEW len \in Nat \ {0}, PmemMemcpy(len), UNCHANGED dst
  PROVE  pos' = pos + len /\ Covers(stores, 0, pos)' /\ AreKept(stores, flushed)'
<1>1. /\ pos' = pos + len /\ pos \in Nat /\ dst \in Nat
      /\ Covers(stores, 0, pos) /\ AreKept(stores, flushed)
  BY DEF CopyInv, PmemMemcpy
<1> DEFINE m == Memcpy(pos, len)
<1>2. stores' = stores \cup m.stores /\ flushed' = flushed \cup m.flushed
  BY DEF PmemMemcpy
<1>3. Covers(m.stores, pos, pos + len) /\ AreKept(m.stores, m.flushed)
  BY <1>1, MemcpyPiece
<1> HIDE DEF m
<1>4. Covers(stores \cup m.stores, 0, pos + len)
  <2>1. pos + len \in Nat /\ pos <= pos + len /\ 0 <= pos
    BY <1>1
  <2> QED
    BY <1>1, <1>3, <2>1, CoversJoin
<1>5. AreKept(stores \cup m.stores, flushed \cup m.flushed)
  BY <1>1, <1>3, KeptBoth
<1>6. Covers(stores, 0, pos)'
  BY <1>1, <1>2, <1>4 DEF Covers
<1>7. AreKept(stores, flushed)'
  BY <1>2, <1>5 DEF AreKept, IsKept, Aligned
<1> QED
  BY <1>1, <1>6, <1>7

LEMMA CopyStep ==
  ASSUME CopyInv, [Next]_vars
  PROVE  CopyInv'
<1>0. /\ dst \in Nat /\ n \in Nat /\ pos \in Nat
      /\ Covers(stores, 0, pos) /\ AreKept(stores, flushed)
  BY DEF CopyInv
<1>1. CASE CopyDirectly
  <2>1. pc = "direct" /\ pc' = "done" /\ dst' = dst /\ n' = n /\ pos = 0 /\ n \in Nat \ {0}
    BY <1>1 DEF CopyDirectly, CopyInv
  <2>2. pos' = pos + n /\ Covers(stores, 0, pos)' /\ AreKept(stores, flushed)'
    BY <1>1, <2>1, MemcpyGoesOn DEF CopyDirectly
  <2> QED
    BY <1>0, <2>1, <2>2 DEF CopyInv
<1>2. CASE CopyNothing \/ UNCHANGED vars
  <2>1. UNCHANGED <<dst, n, pos, stores, flushed>>
    BY <1>2 DEF CopyNothing, vars
  <2>2. Covers(stores, 0, pos)' /\ AreKept(stores, flushed)'
    BY <1>0, <2>1 DEF Covers, AreKept, IsKept, Aligned
  <2>3. pc' = pc \/ (pc' = "done" /\ pos = n)
    BY <1>2 DEF CopyNothing, vars, CopyInv
  <2> QED
    BY <1>0, <2>1, <2>2, <2>3 DEF CopyInv
<1>3. CASE CopyUnaligned
  <2> DEFINE unaligned == Granularity - (dst % Granularity)
  <2>1. pos = 0 /\ n > 0 /\ pc' = "loop" /\ dst' = dst /\ n' = n
    BY <1>3 DEF CopyUnaligned, CopyInv
  <2>2. CASE dst % Granularity # 0 /\ unaligned < n
    <3>1. unaligned \in Nat \ {0} /\ unaligned < n /\ (dst + unaligned) % Granularity = 0
      BY <1>0, <2>2 DEF Granularity
    <3>2. PmemMemcpy(unaligned)
      BY <1>3, <2>2 DEF CopyUnaligned
    <3> HIDE DEF unaligned
    <3>3. pos' = pos + unaligned /\ Covers(stores, 0, pos)' /\ AreKept(stores, flushed)'
      BY <2>1, <3>1, <3>2, MemcpyGoesOn
    <3>4. pos' = unaligned
      BY <2>1, <3>1, <3>3
    <3> QED
      BY <1>0, <2>1, <3>1, <3>3, <3>4 DEF CopyInv
  <2>3. CASE ~ (dst % Granularity # 0 /\ unaligned < n)
    <3>1. UNCHANGED <<pos, stores, flushed>>
      BY <1>3, <2>3 DEF CopyUnaligned
    <3>2. Covers(stores, 0, pos)' /\ AreKept(stores, flushed)'
      BY <1>0, <2>1, <3>1 DEF Covers, AreKept, IsKept, Aligned
    <3>3. (dst + 0) % Granularity = 0 \/ n - 0 < Granularity
      BY <1>0, <2>3 DEF Granularity
    <3> QED
      BY <1>0, <2>1, <3>1, <3>2, <3>3 DEF CopyInv
  <2> QED
    BY <2>2, <2>3
<1>4. CASE CopyBlock
  <2>1. /\ pc = "loop" /\ pc' = "loop" /\ UNCHANGED <<dst, n, flushed>>
        /\ pos + Granularity < n /\ pos' = pos + Granularity
        /\ stores' = stores \cup Stream(pos, 4)
    BY <1>4 DEF CopyBlock
  <2>2. (dst + pos) % Granularity = 0
    BY <1>0, <2>1 DEF CopyInv, Granularity
  <2>3. (dst + pos) % Line = 0 /\ (dst + (pos + Granularity)) % Granularity = 0
        /\ pos + Granularity \in Nat /\ pos <= pos + Granularity /\ 4 * Line = Granularity
    BY <1>0, <2>2 DEF Granularity, Line
  <2>4. Covers(Stream(pos, 4), pos, pos + Granularity) /\ IsStream(Stream(pos, 4))
    BY <1>0, <2>3, StreamPiece
  <2>5. Covers(stores \cup Stream(pos, 4), 0, pos + Granularity)
    BY <1>0, <2>3, <2>4, CoversJoin
  <2>6. AreKept(stores \cup Stream(pos, 4), flushed \cup {})
    BY <1>0, <2>4, StreamIsKept, KeptBoth
  <2>7. Covers(stores, 0, pos)'
    BY <2>1, <2>5 DEF Covers
  <2>8. AreKept(stores, flushed)'
    BY <2>1, <2>6 DEF AreKept, IsKept, Aligned
  <2> QED
    BY <1>0, <2>1, <2>3, <2>7, <2>8 DEF CopyInv
<1>5. CASE CopyRest
  <2>1. pc = "loop" /\ pc' = "done" /\ dst' = dst /\ n' = n /\ n - pos \in Nat \ {0}
    BY <1>0, <1>5 DEF CopyRest, CopyInv
  <2>2. pos' = pos + (n - pos) /\ Covers(stores, 0, pos)' /\ AreKept(stores, flushed)'
    BY <1>5, <2>1, MemcpyGoesOn DEF CopyRest
  <2>3. pos' = n
    BY <1>0, <2>2
  <2> QED
    BY <1>0, <2>1, <2>2, <2>3 DEF CopyInv
<1> QED
  BY <1>1, <1>2, <1>3, <1>4, <1>5 DEF Next

\* A copy writes the bytes it was asked to write and no others, each past the
\* cache or written back, for every address and every length
\* (pmem_op.cpp:203-364, pmem_op.h:80-122).
THEOREM CopiesEverything == Spec => []CopiesExactly
<1>1. CopyInv => CopiesExactly
  <2> SUFFICES ASSUME CopyInv PROVE CopiesExactly
    OBVIOUS
  <2>1. stores \subseteq Stores /\ pos \in Nat
    BY DEF CopyInv, Covers
  <2>2. ASSUME NEW x PROVE x \in Covered <=> x \in 0 .. pos - 1
    <3>1. x \in Covered <=> \E s \in stores : x \in s.to .. s.to + s.width - 1
      BY DEF Covered
    <3>2. ASSUME NEW s \in stores, x \in s.to .. s.to + s.width - 1
          PROVE  x \in 0 .. pos - 1
      <4>1. s.to \in Nat /\ s.width \in Nat /\ s.to + s.width <= pos
        BY <2>1, StoresAre DEF CopyInv, Covers
      <4> QED
        BY <2>1, <3>2, <4>1
    <3>3. ASSUME x \in 0 .. pos - 1
          PROVE  \E s \in stores : x \in s.to .. s.to + s.width - 1
      <4>1. PICK s \in stores : s.to <= x /\ x < s.to + s.width
        BY <3>3 DEF CopyInv, Covers
      <4>2. s.to \in Nat /\ s.width \in Nat
        BY <2>1, StoresAre
      <4> QED
        BY <2>1, <3>3, <4>1, <4>2
    <3> QED
      BY <3>1, <3>2, <3>3
  <2>3. Covered = 0 .. pos - 1
    BY <2>2
  <2>4. \A s \in stores :
          IF s.nt THEN Aligned(s)
          ELSE LineOf(dst + s.to) .. LineOf(dst + s.to + s.width - 1) \subseteq flushed
    BY Zenon DEF CopyInv, AreKept, IsKept
  <2> QED
    BY <2>3, <2>4, Zenon DEF CopyInv, CopiesExactly
<1> QED
  BY <1>1, CopyInit, CopyStep, PTL DEF Spec
=============================================================================
