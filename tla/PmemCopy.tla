------------------------------ MODULE PmemCopy ------------------------------
(***************************************************************************)
(* PMemCopy (pmem_op.h) and the pmem_memcpy it is made of (pmem_op.cpp),   *)
(* for a processor with AVX512: a copy in pieces that are aligned to 256   *)
(* and to 64 bytes, with stores that go past the cache where a whole line  *)
(* is written, and ordinary stores that are then written back elsewhere.   *)
(*                                                                         *)
(* A copy moves n bytes to address dst.  A store of it is [to, width, nt]: *)
(* so many bytes to that place of the destination, counted from its        *)
(* beginning, from the same place of the source; nt says that it goes past *)
(* the cache.  The source and the destination do not overlap and so the    *)
(* order of the stores does not matter.  pmem_memcpy is never called for   *)
(* no bytes: PMemCopy returns before it would.                             *)
(***************************************************************************)
EXTENDS PmemOp

CONSTANTS
  Destinations, \* addresses copied to, modulo the granularity
  Lengths       \* numbers of bytes copied

ASSUME DestinationsAssumption == Destinations \subseteq Nat
ASSUME LengthsAssumption == Lengths \subseteq Nat

Granularity == 256

VARIABLES
  dst, n,       \* what is copied: the arguments
  pc,           \* where PMemCopy is; "direct" for a call of pmem_memcpy
  pos,          \* the bytes copied so far: ptr - dst and begin - src
  stores,       \* the stores made
  flushed       \* the lines written back after an ordinary store

vars == <<dst, n, pc, pos, stores, flushed>>

Store(to, width, nt) == [to |-> to, width |-> width, nt |-> nt]

-----------------------------------------------------------------------------
(***************************************************************************)
(* The pieces of memmove_movnt_avx512f_fw.                                 *)
(***************************************************************************)
Widths == {2, 4, 8, 16, 32}

\* memmove_small_avx_noflush, of 64 bytes at most: one store at either end,
\* which overlap unless len is twice their width.
MemmoveSmall(at, len) ==
  IF len <= 2 THEN {Store(at, IF len = 2 THEN 2 ELSE 1, FALSE)}
  ELSE LET w == CHOOSE x \in Widths : x < len /\ len <= 2 * x
       IN {Store(at, w, FALSE), Store(at + len - w, w, FALSE)}

\* memmove_movnt32x64b ... memmove_movnt1x64b: count lines from at on.
Stream(at, count) == {Store(at + Line * i, Line, TRUE) : i \in 0 .. count - 1}

\* So many lines at once, if so many are left.
StreamIfLeft(part, count) ==
  IF part.len < count * Line THEN part
  ELSE [at |-> part.at + count * Line, len |-> part.len - count * Line,
        stores |-> part.stores \cup Stream(part.at, count)]

\* The loop over 32 lines at a time, then 16, 8, 4, 2 and 1 once each at most.
StreamLines(at, len) ==
  LET first == 32 * (len \div (32 * Line))
      after32 == [at |-> at + first * Line, len |-> len - first * Line, stores |-> Stream(at, first)]
      after8 == StreamIfLeft(StreamIfLeft(after32, 16), 8)
  IN StreamIfLeft(StreamIfLeft(StreamIfLeft(after8, 4), 2), 1)

\* util_is_pow2, for what is less than a line and wide enough for one store.
OneStore(len) == len \in {4, 8, 16, 32}

\* The bytes up to the first whole line.
BytesToLineUncut(addr, len) == IF addr % Line = 0 THEN 0 ELSE Line - (addr % Line)
BytesToLine(addr, len) ==
  LET room == Line - (addr % Line)
  IN IF addr % Line = 0 THEN 0 ELSE IF room > len THEN len ELSE room

\* pmem_memcpy of len bytes, from the place "at" on.
Memcpy(at, len) ==
  LET addr == dst + at
      cnt == BytesToLine(addr, len)
      lines == StreamLines(at + cnt, len - cnt)
      tail == at + len - lines.len
  IN [stores |->
        (IF addr % Line = 0 THEN {} ELSE MemmoveSmall(at, cnt)) \cup lines.stores \cup
        (IF lines.len = 0 THEN {}
         ELSE IF OneStore(lines.len) THEN {Store(tail, lines.len, TRUE)}
         ELSE MemmoveSmall(tail, lines.len)),
      flushed |->
        (IF addr % Line = 0 THEN {} ELSE LinesPersisted(addr, cnt)) \cup
        (IF lines.len = 0 \/ OneStore(lines.len) THEN {}
         ELSE LinesPersisted(dst + tail, lines.len))]

PmemMemcpy(len) ==
  /\ stores' = stores \cup Memcpy(pos, len).stores
  /\ flushed' = flushed \cup Memcpy(pos, len).flushed
  /\ pos' = pos + len

-----------------------------------------------------------------------------
Init ==
  /\ dst \in Destinations
  /\ n \in Lengths
  /\ pc \in IF n = 0 THEN {"call"} ELSE {"call", "direct"}
  /\ pos = 0
  /\ stores = {}
  /\ flushed = {}

CopyDirectly ==
  /\ pc = "direct"
  /\ PmemMemcpy(n)
  /\ pc' = "done"
  /\ UNCHANGED <<dst, n>>

CopyNothing ==
  /\ pc = "call"
  /\ n = 0
  /\ pc' = "done"
  /\ UNCHANGED <<dst, n, pos, stores, flushed>>

\* The bytes up to the next multiple of the granularity, unless that is all.
CopyUnaligned ==
  /\ pc = "call"
  /\ n > 0
  /\ LET unaligned == Granularity - (dst % Granularity) IN
       IF dst % Granularity # 0 /\ unaligned < n
       THEN PmemMemcpy(unaligned)
       ELSE UNCHANGED <<pos, stores, flushed>>
  /\ pc' = "loop"
  /\ UNCHANGED <<dst, n>>

\* Whole blocks, but for the last.
CopyBlock ==
  /\ pc = "loop"
  /\ pos + Granularity < n
  /\ stores' = stores \cup Stream(pos, 4)
  /\ pos' = pos + Granularity
  /\ UNCHANGED <<dst, n, pc, flushed>>

CopyRest ==
  /\ pc = "loop"
  /\ ~ (pos + Granularity < n)
  /\ PmemMemcpy(n - pos)
  /\ pc' = "done"
  /\ UNCHANGED <<dst, n>>

Next == CopyDirectly \/ CopyNothing \/ CopyUnaligned \/ CopyBlock \/ CopyRest

Spec == Init /\ [][Next]_vars

-----------------------------------------------------------------------------
Covered == UNION {s.to .. s.to + s.width - 1 : s \in stores}
Aligned(s) == s.width >= 16 => (dst + s.to) % s.width = 0

\* A copy writes the bytes it was asked to write and no others, whatever the
\* address and the length are modulo 64 and 256; each byte has gone past the
\* cache or its line has been written back afterwards; and the wide stores past
\* the cache are aligned, as the processor demands of them.  On the way, the
\* assertion of pmem_op.h:98 holds (pmem_op.cpp:203-364, pmem_op.h:80-122).
CopiesExactly ==
  /\ pc \in {"loop", "done"} => Covered = 0 .. pos - 1
  /\ pc = "done" => pos = n
  /\ \A s \in stores :
       IF s.nt THEN Aligned(s)
       ELSE LineOf(dst + s.to) .. LineOf(dst + s.to + s.width - 1) \subseteq flushed
  /\ pc = "loop" => (dst + pos) % Granularity = 0 \/ n - pos < Granularity
=============================================================================
