------------------------------- MODULE PmemOp -------------------------------
(***************************************************************************)
(* What src/pmem_impl/pmem_op.{h,cpp} do to persistent memory: which cache *)
(* lines are written back by a persist, for a processor with AVX512 (on    *)
(* any other they do nothing).  Addresses are numbers; a cache line is     *)
(* called by its number.                                                   *)
(***************************************************************************)
EXTENDS Integers

Line == 64

LineOf(addr) == addr \div Line

\* PMemPersist: one clwb.
LinePersisted(addr) == LineOf(addr)

\* The loop begun at addr itself: the last line is missed if addr is not at the
\* beginning of a line.
LinesFromAddr(addr, len) == {LineOf(addr + Line * i) : i \in 0 .. (len - 1) \div Line}

\* PMemPersistRange and flush_clwb_nolog: the lines from the one that holds
\* addr on, as long as they begin below addr + len.
LinesPersisted(addr, len) == LineOf(addr) .. LineOf(addr + len - 1)
=============================================================================
