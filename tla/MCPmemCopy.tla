----------------------------- MODULE MCPmemCopy -----------------------------
(***************************************************************************)
(* Every address modulo the granularity, with every length up to a block   *)
(* and a line, so that each combination of what is left at either end      *)
(* occurs; and lengths around two blocks, around 32 lines and around their *)
(* powers of two, for the loops and the cascade.                           *)
(***************************************************************************)
EXTENDS PmemCopy

MC_Destinations == 0 .. 255
MC_Lengths ==
  0 .. 321 \cup 511 .. 514 \cup {577, 1023, 1024, 2047, 2048, 2049, 2111, 4032, 4097, 4160}
=============================================================================
