------------------------ MODULE MCPmemUnorderedIndex ------------------------
(***************************************************************************)
(* A small instance of PmemUnorderedIndex: three slots to hash to, two of  *)
(* slack.  k1 and k2 have the same home, the last slot, and k3 has the one *)
(* before it, so probe sequences run into each other and into the slack.   *)
(* A table of the store takes the records of k1 and k2 and no third; the   *)
(* record of k3 is longer than a table.                                    *)
(***************************************************************************)
EXTENDS PmemUnorderedIndex, TLC

CONSTANTS t1, t2, t3
CONSTANTS k1, k2, k3
CONSTANTS s1, s2
CONSTANTS p1, p2

MC_Hash == (k1 :> 5) @@ (k2 :> 11) @@ (k3 :> 1)
MC_RequestLen == (k1 :> 40) @@ (k2 :> 88) @@ (k3 :> 130)
MC_Path == (s1 :> p1) @@ (s2 :> p2)
=============================================================================
