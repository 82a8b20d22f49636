------------------------- MODULE MCPmemMessageQueue -------------------------
(***************************************************************************)
(* Small instances of PmemMessageQueue.  Two messages go to unit 0, so the *)
(* order within a unit shows, and one to unit 1, so the units differ.      *)
(***************************************************************************)
EXTENDS PmemMessageQueue, TLC

CONSTANTS a1, a2, b1    \* messages
CONSTANTS d1, d2        \* threads that call WaitDrain

MC_Messages == {a1, a2, b1}
MC_ShardOf == (a1 :> 0) @@ (a2 :> 0) @@ (b1 :> 1)

\* A single unit.
MC_OneUnit == {a1, a2}
MC_OneUnitShardOf == (a1 :> 0) @@ (a2 :> 0)

\* No action looks into a message, and a1 and a2 go to the same unit.
MC_SymMsg == Permutations({a1, a2})
=============================================================================
