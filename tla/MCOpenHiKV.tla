----------------------------- MODULE MCOpenHiKV -----------------------------
(***************************************************************************)
(* Small instances of OpenHiKV: two clients that write both of two keys.   *)
(* In the first the keys share a shard, so one worker applies the writes   *)
(* of both; in the second each key has a shard of its own.                 *)
(***************************************************************************)
EXTENDS OpenHiKV, TLC

CONSTANTS c1, c2

MC_Messages ==
  {SetMessage(k, o) : k \in Keys, o \in Offsets} \cup {DelMessage(k) : k \in Keys}

MC_OneShard == [m \in MC_Messages |-> 0]
MC_TwoShards == [m \in MC_Messages |-> m.key - 1]

\* Any client does what any other may.
MC_Symmetry == Permutations({c1, c2})
=============================================================================
