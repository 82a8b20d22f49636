---------------------------- MODULE MCBPlusTree ----------------------------
(***************************************************************************)
(* Small instances of BPlusTree.  Each key has data of its own, so that    *)
(* data moved apart from its key shows.                                    *)
(***************************************************************************)
EXTENDS BPlusTree

MC_OneEach == [k \in Keys |-> {100 + k}]
MC_TwoEach == [k \in Keys |-> {100 + k, 200 + k}]

(***************************************************************************)
(* calloc may return any address, so two states that differ in the names   *)
(* of nodes only are one state.  MC_View calls a node by its level and its *)
(* place in the level's list, and shows everything else of the state.  A   *)
(* parent that is no longer allocated is shown as {<<>>}.                  *)
(***************************************************************************)
Name ==
  [n \in DOMAIN heap \cup {Null} |->
     {<<l, i>> \in UNION {{l} \X DOMAIN list[l] : l \in 0 .. level} : list[l][i] = n}]

Renamed(n) ==
  [heap[n] EXCEPT
     !.parent = IF @ \in DOMAIN Name THEN Name[@] ELSE {<<>>},
     !.sub = IF heap[n].leaf THEN @
             ELSE [j \in DOMAIN @ |-> IF @[j] \in DOMAIN heap THEN Name[@[j]] ELSE {}]]

MC_View ==
  <<[l \in 0 .. level |-> [i \in DOMAIN list[l] |-> Renamed(list[l][i])]],
    Name[root], Cardinality(DOMAIN heap), contents,
    CASE work.op = "idle"   -> <<>>
      [] work.op = "build"  -> <<Name[work.left], Name[work.right], work.key>>
      [] work.op = "remove" -> <<Name[work.node], work.remove>> >>
=============================================================================
