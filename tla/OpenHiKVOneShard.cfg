SPECIFICATION Spec
CONSTANTS
  c1 = c1
  c2 = c2
  Shards = {0}
  Callers = {c1, c2}
  Keys = {1, 2}
  MaxSets = 3
  Messages <- MC_Messages
  ShardOf <- MC_OneShard
  MaxLog = 4
SYMMETRY MC_Symmetry
INVARIANTS
  IInv
  GetSeesLastWrite
  SlicesStayValid
  NothingDangles
  IndexesAgreeWhenDrained
  OnlyDelsFreeTheStore
\* When the bounds on sets and messages are used up, nobody has to call again.
CHECK_DEADLOCK FALSE
