SPECIFICATION Spec
CONSTANTS
  c1 = c1
  c2 = c2
  Shards = {0, 1}
  Callers = {c1, c2}
  Keys = {1, 2}
  MaxSets = 2
  Messages <- MC_Messages
  ShardOf <- MC_TwoShards
  MaxLog = 3
INVARIANTS
  ScanSeesEarlierWrites
PROPERTIES
  ScanTerminates
\* When the bounds on sets and messages are used up, nobody has to call again.
CHECK_DEADLOCK FALSE
