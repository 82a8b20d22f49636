SPECIFICATION Spec
CONSTANTS
  t1 = t1
  t2 = t2
  t3 = t3
  k1 = k1
  k2 = k2
  k3 = k3
  s1 = s1
  s2 = s2
  p1 = p1
  p2 = p2
  Threads = {t1, t2, t3}
  Keys = {k1, k2, k3}
  Stores = {s1, s2}
  Store = s1
  Path <- MC_Path
  TableSize = 128
  RequestLen <- MC_RequestLen
  Hash <- MC_Hash
  EntryNum = 3
  Slack = 2
  MaxSets = 3
INVARIANTS
  IInv
  RecordsAreKept
  EverySetIsReachable
  SetsAreDurable
  NeverOverruns
PROPERTIES
  SlotsAreKept
  SetReturns
\* When the bound on the calls is used up, nothing is left to do.
CHECK_DEADLOCK FALSE
