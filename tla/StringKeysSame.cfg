SPECIFICATION Spec
CONSTANTS
  Strings <- MC_Same
  Bytes = {1, 3}
INVARIANTS
  SortedByString
