SPECIFICATION Spec
CONSTANTS
  Destinations <- MC_Destinations
  Lengths <- MC_Lengths
INVARIANTS
  CopiesExactly
\* A copy ends.
CHECK_DEADLOCK FALSE
