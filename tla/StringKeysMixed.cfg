SPECIFICATION Spec
CONSTANTS
  Strings <- MC_Mixed
  Bytes = {1, 2}
INVARIANTS
  EveryKeyIsStored
