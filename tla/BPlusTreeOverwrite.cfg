SPECIFICATION Spec
CONSTANTS
  Order = 3
  Entries = 2
  MaxLevel = 10
  Keys = {1, 2, 3}
  DataFor <- MC_TwoEach
VIEW MC_View
INVARIANTS
  GetSeesLastPut
