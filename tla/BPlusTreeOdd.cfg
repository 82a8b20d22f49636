SPECIFICATION Spec
CONSTANTS
  Order = 5
  Entries = 3
  MaxLevel = 10
  Keys = {1, 2, 3, 4, 5, 6, 7, 8, 9, 10, 11, 12}
  DataFor <- MC_OneEach
VIEW MC_View
INVARIANTS
  FillBounds
