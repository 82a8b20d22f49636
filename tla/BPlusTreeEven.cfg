SPECIFICATION Spec
CONSTANTS
  Order = 4
  Entries = 2
  MaxLevel = 10
  Keys = {1, 2, 3, 4, 5, 6, 7, 8}
  DataFor <- MC_OneEach
VIEW MC_View
INVARIANTS
  TypeOK
  LeavesHoldTheMap
  GetFindsTheEntry
  RangeFindsLast
  LinksAgree
  AssertionsHold
