SPECIFICATION MCSpec
CONSTANTS
  Files <- MCFiles
  Options <- MCOptions
  MaxSize = 72
  MaxOps = 3
  Width = 4
  FirstExtent = 2
  Length = 15
  Counts = {0, 1, 2, 3, 4}
  Records <- MCRecords
  Primary = 0
  Alternates = {8, 9}
  Typed = {2, 5}
  Written <- MCWritten
CHECK_DEADLOCK FALSE
INVARIANTS ParsersAgree SigningKeepsCode
PROPERTIES ResignStable
