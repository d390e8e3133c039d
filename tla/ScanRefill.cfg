CONSTANTS
  x = x
  y = y
  z = z
  Row = {x, y, z}
  NoAllow = NoAllow
  Arms = {"ReadOnly", "Bq", "Ooc", "Mutable", "Graph"}
  MaxLists = 2
  MaxDups = 2
  Settings <- MCSettings
  Widening = 2
  MaxSets = 1
  MaxRescans = 1
SPECIFICATION MCSpec
CHECK_DEADLOCK FALSE
INVARIANTS
  RowsReturnedRight
  ScanIsComplete
  SearchIsRight
PROPERTIES
  ScanEnds
