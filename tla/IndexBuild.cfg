SPECIFICATION MCSpec
CONSTANTS
  Point <- Line
  Builds <- SmallBuilds
  ChunkRows = {1, 2}
  CalibRows = 2
  DeltaPct = 50
  Degree = 1
  MaxRows = 5
  InPlace = {"a", "b"}
  Bq = {"q"}
  ScanOnly = {"s"}
  Bytes = {1, 2}
  Caps = {0, 1, 3}
CHECK_DEADLOCK FALSE
INVARIANTS RowsAreFound OocIsWhole ProbeIsNearest CellsAreTrained TrainingDescends CopiesSound
PROPERTIES BuildIsReference WithinCap VanishesOnlyWhenPinned
