SPECIFICATION SettingsSpec
CONSTANTS
  Session = {s}
  Array = FALSE
  Unlogged = FALSE
  Dims = {8}
  Withs <- Unnamed
  Defaults = {2, 4}
  AlterWidths = {}
  OldRows <- NoOldRows
  Scans <- OneScan
  MaxDelta = 50
  MaxChanges = 6
CHECK_DEADLOCK FALSE
INVARIANT ReadAsWritten
