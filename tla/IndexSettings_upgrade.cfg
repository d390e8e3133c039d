SPECIFICATION SettingsSpec
CONSTANTS
  Session = {s}
  Array = FALSE
  Unlogged = FALSE
  Dims = {8}
  Withs = {}
  Defaults = {4}
  AlterWidths = {}
  OldRows <- OldRow
  Scans <- OneScan
  MaxDelta = 50
  MaxChanges = 4
CHECK_DEADLOCK FALSE
INVARIANT ReadAsWritten
