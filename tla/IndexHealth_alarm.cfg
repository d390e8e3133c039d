CONSTANTS
  Kinds = {"graph"}
  Dim = 2
  MaxRows = 3
  MaxLists = 2
  MaxDelta = 50
  MaxDamage = 0
  Probes = {1}
SPECIFICATION HealthSpec
CHECK_DEADLOCK FALSE
INVARIANT NoFalseAlarm
