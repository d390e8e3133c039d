SPECIFICATION ReadersSpec
CONSTANTS
  Kinds = {"ivf"}
  Id = {i1, i2, i3, i4}
  Vec = {v1, v2}
  Junk = Junk
  PerPage <- Pages
  PadPages = 2
  MaxDelta = 50
  MaxJobs = 2
CHECK_DEADLOCK FALSE
SYMMETRY Symmetry
INVARIANTS CurrentCopyIsImage ReadersInv
