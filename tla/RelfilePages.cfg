SPECIFICATION Spec
CONSTANTS
  Kinds = {"flat", "ivf", "graph", "bq", "bqivf"}
  Id = {i1, i2, i3, i4}
  Vec = {v1, v2}
  PerPage <- Pages
  PadPages = 2
  MaxDelta = 50
  MaxJobs = 3
CHECK_DEADLOCK FALSE
SYMMETRY Symmetry
INVARIANTS FileSound RewriteInv
