SPECIFICATION MCSpec
SYMMETRY Symmetry
CONSTANTS
  Backend = {p, q}
  Id = {i, j, k}
  Vec = {v, w}
  Nobody = Nobody
  Kinds = {"flat", "ivf", "bq", "graph"}
  MaxDelta = 1
  Interrupts = TRUE
INVARIANTS
  SlotsSound
  SlotsInv
  GraphSound
  SearchIsSound
  StoredGraphIsWhole
