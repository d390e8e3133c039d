CONSTANTS
  Backend = {b1, b2}
  Tid = {t1, t2}
  Vec = {v1, v2}
  None = None
  Ivf = FALSE
  MaxVersion = 3
  MaxNode = 2
SPECIFICATION Spec
SYMMETRY Symmetry
INVARIANT
  EveryCommittedRowIndexed
