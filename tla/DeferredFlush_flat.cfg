CONSTANTS
  Backend = {b1, b2}
  Tid = {t1, t2, t3}
  Vec = {v1, v2}
  None = None
  Ivf = FALSE
  MaxVersion = 4
  MaxNode = 1
SPECIFICATION Spec
SYMMETRY Symmetry
INVARIANTS
  CommittedRowsIndexed
  NoDanglingRows
  OwnWritesKept
  RowInv
  CopyInv
