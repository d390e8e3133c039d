CONSTANTS
  Backend = {b1, b2}
  Tid = {t1, t2}
  Vec = {v1, v2}
  None = None
  Ivf = TRUE
  MaxVersion = 3
  MaxNode = 2
SPECIFICATION Spec
SYMMETRY Symmetry
INVARIANTS
  TypeOK
  CopiesServeScans
PROPERTY
  ImplementsRowIndex
