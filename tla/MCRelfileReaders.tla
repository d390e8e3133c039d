------------------------- MODULE MCRelfileReaders -------------------------
(* RelfileReaders for an IVF index with pages of one or two rows.            *)
EXTENDS RelfileReaders, TLC

Pages == [c \in Chain |-> IF c \in {"codes", "scales", "ids", "tomb"} THEN 3 ELSE 1]

Symmetry == Permutations(Id) \cup Permutations(Vec)
=============================================================================
