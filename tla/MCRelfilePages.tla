--------------------------- MODULE MCRelfilePages ---------------------------
(* RelfilePages with pages of one or two rows and chains padded from two     *)
(* pages on.                                                                 *)
EXTENDS RelfilePages, TLC

Pages == [c \in Chain |-> IF c \in {"scales", "ids", "tomb", "graph"} THEN 2 ELSE 1]

Symmetry == Permutations(Id) \cup Permutations(Vec)
=============================================================================
