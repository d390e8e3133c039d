-------------------------- MODULE MCDeferredFlush --------------------------
(* DeferredFlush on small sets; the sets are model values of the .cfg.     *)
EXTENDS DeferredFlush, TLC

\* Backends, TIDs and vectors are interchangeable: no definition names one.
Symmetry == Permutations(Backend) \cup Permutations(Tid) \cup Permutations(Vec)
=============================================================================
