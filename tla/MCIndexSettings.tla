-------------------------- MODULE MCIndexSettings --------------------------
(* Instances of IndexSettings for two runs: an index that does not name its   *)
(* bit width, under a setting that changes; and one of the release before.    *)
EXTENDS IndexSettings

Unnamed == {NoWith}
NoOldRows == <<>>
OldRow == <<[id |-> 100, dim |-> 8]>>
OneScan == {[probes |-> 1, ooc |-> "auto", budget |-> 1000]}
=============================================================================
