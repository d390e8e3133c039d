------------------------------- MODULE Sublists ------------------------------
(* The part of a sequence that a filter keeps.                               *)
EXTENDS Integers, Sequences

\* The elements of s at the positions in D, in their order.
Kept(s, D) ==
  LET kept[n \in 0 .. Len(s)] ==
        IF n = 0 THEN <<>>
        ELSE IF n \in D THEN Append(kept[n - 1], s[n]) ELSE kept[n - 1]
  IN  kept[Len(s)]

=============================================================================
