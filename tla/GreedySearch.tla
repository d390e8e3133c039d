------------------------------ MODULE GreedySearch ---------------------------
(***************************************************************************)
(* The beam search of graph.rs (over rows) and of ivf.rs (over coarse      *)
(* cells): one rule for what is kept, what is expanded and when to stop.   *)
(***************************************************************************)
EXTENDS Integers, Sequences, SequencesExt, FiniteSets, Functions

\* A candidate: its distance from the query and its place among equals.
Closer(a, b) == \/ a.d < b.d
                \/ a.d = b.d /\ a.tie < b.tie
Closest(C) == CHOOSE a \in C : \A b \in C : ~ Closer(b, a)
Farthest(C) == CHOOSE a \in C : \A b \in C : ~ Closer(a, b)

\* Mutant: a kept candidate is displaced by one that is farther away.
OfferLast(s, c, width) ==
  IF Cardinality(s.kept) < width THEN [s EXCEPT !.kept = @ \cup {c}, !.todo = @ \cup {c}]
  ELSE [s EXCEPT !.kept = (@ \ {Closest(@)}) \cup {c}, !.todo = @ \cup {c}]

\* A neighbour is kept if there is room, or in the place of a farther one.
Offer(s, c, width) ==
  IF Cardinality(s.kept) < width THEN [s EXCEPT !.kept = @ \cup {c}, !.todo = @ \cup {c}]
  ELSE IF c.d >= Farthest(s.kept).d THEN s
  ELSE [s EXCEPT !.kept = (@ \ {Farthest(@)}) \cup {c}, !.todo = @ \cup {c}]

\* Nothing is left that could displace what is kept.
Settled(s, width) ==
  \/ s.todo = {}
  \/ Cardinality(s.kept) >= width /\ Closest(s.todo).d >= Farthest(s.kept).d

\* Expands the closest candidate until the search has settled.
RECURSIVE Beam(_, _, _, _)
Beam(s, graph, cand, width) ==
  IF Settled(s, width) THEN s
  ELSE LET at    == Closest(s.todo)
           fresh == SelectSeq(graph[at.slot], LAMBDA x : x \notin s.seen)
           next  == [s EXCEPT !.todo = @ \ {at}, !.seen = @ \cup Range(fresh),
                              !.expanded = @ \cup {at.slot}]
       IN  Beam(FoldLeft(LAMBDA t, x : Offer(t, cand[x], width), next, fresh),
                graph, cand, width)

BeamSearch(first, hidden, graph, cand, width) ==
  Beam([todo |-> {cand[first]}, kept |-> {cand[first]}, seen |-> hidden \cup {first},
        expanded |-> {}], graph, cand, width)

=============================================================================
