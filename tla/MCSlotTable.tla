---------------------------- MODULE MCSlotTable ----------------------------
(* SlotTable on small sets of model values; and the graph kind, VamanaGraph,  *)
(* over points of a circle, which shares no state with it: a behaviour is of  *)
(* one of them.                                                               *)
EXTENDS SlotTable, TLC

VARIABLES
  part,                                     \* "slots" or "graph"
  nodes, adj, entry, masked, build, cancel  \* VamanaGraph

\* The squared chord of points 60 degrees apart, with radius 1, and twice the
\* cosine.
SqChords == <<0, 1, 3, 4, 3, 1>>
CircleSqDist(a, b) == SqChords[((a - b + 6) % 6) + 1]
CircleScore(a, b) == 2 - CircleSqDist(a, b)

V == INSTANCE VamanaGraph WITH
       Point <- {0, 1, 3}, SqDist <- CircleSqDist, Score <- CircleScore, MaxDegree <- 2,
       BuildWidth <- 3, MaxRows <- 5, MaxShards <- 2, rows <- nodes, tomb <- masked

Symmetry == Permutations(Backend) \cup Permutations(Id) \cup Permutations(Vec)

GraphVars == <<nodes, adj, entry, masked, build, cancel>>
NoSlots == Init /\ kind = "flat"
NoGraph == nodes = 0 /\ adj = 0 /\ entry = 0 /\ masked = 0 /\ build = 0 /\ cancel = 0

MCInit ==
  \/ part = "slots" /\ Init /\ NoGraph
  \/ part = "graph" /\ V!Init /\ NoSlots

SlotStep == part = "slots" /\ Next /\ UNCHANGED <<part, GraphVars>>
GraphStep == part = "graph" /\ V!Next /\ UNCHANGED <<part, vars>>

MCNext == SlotStep \/ GraphStep
MCSpec == MCInit /\ [][MCNext]_<<part, vars, GraphVars>>

-----------------------------------------------------------------------------
(* The properties of VamanaGraph, stated there.                            *)

\* A graph, however it was built and extended, is one that searches can walk.
GraphSound == part = "graph" => V!GraphSound

\* A search of the graph returns as many live rows as it was asked for, if there
\* are as many, and they are the best of what the walk saw.
SearchIsSound == part = "graph" => V!SearchIsSound

\* No graph is stored of a build that was cancelled or gave up a shard.
StoredGraphIsWhole == part = "graph" => V!StoredGraphIsWhole
=============================================================================
