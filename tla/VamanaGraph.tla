----------------------------- MODULE VamanaGraph ----------------------------
(***************************************************************************)
(* The graph kind: the neighbours of each slot, built once from the whole  *)
(* corpus, extended by one slot at each INSERT, and searched from an entry *)
(* point.  VACUUM only masks slots.                                        *)
(*                                                                         *)
(* A build may be cut into shards, built in parallel and stitched together *)
(* (build_vamana_partitioned).  It runs on threads of a pool: they see     *)
(* that a cancel is pending and produce nothing more, but only the backend *)
(* can raise it, after the pool has returned.                              *)
(*                                                                         *)
(* Points have squared distances and scores; the score of a stored row is  *)
(* taken for exact.                                                        *)
(***************************************************************************)
EXTENDS GreedySearch, FiniteSetsExt

CONSTANTS
  Point,          \* vectors
  SqDist(_, _),   \* their squared distance
  Score(_, _),    \* of a query and a stored row: higher is closer
  MaxDegree,      \* GRAPH_DEGREE_R
  BuildWidth,     \* GRAPH_BUILD_L
  MaxRows,        \* bounds the rows of the index
  MaxShards       \* turbovec.graph_build_partitions, 1: the single-pass build

VARIABLES
  rows,     \* the vector in each slot
  adj,      \* GraphAdjacency: the neighbours of each slot, in ascending order
  entry,    \* meta.graph_entry_point
  tomb,     \* the slots masked by VACUUM
  build,    \* the build in progress: its stage, its insertion order, the
            \* shards, and those that were given up
  cancel    \* a cancel or terminate request is pending

vars == <<rows, adj, entry, tomb, build, cancel>>

-----------------------------------------------------------------------------
\* The same sequence; TLC computes its elements once, whoever asks for them.
AsTuple(s) == SubSeq(s, 1, Len(s))

\* greedy_search_collect_visited_via: the slots expanded on the way to slot p.
Visited(first, p, graph, dist, width) ==
  LET cand == AsTuple([x \in DOMAIN graph |-> [d |-> dist[p, x], tie |-> x, slot |-> x]])
  IN  BeamSearch(first, {p}, graph, cand, width).expanded

-----------------------------------------------------------------------------
(* Pruning and insertion.                                                  *)

\* GRAPH_ALPHA is 1.2: x covers c, seen from p.
Covers(dist, p, x, c) == 6 * dist[x, c] <= 5 * dist[p, c]

\* The element with the least value; of several, the first.
FirstLeast(S, f) ==
  CHOOSE x \in S : \A y \in S \ {x} : \/ f[x] < f[y]
                                      \/ f[x] = f[y] /\ x < y

\* robust_prune_via: the closest candidate, then the closest that none of the
\* chosen covers, until there are MaxDegree.
RECURSIVE Pruned(_, _, _, _)
Pruned(chosen, left, p, dist) ==
  IF left = {} \/ Len(chosen) = MaxDegree THEN chosen
  ELSE LET x == FirstLeast(left, [y \in left |-> dist[p, y]])
       IN  Pruned(Append(chosen, x),
                  {c \in left \ {x} : ~ Covers(dist, p, x, c)}, p, dist)

RobustPrune(p, candidates, dist) == Pruned(<<>>, candidates \ {p}, p, dist)

\* Mutant: a neighbour that is full gets the edge all the same.
LinkedBackUnpruned(graph, q, p, dist) == [graph EXCEPT ![q] = Append(@, p)]

\* The edge from q back to p; q is pruned if that makes one too many.
LinkedBack(graph, q, p, dist) ==
  IF p \in Range(graph[q]) THEN graph
  ELSE LET list == Append(graph[q], p)
       IN  [graph EXCEPT ![q] = IF Len(list) > MaxDegree
                                THEN RobustPrune(q, Range(list), dist) ELSE list]

\* insert_node_into_graph_via.
Inserted(graph, first, p, dist, width) ==
  LET chosen == RobustPrune(p, Visited(first, p, graph, dist, width) \cup Range(graph[p]), dist)
  IN  FoldLeft(LAMBDA g, q : LinkedBack(g, q, p, dist), [graph EXCEPT ![p] = chosen], chosen)

Slots == [x \in 1 .. MaxRows |-> x]
Ascending(S) == SelectSeq(Slots, LAMBDA x : x \in S)

\* GraphAdjacency::from_lists.
Flattened(graph) == [x \in DOMAIN graph |-> Ascending(Range(graph[x]))]

Exact(pts) == [x, y \in DOMAIN pts |-> SqDist(pts[x], pts[y])]

\* approx_medoid: the row nearest to the mean is the one with the least sum of
\* squared distances.
ApproxMedoid(pts) ==
  FirstLeast(DOMAIN pts,
    [x \in DOMAIN pts |-> FoldLeft(LAMBDA n, y : n + SqDist(pts[x], y), 0, pts)])

\* build_vamana_with_params: the rows are inserted in the given order.
BuildVamana(pts, order) ==
  LET first == ApproxMedoid(pts)
      width == Min({Len(pts), Max({BuildWidth, MaxDegree})})
      empty == [x \in DOMAIN pts |-> <<>>]
  IN  IF Len(pts) = 1 THEN empty
      ELSE Flattened(FoldLeft(LAMBDA g, p : Inserted(g, first, p, Exact(pts), width),
                              empty, order))

-----------------------------------------------------------------------------
(* The partitioned build.                                                  *)

\* Shard s of n: a stretch of the insertion order.
Shard(order, s, n) ==
  SubSeq(order, ((s - 1) * Len(order)) \div n + 1, (s * Len(order)) \div n)

\* The graphs of the shards side by side, under the slots' own numbers; a shard
\* that was given up has no edges.
Union(pts, order, n, given_up) ==
  LET Sub(ids) == BuildVamana(AsTuple([i \in DOMAIN ids |-> pts[ids[i]]]),
                              [i \in DOMAIN ids |-> i])
      sub == AsTuple([s \in 1 .. n |-> Sub(Shard(order, s, n))])
      ShardOf(x) == CHOOSE s \in 1 .. n : x \in Range(Shard(order, s, n))
      Edges(x, ids, graph) == Ascending({ids[y] : y \in Range(graph[CHOOSE i \in DOMAIN ids : ids[i] = x])})
  IN  [x \in DOMAIN pts |->
         IF ShardOf(x) \in given_up THEN <<>>
         ELSE Edges(x, Shard(order, ShardOf(x), n), sub[ShardOf(x)])]

\* Every slot looks for neighbours in all shards; nothing is changed meanwhile.
Refined(pts, graph) ==
  LET dist == Exact(pts)
  IN  [x \in DOMAIN pts |->
         RobustPrune(x, Visited(ApproxMedoid(pts), x, graph, dist, BuildWidth)
                          \cup Range(graph[x]), dist)]

\* The edges back, and a pruning of the slots that have too many then.
Mutual(pts, graph) ==
  [x \in DOMAIN pts |->
     LET merged == Range(graph[x]) \cup {y \in DOMAIN pts : x \in Range(graph[y])}
     IN  IF Cardinality(merged) <= MaxDegree THEN Ascending(merged)
         ELSE RobustPrune(x, merged, Exact(pts))]

\* build_vamana, build_vamana_partitioned.
BuiltGraph(pts, order, n, given_up) ==
  IF n = 1 THEN BuildVamana(pts, order)
  ELSE LET union == AsTuple(Union(pts, order, n, given_up))
       IN  Flattened(Mutual(pts, AsTuple(Refined(pts, union))))

-----------------------------------------------------------------------------
(* Search.                                                                 *)

Live == DOMAIN rows \ tomb

\* A live slot the search can leave again.
Leads(x, graph, dead) == Range(graph[x]) \ dead # {}

\* Mutant: the entry point is not checked for a live neighbour, and 0 stands for
\* none.
StartAtGiven(first, graph, dead) ==
  LET live == DOMAIN graph \ dead
  IN  IF first \in live THEN first ELSE IF live # {} THEN Min(live) ELSE 0

\* A live slot to start from: the one given, if it leads on, or the first that
\* does, or the first.
StartAt(first, graph, dead) ==
  LET live == DOMAIN graph \ dead
      leading == {x \in live : Leads(x, graph, dead)}
  IN  IF first \in live /\ Leads(first, graph, dead) THEN first
      ELSE IF leading # {} THEN Min(leading)
      ELSE IF live # {} THEN Min(live) ELSE 1

\* Mutant: an answer that is too short is not filled up.
BackfillNone(found, seen, k) == {}

\* When the beam was cut off from some rows: the first live slots it has not seen.
Backfill(found, seen, k) ==
  {x \in Live \ seen : Cardinality({y \in Live \ seen : y < x}) < k - Cardinality(found)}

\* The best first; of equals, the first slot.
ByScore(q, S) ==
  SortSeq(Ascending(S), LAMBDA x, y : \/ Score(q, rows[x]) > Score(q, rows[y])
                                      \/ Score(q, rows[x]) = Score(q, rows[y]) /\ x < y)

\* graph_search_with_ef: a beam of width ef, of k if that is more.  It prefers
\* the later of two rows with one score.
Searched(q, k, ef) ==
  BeamSearch(StartAt(entry, adj, tomb), tomb, adj,
             AsTuple([x \in DOMAIN rows |-> [d |-> - Score(q, rows[x]), tie |-> - x, slot |-> x]]),
             Min({Max({ef, k}), Len(rows)}))

\* The best k rows of the beam s.
GraphSearch(q, k, s) ==
  LET found == {c.slot : c \in s.kept}
      all   == ByScore(q, found \cup Backfill(found, s.seen, k))
  IN  IF Live = {} THEN <<>> ELSE SubSeq(all, 1, Min({k, Len(all)}))

-----------------------------------------------------------------------------
(* The index.                                                              *)

NoBuild == [stage |-> "none", pts |-> <<>>, order |-> <<>>, shards |-> 1,
            done |-> {}, given_up |-> {}]

Init ==
  /\ rows = <<>> /\ adj = <<>> /\ entry = 1 /\ tomb = {}
  /\ build = NoBuild
  /\ cancel = FALSE

TypeOK ==
  /\ rows \in Seq(Point) /\ Len(rows) <= MaxRows
  /\ DOMAIN adj = DOMAIN rows /\ \A x \in DOMAIN rows : adj[x] \in Seq(DOMAIN rows)
  /\ entry \in DOMAIN rows \cup {1} /\ tomb \subseteq DOMAIN rows
  /\ build.stage \in {"none", "shards", "stored"} /\ build.shards \in 1 .. MaxShards
  /\ build.done \subseteq 1 .. build.shards /\ build.given_up \subseteq build.done
  /\ cancel \in BOOLEAN

\* The shuffle has a fixed seed; two orders stand for it.
Orders(n) == {[i \in 1 .. n |-> i], [i \in 1 .. n |-> n + 1 - i]}

\* REINDEX: a new relfile.
NewRelfile ==
  /\ rows # <<>>
  /\ rows' = <<>> /\ adj' = <<>> /\ entry' = 1 /\ tomb' = {}
  /\ build' = NoBuild
  /\ UNCHANGED cancel

\* The table has been read.  A shard has at least two rows.
BuildBegin ==
  /\ rows = <<>> /\ build.stage = "none"
  /\ \E n \in 1 .. MaxRows, shards \in 1 .. MaxShards :
       /\ shards = 1 \/ 2 * shards <= n
       /\ \E pts \in [1 .. n -> Point], order \in Orders(n) :
            build' = [stage |-> "shards", pts |-> pts, order |-> order, shards |-> shards,
                      done |-> {}, given_up |-> {}]
  /\ UNCHANGED <<rows, adj, entry, tomb, cancel>>

\* A pool thread takes a shard, and works on it to the end.
BuildShard(s) ==
  /\ build.stage = "shards" /\ s \in 1 .. build.shards \ build.done
  /\ build' = [build EXCEPT !.done = @ \cup {s}]
  /\ UNCHANGED <<rows, adj, entry, tomb, cancel>>

\* build_abort_requested: a pool thread returns an empty shard.  The single-pass
\* build does not ask.
GiveUpShard(s) ==
  /\ build.stage = "shards" /\ s \in 1 .. build.shards \ build.done
  /\ cancel /\ build.shards > 1
  /\ build' = [build EXCEPT !.done = @ \cup {s}, !.given_up = @ \cup {s}]
  /\ UNCHANGED <<rows, adj, entry, tomb, cancel>>

\* pg_cancel_backend, pg_terminate_backend.
Cancel ==
  /\ build.stage = "shards" /\ ~ cancel
  /\ cancel' = TRUE
  /\ UNCHANGED <<rows, adj, entry, tomb, build>>

PoolReturned == build.stage = "shards" /\ build.done = 1 .. build.shards

\* Mutant: the graph is stored before the backend looks for a cancel.
MayStoreUnasked == PoolReturned

\* The polls of the graph module see no hook on a pool thread: the first one
\* that counts is in the backend, after the pool has returned.
MayStore == PoolReturned /\ ~ cancel

BuildStore ==
  /\ MayStore
  /\ rows' = build.pts
  /\ adj' = BuiltGraph(build.pts, build.order, build.shards, build.given_up)
  /\ entry' = ApproxMedoid(build.pts)
  /\ tomb' = {}
  /\ build' = [build EXCEPT !.stage = "stored"]
  /\ UNCHANGED cancel

\* check_for_interrupts raises: the new relfile is gone.
BuildError ==
  /\ PoolReturned /\ cancel
  /\ build' = NoBuild /\ cancel' = FALSE
  /\ UNCHANGED <<rows, adj, entry, tomb>>

\* insert_one_node_via_oracle: the distance from the new row is its score; of two
\* stored rows only the difference of their scores is known.
OracleDist(v, pts) ==
  LET p == Len(pts) + 1
      D(x) == IF x = p THEN 0 ELSE - Score(v, pts[x])
      Abs(n) == IF n < 0 THEN - n ELSE n
  IN  [x, y \in 1 .. p |-> IF x = p THEN D(y) ELSE IF y = p THEN D(x) ELSE Abs(D(x) - D(y))]

\* insert_graph_row.
Insert(v) ==
  LET first == IF entry \in Live THEN entry ELSE IF Live = {} THEN 1 ELSE Min(Live)
  IN  /\ rows # <<>> /\ Len(rows) < MaxRows
      /\ rows' = Append(rows, v)
      /\ adj' = Flattened(Inserted(Append(adj, <<>>), first, Len(rows) + 1,
                                   OracleDist(v, rows), BuildWidth))
      /\ entry' = first
      /\ build' = NoBuild
      /\ UNCHANGED <<tomb, cancel>>

\* graph_tombstone_dead.
Vacuum(K) ==
  /\ K # {} /\ K \subseteq Live
  /\ tomb' = tomb \cup K
  /\ entry' = StartAt(entry, adj, tomb')
  /\ build' = NoBuild
  /\ UNCHANGED <<rows, adj, cancel>>

Next ==
  \/ NewRelfile
  \/ BuildBegin
  \/ \E s \in 1 .. MaxShards : BuildShard(s)
  \/ \E s \in 1 .. MaxShards : GiveUpShard(s)
  \/ Cancel
  \/ BuildStore
  \/ BuildError
  \/ \E v \in Point : Insert(v)
  \/ \E K \in SUBSET DOMAIN rows : Vacuum(K)

Spec == Init /\ [][Next]_vars

-----------------------------------------------------------------------------
(* Properties.                                                             *)

\* What GraphAdjacency::validate asks of every graph that is read, and the bound
\* of the degrees: every neighbour is another slot, no list is longer than
\* MaxDegree, and the entry point exists and leads somewhere.  (A graph that
\* fails is not searched.)
GraphSound ==
  /\ TypeOK
  /\ \A x \in DOMAIN rows :
       /\ Range(adj[x]) \subseteq DOMAIN rows \ {x}
       /\ adj[x] = Ascending(Range(adj[x]))
       /\ Len(adj[x]) <= MaxDegree
  /\ rows # <<>> => /\ entry \in DOMAIN rows
                    /\ Len(rows) > 1 => adj[entry] # <<>>

\* Slots a search can come to from x over live rows.
RECURSIVE Reached(_, _)
Reached(S, graph) ==
  LET more == (UNION {Range(graph[x]) : x \in S} \cap Live) \cup S
  IN  IF more = S THEN S ELSE Reached(more, graph)

\* Whatever was deleted, however the rows lie and however narrow the beam, a
\* search for k rows returns k different live rows, or all there are; of the rows
\* it has scored, none that it leaves out is better than one that it returns; and
\* a beam as wide as the index has scored all the live rows that edges between
\* live rows lead to.  (The index-AM contract: the backfill; the eviction and the
\* stopping rule.)
SearchIsSound ==
  LET reached == Reached({StartAt(entry, adj, tomb)}, adj)
  IN  \A q \in Point, ef \in DOMAIN rows :
        LET s    == Searched(q, 1, ef)  \* whatever k, up to ef
            seen == s.seen \cap Live
        IN  /\ \A k \in 1 .. ef :
                 LET a     == GraphSearch(q, k, s)
                     found == Range(a)
                 IN  /\ Len(a) = Min({k, Cardinality(Live)})
                     /\ Cardinality(found) = Len(a) /\ found \subseteq Live
                     /\ \A x \in seen \ found, y \in found \cap seen :
                          Score(q, rows[x]) <= Score(q, rows[y])
            /\ ef = Len(rows) /\ Live # {} => reached \subseteq seen

\* The graph a build has stored is the graph of the whole corpus, whatever
\* shards were given up and whenever the cancel came.
StoredGraphIsWhole ==
  build.stage = "stored" =>
    adj = BuiltGraph(build.pts, build.order, build.shards, {})

=============================================================================
