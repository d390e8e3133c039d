-------------------------- MODULE PartitionRouting --------------------------
(***************************************************************************)
(* Routing a query to the partitions whose means are nearest to it.        *)
(*                                                                         *)
(* refresh_partition_summary() replaces the rows of a parent table in      *)
(* turbovec.partition_summary: one SQL statement after another, each with  *)
(* a snapshot of its own, while rows and partitions come and go and other  *)
(* sessions refresh as well.  nearest_partitions() ranks what is committed *)
(* there.                                                                  *)
(*                                                                         *)
(* Vectors have one coordinate; one of another dimension is Odd.  A mean   *)
(* is kept as the sum and the number of its rows.                          *)
(***************************************************************************)
EXTENDS Integers, Sequences, FiniteSets, FiniteSetsExt, SequencesExt

CONSTANTS
  Partition,   \* the partitions, numbered in the order the summary is scanned
  Naming,      \* the names they may have: as numbers, without the schemas
  Point,       \* vectors of one coordinate
  Odd,         \* a vector of another dimension
  Session,     \* sessions that refresh
  Wanted,      \* vectors searched for
  MaxChanges   \* bound: changes of rows and partitions

ASSUME PartitionAssumption ==
  Partition \subseteq Nat /\ IsFiniteSet(Partition) /\ Naming \subseteq [Partition -> Nat]
ASSUME PointAssumption == Point \cup Wanted \subseteq Int /\ Odd \notin Point
ASSUME SessionAssumption == Session # {}

VARIABLES
  parent,   \* the partitions: whether they are there, their names and rows
  summary,  \* the committed summaries
  refresh,  \* the refresh of each session
  changes,  \* changes so far
  picked    \* the last answer of nearest_partitions

routeVars == <<parent, summary, refresh, changes, picked>>

-----------------------------------------------------------------------------
NoMean == [sum |-> 0, n |-> 0]
NoRefresh == [pc |-> "idle", left |-> <<>>, seen |-> {}, gone |-> {},
              new |-> [p \in Partition |-> NoMean], calm |-> FALSE]
NotPicked == [on |-> FALSE, calm |-> FALSE, query |-> 0, metric |-> "l2", k |-> 0,
              partitions |-> <<>>]

RouteInit ==
  /\ \E names \in Naming, rows \in [Partition -> {{}} \cup {{x} : x \in Point}] :
       parent = [p \in Partition |-> [on |-> TRUE, name |-> names[p], rows |-> rows[p]]]
  /\ summary = [of |-> [p \in Partition |-> NoMean], fresh |-> FALSE]
  /\ refresh = [s \in Session |-> NoRefresh]
  /\ changes = 0
  /\ picked = NotPicked

\* The partitions that have a summary.
With(means) == {p \in Partition : means[p] # NoMean}

\* Rows or partitions change: nothing is fresh any more.
Changed ==
  /\ changes < MaxChanges /\ changes' = changes + 1
  /\ summary' = [summary EXCEPT !.fresh = FALSE]
  /\ refresh' = [s \in Session |-> [refresh[s] EXCEPT !.calm = FALSE]]
  /\ picked' = NotPicked

InsertRow(p, v) ==
  /\ parent[p].on /\ v \notin parent[p].rows
  /\ parent' = [parent EXCEPT ![p].rows = @ \cup {v}]
  /\ Changed

DeleteRow(p, v) ==
  /\ v \in parent[p].rows
  /\ parent' = [parent EXCEPT ![p].rows = @ \ {v}]
  /\ Changed

\* DROP TABLE waits for the sessions that refresh: infer_dim locks them all.
DropPartition(p) ==
  /\ parent[p].on /\ \A s \in Session : refresh[s].pc = "idle"
  /\ parent' = [parent EXCEPT ![p].on = FALSE, ![p].rows = {}]
  /\ Changed

-----------------------------------------------------------------------------
(* A refresh.                                                              *)

Listings == SetToSeqs({p \in Partition : parent[p].on})

\* Mutant: the partitions in any order.
ChildrenUnordered == Listings

\* child_partitions: in the order of their names.  Partitions in two schemas may
\* share one: which of them comes first is open.
Children ==
  {q \in Listings : \A i, j \in DOMAIN q : i < j => parent[q[i]].name <= parent[q[j]].name}

\* partition_mean: rows of another dimension do not count.
Mean(p, dim) ==
  LET rows == IF dim = 1 THEN parent[p].rows \ {Odd} ELSE parent[p].rows \cap {Odd}
  IN  [sum |-> IF dim = 1 THEN SumSet(rows) ELSE 0, n |-> Cardinality(rows)]

\* infer_dim takes the dimension of any row.  It is one here: the refresh of a
\* table whose first row is the odd one has other summaries.
Begin(s) ==
  /\ refresh[s].pc = "idle"
  /\ \E p \in Partition : parent[p].rows \ {Odd} # {}
  /\ \E c \in Children :
       refresh' = [t \in Session |->
                     IF t = s THEN [NoRefresh EXCEPT !.pc = "delete", !.left = c,
                                      !.calm = \A u \in Session : refresh[u].pc = "idle"]
                     ELSE [refresh[t] EXCEPT !.calm = FALSE]]
  /\ picked' = NotPicked
  /\ UNCHANGED <<parent, summary, changes>>

\* The DELETE sees the rows committed when it begins.
Deletes(s) ==
  /\ refresh[s].pc = "delete"
  /\ refresh' = [refresh EXCEPT ![s].pc = "rows", ![s].seen = With(summary.of)]
  /\ picked' = NotPicked
  /\ UNCHANGED <<parent, summary, changes>>

\* The row that it comes to next, in the one order that all scans have.
NextRow(s) == Min(refresh[s].seen)

\* A session waits to delete a row that another is deleting; and to insert a row
\* with the key of one that another is inserting, or deleting: a row committed
\* after its own DELETE began.
Waits(s) ==
  \/ /\ refresh[s].pc = "rows" /\ refresh[s].seen # {}
     /\ \E t \in Session \ {s} : NextRow(s) \in refresh[t].gone
  \/ /\ refresh[s].pc = "insert" /\ refresh[s].left # <<>>
     /\ LET p == Head(refresh[s].left)
        IN  /\ Mean(p, 1).n > 0
            /\ \E t \in Session \ {s} :
                 refresh[t].new[p] # NoMean \/ p \in refresh[t].gone

\* It deletes one row.
DeletesRow(s) ==
  /\ refresh[s].pc = "rows" /\ refresh[s].seen # {} /\ ~ Waits(s)
  /\ refresh' = [refresh EXCEPT ![s].seen = @ \ {NextRow(s)}, ![s].gone = @ \cup {NextRow(s)}]
  /\ picked' = NotPicked
  /\ UNCHANGED <<parent, summary, changes>>

Deleted(s) ==
  /\ refresh[s].pc = "rows" /\ refresh[s].seen = {}
  /\ refresh' = [refresh EXCEPT ![s].pc = "insert"]
  /\ picked' = NotPicked
  /\ UNCHANGED <<parent, summary, changes>>

Aborted(s) == refresh' = [refresh EXCEPT ![s] = NoRefresh] /\ UNCHANGED summary

\* The next partition: without rows, left out; with a summary that another
\* session has committed, a duplicate key.
Summarise(s) ==
  /\ refresh[s].pc = "insert" /\ refresh[s].left # <<>> /\ ~ Waits(s)
  /\ LET p    == Head(refresh[s].left)
         mean == Mean(p, 1)
         next == [refresh[s] EXCEPT !.left = Tail(@)]
     IN  IF mean.n > 0 /\ p \in With(summary.of) \ refresh[s].gone
         THEN Aborted(s)
         ELSE /\ refresh' = [refresh EXCEPT
                               ![s] = IF mean.n = 0 THEN next
                                      ELSE [next EXCEPT !.new[p] = mean]]
              /\ UNCHANGED summary
  /\ picked' = NotPicked
  /\ UNCHANGED <<parent, changes>>

\* The rows deleted go, the new ones come.
Committed(s) ==
  [p \in Partition |-> IF refresh[s].new[p] # NoMean THEN refresh[s].new[p]
                       ELSE IF p \in refresh[s].gone THEN NoMean ELSE summary.of[p]]

\* A DELETE that waited for rows which are now deleted passes over them.
Commit(s) ==
  /\ refresh[s].pc = "insert" /\ refresh[s].left = <<>>
  /\ summary' = [of |-> Committed(s), fresh |-> refresh[s].calm]
  /\ refresh' = [t \in Session |-> IF t = s THEN NoRefresh
                                   ELSE [refresh[t] EXCEPT !.seen = @ \ refresh[s].gone]]
  /\ picked' = NotPicked
  /\ UNCHANGED <<parent, changes>>

Cancel(s) ==
  /\ refresh[s].pc # "idle"
  /\ Aborted(s)
  /\ picked' = NotPicked
  /\ UNCHANGED <<parent, changes>>

-----------------------------------------------------------------------------
(* Ranking.                                                                *)

Sign(x) == IF x > 0 THEN 1 ELSE IF x < 0 THEN -1 ELSE 0
Square(x) == x * x
Metric == {"cosine", "l2", "ip"}

\* Metric::distance to a mean, times the square of its number of rows for l2,
\* the number for ip.
MetricDistance(metric, q, m) ==
  CASE metric = "cosine" -> 1 - Sign(q) * Sign(m.sum)
    [] metric = "l2"     -> Square(q * m.n - m.sum)
    [] metric = "ip"     -> - q * m.sum

IsNaN(metric, q, m) == metric = "cosine" /\ (q = 0 \/ m.sum = 0)
Scale(metric, m) ==
  CASE metric = "cosine" -> 1 [] metric = "l2" -> Square(m.n) [] metric = "ip" -> m.n

\* The order of the sort: NaN last.
Before(metric, q, m, o) ==
  /\ ~ IsNaN(metric, q, m)
  /\ \/ IsNaN(metric, q, o)
     \/ MetricDistance(metric, q, m) * Scale(metric, o)
          < MetricDistance(metric, q, o) * Scale(metric, m)

\* Mutant: cut before the sort.
rank_nearestUnsorted(metric, q, means, rows, k) == SubSeq(rows, 1, Min({k, Len(rows)}))

\* rank_nearest: a stable sort, then the first k.
rank_nearest(metric, q, means, rows, k) ==
  LET place(i) == Cardinality({j \in DOMAIN rows :
                    \/ Before(metric, q, means[rows[j]], means[rows[i]])
                    \/ /\ ~ Before(metric, q, means[rows[i]], means[rows[j]])
                       /\ j < i}) + 1
  IN  [n \in 1 .. Min({k, Len(rows)}) |-> rows[CHOOSE i \in DOMAIN rows : place(i) = n]]

\* load_summaries reads the rows in any order.  The same summaries are not asked
\* twice in a row: a second answer is one that the first could have been.
nearest_partitions(q, k, metric) ==
  /\ With(summary.of) # {} /\ ~ picked.on
  /\ \E rows \in SetToSeqs(With(summary.of)) :
       picked' = [on |-> TRUE, calm |-> summary.fresh, query |-> q, metric |-> metric, k |-> k,
                  partitions |-> rank_nearest(metric, q, summary.of, rows, k)]
  /\ UNCHANGED <<parent, summary, refresh, changes>>

RouteNext ==
  \/ \E p \in Partition, v \in Point \cup {Odd} : InsertRow(p, v) \/ DeleteRow(p, v)
  \/ \E p \in Partition : DropPartition(p)
  \/ \E s \in Session : \/ Begin(s) \/ Deletes(s) \/ DeletesRow(s) \/ Deleted(s)
                        \/ Summarise(s) \/ Commit(s) \/ Cancel(s)
  \/ \E q \in Wanted, k \in 1 .. Cardinality(Partition), m \in Metric : nearest_partitions(q, k, m)

RouteSpec == RouteInit /\ [][RouteNext]_routeVars

-----------------------------------------------------------------------------
(* Properties.                                                             *)

\* After a refresh that nothing disturbed, the partitions picked are the nearest
\* by the mean of the rows they hold; all that hold any when as many are asked
\* for; none that holds none, whatever was summarised before.
\* (refresh_partition_summary, nearest_partitions.)
PickedAreNearest ==
  picked.on /\ picked.calm =>
    LET p    == picked.partitions
        left == {o \in Partition : Mean(o, 1).n > 0} \ ToSet(p)
        Nearer(x, y) == Before(picked.metric, picked.query, Mean(x, 1), Mean(y, 1))
    IN  /\ \A i \in DOMAIN p : Mean(p[i], 1).n > 0
        /\ \A i, j \in DOMAIN p : i < j => p[i] # p[j] /\ ~ Nearer(p[j], p[i])
        /\ \A o \in left : Len(p) = picked.k /\ \A i \in DOMAIN p : ~ Nearer(o, p[i])

\* Nothing was committed since the session's DELETE began: its snapshot had all.
SawAll(s) == refresh[s].pc = "insert" => With(summary.of) \subseteq refresh[s].gone
NamesDiffer == \A p, q \in Partition : parent[p].name = parent[q].name => p = q

\* Sessions that refresh at once do not all wait for each other, because they go
\* through the partitions in one order: unless two partitions have one name, or
\* a refresh was committed since the DELETE of one of them began, the row of
\* which another is deleting.  (child_partitions, refresh_partition_summary.)
NoRefreshDeadlock ==
  NamesDiffer /\ (\A s \in Session : SawAll(s)) => \E s \in Session : ~ Waits(s)

=============================================================================
