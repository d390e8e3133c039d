---------------------------- MODULE KMeansTraining --------------------------
(***************************************************************************)
(* How an IVF build finds its cells: the reservoir that the heap scan      *)
(* fills, its rotation, k-means++ seeds, and Lloyd's iterations, whose     *)
(* assignment ranks cells by a matrix product and whose means are summed   *)
(* by the threads of the build pool.  IndexBuild takes any centroids and   *)
(* goes on from there.                                                     *)
(*                                                                         *)
(* Coordinates are integers that every mean divides, so that means are     *)
(* exact; what floating point makes of a sum is the order of its addends,  *)
(* which is kept.  Vectors are taken for normalised.                       *)
(***************************************************************************)
EXTENDS SequencesExt, FiniteSetsExt, Integers

CONSTANTS
  Corpora,       \* tables: sequences of vectors, as the heap scan meets them
  Rotated(_),    \* Rotation::apply
  Unit,          \* the vectors along the axes
  Lists,         \* reloption lists
  SampleCap(_),  \* 256 rows for each cell
  CrossBudget,   \* scores in memory at once
  TargetRows,    \* TARGET_CHUNK_ROWS
  MaxChunks(_),  \* chunks whose partial sums fit in memory
  Pools,         \* turbovec.build_parallelism
  Err,           \* bounds what rounding adds to a score
  MaxIters,      \* KMEANS_ITERS
  Tol            \* KMEANS_TOL

VARIABLES
  corpus,   \* the table
  lists,    \* the number of cells
  pool,     \* the threads of the build
  km        \* the training so far

Rows(s) == [i \in DOMAIN s |-> i]
Sum(f) == FoldFunction(LAMBDA a, b : a + b, 0, f)
Dot(a, b) == Sum([j \in DOMAIN a |-> a[j] * b[j]])
SqDist(a, b) == Sum([j \in DOMAIN a |-> (a[j] - b[j]) * (a[j] - b[j])])
MinOf(a, b) == IF a < b THEN a ELSE b
MaxOf(a, b) == IF a < b THEN b ELSE a

-----------------------------------------------------------------------------
(* The rotated space.                                                      *)

\* materialize_rotation_matrix: the images of the axes are its columns.
Matrix == [k \in DOMAIN Unit |-> [j \in DOMAIN Unit |-> Rotated(Unit[j])[k]]]

\* rotate_query, and rotate_corpus_into for each row.
RotateQuery(v) == [k \in DOMAIN v |-> Dot(Matrix[k], v)]

-----------------------------------------------------------------------------
(* Sampling and seeding.                                                   *)

Start == [stage |-> "scan", seen |-> 0, kept |-> <<>>, sample |-> <<>>, cents |-> <<>>,
          prev |-> <<>>, assign |-> <<>>, done |-> <<>>, sums |-> <<>>, counts |-> <<>>,
          iters |-> 0]

KMeansInit ==
  /\ corpus \in Corpora /\ lists \in Lists /\ pool \in Pools
  /\ km = Start

Row(i) == km.sample[i]
N == Len(km.sample)
Keep == UNCHANGED <<corpus, lists, pool>>

\* The slot drawn for the next row: one of as many as there are rows so far.
Draws == 1 .. km.seen + 1

\* ivf_reservoir_push: a slot beyond the sample drops the row.
ReservoirPush ==
  /\ km.stage = "scan" /\ km.seen < Len(corpus)
  /\ IF Len(km.kept) < SampleCap(lists)
     THEN km' = [km EXCEPT !.seen = @ + 1, !.kept = Append(@, km.seen + 1)]
     ELSE \E j \in Draws :
            km' = [km EXCEPT !.seen = @ + 1,
                             !.kept = IF j \in DOMAIN @ THEN [@ EXCEPT ![j] = km.seen + 1] ELSE @]
  /\ Keep

\* The sample is rotated whole; no more cells than rows are trained.
Drain ==
  /\ km.stage = "scan" /\ km.seen = Len(corpus) /\ corpus # <<>>
  /\ km' = [km EXCEPT !.stage = "seed", !.sample = [i \in DOMAIN km.kept |-> RotateQuery(corpus[km.kept[i]])]]
  /\ lists' = MaxOf(1, MinOf(lists, Len(corpus)))
  /\ UNCHANGED <<corpus, pool>>

\* d2: how far a row is from the seeds so far.
FromSeeds(i) == Min({SqDist(Row(i), km.cents[c]) : c \in DOMAIN km.cents})

\* A row is drawn with a chance proportional to its distance.  A draw of 0.0
\* takes the first row, wherever it is; if no row is off the seeds, any is.
SeedRows ==
  IF km.cents = <<>> \/ \A i \in 1 .. N : FromSeeds(i) = 0 THEN 1 .. N
  ELSE {i \in 1 .. N : FromSeeds(i) > 0} \cup {1}

Seed ==
  /\ km.stage = "seed" /\ Len(km.cents) < lists
  /\ \E i \in SeedRows : km' = [km EXCEPT !.cents = Append(@, Row(i))]
  /\ Keep

-----------------------------------------------------------------------------
(* Lloyd's iterations.                                                     *)

BeginIteration ==
  /\ \/ km.stage = "seed" /\ Len(km.cents) = lists
     \/ km.stage = "next"
  /\ km' = [km EXCEPT !.stage = "assign", !.iters = @ + 1, !.prev = km.cents, !.assign = <<>>,
                      !.done = <<>>, !.sums = <<>>, !.counts = <<>>]
  /\ Keep

\* Of the two cells that rank first, the nearer; of equals, the lower.
Nearer(v, best, snd) ==
  LET b == SqDist(v, km.cents[best]) s == SqDist(v, km.cents[snd])
  IN  IF s < b \/ (s = b /\ snd < best) THEN snd ELSE best

\* The score of cell c, larger where rounding takes it up.
GemmScore(v, c, up) ==
  Dot(km.cents[c], km.cents[c]) - 2 * Dot(v, km.cents[c]) + (IF c \in up THEN Err ELSE 0)

\* gemm_lloyd_assign for one row: the cells ranked by score, the lower of equals
\* first.
Winner(v, up) ==
  LET Score(c)  == GemmScore(v, c, up)
      First(S)  == CHOOSE c \in S : \A x \in S : Score(c) < Score(x) \/ (Score(c) = Score(x) /\ c <= x)
      best      == First(DOMAIN km.cents)
  IN  IF lists = 1 THEN best ELSE Nearer(v, best, First(DOMAIN km.cents \ {best}))

\* cross_rows
CrossRows == MaxOf(1, MinOf(CrossBudget \div lists, N))

\* The next rows, as many as their scores fit in memory; rounding may take up
\* any score.
AssignRows ==
  /\ km.stage = "assign"
  /\ LET at   == Len(km.assign)
         rows == MinOf(CrossRows, N - at)
     IN  \E up \in [1 .. rows -> SUBSET (1 .. lists)] :
           LET a == km.assign \o [r \in 1 .. rows |-> Winner(Row(at + r), up[r])]
           IN  km' = [km EXCEPT !.assign = a, !.stage = IF Len(a) = N THEN "sum" ELSE @]
  /\ Keep

DivCeil(a, b) == (a + b - 1) \div b

\* The rows of a chunk, whatever the number of threads.
RowsPerChunk ==
  LET chunks == MinOf(MaxOf(1, DivCeil(N, TargetRows)), MaxChunks(lists))
  IN  MaxOf(1, DivCeil(N, chunks))

Chunks == DivCeil(N, RowsPerChunk)
ChunkOf(i) == 1 + (i - 1) \div RowsPerChunk

\* A chunk adds up its rows in each cell, in their order.
PartialSum(k) ==
  [c \in 1 .. lists |-> SelectSeq(Rows(km.sample), LAMBDA i : ChunkOf(i) = k /\ km.assign[i] = c)]

\* A thread ends a chunk; one thread takes them in their order.
SumChunk ==
  /\ km.stage = "sum"
  /\ \E k \in 1 .. Chunks :
       /\ \A d \in DOMAIN km.done : km.done[d].chunk # k
       /\ pool = 1 => k = Len(km.done) + 1
       /\ km' = [km EXCEPT !.done = Append(@, [chunk |-> k, sum |-> PartialSum(k)])]
  /\ Keep

\* Mutant: the partial sums are added as they come.
CollectedAsDone == [k \in DOMAIN km.done |-> km.done[k].sum]

\* collect: the partial sums in the order of the chunks.
Collected == [k \in DOMAIN km.done |-> (CHOOSE d \in Range(km.done) : d.chunk = k).sum]

\* Mutant: the last row of a sum is missed.
MeanOfShort(rows) ==
  [j \in DOMAIN Row(rows[1]) |-> Sum([i \in 1 .. Len(rows) - 1 |-> Row(rows[i])[j]]) \div Len(rows)]

\* The mean of the rows that make up a sum.
MeanOf(rows) == [j \in DOMAIN Row(rows[1]) |-> Sum([i \in DOMAIN rows |-> Row(rows[i])[j]]) \div Len(rows)]

Update ==
  /\ km.stage = "sum" /\ Len(km.done) = Chunks
  /\ LET sums == [c \in 1 .. lists |-> [k \in 1 .. Chunks |-> Collected[k][c]]]
         rows == [c \in 1 .. lists |-> FlattenSeq(sums[c])]
     IN  km' = [km EXCEPT !.stage = "empty", !.done = <<>>, !.sums = sums,
                          !.counts = [c \in 1 .. lists |-> Len(rows[c])],
                          !.cents = [c \in 1 .. lists |-> IF rows[c] = <<>> THEN @[c] ELSE MeanOf(rows[c])]]
  /\ Keep

Empty == {c \in 1 .. lists : km.counts[c] = 0}

\* The largest cell, of equals the lowest.
Largest ==
  CHOOSE c \in 1 .. lists : \A x \in 1 .. lists :
    km.counts[x] < km.counts[c] \/ (km.counts[x] = km.counts[c] /\ c <= x)

\* Its row that is furthest from its mean, of equals the first.
Furthest(big) ==
  LET In     == {i \in 1 .. N : km.assign[i] = big}
      Far(i) == SqDist(Row(i), km.cents[big])
  IN  CHOOSE i \in In : \A x \in In : Far(x) < Far(i) \/ (Far(x) = Far(i) /\ i <= x)

\* The row becomes the centroid of the empty cell and moves to it.
Split(c, big, far) ==
  [km EXCEPT !.cents[c] = Row(far), !.assign[far] = c,
             !.counts = [@ EXCEPT ![c] = 1, ![big] = @ - 1]]

\* The lowest empty cell.  If no cell has two rows, any row becomes its
\* centroid, and stays where it is.
Reseed ==
  /\ km.stage = "empty" /\ Empty # {}
  /\ LET c == Min(Empty)
     IN  IF km.counts[Largest] > 1 THEN km' = Split(c, Largest, Furthest(Largest))
         ELSE \E i \in 1 .. N : km' = [km EXCEPT !.cents[c] = Row(i), !.counts[c] = 1]
  /\ Keep

Movement == Sum([c \in 1 .. lists |-> SqDist(km.cents[c], km.prev[c])])

EndIteration ==
  /\ km.stage = "empty" /\ Empty = {}
  /\ km' = [km EXCEPT !.stage = IF Movement < Tol \/ km.iters = MaxIters THEN "done" ELSE "next"]
  /\ Keep

KMeansNext ==
  \/ ReservoirPush \/ Drain \/ Seed \/ BeginIteration \/ AssignRows \/ SumChunk \/ Update
  \/ Reseed \/ EndIteration

-----------------------------------------------------------------------------
(* Properties.                                                             *)

\* The sample: as many rows as fit, each of the table once, and each where a
\* query at it is rotated to (rotate_query agrees with Rotation::apply).
SampleOfTable ==
  /\ Len(km.kept) = MinOf(km.seen, SampleCap(lists)) \/ km.stage # "scan"
  /\ IsInjective(km.kept) /\ Range(km.kept) \subseteq 1 .. km.seen
  /\ \A i \in 1 .. N : Row(i) = Rotated(corpus[km.kept[i]])

\* The matrix product never decides: the assignment is that of a scalar search,
\* the lower of equals, unless rounding could put two other cells before it;
\* then it is off by no more than rounding.
AssignedNearest ==
  km.stage = "sum" =>
    \A i \in 1 .. N :
      LET d       == [c \in 1 .. lists |-> SqDist(Row(i), km.cents[c])]
          near    == Min(Range(d))
          a       == km.assign[i]
      IN  /\ d[a] <= near + Err
          /\ Cardinality({c \in 1 .. lists : d[c] <= near + Err}) <= 2
               => a = Min({c \in 1 .. lists : d[c] = near})

\* A sum adds up the same rows in the same order whatever the number of threads
\* and whoever is done first: chunk after chunk, each from its first row.
SumsInOrder ==
  km.stage = "empty" =>
    LET size == DivCeil(N, MinOf(DivCeil(N, TargetRows), MaxChunks(lists)))
    IN  \A c \in 1 .. lists : \A k \in DOMAIN km.sums[c] :
          \A a \in DOMAIN km.sums[c][k] :
            /\ km.sums[c][k][a] \in (k - 1) * size + 1 .. MinOf(k * size, N)
            /\ a > 1 => km.sums[c][k][a - 1] < km.sums[c][k][a]

\* After the empty-cell rule no cell is without a row, if there are rows enough,
\* and the counts are those of the assignment.
NoDeadCell ==
  km.stage \in {"next", "done"} /\ N >= lists =>
    \A c \in 1 .. lists : /\ km.counts[c] > 0
                          /\ km.counts[c] = Cardinality({i \in 1 .. N : km.assign[i] = c})

TrainingSound == SampleOfTable /\ AssignedNearest /\ SumsInOrder /\ NoDeadCell

\* What the rows are from their nearest centroids, all added up.
Cost(cents) == Sum([i \in 1 .. N |-> Min({SqDist(Row(i), cents[c]) : c \in DOMAIN cents})])

\* No iteration makes the cells worse than rounding may: not the means, and not
\* the centroid taken from an empty cell and put into the largest.
LloydDescends == km.stage \in {"next", "done"} => Cost(km.cents) <= Cost(km.prev) + N * Err

=============================================================================
