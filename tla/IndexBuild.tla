------------------------------ MODULE IndexBuild ----------------------------
(***************************************************************************)
(* ambuild for the flat, IVF, 1-bit and ColBERT kinds (VamanaGraph has the *)
(* graph kind): the heap scan into the spill file, the coarse cells, the   *)
(* slots in cell order, encoded in batches that maintenance_work_mem sizes *)
(* -- then the inserts behind the cells, and the slots a probing scan      *)
(* looks at.                                                               *)
(*                                                                         *)
(* The build holds the table; only a cancel interferes.  Vectors are taken *)
(* for normalised, the rotation keeps distances and is left out.  K-means  *)
(* may put a centroid anywhere, so the sample it sees is left out.         *)
(* Products and distances are exact: sums that round to an order of their  *)
(* own could put a row that two cells are as near to in the other.         *)
(***************************************************************************)
EXTENDS GreedySearch, FiniteSetsExt

CONSTANTS
  Point,       \* vectors: tuples of integers
  Builds,      \* tables (a row's TID is its place) with the options of an index
  ChunkRows,   \* vectors that fit in maintenance_work_mem
  CalibRows,   \* IVF_CALIB_ROWS
  DeltaPct,    \* turbovec.ivf_max_delta_pct
  Degree,      \* GRAPH_DEGREE
  MaxRows      \* bounds the heap

\* A row with no vector is a NULL; only a ColBERT document has several.
ASSUME BuildsAssumption ==
  \A b \in Builds :
    /\ b.opts \in [bq : BOOLEAN, colbert : BOOLEAN, lists : Nat, dups : Nat \ {0}]
    /\ b.opts.colbert => b.opts.lists > 0 /\ ~ b.opts.bq
    /\ b.heap \in Seq([alive : BOOLEAN, toks : Seq(Point)])
    /\ \A tid \in DOMAIN b.heap : Len(b.heap[tid].toks) > 1 => b.opts.colbert
ASSUME SizesAssumption ==
  /\ ChunkRows \subseteq Nat \ {0} /\ CalibRows \in Nat \ {0} /\ DeltaPct \in Nat
  /\ Degree \in Nat \ {0} /\ MaxRows \in Nat

VARIABLES
  heap,     \* the table
  opts,     \* the options of the index
  chunk,    \* maintenance_work_mem during the build
  job,      \* BuildState
  index     \* the relfile

vars == <<heap, opts, chunk, job, index>>

-----------------------------------------------------------------------------
Identity(n) == [i \in 1 .. n |-> i]

SqDist(a, b) == FoldLeft(LAMBDA n, i : n + (a[i] - b[i]) * (a[i] - b[i]), 0, Identity(Len(a)))

NoVector == [sum |-> <<>>, n |-> 0]

\* pack_signs of the centred vector: a coordinate on the mean is 0.
Signs(v, mean) == [i \in DOMAIN v |-> v[i] * mean.n > mean.sum[i]]

\* accumulate_sums: the mean before it is divided.
Accumulated(mean, pts) ==
  FoldLeft(LAMBDA m, v : [sum |-> [i \in DOMAIN v |-> v[i] + (IF m.n = 0 THEN 0 ELSE m.sum[i])],
                          n   |-> m.n + 1], mean, pts)

\* A TurboQuant code stands for its vector.
Code(v, mean) == IF opts.bq THEN Signs(v, mean) ELSE v

Vectors(recs) == [i \in DOMAIN recs |-> recs[i].v]
Ids(recs) == [i \in DOMAIN recs |-> recs[i].id]

-----------------------------------------------------------------------------
(* Coarse cells.                                                           *)

\* coarse_probe: all cells, the nearest first, of equals the lower.
ByDistance(v, cents) ==
  SortSeq(Identity(Len(cents)), LAMBDA a, b : \/ SqDist(v, cents[a]) < SqDist(v, cents[b])
                                              \/ SqDist(v, cents[a]) = SqDist(v, cents[b]) /\ a < b)

Prefix(s, n) == SubSeq(s, 1, Min({n, Len(s)}))

CoarseProbe(v, cents, nprobe) == Prefix(ByDistance(v, cents), nprobe)

\* batched_assign_soft: the nearest cell, and those whose distance is at most
\* 1.2 times as large.  The code ranks the cells by rounded products first and
\* computes the distances of the dups + 2 best only; that ranking is taken as
\* exact.
AssignSoft(v, cents, dups) ==
  LET near == ByDistance(v, cents)
  IN  Prefix(SelectSeq(near, LAMBDA c : 5 * SqDist(v, cents[c]) <= 6 * SqDist(v, cents[near[1]])),
             dups)

\* build_permutation_soft: the records of each cell, in their order.
Members(cells, c) == SelectSeq(Identity(Len(cells)), LAMBDA i : c \in Range(cells[i]))
Permutation(cells, lists) == FlattenSeq([c \in 1 .. lists |-> Members(cells, c)])

CellDirectory(cells, lists) ==
  [c \in 1 .. lists |-> [first |-> 1 + Len(Permutation(cells, c - 1)), n |-> Len(Members(cells, c))]]

TotalVectors(dir) == FoldLeft(LAMBDA n, e : n + e.n, 0, dir)

\* build_centroid_graph: the Degree nearest others of each cell, both ways.
NearestOthers(c, cents) ==
  Range(Prefix(SelectSeq(ByDistance(cents[c], cents), LAMBDA x : x # c), Degree))

\* Mutant: one way.
CentroidGraphOneWay(cents) ==
  [c \in DOMAIN cents |-> SelectSeq(Identity(Len(cents)), LAMBDA x : x \in NearestOthers(c, cents))]

CentroidGraph(cents) ==
  [c \in DOMAIN cents |->
     SelectSeq(Identity(Len(cents)), LAMBDA x : \/ x \in NearestOthers(c, cents)
                                                \/ c \in NearestOthers(x, cents))]

\* graph_probe from cell 1 (0 in the code).
GraphProbe(v, cents, graph, nprobe, ef) ==
  LET cand == [c \in DOMAIN cents |-> [d |-> SqDist(v, cents[c]), tie |-> c, slot |-> c]]
      kept == BeamSearch(1, {}, graph, cand, Min({ef, Len(cents)})).kept
  IN  Prefix(SelectSeq(ByDistance(v, cents), LAMBDA c : cand[c] \in kept), nprobe)

CellRange(e) == e.first .. e.first + e.n - 1

\* Mutant: what was appended belongs to no cell and is not looked at.
ProbeMaskCells(probed) == UNION {CellRange(index.dir[c]) : c \in probed}

\* probe_mask: the slots of the probed cells, and all those behind the cells.
ProbeMask(probed) ==
  UNION {CellRange(index.dir[c]) : c \in probed}
    \cup {s \in DOMAIN index.ids : s > TotalVectors(index.dir)}

\* Mutant: only the ranges of the cells are gathered.
OocSlotsCells(probed, dead) ==
  FlattenSeq([i \in DOMAIN probed |->
    SelectSeq([k \in 1 .. index.dir[probed[i]].n |-> index.dir[probed[i]].first + k - 1],
              LAMBDA s : s \notin dead)])

\* search_ooc: the slots gathered, cell after cell as probed, then the tail.
OocSlots(probed, dead) ==
  LET Slots(a, b) == SelectSeq([i \in 1 .. b - a + 1 |-> a + i - 1], LAMBDA s : s \notin dead)
  IN  FlattenSeq([i \in DOMAIN probed |-> LET e == index.dir[probed[i]]
                                          IN  Slots(e.first, e.first + e.n - 1)])
        \o Slots(TotalVectors(index.dir) + 1, Len(index.ids))

\* The slots a scan at v looks at; without cells, all of them.
LooksAt(v, nprobe) ==
  IF index.dir = <<>> THEN DOMAIN index.ids
  ELSE ProbeMask(Range(CoarseProbe(v, index.cents, nprobe)))

-----------------------------------------------------------------------------
(* The build.                                                              *)

NoIndex == [stored |-> FALSE, lists |-> 0, cents |-> <<>>, dir |-> <<>>, ids |-> <<>>,
            codes |-> <<>>, calib |-> <<>>, mean |-> NoVector]

NoJob == [stage |-> "none", read |-> 0, spill |-> <<>>, pending |-> <<>>, cents |-> <<>>,
          cells |-> <<>>, perm |-> <<>>, mean |-> NoVector, ids |-> <<>>, codes |-> <<>>,
          calib |-> <<>>]

NoOptions == [bq |-> FALSE, colbert |-> FALSE, lists |-> 0, dups |-> 1]

Init ==
  /\ heap = <<>> /\ opts = NoOptions /\ chunk = 1
  /\ job = NoJob /\ index = NoIndex

\* An IVF, 1-bit or ColBERT build keeps the corpus in a file.
Spilled == opts.lists > 0 \/ opts.bq

\* CorpusSpill: a record is appended, and read again by its number.
Push(j, recs) == [j EXCEPT !.spill = @ \o recs]
ReadOne(idx) == job.spill[idx]

\* CREATE INDEX on a table of these rows.
Begin(b, c) ==
  /\ job.stage = "none" /\ heap = <<>>
  /\ heap' = b.heap /\ opts' = b.opts /\ chunk' = c
  /\ job' = [NoJob EXCEPT !.stage = "scan"]
  /\ UNCHANGED index

\* DROP TABLE.
Drop ==
  /\ job.stage = "none" /\ heap # <<>>
  /\ heap' = <<>> /\ opts' = NoOptions /\ chunk' = 1
  /\ index' = NoIndex
  /\ UNCHANGED job

\* add_with_ids: the first batch fits the calibration.
Encoded(j, recs) ==
  [j EXCEPT !.ids   = @ \o Ids(recs),
            !.codes = @ \o [i \in DOMAIN recs |-> Code(recs[i].v, j.mean)],
            !.calib = IF j.ids = <<>> THEN Vectors(recs) ELSE @]

\* flush: the staged rows.
Flushed(j) == [Encoded(j, j.pending) EXCEPT !.pending = <<>>]

\* The records of a row: none of a dead one or a NULL, one for each token of a
\* document, all with its TID.
Records(tid) ==
  IF heap[tid].alive THEN [k \in DOMAIN heap[tid].toks |-> [id |-> tid, v |-> heap[tid].toks[k]]]
  ELSE <<>>

\* build_callback, colbert_build_callback.
BuildCallback ==
  /\ job.stage = "scan" /\ job.read < Len(heap)
  /\ LET recs == Records(job.read + 1)
         at   == [job EXCEPT !.read = @ + 1]
         stg  == [at EXCEPT !.pending = @ \o recs]
     IN  job' = IF Spilled THEN Push(at, recs)
                ELSE IF Len(stg.pending) >= chunk THEN Flushed(stg) ELSE stg
  /\ UNCHANGED <<heap, opts, chunk, index>>

\* The scan has ended.  A 1-bit index without cells takes the mean of the whole
\* spill and encodes it in its order.
EndScan ==
  /\ job.stage = "scan" /\ job.read = Len(heap)
  /\ job' = IF ~ Spilled THEN [Flushed(job) EXCEPT !.stage = "store"]
            ELSE IF job.spill = <<>> THEN [job EXCEPT !.stage = "store"]
            ELSE IF opts.lists > 0 THEN [job EXCEPT !.stage = "train"]
            ELSE [job EXCEPT !.stage = "encode", !.perm = Identity(Len(job.spill)),
                             !.mean = Accumulated(NoVector, Vectors(job.spill))]
  /\ UNCHANGED <<heap, opts, chunk, index>>

\* train_kmeans: no more cells than records.
Train ==
  /\ job.stage = "train"
  /\ \E cents \in [1 .. Min({opts.lists, Len(job.spill)}) -> Point] :
       job' = [job EXCEPT !.stage = "assign", !.cents = cents]
  /\ UNCHANGED <<heap, opts, chunk, index>>

\* The next records of the spill, as many as fit in memory.
Block == SubSeq(job.spill, Len(job.cells) + 1, Min({Len(job.cells) + chunk, Len(job.spill)}))

\* One block of the sweep; after the last, the slots are known.
AssignBlock ==
  /\ job.stage = "assign"
  /\ LET lists == Len(job.cents)
         dups  == Min({opts.dups, lists})
         cells == job.cells \o [i \in DOMAIN Block |-> AssignSoft(Block[i].v, job.cents, dups)]
         done  == Len(cells) = Len(job.spill)
     IN  job' = [job EXCEPT !.cells = cells,
                            !.mean  = IF opts.bq THEN Accumulated(@, Vectors(Block)) ELSE @,
                            !.perm  = IF done THEN Permutation(cells, lists) ELSE @,
                            !.stage = IF done THEN "encode" ELSE @]
  /\ UNCHANGED <<heap, opts, chunk, index>>

\* Mutant: the calibration is fitted to a batch that memory sizes.
BatchByMemory == chunk

\* The slots of the next batch: the first one fits the calibration and has a
\* size of its own; a 1-bit index without cells is encoded at once.
Batch ==
  IF opts.bq /\ opts.lists = 0 THEN Len(job.perm)
  ELSE IF ~ opts.bq /\ job.ids = <<>> THEN CalibRows ELSE chunk

\* The records are read from the spill in the order of the slots.
EncodeBatch ==
  /\ job.stage = "encode"
  /\ LET at   == Len(job.ids)
         rows == Min({Batch, Len(job.perm) - at})
         next == Encoded(job, [r \in 1 .. rows |-> ReadOne(job.perm[at + r])])
     IN  job' = [next EXCEPT !.stage = IF at + rows = Len(job.perm) THEN "store" ELSE @]
  /\ UNCHANGED <<heap, opts, chunk, index>>

\* codes_are_degenerate.
Degenerate(codes) == Len(codes) > 1 /\ \A s \in DOMAIN codes : codes[s] = codes[1]

\* An empty index keeps the number of lists, but is searched as a flat one.
Store ==
  /\ job.stage = "store" /\ ~ (opts.bq /\ Degenerate(job.codes))
  /\ index' = [stored |-> TRUE, lists |-> IF job.spill = <<>> THEN opts.lists ELSE Len(job.cents),
               cents |-> job.cents, dir |-> CellDirectory(job.cells, Len(job.cents)),
               ids |-> job.ids, codes |-> job.codes, mean |-> job.mean,
               calib |-> IF opts.bq THEN <<>> ELSE job.calib]
  /\ job' = NoJob
  /\ UNCHANGED <<heap, opts, chunk>>

\* A corpus of one sign pattern is refused; a cancel is seen between the stages
\* (and by the heap scan), not between two blocks or batches.
BuildError ==
  /\ job.stage # "none"
  /\ \/ job.stage = "store" /\ opts.bq /\ Degenerate(job.codes)
     \/ job.stage \in {"scan", "train"}
     \/ job.stage = "assign" /\ job.cells = <<>>
     \/ job.stage = "encode" /\ job.ids = <<>>
     \/ job.stage = "store" /\ job.perm # <<>>
  /\ job' = NoJob
  /\ UNCHANGED <<heap, opts, chunk, index>>

-----------------------------------------------------------------------------
(* Inserts.                                                                *)

\* delta_within_bound: may n slots lie in and behind the cells of dir?
DeltaWithinBound(dir, n) ==
  /\ DeltaPct > 0 /\ dir # <<>> /\ TotalVectors(dir) > 0
  /\ (n - TotalVectors(dir)) * 100 <= TotalVectors(dir) * DeltaPct

\* A 1-bit index drops its cells at the first insert.
KeepsCells(n) == ~ opts.bq /\ DeltaWithinBound(index.dir, n)

\* insert_bq_row (at once), flush_one_image (at commit): a new TID goes behind
\* all slots.  An index of no rows centres by 0 from then on.
Insert(v) ==
  /\ index.stored /\ job.stage = "none" /\ ~ opts.colbert /\ Len(heap) < MaxRows
  /\ heap' = Append(heap, [alive |-> TRUE, toks |-> <<v>>])
  /\ LET mean == IF opts.bq /\ index.ids = <<>> THEN [sum |-> [i \in DOMAIN v |-> 0], n |-> 1]
                 ELSE index.mean
         keep == KeepsCells(Len(index.ids) + 1)
     IN  index' = [index EXCEPT !.ids   = Append(@, Len(heap) + 1),
                                !.codes = Append(@, Code(v, mean)),
                                !.mean  = mean,
                                !.cents = IF keep THEN @ ELSE <<>>,
                                !.dir   = IF keep THEN @ ELSE <<>>]
  /\ UNCHANGED <<opts, chunk, job>>

Next ==
  \/ \E b \in Builds, c \in ChunkRows : Begin(b, c)
  \/ Drop
  \/ BuildCallback
  \/ EndScan
  \/ Train
  \/ AssignBlock
  \/ EncodeBatch
  \/ Store
  \/ BuildError
  \/ \E v \in Point : Insert(v)

Spec == Init /\ [][Next]_vars

-----------------------------------------------------------------------------
(* Properties.                                                             *)

AllRecords == FlattenSeq([tid \in DOMAIN heap |-> Records(tid)])

\* The slots of S, in their order, hold these records.
Holds(x, first, n, recs) ==
  /\ n = Len(recs)
  /\ \A i \in DOMAIN recs : /\ x.ids[first + i - 1] = recs[i].id
                            /\ x.codes[first + i - 1] = Code(recs[i].v, x.mean)

\* Whatever memory cut the corpus into blocks and batches, a build stores: behind
\* one another, the cells; in each, in the order of the heap, the live vectors
\* that belong to it, under the TIDs of their rows, encoded against the mean of
\* the whole corpus or calibrated on the first CalibRows slots.  (Byte identity
\* for every maintenance_work_mem, and perm_ids and codes in step.)
StoredAsReference ==
  index'.stored /\ ~ index.stored =>
    LET x    == index'
        recs == AllRecords
        In(c) == SelectSeq(recs, LAMBDA r : c \in Range(AssignSoft(r.v, x.cents, Min({opts.dups, x.lists}))))
    IN  /\ opts.bq /\ recs # <<>> => x.mean = Accumulated(NoVector, Vectors(recs))
        /\ IF opts.lists = 0 \/ recs = <<>> THEN x.dir = <<>> /\ Holds(x, 1, Len(x.ids), recs)
           ELSE /\ \A c \in DOMAIN x.dir :
                     /\ x.dir[c].first = IF c = 1 THEN 1 ELSE x.dir[c - 1].first + x.dir[c - 1].n
                     /\ Holds(x, x.dir[c].first, x.dir[c].n, In(c))
                /\ TotalVectors(x.dir) = Len(x.ids)
                /\ ~ opts.bq => x.calib = Prefix(FlattenSeq([c \in DOMAIN x.dir |-> Vectors(In(c))]),
                                                 CalibRows)

\* Every vector of every live row is found by a scan at that very vector that
\* probes one cell, with the code it has under the stored mean: the build puts
\* it into the cell that the scan considers nearest, and what an insert adds is
\* looked at whatever is probed.
RowsFound ==
  index.stored => \A tid \in DOMAIN heap : \A r \in Range(Records(tid)) :
    \E s \in LooksAt(r.v, 1) : index.ids[s] = tid /\ index.codes[s] = Code(r.v, index.mean)

\* The slots that the out-of-core path gathers are those that the mask of the
\* whole-load path lets through, each once, whatever VACUUM has masked.
OocLooksAtSame ==
  index.dir # <<>> =>
    \A probed \in {CoarseProbe(v, index.cents, n) : v \in Point, n \in 1 .. index.lists} :
      LET mask == ProbeMask(Range(probed))
      IN  \A dead \in {{a, b} : a, b \in DOMAIN index.ids} :
            LET slots == OocSlots(probed, dead)
            IN  Range(slots) = mask \ dead /\ Len(slots) = Cardinality(mask \ dead)

\* The cells that nearest neighbours connect with cell 1, in either direction.
RECURSIVE Connected(_)
Connected(S) ==
  LET cents == index.cents
      more  == S \cup {x \in DOMAIN cents : \E c \in S : \/ x \in NearestOthers(c, cents)
                                                         \/ c \in NearestOthers(x, cents)}
  IN  IF more = S THEN S ELSE Connected(more)

\* The walk over the centroid graph returns nprobe cells, however narrow its
\* beam, and the nearest ones if the beam has room for all -- of those that are
\* connected with the cell it starts from, which need not be all.
GraphProbeNearest ==
  index.dir # <<>> /\ Len(index.ids) = TotalVectors(index.dir) =>
    LET graph == CentroidGraph(index.cents)
        cells == Connected({1})
    IN  \A v \in Point :
          LET near     == SelectSeq(ByDistance(v, index.cents), LAMBDA c : c \in cells)
              Found(n, ef) == GraphProbe(v, index.cents, graph, n, ef)
          IN  \A n \in 1 .. index.lists : /\ Found(n, index.lists) = Prefix(near, n)
                                          /\ Len(Found(n, n)) = Min({n, Len(near)})

=============================================================================
