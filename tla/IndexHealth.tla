---------------------------- MODULE IndexHealth ----------------------------
(***************************************************************************)
(* What an operator is told of an index: turbovec_check, which looks for   *)
(* damage without searching, index_is_degraded and index_degradation,      *)
(* which say whether an index built with cells still uses them.            *)
(*                                                                         *)
(* The chains of the relfile are sequences; what they are compared with is *)
(* the meta page's number of rows, lists and entry point.  A chain is read *)
(* whole, and padded with what a page of zeroes is read as.  turbovec_check *)
(* reads ids, scales, mean and cells under the shared rewrite lock, and    *)
(* the graph and the tombstones after it, by the meta page of before.      *)
(***************************************************************************)
EXTENDS Integers, Sequences, SequencesExt, FiniteSetsExt

CONSTANTS
  Kinds,      \* the kinds of index
  Dim,        \* numbers in a vector
  MaxRows,
  MaxLists,
  MaxDelta,   \* turbovec.ivf_max_delta_pct
  MaxDamage,  \* items and chains damaged
  Probes      \* values of turbovec.probes

VARIABLES
  file,    \* the relfile
  damage,  \* how often it was damaged
  check,   \* the turbovec_check in progress
  report   \* what the last one said

healthVars == <<file, damage, check, report>>

-----------------------------------------------------------------------------
(* The relfile.                                                            *)

Chains == {"ids", "scales", "mean", "dir", "graph", "tomb"}

\* gone: the chains that run past the end of the file.
EmptyFile(k, lists) ==
  [kind |-> k, n |-> 0, lists |-> lists, degraded |-> lists > 0, ids |-> <<>>, scales |-> <<>>,
   mean |-> 0, dir |-> <<>>, offsets |-> <<>>, neighbors |-> <<>>, entry |-> 0, dead |-> <<>>,
   gone |-> {}]

\* from_lists: the neighbours of node after node, and where each begins.
Offsets(adj) == [i \in 1 .. Len(adj) + 1 |-> Len(FlattenSeq(SubSeq(adj, 1, i - 1)))]

\* Nodes are numbered from 0 in the file.
Lists(n) == [1 .. n -> {SetToSortSeq(S, <) : S \in SUBSET (0 .. n - 1)}]

\* Graphs as the build and the inserts leave them: no node without a neighbour
\* if there are two.
Graphs(n) ==
  {g \in Lists(n) \X (0 .. n - 1) :
     \A i \in 1 .. n : i - 1 \notin Range(g[1][i]) /\ (n > 1 => g[1][i] # <<>>)}

WithGraph(f, g) ==
  [f EXCEPT !.offsets = Offsets(g[1]), !.neighbors = FlattenSeq(g[1]), !.entry = g[2]]

\* Cells of the given sizes, one behind the other.
Directory(sizes) ==
  [c \in DOMAIN sizes |-> [at |-> FoldLeft(+, 0, SubSeq(sizes, 1, c - 1)), n |-> sizes[c]]]

\* CellDirectory::total_vectors.
InCells(dir) == FoldLeft(LAMBDA sum, e : sum + e.n, 0, dir)

WithRows(f, n) ==
  [f EXCEPT !.n = n, !.ids = [i \in 1 .. n |-> i],
            !.scales = IF f.kind = "bq" THEN <<>> ELSE [i \in 1 .. n |-> "sane"],
            !.mean = IF f.kind = "bq" THEN Dim ELSE 0]

\* What a build leaves: cells for the lists asked, no more than there are rows.
Built ==
  {EmptyFile(k, lists) : k \in Kinds \ {"colbert"}, lists \in {0, MaxLists}}
  \cup {WithRows(EmptyFile(k, 0), n) : k \in Kinds \cap {"single", "bq"}, n \in 1 .. MaxRows}
  \cup UNION {{WithGraph(WithRows(EmptyFile("graph", 0), n), g) : g \in Graphs(n)} :
               n \in IF "graph" \in Kinds THEN 1 .. MaxRows - 1 ELSE {}}
  \cup UNION {{[WithRows(EmptyFile(k, lists), n) EXCEPT !.degraded = FALSE, !.dir = Directory(s)] :
                 s \in {z \in [1 .. lists -> 0 .. n] : FoldLeft(+, 0, z) = n}} :
               k \in Kinds \ {"graph"}, n \in 1 .. MaxRows, lists \in 1 .. MaxLists}

HealthInit ==
  /\ file \in {f \in Built : f.kind = "graph" => f.lists = 0}
  /\ damage = 0
  /\ check = [on |-> FALSE]
  /\ report = [on |-> FALSE]

-----------------------------------------------------------------------------
(* What turbovec_check looks for.                                          *)

\* read_chain: as many items as are asked for, zeroes behind the last.
Read(chain, n, zero) == [i \in 1 .. n |-> IF i \in DOMAIN chain THEN chain[i] ELSE zero]

\* first_duplicate_id.
HasDuplicate(ids) == \E i, j \in DOMAIN ids : i < j /\ ids[i] = ids[j]

\* validate_scales: finite, not negative, and sane.
BadScale(scales) == \E i \in DOMAIN scales : scales[i] # "sane"

\* CellDirectory::validate_partition.
Partitions(dir, n) ==
  /\ \A c \in DOMAIN dir : dir[c].at = InCells(SubSeq(dir, 1, c - 1))
  /\ InCells(dir) = n

IsDegraded(f) == f.lists > 0 /\ f.degraded

\* A 1-bit index needs its mean, and its cells if it uses them.
BqProblem(f) ==
  f.kind = "bq" /\ f.n > 0 /\
    \/ f.mean # Dim
    \/ f.lists > 0 /\ ~ IsDegraded(f) /\ ~ Partitions(f.dir, f.n)

\* GraphAdjacency::decode.
Decodes(offsets, neighbors, n) ==
  Len(offsets) = n + 1 /\ Last(offsets) = Len(neighbors)

NeighborsOf(offsets, neighbors, i) == SubSeq(neighbors, offsets[i + 1] + 1, offsets[i + 2])

\* Mutant: the numbers of the neighbours are not looked at.
WellFormedAnyId(offsets, neighbors, n, entry) ==
  \A i \in 0 .. n - 1 : offsets[i + 1] <= offsets[i + 2]

\* GraphAdjacency::validate.
WellFormed(offsets, neighbors, n, entry) ==
  LET nbrs(i) == NeighborsOf(offsets, neighbors, i)
  IN  /\ \A i \in 0 .. n - 1 : offsets[i + 1] <= offsets[i + 2]
      /\ entry < n
      /\ \A i \in 0 .. n - 1 :
           /\ \A k \in DOMAIN nbrs(i) : nbrs(i)[k] < n /\ nbrs(i)[k] # i
           /\ \A k \in 2 .. Len(nbrs(i)) : nbrs(i)[k - 1] < nbrs(i)[k]
      /\ n > 1 => nbrs(entry) # <<>>

\* The two parts of the chain, by the lengths the meta page gives.
GraphChain(f, meta) ==
  LET chain == Read(f.offsets \o f.neighbors, meta.offsets + meta.neighbors, 0)
  IN  [offsets |-> SubSeq(chain, 1, meta.offsets),
       neighbors |-> SubSeq(chain, meta.offsets + 1, Len(chain))]

\* try_read_graph_adjacency, and what is checked of it.
GraphProblem(f, meta) ==
  LET g == GraphChain(f, meta)
  IN  meta.kind = "graph" /\ meta.n > 0 /\
        \/ "graph" \in f.gone
        \/ ~ Decodes(g.offsets, g.neighbors, meta.n)
        \/ ~ WellFormed(g.offsets, g.neighbors, meta.n, meta.entry)

MetaOf(f) ==
  [kind |-> f.kind, n |-> f.n, entry |-> f.entry, offsets |-> Len(f.offsets),
   neighbors |-> Len(f.neighbors), dead |-> Len(f.dead)]

\* The chains read under the lock; one that runs past the end is an ERROR.
LockedChains(f) ==
  {"ids"} \cup (IF f.kind # "bq" THEN {"scales"} ELSE {"mean"})
          \cup (IF f.kind = "bq" /\ f.lists > 0 /\ ~ IsDegraded(f) THEN {"dir"} ELSE {})

NoReport == [on |-> FALSE]
Failed == [on |-> TRUE, failed |-> TRUE, calm |-> TRUE, corrupt |-> FALSE, dead |-> 0, n |-> 0]

-----------------------------------------------------------------------------
(* turbovec_check.                                                         *)

\* Under the lock: the meta page again, ids, scales, mean and cells.
CheckLocked ==
  /\ ~ check.on
  /\ IF file.n > 0 /\ file.gone \cap LockedChains(file) # {}
     THEN report' = Failed /\ UNCHANGED check
     ELSE /\ check' = [on |-> TRUE, meta |-> MetaOf(file), calm |-> TRUE, graph |-> FALSE,
                       duplicate |-> file.lists = 0 /\ HasDuplicate(Read(file.ids, file.n, 0)),
                       bq |-> BqProblem(file),
                       scales |-> file.kind # "bq" /\ BadScale(Read(file.scales, file.n, "sane")),
                       pc |-> "graph"]
          /\ report' = NoReport
  /\ UNCHANGED <<file, damage>>

\* The lock is released.  The graph, by the meta page of before.
CheckGraph ==
  /\ check.on /\ check.pc = "graph"
  /\ check' = [check EXCEPT !.graph = GraphProblem(file, check.meta), !.pc = "tomb"]
  /\ UNCHANGED <<file, damage, report>>

\* The tombstones likewise, and the row that is returned.
CheckTombstones ==
  /\ check.on /\ check.pc = "tomb"
  /\ report' =
       IF check.meta.dead > 0 /\ "tomb" \in file.gone THEN [Failed EXCEPT !.calm = check.calm]
       ELSE [on |-> TRUE, failed |-> FALSE, calm |-> check.calm, n |-> check.meta.n,
             corrupt |-> check.duplicate \/ check.graph \/ check.bq \/ check.scales,
             dead |-> Quantify(1 .. check.meta.dead, LAMBDA i : Read(file.dead, i, FALSE)[i])]
  /\ check' = [on |-> FALSE]
  /\ UNCHANGED <<file, damage>>

-----------------------------------------------------------------------------
(* The writers.                                                            *)

Rewritten(f) ==
  /\ file' = f
  /\ check' = IF check.on THEN [check EXCEPT !.calm = FALSE] ELSE check
  /\ report' = NoReport
  /\ UNCHANGED damage

\* The bitmap has a bit for each row once it exists.
Grown(dead, n) == IF dead = <<>> THEN <<>> ELSE Read(dead, n, FALSE)

\* Mutant: the cells are dropped and the index still called whole.
InsertRowNotDegraded ==
  /\ file.kind = "single" /\ file.n < MaxRows /\ damage = 0 /\ MaxRows \notin Range(file.ids)
  /\ Rewritten([file EXCEPT !.n = @ + 1, !.ids = Append(@, MaxRows), !.dead = Grown(@, file.n + 1),
                           !.scales = Append(@, "sane"), !.dir = <<>>])

\* The flush of a flat or IVF index appends a row; the cells are kept while the
\* rows behind them are few.
InsertRow ==
  LET n    == file.n + 1
      rows == InCells(file.dir)
      keep == rows > 0 /\ (n - rows) * 100 <= rows * MaxDelta
      free == CHOOSE i \in 1 .. n : i \notin Range(file.ids)
  IN  /\ file.kind \in {"single", "bq"} /\ n <= MaxRows /\ damage = 0
      /\ Rewritten([file EXCEPT
           !.n = n, !.ids = Append(@, free), !.dead = Grown(@, n),
           !.scales = IF file.kind = "bq" THEN <<>> ELSE Append(@, "sane"),
           !.mean = IF file.kind = "bq" THEN Dim ELSE 0,
           !.dir = IF keep /\ file.kind = "single" THEN @ ELSE <<>>,
           !.degraded = file.lists > 0 /\ ~ (keep /\ file.kind = "single")])

LiveNodes(f, dead) == {s \in 0 .. f.n - 1 : ~ Read(dead, f.n, FALSE)[s + 1]}

\* Min, or 0 of nothing.
First(S) == IF S = {} THEN 0 ELSE Min(S)

\* insert_graph_row: the graph of one row more, searched from a live row.
InsertGraphRow ==
  LET n    == file.n + 1
      live == LiveNodes(file, file.dead)
      new  == [file EXCEPT !.n = n, !.ids = Append(@, n), !.scales = Append(@, "sane"),
                           !.dead = Grown(@, n)]
  IN  /\ file.kind = "graph" /\ file.n > 0 /\ n <= MaxRows /\ damage = 0
      /\ \E g \in Graphs(n) : /\ g[2] = IF file.entry \in live THEN file.entry ELSE First(live)
                              /\ Rewritten(WithGraph(new, g))

\* A graph is entered at a live row that has a live neighbour, if there is one.
EntryPoint(f, dead) ==
  LET live  == LiveNodes(f, dead)
      leads == {s \in live : Range(NeighborsOf(f.offsets, f.neighbors, s)) \cap live # {}}
  IN  IF f.entry \in leads THEN f.entry ELSE IF leads # {} THEN Min(leads) ELSE First(live)

\* A flat index fills the hole with the last row.
Shrunk(s) ==
  LET n == file.n - 1
      filled(chain) == [i \in 1 .. n |-> IF i = s THEN chain[n + 1] ELSE chain[i]]
  IN  [file EXCEPT !.n = n, !.ids = filled(@), !.scales = filled(@)]

\* ivf_tombstone_dead, graph_tombstone_dead: the bitmap, and the meta page after it.
Vacuum(s) ==
  LET dead == [i \in 1 .. file.n |-> i = s \/ (i \in DOMAIN file.dead /\ file.dead[i])]
  IN  /\ damage = 0 /\ ~ Read(file.dead, file.n, FALSE)[s]
      /\ IF file.kind = "single" /\ file.lists = 0 THEN Rewritten(Shrunk(s))
         ELSE Rewritten([file EXCEPT !.dead = dead,
                                     !.entry = IF file.kind = "graph" THEN EntryPoint(file, dead)
                                               ELSE @])

\* REINDEX waits for the check.
Reindex ==
  /\ ~ check.on
  /\ file' \in {f \in Built : f.kind = file.kind}
  /\ damage' = 0
  /\ report' = NoReport
  /\ UNCHANGED check

\* A torn write, a lost page, pg_resetwal: one item of a chain.
Damaged ==
  {[file EXCEPT !.ids[i] = x] : i \in DOMAIN file.ids, x \in 0 .. MaxRows}
  \cup {[file EXCEPT !.scales[i] = x] : i \in DOMAIN file.scales, x \in {"negative", "infinite"}}
  \cup {[file EXCEPT !.mean = 0]}
  \cup {[file EXCEPT !.dir[c] = [at |-> x, n |-> y]] :
          c \in DOMAIN file.dir, x \in 0 .. MaxRows, y \in 0 .. MaxRows}
  \cup {[file EXCEPT !.offsets[i] = x] : i \in DOMAIN file.offsets, x \in 0 .. MaxRows}
  \cup {[file EXCEPT !.neighbors[i] = x] : i \in DOMAIN file.neighbors, x \in 0 .. MaxRows}
  \cup {[file EXCEPT !.entry = x] : x \in 0 .. MaxRows}
  \cup {[file EXCEPT !.gone = @ \cup {c}] : c \in Chains}

Damage ==
  /\ damage < MaxDamage /\ ~ check.on /\ file.n > 0
  /\ file' \in Damaged \ {file}
  /\ damage' = damage + 1
  /\ report' = NoReport
  /\ UNCHANGED check

HealthNext ==
  \/ CheckLocked \/ CheckGraph \/ CheckTombstones
  \/ InsertRow
  \/ InsertGraphRow
  \/ \E s \in 1 .. file.n : Vacuum(s)
  \/ Reindex
  \/ Damage

HealthSpec == HealthInit /\ [][HealthNext]_healthVars

-----------------------------------------------------------------------------
(* What a scan makes of the file, and the operator functions.              *)

\* install_whole_index, install_graph_index and install_bq_index raise an ERROR.
ScanFails(f) ==
  \/ f.gone \cap LockedChains(f) # {}
  \/ f.kind \in {"single", "graph"} /\ f.lists = 0 /\ HasDuplicate(f.ids)
  \/ f.kind # "bq" /\ BadScale(f.scales)
  \/ f.kind = "bq" /\ f.mean # Dim
  \/ f.kind = "graph" /\ ("graph" \in f.gone \/ ~ Decodes(f.offsets, f.neighbors, f.n))

\* A search of the graph follows an edge to a row there is not, or reads a list
\* that ends before it begins.
ScanStrays(f) ==
  f.kind = "graph" /\ Decodes(f.offsets, f.neighbors, f.n) /\
    ~ (/\ \A i \in 1 .. f.n : f.offsets[i] <= f.offsets[i + 1]
       /\ Range(f.neighbors) \subseteq 0 .. f.n - 1)

\* probe_mask with all cells probed leaves a row of a 1-bit index out.
ScanMisses(f) ==
  /\ f.kind = "bq" /\ f.dir # <<>> /\ f.mean = Dim
  /\ \E s \in 0 .. f.n - 1 :
       s < InCells(f.dir) /\ \A c \in DOMAIN f.dir : s \notin f.dir[c].at .. f.dir[c].at + f.dir[c].n - 1

\* ivf_setup_and_search has cells to choose from.
UsesCells(f) == f.lists > 0 /\ f.dir # <<>>

\* index_degradation: how much of the index a scan looks at, and how many times
\* what it should, both as pairs of a number and what it is divided by.
index_degradation(f, probes) ==
  LET p == IF probes < 1 THEN 1 ELSE IF probes > f.lists THEN f.lists ELSE probes
  IN  IF f.lists = 0 THEN [degraded |-> FALSE, lists |-> 0, part |-> <<1, 1>>, more |-> <<1, 1>>]
      ELSE IF IsDegraded(f)
      THEN [degraded |-> TRUE, lists |-> f.lists, part |-> <<1, 1>>, more |-> <<f.lists, p>>]
      ELSE [degraded |-> FALSE, lists |-> f.lists, part |-> <<p, f.lists>>, more |-> <<1, 1>>]

-----------------------------------------------------------------------------
(* Properties.                                                             *)

\* Damage in the chains turbovec_check reads that makes scans fail, follow an
\* edge to nowhere or leave rows out is reported, or is an ERROR of the check.
DamageReported ==
  report.on /\ file.n > 0 /\ (ScanFails(file) \/ ScanStrays(file) \/ ScanMisses(file)) =>
    report.failed \/ report.corrupt

\* An index without damage is not reported, and the share of dead rows is right,
\* if no writer came between the parts of the check.
HealthyIsClean ==
  report.on /\ damage = 0 /\ report.calm =>
    /\ ~ report.failed /\ ~ report.corrupt
    /\ report.n = file.n
    /\ report.dead = Quantify(DOMAIN file.dead, LAMBDA i : file.dead[i])

\* An index that was built with cells is called degraded when, and only when, its
\* scans have none to choose from: whatever inserts and VACUUM did, in whatever
\* order; and its scans do no less than they would.
DegradationTold ==
  damage = 0 => \A probes \in Probes :
    LET d == index_degradation(file, probes)
    IN  /\ d.degraded <=> (file.lists > 0 /\ ~ UsesCells(file))
        /\ d.part[1] <= d.part[2] /\ d.more[1] >= d.more[2]

\* A check that a writer overlaps does not report an index without damage either.
\* (turbovec_check: every observation is one snapshot.)
NoFalseAlarm == report.on /\ damage = 0 => ~ report.failed /\ ~ report.corrupt

=============================================================================
