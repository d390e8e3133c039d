# pg_turbovec in TLA+

pg_turbovec is a PostgreSQL extension (Rust, pgrx): vector types, and the index
access method `turbovec`, which keeps quantized vectors in a relfile and serves
searches from copies of it that each backend caches.  This directory specifies
the parts of it where something can go wrong that a test would hardly reach:
the write path that defers index changes to the commit, the caches that stand
between a search and the relfile, VACUUM, which moves slots and lets TIDs be
used again while the others work, the pages of a relfile that is rewritten
under an interrupt and read without the lock, the builds and searches of every
kind of index, and the SQL functions that keep state of their own.

- [The system](#the-system): the inventory of its parts
- [The modules](#the-modules): which part each models and how it corresponds to the code
- [The runs](#the-runs): what TLC checks, with which bounds and why they are enough
- [What the runs show against the code's own words](#what-the-runs-show-against-the-codes-own-words)
- [The proofs](#the-proofs)
- [What is not modelled](#what-is-not-modelled)
- [Plan](#plan)

Paths are relative to the repository.  `PROJECT.json` names, for every
definition, the lines it stands for.

## The system

### Components

**Deferred-commit write path** (`src/index/insert.rs`, `src/xact.rs`,
`src/index/relfile.rs`).  *State:* per backend and index, a dirty cache entry
with its `PersistState` (`touched_ids`, `version`).  *Operations:* `aminsert`
adds the row to the backend's cached copy and the id to `touched_ids`; the
PreCommit callback, for each dirty index, takes the exclusive rewrite lock,
splices the touched ids into the relfile as it is then
(`reconcile_flush_image`), stamps `next_am_version` and labels or drops the copy
(`clear_dirty`); the Abort and AbortSub callbacks drop every dirty entry.
*Hard:* two writers commit from copies of the same relfile; VACUUM between an
insert and its flush; savepoints; an abort after PreCommit, whose rewrite is not
undone; TRUNCATE in the same transaction.  *Correct if:* every committed row is
indexed with its own vector, no index row names a TID that may be reused, and
nothing reaches the relfile that can still be rolled back to a savepoint.

**Backend index cache** (`src/cache.rs`).  *State:* a map from (index,
column, width) to an entry: the copy, the freshness pair `(relfilenode, n_rows)`,
dirty flag, `PersistState`, a sequence number of last use.  *Operations:*
`scan_lookup`, `am_lookup_for_mutation`, the installs (which run `enforce_cap`),
`am_mark_dirty`, `drain_dirty`, `clear_dirty`, `invalidate_dirty`,
`invalidate_all`.  *Hard:* the cap reached when entries cannot be evicted, a
stale entry that must be kept because it is dirty, entries shared by indexes of
different kinds.  *Correct if:* unflushed rows stay, rolled-back rows go, and a
copy that passes for current is the relfile.

**Relfile storage** (`src/index/relfile.rs`, `src/index/page.rs`).  *State:*
block 0 is the meta page; behind it chains of pages for codes, scales, ids and
the optional chains (centroids, cell directory, tombstones,
graph, calibration).  *Operations:* full rewrite (`write_full_inner`), in-place
slot copy, meta shrink, tombstone write, chain reads; a heavyweight lock per
relfile separates rewrites from loads.  *Hard:* an error or crash between pages,
chain offsets that move, versions.  *Correct if:* a reader gets the chains of
one rewrite.

**VACUUM** (`src/index/vacuum.rs`).  *Operations:* flat indexes: swap-remove in
place under the rewrite lock, then shrink the meta page; IVF, graph and 1-bit
indexes: set bits in a tombstone bitmap by slot.  *Hard:* several dead slots at
the tail, a cancel between slots, TIDs reused afterwards.  *Correct if:* live
rows stay where they are found, once, and dead ones are gone before their TIDs
are reused.

**IVF kind** (`src/index/ivf.rs`): cells partition the slots; rows flushed later
lie behind them (delta) until a bound is passed and the index degrades to a flat
scan.

**Index scan** (`src/index/scan.rs`).  *State:* `ScanOpaque`: the handle, the
batch and its cursor, the rows returned so far, `k`, the probed cells.
*Operations:* `amrescan`; `amgettuple` reads the meta page without a lock, takes
a cached copy or loads one, reads the tombstones and searches; `try_refill`
searches again, with more cells and candidates, when the batch is drained; large
indexes are gathered page by page out of core.  *Hard:* refills that overlap
what was returned, settings that change between two calls, masks that are built
again, rows in several cells.  *Correct if:* a scan ends, returns no row twice
and none that is dead or not allowed, and misses none it was asked to look at.

**1-bit kind** (`src/index/onebit.rs`, `insert.rs`).  *State:* the signs of
each vector against the mean of the corpus, which the meta page names.  An
insert rewrites the relfile at once and is not deferred.  *Hard:* a rollback
leaves the row, TIDs reused beside the bitmap, what the insert does to the cache.
*Correct if:* live rows stay in their slots; a search returns the nearest by
Hamming distance that are live.

**Graph kind** (`src/index/graph.rs`, `insert.rs`).  *State:* the neighbours of
each slot, an entry point.  *Operations:* build in one pass or in shards that
are stitched, insert by approximate distances, decode and validate, search with
backfill.  *Hard:* shards cancelled on pool threads, tombstones on the paths of
a walk, an entry point that dies.  *Correct if:* a stored graph is whole and of
bounded degree, and a search returns as many live rows as it was asked for.

**turbovec.knn()** (`src/knn.rs`): search of any table through an index built on
the fly and cached under `(relfilenode, row count)`; the candidates it gives are
reranked exactly, by the table's own vectors.  *Hard:* the table changes between
the queries of one call and between calls; the cache key has neither the id column
nor `normalize_on_insert`; the candidates' own ranking is quantised.  *Correct
if:* the answer is a row of the table with its own score, and the best where the
index is fit to find it.

**ColBERT and hybrid search** (`src/colbert.rs`, `src/hybrid.rs`).  *State:* the
persistent token index, or a cached one with a map from slots to documents.
*Operations:* candidates by their best token, then exact scores from the table,
fetched by ctid or id.  *Hard:* documents that change between the two stages, a
map and an index that are evicted apart, TIDs reused.  *Correct if:* the answer
has current documents with their own scores, and the best one the index knows.

**Index build** (`src/index/build.rs`, `build_pool.rs`, `ivf.rs`).  Heap scan
into a spill, a sample, k-means, assignment, encoding in batches that
`maintenance_work_mem` sizes, one rewrite.  *Hard:* batches and chunks at their
boundaries, sums whose order depends on the threads.  *Correct if:* every live
row is stored where a probe for it looks, and the same bytes come of any size.

**Access method, options, settings, cost** (`src/index/mod.rs`, `options.rs`,
`cost.rs`, `validate.rs`, `src/guc.rs`).  *State:* reloptions of the catalog, GUCs of each
session, the meta page's width, dimension and wire version.  *Hard:* what was
built under one value and is read or extended under another; crashes of
UNLOGGED tables; upgrades.  *Correct if:* a code is read as it was written.

**Partition routing** (`src/partition.rs`): sums of the rows of each partition,
refreshed statement by statement, and the partitions nearest to a query.
*Hard:* two sessions that refresh, and lock the rows of the summary one by one;
partitions of one name in two schemas; rows that change meanwhile.

**Maintenance functions** (`src/extras.rs`): `turbovec_check`
and the degradation functions, which read chains as scans do.

**Vector types and operators** (`src/vec.rs`, `halfvec.rs`,
`sparsevec.rs`, `bitvec.rs`, `cast.rs`, `distance.rs`, `aggregate.rs`,
`kernels.rs`).  *State:* parallel aggregate
states; decoded operands that a distance function keeps between calls.  *Hard:*
empty and merged states, overflow of halves, operands recognised by pointer.

**Outside**: registration and the test suite (`src/lib.rs`), the turbovec crate
(quantizer), pgrx, PostgreSQL.

### How they interact

The executor calls `aminsert`, `amgettuple` and `ambulkdelete` with TIDs; a TID
is the external id of a row.  The write path and the scans meet in the cache
of one backend.  Backends meet in the relfile: through the rewrite lock, the
`am_version` on the meta page, and the order of PostgreSQL's own events (a TID
is reused only after `ambulkdelete` has returned; an index sees a transaction's
end only through its callbacks).

## The modules

| Module | Models | State ↔ code |
|---|---|---|
| `DeferredFlush` | write path, one index, several backends, with scans, VACUUM, REINDEX, crash | `disk` ↔ meta page and chains; `entry[b]` ↔ `cache::Entry` with `PersistState`; `txn[b]` ↔ which callbacks have run; `scan[b]` ↔ a scan between its meta read and its handle; `heap`, `vac` ↔ PostgreSQL's side |
| `RowIndex` | what an index promises the heap; `DeferredFlush` implements it | `index` ↔ the rows a search can return; `ready` ↔ transactions between PreCommit and commit record |
| `SlotTable` | the slots: splice, the inserts of 1-bit and graph indexes that write at once, swap-remove, bitmap, cells and rows behind them, cancel, crash, rollback, TID reuse | `slots` ↔ the codes, scales and ids chains; `tomb` ↔ the bitmap; `cells` ↔ the cell directory; `vac` ↔ the locals of `ambulkdelete_relfile` |
| `BackendCache` | the cache of one backend over several indexes, with savepoints and GUC changes | `cache` ↔ `CACHE`, in the order of `seq`; `pending` ↔ history of unflushed rows |
| `ChainLayout` | the arithmetic that places the chains in the file, for every kind of index | a layout ↔ the `*_first`, `*_count` fields of `MetaPageData`; one operator per function of `page.rs` and per sum of `relfile.rs` |
| `RelfilePages` | a rewrite page by page: plan, extend, write or skip pages, meta page, truncate; VACUUM's bitmap and slot copies; a stop after any of them | `disk`, `meta` ↔ the blocks; `job` ↔ the locals of the writing function; `image` ↔ ghost: what the meta page stands for |
| `RelfileReaders` | a scan that reads without the lock, chain by chain, between the page writes of `RelfilePages` | `copy` ↔ a cached handle, whole or out of core; `scan` ↔ the meta pages and chains read so far |
| `ScanRefill` | one ordered scan with its refills, for every kind of handle | `scan` ↔ `ScanOpaque`; `index` ↔ `ScanHandle`, slot by cell; `guc` ↔ the session's settings; `phase` ↔ where the executor stands |
| `HandleSearch` | one search, computed: how many candidates, which slots, bit-plane and Hamming scores, chunks over the threads of the pool and their merge | `handle` ↔ `ScanHandle`; `pool` ↔ `SCAN_POOL`; `search` ↔ the chunks scored so far |
| `IndexBuild` | `ambuild` of flat, IVF, 1-bit and ColBERT indexes: spill, cells, batches; inserts behind the cells; probes, by the linear search and over the centroid graph, in memory and out of core | `chunk` ↔ `maintenance_work_mem` in rows; `job` ↔ `BuildState`; `index` ↔ the chains |
| `KMeansTraining` | the training of the cells: reservoir, rotation, k-means++, assignment by a matrix product, sums by threads, empty cells | `km` ↔ the locals of `train_kmeans`; what rounding may add to a score is a choice |
| `VamanaGraph` | the graph kind: build in one pass or in shards that a cancel gives up, insert, RobustPrune, search with its fallbacks and backfill, VACUUM's masks | `adj` ↔ `GraphAdjacency`; `build` ↔ the shards and their threads |
| `GreedySearch` | the beam search that `graph.rs` and the centroid graph share; RECURSIVE, no theorem | |
| `KnnCache` | `turbovec.knn()` query by query: its freshness pair, calls of several id columns and settings on one entry, quantised candidates, exact rerank; the table's DML and rewrites | `entry` ↔ the SQL-API cache entry, with the id column and setting it was built for; `call` ↔ what the call has read so far |
| `ColbertSearch` | `turbovec.colbert_search()`: both stages, over the persistent index or the cached one, against DML, VACUUM, TRUNCATE, HOT updates, eviction | `index` ↔ the token index; `entry`, `slotDoc` ↔ the cache entry and `SLOT_DOC`; `call` ↔ what stage 1 gave |
| `IndexSettings` | options, settings, sessions and releases across CREATE, ALTER, INSERT, REINDEX and a crash; refusals; which scan is costed | `frozen` ↔ `RELOPT_KIND`'s default in a backend; `file`, `fork` ↔ meta page and rows of the main and init forks |
| `IndexHealth` | `turbovec_check`, `index_is_degraded`, `index_degradation` over damaged and undamaged relfiles | `file` ↔ the chains; `check` ↔ what was read under the lock |
| `PartitionRouting` | `refresh_partition_summary()` statement by statement, its DELETE row by row, between sessions; `nearest_partitions()` | `refresh` ↔ the locals of the function; `summary` ↔ the catalog table with its row locks |
| `VectorAggregates` | `avg` and `sum` under a parallel plan: SFUNC, COMBINEFUNC, serialisation, FINALFUNC | `partial`, `merged` ↔ the transition states |
| `VectorTypes` | casts, text, element-wise and distance functions of the four types | `value` ↔ the datum; `means` ↔ ghost: the coordinates a user counts on |
| `OperandCache` | the decoded operands and norms that distance functions keep in `fn_extra` | `slot` ↔ `Slot`; `stored` ↔ TOAST values by OID |
| `MC…` | symmetry, page sizes and settings for TLC; some put modules that share no state side by side in one run, a behaviour being of one of them | |
| `DeferredFlush_proofs` | theorems of the write path: rows, copies, the refinement of `RowIndex` | |
| `RelfilePages_proofs`, `RelfileReaders_proofs` | theorems of the relfile: layouts and rewrites; scans beside rewrites | |
| `BackendCache_proofs` | theorems of the cache of a backend: unflushed rows, cap, eviction | |
| `SlotTable_proofs` | theorems of the slots: live rows keep theirs, current copies are the relfile | |
| `IndexScans_proofs` | theorems of `ScanRefill`: what a scan returns, and when it is complete; and of `IndexSettings`: the codes it reads, the rows an index has, what its scan costs | |
| `SqlFunctions_proofs` | theorems of `KnnCache`, `OperandCache`, `PartitionRouting`, `ColbertSearch` and `VectorAggregates` | |
| `Sublists`, `DataInduction_proofs` | the part of a sequence that a filter keeps; lemmas for the other proof modules: induction over the naturals, and what recursive functions, filters and ascending lists come to | |

Each action is one handler.  `DeferredFlush!PreCommit` is the whole PreCommit
callback for one index: drain, reconcile, write, `clear_dirty`.  That a rewrite
and a load are single steps is what the rewrite lock gives; what happens inside
a rewrite that does not hold still, VACUUM's slot moves, is `SlotTable`'s
subject, and what readers without the lock see of it that of `RelfileReaders`.
`DeferredFlush` abstracts slots to a map from TIDs to vectors; `clear_dirty`
compares slot by slot, so equal maps are necessary for keeping a copy, not
sufficient, and `PreCommit` chooses.

`BackendCache` in turn abstracts rows to the levels (transaction, savepoint)
that have unflushed rows in an entry, and other sessions to the ways an entry
can stop matching.  Its sequence of entries stands for the sequence numbers:
every hit or install moves an entry to the end.

`RelfilePages` is the inside of the rewrites that `DeferredFlush` and
`SlotTable` take as steps: it shows when a stopped rewrite leaves a relfile that
the others may take for granted (`FileSound`), and when not.  A page holds
the tag of its chain and the rows of its slots; a page is skipped when it is
full and holds the same, as `write_chain_at` compares bytes.  The lengths of the
centroid and directory chains and of the graph stand for their contents.  A
graph without rows is built as a flat index, so the graph kind starts with some.

`ScanRefill` holds the index still: a scan keeps its handle.  Scores are left
out: a search may return any `k` of the slots it looks at, and any cells may be
the nearest, so its properties hold whatever the ranking; that the ranking is
right is `HandleSearch`'s subject, and that the cells are the nearest
`IndexBuild`'s.  `IndexBuild` takes the centroids from anywhere, and
`KMeansTraining` says what they are.  It also takes products and distances as
exact: the code ranks the cells of a row by rounded matrix products first and
computes the distances of the `dups + 2` best (`src/index/ivf.rs:1639`).  What
rounding does to an assignment is in `KMeansTraining`.

`KnnCache` keeps of a vector its two scores with the one query, as cosine and as
product, which rank differently.  The search of the quantised index may return any
rows as long as none left out is better by more than `CodeError` than one that is
returned; the exact scores come from the rows the table has.  A call reads the
relfilenode, the count and the rows by one SQL query each.  A call that has not
written has one snapshot throughout; one that has takes the latest for each query,
and the model lets any of its queries do so.  The count locks the table: CLUSTER
and TRUNCATE may come between the first two.

Numbers are integers small enough for TLC.  Where floating point makes a
difference to what the code promises, the module keeps what causes it: the order
of the addends of a sum (`KMeansTraining`, `VectorTypes`), the error of a score
(`KMeansTraining`), the rounding and the infinity of halves (`VectorTypes`), the
largest value of a type (`VectorAggregates`).

Names follow the source; `Mutant:` marks altered definitions that show the
properties can fail: each is a plausible bug, several are bugs the changelog
records as fixed.

## The runs

Each run takes four minutes at most.  No definition is replaced in
a `.cfg`; sets are model values, and symmetry is used where no definition names
one of them; only invariants, action properties and a refinement without
fairness are checked under it.

| Run | Shows | Bounds and why they suffice |
|---|---|---|
| `flat` | no interleaving of two writers, scans, VACUUM, rollbacks and TID reuse loses a row, dangles one or serves a stale copy; `RowInv` and `CopyInv` are invariants | 2 backends, 3 TIDs, versions to 4.  The third TID is what it takes for a label by the writer's own count to collide with another writer's version (the bug of 2.14.1) |
| `ivf` | the same with tombstones and REINDEX; and `DeferredFlush` implements `RowIndex` | 2 TIDs, versions to 3, one REINDEX: a TID is inserted, flushed, tombstoned, reused and flushed again; versions restart while a copy of the old relfile is cached |
| `slots` | *slots:* splice, immediate insert and swap-remove keep every live row in the index with its vector; bits follow the slots through flushes and TID reuse; a copy labelled current is the relfile slot for slot; a cancel or crash mid swap-remove, even between the chains of one slot, loses no live row; `SlotsInv` is an invariant.  *Graph:* the stored graph is whole, of bounded degree and passes `validate`; a search returns as many live rows as there are and the best it saw | all four kinds; 2 backends, 3 ids, 2 vectors: two dead slots with the live one at the end and every other order; an in-place overwrite shows in the vector.  Up to 5 rows on 3 points of a circle with degree 2: lists overflow and are pruned, equal rows occur, two shards are stitched |
| `pages` | after its meta page is written a rewrite reads back whole, whatever pages it skipped and wherever it or an earlier one was stopped; a stopped rewrite that only adds harms nothing; no meta page names a block behind the end of the file; `RewriteInv` is an invariant | all five kinds, three rewrites in a row, up to 4 rows; one or two rows per page and chains padded from two pages on, so that chains grow within their padding, past it, and move; a bitmap appears, grows and is dropped, cells are dropped |
| `readers` | a scan of an IVF index between the page writes of flushes and VACUUMs: a copy that mixes images is never found again; a scan that only appends overlapped has every row and no error (`CalmScanComplete`, a part of `ReadersInv`); `ReadersInv` is an invariant | 4 ids, 2 vectors, two rewrites: chains grow within their padding and move while each of the scan's reads falls before, between and after; both the whole copy and the out-of-core one |
| `refill` | *scan:* it ends; it returns no dead or forbidden row, none more often than it has slots, and every candidate when the settings at its end let it look everywhere.  *Search:* the rows returned are the best in reach, whatever the kind of handle, the number of threads and the order they finish in | 3 rows in up to 2 cells and the append region, each in up to 2 cells, any of them dead; all five kinds of handle; six settings, one change between two fetches, one rescan; `k` from 1, so that two refills and both ceilings are met.  4 rows with 2-bit codes, all different or two equal; no thread pool, 2 and 3 threads over chunks of one row; every set of tombstones; two searches, the setting changed between them |
| `build` | *build:* the same bytes are stored for every memory size; a probe of one cell at a row's own vector finds it; out of core looks at the same slots; rows behind the cells are found; what the walk over the centroid graph returns is the nearest of what it can reach.  *Training:* the sample is of the table, assignments are those of a scalar search, sums do not depend on the threads, no cell without a row; no iteration makes the cells worse.  *Cache:* unflushed rows stay, rolled-back rows go, the cap holds once met although dirty entries cannot be evicted, an insert's own entry vanishes only when the others are pinned | 4 points of a line in two far pairs, centroids anywhere among them; tables of 2 documents or 3–4 rows, one dead; NULLs only; batches and chunks of 1 and 2; a centroid graph of degree 1, so that it can fall apart.  Up to 4 rows in the plane, up to 3 cells, 1 and 2 threads, any draws, rounding by 1.  2 in-place indexes, a 1-bit one, another; sizes 1–2; caps 0, 1, 3: nothing fits, one fits, all but one fit; the state of the cache is finite without a bound |
| `sql` | what SQL calls, eight parts: see below | |

The parts of `sql`: *knn:* the answer is one of the table's rows under the call's id
column, with its own score, whichever calls share the cache entry; and of the rows
that stood since the count, none is better by more than the codes err, when the
index is of the call's column and setting and rows were only added since.  (2
rows; the codes may misrank them by `CodeError` 1, the difference of their
cosines; two settings and two id columns, where one's value is another row's in
the other; one rewrite; `Take` 1 standing for the candidate floor of 64, so that
with two rows the candidates are cut and with one they are all.)  *agg:* a parallel
aggregate is the serial one (4 rows, a leader and a worker, any split; a sum past
the largest value of each type).  *type:* up to four functions on each literal
keep what it means.  *operand:* distances use the operands of their call (2
vectors, 2 OIDs reused after the execution ends).  *route:* what is picked is
nearest when nothing changed during a refresh; no deadlock under its conditions (2
partitions, of two names or of one, with at most one row at the start, on either
side of the origin; 2 sessions, which suffice for a circle; one change).
*colbert:* answers are current documents with exact scores, and the one with the
best token is among them while the index fits the table (3 TIDs, 2 ids, 3
arrays).  *health:* damage is reported, a healthy index is not (up to 3
rows, one damage).  *vectors* and *documents:* an index whose width is named in
its options reads every code as it was written, through up to five statements of
two sessions.

The runs `savepoint`, `check_alarm`, `settings_width` and `settings_upgrade`
end in a counterexample: see below.

`MaxVersion`, `MaxNode`, `MaxJobs`, `MaxSets`, `MaxRescans`, `MaxRows`,
`MaxSteps`, `MaxChanges`, `MaxSearches` and `MaxDamage` bound counters in
the guards of the steps that raise them; they keep no behaviour out but longer
ones.  Deadlock is checked in the runs of `MCDeferredFlush` and `MCSlotTable`:
there no state is without a step.  In the others the system may rest: a relfile
when `MaxJobs` rewrites are over or a stopped rewrite has left it unreadable, a
scan when it has ended, a build when its index is stored, a query when it has
its result, a value when `MaxSteps` functions were applied.

**Fairness.** Only the scans of `MCScanRefill` assume any: weak fairness of
`ScanFetch`, that an executor which asks for the next tuple gets an answer and
goes on asking.  Inside `amgettuple` that is a loop that runs until it returns.
Between two calls it is what the executor does: every tuple comes with the
distance bound `f64::NEG_INFINITY`, so `IndexNextWithReorder` drains the scan
before it returns a row (`src/index/scan.rs:890`).  Changes of the settings and
rescans are not assumed to happen.  `ScanEnds` then says that the refills, and
the loop in `amgettuple` around them, come to an end.  In the other modules an
index changes when a client acts, and nothing runs by itself; that sessions
which refresh partitions do not wait in a circle is an invariant, with its
conditions (`NoRefreshDeadlock`).

## What the runs show against the code's own words

| Run | The code | The words |
|---|---|---|
| `savepoint` | AbortSub drops the whole dirty entry, with rows the outer transaction inserted before the savepoint: they commit and are not indexed | "Correct (never persists a rolled-back row)", `src/xact.rs:316` |
| `check_alarm` | `turbovec_check` reads a graph after it has released the rewrite lock (`src/extras.rs:515`), by the meta page of before: a row inserted in between makes it report a healthy index as corrupt | "Read INSIDE the same ShareLock as the meta/ids/scales reads so every observation is one snapshot", `src/extras.rs:486` |
| `settings_width` | an INSERT into an index created without options takes the width from the session's setting and stamps it on the meta page: after a SET the codes of all rows are read with a wrong stride, without an error | "default `bit_width` for indexes built without an explicit reloption", `docs/USAGE.md:162`; "when an index is created", `src/guc.rs:746` |
| `settings_upgrade` | an INSERT into an index of an older wire version writes its old codes back under the current version, and the gate of `ambeginscan` no longer sees them | "the new binary detects the old format on first open and emits a `REINDEX`-pointed `ERROR` rather than silently corrupting or returning bad results", `docs/UPGRADING.md:11` |

Further observations, which the modules show or modelling turned up.  No run is
kept for them; the properties are stated so that they hold beside them.

*Writes.*

- `insert_bq_row` ends with `invalidate_all` (`src/index/insert.rs:582`): an
  insert into a 1-bit index drops the dirty entries of every other index, and
  the rows the transaction inserted there commit unindexed.  `src/cache.rs:2168`
  has it that they "can only be evicted via the xact-end callbacks".
  `UnflushedKept` leaves these rows out.
- INSERT and TRUNCATE in one transaction leave a dirty entry of a relfile that
  is gone, which `src/cache.rs:1743` calls "impossible in practice"; the inserts
  that follow go on with it.
- A transaction that adds two rows to a non-empty index always drops its copy:
  `reconcile_flush_image` appends the touched ids last first, so the image is
  not the copy slot for slot.  `src/cache.rs:2048` has it dropped only if
  somebody else changed the index.  It costs a reload, no row.
- When such a transaction flushes and then fails to commit, `clear_dirty` has
  labelled the entry of the old relfilenode with a version of the new relfile;
  the old relfile is put back, and can reach that version.
- With the cap at 0, or when the other dirty entries and a new one exceed it,
  an insert does not find the entry it installed and fails
  (`BackendCache`, `InsertVanished`; `src/guc.rs:759` documents 0 as "disable
  caching").  `VanishesOnlyWhenPinned` states exactly when.
- A touched TID that is on disk already (its slot tombstoned, the TID reused) is
  overwritten in place, inside the cell of its old vector
  (`src/index/relfile.rs:1477`), although `src/index/relfile.rs:1310` says of the
  slots the directory covers that they "are still exactly the cell-partitioned
  region"; a scan that probes the new vector's cell misses the row until a
  REINDEX.  The 1-bit insert drops the directory instead.
- `insert_graph_row` refuses a TID found in the graph even in a tombstoned slot:
  after VACUUM and TID reuse every INSERT of that TID errors until a REINDEX.
- The first inserts of two dimensions into an empty index, by two sessions or in
  one transaction (the cache keys entries by dimension), garble each other.  A
  pinned `WITH (dim = N)` is not enforced on them; a later REINDEX then errors.
- A 1-bit UNLOGGED index with a pinned dimension comes out of a crash with an
  init fork whose meta page names a mean chain that is not there: every INSERT
  errors until a REINDEX (`src/index/build.rs`, `ambuildempty`).
- A 1-bit index built on an empty table keeps a mean of zeros.

*The relfile.*

- A rewrite that lengthens a chain past its allocation and is stopped has
  written over the next chain, which the old meta page still names, although
  "readers / the next reconcile-flush still observe the previous, fully-valid
  `n_vectors` + chains" (`src/index/relfile.rs:2408`).  `FileSound` asks for an
  image only of a relfile no such rewrite was stopped on.
- A VACUUM of a flat index cancelled between two slots leaves an id in two slots;
  inserts and cold scans refuse the index until a REINDEX.  By
  `src/index/vacuum.rs:232` "a cancel between slots unwinds cleanly".  No live
  row is lost.
- Readers without the lock: tombstones or centroids read by an old meta page
  while a rewrite moves chains are a garbage mask or an error past the end of the
  file.  Rewrites that append or set in place are harmless (`CalmScanComplete`).
- `truncate_ids_tail` cuts the file where the ids end, as the last chain, while
  `write_meta_shrink_in_place` keeps a calibration chain that lies behind them.
  No index that can be built today has that chain; `ShrinkSound` says so in its
  statement.

*Searches.*

- The first search of a graph index ignores `turbovec.allowlist`, and its refills
  apply it (`src/index/scan.rs:812`, `1728`).  `docs/FILTERING.md:48` names the
  allowlist for flat and IVF indexes, `docs/FILTERING.md:360` promises it for
  every allowlisted ORDER BY.  `OnlyCandidates` leaves the graph out.
- `populate_batch` (`src/index/scan.rs:1772`) leaves out rows returned before; two
  slots of one row that the same search finds (`assign_dups` from 2) are both
  returned.  `src/index/ivf.rs:1717` has "the scan's emitted-id set + an
  intra-batch guard".  `OncePerSlot` is stated by slots.
- `current_k` is "capped at `min(max_scan_tuples, n_live)`" by its comment
  (`src/index/scan.rs:186`): neither the first `k` nor the floor of one more
  candidate per widening respects that.  The scan ends all the same (`refill`).
- A flat 1-bit scan reads no tombstone mask; when more dead slots than its spare
  rank first, it returns fewer than `k` rows though live ones exist, and with
  `iterative_scan = off` never the others.
- A backend with unflushed rows searches its own copy (`scan_lookup` serves a
  dirty entry whatever its version), without what others committed since.
  `ScanComplete` is therefore stated for backends with nothing unflushed.
- The centroid graph may fall apart: `graph_probe` then returns fewer cells than
  asked for, though `src/index/ivf.rs:513` gives it the contract of
  `coarse_probe`.  `GraphProbeNearest` speaks of the cells that can be reached.

*Builds.*

- `build_vamana` runs on a pool thread, where the interrupt hook is not
  installed: `check_interrupts()` does nothing there; `MayStore` is what keeps a
  cancelled build from being stored.
- The comments of the matrix-product assignment claim the bytes of the scalar
  one; that holds if at most two cells are within rounding of the nearest, which
  is the condition of `TrainingSound`.
- The lower bound of `insert_one_node_via_oracle` makes it prune more, not less,
  than the exact distances would.
- A ColBERT operator class with `bit_width = 1` is built as a 1-bit index, and
  one on an empty table is stamped as of single vectors.

*SQL functions.*

- An UPDATE, or a DELETE with an INSERT, changes neither half of the freshness
  pair of `turbovec.knn()`, although `CHANGELOG.md:6983` has it that "DML
  invalidates implicitly".  Hence the condition in `AnswerIsNearest`, and the
  same in `BestTokenDocFound` for the cached token index.
- The cache key of `turbovec.knn()` leaves out the id column, of which
  `src/knn.rs:72` says that another one changes the ids, and
  `normalize_on_insert`.  After a call of one id column a call of another hits its
  entry, and takes the first one's ids for values of its own column: the rows that
  have them are reranked, the others lost.  After a change of the setting it takes
  the candidates by the other score.  What is returned is right row by row
  (`AnswerIsCurrentRow`); that it is the nearest holds for a `Fit` entry only.
- `turbovec.knn()` reads the relfilenode before the count has locked the table.
  If a rewrite comes between, a miss stores its index under the old number, and
  the next call misses again.
- `fetch_doc_tokens` skips a bad token, its comment a document; documents with
  equal values of the id column are merged; HOT-updated ones are not found
  through the persistent index until a REINDEX; stage 2 normalises the query only.
- `turbovec_check` never looks at codes, centroids or the directory of a
  TurboQuant index, and its `count_matches` cannot be false: `read_chain` returns
  as many rows as the meta page says, or an error.
- Overlapping refreshes of a partition summary may leave a row of a partition
  that is gone.  `infer_dim` takes the dimension of any row.
- Overlapping refreshes may deadlock in two cases, and PostgreSQL then ends one
  with an error.  `ORDER BY c.relname` (`src/partition.rs:160`) leaves open the
  order of two partitions of one name in two schemas, so two sessions may insert
  their rows in opposite orders.  And a refresh committed after another's DELETE
  took its snapshot leaves rows which that DELETE did not see: it inserts some of
  its own, then waits for a third that is deleting such a row, and that one for
  it.  `NoRefreshDeadlock` names both as its conditions (`NamesDiffer`, `SawAll`).
- `max_sim_cosine` of nothing is −∞ and, by its comment, NaN.

## The proofs

Every theorem is proved for all values of the constants, from the assumptions
named in the modules; TLC has first checked the inductive invariant of each on
the run of its module.

### The write path

`DeferredFlush_proofs` proves, from `NoneAssumption`, `IvfAssumption` and
`BoundAssumption`:

- `TypeCorrect`: `Spec => []TypeOK`;
- `RowsInvariant`: `Spec => []RowInv`;
- `CommittedRowsAlwaysIndexed`, `NeverDanglingRows`, `OwnWritesAlwaysKept`: the
  first three safety properties.

None of the three is inductive alone.  That committed rows are indexed needs to
know that a transaction past PreCommit has its rows in the index
(`FlushedRowsIndexed`); that, that its dirty entry held them
(`OwnWritesKept`), and that another's flush splices only its own pending TIDs
(`DirtyBacked`, which also says that a clean entry has no touched ids: the bug
of 2.11.0).  That no row dangles needs to know that what VACUUM is about to free
stays dead and is already out of the index (`VacuumedGone`).  `PendingOwned`
ties uncommitted tuples to transactions in progress.  `RowInv` is their
conjunction; the proof has a lemma per action.

From `RowInv` it goes on to the copies:

- `CopiesInvariant`, `CopiesAlwaysServeScans`: `Spec => []CopyInv` and
  `Spec => []CopiesServeScans`.  A copy that passes for current can go wrong only
  if a later rewrite stamps a version that a copy already carries; so no clean
  copy and no scan is ahead of the meta page (`CopiesNotAhead`), and a rewrite
  moves past all of them.  And a scan can miss a row only if its TID was freed
  under it; so VACUUM collects no tuple that a scan may still return
  (`ScannedRowsHeld`, which is PostgreSQL's horizon as the model states it).
- `WritePathImplementsRowIndex`: `Spec => RI!Spec`.  One lemma per action shows
  which step of `RowIndex` it is: PreCommit publishes what the transaction still
  owes, ambulkdelete removes, VACUUM's end frees, and scans, evictions, loads and
  savepoints are stutters.  It is what allows a reader to forget caches, versions
  and tombstones.

### The relfile

`RelfilePages_proofs` proves of the layouts, for every number of rows, page size, allocation
unit (`PadAssumption`: not zero) and length of the optional chains:

- `PaddedPagesBounds`: padding loses no page and wastes less than one unit;
- `FullLayoutSound`, `BqLayoutSound`: the layouts that `write_full_inner` and
  `write_full_bq_parts` plan put no two chains on one block, nothing on the meta
  page, and nothing behind the blocks they extend the file to, and so does a
  bitmap that VACUUM adds;
- `ShrinkSound`: so does an in-place shrink, within what is left of the file.

Each placing function is shown to keep a layout *packed*: the chains present lie
in one fixed order, each begins where the counts of those before it end, and the
total is the sum of all.  Packed layouts are sorted, and sorted ones disjoint.
That is where a function that forgets a chain fails: with the graph or the mean
left out of one sum, as the changelog records, the lemma of that function cannot
be proved, and `pages` finds the overlap.

Of the rewrites it proves, for every kind of index, any rows, page capacities
and number of rewrites:

- `RewriteInvariant`: `Spec => []RewriteInv`;
- `FileAlwaysSound`: `Spec => []FileSound`.

`FileSound` speaks of the image the meta page stands for; what makes it true
after the next meta page is about the image *being written*, and `RewriteInv`
says it.  `MetaSound` ties each meta page to its image: the chains have room for
it and lie apart.  `WritesSound`: every item of the new image is in its place or
in a page still to be written, and every such page holds all the items that
belong on its block, so that skipping an unchanged page loses nothing.
`OnlyAdds` (while a rewrite is not `risky`): those pages also hold what the old
image has there.  For VACUUM's slot copies, `CopiesSound`: after `x` copies each
column is that of the rows left after so many of the dead slots; since the dead
slots descend, the slot a row is copied from is never one that is dead or
written already.  What `RowsLeft` computes recursively is got by induction.

`RelfileReaders_proofs` proves, from `ReadersAssumption` (the kind is IVF, and
what other chains' bytes are read as is no number and no bit: the worst case, in
which garbage matches nothing) and `RewriteInv`, which a scan's steps leave
alone:

- `ReadersInvariant`: `ReadersSpec => [](RewriteInv /\ ReadersInv)`;
- `CopiesAreImages`: `ReadersSpec => []CurrentCopyIsImage`;
- `CalmScansComplete`: `ReadersSpec => []CalmScanComplete`.

For the first, `InstallSound`: as long as no new meta page was written since the
install began (`stale`), what it has read is of the image of now; if one was, the
copy is stored under a version that is gone.  For the other, `CalmScan`: while
rewrites only append or set bits, the chains a scan reads keep their places, its
old meta page is a prefix of the one of now (`Within`), columns read are prefixes
of the image's (`CalmInstall`, `CalmCopy`), and each row that is wanted has a
slot of its own (`IdsApart`) that it keeps through all of this and that no page
the scan may read marks dead (`SlotKept`, `SlotRead`).  A page written by the
rewrite in progress can be read before or after the meta page that names it: the
lemmas `PageCalm`, `MetaCalm` and `BeginCalm` are where that matters.

### The cache

`BackendCache_proofs` proves, from `BytesAssumption` (sizes are numbers), for any
number of indexes of any sizes and any caps:

- `CacheHoldsUnflushed`: `CacheSpec => []CopiesSound`;
- `CacheStaysWithinCap`: `CacheSpec => WithinCap`;
- `InsertsVanishOnlyWhenPinned`: `CacheSpec => VanishesOnlyWhenPinned`.

`CopiesSound` is inductive with `DirtyIsMutable`: were a dirty entry read-only,
the next insert would load a fresh copy over it and its rows would be gone; a
scan that hits one must leave the flag alone, and does.  The lemmas describe what
each operation leaves as a *set* of entries, which suffices because no two
entries are of one index.  Sizes and order matter to eviction only: a filter
keeps the order (`KeptIs`), never adds to the total (`TotalKept`), and the loop
of `enforce_cap` stops at the first position that meets its condition
(`LoopEnds`).  That a copy just loaded survives unless something pins the cache
(`NewcomerKept`) is because it is the last candidate, and the loop stops while
one entry is left.

The other properties of that cache are about one index and are in
`DeferredFlush_proofs`.

### The slots

`SlotTable_proofs` proves, from `NobodyAssumption` and
`FiniteAssumption` (TIDs and vectors are finitely many, as in any table, so that
rows can be listed and counted), for every kind of index, any number of
backends, TIDs and vectors, any bound on the rows behind the cells, and a
swap-remove that may be stopped or not:

- `SlotsInvariant`: `Spec => []SlotsInv`;
- `SlotsAlwaysSound`: `Spec => []SlotsSound`;
- `CurrentCopies`: `Spec => []CurrentCopyIsRelfile`;
- `OnlyTornIsRefused`: VACUUM gives up a swap-remove because an id would be in
  two slots (`VacuumRefused`) only if one was stopped half way before.

`SlotsSound` says where live rows are in states at rest and that they are
somewhere in all.  It is not inductive: what keeps a live row while slots are
being moved is that the slots VACUUM will leave hold it already, and what puts it
there is the copy of whoever inserted it.  `SlotsInv` is the conjunction of

- `TuplesOwned`: an uncommitted tuple has an owner;
- `WrittenKept`: a row that was written is, with its vector, in an unmasked slot
  that the swap-remove in progress leaves.  It holds after a stop, too;
- `SlotsOwned`: unless a swap-remove was stopped, no such slot names a TID that
  is free or has another's vector;
- `NoTwins`: no id is in two slots while the index has neither cells nor bits, or
  some backend has a copy.  For a copy is loaded as a map from ids to slots;
- `CopiesOfOwners`: a copy has each of its backend's unflushed rows, once, and
  its touched ids are just those;
- `SwapRemoveSound`: the slots still to be filled descend and are, of the slots
  left, just those of dead rows;
- `CurrentCopyIsRelfile`: a clean copy under the version on disk is the relfile.

There is a lemma per action.  Four operations need more than their definitions:

- *The splice.*  `reconcile_flush_image` walks the touched ids and overwrites or
  appends; the model computes it as a recursive function.  `SplicesAreReconciled`
  shows by induction that after any part of the walk the slots written before
  stay or are overwritten by the copy's row of the same id, that each id done has
  a slot, and that no id gets two.  `FlushKeepsRows` follows: another writer's rows
  are left alone because the touched ids are pending and the others' are not.
- *The swap-remove.*  `DeadSlotsDescend` says that the sorted dead slots descend;
  then the last slot left is either the one to be filled or not dead, so that a
  move never copies a dead row (`NextMove`) and never uncovers the only slot of a
  live one (`VacuumMoveStep`).  In ascending order both fail.
- *The layout of cells.*  `LayoutIs`: rows listed cell after cell, in as many cells
  as each is assigned to, are all there, each with its vector.
- *REINDEX* lists the rows of the heap (`ListingIs`, `LiveRowsAre`), and what it
  writes has nothing of the slots before.

### The scan

`IndexScans_proofs` proves of `ScanRefill`, from `RowAssumption` (finitely many rows),
`ArmsAssumption`, `BoundsAssumption` and `SettingsAssumption` (a `k`, a number of
probes and a limit are at least 1, as the GUCs have it), for every kind of handle,
any cells, tombstones, allowlists and settings, and any changes of the settings
between two calls:

- `ScanInvariant`: `Spec => []ScanInv`;
- `ReturnedRight`: `Spec => []RowsReturnedRight`;
- `ScanComplete`: `Spec => []ScanIsComplete`.

`ScanInv` adds to the types: what was returned is the part of the batches before
the cursor (`CursorRight`); the rows behind it are as good: each is live and
allowed, and none comes more often than it has slots (`BatchRight`); the last
search went through cells if the handle has any, as many as it was told, and if
its `k` was for all slots the batches have every row it could reach
(`LastSearch`); and a scan that has ended has nothing wider left to ask for
(`EndIsExhausted`).  A search is any top `k` of what it may look at
(`FlatSearchIs`, `SearchIs`), so that nothing depends on the scores.  Cells are
chosen by a number; `AllCells` says that all cells is what the largest number
gives.

### Options and settings

`IndexScans_proofs` proves of `IndexSettings`, from `InstallationAssumption` (what
values options, settings and rows can have at all), for any set of options, any
defaults, number of sessions and statements, tables with and without a log, and
an index left by the release before:

- `RowsIndexed`: `SettingsSpec => []CommittedRowsIndexed`;
- `CostAlwaysOfTheScan`: `SettingsSpec => []CostIsOfTheScan`;
- `OneReadingSuffices`: with `OneReading`, `SettingsSpec => []ReadAsWritten`.

The run checks the three, as `SettingsAreKept`, for a column of vectors and one
of documents; both instances meet the two assumptions, which TLC evaluates.

`RowsInv`: a row of an open transaction is in the relfile or in a copy that its
commit flushes, and a copy has all it says was touched.  `SettingsType` adds to
the types that who holds a changed copy holds a lock on the table (`OpenCopies`),
so that no rebuild comes between the copy and its flush.

`CostInv`: a graph has no cells, or its cells are degraded.  A scan of a graph
has no cells to look at, and the cost is not told the kind; so this is what keeps
the two together.  It rests on `amoptions` refusing `graph` with `lists`.

`ReadInv`, for a width `W` and a dimension `D`: unless it is a 1-bit one, the
index and the init fork are of width `W` as are the options; its codes are of its
own dimension and width; every changed copy has the dimension `D` and the width
`W` in its key and its codes.  Hence the strides of a flush agree (`FlushReads`).
`OneReading` leaves out just what makes `ReadAsWritten` false: an index whose
width comes from a setting that can change (`settings_width`), a relfile of the
release before (`settings_upgrade`), `ALTER INDEX` between two widths above 1,
and rows of two dimensions.

### The SQL functions

`SqlFunctions_proofs` has the theorems of five small modules.  Each property is
in its inductive invariant.

- `OperandsRight` (`OperandInv`): a slot keeps the norm of the vector it holds,
  and the pointer it was fetched by still leads to that vector.  An OID used
  again for another vector would break the latter; it is in `seen` until the
  execution ends, and the slots go with it.
- `RefreshesGoOn`, `PickedRight` (`RouteInv`): a refresh goes through the
  partitions in the order of their names (`InOrder`), and deletes the rows of the
  summary in the order of the scan (`RowsRight`), each by one session
  (`Exclusive`).  While names differ and no refresh was committed under another's
  DELETE, inserting sessions wait for inserting ones only, further on by name, and
  deleting ones for ones further on in the scan, or past it.  So, of any number of
  sessions, the one that has come furthest waits for none: of those that insert if
  there are any (`NoneInserts`), else of those that delete (`NoCircle`).  That all
  scans of the summary have one order is an assumption of the model.  A refresh
  nothing disturbed is alone (`Alone`), deletes the
  rows that are committed and has the means due of all partitions but those left
  (`CalmRight`); so what it commits is the summary due.  That `rank_nearest` then
  returns the nearest needs its comparison to be a total order for each metric,
  with means that are zero or missing; the sorted list exists and is the only
  one.
- `KnnRight` (`KnnInv`): from `AskedAssumption` (an id column has no value
  twice) and the others of the module, for any id columns, settings, scores,
  number of candidates and error of the codes.  While rows are only added and the
  table rewritten, the table has what a current entry and the call have seen
  (`EntryRight`, `CallRight`).  A `Fit` entry with the relfilenode and the row count of
  the call therefore has the call's rows: a part of a finite set with as many
  elements (`HitIsRight`).  The candidates it gives are fetched under the column
  they were stored under, so they are all reranked, and a row that is no candidate
  is better than none of them by more than the codes err (`RerankedIsNearest`).
  Of an entry that is not fit only the first half is left: what is reranked is read
  from the table (`RerankedIsThere`).
- `ColbertRight` (`DocInv`): stage 2 reads the table's own tokens, so little has
  to be remembered; the work is in `MaxSim`, whose best match per token and sum
  over the tokens are those of the property's definition.
- `SerialAlways` (`AggInv`): there is an assignment of the rows scanned so far
  to processes (`Divided`) under which the state of each is the sum and number of
  the rows it took, and that of the leader the one of the rows of the processes
  it has heard of.  A sum over a part of the rows is defined by recursion
  (`PartSum`); `PartSumBoth` says that those of two disjoint parts add up.

These proofs had to change the model in one place: `Before`, the comparison of
`rank_nearest`, was a CASE in which two distances that are both NaN met two
guards, so that its value was whichever TLC came to first.  It is now an IF, in
the order of the code, and so are the other definitions that could overlap.

### Induction

`DataInduction_proofs` has the lemmas on data that the others rest on; they say
nothing of the code.  It derives induction over the naturals from the
well-foundedness of their order, with the hypothesis as a *set*
(`SetInduction`): the library's theorem takes it as an operator, which the
provers cannot instantiate.  `RelfilePages_proofs` uses it for `RowsLeft` and
for the dead slots in order, `SlotTable_proofs` for the splice and the layout of
cells, `SqlFunctions_proofs` for sums and sorted lists.  From it, `Recursion` says that a function defined
by recursion over `0 .. n` exists and meets its equations, and with that `Kept`
and `Total` are what their names say (`KeptRecursion`, `KeptIs`,
`TotalRecursion`).

### Model-checked only

- Liveness (`ScanEnds`), which with fairness and ENABLED is outside the prover.
- What is built on RECURSIVE operators, outside it too: `GreedySearch`, with it
  `VamanaGraph` and `IndexBuild`'s walk over the centroid graph.  So the graph
  kind's own structure (`GraphSound`, `SearchIsSound`, `StoredGraphIsWhole`) and
  what a build stores (`RowsAreFound`, `OocIsWhole`, `ProbeIsNearest`) stay with
  TLC, while the graph's rows and slots are in `SlotsInvariant`.
- The training of the cells (`CellsAreTrained`, `TrainingDescends`), the merge of
  a search (`SearchIsRight`), casts (`TypesAgree`) and damage (`HealthIsTold`).
- `BestTokenDocFound`: it depends on `CandidateN` and `K` being at least
  `PerTokenK` for each token of the query, as the run has them, which the code
  leaves to its caller.

## What is not modelled

- *Write path:* TRUNCATE and INSERT in one transaction; PREPARE TRANSACTION (the
  code registers no callback for it and says so); an error in the second of two
  flushes of one PreCommit.
- *Relfile:* the bytes of the meta page; calibration chains, which nothing writes
  today; `am_version` saturating at 2^32.
- *Cache:* how a size is computed, which for an out-of-core entry is not its rows'.
- *turbovec.knn():* the allow list, more than one result, vectors of another
  dimension, an id column with a value twice.
- *Partition routing:* a scan of the summary whose order differs from another's;
  HOT chains of it.
- *Planner:* the arithmetic of the cost; which scan is costed is in
  `IndexSettings`.  Settings that only log.
- *Maintenance:* JSON, dumps for debugging, the count of zero vectors.
- *Types:* parsing character by character, comparison for btree, `normalize()`;
  which SIMD instructions compute a kernel.  A race of threads has nothing to
  bite on there: kernels are pure.
- *Quantization:* the turbovec crate.  What it is relied on for (the best slots of
  a mask, the better first) is marked external.
- *Registration and the `pg_test` suite* in `src/lib.rs`, a third of the source's
  lines, which hold no behaviour of their own.

`PROJECT.json` lists the hazards with the properties that watch them; those
without one carry the reason.

## Plan

Done: every module of the table above.  Of the earlier plan, immediate inserts
are in `SlotTable`, the rows behind the cells in `SlotTable` and `IndexBuild`,
out-of-core scans in `RelfileReaders`, `HandleSearch` and `IndexBuild`, the
centroid graph in `IndexBuild`, ColBERT in `ColbertSearch`.

Left, most important first:

1. `DeferredFlushTruncate`: `DeferredFlush` with INSERT and TRUNCATE in one
   transaction, and its commit, abort and crash.
2. `MultiFlush`: several dirty indexes in one PreCommit, an error in the second.
3. `RelfileReaders` for the 1-bit and graph kinds, whose scans read other chains.

Proofs, in the order of what they add: the merge of `HandleSearch`; the sums and
the descent of `KMeansTraining`; the build, once the walk over the centroid graph
is a recursive function.
