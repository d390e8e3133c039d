----------------------------- MODULE HandleSearch -----------------------------
(***************************************************************************)
(* One search of a cached handle: how many candidates are asked for, which *)
(* slots are looked at, how the rows are scored, how the out-of-core path  *)
(* splits them over the threads of the backend's pool and merges what they *)
(* found.  ScanRefill takes its answer to be a top k of the live slots it  *)
(* looks at; here it is computed.                                          *)
(*                                                                         *)
(* A row's code is its bit planes: plane p holds the coordinates whose     *)
(* level has bit p.  The 1-bit kind has plane 0 only, the signs of the     *)
(* centred vector.  The kernel's search (turbovec) is external: it returns *)
(* the best slots of its mask, the better first; between equal scores it   *)
(* may take either.                                                        *)
(***************************************************************************)
EXTENDS Integers, Sequences, SequencesExt, FiniteSets, FiniteSetsExt, Folds

CONSTANTS
  Dims,         \* 1 .. dim
  Levels,       \* [0 .. 2^w - 1 -> Int], the codebook
  Handles,      \* the handles considered, see HandleType
  Queries,      \* [vec, user, oversample (in halves), mode, cells, allow]
  NoAllow,      \* no allowlist
  Threads,      \* values of scan_parallelism
  ChunkFloor,   \* MIN_ROWS_PER_SCAN_CHUNK: at least 1
  Spare,        \* slots a 1-bit search looks at beyond k, when some are dead
  HiDim, RerankFloor, RerankCap, Multiplier,  \* of hi_dim_rerank
  MaxSearches   \* bound: searches of a session

VARIABLES
  handle,    \* ScanHandle: arm, the rows in slot order, the sizes of the cells,
             \* the tombstoned slots, the mean
  parallel,  \* turbovec.scan_parallelism
  pool,      \* threads of SCAN_POOL, 0 before there is one
  search,    \* the search under way or just done
  searches

N == Len(handle.rows)
Slots == 0 .. N - 1
RowAt(s) == handle.rows[s + 1]
Width == IF handle.arm = "Bq" THEN 1 ELSE 2

-----------------------------------------------------------------------------
(* Settings.                                                               *)

CeilHalf(x) == (x + 1) \div 2

Clamp(x, lo, hi) == IF x < lo THEN lo ELSE IF x > hi THEN hi ELSE x

UserCount(q) == CeilHalf(q.user * q.oversample)

\* hi_dim_rerank_candidate_count: a 1-bit index counts as high-dimensional.
CandidateCount(q) ==
  LET wide == q.mode = "on" \/ (q.mode = "auto" /\ (Width = 1 \/ Cardinality(Dims) >= HiDim))
  IN  IF wide THEN Max({UserCount(q), Clamp(UserCount(q) * Multiplier, RerankFloor, RerankCap)})
      ELSE UserCount(q)

\* amgettuple: no more than there are slots.
K(q) == Max({Min({CandidateCount(q), N}), 1})

\* scan_threads: 0 stands for 1.
ScanThreads == IF parallel > 0 THEN parallel ELSE 1

\* cap_scan_chunks
ScanChunks(n) == Max({Min({ScanThreads, n \div ChunkFloor}), 1})

-----------------------------------------------------------------------------
(* Scores.                                                                 *)

Sum(f) == FoldFunction(LAMBDA a, b : a + b, 0, f)

Level(code, d) == Sum([p \in 0 .. Width - 1 |-> IF d \in code[p] THEN 2^p ELSE 0])

\* The kernel: the dot product with the decoded row, times the row's scale.
KernelScore(q, s) == RowAt(s).scale * Sum([d \in Dims |-> q[d] * Levels[Level(RowAt(s).code, d)]])

\* GraphScorer::new: query coordinate times codebook level, once per query.
Lut(q) == [dc \in Dims \X DOMAIN Levels |-> q[dc[1]] * Levels[dc[2]]]

\* score_one: the code of each coordinate gathered from the planes.
ScoreOne(lut, s) ==
  LET Code(d) == Sum([p \in 0 .. Width - 1 |-> IF d \in RowAt(s).code[p] THEN 2^p ELSE 0])
  IN  RowAt(s).scale * Sum([d \in Dims |-> lut[<<d, Code(d)>>]])

ScoreBatch(q, slots) ==
  LET lut == Lut(q) IN [i \in DOMAIN slots |-> ScoreOne(lut, slots[i])]

\* hamming of the centred query's signs and the row's.
Center(v) == [d \in Dims |-> v[d] - handle.mean[d]]
PackSigns(v) == {d \in Dims : v[d] > 0}
Hamming(a, b) == Cardinality((a \ b) \cup (b \ a))

SlotScore(q, s) ==
  IF handle.arm = "Bq" THEN -Hamming(PackSigns(Center(q)), RowAt(s).code[0])
  ELSE KernelScore(q, s)

-----------------------------------------------------------------------------
(* Searches.                                                               *)

\* turbovec's search of the rows S for the best k: any order that is right.
KernelTop(Score(_), S, k) ==
  LET m == Min({k, Cardinality(S)})
  IN  {r \in [1 .. m -> S] :
         /\ \A i, j \in 1 .. m : i # j => r[i] # r[j]
         /\ \A i \in 1 .. m, s \in S : Score(s) > Score(r[i]) => \E j \in 1 .. i - 1 : r[j] = s}

\* score_slots: a masked search for as many as the mask has, put back in the
\* order asked.
ScoreSlots(q, slots) ==
  LET Of(s) == KernelScore(q, s)
      found == CHOOSE r \in KernelTop(Of, ToSet(slots), Len(slots)) : TRUE
      bySlot == [s \in ToSet(found) |-> Of(s)]
  IN  [i \in DOMAIN slots |-> bySlot[slots[i]]]

\* topk_hamming_slots: a bounded heap, the lower slot first on a tie.
TopkHamming(q, S, k) ==
  SubSeq(SortSeq(SetToSeq(S), LAMBDA a, b : \/ SlotScore(q, a) > SlotScore(q, b)
                                            \/ SlotScore(q, a) = SlotScore(q, b) /\ a < b),
         1, Min({k, Cardinality(S)}))

Want(k) == IF handle.dead = {} THEN k ELSE Min({Max({2 * k, k + Spare}), N})

\* BqIndex::search_slots: dead slots are dropped from a wider search.
BqSearch(q, k, S) ==
  LET want == Want(k)
      live == SelectSeq(TopkHamming(q, S, want), LAMBDA s : s \notin handle.dead)
  IN  SubSeq(live, 1, Min({k, Len(live)}))

-----------------------------------------------------------------------------
(* The slots looked at.                                                    *)

Start(c) == FoldLeft(LAMBDA a, b : a + b, 0, SubSeq(handle.cells, 1, c - 1))
CellRows == Min({FoldLeft(LAMBDA a, b : a + b, 0, handle.cells), N})
Range0(a, b) == [i \in 1 .. b - a |-> a + i - 1]

\* search_ooc's ranges: each probed cell once, in the order probed, and the
\* append region behind the cells.
Ranges(cells) ==
  LET first == SelectSeq([i \in DOMAIN cells |-> <<i, cells[i]>>],
                         LAMBDA x : \A j \in 1 .. x[1] - 1 : cells[j] # x[2])
  IN  [i \in DOMAIN first |->
         <<Start(first[i][2]), Min({Start(first[i][2]) + handle.cells[first[i][2]], N})>>]
        \o (IF CellRows < N THEN <<<<CellRows, N>>>> ELSE <<>>)

\* The live runs of the ranges: the global slot of each compact slot.
Gather(cells) ==
  LET rs == Ranges(cells)
  IN  SelectSeq(FlattenSeq([i \in DOMAIN rs |-> Range0(rs[i][1], rs[i][2])]),
                LAMBDA s : s \notin handle.dead)

\* probe_mask, apply_tombstones, apply_allowlist.
AllowMask(allow) == IF allow = NoAllow THEN Slots ELSE {s \in Slots : RowAt(s).id \in allow}
ProbeMask(cells) ==
  {s \in Slots : s >= CellRows \/ \E i \in DOMAIN cells :
      Start(cells[i]) <= s /\ s < Start(cells[i]) + handle.cells[cells[i]]}
Mask(q) == (ProbeMask(q.cells) \ handle.dead) \cap AllowMask(q.allow)

-----------------------------------------------------------------------------
NoSearch == [stage |-> "none"]

HandleInit ==
  /\ handle \in Handles
  /\ parallel \in Threads
  /\ pool = 0 /\ search = NoSearch /\ searches = 0

\* SET turbovec.scan_parallelism
SetParallel(t) ==
  /\ search.stage \in {"none", "done"} /\ t # parallel
  /\ searches \in 1 .. MaxSearches - 1
  /\ parallel' = t
  /\ search' = NoSearch
  /\ UNCHANGED <<handle, pool, searches>>

\* Mutant: the pool of the first scan is kept for every later one.
PoolForOnce(t) == IF t <= 1 \/ pool # 0 THEN pool ELSE t

\* scan_pool_with: rebuilt when the size asked for is another one; a search by
\* one thread is run on a pool of its own.
PoolFor(t) == IF t <= 1 THEN pool ELSE t

Done(q, k, slots, threads) ==
  search' = [stage |-> "done", q |-> q, k |-> k, threads |-> threads,
             score |-> [i \in DOMAIN slots |-> SlotScore(q.vec, slots[i])],
             ids |-> [i \in DOMAIN slots |-> RowAt(slots[i]).id]]

\* The flat 1-bit scan leaves the tombstones to the handle.
BqSlots(q) == IF handle.cells = <<>> THEN AllowMask(q.allow) ELSE Mask(q)

\* ScanHandle::search and search_masked: the whole index, on the bounded pool.
WholeSearch(q) ==
  LET k == K(q)
      Of(s) == KernelScore(q.vec, s)
      threads == IF ScanThreads = 1 THEN 1 ELSE PoolFor(ScanThreads)
  IN  /\ pool' = PoolFor(ScanThreads)
      /\ \/ handle.arm = "Bq" /\ Done(q, k, BqSearch(q.vec, k, BqSlots(q)), threads)
         \/ handle.arm = "ReadOnly" /\ \E r \in KernelTop(Of, Mask(q), k) : Done(q, k, r, threads)

\* The contiguous chunks of n compact rows for t threads: first row and end.
Bounds(n, t) ==
  LET size == (n + t - 1) \div t
  IN  [i \in 1 .. (n + size - 1) \div size |-> <<(i - 1) * size, Min({i * size, n})>>]

\* search_ooc up to the fine scan.
OocGather(q) ==
  LET compact == Gather(q.cells)
      t == ScanChunks(Len(compact))
  IN  /\ handle.arm = "Ooc"
      /\ \/ compact = <<>> /\ Done(q, K(q), <<>>, 1) /\ pool' = pool
         \/ /\ compact # <<>>
            /\ pool' = PoolFor(t)
            /\ search' = [stage |-> "scan", q |-> q, k |-> K(q),
                          threads |-> IF t = 1 THEN 1 ELSE pool', compact |-> compact,
                          bounds |-> Bounds(Len(compact), t), local |-> <<>>]

Search ==
  /\ search.stage \in {"none", "done"} /\ searches < MaxSearches
  /\ searches' = searches + 1
  /\ \E q \in Queries : WholeSearch(q) \/ OocGather(q)
  /\ UNCHANGED <<handle, parallel>>

\* From a chunk's slot to the compact slot.
Lift(slot, b) == slot + b[1]

\* search_compact_chunk: the best k of the chunk's allowed rows, as pairs of
\* score and compact slot.
ChunkTops(b) ==
  LET Global(i) == search.compact[b[1] + i + 1]
      Score(i) == KernelScore(search.q.vec, Global(i))
      allowed == {i \in 0 .. b[2] - b[1] - 1 : Global(i) \in AllowMask(search.q.allow)}
  IN  {[j \in DOMAIN top |-> <<Score(top[j]), Lift(top[j], b)>>] :
         top \in KernelTop(Score, allowed, search.k)}

Scanned == DOMAIN search.local

\* One thread of the pool finishes one chunk.
OocScan(c) ==
  /\ search.stage = "scan" /\ c \in DOMAIN search.bounds \ Scanned
  /\ \E top \in ChunkTops(search.bounds[c]) : search' = [search EXCEPT !.local = (c :> top) @@ @]
  /\ UNCHANGED <<handle, parallel, pool, searches>>

\* Mutant: the lists are put one behind the other.
MergeTopkConcat(local, k) ==
  LET pairs == FlattenSeq([c \in 1 .. Cardinality(DOMAIN local) |-> local[c]])
  IN  SubSeq(pairs, 1, Min({k, Len(pairs)}))

\* merge_topk: best score first, then the lower slot.
MergeTopk(local, k) ==
  LET pairs == FlattenSeq([c \in 1 .. Cardinality(DOMAIN local) |-> local[c]])
  IN  SubSeq(SortSeq(pairs, LAMBDA a, b : a[1] > b[1] \/ (a[1] = b[1] /\ a[2] < b[2])),
             1, Min({k, Len(pairs)}))

\* The end of search_ooc: compact slots to global slots to ids.
OocMerge ==
  /\ search.stage = "scan" /\ Scanned = DOMAIN search.bounds
  /\ LET top == MergeTopk(search.local, search.k)
     IN  search' = [stage |-> "done", q |-> search.q, k |-> search.k, threads |-> search.threads,
                    score |-> [i \in DOMAIN top |-> top[i][1]],
                    ids |-> [i \in DOMAIN top |-> RowAt(search.compact[top[i][2] + 1]).id]]
  /\ UNCHANGED <<handle, parallel, pool, searches>>

HandleNext ==
  \/ \E t \in Threads : SetParallel(t)
  \/ Search
  \/ \E c \in 1 .. Max(Threads \cup {1}) : OocScan(c)
  \/ OocMerge

-----------------------------------------------------------------------------
(* Properties.                                                             *)

\* The cell a slot is in, 0 behind the cells.
CellOf(s) ==
  LET In(c) == FoldLeft(LAMBDA a, b : a + b, 0, SubSeq(handle.cells, 1, c)) > s
  IN  IF \E c \in DOMAIN handle.cells : In(c) THEN Min({c \in DOMAIN handle.cells : In(c)}) ELSE 0

\* The live rows a scan of these cells is about.
InReach(q) ==
  {s \in Slots \ handle.dead : /\ CellOf(s) = 0 \/ CellOf(s) \in ToSet(q.cells)
                               /\ q.allow = NoAllow \/ RowAt(s).id \in q.allow}

\* Whichever handle answers, however many threads scanned and in whatever order
\* they finished, a search returns the best of the live rows in its reach, each
\* once, with its own id and score, the best first, and not fewer than the user
\* asked for if there are so many.  (A flat 1-bit scan that passes over more
\* tombstones than it looked further may return fewer.)
AnswerIsTop ==
  search.stage = "done" =>
    LET q == search.q
        found == {s \in Slots : RowAt(s).id \in ToSet(search.ids)}
        enough == Min({search.k, Cardinality(InReach(q))})
        short == handle.arm = "Bq" /\ handle.cells = <<>>
                   /\ Cardinality(handle.dead) > Want(search.k) - search.k
    IN  /\ IsInjective(search.ids) /\ found \subseteq InReach(q)
        /\ Len(search.ids) <= enough
        /\ short \/ (/\ Len(search.ids) = enough
                     /\ enough >= Min({UserCount(q), Cardinality(InReach(q))}))
        /\ \A s \in found, t \in InReach(q) \ found : SlotScore(q.vec, s) >= SlotScore(q.vec, t)
        /\ \A i, j \in DOMAIN search.ids : i < j => search.score[i] >= search.score[j]
        /\ \A i \in DOMAIN search.ids, s \in found :
             RowAt(s).id = search.ids[i] => search.score[i] = SlotScore(q.vec, s)

\* The graph walk's scorer, which reads the planes itself, and the masked search
\* it replaced give a batch of slots the kernel's scores, in the order asked.
ScoresAgree ==
  handle.arm = "ReadOnly" /\ search.stage = "done" =>
    LET batch == Reverse([i \in 1 .. N |-> i - 1])
        q == search.q.vec
    IN  /\ ScoreBatch(q, batch) = [i \in 1 .. N |-> KernelScore(q, batch[i])]
        /\ ScoreSlots(q, batch) = ScoreBatch(q, batch)

\* A search runs on no more threads than the setting of its time allows.
ThreadsAsSet == search.stage # "none" => search.threads <= ScanThreads
==============================================================================
