---------------------------- MODULE RelfilePages ----------------------------
(***************************************************************************)
(* The pages of a relfile and the order in which a rewrite changes them.   *)
(*                                                                         *)
(* A rewrite plans a layout, extends the file, writes the chains page by   *)
(* page, then the meta page, then truncates the file.  Every page is       *)
(* WAL-logged as it is written and stays written when the rewrite is       *)
(* stopped, by a cancel or by a crash.  VACUUM writes the tombstones alone *)
(* or moves single slots of a flat index.  All of it happens under the     *)
(* exclusive rewrite lock: there is one rewrite at a time, and no reader   *)
(* that takes the shared lock meanwhile.                                   *)
(*                                                                         *)
(* Blocks are numbered as in the file; the meta page (block 0) is a        *)
(* variable of its own.  A WAL record covers one page here and a batch of  *)
(* them in write_chain_at.  The calibration chain is empty, as in every    *)
(* index built today.                                                      *)
(***************************************************************************)
EXTENDS ChainLayout, Sequences, SequencesExt

CONSTANTS
  Kinds,       \* kinds of index considered
  Id, Vec,     \* heap TIDs; vectors
  PerPage,     \* rows or items of each chain that a page holds
  MaxDelta,    \* turbovec.ivf_max_delta_pct
  MaxJobs      \* bound on the rewrites

ASSUME KindsAssumption == Kinds \subseteq {"flat", "ivf", "graph", "bq", "bqivf"}
ASSUME PerPageAssumption == PerPage \in [Chain -> Nat \ {0}]
ASSUME BoundsAssumption == MaxDelta \in Nat /\ MaxJobs \in Nat

VARIABLES
  kind,     \* the kind of the index, fixed when it is created
  meta,     \* the meta page
  disk,     \* the blocks from block 1 on
  image,    \* ghost: the rows and bits the meta page stands for
  job,      \* the rewrite in progress
  hurt,     \* history: a rewrite that moved or changed rows was stopped
  jobs      \* how many rewrites have begun

vars == <<kind, meta, disk, image, job, hurt, jobs>>

-----------------------------------------------------------------------------
(* Images and what their chains hold.                                      *)

Row == [id : Id, vec : Vec]
Image == [rows : Seq(Row), tomb : Seq(BOOLEAN), cells : Nat]

OneBit == kind \in {"bq", "bqivf"}
Only(c, s) == IF c THEN s ELSE <<>>

\* The graph's items are its nodes, any of which an insert can change.  The mean
\* is that of an index whose dim is not pinned: absent without rows.
Content(img) ==
  LET n    == Len(img.rows)
      vecs == [i \in 1 .. n |-> img.rows[i].vec]
  IN  [[c \in Chain |-> <<>>] EXCEPT
         !["codes"]  = vecs,
         !["scales"] = Only(~ OneBit, vecs),
         !["ids"]    = [i \in 1 .. n |-> img.rows[i].id],
         !["mean"]   = Only(OneBit /\ n > 0, <<0>>),
         !["coarse"] = Only(img.cells > 0, <<img.cells>>),
         !["dir"]    = Only(img.cells > 0, <<img.cells>>),
         !["graph"]  = Only(kind = "graph", [i \in 1 .. n |-> n]),
         !["tomb"]   = img.tomb]

LayoutOf(img) ==
  LET n == Len(img.rows)
      held == Content(img)
      pages == [c \in Chain |-> PagesNeeded(Len(held[c]), PerPage[c])]
  IN  IF OneBit
      THEN BqLayout(n, PerPage, pages["mean"], pages["coarse"], pages["dir"],
                    pages["tomb"])
      ELSE FullLayout(n, PerPage, 0, pages["coarse"], pages["dir"],
                      pages["graph"], pages["tomb"])

\* A meta page: the layout, and the length of each chain.
MetaFor(img, at) ==
  LET held == Content(img)
  IN  [at |-> at, len |-> [c \in Chain |-> Len(held[c])]]

-----------------------------------------------------------------------------
(* Pages.                                                                  *)

ZeroPage == [chain |-> "none", data |-> <<>>]

\* Block and place within it of item i of chain c.
BlockOf(at, c, i) == at[c].first + (i - 1) \div PerPage[c]
PlaceOf(c, i) == ((i - 1) % PerPage[c]) + 1

\* read_chain: by first block and length, whatever blocks are allocated.
HasItem(d, at, c, i, v) ==
  LET b == BlockOf(at, c, i)
  IN  /\ b \in DOMAIN d /\ d[b].chain = c
      /\ PlaceOf(c, i) \in DOMAIN d[b].data
      /\ d[b].data[PlaceOf(c, i)] = v

\* What a reader gets through the meta page is this image.
Reads(d, m, img) ==
  LET held == Content(img)
  IN  \A c \in Chain :
        /\ m.len[c] = Len(held[c])
        /\ \A i \in 1 .. m.len[c] : HasItem(d, m.at, c, i, held[c][i])

\* extend_to.
Extended(d, blocks) ==
  d \o [i \in 1 .. (IF blocks - 1 > Len(d) THEN blocks - 1 - Len(d) ELSE 0) |-> ZeroPage]

Lesser(a, b) == IF a < b THEN a ELSE b

\* write_chain_at: the pages of one chain.
PageWrites(img, at, c) ==
  LET all == Content(img)[c]
      per == PerPage[c]
  IN  [k \in 1 .. PagesNeeded(Len(all), per) |->
         [block |-> at[c].first + k - 1,
          page  |-> [chain |-> c,
                     data  |-> [j \in 1 .. Lesser(per, Len(all) - (k - 1) * per) |->
                                  all[(k - 1) * per + j]]]]]

AllWrites(img, at) ==
  PageWrites(img, at, "codes") \o PageWrites(img, at, "scales")
    \o PageWrites(img, at, "ids") \o PageWrites(img, at, "mean")
    \o PageWrites(img, at, "coarse") \o PageWrites(img, at, "dir")
    \o PageWrites(img, at, "graph") \o PageWrites(img, at, "tomb")

\* Mutant: a full page that holds the same chain is taken for unchanged.
UnchangedChain(d, w) ==
  d[w.block].chain = w.page.chain
    /\ Len(d[w.block].data) = PerPage[w.page.chain] /\ Len(w.page.data) = PerPage[w.page.chain]

\* A full page with these contents is not written again.
Unchanged(d, w) ==
  d[w.block].chain = w.page.chain
    /\ Len(w.page.data) = PerPage[w.page.chain] /\ d[w.block].data = w.page.data

Written(d, w) == IF Unchanged(d, w) THEN d ELSE [d EXCEPT ![w.block] = w.page]

\* A rewrite of an empty file.  No block is written twice.
DiskOf(img) ==
  LET at     == LayoutOf(img)
      writes == AllWrites(img, at)
      To(b)  == {k \in DOMAIN writes : writes[k].block = b}
  IN  [b \in 1 .. TotalBlocks(at) - 1 |->
         IF To(b) = {} THEN ZeroPage ELSE writes[CHOOSE k \in To(b) : TRUE].page]

-----------------------------------------------------------------------------
NoImage == [rows |-> <<>>, tomb |-> <<>>, cells |-> 0]
NoJob == [on |-> FALSE, writes |-> <<>>, copies |-> <<>>, meta |-> MetaFor(NoImage, NoChains),
          image |-> NoImage, limit |-> 0, risky |-> FALSE, named |-> FALSE]

Built(rows) ==
  [rows |-> rows, tomb |-> <<>>,
   cells |-> IF kind \in {"ivf", "bqivf"} THEN Len(rows) ELSE 0]

Injective(q) == \A i, j \in DOMAIN q : q[i] = q[j] => i = j
RowsOf(q, v) == [i \in DOMAIN q |-> [id |-> q[i], vec |-> v]]

\* A graph without rows is built as a flat index, and stays one.
Init ==
  /\ kind \in Kinds
  /\ \E n \in {0, 2, 3}, v \in Vec : \E q \in [1 .. n -> Id] :
       /\ Injective(q)
       /\ kind = "graph" => n > 0
       /\ image = Built(RowsOf(q, v))
  /\ meta = MetaFor(image, LayoutOf(image))
  /\ disk = DiskOf(image)
  /\ job = NoJob
  /\ hurt = FALSE
  /\ jobs = 0

TypeOK ==
  /\ image \in Image /\ Len(image.tomb) \in {0, Len(image.rows)}
  /\ image.cells <= Len(image.rows)
  /\ meta.at \in Layout /\ meta.len \in [Chain -> Nat]
  /\ ChainsDisjoint(meta.at)
  /\ job.on => job.limit = 0 \/ job.meta.at["ids"].first <= job.limit
  /\ hurt \in BOOLEAN /\ jobs \in 0 .. MaxJobs

-----------------------------------------------------------------------------
(* Beginning a rewrite.                                                    *)

\* Nothing rewrites the file and it can be read back: every rewrite starts by
\* reading the rows that are there.
Idle == ~ job.on /\ jobs < MaxJobs /\ Reads(disk, meta, image)

\* The rewrite only adds behind what is there: no chain moves or goes, and
\* each begins with what it holds now.
OnlyAdds(img, at) ==
  LET held == Content(image)
      new  == Content(img)
  IN  \A c \in Chain : meta.len[c] > 0 =>
        /\ at[c].first = meta.at[c].first
        /\ IsPrefix(held[c], new[c])

Begin(img, at, blocks, writes, copies, limit) ==
  /\ disk' = Extended(disk, blocks)
  /\ job' = [on |-> TRUE, writes |-> writes, copies |-> copies,
             meta |-> MetaFor(img, at), image |-> img, limit |-> limit,
             risky |-> ~ (OnlyAdds(img, at) /\ copies = <<>>), named |-> FALSE]
  /\ jobs' = jobs + 1
  /\ UNCHANGED <<kind, meta, image, hurt>>

\* Mutant: the file is cut where the ids end.
RewriteLimitIds(at) == at["ids"].first + at["ids"].count

\* write_full_inner truncates the file to its layout, write_full_bq_parts
\* leaves it as long as it is.
RewriteLimit(at) == IF OneBit THEN 0 ELSE TotalBlocks(at)

Rewrite(img) ==
  LET at == LayoutOf(img)
  IN  Begin(img, at, TotalBlocks(at), AllWrites(img, at), <<>>, RewriteLimit(at))

DeltaWithinBound(cells, n) ==
  MaxDelta > 0 /\ cells > 0 /\ n >= cells /\ (n - cells) * 100 <= cells * MaxDelta

Cleared(bits, s) == IF s \in DOMAIN bits THEN [bits EXCEPT ![s] = FALSE] ELSE bits
Padded(bits, n) == bits \o [i \in 1 .. n - Len(bits) |-> FALSE]

\* The bitmap of a rewritten image of n rows, slot s of which was overwritten.
\* The flush drops a bitmap without bits; the other paths carry it.
NewTomb(s, n) ==
  LET dropped == kind \in {"flat", "ivf"} /\ \A i \in DOMAIN image.tomb : ~ image.tomb[i]
  IN  IF image.tomb = <<>> \/ dropped THEN <<>>
      ELSE Padded(Cleared(image.tomb, s), n)

\* reconcile_and_write_flush, insert_bq_row, insert_graph_row: slot s (0 for
\* none) is overwritten and the rows with the ids q are appended.
Insert(s, q, v) ==
  LET over == IF s = 0 THEN image.rows ELSE [image.rows EXCEPT ![s].vec = v]
      rows == over \o RowsOf(q, v)
      n    == Len(rows)
  IN  /\ Idle
      /\ s # 0 \/ q # <<>>
      /\ n <= Cardinality(Id)
      /\ kind = "graph" => s = 0 /\ Len(q) = 1
      /\ OneBit => IF s = 0 THEN Len(q) = 1 ELSE q = <<>>
      /\ Rewrite([rows |-> rows, tomb |-> NewTomb(s, n),
                  cells |-> IF kind = "ivf" /\ DeltaWithinBound(image.cells, n)
                            THEN image.cells ELSE 0])

\* ivf_tombstone_dead, graph_tombstone_dead: the bitmap and the meta page.
VacuumTombstones(D) ==
  LET n    == Len(image.rows)
      bits == [i \in 1 .. n |-> i \in D \/ (i \in DOMAIN image.tomb /\ image.tomb[i])]
      img  == [image EXCEPT !.tomb = bits]
      at   == ResetTombstones(meta.at, PagesNeeded(n, PerPage["tomb"]))
  IN  /\ Idle /\ kind # "flat"
      /\ D # {} /\ \A i \in D : ~ (i \in DOMAIN image.tomb /\ image.tomb[i])
      /\ Begin(img, at, at["tomb"].first + at["tomb"].count,
               PageWrites(img, at, "tomb"), <<>>, 0)

\* The elements of a set of numbers in ascending order.
InOrder(S) ==
  CHOOSE q \in [1 .. Cardinality(S) -> S] : \A j, k \in DOMAIN q : j < k => q[j] < q[k]

Columns == <<"codes", "scales", "ids">>

\* For each dead slot in turn the last row that is left is copied over it, chain
\* by chain.  (Nothing is copied over itself; it would change nothing.)
Moves(n, dead) ==
  [x \in 1 .. 3 * Len(dead) |->
     [chain |-> Columns[((x - 1) % 3) + 1],
      from  |-> n - ((x - 1) \div 3), to |-> dead[((x - 1) \div 3) + 1]]]

\* The row that is last takes the place of row s.
SwapRemove(rows, s) ==
  [i \in 1 .. Len(rows) - 1 |-> IF i = s THEN rows[Len(rows)] ELSE rows[i]]

\* The rows that are left after k of the dead slots.
RowsLeft(rows, dead) ==
  LET left[k \in 0 .. Len(dead)] ==
        IF k = 0 THEN rows ELSE SwapRemove(left[k - 1], dead[k])
  IN  left

\* ambulkdelete of a flat index: the dead slots, the last one first.
VacuumFlat(D) ==
  LET n    == Len(image.rows)
      m    == Cardinality(D)
      dead == [k \in 1 .. m |-> InOrder(D)[m + 1 - k]]
      left == RowsLeft(image.rows, dead)[m]
  IN  /\ Idle /\ kind = "flat" /\ D # {}
      /\ Begin([image EXCEPT !.rows = left], ShrinkInPlace(meta.at, Len(left), PerPage),
               0, <<>>, Moves(n, dead), IdsEnd(meta.at, Len(left), PerPage))

-----------------------------------------------------------------------------
(* The steps of a rewrite.                                                 *)

WritePage ==
  /\ job.writes # <<>>
  /\ disk' = Written(disk, Head(job.writes))
  /\ job' = [job EXCEPT !.writes = Tail(@)]
  /\ UNCHANGED <<kind, meta, image, hurt, jobs>>

\* copy_slot_in_chain: item s.from of the chain goes over item s.to.
Copied(d, at, s) ==
  [d EXCEPT ![BlockOf(at, s.chain, s.to)].data[PlaceOf(s.chain, s.to)] =
     d[BlockOf(at, s.chain, s.from)].data[PlaceOf(s.chain, s.from)]]

CopySlot ==
  /\ job.copies # <<>>
  /\ disk' = Copied(disk, meta.at, Head(job.copies))
  /\ job' = [job EXCEPT !.copies = Tail(@)]
  /\ UNCHANGED <<kind, meta, image, hurt, jobs>>

\* Mutant: the meta page does not wait for the chains, as before v1.29.4.
ChainsWrittenOrNot == TRUE

ChainsWritten == job.writes = <<>> /\ job.copies = <<>>

\* write_meta.
WriteMeta ==
  /\ job.on /\ ~ job.named /\ ChainsWritten
  /\ meta' = job.meta
  /\ image' = job.image
  /\ job' = [job EXCEPT !.named = TRUE]
  /\ hurt' = FALSE
  /\ UNCHANGED <<kind, disk, jobs>>

\* RelationTruncate, and the end of the rewrite.
Finish ==
  /\ job.on /\ job.named /\ ChainsWritten
  /\ disk' = IF job.limit > 0 /\ Len(disk) + 1 > job.limit
             THEN SubSeq(disk, 1, job.limit - 1) ELSE disk
  /\ job' = NoJob
  /\ UNCHANGED <<kind, meta, image, hurt, jobs>>

\* A cancel, the end of the process, or a crash: what is written stays.
Stop ==
  /\ job.on
  /\ job' = NoJob
  /\ hurt' = (hurt \/ (job.risky /\ ~ job.named))
  /\ UNCHANGED <<kind, meta, disk, image, jobs>>

\* REINDEX builds a new file from the live rows.
Reindex ==
  LET live == {i \in DOMAIN image.rows : ~ (i \in DOMAIN image.tomb /\ image.tomb[i])}
      img  == Built([k \in 1 .. Cardinality(live) |-> image.rows[InOrder(live)[k]]])
  IN  /\ ~ job.on /\ jobs < MaxJobs
      /\ kind = "graph" => live # {}
      /\ image' = img
      /\ meta' = MetaFor(img, LayoutOf(img))
      /\ disk' = DiskOf(img)
      /\ hurt' = FALSE
      /\ jobs' = jobs + 1
      /\ UNCHANGED <<kind, job>>

Fresh == {i \in Id : \A k \in DOMAIN image.rows : image.rows[k].id # i}

Next ==
  \/ \E s \in 0 .. Len(image.rows), m \in 0 .. 2, v \in Vec :
       \E q \in [1 .. m -> Fresh] : Injective(q) /\ Insert(s, q, v)
  \/ \E D \in SUBSET DOMAIN image.rows : VacuumTombstones(D)
  \/ \E D \in SUBSET DOMAIN image.rows : VacuumFlat(D)
  \/ WritePage
  \/ CopySlot
  \/ WriteMeta
  \/ Finish
  \/ Stop
  \/ Reindex

Spec == Init /\ [][Next]_vars

-----------------------------------------------------------------------------
(* Properties.                                                             *)

\* Once the meta page of a rewrite is written, and until the next rewrite
\* changes a row or moves a chain, readers get exactly the image it stands
\* for: also while a rewrite that only adds is going on, and after it was
\* stopped at any page.  (write_full_inner's order of writes, the placement of
\* the chains, and the skipping of unchanged pages.)
ImageReadable ==
  (IF job.on THEN job.named \/ ~ (job.risky \/ hurt) ELSE ~ hurt)
    => Reads(disk, meta, image)

\* The chains a meta page names lie in this many blocks.
FitsIn(m, blocks) ==
  \A c \in Chain : m.len[c] > 0 =>
    m.at[c].first + PagesNeeded(m.len[c], PerPage[c]) <= blocks

\* No meta page ever names a page past the end of the file, so that read_chain
\* does not take the index for corrupt; whatever was stopped, and where.
\* (extend_to first, RelationTruncate last.)
MetaInFile == FitsIn(meta, Len(disk) + 1)

\* What holds of the file at every step of a rewrite.
FileSound == TypeOK /\ ImageReadable /\ MetaInFile

-----------------------------------------------------------------------------
(* The inductive invariant that FileSound follows from.                    *)

\* Nothing else is in an image of a flat index.
ImageSound(img) ==
  /\ img \in Image /\ Len(img.tomb) \in {0, Len(img.rows)} /\ img.cells <= Len(img.rows)
  /\ kind = "flat" => img.tomb = <<>> /\ img.cells = 0

\* A flat layout as the rewrites and the shrinks leave it.
FlatPlan(at, n) ==
  /\ \A c \in Chain : at[c].count = IF c \in {"codes", "scales", "ids"}
                                     THEN PaddedPages(n, PerPage[c]) ELSE 0
  /\ n > 0 => /\ at["codes"].first + at["codes"].count <= at["scales"].first
              /\ at["scales"].first + at["scales"].count <= at["ids"].first

\* The tombstones are behind the other chains, so that they can grow.
TombLast(at) ==
  /\ \A c \in Chain \ {"tomb"} : at[c].count > 0 => at[c].first + at[c].count <= AfterAll(at)
  /\ at["tomb"].first \in {0, AfterAll(at)}

\* The chains have room for what the image puts into them.
MetaSound(m, img) ==
  /\ m = MetaFor(img, m.at) /\ m.at \in Layout /\ ChainsDisjoint(m.at)
  /\ \A c \in Chain : m.len[c] > 0 =>
       m.at[c].first > 0 /\ PagesNeeded(m.len[c], PerPage[c]) <= m.at[c].count
  /\ IF kind = "flat" THEN FlatPlan(m.at, Len(img.rows)) ELSE TombLast(m.at)

PagesSound ==
  /\ disk \in Seq(Range(disk))
  /\ \A b \in DOMAIN disk : DOMAIN disk[b] = {"chain", "data"}

\* A page to be written, with every item of the image that belongs there.
PageSound(w, m, img) ==
  /\ DOMAIN w.page = {"chain", "data"}
  /\ LET held == Content(img)
     IN  \A c \in Chain : \A i \in 1 .. m.len[c] :
           BlockOf(m.at, c, i) = w.block =>
             /\ w.page.chain = c
             /\ PlaceOf(c, i) \in DOMAIN w.page.data
             /\ w.page.data[PlaceOf(c, i)] = held[c][i]

\* Every item of the image is there or is still to be written.
WritesSound(writes, d, m, img) ==
  /\ \A k \in DOMAIN writes : writes[k].block \in DOMAIN d /\ PageSound(writes[k], m, img)
  /\ LET held == Content(img)
     IN  \A c \in Chain : \A i \in 1 .. m.len[c] :
           \/ HasItem(d, m.at, c, i, held[c][i])
           \/ \E k \in DOMAIN writes : writes[k].block = BlockOf(m.at, c, i)

\* What a column holds of the rows.
InColumn(rows, j, i) == IF j = 3 THEN rows[i].id ELSE rows[i].vec

\* A VACUUM that takes the dead slots out of the rows: after x copies a column
\* has been through so many of them, and is that of the rows left by then.
CopiesSound(copies, d, at, rows, dead) ==
  LET n    == Len(rows)
      m    == Len(dead)
      x    == 3 * m - Len(copies)
      left == RowsLeft(rows, dead)
  IN  /\ \A j, k \in 1 .. m : j < k => dead[j] > dead[k]
      /\ Len(copies) <= 3 * m
      /\ copies = [y \in 1 .. 3 * m - x |-> Moves(n, dead)[x + y]]
      /\ \A j \in 1 .. 3 :
           LET k == (x + 3 - j) \div 3
           IN  \A i \in 1 .. n - k :
                 HasItem(d, at, Columns[j], i, InColumn(left[k], j, i))

\* A rewrite before its meta page.
Underway ==
  /\ ~ job.risky => OnlyAdds(job.image, job.meta.at)
  /\ IF job.copies = <<>> THEN WritesSound(job.writes, disk, job.meta, job.image)
     ELSE LET n == Len(image.rows)
              m == n - Len(job.image.rows)
          IN  /\ kind = "flat" /\ job.writes = <<>> /\ job.risky
              /\ \A c \in Chain : job.meta.at[c].first = meta.at[c].first
              /\ \E dead \in [1 .. m -> 1 .. n] :
                   /\ job.image.rows = RowsLeft(image.rows, dead)[m]
                   /\ CopiesSound(job.copies, disk, meta.at, image.rows, dead)

\* A rewrite behind it.
Named ==
  /\ job.meta = meta /\ job.image = image /\ ~ hurt
  /\ job.writes = <<>> /\ job.copies = <<>>

JobSound ==
  /\ DOMAIN job = DOMAIN NoJob /\ job.on \in BOOLEAN
  /\ IF ~ job.on THEN job = NoJob
     ELSE /\ ImageSound(job.image) /\ MetaSound(job.meta, job.image)
          /\ FitsIn(job.meta, Len(disk) + 1)
          /\ job.limit \in Nat /\ (job.limit > 0 => FitsIn(job.meta, job.limit))
          /\ job.writes \in Seq(Range(job.writes)) /\ job.copies \in Seq(Range(job.copies))
          /\ IF job.named THEN Named ELSE Underway

\* What every page in the file, every page still to be written and every slot
\* still to be copied has to do with the image that is written.
RewriteInv ==
  /\ FileSound
  /\ kind \in Kinds /\ ImageSound(image) /\ MetaSound(meta, image)
  /\ PagesSound /\ JobSound

=============================================================================
