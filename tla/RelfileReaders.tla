--------------------------- MODULE RelfileReaders ---------------------------
(***************************************************************************)
(* A scan of an IVF index while other sessions rewrite its relfile.        *)
(*                                                                         *)
(* A backend that has no copy of the index under the version it read       *)
(* installs one: whole, under the shared rewrite lock, or out of core,     *)
(* where the centroids, the cells and the scales are read without the lock *)
(* by one meta page and the ids with it by another.  The scan then reads   *)
(* the meta page once more, and the tombstones and (whole copy) the cells  *)
(* or (out of core) the codes of the slots it looks at, all without the    *)
(* lock.  Nothing but the version, the numbers of rows and the lengths of  *)
(* the chains keeps it from mixing images.                                 *)
(*                                                                         *)
(* A chain is read in one step; the rewrite goes on page by page between   *)
(* the steps.  All cells are probed, so a scan is to find every live row.  *)
(***************************************************************************)
EXTENDS RelfilePages

CONSTANT Junk    \* what bytes of another chain, or zeroes, are read as

ASSUME ReadersAssumption == Kinds \subseteq {"ivf"} /\ Junk \notin Nat \cup BOOLEAN

VARIABLES
  copy,     \* the backend's copy of the index
  scan,     \* the scan in progress
  answer    \* what the last scan gave

allVars == <<kind, meta, disk, image, job, hurt, jobs, copy, scan, answer>>
rvars == <<copy, scan, answer>>

-----------------------------------------------------------------------------
NoMeta == MetaFor(NoImage, NoChains)
NoCopy == [on |-> FALSE, current |-> FALSE, whole |-> FALSE, at |-> NoChains,
           codes |-> <<>>, scales |-> <<>>, ids |-> <<>>, cells |-> 0]
NoScan == [pc |-> "none", hint |-> NoMeta, dir |-> 0, scales |-> <<>>, mask |-> {},
           stale |-> FALSE, calm |-> FALSE, wanted |-> {}]
NoAnswer == [on |-> FALSE, calm |-> FALSE, failed |-> FALSE, found |-> {}, wanted |-> {}]

ReadersInit == Init /\ copy = NoCopy /\ scan = NoScan /\ answer = NoAnswer

\* The rows that are not tombstoned.
Live(img, s) == ~ (s \in DOMAIN img.tomb /\ img.tomb[s])
LiveRows(img) == {img.rows[i] : i \in {s \in DOMAIN img.rows : Live(img, s)}}

\* read_chain and gather_codes_ranges: what is at the place of item i.
ItemAt(at, c, i) ==
  LET page == disk[BlockOf(at, c, i)]
  IN  IF page.chain = c /\ PlaceOf(c, i) \in DOMAIN page.data
      THEN page.data[PlaceOf(c, i)] ELSE Junk

InFile(at, c, n) == n > 0 => BlockOf(at, c, n) \in DOMAIN disk
Chunk(m, c) == [i \in 1 .. m.len[c] |-> ItemAt(m.at, c, i)]

\* A read past the end of the file is an ERROR, and the end of the scan.
Fail ==
  /\ answer' = [on |-> TRUE, calm |-> scan.calm, failed |-> TRUE, found |-> {}, wanted |-> {}]
  /\ scan' = NoScan
  /\ UNCHANGED copy

-----------------------------------------------------------------------------
(* The scan.                                                               *)

\* amgettuple reads the version and looks for a copy under it.
BeginScan ==
  /\ scan.pc = "none" /\ image.rows # <<>>
  /\ scan' = [NoScan EXCEPT
                !.pc = IF copy.on /\ copy.current THEN "look" ELSE "install",
                !.calm = ~ hurt /\ (job.on => ~ job.risky \/ job.named),
                !.wanted = LiveRows(image) \cap
                            (IF job.on THEN LiveRows(job.image) ELSE LiveRows(image))]
  /\ answer' = NoAnswer
  /\ UNCHANGED <<copy, vars>>

\* The meta page is read again; out_of_core_decide chooses, for an index that
\* has cells.
BeginInstall ==
  /\ scan.pc = "install"
  /\ \E pc \in {"coarse", "whole"} :
       /\ pc = "coarse" => meta.len["coarse"] > 0
       /\ scan' = [scan EXCEPT !.pc = pc, !.hint = meta]
  /\ UNCHANGED <<copy, answer, vars>>

\* read_coarse_centroids, by the meta page read before.  Junk makes the search
\* probe other cells; here it probes all of them.
ReadCentroids ==
  LET m == scan.hint
  IN  /\ scan.pc = "coarse"
      /\ IF ~ InFile(m.at, "coarse", m.len["coarse"]) THEN Fail
         ELSE scan' = [scan EXCEPT !.pc = "dir"] /\ UNCHANGED <<copy, answer>>
      /\ UNCHANGED vars

\* read_cell_directory: the rows in cells.  Junk is read as any number.
DirectoryRows(m, limit) ==
  LET rows == ItemAt(m.at, "dir", 1)
  IN  IF rows = Junk THEN 0 .. limit ELSE {rows}

\* A directory of more rows than there are is not used.
ReadDirectory ==
  LET m == scan.hint
      n == m.len["codes"]
  IN  /\ scan.pc = "dir"
      /\ IF ~ InFile(m.at, "dir", m.len["dir"]) THEN Fail
         ELSE \E rows \in DirectoryRows(m, n + 1) :
                /\ scan' = [scan EXCEPT !.pc = IF rows > n THEN "whole" ELSE "scales",
                                        !.dir = rows]
                /\ UNCHANGED <<copy, answer>>
      /\ UNCHANGED vars

\* read_scales_only.
ReadScales ==
  LET m == scan.hint
  IN  /\ scan.pc = "scales"
      /\ IF ~ InFile(m.at, "scales", m.len["scales"]) THEN Fail
         ELSE /\ scan' = [scan EXCEPT !.pc = "ids", !.scales = Chunk(m, "scales")]
              /\ UNCHANGED <<copy, answer>>
      /\ UNCHANGED vars

Unlocked == ~ job.on

\* Mutant: the copy is kept under the version of the meta page it was read by.
KeyOfContent == TRUE

\* The copy is kept under the version the scan began with.
KeyIsCurrent == ~ scan.stale

\* read_ids_only: under the lock, by the meta page of now.  A copy out of core
\* is installed if the lengths agree.
ReadIds ==
  /\ scan.pc = "ids" /\ Unlocked
  /\ IF meta.len["ids"] # scan.hint.len["ids"]
     THEN scan' = [scan EXCEPT !.pc = "whole"] /\ UNCHANGED copy
     ELSE /\ copy' = [on |-> TRUE, current |-> KeyIsCurrent, whole |-> FALSE,
                      at |-> scan.hint.at, codes |-> <<>>, scales |-> scan.scales,
                      ids |-> Chunk(meta, "ids"), cells |-> scan.dir]
          /\ scan' = [scan EXCEPT !.pc = "look"]
  /\ UNCHANGED <<answer, vars>>

\* read_full_consistent: by the meta page of now.
FullCopy(current) ==
  [on |-> TRUE, current |-> current, whole |-> TRUE, at |-> meta.at,
   codes |-> Chunk(meta, "codes"), scales |-> Chunk(meta, "scales"),
   ids |-> Chunk(meta, "ids"), cells |-> 0]

\* install_whole_index: the lock is held throughout.
InstallWhole ==
  /\ scan.pc = "whole" /\ Unlocked
  /\ copy' = FullCopy(KeyIsCurrent)
  /\ scan' = [scan EXCEPT !.pc = "look"]
  /\ UNCHANGED <<answer, vars>>

\* ivf_setup_and_search: the meta page is read a third time.
ReadMetaAgain ==
  /\ scan.pc = "look"
  /\ scan' = [scan EXCEPT !.pc = "tomb", !.hint = meta]
  /\ UNCHANGED <<copy, answer, vars>>

\* Mutant: the slots behind the cells are left out.
CellSlotsOnly(rows, n) == 1 .. rows

\* The slots of the cells, all of which are probed, and those behind them.
CellSlots(rows, n) == (1 .. rows) \cup (rows + 1 .. n)

\* The rows in cells: for a whole copy by the disk, where without cells, or
\* with more than there are rows, the search is flat.
CellRows(m, n) ==
  IF ~ copy.whole THEN {copy.cells}
  ELSE IF m.len["dir"] = 0 THEN {n}
  ELSE {IF rows > n THEN n ELSE rows : rows \in DirectoryRows(m, n)}

\* read_tombstones.  Junk is read as any bit.
ReadTombstones ==
  LET m    == scan.hint
      n    == Len(copy.ids)
      bit  == Chunk(m, "tomb")
      Set(i) == i \in DOMAIN bit /\ bit[i] \in {TRUE}
      junk == {i \in DOMAIN bit : bit[i] = Junk}
  IN  /\ scan.pc = "tomb"
      /\ IF \E c \in {"dir", "tomb"} : ~ InFile(m.at, c, m.len[c]) THEN Fail
         ELSE \E dead \in SUBSET junk, rows \in CellRows(m, n) :
                /\ scan' = [scan EXCEPT
                              !.pc = "search",
                              !.mask = {i \in CellSlots(rows, n) : ~ Set(i) /\ i \notin dead}]
                /\ UNCHANGED <<copy, answer>>
      /\ UNCHANGED vars

\* search_masked of a whole copy, search_ooc of the other.
Search ==
  LET Code(i) == IF copy.whole THEN copy.codes[i] ELSE ItemAt(copy.at, "codes", i)
      found == {[id |-> copy.ids[i], vec |-> Code(i)] :
                  i \in {s \in scan.mask : Code(s) = copy.scales[s]}}
  IN  /\ scan.pc = "search"
      /\ IF ~ copy.whole /\ \E i \in scan.mask : ~ InFile(copy.at, "codes", i) THEN Fail
         ELSE /\ answer' = [on |-> TRUE, calm |-> scan.calm, failed |-> FALSE,
                            found |-> found, wanted |-> scan.wanted]
              /\ scan' = NoScan
              /\ UNCHANGED copy
      /\ UNCHANGED vars

ScanStep ==
  \/ BeginScan \/ BeginInstall \/ ReadCentroids \/ ReadDirectory \/ ReadScales \/ ReadIds
  \/ InstallWhole \/ ReadMetaAgain \/ ReadTombstones \/ Search

-----------------------------------------------------------------------------
(* The rewrites, as the scan sees them.                                    *)

\* A chain moves or goes, or what is in it changes; bits of tombstones may.
Disturbs ==
  \E c \in Chain : meta.len[c] > 0 /\
    \/ job'.meta.at[c].first # meta.at[c].first
    \/ job'.meta.len[c] < meta.len[c]
    \/ c # "tomb" /\ ~ IsPrefix(Content(image)[c], Content(job'.image)[c])

BeginRewrite ==
  /\ \/ \E s \in 0 .. Len(image.rows), m \in 0 .. 2, v \in Vec :
          \E q \in [1 .. m -> Fresh] : Injective(q) /\ Insert(s, q, v)
     \/ \E D \in SUBSET DOMAIN image.rows : VacuumTombstones(D)
  /\ scan' = [scan EXCEPT !.calm = @ /\ ~ Disturbs,
                          !.wanted = @ \cap LiveRows(job'.image)]
  /\ UNCHANGED <<copy, answer>>

\* A new meta page has a new version.
Rename ==
  /\ WriteMeta
  /\ scan' = [scan EXCEPT !.stale = scan.pc # "none"]
  /\ copy' = [copy EXCEPT !.current = FALSE]
  /\ UNCHANGED answer

\* REINDEX waits for scans.
NewFile ==
  /\ scan.pc = "none"
  /\ Reindex
  /\ copy' = [copy EXCEPT !.current = FALSE]
  /\ UNCHANGED <<scan, answer>>

RewriteStep == WritePage \/ Finish \/ Stop

ReadersNext ==
  \/ ScanStep
  \/ BeginRewrite
  \/ Rename
  \/ NewFile
  \/ RewriteStep /\ UNCHANGED rvars

ReadersSpec == ReadersInit /\ [][ReadersNext]_allVars

-----------------------------------------------------------------------------
(* Properties.                                                             *)

\* A copy found under the current version is of the image the meta page stands
\* for, whatever happened while it was read, unless a rewrite was stopped half
\* way: no copy that mixes images outlives the rewrite.  (try_install_ooc.)
CurrentCopyIsImage ==
  copy.on /\ copy.current /\ ~ hurt =>
    /\ copy.ids = Content(image)["ids"]
    /\ copy.scales = Content(image)["scales"]
    /\ IF copy.whole THEN copy.codes = Content(image)["codes"]
       ELSE copy.cells = image.cells /\ copy.at["codes"] = meta.at["codes"]

\* A scan during which rewrites only appended rows, or set tombstones where
\* they are, ends without an error and has every row that was live all along;
\* though it reads the meta page three times and takes the lock once at most.
\* (ivf_setup_and_search, ivf_setup_and_search_ooc, search_ooc.)
CalmScanComplete ==
  answer.on /\ answer.calm => ~ answer.failed /\ answer.wanted \subseteq answer.found

-----------------------------------------------------------------------------
(* The inductive invariant that they follow from.                          *)

\* Every chain but the tombstones can be read, and a rewrite is going to keep
\* what the scan may read of the file.
Clean == IF job.on THEN job.named \/ ~ (job.risky \/ hurt) ELSE ~ hurt

Installing == {"coarse", "dir", "scales", "ids"}
Searching == {"look", "tomb", "search"}

\* What an install out of core has read under the version it began with.
InstallSound ==
  scan.pc \in Installing /\ ~ scan.stale =>
    /\ scan.hint = meta /\ meta.len["coarse"] > 0
    /\ Clean /\ scan.pc \in {"scales", "ids"} => scan.dir = image.cells
    /\ Clean /\ scan.pc = "ids" => scan.scales = Content(image)["scales"]

\* A meta page that has at most grown since.
Within(m, now) ==
  \A c \in Chain : m.len[c] > 0 =>
    m.at[c].first = now.at[c].first /\ m.len[c] <= now.len[c]

\* What a calm scan reads, but for the tombstones, is as it was.
CalmFile ==
  LET held == Content(image)
      new  == Content(job.image)
  IN  /\ \A c \in Chain \ {"tomb"} : \A i \in 1 .. meta.len[c] :
           HasItem(disk, meta.at, c, i, held[c][i])
      /\ job.on => /\ Within(meta, job.meta)
                   /\ \A c \in Chain \ {"tomb"} : meta.len[c] > 0 =>
                        IsPrefix(held[c], new[c])

\* Its meta page is of now, or of before appends.
CalmHint ==
  scan.pc \in Installing \cup {"tomb"} =>
    /\ scan.hint.len \in [Chain -> Nat] /\ Within(scan.hint, meta)
    /\ scan.hint.len["ids"] = scan.hint.len["codes"]
    /\ scan.hint.len["scales"] = scan.hint.len["codes"]
    /\ scan.hint.len["dir"] = scan.hint.len["coarse"]

\* And so are the columns that it has read.
ColumnOf(s, n, rows) == s = [i \in 1 .. n |-> rows[i].vec]

CalmInstall ==
  scan.pc \in Installing =>
    LET n == scan.hint.len["codes"]
    IN  /\ scan.hint.len["coarse"] > 0
        /\ scan.pc \in {"scales", "ids"} => scan.dir \in 0 .. n
        /\ scan.pc = "ids" => ColumnOf(scan.scales, n, image.rows)

CalmCopy ==
  scan.pc \in Searching =>
    LET n == Len(copy.ids)
    IN  /\ n \in 0 .. Len(image.rows) /\ copy.ids = [i \in 1 .. n |-> image.rows[i].id]
        /\ ColumnOf(copy.scales, n, image.rows)
        /\ IF copy.whole THEN ColumnOf(copy.codes, n, image.rows)
           ELSE /\ copy.cells \in 0 .. n
                /\ n > 0 => copy.at["codes"].first = meta.at["codes"].first
        /\ scan.pc = "search" => scan.mask \subseteq 1 .. n

\* A row that is wanted keeps its slot, in what the scan has read as well, and
\* no page that the scan may read has a tombstone for it.
SlotKept(r, i) ==
  /\ i \in DOMAIN image.rows /\ image.rows[i] = r /\ Live(image, i)
  /\ i <= meta.len["tomb"] => HasItem(disk, meta.at, "tomb", i, FALSE)
  /\ job.on => i \in DOMAIN job.image.rows /\ job.image.rows[i] = r /\ Live(job.image, i)

SlotRead(i) ==
  /\ scan.pc \in Installing => i <= scan.hint.len["codes"]
  /\ scan.pc \in Searching => i <= Len(copy.ids)
  /\ scan.pc = "search" => i \in scan.mask

CalmScan ==
  scan.pc # "none" /\ scan.calm =>
    /\ CalmFile /\ CalmHint /\ CalmInstall /\ CalmCopy
    /\ \A r \in scan.wanted : \E i \in DOMAIN image.rows : SlotKept(r, i) /\ SlotRead(i)

\* A heap TID is in one row of an image.
IdsApart(img) ==
  \A i, j \in DOMAIN img.rows : img.rows[i].id = img.rows[j].id => i = j

\* Together with RewriteInv, what holds of the copy, of a scan in progress and
\* of its answer at every step of a scan or of a rewrite.
ReadersInv ==
  /\ DOMAIN copy = DOMAIN NoCopy /\ DOMAIN scan = DOMAIN NoScan
  /\ IdsApart(image) /\ (job.on => IdsApart(job.image))
  /\ CurrentCopyIsImage /\ CalmScanComplete
  /\ InstallSound /\ CalmScan

=============================================================================
