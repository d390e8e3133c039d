--------------------------- MODULE IndexSettings ---------------------------
(***************************************************************************)
(* The life of an index across the settings, options, sessions and releases *)
(* it meets: CREATE INDEX, ALTER INDEX, INSERT, REINDEX, the crash of an    *)
(* UNLOGGED table, and what a scan reads and the planner is told.           *)
(*                                                                         *)
(* A code is the dimension and the width it was encoded with and the wire  *)
(* version whose rotation it was encoded under.  The bytes of a row are its *)
(* stride; rows written with one stride and read with another are Torn.    *)
(* How commits interleave with copies and scans is in DeferredFlush, what  *)
(* the builds write in IndexBuild.                                         *)
(***************************************************************************)
EXTENDS Integers, Sequences, SequencesExt, FiniteSetsExt, Sublists

CONSTANTS
  Session,
  Array,         \* the column is a vector[], the index one of documents
  Unlogged,      \* the table is UNLOGGED
  Dims,          \* dimensions of the rows; 0: the column is NULL
  Withs,         \* WITH clauses of CREATE INDEX
  Defaults,      \* values of turbovec.bit_width_default, of 2 .. 4
  AlterWidths,   \* values of ALTER INDEX SET (bit_width)
  OldRows,       \* rows of an index built by the release before
  Scans,         \* settings of scans: probes, out_of_core, cache_size_mb in bytes
  MaxDelta,      \* turbovec.ivf_max_delta_pct
  MaxChanges     \* bound on the statements

VARIABLES
  setting,   \* turbovec.bit_width_default of each session
  frozen,    \* the default of the option in each backend; 0: not registered
  with,      \* the options pg_class has
  table,     \* the committed rows
  file,      \* the relfile
  fork,      \* the init fork
  write,     \* the transaction of each session
  answer,    \* what the last scan read, and how the planner saw it
  changes    \* how many statements there were

settingsVars == <<setting, frozen, with, table, file, fork, write, answer, changes>>

-----------------------------------------------------------------------------
Version == 8
Torn == [dim |-> 0, width |-> 0, version |-> 0]
Code(dim, width, version) == [dim |-> dim, width |-> width, version |-> version]

NoWith == [given |-> FALSE, width |-> 0, dim |-> 0, lists |-> 0, graph |-> FALSE]
NoFile == [on |-> FALSE]
NoWrite == [rows |-> <<>>, entries |-> {}, closing |-> FALSE]
NoAnswer == [way |-> "none", as |-> Torn, codes |-> {}, cells |-> FALSE, scored |-> <<0, 1>>,
             n |-> 0, disabled |-> FALSE]

\* MetaPageData::plan, plan_bq: an index without rows.
EmptyFile(kind, o, lists) ==
  [on |-> TRUE, kind |-> kind, version |-> Version, width |-> o.width, dim |-> o.dim,
   lists |-> lists, degraded |-> lists > 0, cells |-> 0, short |-> FALSE, rows |-> <<>>]

Ids(rows) == {r.id : r \in Range(rows)}
IsDegraded(f) == f.lists > 0 /\ f.degraded
IsLegacy(f) == f.version < Version
Stride(c) == c.dim * c.width

-----------------------------------------------------------------------------
(* Options.                                                                *)

\* amoptions registers the option, with the default of now, when the backend
\* calls it first.
Registered(s) == IF frozen[s] = 0 THEN setting[s] ELSE frozen[s]

\* PostgreSQL calls amoptions for an index with options only.
Opens(s, w) == frozen' = IF w.given THEN [frozen EXCEPT ![s] = Registered(s)] ELSE frozen

\* Mutant: the width is that of the setting.
ReadSetting(s, w) == [w EXCEPT !.width = setting[s]]

\* options::read.
Read(s, w) ==
  IF w.given THEN [w EXCEPT !.width = IF @ = 0 THEN Registered(s) ELSE @]
  ELSE [w EXCEPT !.width = setting[s]]

\* amoptions with validate.
Valid(o) ==
  /\ o.width \in 1 .. 4
  /\ ~ (o.width = 1 /\ o.graph)
  /\ o.dim % 8 = 0
  /\ ~ (o.graph /\ o.lists > 0)

-----------------------------------------------------------------------------
(* Builds.                                                                 *)

\* build_callback skips NULLs.
Indexed(rows) == Kept(rows, {i \in DOMAIN rows : rows[i].dim # 0})

BuildFails(o, rows) ==
  \/ o.graph /\ Array
  \/ \E r \in Range(rows) : r.dim % 8 # 0
  \/ \E r, q \in Range(rows) : r.dim # q.dim
  \/ o.dim # 0 /\ \E r \in Range(rows) : r.dim # o.dim
  \/ Array /\ o.width = 1 /\ o.dim = 0 /\ rows # <<>>

\* ambuild: documents always have cells, a 1-bit index is one whatever else it
\* is, and an index without rows is flat or, with lists, degraded.
ColbertLists == 64
Built(o, rows) ==
  LET lists == IF Array /\ o.lists = 0 THEN ColbertLists ELSE o.lists
      n == Len(rows)
      kind == IF o.width = 1 THEN "bq"
              ELSE IF n = 0 THEN "single"
              ELSE IF Array THEN "colbert"
              ELSE IF o.graph THEN "graph" ELSE "single"
      empty == EmptyFile(kind, o, lists)
  IN  IF n = 0 THEN empty
      ELSE [empty EXCEPT !.dim = rows[1].dim, !.lists = Min({lists, n}), !.degraded = FALSE,
                         !.cells = IF lists > 0 THEN n ELSE 0,
                         !.rows = [i \in 1 .. n |->
                           [id |-> rows[i].id, code |-> Code(rows[i].dim, o.width, Version)]]]

\* ambuildempty writes the meta page, which has the mean of a 1-bit index of
\* known dimension in a page behind it.
InitFork(o) ==
  [EmptyFile(IF o.width = 1 THEN "bq" ELSE "single", o, o.lists) EXCEPT
     !.short = o.width = 1 /\ o.dim # 0]

\* An open transaction holds a lock on the table if it inserted.
TableIsFree == \A s \in Session : write[s].rows = <<>>

\* What CREATE INDEX and REINDEX leave; an ERROR undoes both.
Rebuilt(o) ==
  /\ file' = Built(o, Indexed(table))
  /\ fork' = IF Unlogged THEN InitFork(o) ELSE fork

CreateIndex(s, w) ==
  /\ ~ file.on /\ TableIsFree
  /\ w.given => Valid(Read(s, w))
  /\ ~ BuildFails(Read(s, w), Indexed(table))
  /\ with' = w
  /\ Opens(s, w)
  /\ Rebuilt(Read(s, w))
  /\ UNCHANGED <<setting, table, write, answer>>

Reindex(s) ==
  /\ file.on /\ TableIsFree
  /\ ~ BuildFails(Read(s, with), Indexed(table))
  /\ Opens(s, with)
  /\ Rebuilt(Read(s, with))
  /\ UNCHANGED <<setting, with, table, write, answer>>

AlterIndex(s, width) ==
  /\ file.on
  /\ with' = [with EXCEPT !.given = TRUE, !.width = width]
  /\ Valid(Read(s, with'))
  /\ Opens(s, with')
  /\ UNCHANGED <<setting, table, file, fork, write, answer>>

SetDefault(s, width) ==
  /\ setting[s] # width
  /\ setting' = [setting EXCEPT ![s] = width]
  /\ UNCHANGED <<frozen, with, table, file, fork, write, answer>>

\* The crash empties an UNLOGGED table and copies the init fork.
Crash ==
  /\ Unlogged /\ file.on
  /\ table' = <<>>
  /\ file' = fork
  /\ write' = [s \in Session |-> NoWrite]
  /\ frozen' = [s \in Session |-> 0]
  /\ UNCHANGED <<setting, with, fork, answer>>

-----------------------------------------------------------------------------
(* Inserts.                                                                *)

\* A row a transaction adds, and one that fails and takes its transaction with
\* it; what an immediate insert wrote stays.
Adds(s, row, entries) ==
  write' = [write EXCEPT ![s].rows = Append(@, row), ![s].entries = entries]
Abort(s) == write' = [write EXCEPT ![s] = NoWrite]

\* An index on its own deals with these before the kind matters.
RowFails(d) == d # 0 /\ (Array \/ d % 8 # 0)

\* insert_bq_row takes the dimension of an empty index from the row, and reads
\* the mean of one that has it.
ImmediateFails(d) ==
  \/ d # file.dim /\ ~ (file.kind = "bq" /\ file.dim = 0 /\ file.rows = <<>>)
  \/ file.short

\* insert_graph_row, insert_bq_row: an index with cells loses them.
InsertNow(row) ==
  file' = [file EXCEPT !.version = Version, !.dim = row.dim,
                       !.degraded = file.lists > 0, !.cells = 0,
                       !.rows = Append(@, [id |-> row.id,
                                           code |-> Code(row.dim, file.width, Version)])]

\* The backend's own copy, under the width of the options and the dimension of
\* the row: what the relfile has, or an empty one of that dimension and width.
Loaded(key) ==
  IF file.rows # <<>> THEN [key |-> key, dim |-> file.dim, width |-> file.width,
                            rows |-> file.rows, touched |-> {}]
  ELSE [key |-> key, dim |-> key.dim, width |-> key.width, rows |-> <<>>, touched |-> {}]

OwnEntry(s, key) ==
  IF \E e \in write[s].entries : e.key = key
  THEN CHOOSE e \in write[s].entries : e.key = key ELSE Loaded(key)

\* aminsert_relfile: the code is of the copy's dimension and width.
InsertDeferred(s, row) ==
  LET key == [dim |-> row.dim, width |-> Read(s, with).width]
      e == OwnEntry(s, key)
      code == Code(e.dim, e.width, Version)
      grown == [e EXCEPT !.rows = Append(@, [id |-> row.id, code |-> code]),
                         !.touched = @ \cup {row.id}]
  IN  IF e.dim # row.dim \/ e.width = 1 THEN Abort(s)
      ELSE Adds(s, row, (write[s].entries \ {e}) \cup {grown})

\* aminsert_impl.
Insert(s, d) ==
  LET row == [id |-> changes, dim |-> d]
  IN  /\ ~ write[s].closing
      /\ IF file.on /\ d # 0 THEN Opens(s, with) ELSE UNCHANGED frozen
      /\ \/ /\ ~ file.on \/ d = 0
            /\ Adds(s, row, write[s].entries)
            /\ UNCHANGED file
         \/ /\ file.on /\ d # 0
            /\ \/ /\ RowFails(d) \/ (file.kind \in {"graph", "bq"} /\ ImmediateFails(d))
                  /\ Abort(s)
                  /\ UNCHANGED file
               \/ /\ ~ RowFails(d) /\ file.kind \in {"graph", "bq"} /\ ~ ImmediateFails(d)
                  /\ Adds(s, row, write[s].entries)
                  /\ InsertNow(row)
               \/ /\ ~ RowFails(d) /\ file.kind \notin {"graph", "bq"}
                  /\ InsertDeferred(s, row)
                  /\ UNCHANGED file
      /\ UNCHANGED <<setting, with, table, fork, answer>>

\* delta_within_bound.
WithinBound(cells, n) == MaxDelta > 0 /\ cells > 0 /\ (n - cells) * 100 <= cells * MaxDelta

\* The slice of a touched row ends behind the codes of the copy.
SliceFails(e) ==
  \E i \in DOMAIN e.rows : e.rows[i].id \in e.touched /\ i * Stride(e.key) > Len(e.rows) * Stride(e)

ReadBack(rows, aligned) ==
  [i \in DOMAIN rows |-> IF aligned THEN rows[i] ELSE [rows[i] EXCEPT !.code = Torn]]

\* reconcile_and_write_flush: the touched rows behind those of the relfile,
\* under a meta page of the entry's dimension and width and of this version.
Reconciled(e) ==
  LET own == Kept(e.rows, {i \in DOMAIN e.rows : e.rows[i].id \in e.touched})
      aligned == file.rows = <<>> \/ Stride(file) = Stride(e.key)
      rows == ReadBack(file.rows, aligned) \o ReadBack(own, aligned /\ Stride(e) = Stride(e.key))
      carried == file.lists > 0 /\ ~ IsDegraded(file) /\ WithinBound(file.cells, Len(rows))
  IN  [file EXCEPT !.kind = "single", !.version = Version, !.width = e.key.width,
                   !.dim = e.key.dim, !.rows = rows,
                   !.degraded = file.lists > 0 /\ ~ carried,
                   !.cells = IF carried THEN @ ELSE 0]

\* xact PreCommit, an entry at a time.  A slice that fails is an ERROR.
Flush(s, e) ==
  /\ e \in write[s].entries
  /\ IF SliceFails(e) THEN Abort(s) /\ UNCHANGED file
     ELSE /\ file' = Reconciled(e)
          /\ write' = [write EXCEPT ![s].entries = @ \ {e}, ![s].closing = TRUE]
  /\ UNCHANGED <<setting, frozen, with, table, fork, answer, changes>>

Commit(s) ==
  /\ write[s].rows # <<>> /\ write[s].entries = {}
  /\ table' = table \o write[s].rows
  /\ Abort(s)
  /\ UNCHANGED <<setting, frozen, with, file, fork, answer, changes>>

Rollback(s) ==
  /\ write[s].rows # <<>> /\ ~ write[s].closing
  /\ Abort(s)
  /\ UNCHANGED <<setting, frozen, with, table, file, fork, answer, changes>>

-----------------------------------------------------------------------------
(* Scans.                                                                  *)

\* out_of_core_decide: more than half the budget.
OutOfCore(scan, f) ==
  \/ scan.ooc = "on"
  \/ scan.ooc = "auto" /\ 2 * ((Len(f.rows) * f.dim * f.width) \div 8) > scan.budget

\* scored_vectors, as a fraction.
Scored(n, lists, probes) ==
  IF lists = 0 THEN <<n, 1>>
  ELSE LET p == Max({1, Min({probes, lists})}) IN <<Max({n * p, n}), lists>>

\* Mutant: the lists of the meta page.
EffectiveListsMeta(f) == f.lists

\* amcostestimate: a degraded index is costed as flat.
EffectiveLists(f) == IF IsDegraded(f) THEN 0 ELSE f.lists

\* The gate of ambeginscan.
Refused(f) == (IsLegacy(f) /\ f.rows # <<>>) \/ f.kind = "colbert"

Served(way, codes, as, cells) ==
  [NoAnswer EXCEPT !.way = way, !.codes = codes, !.as = as, !.cells = cells]

\* amgettuple.  A copy the transaction changed is found by the dimension and
\* width of the meta page; any serves if the relfile cannot.
FirstTuple(s, q, scan) ==
  LET codes(rows) == {r.code : r \in Range(rows)}
      own == {e \in write[s].entries : e.key = [dim |-> file.dim, width |-> file.width]}
      fallback == IF file.rows = <<>> \/ file.dim # q THEN write[s].entries ELSE {}
      cells == file.kind \in {"single", "bq"} /\ file.lists > 0 /\ ~ IsDegraded(file)
      as == Code(file.dim, file.width, Version)
      mutable(e) == Served(IF e.dim = q THEN "own" ELSE "error", IF e.dim = q THEN codes(e.rows) ELSE {},
                           Code(e.dim, e.width, Version), FALSE)
  IN  IF Refused(file) THEN {Served("error", {}, as, FALSE)}
      ELSE IF fallback # {} THEN {mutable(e) : e \in fallback}
      ELSE IF file.rows = <<>> THEN {Served("empty", {}, as, FALSE)}
      ELSE IF q # file.dim THEN {Served("error", {}, as, FALSE)}
      ELSE IF own # {} THEN {mutable(e) : e \in own}
      ELSE {Served(CASE file.kind \in {"bq", "graph"} -> file.kind
                     [] file.kind = "single" /\ cells /\ OutOfCore(scan, file) -> "ooc"
                     [] OTHER -> "whole",
                   codes(file.rows), as, cells)}

\* The planner estimates, then the scan reads.  An opclass of documents has no
\* ORDER BY operator; without ORDER BY, amrescan has the scan return nothing.
Scan(s, q, scan, ordered) ==
  /\ file.on
  /\ Opens(s, with)
  /\ \E a \in IF ordered THEN FirstTuple(s, q, scan)
              ELSE {Served(IF Refused(file) THEN "error" ELSE "nothing", {}, Torn, FALSE)} :
       answer' = [a EXCEPT !.n = Len(file.rows), !.disabled = ~ ordered,
                           !.scored = Scored(Len(file.rows), EffectiveLists(file), scan.probes)]
  /\ UNCHANGED <<setting, with, table, file, fork, write>>

-----------------------------------------------------------------------------
\* The release before left an index that names its width, or there is none.
OldIndex ==
  IF OldRows = <<>> THEN NoFile
  ELSE LET new == Built([NoWith EXCEPT !.width = 4], OldRows)
       IN  [new EXCEPT !.version = Version - 1,
              !.rows = [i \in DOMAIN @ |-> [new.rows[i] EXCEPT !.code.version = Version - 1]]]

SettingsInit ==
  /\ setting \in [Session -> {Max(Defaults)}]
  /\ frozen = [s \in Session |-> 0]
  /\ with = IF OldRows = <<>> THEN NoWith ELSE [NoWith EXCEPT !.given = TRUE, !.width = 4]
  /\ table = OldRows
  /\ file = OldIndex
  /\ fork = NoFile
  /\ write = [s \in Session |-> NoWrite]
  /\ answer = NoAnswer
  /\ changes = 0

Statement(s) ==
  \/ \E w \in Withs : CreateIndex(s, w)
  \/ Reindex(s)
  \/ \E width \in AlterWidths : AlterIndex(s, width)
  \/ \E width \in Defaults : SetDefault(s, width)
  \/ \E d \in Dims : Insert(s, d)
  \/ \E q \in Dims \ {0}, scan \in Scans : ~ Array /\ Scan(s, q, scan, TRUE)
  \/ \E scan \in Scans : Scan(s, 0, scan, FALSE)

SettingsNext ==
  \/ /\ changes < MaxChanges
     /\ changes' = changes + 1
     /\ Crash \/ \E s \in Session : Statement(s)
  \/ \E s \in Session : Commit(s) \/ Rollback(s) \/ \E e \in write[s].entries : Flush(s, e)

SettingsSpec == SettingsInit /\ [][SettingsNext]_settingsVars

-----------------------------------------------------------------------------
(* The constants an installation can have.                                 *)

Rows == [id : Nat, dim : Nat]
Options == [given : BOOLEAN, width : Nat, dim : Nat, lists : Nat, graph : BOOLEAN]

\* An index without WITH has no options of its own.
InstallationAssumption ==
  /\ Array \in BOOLEAN /\ Unlogged \in BOOLEAN
  /\ Dims \subseteq Nat /\ AlterWidths \subseteq Nat /\ OldRows \in Seq(Rows)
  /\ Defaults \subseteq 2 .. 4 /\ Defaults # {}
  /\ Withs \subseteq Options /\ \A w \in Withs : ~ w.given => w = NoWith
  /\ \A scan \in Scans : scan.probes \in Nat
  /\ MaxDelta \in Nat /\ MaxChanges \in Nat

\* Every index names its width, 1 or one other, and is altered to no third; the
\* rows an index takes are of one dimension; none is of the release before.
OneReading ==
  /\ OldRows = <<>>
  /\ \E width \in 2 .. 4 :
       AlterWidths \subseteq {width} /\ \A w \in Withs : w.given /\ w.width \in {1, width}
  /\ \A d, e \in Dims \ {0} : d % 8 = 0 /\ e % 8 = 0 => d = e

-----------------------------------------------------------------------------
(* Properties.                                                             *)

\* A scan that raises no ERROR takes every code for what it was encoded as,
\* whichever sessions, with whatever settings, wrote it and since.  (options.rs
\* read, aminsert_relfile, reconcile_and_write_flush, ambeginscan.)
ReadAsWritten == \A c \in answer.codes : c = answer.as

\* Every committed row that has a vector is in the index, whatever kind its
\* options made of it, in which order it was created, filled and rebuilt, and
\* whatever else failed.  (ambuild, aminsert_impl, flush_to_relfile.)
CommittedRowsIndexed == file.on => Ids(Indexed(table)) \subseteq Ids(file.rows)

\* The planner is told of cells exactly when the scan has cells to look at: a
\* scan without is costed as scoring every row, one with as a cell's share at
\* least and every row at most; and a scan that returns nothing because it has
\* no ORDER BY is priced out.  (amcostestimate, amrescan, ivf_setup_and_search.)
CostIsOfTheScan ==
  LET whole == answer.n * answer.scored[2]
  IN  /\ answer.way \in {"bq", "graph", "whole", "ooc"} =>
           /\ ~ answer.cells => answer.scored[1] = whole
           /\ answer.cells => answer.scored[1] \in answer.n .. whole /\ answer.scored[2] > 0
      /\ answer.way = "nothing" => answer.disabled
=============================================================================
