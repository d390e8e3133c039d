--------------------------- MODULE DeferredFlush ---------------------------
(***************************************************************************)
(* The deferred-commit write path of a flat or IVF turbovec index and the  *)
(* per-backend index cache in front of its relfile.                        *)
(*                                                                         *)
(* aminsert changes only the inserting backend's cached copy and remembers *)
(* the ids it touched; the PreCommit callback splices those ids onto the   *)
(* relfile as it is at that moment; scans serve a cached copy while the    *)
(* pair (relfilenode, am_version) read from the meta page still names it;  *)
(* VACUUM removes (flat) or tombstones (IVF) the ids of dead heap tuples   *)
(* and then frees their TIDs for reuse.  Each rewrite of the relfile runs  *)
(* under the exclusive rewrite lock and each load under the shared one, so *)
(* here each is one step.                                                  *)
(*                                                                         *)
(* A row is its TID (the index's external id) and one vector.  The order   *)
(* of the slots is abstracted: a relfile or a cached copy maps TIDs to     *)
(* vectors.  The heap is PostgreSQL's; it is modelled as far as the index  *)
(* code depends on it.                                                     *)
(***************************************************************************)
EXTENDS Integers, FiniteSets

CONSTANTS
  Backend,      \* the server processes that use the index
  Tid,          \* heap tuple ids
  Vec,          \* vector values
  None,         \* no vector, no owner
  Ivf,          \* whether the index was built WITH (lists > 0)
  MaxVersion,   \* bound: no step stamps an am_version above it
  MaxNode       \* bound: no REINDEX beyond this relfilenode

ASSUME NoneAssumption == None \notin Vec /\ None \notin Backend
ASSUME IvfAssumption == Ivf \in BOOLEAN
ASSUME BoundAssumption == MaxVersion \in Nat \ {0} /\ MaxNode \in Nat \ {0}

VARIABLES
  heap,       \* heap[t]: the tuple stored at TID t
  txn,        \* txn[b]: how far backend b's transaction has come
  disk,       \* the relfile: its node, am_version, rows and tombstones
  entry,      \* entry[b]: backend b's cache entry for the index
  scan,       \* scan[b]: a scan of b that has read the meta page
  vac,        \* the VACUUM in progress
  forfeited   \* history: TIDs whose unflushed index rows AbortSub dropped

vars == <<heap, txn, disk, entry, scan, vac, forfeited>>

-----------------------------------------------------------------------------
(* State.                                                                  *)

RowMap == [Tid -> Vec \cup {None}]
NoRows == [t \in Tid |-> None]

Tuple == [st : {"free", "pending", "live", "dead"},
          vec : Vec \cup {None}, own : Backend \cup {None}, sub : BOOLEAN]

FreeTuple == [st |-> "free", vec |-> None, own |-> None, sub |-> FALSE]
DeadTuple == [st |-> "dead", vec |-> None, own |-> None, sub |-> FALSE]

\* The tuples the open transaction of b has written.
Pending(b) == {t \in Tid : heap[t].st = "pending" /\ heap[t].own = b}
Live == {t \in Tid : heap[t].st = "live"}
Dead == {t \in Tid : heap[t].st = "dead"}

\* A cache entry: the Stored variant, the copy of the rows, the freshness
\* pair (node, ver), the dirty flag, and the PersistState fields touched
\* (touched_ids) and pver (version).
Entry == [kind : {"none", "mutable", "readonly"}, rows : RowMap,
          node : Nat, ver : Int, dirty : BOOLEAN,
          touched : SUBSET Tid, pver : Nat]

NoEntry == [kind |-> "none", rows |-> NoRows, node |-> 0, ver |-> -1,
            dirty |-> FALSE, touched |-> {}, pver |-> 0]

Relfile == [node : Nat, version : Nat, rows : RowMap, tomb : SUBSET Tid]
NoScan == [on |-> FALSE, ver |-> 0, must |-> {}]

\* What the relfile holds for t, VACUUM's tombstones applied.
IndexRow == [t \in Tid |-> IF t \in disk.tomb THEN None ELSE disk.rows[t]]

TypeOK ==
  /\ heap \in [Tid -> Tuple]
  /\ txn \in [Backend -> {"idle", "active", "savepoint", "flushed"}]
  /\ disk \in Relfile
  /\ entry \in [Backend -> Entry]
  /\ scan \in [Backend -> [on : BOOLEAN, ver : Nat, must : SUBSET Tid]]
  /\ vac \in [phase : {"idle", "collected", "cleaned"}, dead : SUBSET Tid]
  /\ forfeited \in SUBSET Tid

\* An empty table with a freshly built index: ambuild stamps am_version 1.
Init ==
  /\ heap = [t \in Tid |-> FreeTuple]
  /\ txn = [b \in Backend |-> "idle"]
  /\ disk = [node |-> 1, version |-> 1, rows |-> NoRows, tomb |-> {}]
  /\ entry = [b \in Backend |-> NoEntry]
  /\ scan = [b \in Backend |-> NoScan]
  /\ vac = [phase |-> "idle", dead |-> {}]
  /\ forfeited = {}

-----------------------------------------------------------------------------
(* The inserting backend: aminsert on the cached copy.                     *)

\* The copy aminsert may change: a Mutable entry of this relfile, whatever
\* its version; a dirty one even if the relfile was replaced.
UsableForInsert(e) == e.kind = "mutable" /\ (e.node = disk.node \/ e.dirty)

\* What aminsert loads when there is none: every row of the relfile, the
\* tombstoned ones included.  Rows on disk bring their version along; an
\* empty relfile starts the copy at version 0.
LoadForInsert ==
  LET v == IF disk.rows = NoRows THEN 0 ELSE disk.version
  IN  [kind |-> "mutable", rows |-> disk.rows, node |-> disk.node, ver |-> v,
       dirty |-> FALSE, touched |-> {}, pver |-> v]

CopyForInsert(e) == IF UsableForInsert(e) THEN e ELSE LoadForInsert

\* add_with_ids (remove and add again if the id is there) and am_mark_dirty.
MarkDirty(e, t, v) ==
  [e EXCEPT !.rows[t] = v, !.touched = @ \cup {t}, !.pver = @ + 1,
            !.dirty = TRUE]

\* The executor stores the heap tuple and calls aminsert with its TID.  The
\* first insert of a transaction registers the transaction callbacks.
Insert(b, t, v) ==
  LET e == CopyForInsert(entry[b])
  IN  /\ txn[b] \in {"idle", "active", "savepoint"}
      /\ ~ scan[b].on
      /\ heap[t].st = "free"
      /\ e.pver < MaxVersion
      /\ heap' = [heap EXCEPT ![t] = [st |-> "pending", vec |-> v, own |-> b,
                                      sub |-> txn[b] = "savepoint"]]
      /\ txn' = [txn EXCEPT ![b] = IF @ = "idle" THEN "active" ELSE @]
      /\ entry' = [entry EXCEPT ![b] = MarkDirty(e, t, v)]
      /\ UNCHANGED <<disk, scan, vac, forfeited>>

-----------------------------------------------------------------------------
(* The end of a transaction: the callbacks of xact.rs.                     *)

\* Mutant: the writer's own count is stamped, as before v2.14.1.
NextAmVersionProposed(onDisk, proposed) == proposed

\* The version a rewrite stamps: above the one on disk, at least proposed.
NextAmVersion(onDisk, proposed) ==
  IF proposed > onDisk THEN proposed ELSE onDisk + 1

\* Mutant: the whole relfile overwritten from the copy, as before v1.29.1.
ReconcileFlushImageBlind(e) == e.rows

\* The current relfile with this transaction's touched ids spliced in from
\* its copy; a touched id the copy no longer holds changes nothing.
ReconcileFlushImage(e) ==
  [t \in Tid |-> IF t \in e.touched /\ e.rows[t] # None
                 THEN e.rows[t] ELSE disk.rows[t]]

\* Mutant: the tombstone bitmap is carried over unchanged.
FlushedRelfileTombKept(e) ==
  [disk EXCEPT !.version = NextAmVersion(disk.version, e.pver),
               !.rows = ReconcileFlushImage(e)]

\* The relfile reconcile_and_write_flush writes: the bitmap is carried over
\* with the bits of the touched ids cleared.
FlushedRelfile(e) ==
  [disk EXCEPT !.version = NextAmVersion(disk.version, e.pver),
               !.rows = ReconcileFlushImage(e),
               !.tomb = @ \ e.touched]

\* Mutant: touched_ids is never emptied, as before v2.11.0.
ClearDirtyTouchedKept(e, new, isCurrent) ==
  IF ~ isCurrent THEN NoEntry
  ELSE [e EXCEPT !.dirty = FALSE, !.ver = IF disk.tomb # {} THEN -1 ELSE new.version,
                 !.pver = new.version]

\* Mutant: the label -1 is mirrored into persist.version.
ClearDirtyLabelMirrored(e, new, isCurrent) ==
  LET label == IF disk.tomb # {} THEN -1 ELSE new.version
  IN  IF ~ isCurrent THEN NoEntry
      ELSE [e EXCEPT !.dirty = FALSE, !.touched = {}, !.ver = label, !.pver = label]

\* Mutant: labelled with the relfile's version although it has tombstones.
ClearDirtyTombIgnored(e, new, isCurrent) ==
  IF ~ isCurrent THEN NoEntry
  ELSE [e EXCEPT !.dirty = FALSE, !.touched = {}, !.ver = new.version,
                 !.pver = new.version]

\* clear_dirty: the copy is kept only if it is what was written (same rows
\* in the same slots, so equal maps are necessary and not sufficient), and
\* under a version no meta page carries if the relfile had tombstones, of which
\* it would have to apply those left.
ClearDirty(e, new, isCurrent) ==
  IF ~ isCurrent THEN NoEntry
  ELSE [e EXCEPT !.dirty = FALSE, !.touched = {},
                 !.ver = IF disk.tomb # {} THEN -1 ELSE new.version,
                 !.pver = new.version]

\* PreCommit: flush the dirty entry, if there is one.
PreCommit(b) ==
  LET e   == entry[b]
      new == FlushedRelfile(e)
  IN  /\ txn[b] = "active" /\ ~ scan[b].on
      /\ txn' = [txn EXCEPT ![b] = "flushed"]
      /\ IF e.dirty
         THEN /\ new.version <= MaxVersion
              /\ disk' = new
              /\ \E isCurrent \in {FALSE, new.rows = e.rows} :
                   entry' = [entry EXCEPT ![b] = ClearDirty(e, new, isCurrent)]
         ELSE UNCHANGED <<disk, entry>>
      /\ UNCHANGED <<heap, scan, vac, forfeited>>

Committed(u) == [u EXCEPT !.st = "live", !.own = None, !.sub = FALSE]
Released(u) == [u EXCEPT !.sub = FALSE]

\* PostgreSQL writes the commit record: the tuples become visible.
Commit(b) ==
  /\ txn[b] = "flushed"
  /\ txn' = [txn EXCEPT ![b] = "idle"]
  /\ heap' = [t \in Tid |-> IF t \in Pending(b) THEN Committed(heap[t])
                            ELSE heap[t]]
  /\ UNCHANGED <<disk, entry, scan, vac, forfeited>>

\* invalidate_dirty, the Abort and AbortSub callbacks.
InvalidateDirty(e) == IF e.dirty THEN NoEntry ELSE e

\* ROLLBACK or an error; also after the flush, since PostgreSQL can still
\* fail the commit then, and the rewrite of the relfile is not undone.
Abort(b) ==
  /\ txn[b] # "idle"
  /\ txn' = [txn EXCEPT ![b] = "idle"]
  /\ heap' = [t \in Tid |-> IF t \in Pending(b) THEN DeadTuple ELSE heap[t]]
  /\ entry' = [entry EXCEPT ![b] = InvalidateDirty(@)]
  /\ scan' = [scan EXCEPT ![b] = NoScan]
  /\ forfeited' = forfeited \ Pending(b)
  /\ UNCHANGED <<disk, vac>>

Savepoint(b) ==
  /\ txn[b] = "active" /\ ~ scan[b].on
  /\ txn' = [txn EXCEPT ![b] = "savepoint"]
  /\ UNCHANGED <<heap, disk, entry, scan, vac, forfeited>>

ReleaseSavepoint(b) ==
  /\ txn[b] = "savepoint" /\ ~ scan[b].on
  /\ txn' = [txn EXCEPT ![b] = "active"]
  /\ heap' = [t \in Tid |-> IF t \in Pending(b) THEN Released(heap[t])
                            ELSE heap[t]]
  /\ UNCHANGED <<disk, entry, scan, vac, forfeited>>

\* ROLLBACK TO SAVEPOINT (the savepoint stays): only the tuples written since
\* it are undone, but AbortSub drops the whole dirty entry.  The rows of the
\* outer transaction that were only in it are forfeited.
RollbackToSavepoint(b) ==
  LET undone == {t \in Pending(b) : heap[t].sub}
  IN  /\ txn[b] = "savepoint"
      /\ heap' = [t \in Tid |-> IF t \in undone THEN DeadTuple ELSE heap[t]]
      /\ entry' = [entry EXCEPT ![b] = InvalidateDirty(@)]
      /\ scan' = [scan EXCEPT ![b] = NoScan]
      /\ forfeited' = (forfeited \cup
                         {t \in Pending(b) : entry[b].dirty /\ t \in entry[b].touched})
                      \ undone
      /\ UNCHANGED <<txn, disk, vac>>

-----------------------------------------------------------------------------
(* Scans, in two steps: amgettuple reads the meta page without a lock, and *)
(* later takes a cached copy or loads the relfile under the shared lock.   *)

\* A scan of an empty relfile by a backend with nothing unflushed returns
\* no rows at once and leaves no trace.
ScanBegin(b) ==
  /\ ~ scan[b].on /\ txn[b] # "flushed"
  /\ disk.rows # NoRows \/ entry[b].dirty
  /\ scan' = [scan EXCEPT ![b] = [on |-> TRUE, ver |-> disk.version, must |-> Live]]
  /\ UNCHANGED <<heap, txn, disk, entry, vac, forfeited>>

\* Mutant: a stale entry is reloaded even if it is dirty.
ScanHitFreshOnly(e, ver) ==
  e.kind # "none" /\ e.node = disk.node /\ e.ver = ver

\* scan_lookup: a dirty entry always, a clean one only if fresh.
ScanHit(e, ver) ==
  e.kind # "none" /\ (e.dirty \/ (e.node = disk.node /\ e.ver = ver))

\* What install_whole_index caches: the relfile as it is now, under the
\* version the scan read before it took the lock.
ScanLoad(ver) ==
  [kind |-> "readonly", rows |-> disk.rows, node |-> disk.node, ver |-> ver,
   dirty |-> FALSE, touched |-> {}, pver |-> 0]

ScanHandle(e, ver) == IF ScanHit(e, ver) THEN e ELSE ScanLoad(ver)

\* The rows a search of handle h can return: the bitmap is read afresh and
\* masks a ReadOnly copy; a Mutable copy is searched unmasked.
HandleRows(h) ==
  [t \in Tid |-> IF h.kind = "readonly" /\ t \in disk.tomb
                 THEN None ELSE h.rows[t]]

ScanOpen(b) ==
  /\ scan[b].on
  /\ entry' = [entry EXCEPT ![b] = ScanHandle(@, scan[b].ver)]
  /\ scan' = [scan EXCEPT ![b] = NoScan]
  /\ UNCHANGED <<heap, txn, disk, vac, forfeited>>

\* enforce_cap, run when this or another index is cached: clean entries only.
Evict(b) ==
  /\ entry[b].kind # "none" /\ ~ entry[b].dirty
  /\ entry' = [entry EXCEPT ![b] = NoEntry]
  /\ UNCHANGED <<heap, txn, disk, scan, vac, forfeited>>

-----------------------------------------------------------------------------
(* Deletion, VACUUM, REINDEX, crash.                                       *)

\* A committed DELETE (or the old version of an UPDATE).
Delete(t) ==
  /\ heap[t].st = "live"
  /\ heap' = [heap EXCEPT ![t] = DeadTuple]
  /\ forfeited' = forfeited \ {t}
  /\ UNCHANGED <<txn, disk, entry, scan, vac>>

\* VACUUM's first heap pass collects tuples dead to everyone: not those the
\* snapshot of a scan in progress still sees.
VacuumCollect(D) ==
  /\ vac.phase = "idle"
  /\ D # {} /\ D \subseteq Dead
  /\ \A b \in Backend : D \cap scan[b].must = {}
  /\ vac' = [phase |-> "collected", dead |-> D]
  /\ UNCHANGED <<heap, txn, disk, entry, scan, forfeited>>

\* The rewrite ambulkdelete does for the slots S of dead tuples.
RowsWithout(S) == [t \in Tid |-> IF t \in S THEN None ELSE disk.rows[t]]
SlotsRemoved(S) == [disk EXCEPT !.version = @ + 1, !.rows = RowsWithout(S)]
SlotsTombstoned(S) == [disk EXCEPT !.version = @ + 1, !.tomb = @ \cup S]

\* ambulkdelete: no dead slot, no rewrite; IVF sets bits; flat removes rows.
AmBulkDelete ==
  LET slots == {t \in vac.dead : disk.rows[t] # None}
  IN  /\ vac.phase = "collected"
      /\ vac' = [vac EXCEPT !.phase = "cleaned"]
      /\ IF slots = {} THEN UNCHANGED disk
         ELSE /\ disk.version < MaxVersion
              /\ disk' = IF Ivf THEN SlotsTombstoned(slots) ELSE SlotsRemoved(slots)
      /\ UNCHANGED <<heap, txn, entry, scan, forfeited>>

\* VACUUM's second heap pass: the TIDs may be used again.
VacuumHeap ==
  /\ vac.phase = "cleaned"
  /\ heap' = [t \in Tid |-> IF t \in vac.dead THEN FreeTuple ELSE heap[t]]
  /\ vac' = [phase |-> "idle", dead |-> {}]
  /\ UNCHANGED <<txn, disk, entry, scan, forfeited>>

VacuumCancel ==
  /\ vac.phase # "idle"
  /\ vac' = [phase |-> "idle", dead |-> {}]
  /\ UNCHANGED <<heap, txn, disk, entry, scan, forfeited>>

\* REINDEX waits for every user of the index, builds a relfile of the live
\* rows under a new relfilenode and starts its versions again at 1.
Reindex ==
  /\ \A b \in Backend : txn[b] = "idle" /\ ~ scan[b].on
  /\ vac.phase = "idle"
  /\ disk.node < MaxNode
  /\ disk' = [node |-> disk.node + 1, version |-> 1, tomb |-> {},
              rows |-> [t \in Tid |-> IF t \in Live THEN heap[t].vec ELSE None]]
  /\ forfeited' = {}
  /\ UNCHANGED <<heap, txn, entry, scan, vac>>

\* A server crash: recovery replays the relfile's WAL, every cache is gone and
\* no open transaction committed.
Crash ==
  /\ heap' = [t \in Tid |-> IF heap[t].st = "pending" THEN DeadTuple ELSE heap[t]]
  /\ txn' = [b \in Backend |-> "idle"]
  /\ entry' = [b \in Backend |-> NoEntry]
  /\ scan' = [b \in Backend |-> NoScan]
  /\ vac' = [phase |-> "idle", dead |-> {}]
  /\ forfeited' = forfeited \ {t \in Tid : heap[t].st = "pending"}
  /\ UNCHANGED disk

-----------------------------------------------------------------------------
BackendStep(b) ==
  \/ \E t \in Tid, v \in Vec : Insert(b, t, v)
  \/ PreCommit(b)
  \/ Commit(b)
  \/ Abort(b)
  \/ Savepoint(b)
  \/ ReleaseSavepoint(b)
  \/ RollbackToSavepoint(b)
  \/ ScanBegin(b)
  \/ ScanOpen(b)
  \/ Evict(b)

Next ==
  \/ \E b \in Backend : BackendStep(b)
  \/ \E t \in Tid : Delete(t)
  \/ \E D \in SUBSET Tid : VacuumCollect(D)
  \/ AmBulkDelete
  \/ VacuumHeap
  \/ VacuumCancel
  \/ Reindex
  \/ Crash

Spec == Init /\ [][Next]_vars

-----------------------------------------------------------------------------
(* Properties.                                                             *)

\* Every committed row is in the index with its own vector, whichever other
\* transactions flushed, rolled back or vacuumed since, except the rows a
\* savepoint rollback dropped from the unflushed copy.  (The splice of
\* reconcile_flush_image, ambulkdelete and TID reuse.)
CommittedRowsIndexed ==
  \A t \in Live \ forfeited : IndexRow[t] = heap[t].vec

\* Without the exception: what an index promises.  AbortSub breaks it.
EveryCommittedRowIndexed == \A t \in Live : IndexRow[t] = heap[t].vec

\* The index names no free TID (its next tuple would answer for the old
\* vector) and no uncommitted tuple before its transaction has passed
\* PreCommit: the relfile never holds a row that can still be rolled back to
\* a savepoint.  (invalidate_dirty, touched_ids, ambulkdelete before reuse.)
NoDanglingRows ==
  \A t \in Tid : IndexRow[t] # None =>
    /\ heap[t].st # "free"
    /\ heap[t].st = "pending" => txn[heap[t].own] = "flushed"

\* A transaction's own unflushed inserts survive in its cached copy, however
\* the cache is used by scans and evictions, until they are flushed.
\* (scan_lookup, enforce_cap and am_mark_dirty keep dirty entries.)
OwnWritesKept ==
  \A b \in Backend : txn[b] \in {"active", "savepoint"} =>
    \A t \in Pending(b) \ forfeited :
      entry[b].dirty /\ t \in entry[b].touched /\ entry[b].rows[t] = heap[t].vec

\* A clean copy the meta page still names is the relfile: nothing changes the
\* rows under a (relfilenode, am_version) pair that names a cached copy, and a
\* copy that cannot apply tombstones is never named while there are some.
\* (clear_dirty, next_am_version, install_whole_index, ambulkdelete.)
CleanCopyFresh ==
  \A b \in Backend :
    LET e == entry[b]
    IN  (e.kind # "none" /\ ~ e.dirty /\ e.node = disk.node /\ e.ver = disk.version)
          => e.rows = disk.rows /\ (e.kind = "mutable" => disk.tomb = {})

\* A scan returns every row that was committed when it read the meta page
\* and still lives, although flushes, VACUUM and TID reuse come between that
\* read and its taking a cached copy or loading the relfile.
RowsFound(b) ==
  \A t \in (scan[b].must \cap Live) \ forfeited :
    HandleRows(ScanHandle(entry[b], scan[b].ver))[t] = heap[t].vec

\* So for a backend that has nothing unflushed.
ScanComplete ==
  \A b \in Backend : scan[b].on /\ ~ entry[b].dirty => RowsFound(b)

\* What a scan may rely on, whoever rewrites the index meanwhile.
CopiesServeScans == CleanCopyFresh /\ ScanComplete

-----------------------------------------------------------------------------
(* Why the row properties hold: what every step preserves.                 *)

\* An uncommitted tuple belongs to a transaction in progress.
PendingOwned ==
  \A t \in Tid :
    /\ heap[t].st = "pending" => heap[t].own \in Backend /\ txn[heap[t].own] # "idle"
    /\ heap[t].st \in {"pending", "live"} => heap[t].vec \in Vec
    /\ t \in forfeited => heap[t].st \in {"pending", "live"}

\* Between PreCommit and the commit record the index has the rows already.
FlushedRowsIndexed ==
  \A b \in Backend : txn[b] = "flushed" =>
    \A t \in Pending(b) \ forfeited : IndexRow[t] = heap[t].vec

\* A dirty entry belongs to an open transaction and to the current relfile,
\* and the ids to be spliced are tuples of that transaction.
DirtyBacked ==
  \A b \in Backend :
    /\ entry[b].dirty =>
         /\ txn[b] \in {"active", "savepoint"}
         /\ entry[b].kind = "mutable" /\ entry[b].node = disk.node
         /\ \A t \in entry[b].touched :
              /\ t \in Pending(b) \ forfeited
              /\ entry[b].rows[t] = heap[t].vec
    /\ ~ entry[b].dirty => entry[b].touched = {}

\* What VACUUM has collected stays dead, and is out of the index before the
\* TIDs are freed.
VacuumedGone ==
  /\ vac.phase # "idle" => vac.dead \subseteq Dead
  /\ vac.phase = "cleaned" => \A t \in vac.dead : IndexRow[t] = None

\* The inductive invariant behind the first three properties.
RowInv ==
  /\ PendingOwned
  /\ FlushedRowsIndexed
  /\ DirtyBacked
  /\ VacuumedGone
  /\ CommittedRowsIndexed
  /\ NoDanglingRows
  /\ OwnWritesKept

\* A cached copy is of no later relfile than the current one and, if clean, of
\* no later version than the meta page names; nor has a scan read a later one.
CopiesNotAhead ==
  \A b \in Backend :
    LET e == entry[b]
    IN  /\ e.node <= disk.node
        /\ (e.kind # "none" /\ ~ e.dirty /\ e.node = disk.node) => e.ver <= disk.version
        /\ scan[b].on => scan[b].ver <= disk.version

\* VACUUM takes no tuple that a scan in progress may return, so its TID is not
\* handed out again.
ScannedRowsHeld ==
  \A b \in Backend : \A t \in scan[b].must :
    /\ heap[t].st \in {"live", "dead"}
    /\ vac.phase # "idle" => t \notin vac.dead

\* What the copies need besides RowInv to serve scans.
CopyInv ==
  /\ CopiesNotAhead
  /\ ScannedRowsHeld
  /\ CopiesServeScans

-----------------------------------------------------------------------------
(* Refinement.                                                             *)

RI == INSTANCE RowIndex WITH
  heap  <- [t \in Tid |-> [st |-> heap[t].st, vec |-> heap[t].vec,
                           own |-> heap[t].own]],
  ready <- {b \in Backend : txn[b] = "flushed"},
  index <- IndexRow,
  lost  <- forfeited

\* Seen through the tombstones, the caches, versions and locks implement the
\* abstract index: a flush adds exactly the rows the transaction still owes,
\* VACUUM takes away rows of dead tuples and frees no TID the index names,
\* and no other step changes the index.
ImplementsRowIndex == RI!Spec

=============================================================================
