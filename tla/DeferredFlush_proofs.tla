------------------------ MODULE DeferredFlush_proofs ------------------------
(***************************************************************************)
(* What holds of DeferredFlush for every set of backends, TIDs and         *)
(* vectors: that the index and the table agree, that cached copies serve   *)
(* scans, and that the whole implements the abstract index.                *)
(***************************************************************************)
EXTENDS DeferredFlush, TLAPS

-----------------------------------------------------------------------------
(* The operators on entries and relfiles yield what they should.           *)

\* A version stamped by a rewrite is a natural number above the one replaced
\* and no lower than the one asked for (next_am_version).
LEMMA NextAmVersionRises ==
  ASSUME NEW onDisk \in Nat, NEW proposed \in Nat
  PROVE  /\ NextAmVersion(onDisk, proposed) \in Nat
         /\ NextAmVersion(onDisk, proposed) > onDisk
         /\ NextAmVersion(onDisk, proposed) >= proposed
  BY DEF NextAmVersion

\* No copy at all is an entry (a vacant slot of the cache).
LEMMA NoEntryType == NoEntry \in Entry
  BY DEF NoEntry, Entry, RowMap, NoRows

\* aminsert starts from a well-formed copy (am_lookup_for_mutation, am_install).
LEMMA CopyForInsertType ==
  ASSUME NEW e \in Entry, disk \in Relfile
  PROVE  CopyForInsert(e) \in Entry
  BY DEF CopyForInsert, LoadForInsert, Entry, Relfile, RowMap

\* am_mark_dirty keeps the entry well formed.
LEMMA MarkDirtyType ==
  ASSUME NEW e \in Entry, NEW t \in Tid, NEW v \in Vec
  PROVE  MarkDirty(e, t, v) \in Entry
<1>1. [e.rows EXCEPT ![t] = v] \in RowMap
  BY DEF Entry, RowMap
<1>2. e.touched \cup {t} \in SUBSET Tid /\ e.pver + 1 \in Nat
  BY DEF Entry
<1> QED
  BY <1>1, <1>2 DEF MarkDirty, Entry

\* The image a flush writes is a relfile with a higher version.
LEMMA FlushedRelfileType ==
  ASSUME NEW e \in Entry, disk \in Relfile
  PROVE  FlushedRelfile(e) \in Relfile
<1>1. ReconcileFlushImage(e) \in RowMap
  BY DEF ReconcileFlushImage, Entry, Relfile, RowMap
<1>2. NextAmVersion(disk.version, e.pver) \in Nat
  BY NextAmVersionRises DEF Entry, Relfile
<1> QED
  BY <1>1, <1>2 DEF FlushedRelfile, Relfile

\* clear_dirty keeps the entry well formed or drops it.
LEMMA ClearDirtyType ==
  ASSUME NEW e \in Entry, NEW new \in Relfile, NEW c \in BOOLEAN
  PROVE  ClearDirty(e, new, c) \in Entry
<1> DEFINE ver == IF disk.tomb # {} THEN -1 ELSE new.version
<1>1. new.version \in Nat /\ ver \in Int
  BY DEF Relfile
<1>2. CASE c
  <2> HIDE DEF ver
  <2>1. ClearDirty(e, new, c) = [e EXCEPT !.dirty = FALSE, !.touched = {},
                                           !.ver = ver, !.pver = new.version]
    BY <1>2 DEF ClearDirty, ver
  <2> QED
    BY <2>1, <1>1 DEF Entry
<1>3. CASE ~ c
  BY <1>3, NoEntryType DEF ClearDirty
<1> QED
  BY <1>2, <1>3

\* Both rewrites of ambulkdelete yield a relfile.
LEMMA SlotsGoneType ==
  ASSUME disk \in Relfile, NEW S \in SUBSET Tid
  PROVE  SlotsTombstoned(S) \in Relfile /\ SlotsRemoved(S) \in Relfile
<1> disk.version + 1 \in Nat /\ disk.tomb \cup S \in SUBSET Tid
  BY DEF Relfile
<1>1. SlotsTombstoned(S) \in Relfile
  BY DEF SlotsTombstoned, Relfile
<1>2. RowsWithout(S) \in RowMap
  BY DEF RowsWithout, Relfile, RowMap
<1>3. SlotsRemoved(S) \in Relfile
  BY <1>2 DEF SlotsRemoved, Relfile
<1> QED
  BY <1>1, <1>3

\* A scan ends up with a well-formed copy (scan_lookup, scan_install).
LEMMA ScanHandleType ==
  ASSUME NEW e \in Entry, disk \in Relfile, NEW v \in Nat
  PROVE  ScanHandle(e, v) \in Entry
  BY DEF ScanHandle, ScanLoad, Entry, Relfile

-----------------------------------------------------------------------------
(* Type correctness.                                                       *)

\* The database starts with values of their types.
LEMMA TypeInit == Init => TypeOK
  BY NoneAssumption DEF Init, TypeOK, Tuple, FreeTuple, Relfile, RowMap, NoRows,
     Entry, NoEntry, NoScan

\* Every step keeps them.
LEMMA TypeStep == TypeOK /\ [Next]_vars => TypeOK'
<1> SUFFICES ASSUME TypeOK, [Next]_vars PROVE TypeOK'
  OBVIOUS
<1> USE DEF TypeOK
<1>1. ASSUME NEW b \in Backend, NEW t \in Tid, NEW v \in Vec, Insert(b, t, v)
      PROVE  TypeOK'
  <2>1. MarkDirty(CopyForInsert(entry[b]), t, v) \in Entry
    BY CopyForInsertType, MarkDirtyType
  <2> QED
    BY <1>1, <2>1 DEF Insert, Tuple
<1>2. ASSUME NEW b \in Backend, PreCommit(b) PROVE TypeOK'
  <2>1. FlushedRelfile(entry[b]) \in Relfile
    BY FlushedRelfileType
  <2>2. \A c \in BOOLEAN :
           ClearDirty(entry[b], FlushedRelfile(entry[b]), c) \in Entry
    BY <2>1, ClearDirtyType
  <2> DEFINE same == FlushedRelfile(entry[b]).rows = entry[b].rows
  <2>3. same \in BOOLEAN
    OBVIOUS
  <2>4. \A c \in {FALSE, same} : c \in BOOLEAN
    BY <2>3
  <2>5. entry' \in [Backend -> Entry] /\ disk' \in Relfile
    <3>1. CASE entry[b].dirty
      <4>1. PICK c \in {FALSE, same} :
              entry' = [entry EXCEPT ![b] =
                          ClearDirty(entry[b], FlushedRelfile(entry[b]), c)]
        BY <1>2, <3>1 DEF PreCommit
      <4>2. ClearDirty(entry[b], FlushedRelfile(entry[b]), c) \in Entry
        BY <2>2, <2>4
      <4>3. disk' = FlushedRelfile(entry[b])
        BY <1>2, <3>1 DEF PreCommit
      <4> QED
        BY <4>1, <4>2, <4>3, <2>1
    <3>2. CASE ~ entry[b].dirty
      BY <1>2, <3>2 DEF PreCommit
    <3> QED
      BY <3>1, <3>2
  <2> QED
    BY <1>2, <2>5 DEF PreCommit
<1>3. ASSUME NEW b \in Backend, Commit(b) PROVE TypeOK'
  <2>1. \A u \in Tuple : Committed(u) \in Tuple
    BY DEF Committed, Tuple
  <2>2. heap' \in [Tid -> Tuple]
    BY <1>3, <2>1 DEF Commit
  <2> QED
    BY <1>3, <2>2 DEF Commit
<1>4. ASSUME NEW b \in Backend, Abort(b) PROVE TypeOK'
  BY <1>4, NoEntryType DEF Abort, InvalidateDirty, Tuple, DeadTuple, NoScan
<1>5. ASSUME NEW b \in Backend, Savepoint(b) PROVE TypeOK'
  BY <1>5 DEF Savepoint
<1>6. ASSUME NEW b \in Backend, ReleaseSavepoint(b) PROVE TypeOK'
  <2>1. \A u \in Tuple : Released(u) \in Tuple
    BY DEF Released, Tuple
  <2>2. heap' \in [Tid -> Tuple]
    BY <1>6, <2>1 DEF ReleaseSavepoint
  <2> QED
    BY <1>6, <2>2 DEF ReleaseSavepoint
<1>7. ASSUME NEW b \in Backend, RollbackToSavepoint(b) PROVE TypeOK'
  BY <1>7, NoEntryType
     DEF RollbackToSavepoint, InvalidateDirty, Tuple, DeadTuple, NoScan, Pending
<1>8. ASSUME NEW b \in Backend, ScanBegin(b) PROVE TypeOK'
  BY <1>8 DEF ScanBegin, Live, Relfile
<1>9. ASSUME NEW b \in Backend, ScanOpen(b) PROVE TypeOK'
  <2>1. ScanHandle(entry[b], scan[b].ver) \in Entry
    BY ScanHandleType
  <2> QED
    BY <1>9, <2>1 DEF ScanOpen, NoScan
<1>10. ASSUME NEW b \in Backend, Evict(b) PROVE TypeOK'
  BY <1>10, NoEntryType DEF Evict
<1>11. ASSUME NEW t \in Tid, Delete(t) PROVE TypeOK'
  BY <1>11 DEF Delete, Tuple, DeadTuple
<1>12. ASSUME NEW D \in SUBSET Tid, VacuumCollect(D) PROVE TypeOK'
  BY <1>12 DEF VacuumCollect
<1>13. ASSUME AmBulkDelete PROVE TypeOK'
  <2>1. \A S \in SUBSET Tid : SlotsTombstoned(S) \in Relfile
                            /\ SlotsRemoved(S) \in Relfile
    BY SlotsGoneType
  <2>2. disk' \in Relfile
    BY <1>13, <2>1 DEF AmBulkDelete
  <2> QED
    BY <1>13, <2>2 DEF AmBulkDelete
<1>14. ASSUME VacuumHeap PROVE TypeOK'
  BY <1>14 DEF VacuumHeap, Tuple, FreeTuple
<1>15. ASSUME VacuumCancel PROVE TypeOK'
  BY <1>15 DEF VacuumCancel
<1>16. ASSUME Reindex PROVE TypeOK'
  BY <1>16 DEF Reindex, Relfile, RowMap, Tuple, Live
<1>17. ASSUME Crash PROVE TypeOK'
  BY <1>17, NoEntryType DEF Crash, Tuple, DeadTuple, NoScan
<1>18. CASE UNCHANGED vars
  BY <1>18 DEF vars
<1> QED
  BY <1>1, <1>2, <1>3, <1>4, <1>5, <1>6, <1>7, <1>8, <1>9, <1>10, <1>11, <1>12,
     <1>13, <1>14, <1>15, <1>16, <1>17, <1>18 DEF Next, BackendStep

\* Every reachable state is well typed.
THEOREM TypeCorrect == Spec => []TypeOK
  BY TypeInit, TypeStep, PTL DEF Spec

-----------------------------------------------------------------------------
(* The rows.  First the steps that change only the heap, the transaction   *)
(* or a clean cache entry.                                                 *)

\* The database starts without rows and without touched ids.
LEMMA RowInit == Init => RowInv
  BY NoneAssumption DEF Init, RowInv, PendingOwned, FlushedRowsIndexed, DirtyBacked,
     VacuumedGone, CommittedRowsIndexed, NoDanglingRows, OwnWritesKept, Live,
     FreeTuple, NoEntry, IndexRow, NoRows

\* What a cached copy that aminsert may change looks like, and what becomes of
\* it.  (am_lookup_for_mutation, am_install, am_mark_dirty.)
LEMMA InsertEntry ==
  ASSUME TypeOK, DirtyBacked, NEW b \in Backend, NEW t \in Tid, NEW v \in Vec
  PROVE  LET old == entry[b]
             new == MarkDirty(CopyForInsert(old), t, v)
         IN  /\ new.dirty /\ new.kind = "mutable" /\ new.node = disk.node
             /\ new.touched = old.touched \cup {t}
             /\ new.rows[t] = v
             /\ old.dirty => \A u \in Tid \ {t} : new.rows[u] = old.rows[u]
<1> DEFINE e == CopyForInsert(entry[b])
<1>1. e \in Entry
  BY CopyForInsertType DEF TypeOK
<1>2. e.kind = "mutable" /\ e.node = disk.node /\ e.touched = entry[b].touched
  <2>1. CASE UsableForInsert(entry[b])
    BY <2>1 DEF UsableForInsert, CopyForInsert, DirtyBacked
  <2>2. CASE ~ UsableForInsert(entry[b])
    <3>1. ~ entry[b].dirty
      BY <2>2 DEF UsableForInsert, DirtyBacked
    <3>2. entry[b].touched = {}
      BY <3>1 DEF DirtyBacked
    <3> QED
      BY <2>2, <3>2 DEF CopyForInsert, LoadForInsert
  <2> QED
    BY <2>1, <2>2
<1>3. entry[b].dirty => e = entry[b]
  BY DEF UsableForInsert, CopyForInsert, DirtyBacked
<1> HIDE DEF e
<1>4. /\ MarkDirty(e, t, v).dirty
      /\ MarkDirty(e, t, v).kind = e.kind
      /\ MarkDirty(e, t, v).node = e.node
      /\ MarkDirty(e, t, v).touched = e.touched \cup {t}
      /\ MarkDirty(e, t, v).rows = [e.rows EXCEPT ![t] = v]
  BY <1>1 DEF MarkDirty, Entry
<1>5. DOMAIN e.rows = Tid
  BY <1>1 DEF Entry, RowMap
<1> QED
  BY <1>2, <1>3, <1>4, <1>5 DEF e

\* aminsert registers the id; the row waits for the commit.
LEMMA InsertRows ==
  ASSUME TypeOK, RowInv, NEW b \in Backend, NEW t \in Tid, NEW v \in Vec,
         Insert(b, t, v)
  PROVE  RowInv'
<1> DEFINE old == entry[b]
           new == MarkDirty(CopyForInsert(entry[b]), t, v)
<1>1. /\ new.dirty /\ new.kind = "mutable" /\ new.node = disk.node
      /\ new.touched = old.touched \cup {t}
      /\ new.rows[t] = v
      /\ old.dirty => \A u \in Tid \ {t} : new.rows[u] = old.rows[u]
  BY InsertEntry DEF RowInv
<1>2. entry' = [entry EXCEPT ![b] = new]
  BY DEF Insert
<1> HIDE DEF new
<1>3. /\ txn[b] \in {"idle", "active", "savepoint"}
      /\ txn'[b] \in {"active", "savepoint"}
      /\ \A c \in Backend \ {b} : txn'[c] = txn[c]
      /\ entry'[b] = new
      /\ \A c \in Backend \ {b} : entry'[c] = entry[c]
  BY <1>2 DEF Insert, TypeOK
<1>4. /\ heap[t].st = "free"
      /\ heap'[t].st = "pending" /\ heap'[t].vec = v /\ heap'[t].own = b
      /\ \A u \in Tid \ {t} : heap'[u] = heap[u]
  BY DEF Insert, TypeOK
<1>5. disk' = disk /\ vac' = vac /\ forfeited' = forfeited /\ IndexRow' = IndexRow
  BY DEF Insert, IndexRow
<1>6. /\ Pending(b)' = Pending(b) \cup {t}
      /\ \A c \in Backend \ {b} : Pending(c)' = Pending(c)
      /\ Live' = Live /\ Dead' = Dead /\ t \notin forfeited
  BY <1>4 DEF Pending, Live, Dead, RowInv, PendingOwned
<1>7. PendingOwned'
  BY <1>3, <1>4, <1>5, <1>6 DEF RowInv, PendingOwned
<1>8. FlushedRowsIndexed'
  BY <1>3, <1>4, <1>5, <1>6 DEF RowInv, FlushedRowsIndexed, Pending
<1>9. DirtyBacked'
  <2> SUFFICES ASSUME NEW c \in Backend
               PROVE  /\ entry'[c].dirty =>
                           /\ txn'[c] \in {"active", "savepoint"}
                           /\ entry'[c].kind = "mutable" /\ entry'[c].node = disk'.node
                           /\ \A u \in entry'[c].touched :
                                /\ u \in Pending(c)' \ forfeited'
                                /\ entry'[c].rows[u] = heap'[u].vec
                      /\ ~ entry'[c].dirty => entry'[c].touched = {}
    BY DEF DirtyBacked
  <2>1. CASE c = b
    <3>1. \A u \in old.touched : /\ u \in Pending(b) \ forfeited
                                 /\ u # t /\ u \in Tid
                                 /\ old.dirty /\ old.rows[u] = heap[u].vec
      BY <1>4 DEF RowInv, DirtyBacked, Pending
    <3> QED
      BY <2>1, <3>1, <1>1, <1>3, <1>4, <1>5, <1>6
  <2>2. CASE c # b
    <3>1. \A u \in Pending(c) : u # t /\ u \in Tid
      BY <1>4 DEF Pending
    <3> QED
      BY <2>2, <3>1, <1>3, <1>4, <1>5, <1>6 DEF RowInv, DirtyBacked
  <2> QED
    BY <2>1, <2>2
<1>10. VacuumedGone'
  BY <1>5, <1>6 DEF RowInv, VacuumedGone
<1>11. CommittedRowsIndexed'
  BY <1>4, <1>5, <1>6 DEF RowInv, CommittedRowsIndexed, Live
<1>12. NoDanglingRows'
  <2>1. \A u \in Tid : IndexRow[u] # None =>
           /\ heap[u].st # "free"
           /\ heap[u].st = "pending" => /\ heap[u].own \in Backend \ {b}
                                        /\ txn[heap[u].own] = "flushed"
    BY <1>3 DEF RowInv, NoDanglingRows, PendingOwned
  <2> QED
    BY <2>1, <1>3, <1>4, <1>5 DEF NoDanglingRows
<1>13. OwnWritesKept'
  <2> SUFFICES ASSUME NEW c \in Backend, txn'[c] \in {"active", "savepoint"},
                      NEW u \in Pending(c)' \ forfeited'
               PROVE  /\ entry'[c].dirty /\ u \in entry'[c].touched
                      /\ entry'[c].rows[u] = heap'[u].vec
    BY DEF OwnWritesKept
  <2>1. CASE c = b /\ u = t
    BY <2>1, <1>1, <1>3, <1>4
  <2>2. CASE c = b /\ u # t
    <3>1. u \in Pending(b) \ forfeited /\ u \in Tid
      BY <2>2, <1>5, <1>6 DEF Pending
    <3>2. txn[b] \in {"active", "savepoint"}
      BY <3>1, <1>3 DEF RowInv, PendingOwned, Pending
    <3>3. old.dirty /\ u \in old.touched /\ old.rows[u] = heap[u].vec
      BY <3>1, <3>2 DEF RowInv, OwnWritesKept
    <3> QED
      BY <2>2, <3>1, <3>3, <1>1, <1>3, <1>4
  <2>3. CASE c # b
    BY <2>3, <1>3, <1>4, <1>5, <1>6 DEF RowInv, OwnWritesKept, Pending
  <2> QED
    BY <2>1, <2>2, <2>3
<1> QED
  BY <1>7, <1>8, <1>9, <1>10, <1>11, <1>12, <1>13 DEF RowInv

\* What the flush of a dirty entry does to the index: the touched ids get the
\* heap's vectors, nothing else changes.  (reconcile_flush_image.)
LEMMA FlushIndexRow ==
  ASSUME TypeOK, RowInv, NEW b \in Backend, entry[b].dirty,
         disk' = FlushedRelfile(entry[b])
  PROVE  /\ \A t \in entry[b].touched : IndexRow'[t] = heap[t].vec
         /\ \A t \in Tid \ entry[b].touched : IndexRow'[t] = IndexRow[t]
         /\ disk'.node = disk.node
<1> DEFINE e == entry[b]
<1>1. /\ disk'.rows = ReconcileFlushImage(e)
      /\ disk'.tomb = disk.tomb \ e.touched
      /\ disk'.node = disk.node
  BY DEF FlushedRelfile, TypeOK, Relfile
<1>2. \A t \in e.touched : t \in Tid /\ e.rows[t] = heap[t].vec /\ heap[t].vec # None
  BY NoneAssumption DEF RowInv, DirtyBacked, PendingOwned, Pending
<1> QED
  BY <1>1, <1>2 DEF IndexRow, ReconcileFlushImage

\* clear_dirty leaves a clean entry or none.
LEMMA ClearDirtyClean ==
  ASSUME NEW e \in Entry, NEW new, NEW c
  PROVE  ~ ClearDirty(e, new, c).dirty /\ ClearDirty(e, new, c).touched = {}
<1> DEFINE ver == IF disk.tomb # {} THEN -1 ELSE new.version
           kept == [e EXCEPT !.dirty = FALSE, !.touched = {},
                             !.ver = ver, !.pver = new.version]
<1>1. ~ kept.dirty /\ kept.touched = {}
  <2> HIDE DEF ver
  <2> QED
    BY DEF Entry
<1>2. ClearDirty(e, new, c) \in {NoEntry, kept}
  BY DEF ClearDirty
<1> HIDE DEF kept
<1> QED
  BY <1>1, <1>2 DEF NoEntry

\* The flush leaves a clean entry or none, and adds to the index exactly the
\* rows of the transaction that are not forfeited.
LEMMA PreCommitIndexRow ==
  ASSUME TypeOK, RowInv, NEW b \in Backend, PreCommit(b)
  PROVE  /\ ~ entry'[b].dirty /\ entry'[b].touched = {}
         /\ \A c \in Backend \ {b} : entry'[c] = entry[c]
         /\ disk'.node = disk.node
         /\ \A t \in Pending(b) \ forfeited : IndexRow'[t] = heap[t].vec
         /\ \A t \in Tid : IndexRow'[t] # IndexRow[t] => t \in Pending(b) \ forfeited
<1>0. txn[b] = "active"
  BY DEF PreCommit
<1>1. CASE entry[b].dirty
  <2>1. PICK c :
          entry' = [entry EXCEPT ![b] =
                      ClearDirty(entry[b], FlushedRelfile(entry[b]), c)]
    BY <1>1 DEF PreCommit
  <2>2. entry[b] \in Entry
    BY DEF TypeOK
  <2> DEFINE f == FlushedRelfile(entry[b])
  <2>2a. /\ ~ ClearDirty(entry[b], f, c).dirty
         /\ ClearDirty(entry[b], f, c).touched = {}
    BY <2>2, ClearDirtyClean
  <2> HIDE DEF f
  <2>3. /\ ~ entry'[b].dirty /\ entry'[b].touched = {}
        /\ \A d \in Backend \ {b} : entry'[d] = entry[d]
    BY <2>1, <2>2a DEF TypeOK, f
  <2>4. disk' = FlushedRelfile(entry[b])
    BY <1>1 DEF PreCommit
  <2>5. \A t \in entry[b].touched : t \in Pending(b) \ forfeited
    BY <1>1 DEF RowInv, DirtyBacked
  <2>6. \A t \in Pending(b) \ forfeited : t \in entry[b].touched
    BY <1>0 DEF RowInv, OwnWritesKept
  <2> QED
    BY <1>1, <2>3, <2>4, <2>5, <2>6, FlushIndexRow
<1>2. CASE ~ entry[b].dirty
  <2>1. disk' = disk /\ entry' = entry
    BY <1>2 DEF PreCommit
  <2>2. Pending(b) \ forfeited = {} /\ entry[b].touched = {}
    BY <1>2, <1>0 DEF RowInv, OwnWritesKept, DirtyBacked
  <2>3. IndexRow' = IndexRow
    BY <2>1 DEF IndexRow
  <2> QED
    BY <1>2, <2>1, <2>2, <2>3
<1> QED
  BY <1>1, <1>2

\* The commit callback writes what was touched.
LEMMA PreCommitRows ==
  ASSUME TypeOK, RowInv, NEW b \in Backend, PreCommit(b)
  PROVE  RowInv'
<1>1. /\ txn[b] = "active" /\ txn'[b] = "flushed"
      /\ \A c \in Backend \ {b} : txn'[c] = txn[c]
      /\ heap' = heap /\ vac' = vac /\ forfeited' = forfeited
  BY DEF PreCommit, TypeOK
<1>2. /\ \A c \in Backend : Pending(c)' = Pending(c)
      /\ Live' = Live /\ Dead' = Dead
  BY <1>1 DEF Pending, Live, Dead
<1>3. /\ ~ entry'[b].dirty /\ entry'[b].touched = {}
      /\ \A c \in Backend \ {b} : entry'[c] = entry[c]
      /\ disk'.node = disk.node
      /\ \A t \in Pending(b) \ forfeited : IndexRow'[t] = heap[t].vec
      /\ \A t \in Tid : IndexRow'[t] # IndexRow[t] => t \in Pending(b) \ forfeited
  BY PreCommitIndexRow
<1>4. \A t \in Pending(b) : heap[t].st = "pending" /\ heap[t].own = b /\ t \in Tid
  BY DEF Pending
<1>5. PendingOwned'
  BY <1>1, <1>2 DEF RowInv, PendingOwned
<1>6. FlushedRowsIndexed'
  <2> SUFFICES ASSUME NEW c \in Backend, txn'[c] = "flushed",
                      NEW t \in Pending(c) \ forfeited
               PROVE  IndexRow'[t] = heap[t].vec
    BY <1>1, <1>2 DEF FlushedRowsIndexed
  <2>1. CASE c = b
    BY <2>1, <1>3
  <2>2. CASE c # b
    BY <2>2, <1>1, <1>3, <1>4 DEF RowInv, FlushedRowsIndexed, Pending
  <2> QED
    BY <2>1, <2>2
<1>7. DirtyBacked'
  BY <1>1, <1>2, <1>3 DEF RowInv, DirtyBacked
<1>8. VacuumedGone'
  <2>1. \A t \in Dead : t \in Tid /\ t \notin Pending(b)
    BY DEF Dead, Pending
  <2> QED
    BY <1>1, <1>2, <1>3, <2>1 DEF RowInv, VacuumedGone
<1>9. CommittedRowsIndexed'
  <2>1. \A t \in Live : t \in Tid /\ t \notin Pending(b)
    BY DEF Live, Pending
  <2> QED
    BY <1>1, <1>2, <1>3, <2>1 DEF RowInv, CommittedRowsIndexed
<1>10. NoDanglingRows'
  <2> SUFFICES ASSUME NEW t \in Tid, IndexRow'[t] # None
               PROVE  /\ heap[t].st # "free"
                      /\ heap[t].st = "pending" => txn'[heap[t].own] = "flushed"
    BY <1>1 DEF NoDanglingRows
  <2>1. CASE t \in Pending(b)
    BY <2>1, <1>1, <1>4
  <2>2. CASE t \notin Pending(b)
    <3>1. /\ heap[t].st # "free"
          /\ heap[t].st = "pending" => /\ heap[t].own \in Backend \ {b}
                                       /\ txn[heap[t].own] = "flushed"
      BY <2>2, <1>3 DEF RowInv, NoDanglingRows, PendingOwned, Pending
    <3> QED
      BY <3>1, <1>1
  <2> QED
    BY <2>1, <2>2
<1>11. OwnWritesKept'
  BY <1>1, <1>2, <1>3 DEF RowInv, OwnWritesKept
<1> QED
  BY <1>5, <1>6, <1>7, <1>8, <1>9, <1>10, <1>11 DEF RowInv

\* The steps that leave the relfile, the cache and VACUUM alone.
LEMMA TxnRows ==
  ASSUME TypeOK, RowInv, NEW b \in Backend,
         Commit(b) \/ Savepoint(b) \/ ReleaseSavepoint(b)
  PROVE  RowInv'
<1>1. /\ disk' = disk /\ entry' = entry /\ vac' = vac /\ forfeited' = forfeited
      /\ IndexRow' = IndexRow
      /\ \A c \in Backend \ {b} : txn'[c] = txn[c]
  BY DEF Commit, Savepoint, ReleaseSavepoint, IndexRow, TypeOK
<1>2. CASE Commit(b)
  <2>1. txn[b] = "flushed" /\ txn'[b] = "idle" /\ ~ entry[b].dirty
    BY <1>2 DEF Commit, TypeOK, RowInv, DirtyBacked
  <2>2. \A t \in Tid : heap'[t] = IF t \in Pending(b) THEN Committed(heap[t])
                                 ELSE heap[t]
    BY <1>2 DEF Commit
  <2>3. \A t \in Pending(b) : /\ t \in Tid /\ heap[t].st = "pending" /\ heap[t].own = b
                              /\ heap'[t].st = "live" /\ heap'[t].vec = heap[t].vec
    BY <2>2 DEF Committed, Pending, TypeOK, Tuple
  <2>4. \A t \in Tid \ Pending(b) : heap'[t] = heap[t]
    BY <2>2
  <2>5. /\ \A c \in Backend \ {b} : Pending(c)' = Pending(c)
        /\ Pending(b)' = {}
        /\ Live' = Live \cup Pending(b) /\ Dead' = Dead
    BY <2>3, <2>4 DEF Pending, Live, Dead
  <2>6. PendingOwned'
    BY <1>1, <2>1, <2>3, <2>4 DEF RowInv, PendingOwned, Pending
  <2>7. FlushedRowsIndexed'
    <3>1. \A c \in Backend \ {b} : \A t \in Pending(c) : heap'[t] = heap[t]
      BY <2>3, <2>4 DEF Pending
    <3> QED
      BY <1>1, <2>1, <2>5, <3>1 DEF RowInv, FlushedRowsIndexed
  <2>8. DirtyBacked'
    <3>1. \A c \in Backend \ {b} : \A t \in Pending(c) : heap'[t] = heap[t]
      BY <2>3, <2>4 DEF Pending
    <3> QED
      BY <1>1, <2>1, <2>5, <3>1 DEF RowInv, DirtyBacked
  <2>9. VacuumedGone'
    BY <1>1, <2>5 DEF RowInv, VacuumedGone
  <2>10. CommittedRowsIndexed'
    <3>1. \A t \in Live : heap'[t] = heap[t]
      BY <2>3, <2>4 DEF Live
    <3>2. \A t \in Pending(b) \ forfeited : IndexRow[t] = heap[t].vec
      BY <2>1 DEF RowInv, FlushedRowsIndexed
    <3> QED
      BY <1>1, <2>3, <2>5, <3>1, <3>2 DEF RowInv, CommittedRowsIndexed
  <2>11. NoDanglingRows'
    <3> SUFFICES ASSUME NEW t \in Tid, IndexRow[t] # None
                 PROVE  /\ heap'[t].st # "free"
                        /\ heap'[t].st = "pending" => txn'[heap'[t].own] = "flushed"
      BY <1>1 DEF NoDanglingRows
    <3>1. CASE t \in Pending(b)
      BY <3>1, <2>3
    <3>2. CASE t \notin Pending(b)
      BY <3>2, <1>1, <2>4 DEF RowInv, NoDanglingRows, PendingOwned, Pending
    <3> QED
      BY <3>1, <3>2
  <2>12. OwnWritesKept'
    <3>1. \A c \in Backend \ {b} : \A t \in Pending(c) : heap'[t] = heap[t]
      BY <2>3, <2>4 DEF Pending
    <3> QED
      BY <1>1, <2>1, <2>5, <3>1 DEF RowInv, OwnWritesKept
  <2> QED
    BY <2>6, <2>7, <2>8, <2>9, <2>10, <2>11, <2>12 DEF RowInv
<1>3. CASE Savepoint(b) \/ ReleaseSavepoint(b)
  <2>1. /\ txn[b] \in {"active", "savepoint"} /\ txn'[b] \in {"active", "savepoint"}
    BY <1>3 DEF Savepoint, ReleaseSavepoint, TypeOK
  <2>2. \A t \in Tid : /\ heap'[t].st = heap[t].st /\ heap'[t].vec = heap[t].vec
                       /\ heap'[t].own = heap[t].own
    <3>1. CASE Savepoint(b)
      BY <3>1 DEF Savepoint
    <3>2. CASE ReleaseSavepoint(b)
      <4>1. \A u \in Tuple : /\ Released(u).st = u.st /\ Released(u).vec = u.vec
                             /\ Released(u).own = u.own
        BY DEF Released, Tuple
      <4> QED
        BY <3>2, <4>1 DEF ReleaseSavepoint, TypeOK
    <3> QED
      BY <1>3, <3>1, <3>2
  <2>3. /\ \A c \in Backend : Pending(c)' = Pending(c)
        /\ Live' = Live /\ Dead' = Dead
    BY <2>2 DEF Pending, Live, Dead
  <2>4. PendingOwned'
    BY <1>1, <2>1, <2>2 DEF RowInv, PendingOwned
  <2>5. FlushedRowsIndexed'
    BY <1>1, <2>1, <2>2, <2>3 DEF RowInv, FlushedRowsIndexed, Pending
  <2>6. DirtyBacked'
    BY <1>1, <2>1, <2>2, <2>3 DEF RowInv, DirtyBacked, Pending
  <2>7. VacuumedGone'
    BY <1>1, <2>3 DEF RowInv, VacuumedGone
  <2>8. CommittedRowsIndexed'
    BY <1>1, <2>2, <2>3 DEF RowInv, CommittedRowsIndexed, Live
  <2>9. NoDanglingRows'
    BY <1>1, <2>1, <2>2 DEF RowInv, NoDanglingRows, PendingOwned
  <2>10. OwnWritesKept'
    BY <1>1, <2>1, <2>2, <2>3 DEF RowInv, OwnWritesKept, Pending
  <2> QED
    BY <2>4, <2>5, <2>6, <2>7, <2>8, <2>9, <2>10 DEF RowInv
<1> QED
  BY <1>2, <1>3

\* The callbacks of an abort drop what is dirty and keep what is clean.
LEMMA InvalidateDirtyClean ==
  ASSUME NEW e, ~ e.dirty => e.touched = {}
  PROVE  ~ InvalidateDirty(e).dirty /\ InvalidateDirty(e).touched = {}
  BY DEF InvalidateDirty, NoEntry

\* An abort leaves what the index holds of the rows behind.
LEMMA AbortRows ==
  ASSUME TypeOK, RowInv, NEW b \in Backend, Abort(b)
  PROVE  RowInv'
<1>1. /\ disk' = disk /\ vac' = vac /\ IndexRow' = IndexRow
      /\ txn'[b] = "idle" /\ \A c \in Backend \ {b} : txn'[c] = txn[c]
      /\ forfeited' = forfeited \ Pending(b)
  BY DEF Abort, IndexRow, TypeOK
<1>2. /\ ~ entry'[b].dirty /\ entry'[b].touched = {}
      /\ \A c \in Backend \ {b} : entry'[c] = entry[c]
  <2>1. ~ entry[b].dirty => entry[b].touched = {}
    BY DEF RowInv, DirtyBacked
  <2>2. ~ InvalidateDirty(entry[b]).dirty /\ InvalidateDirty(entry[b]).touched = {}
    BY <2>1, InvalidateDirtyClean
  <2> QED
    BY <2>2 DEF Abort, TypeOK
<1>3. /\ \A t \in Pending(b) : /\ t \in Tid /\ heap[t].st = "pending" /\ heap[t].own = b
                               /\ heap'[t].st = "dead"
      /\ \A t \in Tid \ Pending(b) : heap'[t] = heap[t]
  BY DEF Abort, DeadTuple, Pending
<1>4. /\ Pending(b)' = {}
      /\ \A c \in Backend \ {b} : Pending(c)' = Pending(c)
      /\ \A c \in Backend \ {b} : \A t \in Pending(c) : heap'[t] = heap[t]
                                                     /\ t \notin Pending(b)
      /\ Live' = Live /\ \A t \in Live : heap'[t] = heap[t] /\ t \notin Pending(b)
      /\ Dead \subseteq Dead'
  BY <1>3 DEF Pending, Live, Dead
<1>5. PendingOwned'
  BY <1>1, <1>3 DEF RowInv, PendingOwned, Pending
<1>6. FlushedRowsIndexed'
  BY <1>1, <1>4 DEF RowInv, FlushedRowsIndexed
<1>7. DirtyBacked'
  BY <1>1, <1>2, <1>4 DEF RowInv, DirtyBacked
<1>8. VacuumedGone'
  BY <1>1, <1>4 DEF RowInv, VacuumedGone
<1>9. CommittedRowsIndexed'
  BY <1>1, <1>4 DEF RowInv, CommittedRowsIndexed
<1>10. NoDanglingRows'
  BY <1>1, <1>3 DEF RowInv, NoDanglingRows, PendingOwned, Pending
<1>11. OwnWritesKept'
  BY <1>1, <1>2, <1>4 DEF RowInv, OwnWritesKept
<1> QED
  BY <1>5, <1>6, <1>7, <1>8, <1>9, <1>10, <1>11 DEF RowInv

\* After a rollback to a savepoint every row of the transaction that is still
\* pending is forfeited: all that were not were in the copy AbortSub dropped.
LEMMA RollbackRows ==
  ASSUME TypeOK, RowInv, NEW b \in Backend, RollbackToSavepoint(b)
  PROVE  RowInv'
<1> DEFINE undone == {t \in Pending(b) : heap[t].sub}
           dropped == {t \in Pending(b) : entry[b].dirty /\ t \in entry[b].touched}
<1>1. /\ disk' = disk /\ vac' = vac /\ IndexRow' = IndexRow /\ txn' = txn
      /\ txn[b] = "savepoint"
      /\ forfeited' = (forfeited \cup dropped) \ undone
  BY DEF RollbackToSavepoint, IndexRow
<1>2. /\ ~ entry'[b].dirty /\ entry'[b].touched = {}
      /\ \A c \in Backend \ {b} : entry'[c] = entry[c]
  <2>1. ~ entry[b].dirty => entry[b].touched = {}
    BY DEF RowInv, DirtyBacked
  <2>2. ~ InvalidateDirty(entry[b]).dirty /\ InvalidateDirty(entry[b]).touched = {}
    BY <2>1, InvalidateDirtyClean
  <2> QED
    BY <2>2 DEF RollbackToSavepoint, TypeOK
<1>3. /\ \A t \in undone : t \in Pending(b) /\ heap'[t].st = "dead"
      /\ \A t \in Tid \ undone : heap'[t] = heap[t]
      /\ \A t \in Pending(b) : t \in Tid /\ heap[t].st = "pending" /\ heap[t].own = b
  BY DEF RollbackToSavepoint, DeadTuple, Pending
<1>4. \A t \in Pending(b) \ forfeited : t \in dropped
  BY <1>1 DEF RowInv, OwnWritesKept
<1>5. dropped \subseteq Pending(b) /\ undone \subseteq Pending(b)
  OBVIOUS
<1> HIDE DEF undone, dropped
<1>6. /\ Pending(b)' = Pending(b) \ undone
      /\ \A c \in Backend \ {b} : Pending(c)' = Pending(c)
      /\ \A c \in Backend \ {b} : \A t \in Pending(c) : heap'[t] = heap[t]
                                                     /\ t \notin Pending(b)
      /\ Live' = Live /\ \A t \in Live : heap'[t] = heap[t] /\ t \notin Pending(b)
      /\ Dead \subseteq Dead'
  BY <1>3, <1>5 DEF Pending, Live, Dead
<1>7. PendingOwned'
  BY <1>1, <1>3, <1>5 DEF RowInv, PendingOwned, Pending
<1>8. FlushedRowsIndexed'
  BY <1>1, <1>5, <1>6 DEF RowInv, FlushedRowsIndexed
<1>9. DirtyBacked'
  BY <1>1, <1>2, <1>5, <1>6 DEF RowInv, DirtyBacked
<1>10. VacuumedGone'
  BY <1>1, <1>6 DEF RowInv, VacuumedGone
<1>11. CommittedRowsIndexed'
  BY <1>1, <1>5, <1>6 DEF RowInv, CommittedRowsIndexed
<1>12. NoDanglingRows'
  BY <1>1, <1>3, <1>5 DEF RowInv, NoDanglingRows, Pending
<1>13. OwnWritesKept'
  BY <1>1, <1>2, <1>4, <1>5, <1>6 DEF RowInv, OwnWritesKept
<1> QED
  BY <1>7, <1>8, <1>9, <1>10, <1>11, <1>12, <1>13 DEF RowInv

\* Scans and evictions change clean entries only, VACUUM's first pass and its
\* cancellation only vac.
LEMMA CacheRows ==
  ASSUME TypeOK, RowInv, NEW b \in Backend,
         ScanBegin(b) \/ ScanOpen(b) \/ Evict(b)
  PROVE  RowInv'
<1>1. /\ heap' = heap /\ txn' = txn /\ disk' = disk /\ vac' = vac
      /\ forfeited' = forfeited
  BY DEF ScanBegin, ScanOpen, Evict
<1>2. \A c \in Backend : \/ entry'[c] = entry[c]
                         \/ /\ ~ entry[c].dirty
                            /\ ~ entry'[c].dirty /\ entry'[c].touched = {}
  <2>1. CASE ScanBegin(b)
    BY <2>1 DEF ScanBegin
  <2>2. CASE Evict(b)
    BY <2>2 DEF Evict, NoEntry, TypeOK
  <2>3. CASE ScanOpen(b)
    <3>1. \/ ScanHandle(entry[b], scan[b].ver) = entry[b]
          \/ /\ ~ entry[b].dirty
             /\ ~ ScanHandle(entry[b], scan[b].ver).dirty
             /\ ScanHandle(entry[b], scan[b].ver).touched = {}
      <4>1. CASE ScanHit(entry[b], scan[b].ver)
        BY <4>1 DEF ScanHandle
      <4>2. CASE ~ ScanHit(entry[b], scan[b].ver)
        <5>1. ~ entry[b].dirty
          BY <4>2 DEF ScanHit, RowInv, DirtyBacked
        <5> QED
          BY <4>2, <5>1 DEF ScanHandle, ScanLoad
      <4> QED
        BY <4>1, <4>2
    <3> QED
      BY <2>3, <3>1 DEF ScanOpen, TypeOK
  <2> QED
    BY <2>1, <2>2, <2>3
<1>3. /\ IndexRow' = IndexRow /\ Live' = Live /\ Dead' = Dead
      /\ \A c \in Backend : Pending(c)' = Pending(c)
  BY <1>1 DEF IndexRow, Live, Dead, Pending
<1>4. DirtyBacked'
  BY <1>1, <1>2, <1>3 DEF RowInv, DirtyBacked
<1>5. OwnWritesKept'
  BY <1>1, <1>2, <1>3 DEF RowInv, OwnWritesKept
<1>6. /\ PendingOwned' /\ FlushedRowsIndexed' /\ VacuumedGone'
      /\ CommittedRowsIndexed' /\ NoDanglingRows'
  BY <1>1, <1>3 DEF RowInv, PendingOwned, FlushedRowsIndexed, VacuumedGone,
     CommittedRowsIndexed, NoDanglingRows
<1> QED
  BY <1>4, <1>5, <1>6 DEF RowInv

\* A DELETE or UPDATE leaves the index alone.
LEMMA DeleteRows ==
  ASSUME TypeOK, RowInv, NEW t \in Tid, Delete(t)
  PROVE  RowInv'
<1>1. /\ txn' = txn /\ disk' = disk /\ entry' = entry /\ vac' = vac
      /\ IndexRow' = IndexRow /\ forfeited' = forfeited \ {t}
  BY DEF Delete, IndexRow
<1>2. /\ heap[t].st = "live" /\ heap'[t].st = "dead"
      /\ \A u \in Tid \ {t} : heap'[u] = heap[u]
  BY DEF Delete, DeadTuple, TypeOK
<1>3. /\ \A c \in Backend : /\ Pending(c)' = Pending(c)
                            /\ \A u \in Pending(c) : heap'[u] = heap[u] /\ u # t
      /\ Live' = Live \ {t} /\ \A u \in Live \ {t} : heap'[u] = heap[u]
      /\ Dead \subseteq Dead'
  BY <1>2 DEF Pending, Live, Dead
<1>4. PendingOwned'
  BY <1>1, <1>2 DEF RowInv, PendingOwned
<1>5. FlushedRowsIndexed'
  BY <1>1, <1>3 DEF RowInv, FlushedRowsIndexed
<1>6. DirtyBacked'
  BY <1>1, <1>3 DEF RowInv, DirtyBacked
<1>7. VacuumedGone'
  BY <1>1, <1>3 DEF RowInv, VacuumedGone
<1>8. CommittedRowsIndexed'
  BY <1>1, <1>3 DEF RowInv, CommittedRowsIndexed
<1>9. NoDanglingRows'
  BY <1>1, <1>2 DEF RowInv, NoDanglingRows
<1>10. OwnWritesKept'
  BY <1>1, <1>3 DEF RowInv, OwnWritesKept
<1> QED
  BY <1>4, <1>5, <1>6, <1>7, <1>8, <1>9, <1>10 DEF RowInv

\* ambulkdelete takes rows of dead tuples out of the index, all that VACUUM
\* collected and no other.
LEMMA BulkDeleteIndexRow ==
  ASSUME TypeOK, AmBulkDelete
  PROVE  /\ \A t \in vac.dead : IndexRow'[t] = None
         /\ \A t \in Tid \ vac.dead : IndexRow'[t] = IndexRow[t]
         /\ disk'.node = disk.node
<1> DEFINE slots == {t \in vac.dead : disk.rows[t] # None}
<1>1. vac.dead \subseteq Tid
  BY DEF TypeOK
<1>2. CASE slots = {}
  <2>1. disk' = disk
    BY <1>2 DEF AmBulkDelete
  <2> QED
    BY <1>1, <1>2, <2>1 DEF IndexRow
<1>3. CASE slots # {} /\ Ivf
  <2>1. disk' = SlotsTombstoned(slots)
    BY <1>3 DEF AmBulkDelete
  <2>2. disk'.tomb = disk.tomb \cup slots /\ disk'.rows = disk.rows
        /\ disk'.node = disk.node
    BY <2>1 DEF SlotsTombstoned, TypeOK, Relfile
  <2> QED
    BY <1>1, <2>2 DEF IndexRow
<1>4. CASE slots # {} /\ ~ Ivf
  <2>1. disk' = SlotsRemoved(slots)
    BY <1>4 DEF AmBulkDelete
  <2>2. disk'.tomb = disk.tomb /\ disk'.rows = RowsWithout(slots)
        /\ disk'.node = disk.node
    BY <2>1 DEF SlotsRemoved, TypeOK, Relfile
  <2> QED
    BY <1>1, <2>2 DEF IndexRow, RowsWithout
<1> QED
  BY <1>2, <1>3, <1>4

\* VACUUM takes rows from the index before the heap reuses their TIDs.
LEMMA VacuumRows ==
  ASSUME TypeOK, RowInv,
         (\E D \in SUBSET Tid : VacuumCollect(D)) \/ AmBulkDelete
           \/ VacuumHeap \/ VacuumCancel
  PROVE  RowInv'
<1>1. txn' = txn /\ entry' = entry /\ forfeited' = forfeited
  BY DEF VacuumCollect, AmBulkDelete, VacuumHeap, VacuumCancel
<1>2. disk'.node = disk.node /\ \A t \in Tid \ Dead : IndexRow'[t] = IndexRow[t]
  <2>1. CASE AmBulkDelete
    BY <2>1, BulkDeleteIndexRow DEF AmBulkDelete, RowInv, VacuumedGone
  <2>2. CASE ~ AmBulkDelete
    BY <2>2 DEF VacuumCollect, VacuumHeap, VacuumCancel, IndexRow
  <2> QED
    BY <2>1, <2>2
<1>3. \A t \in Tid : IndexRow'[t] # None => IndexRow[t] # None
  <2>1. CASE AmBulkDelete
    BY <2>1, BulkDeleteIndexRow
  <2>2. CASE ~ AmBulkDelete
    BY <2>2 DEF VacuumCollect, VacuumHeap, VacuumCancel, IndexRow
  <2> QED
    BY <2>1, <2>2
<1>4. /\ \A t \in Tid \ Dead : heap'[t] = heap[t]
      /\ \A t \in Dead : heap'[t].st \in {"dead", "free"}
      /\ \A t \in Dead : heap'[t].st = "free" => IndexRow'[t] = None
  <2>1. CASE VacuumHeap
    <3>1. vac.dead \subseteq Dead /\ \A t \in vac.dead : IndexRow[t] = None
      BY <2>1 DEF VacuumHeap, RowInv, VacuumedGone
    <3>2. IndexRow' = IndexRow
      BY <2>1 DEF VacuumHeap, IndexRow
    <3>3. \A t \in Tid : heap'[t] = IF t \in vac.dead THEN FreeTuple ELSE heap[t]
      BY <2>1 DEF VacuumHeap
    <3> QED
      BY <3>1, <3>2, <3>3 DEF FreeTuple, Dead
  <2>2. CASE ~ VacuumHeap
    BY <2>2 DEF VacuumCollect, AmBulkDelete, VacuumCancel, Dead
  <2> QED
    BY <2>1, <2>2
<1>5. /\ \A c \in Backend : /\ Pending(c)' = Pending(c)
                            /\ \A u \in Pending(c) : heap'[u] = heap[u] /\ u \in Tid \ Dead
      /\ Live' = Live
      /\ \A u \in Live : heap'[u] = heap[u] /\ u \in Tid \ Dead
  BY <1>4 DEF Pending, Live, Dead
<1>6. PendingOwned'
  BY <1>1, <1>4 DEF RowInv, PendingOwned, Dead
<1>7. FlushedRowsIndexed'
  BY <1>1, <1>2, <1>5 DEF RowInv, FlushedRowsIndexed
<1>8. DirtyBacked'
  BY <1>1, <1>2, <1>5 DEF RowInv, DirtyBacked
<1>9. VacuumedGone'
  <2>1. CASE \E D \in SUBSET Tid : VacuumCollect(D)
    BY <2>1 DEF VacuumCollect, VacuumedGone, Dead
  <2>2. CASE AmBulkDelete
    <3>1. vac'.dead = vac.dead /\ vac.dead \subseteq Dead /\ Dead' = Dead
      BY <2>2 DEF AmBulkDelete, RowInv, VacuumedGone, TypeOK, Dead
    <3> QED
      BY <2>2, <3>1, BulkDeleteIndexRow DEF VacuumedGone
  <2>3. CASE VacuumHeap \/ VacuumCancel
    BY <2>3 DEF VacuumHeap, VacuumCancel, VacuumedGone
  <2> QED
    BY <2>1, <2>2, <2>3
<1>10. CommittedRowsIndexed'
  BY <1>1, <1>2, <1>5 DEF RowInv, CommittedRowsIndexed
<1>11. NoDanglingRows'
  BY <1>1, <1>3, <1>4 DEF RowInv, NoDanglingRows, Dead
<1>12. OwnWritesKept'
  BY <1>1, <1>5 DEF RowInv, OwnWritesKept
<1> QED
  BY <1>6, <1>7, <1>8, <1>9, <1>10, <1>11, <1>12 DEF RowInv

\* With every transaction ended there is no pending tuple and no dirty entry.
LEMMA ReindexRows ==
  ASSUME TypeOK, RowInv, Reindex
  PROVE  RowInv'
<1>1. /\ heap' = heap /\ txn' = txn /\ entry' = entry /\ vac' = vac
      /\ forfeited' = {} /\ vac.phase = "idle"
      /\ \A b \in Backend : txn[b] = "idle"
  BY DEF Reindex
<1>2. \A t \in Tid : IndexRow'[t] = IF t \in Live THEN heap[t].vec ELSE None
  BY DEF Reindex, IndexRow
<1>3. /\ \A t \in Tid : heap[t].st # "pending"
      /\ \A b \in Backend : /\ Pending(b) = {} /\ Pending(b)' = {}
                            /\ ~ entry[b].dirty /\ entry[b].touched = {}
  BY <1>1 DEF RowInv, PendingOwned, DirtyBacked, Pending
<1>4. PendingOwned'
  BY <1>1 DEF RowInv, PendingOwned
<1>5. FlushedRowsIndexed' /\ DirtyBacked' /\ OwnWritesKept' /\ VacuumedGone'
  BY <1>1, <1>3 DEF FlushedRowsIndexed, DirtyBacked, OwnWritesKept, VacuumedGone
<1>6. CommittedRowsIndexed'
  BY <1>1, <1>2 DEF CommittedRowsIndexed, Live
<1>7. NoDanglingRows'
  BY <1>1, <1>2 DEF NoDanglingRows, Live
<1> QED
  BY <1>4, <1>5, <1>6, <1>7 DEF RowInv

\* A crash loses what backends have, not what is written.
LEMMA CrashRows ==
  ASSUME TypeOK, RowInv, Crash
  PROVE  RowInv'
<1>1. /\ disk' = disk /\ IndexRow' = IndexRow
      /\ vac' = [phase |-> "idle", dead |-> {}]
      /\ forfeited' = forfeited \ {t \in Tid : heap[t].st = "pending"}
      /\ \A b \in Backend : txn'[b] = "idle" /\ entry'[b] = NoEntry
  BY DEF Crash, IndexRow
<1>2. \A t \in Tid : /\ heap[t].st = "pending" => heap'[t].st = "dead"
                     /\ heap[t].st # "pending" => heap'[t] = heap[t]
  BY DEF Crash, DeadTuple
<1>3. \A t \in Tid : /\ heap'[t].st # "pending"
                     /\ heap'[t].st = "live" <=> heap[t].st = "live"
                     /\ heap[t].st = "live" => heap'[t] = heap[t]
  <2> TAKE t \in Tid
  <2>1. CASE heap[t].st = "pending"
    BY <2>1, <1>2
  <2>2. CASE heap[t].st # "pending"
    BY <2>2, <1>2
  <2> QED
    BY <2>1, <2>2
<1>4. PendingOwned'
  BY <1>1, <1>2, <1>3 DEF RowInv, PendingOwned
<1>5. FlushedRowsIndexed' /\ DirtyBacked' /\ OwnWritesKept' /\ VacuumedGone'
  <2>1. vac'.phase = "idle"
    BY <1>1
  <2>2. /\ \A b \in Backend : txn'[b] \notin {"active", "savepoint", "flushed"}
        /\ \A b \in Backend : ~ entry'[b].dirty /\ entry'[b].touched = {}
    BY <1>1 DEF NoEntry
  <2> QED
    BY <2>1, <2>2 DEF FlushedRowsIndexed, DirtyBacked, OwnWritesKept, VacuumedGone
<1>6. CommittedRowsIndexed'
  BY <1>1, <1>3 DEF RowInv, CommittedRowsIndexed, Live
<1>7. NoDanglingRows'
  BY <1>1, <1>2, <1>3 DEF RowInv, NoDanglingRows
<1> QED
  BY <1>4, <1>5, <1>6, <1>7 DEF RowInv

-----------------------------------------------------------------------------
\* Every step keeps what the index holds of the rows.
LEMMA RowStep == TypeOK /\ RowInv /\ [Next]_vars => RowInv'
<1> SUFFICES ASSUME TypeOK, RowInv, [Next]_vars PROVE RowInv'
  OBVIOUS
<1>1. CASE UNCHANGED vars
  BY <1>1 DEF vars, RowInv, PendingOwned, FlushedRowsIndexed, DirtyBacked,
     VacuumedGone, CommittedRowsIndexed, NoDanglingRows, OwnWritesKept,
     IndexRow, Pending, Live, Dead
<1>2. ASSUME NEW b \in Backend, BackendStep(b) PROVE RowInv'
  BY <1>2, InsertRows, PreCommitRows, TxnRows, AbortRows, RollbackRows, CacheRows
     DEF BackendStep
<1>3. CASE Next
  BY <1>2, <1>3, DeleteRows, VacuumRows, ReindexRows, CrashRows DEF Next
<1> QED
  BY <1>1, <1>3

\* The inductive invariant of the write path holds in every reachable state.
THEOREM RowsInvariant == Spec => []RowInv
<1>1. TypeOK /\ RowInv /\ [Next]_vars => RowInv'
  BY RowStep
<1> QED
  BY RowInit, <1>1, TypeCorrect, PTL DEF Spec

\* Every committed row is indexed with its own vector, but for those a
\* savepoint rollback dropped, whatever the number of backends and TIDs.
THEOREM CommittedRowsAlwaysIndexed == Spec => []CommittedRowsIndexed
<1>1. RowInv => CommittedRowsIndexed
  BY DEF RowInv
<1> QED
  BY <1>1, RowsInvariant, PTL

\* The index never names a free TID nor a tuple that can still be rolled back
\* to a savepoint.
THEOREM NeverDanglingRows == Spec => []NoDanglingRows
<1>1. RowInv => NoDanglingRows
  BY DEF RowInv
<1> QED
  BY <1>1, RowsInvariant, PTL

\* A transaction's unflushed rows stay in its backend's copy until the flush.
THEOREM OwnWritesAlwaysKept == Spec => []OwnWritesKept
<1>1. RowInv => OwnWritesKept
  BY DEF RowInv
<1> QED
  BY <1>1, RowsInvariant, PTL

-----------------------------------------------------------------------------
(* What a scan gets.                                                       *)

\* A scan that loads the relfile, or takes a copy that is the relfile and can
\* apply its tombstones, sees the index as it is.  (scan_lookup, scan_install.)
LEMMA ServesIndexRow ==
  ASSUME TypeOK, NEW e \in Entry, NEW v \in Nat,
         ScanHit(e, v) => e.rows = disk.rows /\ (e.kind = "mutable" => disk.tomb = {})
  PROVE  HandleRows(ScanHandle(e, v)) = IndexRow
<1>1. CASE ScanHit(e, v)
  <2>1. ScanHandle(e, v) = e /\ e.kind \in {"mutable", "readonly"}
    BY <1>1 DEF ScanHandle, ScanHit, Entry
  <2> QED
    BY <1>1, <2>1 DEF HandleRows, IndexRow
<1>2. CASE ~ ScanHit(e, v)
  <2>1. ScanHandle(e, v).kind = "readonly" /\ ScanHandle(e, v).rows = disk.rows
    BY <1>2 DEF ScanHandle, ScanLoad
  <2> QED
    BY <2>1 DEF HandleRows, IndexRow
<1> QED
  BY <1>1, <1>2

\* A scan that has just read the meta page is served every committed row.
LEMMA FreshScanServed ==
  ASSUME TypeOK, CommittedRowsIndexed, CleanCopyFresh,
         NEW b \in Backend, ~ entry[b].dirty, NEW S \in SUBSET Live
  PROVE  \A t \in S \ forfeited :
           HandleRows(ScanHandle(entry[b], disk.version))[t] = heap[t].vec
<1>1. ScanHit(entry[b], disk.version) =>
        /\ entry[b].rows = disk.rows
        /\ entry[b].kind = "mutable" => disk.tomb = {}
  BY DEF ScanHit, CleanCopyFresh
<1>2. HandleRows(ScanHandle(entry[b], disk.version)) = IndexRow
  BY <1>1, ServesIndexRow DEF TypeOK, Relfile
<1> QED
  BY <1>2 DEF CommittedRowsIndexed

\* A scan in progress stays served by a step that keeps its copy or drops it,
\* keeps the relfile's node, and revives, changes and hides no row it may return.
LEMMA ScanStaysServed ==
  ASSUME TypeOK, RowInv', ScannedRowsHeld, ScanComplete,
         NEW b \in Backend,
         scan[b].on, scan'[b] = scan[b], ~ entry[b].dirty,
         entry'[b] = entry[b] \/ entry'[b] = NoEntry,
         disk'.node = disk.node,
         \A t \in Tid : heap[t].st \in {"live", "dead"} /\ heap'[t].st = "live" =>
           /\ heap'[t] = heap[t]
           /\ t \in forfeited => t \in forfeited'
           /\ t \in disk'.tomb => t \in disk.tomb
  PROVE  RowsFound(b)'
<1> DEFINE v == scan[b].ver
<1> SUFFICES ASSUME NEW t \in (scan[b].must \cap Live') \ forfeited'
             PROVE  HandleRows(ScanHandle(entry[b], v))'[t] = heap'[t].vec
  BY DEF RowsFound
<1>1. t \in Tid /\ heap'[t].st = "live" /\ heap[t].st \in {"live", "dead"}
  BY DEF Live, ScannedRowsHeld
<1>2. /\ heap'[t] = heap[t] /\ heap[t].vec = heap'[t].vec
      /\ t \in (scan[b].must \cap Live) \ forfeited
      /\ t \in disk'.tomb => t \in disk.tomb
  BY <1>1 DEF Live
<1>3. CASE ScanHit(entry[b], v) /\ entry'[b] = entry[b]
  <2>1. HandleRows(entry[b])[t] = heap[t].vec
    <3>1. ScanHandle(entry[b], v) = entry[b]
      BY <1>3 DEF ScanHandle
    <3> QED
      BY <3>1, <1>2 DEF ScanComplete, RowsFound
  <2>2. heap[t].vec # None
    BY <1>1, <1>2, NoneAssumption DEF RowInv, PendingOwned
  <2>3. ScanHandle(entry[b], v)' = entry[b]
    BY <1>3 DEF ScanHandle, ScanHit
  <2> QED
    BY <2>1, <2>2, <2>3, <1>1, <1>2 DEF HandleRows
<1>4. CASE ~ (ScanHit(entry[b], v) /\ entry'[b] = entry[b])
  <2>1. ~ ScanHit(entry[b], v)'
    BY <1>4 DEF ScanHit, NoEntry
  <2>2. HandleRows(ScanHandle(entry[b], v))'[t] = IndexRow'[t]
    BY <2>1, <1>1 DEF ScanHandle, ScanLoad, HandleRows, IndexRow
  <2> QED
    BY <2>2, <1>1 DEF RowInv, CommittedRowsIndexed, Live
<1> QED
  BY <1>3, <1>4

-----------------------------------------------------------------------------
(* The copies.                                                             *)

\* No backend has a copy yet.
LEMMA CopyInit == Init => CopyInv
  BY DEF Init, CopyInv, CopiesNotAhead, ScannedRowsHeld, CopiesServeScans,
     CleanCopyFresh, ScanComplete, NoEntry, NoScan

\* What the steps that leave the relfile alone have in common: a backend's copy
\* is kept, dropped, or changed by an insert, and its scan goes on or ends.
LEMMA RelfileKeptCopies ==
  ASSUME TypeOK, RowInv', CopyInv, disk' = disk,
         \A b \in Backend :
           /\ scan'[b] = scan[b] \/ scan'[b] = NoScan
           /\ \/ entry'[b] = entry[b]
              \/ entry'[b] = NoEntry /\ (entry[b].dirty => ~ scan'[b].on)
              \/ entry'[b].dirty /\ entry'[b].node = disk.node
              \/ entry'[b] = ScanLoad(scan[b].ver) /\ scan[b].on /\ ~ scan'[b].on,
         \A b \in Backend : \A t \in scan'[b].must :
           /\ heap'[t].st \in {"live", "dead"}
           /\ vac'.phase # "idle" => t \notin vac'.dead,
         \A t \in Tid : heap[t].st \in {"live", "dead"} /\ heap'[t].st = "live" =>
           /\ heap'[t] = heap[t]
           /\ t \in forfeited => t \in forfeited'
  PROVE  CopyInv'
<1>1. CopiesNotAhead'
  <2> SUFFICES ASSUME NEW b \in Backend
               PROVE  LET e == entry'[b]
                      IN  /\ e.node <= disk.node
                          /\ (e.kind # "none" /\ ~ e.dirty /\ e.node = disk.node)
                               => e.ver <= disk.version
                          /\ scan'[b].on => scan'[b].ver <= disk.version
    BY DEF CopiesNotAhead
  <2>1. disk.node \in Nat /\ (scan'[b].on => scan'[b] = scan[b])
    BY DEF NoScan, TypeOK, Relfile
  <2>2. CASE entry'[b] = entry[b]
    BY <2>1, <2>2 DEF CopyInv, CopiesNotAhead
  <2>3. CASE entry'[b] = NoEntry
    BY <2>1, <2>3 DEF CopyInv, CopiesNotAhead, NoEntry
  <2>4. CASE entry'[b].dirty /\ entry'[b].node = disk.node
    BY <2>1, <2>4 DEF CopyInv, CopiesNotAhead
  <2>5. CASE entry'[b] = ScanLoad(scan[b].ver) /\ scan[b].on
    BY <2>1, <2>5 DEF CopyInv, CopiesNotAhead, ScanLoad
  <2> QED
    BY <2>2, <2>3, <2>4, <2>5
<1>2. ScannedRowsHeld'
  BY DEF ScannedRowsHeld
<1>3. CleanCopyFresh'
  <2> SUFFICES ASSUME NEW b \in Backend
               PROVE  LET e == entry'[b]
                      IN  (/\ e.kind # "none" /\ ~ e.dirty
                           /\ e.node = disk.node /\ e.ver = disk.version)
                            => e.rows = disk.rows /\ (e.kind = "mutable" => disk.tomb = {})
    BY DEF CleanCopyFresh
  <2>1. CASE entry'[b] = entry[b]
    BY <2>1 DEF CopyInv, CopiesServeScans, CleanCopyFresh
  <2>2. CASE entry'[b] = ScanLoad(scan[b].ver)
    BY <2>2 DEF ScanLoad
  <2>3. CASE entry'[b] = NoEntry \/ entry'[b].dirty
    BY <2>3 DEF NoEntry
  <2> QED
    BY <2>1, <2>2, <2>3
<1>4. ScanComplete'
  <2> SUFFICES ASSUME NEW b \in Backend, scan'[b].on, ~ entry'[b].dirty
               PROVE  RowsFound(b)'
    BY DEF ScanComplete
  <2>1. scan[b].on /\ scan'[b] = scan[b] /\ ~ entry[b].dirty
    BY DEF NoScan
  <2>2. entry'[b] = entry[b] \/ entry'[b] = NoEntry
    OBVIOUS
  <2> QED
    BY <2>1, <2>2, ScanStaysServed DEF CopyInv, CopiesServeScans
<1> QED
  BY <1>1, <1>2, <1>3, <1>4 DEF CopyInv, CopiesServeScans

\* What the rewrites of the relfile have in common: a new version, above the
\* one on disk, and bits set only for tuples that are dead.
LEMMA VersionRisesCopies ==
  ASSUME TypeOK, RowInv, RowInv', CopyInv,
         disk'.node = disk.node, disk'.version \in Nat, disk'.version > disk.version,
         heap' = heap, forfeited' = forfeited, scan' = scan,
         vac'.dead = vac.dead, vac'.phase # "idle" => vac.phase # "idle",
         \A t \in Live : t \in disk'.tomb => t \in disk.tomb,
         \A b \in Backend :
           \/ entry'[b] = entry[b]
           \/ entry'[b] = NoEntry /\ ~ scan[b].on
           \/ /\ ~ scan[b].on
              /\ entry'[b].node = disk.node
              /\ \/ entry'[b].ver = -1
                 \/ /\ entry'[b].ver = disk'.version
                    /\ entry'[b].rows = disk'.rows /\ disk'.tomb = {}
  PROVE  CopyInv'
<1>1. disk.version \in Nat /\ disk.node \in Nat
  BY DEF TypeOK, Relfile
<1>2. \A b \in Backend : entry[b].ver \in Int /\ scan[b].ver \in Nat
  BY DEF TypeOK, Entry
<1>3. CopiesNotAhead'
  BY <1>1, <1>2 DEF CopyInv, CopiesNotAhead, NoEntry
<1>4. ScannedRowsHeld'
  BY DEF CopyInv, ScannedRowsHeld
<1>5. CleanCopyFresh'
  BY <1>1, <1>2 DEF CopyInv, CopiesNotAhead, CleanCopyFresh, NoEntry
<1>6. ScanComplete'
  <2> SUFFICES ASSUME NEW b \in Backend, scan'[b].on, ~ entry'[b].dirty
               PROVE  RowsFound(b)'
    BY DEF ScanComplete
  <2>1. scan[b].on /\ scan'[b] = scan[b] /\ ~ entry[b].dirty /\ entry'[b] = entry[b]
    OBVIOUS
  <2> QED
    BY <2>1, ScanStaysServed DEF CopyInv, CopiesServeScans, Live
<1> QED
  BY <1>3, <1>4, <1>5, <1>6 DEF CopyInv, CopiesServeScans

\* aminsert changes a copy that it makes dirty, of a backend that has no scan in
\* progress, and a TID that no scan holds.
LEMMA InsertCopies ==
  ASSUME TypeOK, RowInv, RowInv', CopyInv,
         NEW b \in Backend, NEW t \in Tid, NEW v \in Vec, Insert(b, t, v)
  PROVE  CopyInv'
<1>1. /\ disk' = disk /\ scan' = scan /\ vac' = vac /\ forfeited' = forfeited
      /\ heap[t].st = "free" /\ heap'[t].st = "pending"
      /\ \A u \in Tid \ {t} : heap'[u] = heap[u]
  BY DEF Insert, TypeOK
<1> DEFINE new == MarkDirty(CopyForInsert(entry[b]), t, v)
<1>2. new.dirty /\ new.node = disk.node /\ entry' = [entry EXCEPT ![b] = new]
  BY InsertEntry DEF RowInv, Insert
<1> HIDE DEF new
<1>3. \A c \in Backend : \/ entry'[c] = entry[c]
                         \/ entry'[c].dirty /\ entry'[c].node = disk.node
  <2>1. entry'[b] = new /\ \A c \in Backend \ {b} : entry'[c] = entry[c]
    BY <1>2 DEF TypeOK
  <2>2. entry'[b].dirty /\ entry'[b].node = disk.node
    BY <1>2, <2>1
  <2> QED
    BY <2>1, <2>2
<1>4. \A c \in Backend : \A u \in scan'[c].must :
        /\ heap'[u].st \in {"live", "dead"}
        /\ vac'.phase # "idle" => u \notin vac'.dead
  BY <1>1 DEF CopyInv, ScannedRowsHeld, TypeOK
<1> QED
  BY <1>1, <1>3, <1>4, RelfileKeptCopies

\* The flush of a dirty copy, which is then dropped or is what was written.
LEMMA PreCommitCopies ==
  ASSUME TypeOK, RowInv, RowInv', CopyInv, NEW b \in Backend, PreCommit(b)
  PROVE  CopyInv'
<1> DEFINE e == entry[b]
           new == FlushedRelfile(e)
<1>1. heap' = heap /\ scan' = scan /\ vac' = vac /\ forfeited' = forfeited /\ ~ scan[b].on
  BY DEF PreCommit
<1>2. CASE ~ e.dirty
  <2>1. disk' = disk /\ entry' = entry
    BY <1>2 DEF PreCommit
  <2>2. \A c \in Backend : \A u \in scan'[c].must :
          /\ heap'[u].st \in {"live", "dead"}
          /\ vac'.phase # "idle" => u \notin vac'.dead
    BY <1>1 DEF CopyInv, ScannedRowsHeld
  <2> QED
    BY <1>1, <2>1, <2>2, RelfileKeptCopies
<1>3. CASE e.dirty
  <2>1. disk' = new
    BY <1>3 DEF PreCommit
  <2>2. /\ new.node = disk.node /\ new.tomb = disk.tomb \ e.touched
        /\ new.version \in Nat /\ new.version > disk.version
    BY NextAmVersionRises DEF FlushedRelfile, TypeOK, Relfile, Entry
  <2>3. e \in Entry /\ e.node = disk.node
    BY <1>3 DEF TypeOK, RowInv, DirtyBacked
  <2>4. PICK isCurrent \in {FALSE, new.rows = e.rows} :
          entry' = [entry EXCEPT ![b] = ClearDirty(e, new, isCurrent)]
    BY <1>3 DEF PreCommit
  <2>5. entry'[b] = ClearDirty(e, new, isCurrent)
        /\ \A c \in Backend \ {b} : entry'[c] = entry[c]
    BY <2>4 DEF TypeOK
  <2> HIDE DEF new, e
  <2>6. \/ ClearDirty(e, new, isCurrent) = NoEntry
        \/ LET kept == ClearDirty(e, new, isCurrent)
           IN  /\ kept.node = e.node /\ kept.rows = e.rows /\ new.rows = e.rows
               /\ kept.ver = IF disk.tomb # {} THEN -1 ELSE new.version
    <3>1. CASE ~ isCurrent
      BY <3>1 DEF ClearDirty
    <3>2. CASE isCurrent
      <4>1. new.rows = e.rows
        BY <3>2
      <4> DEFINE ver == IF disk.tomb # {} THEN -1 ELSE new.version
      <4>2. ClearDirty(e, new, isCurrent) =
              [e EXCEPT !.dirty = FALSE, !.touched = {}, !.ver = ver, !.pver = new.version]
        BY <3>2 DEF ClearDirty
      <4> HIDE DEF ver
      <4>3. LET kept == ClearDirty(e, new, isCurrent)
            IN  kept.node = e.node /\ kept.rows = e.rows /\ kept.ver = ver
        BY <4>2, <2>3 DEF Entry
      <4> QED
        BY <4>1, <4>3 DEF ver
    <3> QED
      BY <3>1, <3>2
  <2>6a. disk.tomb = {} => new.tomb = {}
    BY <2>2
  <2>7. \A c \in Backend :
           \/ entry'[c] = entry[c]
           \/ entry'[c] = NoEntry /\ ~ scan[c].on
           \/ /\ ~ scan[c].on
              /\ entry'[c].node = disk.node
              /\ \/ entry'[c].ver = -1
                 \/ /\ entry'[c].ver = new.version
                    /\ entry'[c].rows = new.rows /\ new.tomb = {}
    BY <1>1, <2>3, <2>5, <2>6, <2>6a
  <2> QED
    BY <1>1, <2>1, <2>2, <2>7, VersionRisesCopies
<1> QED
  BY <1>2, <1>3

\* The rest of a transaction: commit and savepoints touch no copy; a rollback
\* drops a dirty one and ends the scan.
LEMMA TxnCopies ==
  ASSUME TypeOK, RowInv, RowInv', CopyInv, NEW b \in Backend,
         \/ Commit(b) \/ Savepoint(b) \/ ReleaseSavepoint(b)
         \/ Abort(b) \/ RollbackToSavepoint(b)
  PROVE  CopyInv'
<1>1. disk' = disk /\ vac' = vac
  BY DEF Commit, Savepoint, ReleaseSavepoint, Abort, RollbackToSavepoint
<1>2. \A c \in Backend :
        /\ scan'[c] = scan[c] \/ scan'[c] = NoScan
        /\ \/ entry'[c] = entry[c]
           \/ entry'[c] = NoEntry /\ (entry[c].dirty => ~ scan'[c].on)
  <2>1. CASE Commit(b) \/ Savepoint(b) \/ ReleaseSavepoint(b)
    BY <2>1 DEF Commit, Savepoint, ReleaseSavepoint
  <2>2. CASE Abort(b) \/ RollbackToSavepoint(b)
    <3>1. /\ entry' = [entry EXCEPT ![b] = InvalidateDirty(@)]
          /\ scan' = [scan EXCEPT ![b] = NoScan]
      BY <2>2 DEF Abort, RollbackToSavepoint
    <3>2. InvalidateDirty(entry[b]) = entry[b] \/ InvalidateDirty(entry[b]) = NoEntry
      BY DEF InvalidateDirty
    <3> QED
      BY <3>1, <3>2 DEF TypeOK, NoScan
  <2> QED
    BY <2>1, <2>2
<1>3. \A t \in Tid : heap[t].st # "pending" => heap'[t] = heap[t]
  BY DEF Commit, Savepoint, ReleaseSavepoint, Abort, RollbackToSavepoint, Pending
<1>4. \A t \in Tid : heap[t].st = "live" /\ t \in forfeited => t \in forfeited'
  BY DEF Commit, Savepoint, ReleaseSavepoint, Abort, RollbackToSavepoint, Pending
<1>5. \A c \in Backend : \A t \in scan'[c].must :
        /\ heap'[t].st \in {"live", "dead"}
        /\ vac'.phase # "idle" => t \notin vac'.dead
  BY <1>1, <1>2, <1>3 DEF CopyInv, ScannedRowsHeld, NoScan, TypeOK
<1>6. \A t \in Tid : heap[t].st \in {"live", "dead"} /\ heap'[t].st = "live" =>
        heap'[t] = heap[t] /\ (t \in forfeited => t \in forfeited')
  BY <1>3, <1>4
<1> QED
  BY <1>1, <1>2, <1>5, <1>6, RelfileKeptCopies

\* A scan that begins reads the version on disk, and the rows it is to return
\* are live: not in VACUUM's hands.
LEMMA ScanBeginCopies ==
  ASSUME TypeOK, RowInv, CopyInv, NEW b \in Backend, ScanBegin(b)
  PROVE  CopyInv'
<1>1. /\ heap' = heap /\ disk' = disk /\ entry' = entry /\ vac' = vac
      /\ forfeited' = forfeited
      /\ scan'[b] = [on |-> TRUE, ver |-> disk.version, must |-> Live]
      /\ \A c \in Backend \ {b} : scan'[c] = scan[c]
  BY DEF ScanBegin, TypeOK
<1>2. CopiesNotAhead'
  BY <1>1 DEF CopyInv, CopiesNotAhead, TypeOK, Relfile
<1>3. ScannedRowsHeld'
  <2>1. \A t \in Live : heap[t].st = "live" /\ (vac.phase # "idle" => t \notin vac.dead)
    BY DEF RowInv, VacuumedGone, Live, Dead
  <2> QED
    BY <1>1, <2>1 DEF CopyInv, ScannedRowsHeld
<1>4. CleanCopyFresh'
  BY <1>1 DEF CopyInv, CopiesServeScans, CleanCopyFresh
<1>5. ScanComplete'
  <2> SUFFICES ASSUME NEW c \in Backend, scan'[c].on, ~ entry[c].dirty
               PROVE  RowsFound(c)'
    BY <1>1 DEF ScanComplete
  <2>2. CASE c = b
    <3>1. \A t \in Live \ forfeited :
             HandleRows(ScanHandle(entry[b], disk.version))[t] = heap[t].vec
      BY <2>2, FreshScanServed DEF RowInv, CopyInv, CopiesServeScans
    <3>2. (RowsFound(b))' <=> \A t \in Live \ forfeited :
             HandleRows(ScanHandle(entry[b], disk.version))[t] = heap[t].vec
      BY <1>1 DEF RowsFound, HandleRows, ScanHandle, ScanHit, ScanLoad, Live
    <3> QED
      BY <3>1, <3>2, <2>2
  <2>3. CASE c # b
    BY <2>3, <1>1 DEF CopyInv, CopiesServeScans, ScanComplete, RowsFound, HandleRows,
       ScanHandle, ScanHit, ScanLoad, Live
  <2> QED
    BY <2>2, <2>3
<1> QED
  BY <1>2, <1>3, <1>4, <1>5 DEF CopyInv, CopiesServeScans

\* The scan takes the copy it finds, or the relfile as it is now under the
\* version it read before; evictions drop clean copies.
LEMMA CacheCopies ==
  ASSUME TypeOK, RowInv', CopyInv, NEW b \in Backend, ScanOpen(b) \/ Evict(b)
  PROVE  CopyInv'
<1>1. /\ heap' = heap /\ disk' = disk /\ vac' = vac /\ forfeited' = forfeited
      /\ \A c \in Backend \ {b} : entry'[c] = entry[c] /\ scan'[c] = scan[c]
      /\ scan'[b] = scan[b] \/ scan'[b] = NoScan
  BY DEF ScanOpen, Evict, TypeOK
<1>2. \/ entry'[b] = entry[b]
      \/ entry'[b] = NoEntry /\ ~ entry[b].dirty
      \/ entry'[b] = ScanLoad(scan[b].ver) /\ scan[b].on /\ ~ scan'[b].on
  <2>1. CASE ScanOpen(b)
    <3>1. entry'[b] = ScanHandle(entry[b], scan[b].ver) /\ scan'[b] = NoScan /\ scan[b].on
      BY <2>1 DEF ScanOpen, TypeOK
    <3> QED
      BY <3>1 DEF ScanHandle, NoScan
  <2>2. CASE Evict(b)
    BY <2>2 DEF Evict, TypeOK
  <2> QED
    BY <2>1, <2>2
<1>3. \A c \in Backend :
        /\ scan'[c] = scan[c] \/ scan'[c] = NoScan
        /\ \/ entry'[c] = entry[c]
           \/ entry'[c] = NoEntry /\ (entry[c].dirty => ~ scan'[c].on)
           \/ entry'[c].dirty /\ entry'[c].node = disk.node
           \/ entry'[c] = ScanLoad(scan[c].ver) /\ scan[c].on /\ ~ scan'[c].on
  BY <1>1, <1>2
<1>4. \A c \in Backend : \A t \in scan'[c].must :
        /\ heap'[t].st \in {"live", "dead"}
        /\ vac'.phase # "idle" => t \notin vac'.dead
  BY <1>1 DEF CopyInv, ScannedRowsHeld, NoScan
<1> QED
  BY <1>1, <1>3, <1>4, RelfileKeptCopies

\* Deletion, and VACUUM on the heap.
LEMMA HeapCopies ==
  ASSUME TypeOK, RowInv, RowInv', CopyInv,
         \/ \E t \in Tid : Delete(t)
         \/ \E D \in SUBSET Tid : VacuumCollect(D)
         \/ VacuumHeap \/ VacuumCancel
  PROVE  CopyInv'
<1>1. disk' = disk /\ entry' = entry /\ scan' = scan
  BY DEF Delete, VacuumCollect, VacuumHeap, VacuumCancel
<1>2. \A u \in Tid : heap'[u].st = "live" =>
        heap'[u] = heap[u] /\ (u \in forfeited => u \in forfeited')
  BY DEF Delete, VacuumCollect, VacuumHeap, VacuumCancel, DeadTuple, FreeTuple, TypeOK
<1>3. \A c \in Backend : \A u \in scan[c].must :
        /\ heap'[u].st \in {"live", "dead"}
        /\ vac'.phase # "idle" => u \notin vac'.dead
  <2> SUFFICES ASSUME NEW c \in Backend, NEW u \in scan[c].must
               PROVE  /\ heap'[u].st \in {"live", "dead"}
                      /\ vac'.phase # "idle" => u \notin vac'.dead
    OBVIOUS
  <2>1. /\ u \in Tid /\ heap[u].st \in {"live", "dead"}
        /\ vac.phase # "idle" => u \notin vac.dead
    BY DEF CopyInv, ScannedRowsHeld, TypeOK
  <2>2. CASE \E t \in Tid : Delete(t)
    BY <2>1, <2>2 DEF Delete, DeadTuple, TypeOK
  <2>3. CASE \E D \in SUBSET Tid : VacuumCollect(D)
    BY <2>1, <2>3 DEF VacuumCollect
  <2>4. CASE VacuumHeap \/ VacuumCancel
    BY <2>1, <2>4 DEF VacuumHeap, VacuumCancel
  <2> QED
    BY <2>2, <2>3, <2>4
<1> QED
  BY <1>1, <1>2, <1>3, RelfileKeptCopies

\* ambulkdelete stamps a new version and sets bits of dead tuples only.
LEMMA BulkDeleteCopies ==
  ASSUME TypeOK, RowInv, RowInv', CopyInv, AmBulkDelete
  PROVE  CopyInv'
<1> DEFINE slots == {t \in vac.dead : disk.rows[t] # None}
<1>1. /\ heap' = heap /\ entry' = entry /\ scan' = scan /\ forfeited' = forfeited
      /\ vac.phase = "collected" /\ vac'.dead = vac.dead
  BY DEF AmBulkDelete, TypeOK
<1>2. CASE slots = {}
  <2>1. disk' = disk
    BY <1>2 DEF AmBulkDelete
  <2>2. \A c \in Backend : \A u \in scan'[c].must :
          /\ heap'[u].st \in {"live", "dead"}
          /\ vac'.phase # "idle" => u \notin vac'.dead
    BY <1>1 DEF CopyInv, ScannedRowsHeld
  <2> QED
    BY <1>1, <2>1, <2>2, RelfileKeptCopies
<1>3. CASE slots # {}
  <2>1. disk' = IF Ivf THEN SlotsTombstoned(slots) ELSE SlotsRemoved(slots)
    BY <1>3 DEF AmBulkDelete
  <2>2. disk'.node = disk.node /\ disk'.version = disk.version + 1
        /\ disk'.tomb \in {disk.tomb, disk.tomb \cup slots}
    BY <2>1, SlotsGoneType DEF SlotsTombstoned, SlotsRemoved, TypeOK, Relfile
  <2>3. disk.version \in Nat /\ disk'.version \in Nat /\ disk'.version > disk.version
    BY <2>2 DEF TypeOK, Relfile
  <2>4. \A t \in Live : t \notin slots
    BY <1>1 DEF RowInv, VacuumedGone, Live, Dead
  <2> HIDE DEF slots
  <2> QED
    BY <1>1, <2>2, <2>3, <2>4, VersionRisesCopies
<1> QED
  BY <1>2, <1>3

\* A REINDEX leaves every copy behind under another relfilenode, and a crash
\* leaves none.
LEMMA RestartCopies ==
  ASSUME TypeOK, RowInv, CopyInv, Reindex \/ Crash
  PROVE  CopyInv'
<1>1. \A b \in Backend : ~ scan'[b].on
  BY DEF Reindex, Crash, NoScan
<1>2. CASE Reindex
  <2>1. entry' = entry /\ scan' = scan /\ heap' = heap /\ vac' = vac
        /\ disk.node \in Nat /\ disk'.node = disk.node + 1
    BY <1>2 DEF Reindex, TypeOK, Relfile
  <2>2. \A b \in Backend : entry'[b].node < disk'.node
    BY <2>1 DEF CopyInv, CopiesNotAhead, TypeOK, Entry
  <2> QED
    BY <1>1, <2>1, <2>2 DEF CopyInv, CopiesNotAhead, ScannedRowsHeld, CopiesServeScans,
       CleanCopyFresh, ScanComplete, TypeOK, Entry
<1>3. CASE Crash
  <2>1. \A b \in Backend : entry'[b] = NoEntry /\ scan'[b] = NoScan
    BY <1>3 DEF Crash
  <2>2. disk' = disk /\ disk.node \in Nat
    BY <1>3 DEF Crash, TypeOK, Relfile
  <2> QED
    BY <2>1, <2>2 DEF NoEntry, NoScan, CopyInv, CopiesNotAhead, ScannedRowsHeld,
       CopiesServeScans, CleanCopyFresh, ScanComplete
<1> QED
  BY <1>2, <1>3

-----------------------------------------------------------------------------
\* Every step keeps what holds of the copies.
LEMMA CopyStep == TypeOK /\ RowInv /\ RowInv' /\ CopyInv /\ [Next]_vars => CopyInv'
<1> SUFFICES ASSUME TypeOK, RowInv, RowInv', CopyInv, [Next]_vars PROVE CopyInv'
  OBVIOUS
<1>1. CASE UNCHANGED vars
  BY <1>1 DEF vars, CopyInv, CopiesNotAhead, ScannedRowsHeld, CopiesServeScans,
     CleanCopyFresh, ScanComplete, RowsFound, HandleRows, ScanHandle, ScanHit, ScanLoad, Live
<1>2. ASSUME NEW b \in Backend, BackendStep(b) PROVE CopyInv'
  BY <1>2, InsertCopies, PreCommitCopies, TxnCopies, ScanBeginCopies, CacheCopies
     DEF BackendStep
<1>3. CASE Next
  BY <1>2, <1>3, HeapCopies, BulkDeleteCopies, RestartCopies DEF Next
<1> QED
  BY <1>1, <1>3

\* What the cached copies need to serve scans holds in every reachable state.
THEOREM CopiesInvariant == Spec => []CopyInv
<1>1. TypeOK /\ RowInv /\ RowInv' /\ CopyInv /\ [Next]_vars => CopyInv'
  BY CopyStep
<1> QED
  BY CopyInit, <1>1, TypeCorrect, RowsInvariant, PTL DEF Spec

\* A copy the meta page names is the relfile, and a scan returns every row that
\* was live when it began and still is, whatever was rewritten, vacuumed and
\* evicted meanwhile, for every number of backends, rows and versions.
THEOREM CopiesAlwaysServeScans == Spec => []CopiesServeScans
<1>1. CopyInv => CopiesServeScans
  BY DEF CopyInv
<1> QED
  BY <1>1, CopiesInvariant, PTL

-----------------------------------------------------------------------------
(* The abstract index.  AbsHeap and Ready are what RI substitutes for heap *)
(* and ready.                                                              *)

AbsTuple(u) == [st |-> u.st, vec |-> u.vec, own |-> u.own]
AbsHeap == [t \in Tid |-> [st |-> heap[t].st, vec |-> heap[t].vec, own |-> heap[t].own]]
Ready == {b \in Backend : txn[b] = "flushed"}

\* The initial states of the write path are an empty index.
LEMMA RefineInit == Init => RI!Init
  BY DEF Init, RI!Init, RI!Free, FreeTuple, IndexRow, NoRows

\* The abstract index knows a transaction's tuples as the write path does.
LEMMA AbsPending ==
  ASSUME NEW b \in Backend
  PROVE  RI!Pending(b) = Pending(b)
  BY DEF RI!Pending, Pending

\* A backend stores a tuple at a TID that the index does not name.
LEMMA InsertStores ==
  ASSUME TypeOK, RowInv, NEW b \in Backend, NEW t \in Tid, NEW v \in Vec,
         Insert(b, t, v)
  PROVE  RI!Store(b, t, v)
<1>1. /\ heap[t].st = "free" /\ txn[b] # "flushed" /\ forfeited' = forfeited
      /\ IndexRow' = IndexRow
  BY DEF Insert, IndexRow
<1>2. IndexRow[t] = None
  BY <1>1 DEF RowInv, NoDanglingRows
<1>3. Ready' = Ready
  BY DEF Insert, TypeOK, Ready
<1>4. AbsHeap' = [AbsHeap EXCEPT ![t] = [st |-> "pending", vec |-> v, own |-> b]]
  BY DEF Insert, TypeOK, AbsHeap
<1> QED
  BY <1>1, <1>2, <1>3, <1>4 DEF RI!Store, AbsHeap, Ready

\* The flush adds all the rows the transaction still owes, in one step.
LEMMA PreCommitFlushes ==
  ASSUME TypeOK, RowInv, NEW b \in Backend, PreCommit(b)
  PROVE  RI!Flush(b)
<1>1. heap' = heap /\ forfeited' = forfeited /\ txn[b] # "flushed"
  BY DEF PreCommit
<1>2. Ready' = Ready \cup {b}
  BY DEF PreCommit, Ready, TypeOK
<1>3. /\ \A t \in Pending(b) \ forfeited : IndexRow'[t] = heap[t].vec
      /\ \A t \in Tid : IndexRow'[t] # IndexRow[t] => t \in Pending(b) \ forfeited
  BY PreCommitIndexRow
<1>4. IndexRow' = [t \in Tid |-> IF t \in Pending(b) \ forfeited
                                 THEN AbsHeap[t].vec ELSE IndexRow[t]]
  BY <1>3 DEF IndexRow, AbsHeap
<1> QED
  BY <1>1, <1>2, <1>4, AbsPending DEF RI!Flush, AbsHeap, Ready

\* What the commit record does to a tuple, seen without the savepoint flag.
LEMMA CommittedAbsTuple ==
  ASSUME NEW u \in Tuple
  PROVE  AbsTuple(Committed(u)) = [AbsTuple(u) EXCEPT !.st = "live", !.own = None]
<1> DEFINE a == [AbsTuple(u) EXCEPT !.st = "live", !.own = None]
<1>1. AbsTuple(u) \in [st : {"free", "pending", "live", "dead"},
                       vec : Vec \cup {None}, own : Backend \cup {None}]
  BY DEF AbsTuple, Tuple
<1>2. a \in [st : {"free", "pending", "live", "dead"},
             vec : Vec \cup {None}, own : Backend \cup {None}]
  BY <1>1
<1>3. a.st = "live" /\ a.own = None /\ a.vec = AbsTuple(u).vec
  BY <1>1
<1> HIDE DEF a
<1>4. a = [st |-> "live", vec |-> u.vec, own |-> None]
  BY <1>2, <1>3 DEF AbsTuple
<1>5. Committed(u).st = "live" /\ Committed(u).own = None /\ Committed(u).vec = u.vec
  BY DEF Committed, Tuple
<1>6. AbsTuple(Committed(u)) = [st |-> "live", vec |-> u.vec, own |-> None]
  BY <1>5 DEF AbsTuple
<1> QED
  BY <1>4, <1>6 DEF a

\* The commit record makes the flushed tuples visible.
LEMMA CommitCommits ==
  ASSUME TypeOK, NEW b \in Backend, Commit(b)
  PROVE  RI!Commit(b)
<1>1. forfeited' = forfeited /\ IndexRow' = IndexRow /\ txn[b] = "flushed"
  BY DEF Commit, IndexRow
<1>2. Ready' = Ready \ {b}
  BY DEF Commit, Ready, TypeOK
<1>3. heap' = [t \in Tid |-> IF t \in Pending(b) THEN Committed(heap[t]) ELSE heap[t]]
  BY DEF Commit
<1>. DEFINE made(x) == [x EXCEPT !.st = "live", !.own = None]
<1>4. \A t \in Tid : heap[t] \in Tuple /\ AbsTuple(heap[t]) = AbsHeap[t]
  <2>1. heap \in [Tid -> Tuple]
    BY DEF TypeOK
  <2> QED
    BY <2>1 DEF AbsHeap, AbsTuple
<1>5. \A t \in Tid : AbsTuple(Committed(heap[t])) = made(AbsHeap[t])
  BY <1>4, CommittedAbsTuple, Zenon
<1>. HIDE DEF made
<1>6. AbsHeap' = [t \in Tid |-> IF t \in RI!Pending(b) THEN made(AbsHeap[t]) ELSE AbsHeap[t]]
  <2>1. \A t \in Tid : AbsTuple(heap'[t]) =
                         IF t \in RI!Pending(b) THEN made(AbsHeap[t]) ELSE AbsHeap[t]
    <3>1. RI!Pending(b) = Pending(b)
      BY AbsPending
    <3>2. \A t \in Tid : heap'[t] = IF t \in Pending(b) THEN Committed(heap[t]) ELSE heap[t]
      BY <1>3, Zenon
    <3> QED
      BY <1>4, <1>5, <3>1, <3>2, Zenon
  <2>2. AbsHeap' = [t \in Tid |-> AbsTuple(heap'[t])]
    BY Zenon DEF AbsHeap, AbsTuple
  <2> QED
    BY <2>1, <2>2, Zenon
<1>7. b \in Ready
  BY <1>1 DEF Ready
<1> QED
  BY <1>1, <1>2, <1>6, <1>7, Zenon DEF RI!Commit, made, AbsHeap, Ready

\* A rollback undoes tuples of its transaction; of those that stay, it loses the
\* ones that were in the dropped copy.
LEMMA RollbackUndoes ==
  ASSUME TypeOK, NEW b \in Backend, Abort(b) \/ RollbackToSavepoint(b)
  PROVE  \E U, L \in SUBSET RI!Pending(b) : RI!Undo(b, U, L)
<1> PICK undone, dropped :
      /\ undone = IF Abort(b) THEN Pending(b) ELSE {t \in Pending(b) : heap[t].sub}
      /\ dropped = IF Abort(b) THEN {}
                   ELSE {t \in Pending(b) : entry[b].dirty /\ t \in entry[b].touched}
                          \ undone
  OBVIOUS
<1>1. undone \subseteq Pending(b) /\ dropped \subseteq Pending(b) \ undone
  OBVIOUS
<1>2. IndexRow' = IndexRow
  BY DEF Abort, RollbackToSavepoint, IndexRow
<1>3. b \in Ready => undone = Pending(b)
  BY DEF RollbackToSavepoint, Ready
<1>4. Ready' = Ready \ {b}
  BY DEF Abort, RollbackToSavepoint, Ready, TypeOK
<1>5. heap' = [t \in Tid |-> IF t \in undone THEN DeadTuple ELSE heap[t]]
  BY DEF Abort, RollbackToSavepoint
<1>6. forfeited' = (forfeited \cup dropped) \ undone
  BY DEF Abort, RollbackToSavepoint
<1>7. AbsHeap' = [t \in Tid |-> IF t \in undone THEN RI!Dead ELSE AbsHeap[t]]
  BY <1>5 DEF AbsHeap, DeadTuple, RI!Dead
<1>8. RI!Undo(b, undone, dropped)
  BY <1>1, <1>2, <1>3, <1>4, <1>6, <1>7, AbsPending DEF RI!Undo, AbsHeap, Ready
<1>9. undone \in SUBSET RI!Pending(b) /\ dropped \in SUBSET RI!Pending(b)
  BY <1>1, AbsPending
<1> QED
  BY <1>8, <1>9

\* A DELETE or UPDATE marks rows deleted.
LEMMA DeleteDeletes ==
  ASSUME TypeOK, NEW t \in Tid, Delete(t)
  PROVE  RI!Delete(t)
<1>1. /\ heap[t].st = "live" /\ forfeited' = forfeited \ {t} /\ IndexRow' = IndexRow
      /\ Ready' = Ready
  BY DEF Delete, IndexRow, Ready
<1>2. AbsHeap' = [AbsHeap EXCEPT ![t] = RI!Dead]
  BY DEF Delete, TypeOK, AbsHeap, DeadTuple, RI!Dead
<1> QED
  BY <1>1, <1>2 DEF RI!Delete, AbsHeap, Ready

\* ambulkdelete removes rows of tuples that are dead.
LEMMA BulkDeleteRemoves ==
  ASSUME TypeOK, RowInv, AmBulkDelete
  PROVE  RI!Remove(vac.dead)
<1>1. heap' = heap /\ forfeited' = forfeited /\ AbsHeap' = AbsHeap /\ Ready' = Ready
  BY DEF AmBulkDelete, AbsHeap, Ready
<1>2. \A t \in vac.dead : t \in Tid /\ AbsHeap[t].st = "dead"
  BY DEF AmBulkDelete, RowInv, VacuumedGone, Dead, AbsHeap
<1>3. IndexRow' = [t \in Tid |-> IF t \in vac.dead THEN None ELSE IndexRow[t]]
  BY BulkDeleteIndexRow DEF IndexRow
<1> QED
  BY <1>1, <1>2, <1>3 DEF RI!Remove, AbsHeap, Ready

\* VACUUM's second heap pass frees TIDs the index does not name.
LEMMA VacuumReuses ==
  ASSUME TypeOK, RowInv, VacuumHeap
  PROVE  RI!Reuse(vac.dead)
<1>1. forfeited' = forfeited /\ IndexRow' = IndexRow /\ Ready' = Ready
  BY DEF VacuumHeap, IndexRow, Ready
<1>2. \A t \in vac.dead : t \in Tid /\ AbsHeap[t].st = "dead" /\ IndexRow[t] = None
  BY DEF VacuumHeap, RowInv, VacuumedGone, Dead, AbsHeap
<1>3. AbsHeap' = [t \in Tid |-> IF t \in vac.dead THEN RI!Free ELSE AbsHeap[t]]
  BY DEF VacuumHeap, AbsHeap, FreeTuple, RI!Free
<1> QED
  BY <1>1, <1>2, <1>3 DEF RI!Reuse, AbsHeap, Ready

\* REINDEX builds the index from the heap.
LEMMA ReindexRebuilds ==
  ASSUME TypeOK, Reindex
  PROVE  RI!Rebuild
<1>1. /\ forfeited' = {} /\ Ready = {} /\ Ready' = {} /\ AbsHeap' = AbsHeap
  BY DEF Reindex, AbsHeap, Ready
<1>2. IndexRow' = [t \in Tid |-> IF AbsHeap[t].st = "live" THEN AbsHeap[t].vec ELSE None]
  BY DEF Reindex, IndexRow, AbsHeap, Live
<1> QED
  BY <1>1, <1>2 DEF RI!Rebuild, AbsHeap, Ready

\* A crash takes all transactions.
LEMMA CrashCrashes ==
  ASSUME TypeOK, Crash
  PROVE  RI!Crash
<1>1. IndexRow' = IndexRow /\ Ready' = {}
  BY DEF Crash, IndexRow, Ready
<1>2. AbsHeap' = [t \in Tid |-> IF AbsHeap[t].st = "pending" THEN RI!Dead ELSE AbsHeap[t]]
  BY DEF Crash, AbsHeap, DeadTuple, RI!Dead
<1>3. forfeited' = forfeited \ {t \in Tid : AbsHeap[t].st = "pending"}
  BY DEF Crash, AbsHeap
<1> QED
  BY <1>1, <1>2, <1>3 DEF RI!Crash, AbsHeap, Ready

\* The steps the abstract index does not see.
LEMMA HiddenSteps ==
  ASSUME TypeOK,
         \/ UNCHANGED vars \/ VacuumCancel
         \/ \E D \in SUBSET Tid : VacuumCollect(D)
         \/ \E b \in Backend : \/ Savepoint(b) \/ ReleaseSavepoint(b)
                               \/ ScanBegin(b) \/ ScanOpen(b) \/ Evict(b)
  PROVE  UNCHANGED RI!vars
<1>1. disk' = disk /\ forfeited' = forfeited
  BY DEF vars, VacuumCancel, VacuumCollect, Savepoint, ReleaseSavepoint, ScanBegin,
     ScanOpen, Evict
<1>2. IndexRow' = IndexRow
  BY <1>1 DEF IndexRow
<1>3. Ready' = Ready /\ AbsHeap' = AbsHeap
  <2>1. CASE \E b \in Backend : Savepoint(b)
    BY <2>1 DEF Savepoint, TypeOK, Ready, AbsHeap
  <2>2. CASE \E b \in Backend : ReleaseSavepoint(b)
    <3>1. PICK b \in Backend : ReleaseSavepoint(b)
      BY <2>2
    <3>2. \A u \in Tuple : /\ Released(u).st = u.st /\ Released(u).vec = u.vec
                           /\ Released(u).own = u.own
      BY DEF Released, Tuple
    <3>3. \A t \in Tid : /\ heap'[t].st = heap[t].st /\ heap'[t].vec = heap[t].vec
                         /\ heap'[t].own = heap[t].own
      BY <3>1, <3>2 DEF ReleaseSavepoint, TypeOK
    <3>4. AbsHeap' = AbsHeap
      BY <3>3 DEF AbsHeap
    <3>5. Ready' = Ready
      BY <3>1 DEF ReleaseSavepoint, TypeOK, Ready
    <3> QED
      BY <3>4, <3>5
  <2>3. CASE heap' = heap /\ txn' = txn
    BY <2>3 DEF Ready, AbsHeap
  <2> QED
    BY <2>1, <2>2, <2>3
       DEF vars, VacuumCancel, VacuumCollect, ScanBegin, ScanOpen, Evict
<1> QED
  BY <1>1, <1>2, <1>3 DEF RI!vars, AbsHeap, Ready

\* Each step of the write path is one of the abstract index or hidden from it.
LEMMA RefineStep == TypeOK /\ RowInv /\ [Next]_vars => [RI!Next]_(RI!vars)
<1> SUFFICES ASSUME TypeOK, RowInv, [Next]_vars
             PROVE  RI!Next \/ UNCHANGED RI!vars
  OBVIOUS
<1>1. ASSUME NEW b \in Backend, BackendStep(b) PROVE RI!Next \/ UNCHANGED RI!vars
  <2>1. ASSUME NEW t \in Tid, NEW v \in Vec, Insert(b, t, v) PROVE RI!Next
    BY <2>1, InsertStores DEF RI!Next
  <2>2. CASE PreCommit(b)
    BY <2>2, PreCommitFlushes DEF RI!Next
  <2>3. CASE Commit(b)
    BY <2>3, CommitCommits DEF RI!Next
  <2>4. CASE Abort(b) \/ RollbackToSavepoint(b)
    BY <2>4, RollbackUndoes DEF RI!Next
  <2>5. CASE \/ Savepoint(b) \/ ReleaseSavepoint(b)
             \/ ScanBegin(b) \/ ScanOpen(b) \/ Evict(b)
    BY <2>5, HiddenSteps
  <2> QED
    BY <1>1, <2>1, <2>2, <2>3, <2>4, <2>5 DEF BackendStep
<1>2. ASSUME NEW t \in Tid, Delete(t) PROVE RI!Next
  BY <1>2, DeleteDeletes DEF RI!Next
<1>3. ASSUME NEW D \in SUBSET Tid, VacuumCollect(D) PROVE UNCHANGED RI!vars
  BY <1>3, HiddenSteps
<1>4. CASE AmBulkDelete
  <2>1. PICK D \in SUBSET Tid : D = vac.dead
    BY DEF TypeOK
  <2>2. RI!Remove(D)
    BY <1>4, <2>1, BulkDeleteRemoves, Zenon
  <2> QED
    BY <2>2 DEF RI!Next
<1>5. CASE VacuumHeap
  <2>1. PICK D \in SUBSET Tid : D = vac.dead
    BY DEF TypeOK
  <2>2. RI!Reuse(D)
    BY <1>5, <2>1, VacuumReuses, Zenon
  <2> QED
    BY <2>2 DEF RI!Next
<1>6. CASE VacuumCancel \/ UNCHANGED vars
  BY <1>6, HiddenSteps
<1>7. CASE Reindex
  BY <1>7, ReindexRebuilds DEF RI!Next
<1>8. CASE Crash
  BY <1>8, CrashCrashes DEF RI!Next
<1> QED
  BY <1>1, <1>2, <1>3, <1>4, <1>5, <1>6, <1>7, <1>8 DEF Next

\* Seen through the tombstones, the caches, versions, dirty entries and VACUUM's
\* passes implement the abstract index RowIndex, for every set of backends, TIDs
\* and vectors.
THEOREM WritePathImplementsRowIndex == Spec => ImplementsRowIndex
<1>1. TypeOK /\ RowInv /\ [Next]_vars => [RI!Next]_(RI!vars)
  BY RefineStep
<1> QED
  BY RefineInit, <1>1, TypeCorrect, RowsInvariant, PTL DEF Spec, ImplementsRowIndex, RI!Spec

=============================================================================
