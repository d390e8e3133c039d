---------------------------- MODULE BackendCache ----------------------------
(***************************************************************************)
(* One backend's cache of materialised indexes, over several indexes, and  *)
(* the deferred inserts that live in it.                                   *)
(*                                                                         *)
(* The cache is a hash map whose entries carry a sequence number of their  *)
(* last use; here it is the sequence of its entries, least recently used   *)
(* first.  Every install runs enforce_cap, which evicts clean entries in   *)
(* that order.  A dirty entry holds rows that are nowhere else until the   *)
(* PreCommit callback flushes the dirty indexes one after the other.       *)
(*                                                                         *)
(* What the relfile and other backends do to an index is DeferredFlush's   *)
(* subject; here it only decides whether an entry still matches.           *)
(***************************************************************************)
EXTENDS Sublists

CONSTANTS
  InPlace,    \* flat and IVF indexes: aminsert changes the cached copy
  Bq,         \* 1-bit indexes: insert_bq_row rewrites the relfile at once
  ScanOnly,   \* indexes and tables the backend only searches (knn, graph)
  Bytes,      \* the sizes an index can have when it is loaded
  Caps        \* the values turbovec.cache_size_mb is set to

ASSUME BytesAssumption == Bytes \subseteq Nat /\ Caps \subseteq Nat

Index == InPlace \cup Bq \cup ScanOnly

VARIABLES
  cache,     \* the entries, least recently used first
  cap,       \* turbovec.cache_size_mb
  txn,       \* the backend's transaction
  pending,   \* history: levels at which unflushed rows of index k were inserted
  vanished   \* history: an insert did not find the entry it had just installed

cacheVars == <<cache, cap, txn, pending, vanished>>

-----------------------------------------------------------------------------
(* State.                                                                  *)

\* Rows belong to the transaction itself or to its open savepoint.
Level == {"outer", "sub"}

\* match: whether the freshness pair names the entry ("fresh"), only its
\* relfilenode does ("stale"), or neither ("rewritten").  unflushed: the
\* levels of rows that are in this copy and not in the relfile.
Entry == [key : Index, bytes : Bytes, mutable : BOOLEAN, dirty : BOOLEAN,
          match : {"fresh", "stale", "rewritten"}, unflushed : SUBSET Level]

Apart(c) == \A i, j \in DOMAIN c : c[i].key = c[j].key => i = j
Keys(c) == {c[i].key : i \in DOMAIN c}
EntryOf(c, k) == c[CHOOSE i \in DOMAIN c : c[i].key = k]
Total(c) ==
  LET sum[n \in 0 .. Len(c)] == IF n = 0 THEN 0 ELSE sum[n - 1] + c[n].bytes
  IN  sum[Len(c)]
Clean(c) == Kept(c, {i \in DOMAIN c : ~ c[i].dirty})
Dirty(c) == Kept(c, {i \in DOMAIN c : c[i].dirty})
Without(c, K) == Kept(c, {i \in DOMAIN c : c[i].key \notin K})
Updated(c, new) == [i \in DOMAIN c |-> IF c[i].key = new.key THEN new ELSE c[i]]
MostRecent(c, e) == Append(Without(c, {e.key}), e)

CacheInit ==
  /\ cache = <<>>
  /\ cap \in Caps
  /\ txn = "idle"
  /\ pending = [k \in Index |-> {}]
  /\ vanished = FALSE

TypeOK ==
  /\ cache \in Seq(Entry)
  /\ Apart(cache)
  /\ cap \in Caps
  /\ txn \in {"idle", "active", "savepoint", "flushing"}
  /\ pending \in [Index -> SUBSET Level]
  /\ vanished \in BOOLEAN

-----------------------------------------------------------------------------
(* enforce_cap.                                                            *)

\* The loop of enforce_cap: drop the oldest of the given entries of c, one by
\* one, until the total fits or no more than the fewest are left.
Evicted(c, candidates, fewest) ==
  LET left(n) == Without(c, {candidates[i].key : i \in 1 .. n})
      done(n) == \/ n = Len(candidates)
                 \/ Total(left(n)) <= cap
                 \/ Len(left(n)) <= fewest
  IN  left(CHOOSE n \in 0 .. Len(candidates) :
             done(n) /\ \A m \in 0 .. n - 1 : ~ done(m))

\* Mutant: dirty entries are evicted like the others.
EnforceCapDirtyToo(c) == IF cap = 0 THEN <<>> ELSE Evicted(c, c, 1)

\* Mutant: the loop stops while two entries are left.
EnforceCapTwoLeft(c) == IF cap = 0 THEN Dirty(c) ELSE Evicted(c, Clean(c), 2)

\* Mutant: the loop may take the last entry.
EnforceCapNoneLeft(c) == IF cap = 0 THEN Dirty(c) ELSE Evicted(c, Clean(c), 0)

\* Evict the oldest clean entries until the total fits, one entry is left or
\* all that are left are dirty; cap 0 keeps the dirty entries only.
EnforceCap(c) == IF cap = 0 THEN Dirty(c) ELSE Evicted(c, Clean(c), 1)

Installed(k, bytes, mutable) ==
  EnforceCap(MostRecent(cache,
    [key |-> k, bytes |-> bytes, mutable |-> mutable, dirty |-> FALSE,
     match |-> "fresh", unflushed |-> {}]))

-----------------------------------------------------------------------------
(* Searches.                                                               *)

ScanHit(k) ==
  /\ k \in Keys(cache)
  /\ EntryOf(cache, k).match = "fresh" \/ EntryOf(cache, k).dirty

\* lookup and scan_lookup: a hit makes the entry the most recent; a miss
\* replaces it by a fresh copy and enforces the cap.
Scan(k, bytes) ==
  /\ txn # "flushing"
  /\ cache' = IF ScanHit(k) THEN MostRecent(cache, EntryOf(cache, k))
              ELSE Installed(k, bytes, FALSE)
  /\ UNCHANGED <<cap, txn, pending, vanished>>

-----------------------------------------------------------------------------
(* Inserts.                                                                *)

Begun == IF txn = "idle" THEN "active" ELSE txn
LevelNow == IF txn = "savepoint" THEN "sub" ELSE "outer"

\* am_lookup_for_mutation: am_version is not compared.
UsableForInsert(k) ==
  /\ k \in Keys(cache)
  /\ EntryOf(cache, k).mutable
  /\ EntryOf(cache, k).match # "rewritten" \/ EntryOf(cache, k).dirty

CacheForInsert(k, bytes) ==
  IF UsableForInsert(k) THEN MostRecent(cache, EntryOf(cache, k))
  ELSE Installed(k, bytes, TRUE)

\* am_mark_dirty, and the row just added to the copy.
MarkDirty(c, k) ==
  Updated(c, [EntryOf(c, k) EXCEPT !.dirty = TRUE, !.unflushed = @ \cup {LevelNow}])

\* aminsert of a flat or IVF index.
AmInsert(k, bytes) ==
  LET c == CacheForInsert(k, bytes)
  IN  /\ txn # "flushing"
      /\ k \in Keys(c)
      /\ cache' = MarkDirty(c, k)
      /\ txn' = Begun
      /\ pending' = [pending EXCEPT ![k] = @ \cup {LevelNow}]
      /\ UNCHANGED <<cap, vanished>>

\* invalidate_dirty.
NotDirty(c) == Clean(c)

\* The entry installed for the insert was evicted by its own install:
\* am_mark_dirty does not find it, and the ERROR aborts the transaction.
InsertVanished(k, bytes) ==
  LET c == CacheForInsert(k, bytes)
  IN  /\ txn # "flushing"
      /\ k \notin Keys(c)
      /\ cache' = NotDirty(c)
      /\ txn' = "idle"
      /\ pending' = [j \in Index |-> {}]
      /\ vanished' = TRUE
      /\ UNCHANGED cap

\* insert_bq_row: the relfile is rewritten now, and invalidate_all empties
\* the cache of every index.  Unflushed rows of other indexes are lost.
InsertBq ==
  /\ txn # "flushing"
  /\ cache' = <<>>
  /\ txn' = Begun
  /\ pending' = [k \in Index |-> {}]
  /\ UNCHANGED <<cap, vanished>>

-----------------------------------------------------------------------------
(* Transaction end.                                                        *)

\* The PreCommit callback has drained the dirty entries and validated them.
PreCommit ==
  /\ txn = "active"
  /\ txn' = "flushing"
  /\ UNCHANGED <<cache, cap, pending, vanished>>

\* clear_dirty of an entry it keeps.
ClearDirty(c, k, match) ==
  Updated(c, [EntryOf(c, k) EXCEPT !.dirty = FALSE, !.match = match,
                                   !.unflushed = {}])

\* One dirty index is flushed: the entry is kept as a current copy, kept
\* under a version no scan accepts (tombstones), or dropped (another writer
\* had changed the index, or it was dropped in this transaction).
Flush(k) ==
  /\ txn = "flushing"
  /\ k \in Keys(Dirty(cache))
  /\ cache' \in {ClearDirty(cache, k, "fresh"), ClearDirty(cache, k, "stale"),
                 Without(cache, {k})}
  /\ pending' = [pending EXCEPT ![k] = {}]
  /\ UNCHANGED <<cap, txn, vanished>>

\* PostgreSQL commits when the callback has gone through the dirty entries.
Commit ==
  /\ txn = "flushing"
  /\ Dirty(cache) = <<>>
  /\ txn' = "idle"
  /\ pending' = [k \in Index |-> {}]
  /\ UNCHANGED <<cache, cap, vanished>>

\* ROLLBACK, an error of a statement, or of a flush: indexes flushed before
\* it stay written.
Abort ==
  /\ txn # "idle"
  /\ txn' = "idle"
  /\ cache' = NotDirty(cache)
  /\ pending' = [k \in Index |-> {}]
  /\ UNCHANGED <<cap, vanished>>

Savepoint ==
  /\ txn = "active"
  /\ txn' = "savepoint"
  /\ UNCHANGED <<cache, cap, pending, vanished>>

Outer(L) == IF L = {} THEN {} ELSE {"outer"}

ReleaseSavepoint ==
  /\ txn = "savepoint"
  /\ txn' = "active"
  /\ cache' = [i \in DOMAIN cache |->
                 [cache[i] EXCEPT !.unflushed = Outer(@)]]
  /\ pending' = [k \in Index |-> Outer(pending[k])]
  /\ UNCHANGED <<cap, vanished>>

\* Mutant: no AbortSub callback, as before v1.29.5.
AbortSubIgnored(c) == c

\* The AbortSub callback.
AbortSub(c) == NotDirty(c)

\* ROLLBACK TO SAVEPOINT.  The rows of the outer transaction in the dropped
\* entries are lost; DeferredFlush's forfeited keeps account of them.
RollbackToSavepoint ==
  /\ txn = "savepoint"
  /\ cache' = AbortSub(cache)
  /\ pending' = [k \in Index |->
                   IF k \in Keys(Dirty(cache)) THEN {} ELSE pending[k] \ {"sub"}]
  /\ UNCHANGED <<cap, txn, vanished>>

-----------------------------------------------------------------------------
(* From outside.                                                           *)

\* Another session commits a change of the index, or VACUUM runs.
ChangedElsewhere(k) ==
  /\ k \in Keys(cache) /\ EntryOf(cache, k).match = "fresh"
  /\ cache' = Updated(cache, [EntryOf(cache, k) EXCEPT !.match = "stale"])
  /\ UNCHANGED <<cap, txn, pending, vanished>>

\* The index gets a new relfilenode: REINDEX elsewhere, or TRUNCATE in this
\* transaction.
Rewritten(k) ==
  /\ txn # "flushing"
  /\ k \in Keys(cache) /\ EntryOf(cache, k).match # "rewritten"
  /\ cache' = Updated(cache, [EntryOf(cache, k) EXCEPT !.match = "rewritten"])
  /\ UNCHANGED <<cap, txn, pending, vanished>>

\* SET turbovec.cache_size_mb: nothing is evicted before the next install.
SetCacheSize(c) ==
  /\ txn # "flushing" /\ c # cap
  /\ cap' = c
  /\ UNCHANGED <<cache, txn, pending, vanished>>

CacheNext ==
  \/ \E k \in Index, bytes \in Bytes : Scan(k, bytes)
  \/ \E k \in InPlace, bytes \in Bytes : AmInsert(k, bytes)
  \/ \E k \in InPlace, bytes \in Bytes : InsertVanished(k, bytes)
  \/ Bq # {} /\ InsertBq
  \/ PreCommit
  \/ \E k \in InPlace : Flush(k)
  \/ Commit
  \/ Abort
  \/ Savepoint
  \/ ReleaseSavepoint
  \/ RollbackToSavepoint
  \/ \E k \in Index : ChangedElsewhere(k)
  \/ \E k \in Index : Rewritten(k)
  \/ \E c \in Caps : SetCacheSize(c)

CacheSpec == CacheInit /\ [][CacheNext]_cacheVars

-----------------------------------------------------------------------------
(* Properties.                                                             *)

\* The rows an open transaction has inserted and not flushed are in a dirty
\* entry, so PreCommit will flush them, whichever other indexes are searched
\* or filled and whatever the cap is set to meanwhile, but for savepoint
\* rollbacks and inserts into 1-bit indexes.  (enforce_cap skips dirty entries;
\* am_mark_dirty must find the entry; lookups serve a dirty entry that no longer
\* matches.)
UnflushedKept ==
  \A k \in Index : pending[k] # {} =>
    /\ k \in Keys(Dirty(cache))
    /\ pending[k] = EntryOf(cache, k).unflushed

\* No copy a search can be served from holds rows of a transaction or a
\* savepoint that was rolled back: what a copy has beyond the relfile was
\* inserted by the open transaction and not undone since.
\* (invalidate_dirty in Abort and AbortSub; clear_dirty after the flush.)
NothingRolledBack ==
  \A i \in DOMAIN cache : cache[i].unflushed \subseteq pending[cache[i].key]

\* A search never makes a copy read-only that an insert has to find again.
\* (scan_lookup serves a dirty entry and leaves it as it is.)
DirtyIsMutable == \A i \in DOMAIN cache : cache[i].dirty => cache[i].mutable

\* What holds of the copies of a backend at any time, with their types.
CopiesSound == TypeOK /\ UnflushedKept /\ NothingRolledBack /\ DirtyIsMutable

\* Once the cache fits the cap, or is a single entry, it stays so until the cap
\* is changed: dirty entries, which eviction must skip, never push it over.
\* (enforce_cap evicts the newcomer if all others are dirty.)
Fits == Total(cache) <= cap \/ Len(cache) <= 1
StaysWithinCap == Fits /\ cap' = cap => Fits'
WithinCap == [][StaysWithinCap]_cacheVars

\* An insert loses the entry it installed only if caching is off, or another
\* index of the transaction is dirty and the two exceed the cap: eviction
\* never takes the newest entry while an older clean one is there.
VanishesWhenPinned == vanished' # vanished => cap = 0 \/ Dirty(cache) # <<>>
VanishesOnlyWhenPinned == [][VanishesWhenPinned]_cacheVars

=============================================================================
