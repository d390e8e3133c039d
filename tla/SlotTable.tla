------------------------------ MODULE SlotTable -----------------------------
(***************************************************************************)
(* The slots of a relfile: what DeferredFlush takes for a map from TIDs to *)
(* vectors is a sequence of rows, and the tombstones are a bitmap over     *)
(* its positions.                                                          *)
(*                                                                         *)
(* A flush splices the ids a transaction touched into the slots as they    *)
(* are on disk.  VACUUM of a flat index fills the slots of dead rows with  *)
(* the last rows, page by page, under the rewrite lock, and then shrinks   *)
(* the meta page; a cancel or a crash can stop it between two slots.       *)
(* VACUUM of an IVF index sets bits.                                       *)
(*                                                                         *)
(* A tuple is live from the flush of its transaction on; what can come     *)
(* between the flush and the commit record is in DeferredFlush.            *)
(*                                                                         *)
(* The rows of an IVF index lie cell by cell, as the build put them, and   *)
(* the cell directory says where; a flush that keeps the directory appends *)
(* new rows behind the cells, and a scan searches the cells it probes and  *)
(* all of the appended rows.  1-bit and graph indexes are written by each  *)
(* INSERT at once, not by the flush; a rollback leaves the row behind.     *)
(***************************************************************************)
EXTENDS Integers, Sequences, SequencesExt, FiniteSets, Sublists

CONSTANTS
  Backend,      \* server processes that insert
  Id,           \* external ids: heap TIDs
  Vec,          \* vectors (their codes and scale), one for each cell: the
                \* vectors of one cell are not told apart
  Nobody,       \* no owner, no vector
  Kinds,        \* the kinds of index considered: "flat", "ivf" (lists > 0),
                \* "bq" (bit_width = 1) and "graph"
  MaxDelta,     \* turbovec.ivf_max_delta_pct, in rows appended for each row of
                \* the cells
  Interrupts    \* whether VACUUM can be cancelled and the server can crash

ASSUME NobodyAssumption == Nobody \notin Backend /\ Nobody \notin Vec
ASSUME KindsAssumption == Kinds \subseteq {"flat", "ivf", "bq", "graph"}
ASSUME MaxDeltaAssumption == MaxDelta \in Nat
ASSUME FiniteAssumption == IsFiniteSet(Id) /\ IsFiniteSet(Vec)
ASSUME InterruptsAssumption == Interrupts \in BOOLEAN

VARIABLES
  kind,     \* of the index: does not change
  slots,    \* the codes, scales and ids chains, slot by slot
  cells,    \* the cell directory: the cell of each of the first slots; empty
            \* if there are no cells, or the index has degraded to flat
  tomb,     \* the tombstone bitmap: positions of dead slots
  heap,     \* the tuple at each TID
  snap,     \* snap[b]: backend b's Mutable copy, the ids touched, and whether
            \* its label is the version on disk
  vac,      \* the swap-remove in progress
  torn      \* history: a cancel or a crash has stopped VACUUM half way

vars == <<kind, slots, cells, tomb, heap, snap, vac, torn>>

-----------------------------------------------------------------------------
Ivf == kind = "ivf"

\* An INSERT rewrites the relfile itself.
WritesAtOnce == kind \in {"bq", "graph"}

Row == [id : Id, vec : Vec]
Tuple == [st : {"free", "pending", "live", "dead"}, vec : Vec \cup {Nobody},
          own : Backend \cup {Nobody}]
FreeTuple == [st |-> "free", vec |-> Nobody, own |-> Nobody]
DeadTuple == [st |-> "dead", vec |-> Nobody, own |-> Nobody]

NoSnap == [on |-> FALSE, rows |-> <<>>, touched |-> <<>>, current |-> FALSE]
NoVacuum == [on |-> FALSE, todo |-> <<>>, alive |-> 0, dead |-> {}]

SlotsOf(s, K) == {i \in DOMAIN s : s[i].id \in K}
Bijective(s) == \A i, j \in DOMAIN s : s[i].id = s[j].id => i = j

Init ==
  /\ kind \in Kinds
  /\ slots = <<>>
  /\ cells = <<>>
  /\ tomb = {}
  /\ heap = [t \in Id |-> FreeTuple]
  /\ snap = [b \in Backend |-> NoSnap]
  /\ vac = NoVacuum
  /\ torn = FALSE

TypeOK ==
  /\ kind \in Kinds
  /\ slots \in Seq(Row)
  /\ cells \in Seq(Vec) /\ Len(cells) <= Len(slots)
  /\ tomb \subseteq DOMAIN slots
  /\ heap \in [Id -> Tuple]
  /\ snap \in [Backend -> [on : BOOLEAN, rows : Seq(Row), touched : Seq(Id),
                          current : BOOLEAN]]
  /\ vac \in [on : BOOLEAN, todo : Seq(DOMAIN slots), alive : 0 .. Len(slots),
              dead : SUBSET Id]
  /\ torn \in BOOLEAN

-----------------------------------------------------------------------------
(* Inserts.                                                                *)

\* IdMapIndex::remove: the last row takes the place of the removed one.
SwapRemoved(s, i) == SubSeq([s EXCEPT ![i] = Last(s)], 1, Len(s) - 1)

\* add_with_ids; an id that is already there is removed first.
Upserted(s, row) ==
  IF SlotsOf(s, {row.id}) = {} THEN Append(s, row)
  ELSE Append(SwapRemoved(s, CHOOSE i \in SlotsOf(s, {row.id}) : TRUE), row)

\* aminsert of a flat or IVF index.  A load takes the shared rewrite lock and
\* refuses a relfile in which an id occurs twice: a torn one, or one built with
\* assign_dups > 1.
Insert(b, t, v) ==
  LET loaded == [on |-> TRUE, rows |-> slots, touched |-> <<>>, current |-> TRUE]
      s == IF snap[b].on THEN snap[b] ELSE loaded
  IN  /\ ~ WritesAtOnce
      /\ heap[t].st = "free"
      /\ snap[b].on \/ (~ vac.on /\ Bijective(slots))
      /\ heap' = [heap EXCEPT ![t] = [st |-> "pending", vec |-> v, own |-> b]]
      /\ snap' = [snap EXCEPT ![b] =
                    [s EXCEPT !.rows = Upserted(@, [id |-> t, vec |-> v]),
                              !.touched = Append(@, t)]]
      /\ UNCHANGED <<slots, cells, tomb, vac, torn>>

\* One touched id: its row in the copy overwrites its slot, or is appended.
Spliced(disk, s, t) ==
  LET row == s[CHOOSE i \in SlotsOf(s, {t}) : TRUE]
      at  == SlotsOf(disk, {t})
  IN  IF at = {} THEN Append(disk, row)
      ELSE [disk EXCEPT ![CHOOSE i \in at : TRUE] = row]

\* Mutant: the whole copy is written, as before v1.29.1.
ReconcileFlushImageBlind(disk, s, touched) == s

\* reconcile_flush_image: the last touched id first.  A relfile with no rows
\* takes the touched rows in the order of the copy.
ReconcileFlushImage(disk, s, touched) ==
  IF disk = <<>> THEN Kept(s, SlotsOf(s, Range(touched)))
  ELSE LET l == Len(touched)
           spliced[n \in 0 .. l] ==
             IF n = 0 THEN disk ELSE Spliced(spliced[n - 1], s, touched[l + 1 - n])
       IN  spliced[l]

\* The bitmap is carried over; the bits of the touched ids are cleared.
FlushedTomb(touched) == tomb \ SlotsOf(slots, Range(touched))

\* Mutant: the rows are compared whatever their slots.
SnapshotIsCurrentAnyOrder(s, image) == ToSet(s) = ToSet(image)

SnapshotIsCurrent(s, image) == s = image

\* What the others' copies become when b (or VACUUM, if b is Nobody) has
\* changed the relfile.
Outdated(f, b) == [c \in Backend |-> IF c = b THEN f[c] ELSE [f[c] EXCEPT !.current = FALSE]]

\* The directory is written back unchanged while the rows behind the cells are
\* few; else the index degrades to flat.  (ivf_delta_within_bound.)
CarriedCells(image) ==
  IF Len(image) - Len(cells) <= MaxDelta * Len(cells) THEN cells ELSE <<>>

Committed(K) ==
  [t \in Id |-> IF t \in K THEN [heap[t] EXCEPT !.st = "live", !.own = Nobody]
                ELSE heap[t]]
Pending(b) == {t \in Id : heap[t].st = "pending" /\ heap[t].own = b}

\* PreCommit and commit of a transaction with unflushed rows.  A copy is labelled
\* current if the relfile had no tombstones before their bits were cleared.
Flush(b) ==
  LET image == ReconcileFlushImage(slots, snap[b].rows, snap[b].touched)
      bits  == FlushedTomb(snap[b].touched)
      kept  == [snap[b] EXCEPT !.touched = <<>>, !.current = (tomb = {})]
  IN  /\ ~ vac.on
      /\ snap[b].touched # <<>>
      /\ Ivf \/ Bijective(slots)
      /\ slots' = image
      /\ cells' = CarriedCells(image)
      /\ tomb' = bits
      /\ heap' = Committed(Pending(b))
      /\ snap' = Outdated([snap EXCEPT ![b] =
                             IF SnapshotIsCurrent(snap[b].rows, image) THEN kept
                             ELSE NoSnap], b)
      /\ UNCHANGED <<vac, torn>>

Aborted(b) == [t \in Id |-> IF t \in Pending(b) THEN DeadTuple ELSE heap[t]]

\* insert_bq_row: every slot of the id gets the new code; a new id is appended.
Overwritten(t, v) ==
  IF SlotsOf(slots, {t}) = {} THEN Append(slots, [id |-> t, vec |-> v])
  ELSE [i \in DOMAIN slots |->
          IF slots[i].id = t THEN [id |-> t, vec |-> v] ELSE slots[i]]

\* aminsert of a 1-bit or graph index, under the rewrite lock: the relfile is
\* rewritten, without the cells, before the transaction ends.
InsertAtOnce(b, t, v) ==
  /\ WritesAtOnce
  /\ kind = "graph" => SlotsOf(slots, {t}) = {}
  /\ heap[t].st = "free"
  /\ heap' = [heap EXCEPT ![t] = [st |-> "pending", vec |-> v, own |-> b]]
  /\ slots' = Overwritten(t, v)
  /\ tomb' = tomb \ SlotsOf(slots, {t})
  /\ cells' = <<>>
  /\ UNCHANGED <<snap, vac, torn>>

\* insert_graph_row finds the TID in the graph, be it in a tombstoned slot: the
\* statement fails, and with it the transaction.
InsertRefused(b, t) ==
  /\ kind = "graph"
  /\ SlotsOf(slots, {t}) # {}
  /\ heap[t].st = "free"
  /\ heap' = [Aborted(b) EXCEPT ![t] = DeadTuple]
  /\ UNCHANGED <<slots, cells, tomb, snap, vac, torn>>

\* Commit of a transaction whose rows are in the relfile already.
Commit(b) ==
  /\ WritesAtOnce /\ Pending(b) # {}
  /\ heap' = Committed(Pending(b))
  /\ UNCHANGED <<slots, cells, tomb, snap, vac, torn>>

\* A rollback, an error, or a flush that finds an id twice on disk: the
\* dirty copy is dropped.
Abort(b) ==
  /\ Pending(b) # {}
  /\ snap' = [snap EXCEPT ![b] = NoSnap]
  /\ heap' = Aborted(b)
  /\ UNCHANGED <<slots, cells, tomb, vac, torn>>

\* enforce_cap.
Evict(b) ==
  /\ snap[b].on /\ snap[b].touched = <<>>
  /\ snap' = [snap EXCEPT ![b] = NoSnap]
  /\ UNCHANGED <<slots, cells, tomb, heap, vac, torn>>

Delete(t) ==
  /\ heap[t].st = "live"
  /\ heap' = [heap EXCEPT ![t] = DeadTuple]
  /\ UNCHANGED <<slots, cells, tomb, snap, vac, torn>>

-----------------------------------------------------------------------------
(* VACUUM.                                                                 *)

Freed(K) == [t \in Id |-> IF t \in K THEN FreeTuple ELSE heap[t]]

\* Mutant: the dead slots are visited in ascending order.
DeadSlotsAscending(K) == Kept([i \in DOMAIN slots |-> i], SlotsOf(slots, K))

\* The dead slots, the last one first.
DeadSlots(K) == Reverse(Kept([i \in DOMAIN slots |-> i], SlotsOf(slots, K)))

\* No dead row in the index: nothing is written, the TIDs are freed.
VacuumNothing(K) ==
  /\ ~ vac.on /\ SlotsOf(slots, K) = {}
  /\ heap' = Freed(K)
  /\ UNCHANGED <<slots, cells, tomb, snap, vac, torn>>

\* ambulkdelete of the other kinds: ivf_tombstone_dead, graph_tombstone_dead.
VacuumTombstone(K) ==
  /\ kind # "flat"
  /\ SlotsOf(slots, K) # {}
  /\ tomb' = tomb \cup SlotsOf(slots, K)
  /\ heap' = Freed(K)
  /\ snap' = Outdated(snap, Nobody)
  /\ UNCHANGED <<slots, cells, vac, torn>>

\* ambulkdelete of a flat index takes the lock and collects the dead slots.
VacuumBegin(K) ==
  /\ kind = "flat" /\ ~ vac.on
  /\ SlotsOf(slots, K) # {}
  /\ vac' = [on |-> TRUE, todo |-> DeadSlots(K), alive |-> Len(slots), dead |-> K]
  /\ UNCHANGED <<slots, cells, tomb, heap, snap, torn>>

\* copy_slot_in_chain: the last live slot fills the dead one.
VacuumMove ==
  /\ vac.on /\ vac.todo # <<>>
  /\ slots' = [slots EXCEPT ![Head(vac.todo)] = slots[vac.alive]]
  /\ vac' = [vac EXCEPT !.todo = Tail(@), !.alive = @ - 1]
  /\ UNCHANGED <<cells, tomb, heap, snap, torn>>

\* The meta page is shrunk and the TIDs are freed.
VacuumShrink ==
  LET left == SubSeq(slots, 1, vac.alive)
  IN  /\ vac.on /\ vac.todo = <<>>
      /\ Bijective(left)
      /\ slots' = left
      /\ heap' = Freed(vac.dead)
      /\ vac' = NoVacuum
      /\ snap' = Outdated(snap, Nobody)
      /\ UNCHANGED <<cells, tomb, torn>>

\* An id would be in two slots: ERROR, the meta page stays.
VacuumRefused ==
  /\ vac.on /\ vac.todo = <<>>
  /\ ~ Bijective(SubSeq(slots, 1, vac.alive))
  /\ vac' = NoVacuum
  /\ UNCHANGED <<slots, cells, tomb, heap, snap, torn>>

\* check_for_interrupts between two slots.
VacuumCancel ==
  /\ Interrupts /\ vac.on /\ vac.todo # <<>>
  /\ vac' = NoVacuum
  /\ torn' = TRUE
  /\ UNCHANGED <<slots, cells, tomb, heap, snap>>

\* A crash: also between the copies of codes and ids of one slot.
Crash ==
  /\ Interrupts
  /\ slots' \in {slots} \cup
       (IF vac.todo = <<>> THEN {}
        ELSE {[slots EXCEPT ![Head(vac.todo)].vec = slots[vac.alive].vec]})
  /\ heap' = [t \in Id |-> IF heap[t].st = "pending" THEN DeadTuple ELSE heap[t]]
  /\ snap' = [b \in Backend |-> NoSnap]
  /\ vac' = NoVacuum
  /\ torn' = (torn \/ vac.on)
  /\ UNCHANGED <<cells, tomb>>

-----------------------------------------------------------------------------
(* REINDEX.                                                                *)

\* The rows cell by cell, in each cell in heap order; assign_dups > 1 puts a row
\* in other cells as well.  Each is a row and the cell it was put in.
Layout(rows, order, soft) ==
  LET InCell(c) == Kept(rows, {i \in DOMAIN rows : soft \/ rows[i].vec = c})
      Cell(c) == [i \in DOMAIN InCell(c) |-> [row |-> InCell(c)[i], cell |-> c]]
      laid[n \in 0 .. Len(order)] ==
        IF n = 0 THEN <<>> ELSE laid[n - 1] \o Cell(order[n])
  IN  laid[Len(order)]

\* REINDEX: the rows of the live tuples, in any order.
LiveRows ==
  SetToSeqs({[id |-> t, vec |-> heap[t].vec] : t \in {u \in Id : heap[u].st = "live"}})

\* The order of the cells.
CellOrders == SetToSeqs(Vec)

\* REINDEX waits for the inserting transactions to end; it writes a new relfile,
\* whose name no copy has.
Rebuilt(to, directory) ==
  /\ \A b \in Backend : Pending(b) = {}
  /\ ~ vac.on
  /\ slots' = to
  /\ cells' = directory
  /\ tomb' = {}
  /\ snap' = [b \in Backend |-> NoSnap]
  /\ torn' = FALSE
  /\ UNCHANGED <<heap, vac>>

\* ambuild WITH (lists = 0).
Reindex(rows) == ~ Ivf /\ Rebuilt(rows, <<>>)

\* ambuild WITH (lists > 0): an IVF index, or a 1-bit index with cells.
ReindexCells(rows, order, soft) ==
  LET layout == Layout(rows, order, soft)
  IN  /\ kind \in {"ivf", "bq"}
      /\ Rebuilt([i \in DOMAIN layout |-> layout[i].row],
                 [i \in DOMAIN layout |-> layout[i].cell])

Dead == {t \in Id : heap[t].st = "dead"}

Step ==
  \/ \E b \in Backend, t \in Id, v \in Vec : Insert(b, t, v)
  \/ \E b \in Backend, t \in Id, v \in Vec : InsertAtOnce(b, t, v)
  \/ \E b \in Backend, t \in Id : InsertRefused(b, t)
  \/ \E b \in Backend : Flush(b)
  \/ \E b \in Backend : Commit(b)
  \/ \E b \in Backend : Abort(b)
  \/ \E b \in Backend : Evict(b)
  \/ \E t \in Id : Delete(t)
  \/ \E K \in SUBSET Dead \ {{}} : VacuumNothing(K)
  \/ \E K \in SUBSET Dead \ {{}} : VacuumTombstone(K)
  \/ \E K \in SUBSET Dead \ {{}} : VacuumBegin(K)
  \/ VacuumMove
  \/ VacuumShrink
  \/ VacuumRefused
  \/ VacuumCancel
  \/ \E rows \in LiveRows :
       \/ Reindex(rows)
       \/ \E order \in CellOrders, soft \in BOOLEAN : ReindexCells(rows, order, soft)
  \/ Crash

Next == Step /\ UNCHANGED kind

Spec == Init /\ [][Next]_vars

-----------------------------------------------------------------------------
(* Properties.                                                             *)

Visible(t) == SlotsOf(slots, {t}) \ tomb
Live == {t \in Id : heap[t].st = "live"}

\* No live row is lost or given another's vector by a splice, a swap-remove
\* or a bitmap, and none is in two slots (but for assign_dups > 1, where they
\* agree); no slot that is not masked names a TID that can be handed out again:
\* unless VACUUM was stopped half way.  (reconcile_flush_image, insert_bq_row,
\* ambulkdelete.)
LiveRowsOnce ==
  ~ vac.on /\ ~ torn =>
    \A t \in Id :
      /\ t \in Live => /\ Visible(t) # {}
                       /\ \A i \in Visible(t) : slots[i].vec = heap[t].vec
                       /\ cells = <<>> /\ kind # "bq" =>
                            \A i, j \in Visible(t) : i = j
      /\ heap[t].st = "free" => Visible(t) = {}

\* Likewise, a copy that carries the version on disk is the relfile, slot for
\* slot, so that a bitmap over the slots of one masks the same rows of the
\* other.  (FlushOutcome.snapshot_is_current, clear_dirty.)
CurrentCopyIsRelfile ==
  ~ vac.on /\ ~ torn => \A b \in Backend :
    snap[b].current /\ snap[b].touched = <<>> => snap[b].rows = slots

\* Even if VACUUM was stopped half way, every live row is still in a slot,
\* with its vector, so a later VACUUM or REINDEX can recover; and no slot is
\* masked or freed under it.  (The swap-remove copies before it shrinks.)
LiveRowsKept ==
  \A t \in Live : \E i \in Visible(t) : slots[i].vec = heap[t].vec

\* What holds of the relfile's slots in every state.
SlotsSound == LiveRowsOnce /\ LiveRowsKept

-----------------------------------------------------------------------------
(* The inductive invariant.                                                *)

\* The slots that are left when VACUUM has shrunk the meta page.
Used == IF vac.on THEN 1 .. vac.alive ELSE DOMAIN slots
Unmasked == Used \ tomb

\* The TIDs whose rows are in the relfile.
Written == {t \in Id : heap[t].st = "live" \/ (WritesAtOnce /\ heap[t].st = "pending")}

\* Which tuples belong to a transaction in progress.
TuplesOwned ==
  \A t \in Id :
    /\ heap[t].st = "pending" => heap[t].own \in Backend
    /\ heap[t].st \in {"pending", "live"} => heap[t].vec \in Vec

\* Every row written is in a slot VACUUM leaves, whatever stops it.
WrittenKept ==
  LET U == Unmasked IN
  \A t \in Written : \E i \in U : slots[i].id = t /\ slots[i].vec = heap[t].vec

\* Until VACUUM is stopped, no slot it leaves names a TID that is free, or has
\* a vector that is not its row's.
SlotsOwned ==
  ~ torn => LET W == Written IN
            \A i \in Unmasked :
              /\ heap[slots[i].id].st # "free"
              /\ slots[i].id \in W => slots[i].vec = heap[slots[i].id].vec

\* A row is in several slots only of an index with cells or of a 1-bit index,
\* and no copy is loaded of those.
NoTwins ==
  ~ torn /\ ((cells = <<>> /\ kind # "bq") \/ \E b \in Backend : snap[b].on) =>
    \A i, j \in Used : slots[i].id = slots[j].id => i = j

\* A copy has the unflushed rows of its backend, each once; an index written at
\* once has no copies.
CopiesOfOwners ==
  \A b \in Backend :
    /\ ~ snap[b].on => snap[b].touched = <<>> /\ ~ snap[b].current
    /\ WritesAtOnce => ~ snap[b].on
    /\ ~ WritesAtOnce => Range(snap[b].touched) = Pending(b)
    /\ Bijective(snap[b].rows)
    /\ ~ WritesAtOnce => \A t \in Pending(b) : \E i \in DOMAIN snap[b].rows :
                           snap[b].rows[i] = [id |-> t, vec |-> heap[t].vec]

\* The swap-remove: what is left to do descends, none of it lies behind the last
\* slot left, and these are just the dead ones.
SwapRemoveSound ==
  /\ ~ vac.on => vac = NoVacuum
  /\ vac.on \/ torn => kind = "flat"
  /\ kind = "flat" => tomb = {}
  /\ kind \in {"flat", "graph"} => cells = <<>>
  /\ vac.on =>
       /\ vac.dead \subseteq {t \in Id : heap[t].st = "dead"}
       /\ \A x, y \in DOMAIN vac.todo : x < y => vac.todo[y] < vac.todo[x]
       /\ \A i \in 1 .. vac.alive : slots[i].id \in vac.dead <=> i \in Range(vac.todo)
       /\ \A x \in DOMAIN vac.todo : vac.todo[x] <= vac.alive

\* What every step keeps.  (The slots are rewritten by the flush, by the inserts
\* that write at once, by REINDEX and by the swap-remove.)
SlotsInv ==
  /\ TypeOK /\ TuplesOwned /\ WrittenKept /\ SlotsOwned /\ NoTwins
  /\ CopiesOfOwners /\ SwapRemoveSound /\ CurrentCopyIsRelfile

=============================================================================
