----------------------------- MODULE RowIndex ------------------------------
(***************************************************************************)
(* What the access method promises the heap, with no cache, version, lock  *)
(* or tombstone: an index that maps TIDs to vectors and changes in three   *)
(* ways only.  A transaction that is about to commit adds all the rows it  *)
(* still owes, in one step, and nothing else; VACUUM removes rows of dead  *)
(* tuples and nothing else; a rebuild makes the index the live rows.  A    *)
(* TID is freed for reuse only while the index does not name it.           *)
(*                                                                         *)
(* lost records the pending rows that a savepoint rollback has dropped:    *)
(* the promise the code keeps is stated with them, DeferredFlush shows     *)
(* that nothing else is lost.                                              *)
(***************************************************************************)
CONSTANTS Backend, Tid, Vec, None

VARIABLES
  heap,     \* heap[t]: status, vector, owner of the tuple at t
  ready,    \* the backends between the index flush and the commit record
  index,    \* index[t]: the vector the index holds for t, or None
  lost      \* TIDs the index does not owe a row

vars == <<heap, ready, index, lost>>

Pending(b) == {t \in Tid : heap[t].st = "pending" /\ heap[t].own = b}
Free == [st |-> "free", vec |-> None, own |-> None]
Dead == [st |-> "dead", vec |-> None, own |-> None]

Init ==
  /\ heap = [t \in Tid |-> Free]
  /\ ready = {}
  /\ index = [t \in Tid |-> None]
  /\ lost = {}

\* A backend writes a tuple; the index does not change before the flush.
Store(b, t, v) ==
  /\ b \notin ready
  /\ heap[t].st = "free" /\ index[t] = None
  /\ heap' = [heap EXCEPT ![t] = [st |-> "pending", vec |-> v, own |-> b]]
  /\ UNCHANGED <<ready, index, lost>>

\* All of a transaction's rows that are owed, and no other, enter at once.
Flush(b) ==
  /\ b \notin ready
  /\ ready' = ready \cup {b}
  /\ index' = [t \in Tid |-> IF t \in Pending(b) \ lost
                             THEN heap[t].vec ELSE index[t]]
  /\ UNCHANGED <<heap, lost>>

\* The transaction commits; only a flushed one may.
Commit(b) ==
  /\ b \in ready
  /\ ready' = ready \ {b}
  /\ heap' = [t \in Tid |-> IF t \in Pending(b)
                            THEN [heap[t] EXCEPT !.st = "live", !.own = None]
                            ELSE heap[t]]
  /\ UNCHANGED <<index, lost>>

\* Some tuples of b's transaction roll back (all of them: its abort); the
\* index keeps what a flush had added.  Rows that survive may be lost.
Undo(b, U, L) ==
  /\ U \subseteq Pending(b) /\ L \subseteq Pending(b) \ U
  /\ b \in ready => U = Pending(b)
  /\ ready' = ready \ {b}
  /\ heap' = [t \in Tid |-> IF t \in U THEN Dead ELSE heap[t]]
  /\ lost' = (lost \cup L) \ U
  /\ UNCHANGED index

Delete(t) ==
  /\ heap[t].st = "live"
  /\ heap' = [heap EXCEPT ![t] = Dead]
  /\ lost' = lost \ {t}
  /\ UNCHANGED <<ready, index>>

\* VACUUM, first in the index and then in the heap.
Remove(D) ==
  /\ \A t \in D : heap[t].st = "dead"
  /\ index' = [t \in Tid |-> IF t \in D THEN None ELSE index[t]]
  /\ UNCHANGED <<heap, ready, lost>>

Reuse(D) ==
  /\ \A t \in D : heap[t].st = "dead" /\ index[t] = None
  /\ heap' = [t \in Tid |-> IF t \in D THEN Free ELSE heap[t]]
  /\ UNCHANGED <<ready, index, lost>>

Rebuild ==
  /\ ready = {}
  /\ index' = [t \in Tid |-> IF heap[t].st = "live" THEN heap[t].vec ELSE None]
  /\ lost' = {}
  /\ UNCHANGED <<heap, ready>>

\* Every open transaction is undone, the index survives.
Crash ==
  /\ ready' = {}
  /\ heap' = [t \in Tid |-> IF heap[t].st = "pending" THEN Dead ELSE heap[t]]
  /\ lost' = lost \ {t \in Tid : heap[t].st = "pending"}
  /\ UNCHANGED index

Next ==
  \/ \E b \in Backend :
       \/ \E t \in Tid, v \in Vec : Store(b, t, v)
       \/ Flush(b)
       \/ Commit(b)
       \/ \E U, L \in SUBSET Pending(b) : Undo(b, U, L)
  \/ \E t \in Tid : Delete(t)
  \/ \E D \in SUBSET Tid : Remove(D) \/ Reuse(D)
  \/ Rebuild
  \/ Crash

Spec == Init /\ [][Next]_vars
=============================================================================
