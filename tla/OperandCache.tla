---------------------------- MODULE OperandCache ----------------------------
(***************************************************************************)
(* The decoded operands that a distance function of the type vector keeps  *)
(* from one call to the next, one for each argument position.              *)
(*                                                                         *)
(* An argument comes inline, as the bytes of its value, or as a pointer to *)
(* a value stored out of line.  The same pointer again is taken for the    *)
(* same value and not fetched; other arguments are compared by their bytes *)
(* and decoded when they differ.  The squared norm of a repeated operand   *)
(* is kept with it.                                                        *)
(*                                                                         *)
(* Values are the vectors themselves: bytes and decoded form are one.      *)
(***************************************************************************)
EXTENDS Integers, FiniteSets

CONSTANTS
  Vector,   \* the vectors
  Oid,      \* OIDs of values stored out of line
  Nothing   \* no vector, no pointer

ASSUME OperandAssumption == Nothing \notin Vector \cup Oid

VARIABLES
  stored,   \* the values stored out of line
  slot,     \* what is kept for the two arguments
  seen,     \* OIDs that a call of this execution was given
  called    \* the last call: its arguments' values, the operands and the norm used

operandVars == <<stored, slot, seen, called>>

-----------------------------------------------------------------------------
\* Slot::default.
EmptySlot == [raw |-> Nothing, vec |-> Nothing, norm2 |-> Nothing, hit |-> FALSE,
              toast_ptr |-> Nothing]
NotCalled == [values |-> <<>>, operands |-> <<>>, norm |-> Nothing, of |-> Nothing]

CacheInit ==
  /\ stored \in [Oid -> Vector]
  /\ slot = [a \in 1 .. 2 |-> EmptySlot]
  /\ seen = {}
  /\ called = NotCalled

\* An argument, inline or stored out of line.
Datum == [oid : {Nothing}, bytes : Vector] \cup [oid : Oid, bytes : {Nothing}]
Bytes(d) == IF d.oid = Nothing THEN d.bytes ELSE stored[d.oid]

\* ondisk_toast_ident.
ondisk_toast_ident(d) == d.oid

\* Mutant: the pointer of an earlier argument stays.
FilledPointerStays(s, d) ==
  LET hit == s.vec # Nothing /\ s.raw = Bytes(d)
  IN  [raw |-> Bytes(d), vec |-> Bytes(d), hit |-> hit,
       norm2 |-> IF hit THEN s.norm2 ELSE Nothing,
       toast_ptr |-> IF d.oid = Nothing THEN s.toast_ptr ELSE d.oid]

\* The argument is fetched, and decoded if its bytes are not those kept.
Filled(s, d) ==
  LET hit == s.vec # Nothing /\ s.raw = Bytes(d)
  IN  [raw |-> Bytes(d), vec |-> Bytes(d), hit |-> hit,
       norm2 |-> IF hit THEN s.norm2 ELSE Nothing,
       toast_ptr |-> ondisk_toast_ident(d)]

\* Slot::get.
Get(s, d) ==
  IF ondisk_toast_ident(d) # Nothing /\ s.vec # Nothing /\ s.toast_ptr = d.oid
  THEN [s EXCEPT !.hit = TRUE]
  ELSE Filled(s, d)

\* Slot::norm2: computed once, and named here by the vector it is of.
Normed(s) == [s EXCEPT !.norm2 = IF s.norm2 = Nothing THEN s.vec ELSE s.norm2]

Calls(a, b, kept, used) ==
  called' = [values |-> <<Bytes(a), Bytes(b)>>, operands |-> <<kept[1].vec, kept[2].vec>>,
             norm |-> IF used = 0 THEN Nothing ELSE kept[used].norm2,
             of |-> IF used = 0 THEN Nothing ELSE Bytes(<<a, b>>[used])]

Given(a, b) == seen' = seen \cup ({a.oid, b.oid} \cap Oid)

\* with_operands: l2_distance, inner_product, l1_distance.
Distance(a, b) ==
  LET kept == <<Get(slot[1], a), Get(slot[2], b)>>
  IN  /\ slot' = kept
      /\ Calls(a, b, kept, 0)
      /\ Given(a, b)
      /\ UNCHANGED stored

\* cosine_distance: with the norm of an operand that was kept, the second one's
\* first.
Cosine(a, b) ==
  LET got  == <<Get(slot[1], a), Get(slot[2], b)>>
      used == IF got[2].hit THEN 2 ELSE IF got[1].hit THEN 1 ELSE 0
      kept == IF used = 0 THEN got ELSE [got EXCEPT ![used] = Normed(@)]
  IN  /\ slot' = kept
      /\ Calls(a, b, kept, used)
      /\ Given(a, b)
      /\ UNCHANGED stored

\* A call without an FmgrInfo keeps nothing.
DirectCall(a, b) ==
  /\ Calls(a, b, <<Get(EmptySlot, a), Get(EmptySlot, b)>>, 0)
  /\ Given(a, b)
  /\ UNCHANGED <<stored, slot>>

\* The execution ends: fn_mcxt is reset.
EndExecution ==
  /\ slot' = [a \in 1 .. 2 |-> EmptySlot]
  /\ seen' = {} /\ called' = NotCalled
  /\ UNCHANGED stored

\* VACUUM removes a value and its OID is used again.  The snapshot of the
\* execution keeps the values it has seen.
Reuse(oid, v) ==
  /\ oid \notin seen
  /\ stored' = [stored EXCEPT ![oid] = v]
  /\ UNCHANGED <<slot, seen, called>>

CacheNext ==
  \/ \E a, b \in Datum : Distance(a, b) \/ Cosine(a, b) \/ DirectCall(a, b)
  \/ EndExecution
  \/ \E oid \in Oid, v \in Vector : Reuse(oid, v)

CacheSpec == CacheInit /\ [][CacheNext]_operandVars

-----------------------------------------------------------------------------
\* Whatever was given before, and inline or not, a distance is that of the
\* values given to this call, and the norm used is that of one of them.
\* (Slot::get, with_slots, cosine_distance.)
OperandsAreThose ==
  called.operands = called.values /\ called.norm = called.of

=============================================================================
