------------------------ MODULE SqlFunctions_proofs ------------------------
(***************************************************************************)
(* For every table, cache and number of sessions: what turbovec.knn(), the *)
(* distance functions, the routing to partitions and                       *)
(* turbovec.colbert_search() answer, after whatever came before.           *)
(***************************************************************************)
EXTENDS KnnCache, OperandCache, PartitionRouting, ColbertSearch, VectorAggregates,
        DataInduction_proofs

-----------------------------------------------------------------------------
(* Finite sets of numbers.                                                 *)

LEMMA GreatestInt ==
  ASSUME NEW S \in SUBSET Int, IsFiniteSet(S), S # {}
  PROVE  \E m \in S : \A k \in S : k <= m
<1>. DEFINE Greatest(T) == \E m \in T : \A k \in T : k <= m
            Good == {n \in Nat : \A T \in SUBSET S : Cardinality(T) = n /\ T # {} => Greatest(T)}
<1>1. \A T \in SUBSET S : IsFiniteSet(T) /\ Cardinality(T) \in Nat
  BY FS_Subset, FS_CardinalityType
<1>2. 0 \in Good
  BY <1>1, FS_EmptySet
<1>3. ASSUME NEW n \in Nat, n \in Good PROVE n + 1 \in Good
  <2>. HIDE DEF Greatest
  <2>1. SUFFICES ASSUME NEW T \in SUBSET S, Cardinality(T) = n + 1, T # {}
                 PROVE  Greatest(T)
    <3>1. n + 1 \in Nat
      OBVIOUS
    <3>. QED  BY <2>1, <3>1, Zenon
  <2>2. PICK x \in T : TRUE
    BY <2>1
  <2>. DEFINE R == T \ {x}
  <2>3. R \in SUBSET S /\ Cardinality(R) = n
    <3>1. Cardinality(R) = Cardinality(T) - 1
      BY <1>1, <2>2, FS_RemoveElement
    <3>. QED  BY <2>1, <3>1
  <2>4. CASE R = {}
    <3>1. T = {x} /\ x \in Int
      BY <2>2, <2>4
    <3>. QED  BY <3>1 DEF Greatest
  <2>5. CASE R # {}
    <3>1. Greatest(R)
      <4>. HIDE DEF R
      <4>. QED  BY <1>3, <2>3, <2>5, Zenon
    <3>2. PICK m \in R : \A k \in R : k <= m
      BY <3>1 DEF Greatest
    <3>3. m \in Int /\ x \in Int /\ \A k \in T : k = x \/ k \in R
      BY <2>2
    <3>4. CASE x <= m
      BY <3>2, <3>3, <3>4 DEF Greatest
    <3>5. CASE ~ (x <= m)
      <4>1. \A k \in R : k \in Int /\ k <= x
        BY <3>2, <3>3, <3>5
      <4>. QED  BY <2>2, <3>3, <4>1 DEF Greatest
    <3>. QED  BY <3>4, <3>5
  <2>. QED  BY <2>4, <2>5
<1>4. Cardinality(S) \in Good
  <2>. HIDE DEF Good
  <2>. QED  BY <1>1, <1>2, <1>3, SetInduction
<1>. QED  BY <1>4

LEMMA FiniteImage ==
  ASSUME NEW S, IsFiniteSet(S), NEW f, DOMAIN f = S
  PROVE  IsFiniteSet({f[x] : x \in S})
<1>. DEFINE T == {f[x] : x \in S}
            g == [x \in S |-> f[x]]
<1>1. g \in Surjection(S, T)
  BY DEF Surjection
<1>. HIDE DEF T, g
<1>2. IsFiniteSet(T)
  BY <1>1, FS_Surjection
<1>. QED  BY <1>2 DEF T

LEMMA GreatestIs ==
  ASSUME NEW S \in SUBSET Int, IsFiniteSet(S), S # {}
  PROVE  Max(S) \in S /\ \A k \in S : k <= Max(S)
<1>1. PICK m \in S : \A k \in S : m >= k
  BY GreatestInt
<1>2. Max(S) \in S /\ \A k \in S : Max(S) >= k
  BY <1>1, Zenon DEF Max
<1>. QED  BY <1>2

LEMMA LeastIs ==
  ASSUME NEW S \in SUBSET Int, IsFiniteSet(S), S # {}
  PROVE  Min(S) \in S /\ \A k \in S : Min(S) <= k
<1>. DEFINE N == {0 - k : k \in S}
<1>1. N \in SUBSET Int /\ N # {}
  <2>1. \A k \in S : 0 - k \in Int
    OBVIOUS
  <2>2. \A n \in N : n \in Int
    BY <2>1
  <2>3. PICK k \in S : TRUE
    OBVIOUS
  <2>4. 0 - k \in N
    OBVIOUS
  <2>. HIDE DEF N
  <2>. QED  BY <2>2, <2>4
<1>2. IsFiniteSet(N)
  <2>. DEFINE f == [k \in S |-> 0 - k]
  <2>1. IsFiniteSet({f[k] : k \in S})
    <3>1. DOMAIN f = S
      OBVIOUS
    <3>. HIDE DEF f
    <3>. QED  BY <3>1, FiniteImage
  <2>2. \A k \in S : f[k] = 0 - k
    OBVIOUS
  <2>. HIDE DEF f
  <2>. QED  BY <2>1, <2>2
<1>3. PICK n \in N : \A k \in N : k <= n
  <2>. HIDE DEF N
  <2>. QED  BY <1>1, <1>2, GreatestInt
<1>4. PICK m \in S : n = 0 - m
  BY <1>3
<1>5. \A k \in S : m <= k
  <2>1. TAKE k \in S
  <2>2. 0 - k <= n
    BY <1>3
  <2>. QED  BY <1>4, <2>2
<1>6. \E x \in S : \A k \in S : x <= k
  BY <1>5
<1>. QED  BY <1>6, Zenon DEF Min

-----------------------------------------------------------------------------
(* The operands of a distance function.                                    *)

SlotType == [raw : Vector \cup {Nothing}, vec : Vector \cup {Nothing},
             norm2 : Vector \cup {Nothing}, hit : BOOLEAN, toast_ptr : Oid \cup {Nothing}]

\* A slot keeps the norm of its vector, and the pointer it was fetched by
\* still leads to that vector.
SlotRight(s) ==
  /\ s \in SlotType
  /\ s.raw = s.vec /\ s.norm2 \in {Nothing, s.vec}
  /\ s.toast_ptr # Nothing => s.toast_ptr \in seen /\ s.vec = stored[s.toast_ptr]

OperandInv ==
  /\ stored \in [Oid -> Vector] /\ seen \subseteq Oid
  /\ DOMAIN slot = 1 .. 2 /\ \A a \in 1 .. 2 : SlotRight(slot[a])
  /\ OperandsAreThose

LEMMA DatumIs ==
  ASSUME NEW d \in Datum, stored \in [Oid -> Vector]
  PROVE  /\ Bytes(d) \in Vector /\ Bytes(d) # Nothing /\ d.oid \in Oid \cup {Nothing}
         /\ d.oid # Nothing => d.oid \in Oid /\ Bytes(d) = stored[d.oid]
<1>1. CASE d.oid = Nothing
  <2>1. d.bytes \in Vector
    BY <1>1, OperandAssumption DEF Datum
  <2>. QED  BY <1>1, <2>1, OperandAssumption DEF Bytes
<1>2. CASE d.oid # Nothing
  <2>1. d.oid \in Oid
    BY <1>2 DEF Datum
  <2>. QED  BY <1>2, <2>1, OperandAssumption DEF Bytes
<1>. QED  BY <1>1, <1>2

\* Slot::get: the vector of the argument, whichever way it came.
LEMMA GetRight ==
  ASSUME stored \in [Oid -> Vector], NEW s, SlotRight(s), NEW d \in Datum
  PROVE  /\ Get(s, d) \in SlotType /\ Get(s, d).vec = Bytes(d) /\ Get(s, d).raw = Bytes(d)
         /\ Get(s, d).norm2 \in {Nothing, Bytes(d)} /\ Get(s, d).toast_ptr = d.oid
<1>1. /\ Bytes(d) \in Vector /\ Bytes(d) # Nothing /\ d.oid \in Oid \cup {Nothing}
      /\ d.oid # Nothing => d.oid \in Oid /\ Bytes(d) = stored[d.oid]
  BY DatumIs
<1>2. /\ s \in SlotType /\ s.raw = s.vec /\ s.norm2 \in {Nothing, s.vec}
      /\ s.toast_ptr # Nothing => s.vec = stored[s.toast_ptr]
  BY DEF SlotRight
<1>3. CASE d.oid # Nothing /\ s.vec # Nothing /\ s.toast_ptr = d.oid
  <2>1. Get(s, d) = [s EXCEPT !.hit = TRUE]
    BY <1>3 DEF Get, ondisk_toast_ident
  <2>2. s.vec = Bytes(d)
    BY <1>1, <1>2, <1>3
  <2>. QED  BY <1>1, <1>2, <1>3, <2>1, <2>2 DEF SlotType
<1>4. CASE ~ (d.oid # Nothing /\ s.vec # Nothing /\ s.toast_ptr = d.oid)
  <2>1. Get(s, d) = Filled(s, d)
    BY <1>4 DEF Get, ondisk_toast_ident
  <2>. QED  BY <1>1, <1>2, <2>1 DEF Filled, SlotType, ondisk_toast_ident
<1>. QED  BY <1>3, <1>4

LEMMA EmptySlotRight == SlotRight(EmptySlot)
BY DEF SlotRight, EmptySlot, SlotType

\* Two arguments, with the norm of the one the call takes it of.
LEMMA CallKeeps ==
  ASSUME stored \in [Oid -> Vector], NEW a \in Datum, NEW b \in Datum,
         NEW got, got = <<Get(slot[1], a), Get(slot[2], b)>>,
         SlotRight(slot[1]), SlotRight(slot[2]), seen \subseteq Oid,
         NEW used \in 0 .. 2,
         slot' = IF used = 0 THEN got ELSE [got EXCEPT ![used] = Normed(@)],
         Calls(a, b, slot', used), Given(a, b), UNCHANGED stored
  PROVE  OperandInv'
<1>1. /\ got[1] \in SlotType /\ got[1].vec = Bytes(a) /\ got[1].raw = Bytes(a)
      /\ got[1].norm2 \in {Nothing, Bytes(a)} /\ got[1].toast_ptr = a.oid
  BY GetRight
<1>2. /\ got[2] \in SlotType /\ got[2].vec = Bytes(b) /\ got[2].raw = Bytes(b)
      /\ got[2].norm2 \in {Nothing, Bytes(b)} /\ got[2].toast_ptr = b.oid
  BY GetRight
<1>3. DOMAIN got = 1 .. 2 /\ DOMAIN slot' = 1 .. 2
  <2>1. DOMAIN got = 1 .. 2
    OBVIOUS
  <2>2. DOMAIN slot' = DOMAIN got
    BY Zenon
  <2>. QED  BY <2>1, <2>2
<1>4. \A i \in 1 .. 2 : /\ slot'[i] = IF i = used THEN Normed(got[i]) ELSE got[i]
                        /\ i = used => slot'[i].norm2 = slot'[i].vec
  <2>1. \A i \in 1 .. 2 : slot'[i] = IF i = used THEN Normed(got[i]) ELSE got[i]
    <3>1. CASE used = 0
      BY <3>1
    <3>2. CASE used # 0
      <4>1. slot' = [got EXCEPT ![used] = Normed(got[used])]
        BY <3>2, Zenon
      <4>. QED  BY <1>3, <4>1
    <3>. QED  BY <3>1, <3>2
  <2>2. \A i \in 1 .. 2 : Normed(got[i]).norm2 = Normed(got[i]).vec
    BY <1>1, <1>2 DEF Normed, SlotType
  <2>. QED  BY <2>1, <2>2
<1>5. /\ slot'[1] \in SlotType /\ slot'[1].vec = Bytes(a) /\ slot'[1].raw = Bytes(a)
      /\ slot'[1].norm2 \in {Nothing, Bytes(a)} /\ slot'[1].toast_ptr = a.oid
  <2>1. slot'[1] = got[1] \/ slot'[1] = Normed(got[1])
    BY <1>4
  <2>. QED  BY <1>1, <2>1 DEF Normed, SlotType
<1>6. /\ slot'[2] \in SlotType /\ slot'[2].vec = Bytes(b) /\ slot'[2].raw = Bytes(b)
      /\ slot'[2].norm2 \in {Nothing, Bytes(b)} /\ slot'[2].toast_ptr = b.oid
  <2>1. slot'[2] = got[2] \/ slot'[2] = Normed(got[2])
    BY <1>4
  <2>. QED  BY <1>2, <2>1 DEF Normed, SlotType
<1>7. \A i \in 1 .. 2 : SlotRight(slot[i])'
  BY <1>5, <1>6, DatumIs DEF SlotRight, Given
<1>8. OperandsAreThose'
  <2>1. called'.operands = called'.values
    BY <1>5, <1>6 DEF Calls
  <2>2. called'.norm = called'.of
    <3>1. CASE used = 0
      BY <3>1 DEF Calls
    <3>2. CASE used = 1
      BY <1>4, <1>5, <3>2 DEF Calls
    <3>3. CASE used = 2
      BY <1>4, <1>6, <3>3 DEF Calls
    <3>. QED  BY <3>1, <3>2, <3>3
  <2>. QED  BY <2>1, <2>2 DEF OperandsAreThose
<1>9. seen' \subseteq Oid /\ stored' \in [Oid -> Vector]
  BY DEF Given
<1>. QED  BY <1>3, <1>7, <1>8, <1>9 DEF OperandInv

LEMMA OperandStep ==
  ASSUME OperandInv, [CacheNext]_operandVars
  PROVE  OperandInv'
<1>1. /\ stored \in [Oid -> Vector] /\ seen \subseteq Oid
      /\ DOMAIN slot = 1 .. 2 /\ SlotRight(slot[1]) /\ SlotRight(slot[2]) /\ OperandsAreThose
  BY DEF OperandInv
<1>2. ASSUME NEW a \in Datum, NEW b \in Datum, Distance(a, b) PROVE OperandInv'
  <2>. DEFINE got  == <<Get(slot[1], a), Get(slot[2], b)>>
              used == 0
  <2>1. slot' = got /\ Calls(a, b, slot', used) /\ Given(a, b) /\ UNCHANGED stored
    BY <1>2 DEF Distance
  <2>2. slot' = IF used = 0 THEN got ELSE [got EXCEPT ![used] = Normed(@)]
    BY <2>1, Zenon
  <2>3. used \in 0 .. 2
    OBVIOUS
  <2>. HIDE DEF used
  <2>. QED  BY <1>1, <2>1, <2>2, <2>3, CallKeeps
<1>3. ASSUME NEW a \in Datum, NEW b \in Datum, Cosine(a, b) PROVE OperandInv'
  <2>. DEFINE got  == <<Get(slot[1], a), Get(slot[2], b)>>
              used == IF got[2].hit THEN 2 ELSE IF got[1].hit THEN 1 ELSE 0
  <2>1. /\ slot' = IF used = 0 THEN got ELSE [got EXCEPT ![used] = Normed(@)]
        /\ Calls(a, b, slot', used)
    BY <1>3, Zenon DEF Cosine
  <2>2. used \in 0 .. 2
    OBVIOUS
  <2>3. Given(a, b) /\ UNCHANGED stored
    BY <1>3 DEF Cosine
  <2>. HIDE DEF used
  <2>. QED  BY <1>1, <2>1, <2>2, <2>3, CallKeeps
<1>4. ASSUME NEW a \in Datum, NEW b \in Datum, DirectCall(a, b) PROVE OperandInv'
  <2>1. Get(EmptySlot, a).vec = Bytes(a) /\ Get(EmptySlot, b).vec = Bytes(b)
    BY <1>1, GetRight, EmptySlotRight
  <2>2. OperandsAreThose'
    BY <1>4, <2>1 DEF DirectCall, Calls, OperandsAreThose
  <2>3. seen \subseteq seen' /\ seen' \subseteq Oid
    BY <1>1, <1>4 DEF DirectCall, Given
  <2>4. UNCHANGED <<stored, slot>>
    BY <1>4 DEF DirectCall
  <2>5. SlotRight(slot[1])' /\ SlotRight(slot[2])'
    BY <1>1, <2>3, <2>4 DEF SlotRight
  <2>. QED  BY <1>1, <2>2, <2>3, <2>4, <2>5 DEF OperandInv
<1>5. CASE EndExecution
  <2>1. \A i \in 1 .. 2 : SlotRight(slot[i])'
    <3>1. \A i \in 1 .. 2 : slot'[i] = EmptySlot
      BY <1>5 DEF EndExecution
    <3>2. /\ EmptySlot \in SlotType /\ EmptySlot.raw = EmptySlot.vec
          /\ EmptySlot.norm2 = Nothing /\ EmptySlot.toast_ptr = Nothing
      BY DEF EmptySlot, SlotType
    <3>. QED  BY <3>1, <3>2 DEF SlotRight
  <2>2. OperandsAreThose'
    BY <1>5 DEF EndExecution, NotCalled, OperandsAreThose
  <2>3. DOMAIN slot' = 1 .. 2 /\ seen' = {} /\ stored' = stored
    BY <1>5 DEF EndExecution
  <2>. QED  BY <1>1, <2>1, <2>2, <2>3 DEF OperandInv
<1>6. ASSUME NEW oid \in Oid, NEW v \in Vector, Reuse(oid, v) PROVE OperandInv'
  <2>1. \A o \in seen : stored'[o] = stored[o]
    BY <1>1, <1>6 DEF Reuse
  <2>2. /\ stored' \in [Oid -> Vector] /\ UNCHANGED <<slot, seen, called>>
    BY <1>1, <1>6 DEF Reuse
  <2>3. SlotRight(slot[1])' /\ SlotRight(slot[2])'
    BY <1>1, <2>1, <2>2 DEF SlotRight
  <2>. QED  BY <1>1, <2>2, <2>3 DEF OperandInv, OperandsAreThose
<1>7. CASE UNCHANGED operandVars
  BY <1>7 DEF operandVars, OperandInv, SlotRight, OperandsAreThose
<1>. QED  BY <1>2, <1>3, <1>4, <1>5, <1>6, <1>7 DEF CacheNext

\* Whatever was given before, inline or not, and whatever OIDs are used again,
\* a distance is that of the values given and the norm used that of one of
\* them.  (Slot::get, with_slots, cosine_distance.)
THEOREM OperandsRight == CacheSpec => []OperandsAreThose
<1>1. CacheInit => OperandInv
  <2>1. CacheInit => \A i \in 1 .. 2 : slot[i] = EmptySlot
    BY DEF CacheInit
  <2>. QED  BY <2>1, EmptySlotRight DEF CacheInit, OperandInv, OperandsAreThose, NotCalled
<1>2. OperandInv /\ [CacheNext]_operandVars => OperandInv'
  BY OperandStep
<1>3. OperandInv => OperandsAreThose
  BY DEF OperandInv
<1>. QED  BY <1>1, <1>2, <1>3, PTL DEF CacheSpec

-----------------------------------------------------------------------------
(* Sums over finite sets.                                                  *)

\* The element that a fold over a set takes next.
Chosen(s) == CHOOSE x \in s : TRUE

\* What is summed over a set, given the sums over its subsets.
SumStep(S, w, f) == [s \in SUBSET S |-> IF s = {} THEN 0 ELSE w[Chosen(s)] + f[s \ {Chosen(s)}]]

LEMMA SumExists ==
  ASSUME NEW S, IsFiniteSet(S), NEW w \in [S -> Int]
  PROVE  \E f \in [SUBSET S -> Int] : f = SumStep(S, w, f)
<1>. DEFINE Runs(f, n) == \A s \in SUBSET S : Cardinality(s) <= n => f[s] = SumStep(S, w, f)[s]
            Good == {n \in Nat : \E f \in [SUBSET S -> Int] : Runs(f, n)}
<1>1. \A s \in SUBSET S : IsFiniteSet(s) /\ Cardinality(s) \in Nat
  BY FS_Subset, FS_CardinalityType
<1>2. \A s \in SUBSET S : s # {} => /\ Chosen(s) \in s /\ s \ {Chosen(s)} \in SUBSET S
                                    /\ Cardinality(s \ {Chosen(s)}) = Cardinality(s) - 1
  <2>1. TAKE s \in SUBSET S
  <2>2. HAVE s # {}
  <2>3. Chosen(s) \in s
    BY <2>2 DEF Chosen
  <2>. QED  BY <1>1, <2>3, FS_RemoveElement
<1>3. \A f \in [SUBSET S -> Int] : SumStep(S, w, f) \in [SUBSET S -> Int]
  <2>1. TAKE f \in [SUBSET S -> Int]
  <2>2. \A s \in SUBSET S : SumStep(S, w, f)[s] \in Int
    <3>1. TAKE s \in SUBSET S
    <3>2. CASE s = {}
      BY <3>2 DEF SumStep
    <3>3. CASE s # {}
      <4>1. w[Chosen(s)] \in Int /\ f[s \ {Chosen(s)}] \in Int
        BY <1>2, <3>3
      <4>. QED  BY <3>3, <4>1 DEF SumStep
    <3>. QED  BY <3>2, <3>3
  <2>. QED  BY <2>2 DEF SumStep
<1>4. 0 \in Good
  <2>. DEFINE z == [s \in SUBSET S |-> 0]
  <2>1. z \in [SUBSET S -> Int]
    OBVIOUS
  <2>2. \A s \in SUBSET S : Cardinality(s) <= 0 => z[s] = SumStep(S, w, z)[s]
    <3>1. TAKE s \in SUBSET S
    <3>2. HAVE Cardinality(s) <= 0
    <3>3. s = {}
      BY <1>1, <3>2, FS_EmptySet
    <3>. QED  BY <3>3 DEF SumStep
  <2>. HIDE DEF z
  <2>. QED  BY <2>1, <2>2
<1>5. ASSUME NEW n \in Nat, n \in Good PROVE n + 1 \in Good
  <2>1. PICK f \in [SUBSET S -> Int] : Runs(f, n)
    BY <1>5
  <2>. DEFINE g == SumStep(S, w, f)
  <2>2. g \in [SUBSET S -> Int]
    BY <1>3
  <2>3. \A s \in SUBSET S : Cardinality(s) <= n + 1 => g[s] = SumStep(S, w, g)[s]
    <3>1. TAKE s \in SUBSET S
    <3>2. HAVE Cardinality(s) <= n + 1
    <3>3. CASE s = {}
      BY <3>3 DEF SumStep
    <3>4. CASE s # {}
      <4>. DEFINE r == s \ {Chosen(s)}
      <4>1. r \in SUBSET S /\ Cardinality(r) <= n
        BY <1>1, <1>2, <3>2, <3>4
      <4>2. g[r] = f[r]
        <5>. HIDE DEF r
        <5>. QED  BY <2>1, <4>1
      <4>3. /\ SumStep(S, w, g)[s] = w[Chosen(s)] + g[r]
            /\ SumStep(S, w, f)[s] = w[Chosen(s)] + f[r]
        <5>. HIDE DEF g
        <5>. QED  BY <3>4 DEF SumStep
      <4>. HIDE DEF r
      <4>. QED  BY <4>2, <4>3
    <3>. QED  BY <3>3, <3>4
  <2>. HIDE DEF g
  <2>4. n + 1 \in Nat
    OBVIOUS
  <2>. QED  BY <2>2, <2>3, <2>4
<1>6. Cardinality(S) \in Good
  <2>. HIDE DEF Good
  <2>1. Cardinality(S) \in Nat
    BY <1>1
  <2>. QED  BY <1>4, <1>5, <2>1, SetInduction
<1>7. PICK f \in [SUBSET S -> Int] : Runs(f, Cardinality(S))
  BY <1>6
<1>8. \A s \in SUBSET S : f[s] = SumStep(S, w, f)[s]
  <2>1. \A s \in SUBSET S : Cardinality(s) <= Cardinality(S)
    BY FS_Subset
  <2>. QED  BY <1>7, <2>1
<1>9. f = SumStep(S, w, f)
  <2>. DEFINE g == SumStep(S, w, f)
  <2>1. g \in [SUBSET S -> Int] /\ \A s \in SUBSET S : f[s] = g[s]
    BY <1>3, <1>8
  <2>. HIDE DEF g
  <2>2. f = g
    BY <2>1
  <2>. QED  BY <2>2 DEF g
<1>. QED  BY <1>9

LEMMA SumInt ==
  ASSUME NEW S, IsFiniteSet(S), NEW w \in [S -> Int], NEW f, f = SumStep(S, w, f)
  PROVE  f[S] \in Int
<1>. DEFINE Good == {n \in Nat : \A s \in SUBSET S : Cardinality(s) = n => f[s] \in Int}
<1>1. \A s \in SUBSET S : IsFiniteSet(s) /\ Cardinality(s) \in Nat
  BY FS_Subset, FS_CardinalityType
<1>2. \A s \in SUBSET S : f[s] = IF s = {} THEN 0 ELSE w[Chosen(s)] + f[s \ {Chosen(s)}]
  BY Zenon DEF SumStep
<1>3. 0 \in Good
  BY <1>1, <1>2, FS_EmptySet
<1>4. ASSUME NEW n \in Nat, n \in Good PROVE n + 1 \in Good
  <2>1. SUFFICES ASSUME NEW s \in SUBSET S, Cardinality(s) = n + 1 PROVE f[s] \in Int
    <3>1. n + 1 \in Nat
      OBVIOUS
    <3>. QED  BY <2>1, <3>1, Zenon
  <2>2. s # {} /\ IsFiniteSet(s)
    BY <1>1, <2>1, FS_EmptySet
  <2>3. Chosen(s) \in s
    BY <2>2 DEF Chosen
  <2>4. s \ {Chosen(s)} \in SUBSET S /\ Cardinality(s \ {Chosen(s)}) = n
    <3>1. Cardinality(s \ {Chosen(s)}) = Cardinality(s) - 1
      BY <2>2, <2>3, FS_RemoveElement
    <3>. QED  BY <2>1, <3>1
  <2>5. f[s \ {Chosen(s)}] \in Int /\ w[Chosen(s)] \in Int
    <3>1. f[s \ {Chosen(s)}] \in Int
      BY <1>4, <2>4, Zenon
    <3>. QED  BY <2>3, <3>1
  <2>6. f[s] = w[Chosen(s)] + f[s \ {Chosen(s)}]
    BY <1>2, <2>2, Zenon
  <2>. QED  BY <2>5, <2>6
<1>5. Cardinality(S) \in Good
  <2>. HIDE DEF Good
  <2>1. Cardinality(S) \in Nat
    BY <1>1
  <2>. QED  BY <1>3, <1>4, <2>1, SetInduction
<1>. QED  BY <1>5

LEMMA SumSetInt ==
  ASSUME NEW S \in SUBSET Int, IsFiniteSet(S)
  PROVE  SumSet(S) \in Int
<1>. DEFINE w == [x \in S |-> x]
            Is(f) == f = [s \in SUBSET S |-> IF s = {} THEN 0
                                             ELSE Chosen(s) + f[s \ {Chosen(s)}]]
            iter == CHOOSE f : Is(f)
<1>1. \A f : Is(f) <=> f = SumStep(S, w, f)
  <2>1. \A s \in SUBSET S : s # {} => w[Chosen(s)] = Chosen(s)
    BY DEF Chosen
  <2>. HIDE DEF w
  <2>. QED  BY <2>1, Zenon DEF SumStep
<1>2. w \in [S -> Int]
  OBVIOUS
<1>3. \E f : Is(f)
  <2>. HIDE DEF w, Is
  <2>. QED  BY <1>1, <1>2, SumExists
<1>4. SumSet(S) = iter[S]
  BY DEF SumSet, FoldSet, MapThenFoldSet, Chosen
<1>5. Is(iter)
  <2>. HIDE DEF Is
  <2>. QED  BY <1>3
<1>. HIDE DEF w, Is, iter
<1>. QED  BY <1>1, <1>2, <1>4, <1>5, SumInt

-----------------------------------------------------------------------------
(* Routing to partitions: the refreshes.                                   *)

Means == [sum : Int, n : Nat]

\* The mean a partition should be summarised by.
Due(p) == IF Mean(p, 1).n > 0 THEN Mean(p, 1) ELSE NoMean

ParentRight ==
  /\ parent \in [Partition -> [on : BOOLEAN, name : Nat, rows : SUBSET (Point \cup {Odd})]]
  /\ \A p \in Partition : /\ IsFiniteSet(parent[p].rows)
                          /\ ~ parent[p].on => parent[p].rows = {}

SummaryRight ==
  /\ summary \in [of : [Partition -> Means], fresh : BOOLEAN]
  /\ summary.fresh => \A p \in Partition : summary.of[p] = Due(p)

RefreshType ==
  [pc : {"idle", "delete", "rows", "insert"}, left : Seq(Partition), seen : SUBSET Partition,
   gone : SUBSET Partition, new : [Partition -> Means], calm : BOOLEAN]

Precedes(p, q) == p # q /\ parent[p].name <= parent[q].name
Ascending(q) == \A i, j \in DOMAIN q : i < j => Precedes(q[i], q[j])

\* A refresh goes through the partitions in order: those it has summarised come
\* before those left.
InOrder(r) ==
  /\ r \in RefreshType /\ Ascending(r.left)
  /\ \A p \in Partition : r.new[p] # NoMean =>
       r.pc = "insert" /\ \A i \in DOMAIN r.left : Precedes(p, r.left[i])

\* It deletes in the order of a scan: the rows gone come before those it has
\* still to delete, and all are committed rows.
RowsRight(r) ==
  /\ r.seen \cup r.gone \subseteq With(summary.of)
  /\ r.pc \in {"idle", "delete"} => r.gone = {}
  /\ r.pc # "rows" => r.seen = {}
  /\ \A g \in r.gone, x \in r.seen : g < x

\* One that nothing disturbed deletes what is committed, and has the mean of
\* each partition but those left.
CalmRight(r) ==
  r.calm => /\ r.pc # "idle"
            /\ r.pc \in {"rows", "insert"} => r.seen \cup r.gone = With(summary.of)
            /\ \A p \in Partition : r.new[p] = Due(p) \/ (r.new[p] = NoMean /\ p \in ToSet(r.left))

Alone(s) == refresh[s].calm => \A t \in Session \ {s} : refresh[t].pc = "idle"

\* A row is deleted by one session only.
Exclusive ==
  \A s, t \in Session : s # t => refresh[s].gone \cap refresh[t].gone = {}

RouteInv ==
  /\ ParentRight /\ SummaryRight
  /\ DOMAIN refresh = Session
  /\ \A s \in Session : /\ InOrder(refresh[s]) /\ RowsRight(refresh[s])
                        /\ CalmRight(refresh[s]) /\ Alone(s)
  /\ Exclusive
  /\ PickedAreNearest

LEMMA MeanIs ==
  ASSUME ParentRight, NEW p \in Partition
  PROVE  Mean(p, 1) \in Means /\ Due(p) \in Means
<1>. DEFINE rows == parent[p].rows \ {Odd}
<1>1. rows \in SUBSET Int /\ IsFiniteSet(rows)
  <2>1. parent[p].rows \subseteq Point \cup {Odd} /\ IsFiniteSet(parent[p].rows)
    BY DEF ParentRight
  <2>. QED  BY <2>1, PointAssumption, FS_Subset
<1>. HIDE DEF rows
<1>2. SumSet(rows) \in Int /\ Cardinality(rows) \in Nat
  BY <1>1, SumSetInt, FS_CardinalityType
<1>3. Mean(p, 1) = [sum |-> SumSet(rows), n |-> Cardinality(rows)]
  BY DEF Mean, rows
<1>4. NoMean \in Means
  BY DEF NoMean, Means
<1>. QED  BY <1>2, <1>3, <1>4 DEF Means, Due

\* The row that a DELETE comes to next is the first of those it has seen.
LEMMA NextIs ==
  ASSUME NEW s \in Session, refresh[s] \in RefreshType, refresh[s].seen # {}
  PROVE  /\ NextRow(s) \in refresh[s].seen /\ NextRow(s) \in Partition /\ NextRow(s) \in Int
         /\ \A x \in refresh[s].seen : x \in Int /\ NextRow(s) <= x
<1>. DEFINE S == refresh[s].seen
<1>1. S \subseteq Partition
  BY DEF RefreshType
<1>2. S \in SUBSET Int /\ IsFiniteSet(S)
  <2>. HIDE DEF S
  <2>1. S \in SUBSET Int
    BY <1>1, PartitionAssumption
  <2>. QED  BY <1>1, <2>1, PartitionAssumption, FS_Subset
<1>3. Min(S) \in S /\ \A x \in S : Min(S) <= x
  <2>. HIDE DEF S
  <2>1. S # {}
    BY DEF S
  <2>. QED  BY <1>2, <2>1, LeastIs
<1>. QED  BY <1>1, <1>2, <1>3 DEF NextRow

\* Of the sessions that wait to insert, the one that has come furthest waits for
\* none.
LEMMA NoneInserts ==
  ASSUME RouteInv, NamesDiffer, \A s \in Session : SawAll(s) /\ Waits(s)
  PROVE  \A s \in Session : refresh[s].pc = "rows"
<1>1. SUFFICES ASSUME \E s \in Session : refresh[s].pc # "rows" PROVE FALSE
  OBVIOUS
<1>2. \A s \in Session : InOrder(refresh[s]) /\ RowsRight(refresh[s])
  BY DEF RouteInv
<1>. DEFINE Inserting(s) == refresh[s].pc = "insert" /\ refresh[s].left # <<>>
            name == [p \in Partition |-> parent[p].name]
            Names == {name[Head(refresh[s].left)] : s \in {t \in Session : Inserting(t)}}
<1>3. \A s \in Session : refresh[s].pc # "rows" => Inserting(s)
  BY DEF Waits
<1>4. \A s \in Session : Inserting(s) =>
        Head(refresh[s].left) \in Partition /\ Head(refresh[s].left) = refresh[s].left[1]
        /\ 1 \in DOMAIN refresh[s].left
  BY <1>2 DEF InOrder, RefreshType
<1>5. \A p \in Partition : name[p] = parent[p].name /\ name[p] \in Int
  BY DEF RouteInv, ParentRight
<1>6. Names \in SUBSET Int /\ IsFiniteSet(Names) /\ Names # {}
  <2>1. Names \subseteq {name[p] : p \in Partition}
    BY <1>4
  <2>2. IsFiniteSet({name[p] : p \in Partition})
    <3>1. DOMAIN name = Partition
      OBVIOUS
    <3>. HIDE DEF name
    <3>. QED  BY <3>1, PartitionAssumption, FiniteImage
  <2>3. Names # {}
    BY <1>1, <1>3
  <2>. HIDE DEF Names, name
  <2>4. Names \in SUBSET Int
    BY <1>5, <2>1
  <2>. QED  BY <2>1, <2>2, <2>3, <2>4, FS_Subset
<1>7. PICK m \in Names : \A k \in Names : k <= m
  <2>. HIDE DEF Names
  <2>. QED  BY <1>6, GreatestInt
<1>8. PICK s \in Session : Inserting(s) /\ m = name[Head(refresh[s].left)]
  BY <1>7
<1>9. PICK p \in Partition : p = Head(refresh[s].left)
  BY <1>4, <1>8
<1>10. PICK t \in Session \ {s} : refresh[t].new[p] # NoMean \/ p \in refresh[t].gone
  BY <1>8, <1>9 DEF Waits
<1>11. p \notin refresh[t].gone
  <2>1. refresh[t].gone \subseteq With(summary.of) /\ With(summary.of) \subseteq refresh[s].gone
    BY <1>2, <1>8 DEF RowsRight, SawAll
  <2>2. refresh[s].gone \cap refresh[t].gone = {}
    BY <1>10 DEF RouteInv, Exclusive
  <2>. QED  BY <2>1, <2>2
<1>12. Inserting(t) /\ Precedes(p, refresh[t].left[1])
  <2>1. refresh[t].pc = "insert" /\ \A i \in DOMAIN refresh[t].left : Precedes(p, refresh[t].left[i])
    BY <1>2, <1>10, <1>11 DEF InOrder
  <2>. QED  BY <1>3, <1>4, <2>1
<1>13. PICK q \in Partition : q = refresh[t].left[1] /\ name[q] \in Names
  BY <1>4, <1>12
<1>14. p # q /\ name[p] <= name[q] /\ name[q] <= name[p]
  BY <1>5, <1>7, <1>8, <1>9, <1>12, <1>13 DEF Precedes
<1>15. parent[p].name = parent[q].name
  <2>1. name[p] \in Int /\ name[q] \in Int /\ name[p] = parent[p].name /\ name[q] = parent[q].name
    BY <1>5
  <2>. HIDE DEF name
  <2>. QED  BY <1>14, <2>1
<1>. QED  BY <1>14, <1>15 DEF NamesDiffer

\* Of those that delete, the one whose next row comes last.
LEMMA NoCircle ==
  ASSUME RouteInv
  PROVE  NoRefreshDeadlock
<1>1. SUFFICES ASSUME NamesDiffer, \A s \in Session : SawAll(s) /\ Waits(s) PROVE FALSE
  BY DEF NoRefreshDeadlock
<1>2. \A s \in Session : refresh[s].pc = "rows" /\ refresh[s].seen # {}
  <2>1. \A s \in Session : refresh[s].pc = "rows"
    BY <1>1, NoneInserts
  <2>. QED  BY <1>1, <2>1 DEF Waits
<1>3. \A s \in Session :
        /\ NextRow(s) \in refresh[s].seen /\ NextRow(s) \in Partition /\ NextRow(s) \in Int
  <2>1. \A s \in Session : refresh[s] \in RefreshType
    BY DEF RouteInv, InOrder
  <2>. QED  BY <1>2, <2>1, NextIs
<1>. DEFINE Nexts == {NextRow(s) : s \in Session}
<1>4. Nexts \in SUBSET Int /\ IsFiniteSet(Nexts) /\ Nexts # {}
  <2>1. Nexts \subseteq Partition
    BY <1>3
  <2>2. Nexts # {}
    BY SessionAssumption
  <2>. HIDE DEF Nexts
  <2>3. IsFiniteSet(Nexts)
    BY <2>1, PartitionAssumption, FS_Subset
  <2>4. Nexts \in SUBSET Int
    BY <2>1, PartitionAssumption
  <2>. QED  BY <2>2, <2>3, <2>4
<1>5. PICK m \in Nexts : \A k \in Nexts : k <= m
  <2>. HIDE DEF Nexts
  <2>. QED  BY <1>4, GreatestInt
<1>6. PICK s \in Session : m = NextRow(s)
  BY <1>5
<1>7. PICK t \in Session \ {s} : m \in refresh[t].gone
  <2>1. Waits(s) /\ refresh[s].pc = "rows"
    BY <1>1, <1>2
  <2>. QED  BY <1>6, <2>1 DEF Waits
<1>8. m < NextRow(t)
  <2>1. RowsRight(refresh[t])
    BY DEF RouteInv
  <2>. QED  BY <1>3, <1>7, <2>1 DEF RowsRight
<1>9. NextRow(t) <= m
  BY <1>5
<1>. QED  BY <1>3, <1>6, <1>8, <1>9

LEMMA SameDue ==
  ASSUME parent' = parent
  PROVE  \A p \in Partition : Due(p)' = Due(p) /\ Mean(p, 1)' = Mean(p, 1)
BY DEF Due, Mean

LEMMA SameOrder ==
  ASSUME \A p \in Partition : parent'[p].name = parent[p].name,
         NEW r, r \in RefreshType, InOrder(r), NEW o, o \in RefreshType,
         o.left = r.left, o.new = r.new, o.pc = r.pc
  PROVE  InOrder(o)'
<1>1. /\ \A i \in DOMAIN r.left : r.left[i] \in Partition
      /\ \A p, q \in Partition : Precedes(p, q) => Precedes(p, q)'
  BY DEF RefreshType, Precedes
<1>2. Ascending(o.left)'
  BY <1>1 DEF InOrder, Ascending
<1>3. \A p \in Partition : o.new[p] # NoMean =>
        o.pc = "insert" /\ \A i \in DOMAIN o.left : Precedes(p, o.left[i])'
  BY <1>1 DEF InOrder
<1>. QED  BY <1>2, <1>3 DEF InOrder

LEMMA SessionsSame ==
  ASSUME RouteInv, UNCHANGED <<parent, summary, refresh>>
  PROVE  \A s \in Session : /\ InOrder(refresh[s])' /\ RowsRight(refresh[s])'
                            /\ CalmRight(refresh[s])' /\ Alone(s)'
<1>1. TAKE s \in Session
<1>2. InOrder(refresh[s]) /\ RowsRight(refresh[s]) /\ CalmRight(refresh[s]) /\ Alone(s)
  BY DEF RouteInv
<1>3. With(summary.of)' = With(summary.of)
  BY DEF With
<1>4. InOrder(refresh[s])'
  BY <1>2, SameOrder DEF InOrder
<1>5. RowsRight(refresh[s])'
  BY <1>2, <1>3 DEF RowsRight
<1>6. CalmRight(refresh[s])'
  BY <1>2, <1>3, SameDue DEF CalmRight
<1>7. Alone(s)'
  BY <1>2 DEF Alone
<1>. QED  BY <1>4, <1>5, <1>6, <1>7

LEMMA NoAnswerYet ==
  ASSUME picked' = NotPicked
  PROVE  PickedAreNearest'
BY DEF NotPicked, PickedAreNearest

\* Rows or partitions change: no refresh is calm any more.
LEMMA ChangedStep ==
  ASSUME RouteInv, Changed, ParentRight',
         \A p \in Partition : parent'[p].name = parent[p].name
  PROVE  RouteInv'
<1>. DEFINE Disturbed(r) == [r EXCEPT !.calm = FALSE]
<1>1. /\ DOMAIN refresh' = Session /\ \A s \in Session : refresh'[s] = Disturbed(refresh[s])
  BY Zenon DEF Changed
<1>2. \A s \in Session : refresh[s] \in RefreshType
  BY DEF RouteInv, InOrder
<1>3. \A s \in Session :
        /\ refresh'[s] \in RefreshType /\ refresh'[s].calm = FALSE
        /\ refresh'[s].left = refresh[s].left /\ refresh'[s].new = refresh[s].new
        /\ refresh'[s].pc = refresh[s].pc /\ refresh'[s].seen = refresh[s].seen
        /\ refresh'[s].gone = refresh[s].gone
  <2>1. TAKE s \in Session
  <2>2. refresh'[s] = [refresh[s] EXCEPT !.calm = FALSE] /\ refresh[s] \in RefreshType
    BY <1>1, <1>2
  <2>. QED  BY <2>2 DEF RefreshType
<1>4. \A s \in Session : InOrder(refresh[s])'
  <2>1. TAKE s \in Session
  <2>2. InOrder(refresh[s])
    BY DEF RouteInv
  <2>. QED  BY <1>2, <1>3, <2>2, SameOrder DEF InOrder
<1>5. \A s \in Session : (RowsRight(refresh[s]) /\ CalmRight(refresh[s]) /\ Alone(s))'
  <2>1. TAKE s \in Session
  <2>2. RowsRight(refresh[s])
    BY DEF RouteInv
  <2>3. With(summary.of)' = With(summary.of)
    BY DEF Changed, RouteInv, SummaryRight, With
  <2>. QED  BY <1>3, <2>2, <2>3 DEF RowsRight, CalmRight, Alone
<1>6. SummaryRight'
  BY DEF Changed, RouteInv, SummaryRight
<1>7. Exclusive'
  BY <1>3 DEF RouteInv, Exclusive
<1>8. PickedAreNearest'
  BY NoAnswerYet DEF Changed
<1>. QED  BY <1>1, <1>4, <1>5, <1>6, <1>7, <1>8 DEF RouteInv

\* A session goes on with its refresh, or gives it up.
LEMMA SessionStep ==
  ASSUME RouteInv, NEW s \in Session, NEW r, InOrder(r), RowsRight(r), CalmRight(r),
         \A t \in Session \ {s} : r.gone \cap refresh[t].gone = {},
         r.calm => refresh[s].calm, r.pc # "idle" => refresh[s].pc # "idle",
         refresh' = [refresh EXCEPT ![s] = r], UNCHANGED <<parent, summary>>,
         picked' = NotPicked
  PROVE  RouteInv'
<1>1. DOMAIN refresh' = Session /\ \A t \in Session : refresh'[t] = IF t = s THEN r ELSE refresh[t]
  BY Zenon DEF RouteInv
<1>2. \A t \in Session : /\ InOrder(refresh[t]) /\ RowsRight(refresh[t])
                         /\ CalmRight(refresh[t]) /\ Alone(t)
  BY DEF RouteInv
<1>3. \A t \in Session : InOrder(refresh[t])'
  <2>1. TAKE t \in Session
  <2>2. InOrder(refresh'[t])
    BY <1>1, <1>2
  <2>. QED  BY <2>2, SameOrder DEF InOrder
<1>4. \A t \in Session : (RowsRight(refresh[t]) /\ CalmRight(refresh[t]))'
  <2>1. TAKE t \in Session
  <2>2. RowsRight(refresh'[t]) /\ CalmRight(refresh'[t])
    BY <1>1, <1>2
  <2>3. With(summary.of)' = With(summary.of)
    BY DEF With
  <2>4. RowsRight(refresh[t])'
    BY <2>2, <2>3 DEF RowsRight
  <2>5. CalmRight(refresh[t])'
    BY <2>2, <2>3, SameDue DEF CalmRight
  <2>. QED  BY <2>4, <2>5
<1>5. \A t \in Session : Alone(t)'
  BY <1>1, <1>2 DEF Alone
<1>6. ParentRight' /\ SummaryRight'
  BY SameDue DEF RouteInv, ParentRight, SummaryRight
<1>7. Exclusive'
  <2>1. SUFFICES ASSUME NEW t \in Session, NEW u \in Session, t # u
                 PROVE  refresh'[t].gone \cap refresh'[u].gone = {}
    BY DEF Exclusive
  <2>2. refresh[t].gone \cap refresh[u].gone = {}
    BY <2>1 DEF RouteInv, Exclusive
  <2>3. CASE t = s
    BY <1>1, <2>1, <2>3
  <2>4. CASE u = s
    BY <1>1, <2>1, <2>4
  <2>5. CASE t # s /\ u # s
    BY <1>1, <2>2, <2>5
  <2>. QED  BY <2>3, <2>4, <2>5
<1>8. PickedAreNearest'
  BY NoAnswerYet
<1>. QED  BY <1>1, <1>3, <1>4, <1>5, <1>6, <1>7, <1>8 DEF RouteInv

LEMMA NoRefreshRight ==
  InOrder(NoRefresh) /\ RowsRight(NoRefresh) /\ CalmRight(NoRefresh)
<1>1. NoMean \in Means
  BY DEF NoMean, Means
<1>2. NoRefresh \in RefreshType
  <2>1. [p \in Partition |-> NoMean] \in [Partition -> Means]
    BY <1>1
  <2>2. <<>> \in Seq(Partition)
    OBVIOUS
  <2>. QED  BY <2>1, <2>2 DEF NoRefresh, RefreshType
<1>3. Ascending(NoRefresh.left) /\ \A p \in Partition : NoRefresh.new[p] = NoMean
  BY DEF NoRefresh, Ascending
<1>. QED  BY <1>2, <1>3 DEF InOrder, RowsRight, CalmRight, NoRefresh

\* Children: the partitions there are, in order.
LEMMA ChildrenAre ==
  ASSUME ParentRight, NEW c \in Children
  PROVE  /\ c \in Seq(Partition) /\ Ascending(c)
         /\ \A p \in Partition : parent[p].on => p \in ToSet(c)
<1>. DEFINE on == {p \in Partition : parent[p].on}
            n == Cardinality(on)
<1>1. IsFiniteSet(on)
  BY PartitionAssumption, FS_Subset
<1>2. c \in [1 .. n -> on] /\ \A i, j \in 1 .. n : i # j => c[i] # c[j]
  BY DEF Children, Listings, SetToSeqs
<1>3. Ascending(c)
  <2>1. SUFFICES ASSUME NEW i \in DOMAIN c, NEW j \in DOMAIN c, i < j
                 PROVE  Precedes(c[i], c[j])
    BY DEF Ascending
  <2>2. parent[c[i]].name <= parent[c[j]].name
    BY <2>1 DEF Children
  <2>3. i \in 1 .. n /\ j \in 1 .. n
    BY <1>2
  <2>4. i # j
    BY <2>1, <2>3
  <2>. QED  BY <1>2, <2>2, <2>3, <2>4 DEF Precedes
<1>4. /\ c \in Seq(on) /\ \A x \in on : \E i \in DOMAIN c : c[i] = x
  <2>. HIDE DEF on
  <2>1. \A i, j \in 1 .. n : c[i] = c[j] => i = j
    BY <1>2
  <2>2. c \in [1 .. n -> on]
    BY <1>2
  <2>3. \A x \in on : \E i \in DOMAIN c : c[i] = x
    BY <1>1, <2>1, <2>2, InjectiveListing, Zenon
  <2>. QED  BY <1>1, <2>1, <2>2, <2>3, InjectiveListing, Zenon
<1>5. c \in Seq(Partition)
  BY <1>4
<1>. QED  BY <1>3, <1>4, <1>5 DEF ToSet

LEMMA BeginStep ==
  ASSUME RouteInv, NEW s \in Session, Begin(s)
  PROVE  RouteInv'
<1>. DEFINE Disturbed(r) == [r EXCEPT !.calm = FALSE]
            Started(c) == [NoRefresh EXCEPT !.pc = "delete", !.left = c,
                             !.calm = \A u \in Session : refresh[u].pc = "idle"]
<1>1. PICK c \in Children :
        refresh' = [t \in Session |-> IF t = s THEN Started(c) ELSE Disturbed(refresh[t])]
  BY Zenon DEF Begin
<1>2. c \in Seq(Partition) /\ Ascending(c) /\ \A p \in Partition : parent[p].on => p \in ToSet(c)
  BY ChildrenAre DEF RouteInv
<1>3. DOMAIN refresh' = Session /\ refresh'[s] = Started(c)
      /\ \A t \in Session \ {s} : refresh'[t] = Disturbed(refresh[t])
  <2>. HIDE DEF Started, Disturbed
  <2>. QED  BY <1>1
<1>4. \A t \in Session : InOrder(refresh[t]) /\ RowsRight(refresh[t]) /\ refresh[t] \in RefreshType
  BY DEF RouteInv, InOrder
<1>5. \A t \in Session \ {s} :
        /\ refresh'[t] \in RefreshType /\ refresh'[t].calm = FALSE
        /\ refresh'[t].left = refresh[t].left /\ refresh'[t].new = refresh[t].new
        /\ refresh'[t].pc = refresh[t].pc /\ refresh'[t].seen = refresh[t].seen
        /\ refresh'[t].gone = refresh[t].gone
  <2>1. TAKE t \in Session \ {s}
  <2>2. refresh'[t] = [refresh[t] EXCEPT !.calm = FALSE] /\ refresh[t] \in RefreshType
    BY <1>3, <1>4
  <2>. QED  BY <2>2 DEF RefreshType
<1>6. /\ refresh'[s] \in RefreshType /\ refresh'[s].pc = "delete" /\ refresh'[s].left = c
      /\ refresh'[s].seen = {} /\ refresh'[s].gone = {}
      /\ \A p \in Partition : refresh'[s].new[p] = NoMean
      /\ refresh'[s].calm => \A u \in Session : refresh[u].pc = "idle"
  <2>. DEFINE calm == \A u \in Session : refresh[u].pc = "idle"
  <2>1. /\ NoRefresh \in RefreshType /\ NoRefresh.seen = {} /\ NoRefresh.gone = {}
        /\ \A p \in Partition : NoRefresh.new[p] = NoMean
    BY NoRefreshRight DEF InOrder, NoRefresh
  <2>2. refresh'[s] = [NoRefresh EXCEPT !.pc = "delete", !.left = c, !.calm = calm]
    BY <1>3
  <2>3. calm \in BOOLEAN
    OBVIOUS
  <2>. HIDE DEF calm
  <2>4. /\ refresh'[s] \in RefreshType /\ refresh'[s].pc = "delete" /\ refresh'[s].left = c
        /\ refresh'[s].seen = NoRefresh.seen /\ refresh'[s].gone = NoRefresh.gone
        /\ refresh'[s].new = NoRefresh.new /\ refresh'[s].calm = calm
    BY <1>2, <2>1, <2>2, <2>3 DEF RefreshType
  <2>. QED  BY <2>1, <2>4 DEF calm
<1>7. parent' = parent /\ summary' = summary /\ picked' = NotPicked
  BY DEF Begin
<1>8. \A t \in Session : InOrder(refresh[t])'
  <2>1. InOrder(refresh'[s])
    BY <1>2, <1>6 DEF InOrder
  <2>2. \A p \in Partition : parent'[p].name = parent[p].name
    BY <1>7
  <2>3. InOrder(refresh[s])'
    BY <1>6, <2>1, <2>2, SameOrder
  <2>4. \A t \in Session \ {s} : InOrder(refresh[t])'
    BY <1>4, <1>5, <2>2, SameOrder
  <2>. QED  BY <2>3, <2>4
<1>9. \A t \in Session : RowsRight(refresh[t])'
  <2>1. With(summary.of)' = With(summary.of)
    BY <1>7 DEF With
  <2>2. RowsRight(refresh[s])'
    BY <1>6 DEF RowsRight
  <2>3. \A t \in Session \ {s} : RowsRight(refresh[t])'
    BY <1>4, <1>5, <2>1 DEF RowsRight
  <2>. QED  BY <2>2, <2>3
<1>10. \A t \in Session : CalmRight(refresh[t])'
  <2>1. \A p \in Partition : Due(p)' = NoMean \/ p \in ToSet(refresh'[s].left)
    <3>1. TAKE p \in Partition
    <3>2. CASE parent[p].on
      BY <1>2, <1>6, <3>2
    <3>3. CASE ~ parent[p].on
      <4>1. parent[p].rows \ {Odd} = {}
        BY <3>3 DEF RouteInv, ParentRight
      <4>2. Mean(p, 1).n = 0
        BY <4>1, FS_EmptySet DEF Mean
      <4>. QED  BY <1>7, <4>2, SameDue DEF Due
    <3>. QED  BY <3>2, <3>3
  <2>2. CalmRight(refresh[s])'
    BY <1>6, <2>1 DEF CalmRight
  <2>3. \A t \in Session \ {s} : CalmRight(refresh[t])'
    BY <1>5 DEF CalmRight
  <2>. QED  BY <2>2, <2>3
<1>11. \A t \in Session : Alone(t)'
  <2>1. Alone(s)'
    BY <1>5, <1>6 DEF Alone
  <2>2. \A t \in Session \ {s} : Alone(t)'
    BY <1>5 DEF Alone
  <2>. QED  BY <2>1, <2>2
<1>12. ParentRight' /\ SummaryRight'
  BY <1>7, SameDue DEF RouteInv, ParentRight, SummaryRight
<1>13. Exclusive'
  <2>1. SUFFICES ASSUME NEW t \in Session, NEW u \in Session, t # u
                 PROVE  refresh'[t].gone \cap refresh'[u].gone = {}
    BY DEF Exclusive
  <2>2. CASE t = s \/ u = s
    BY <1>6, <2>2
  <2>3. CASE t # s /\ u # s
    BY <1>5, <2>1, <2>3 DEF RouteInv, Exclusive
  <2>. QED  BY <2>2, <2>3
<1>14. PickedAreNearest'
  BY <1>7, NoAnswerYet
<1>. QED  BY <1>3, <1>8, <1>9, <1>10, <1>11, <1>12, <1>13, <1>14 DEF RouteInv

\* What a calm refresh commits are the means due.
LEMMA CommitStep ==
  ASSUME RouteInv, NEW s \in Session, Commit(s)
  PROVE  RouteInv'
<1>. DEFINE r == refresh[s]
            Passed(t) == [refresh[t] EXCEPT !.seen = @ \ r.gone]
<1>1. /\ InOrder(r) /\ RowsRight(r) /\ CalmRight(r) /\ Alone(s) /\ r.pc = "insert"
      /\ r.left = <<>> /\ r \in RefreshType
  BY DEF RouteInv, Commit, InOrder
<1>2. /\ summary' = [of |-> Committed(s), fresh |-> r.calm] /\ parent' = parent
      /\ refresh' = [t \in Session |-> IF t = s THEN NoRefresh ELSE Passed(t)]
      /\ picked' = NotPicked
  BY DEF Commit
<1>3. \A t \in Session : /\ InOrder(refresh[t]) /\ RowsRight(refresh[t]) /\ Alone(t)
                         /\ refresh[t] \in RefreshType
  BY DEF RouteInv, InOrder
<1>4. DOMAIN refresh' = Session /\ refresh'[s] = NoRefresh
      /\ \A t \in Session \ {s} : refresh'[t] = Passed(t)
  <2>. HIDE DEF Passed
  <2>. QED  BY <1>2
<1>5. \A t \in Session \ {s} :
        /\ refresh'[t] \in RefreshType /\ refresh'[t].calm = refresh[t].calm
        /\ refresh'[t].left = refresh[t].left /\ refresh'[t].new = refresh[t].new
        /\ refresh'[t].pc = refresh[t].pc /\ refresh'[t].seen = refresh[t].seen \ r.gone
        /\ refresh'[t].gone = refresh[t].gone
  <2>1. TAKE t \in Session \ {s}
  <2>2. PICK rest : rest = refresh[t].seen \ r.gone
    OBVIOUS
  <2>3. refresh'[t] = [refresh[t] EXCEPT !.seen = rest] /\ refresh[t] \in RefreshType
    BY <1>3, <1>4, <2>2
  <2>4. rest \in SUBSET Partition
    BY <2>2, <2>3 DEF RefreshType
  <2>. QED  BY <2>2, <2>3, <2>4 DEF RefreshType
<1>6. SummaryRight'
  <2>1. Committed(s) \in [Partition -> Means]
    <3>1. \A p \in Partition : r.new[p] \in Means /\ summary.of[p] \in Means /\ NoMean \in Means
      BY <1>1 DEF RefreshType, RouteInv, SummaryRight, NoMean, Means
    <3>. QED  BY <3>1 DEF Committed
  <2>2. ASSUME r.calm, NEW p \in Partition PROVE Committed(s)[p] = Due(p)
    <3>1. r.new[p] = Due(p)
      BY <1>1, <2>2 DEF CalmRight, ToSet
    <3>2. r.gone = With(summary.of)
      BY <1>1, <2>2 DEF CalmRight, RowsRight
    <3>3. Committed(s)[p] = IF r.new[p] # NoMean THEN r.new[p]
                            ELSE IF p \in r.gone THEN NoMean ELSE summary.of[p]
      BY DEF Committed
    <3>. QED  BY <3>1, <3>2, <3>3 DEF With
  <2>3. r.calm \in BOOLEAN
    BY <1>1 DEF RefreshType
  <2>4. \A p \in Partition : Due(p)' = Due(p)
    BY <1>2, SameDue
  <2>5. summary' \in [of : [Partition -> Means], fresh : BOOLEAN]
    BY <1>2, <2>1, <2>3
  <2>. QED  BY <1>2, <2>2, <2>4, <2>5 DEF SummaryRight
<1>7. \A t \in Session : InOrder(refresh[t])'
  <2>1. \A p \in Partition : parent'[p].name = parent[p].name
    BY <1>2
  <2>2. InOrder(NoRefresh) /\ NoRefresh \in RefreshType
    BY NoRefreshRight DEF InOrder
  <2>3. InOrder(refresh[s])'
    BY <1>4, <2>1, <2>2, SameOrder
  <2>4. \A t \in Session \ {s} : InOrder(refresh[t])'
    BY <1>3, <1>5, <2>1, SameOrder
  <2>. QED  BY <2>3, <2>4
<1>8. \A t \in Session : RowsRight(refresh[t])'
  <2>1. \A p \in With(summary.of) \ r.gone : p \in With(summary.of)'
    <3>1. \A p \in Partition : summary'.of[p] =
            IF r.new[p] # NoMean THEN r.new[p] ELSE IF p \in r.gone THEN NoMean ELSE summary.of[p]
      BY <1>2 DEF Committed
    <3>. QED  BY <3>1 DEF With
  <2>2. RowsRight(refresh[s])'
    BY <1>4 DEF RowsRight, NoRefresh
  <2>3. ASSUME NEW t \in Session \ {s} PROVE RowsRight(refresh[t])'
    <3>1. RowsRight(refresh[t]) /\ r.gone \cap refresh[t].gone = {}
      BY <1>3, <2>3 DEF RouteInv, Exclusive
    <3>2. refresh'[t].seen \cup refresh'[t].gone \subseteq With(summary.of) \ r.gone
      BY <1>5, <3>1 DEF RowsRight
    <3>. QED  BY <1>5, <2>1, <3>1, <3>2 DEF RowsRight
  <2>. QED  BY <2>2, <2>3
<1>9. \A t \in Session : CalmRight(refresh[t])'
  <2>1. CalmRight(refresh[s])'
    BY <1>4 DEF CalmRight, NoRefresh
  <2>2. ASSUME NEW t \in Session \ {s} PROVE CalmRight(refresh[t])'
    <3>1. ~ refresh[t].calm
      BY <1>1, <1>3 DEF Alone
    <3>. QED  BY <1>5, <3>1 DEF CalmRight
  <2>. QED  BY <2>1, <2>2
<1>10. \A t \in Session : Alone(t)'
  <2>1. Alone(s)'
    BY <1>4 DEF Alone, NoRefresh
  <2>2. ASSUME NEW t \in Session \ {s} PROVE Alone(t)'
    <3>1. refresh'[s].pc = "idle" /\ \A u \in Session \ {s} : refresh'[u].pc = refresh[u].pc
      BY <1>4, <1>5 DEF NoRefresh
    <3>. QED  BY <1>3, <1>5, <3>1 DEF Alone
  <2>. QED  BY <2>1, <2>2
<1>11. ParentRight'
  BY <1>2 DEF RouteInv, ParentRight
<1>12. Exclusive'
  <2>1. SUFFICES ASSUME NEW t \in Session, NEW u \in Session, t # u
                 PROVE  refresh'[t].gone \cap refresh'[u].gone = {}
    BY DEF Exclusive
  <2>2. refresh'[s].gone = {}
    BY <1>4 DEF NoRefresh
  <2>3. CASE t = s \/ u = s
    BY <2>2, <2>3
  <2>4. CASE t # s /\ u # s
    BY <1>5, <2>1, <2>4 DEF RouteInv, Exclusive
  <2>. QED  BY <2>3, <2>4
<1>13. PickedAreNearest'
  BY <1>2, NoAnswerYet
<1>. QED  BY <1>4, <1>6, <1>7, <1>8, <1>9, <1>10, <1>11, <1>12, <1>13 DEF RouteInv

LEMMA DeleteSteps ==
  ASSUME RouteInv, NEW s \in Session, Deletes(s) \/ DeletesRow(s) \/ Deleted(s) \/ Cancel(s)
  PROVE  RouteInv'
<1>. DEFINE old == refresh[s]
<1>1. InOrder(old) /\ RowsRight(old) /\ CalmRight(old) /\ old \in RefreshType
  BY DEF RouteInv, InOrder
<1>2. DOMAIN refresh = Session
  BY DEF RouteInv
<1>3. \A t \in Session \ {s} : old.gone \cap refresh[t].gone = {}
  BY DEF RouteInv, Exclusive
<1>4. CASE Deletes(s)
  <2>. DEFINE with == With(summary.of)
              r == [old EXCEPT !.pc = "rows", !.seen = with]
  <2>1. refresh' = [refresh EXCEPT ![s] = r]
    BY <1>2, <1>4 DEF Deletes
  <2>2. with \subseteq Partition /\ old.pc = "delete"
    BY <1>4 DEF With, Deletes
  <2>3. /\ r \in RefreshType /\ r.pc = "rows" /\ r.seen = with /\ r.gone = old.gone
        /\ r.left = old.left /\ r.new = old.new /\ r.calm = old.calm
    <3>. HIDE DEF with
    <3>. QED  BY <1>1, <2>2 DEF RefreshType
  <2>4. InOrder(r) /\ RowsRight(r) /\ CalmRight(r)
    <3>1. old.gone = {}
      BY <1>1, <2>2 DEF RowsRight
    <3>. HIDE DEF r
    <3>2. InOrder(r)
      BY <1>1, <2>2, <2>3 DEF InOrder
    <3>3. RowsRight(r)
      BY <2>3, <3>1 DEF RowsRight
    <3>4. CalmRight(r)
      BY <1>1, <2>3, <3>1 DEF CalmRight
    <3>. QED  BY <3>2, <3>3, <3>4
  <2>. HIDE DEF r
  <2>. QED  BY <1>3, <1>4, <2>1, <2>2, <2>3, <2>4, SessionStep DEF Deletes
<1>5. CASE DeletesRow(s)
  <2>. DEFINE n    == NextRow(s)
              rest == old.seen \ {n}
              gone == old.gone \cup {n}
              r    == [old EXCEPT !.seen = rest, !.gone = gone]
  <2>1. old.pc = "rows" /\ old.seen # {} /\ \A t \in Session \ {s} : n \notin refresh[t].gone
    BY <1>5 DEF DeletesRow, Waits
  <2>2. n \in old.seen /\ n \in Partition /\ n \in Int /\ \A x \in old.seen : x \in Int /\ n <= x
    BY <1>1, <2>1, NextIs
  <2>3. refresh' = [refresh EXCEPT ![s] = r]
    BY <1>2, <1>5 DEF DeletesRow
  <2>4. rest \in SUBSET Partition /\ gone \in SUBSET Partition
    BY <1>1, <2>2 DEF RefreshType
  <2>5. /\ r \in RefreshType /\ r.pc = "rows" /\ r.seen = rest /\ r.gone = gone
        /\ r.left = old.left /\ r.new = old.new /\ r.calm = old.calm
    <3>. HIDE DEF rest, gone
    <3>. QED  BY <1>1, <2>1, <2>4 DEF RefreshType
  <2>6. rest \cup gone = old.seen \cup old.gone
    BY <2>2
  <2>7. \A g \in gone, x \in rest : g < x
    <3>1. TAKE g \in gone, x \in rest
    <3>2. CASE g \in old.gone
      BY <1>1, <3>2 DEF RowsRight
    <3>3. CASE g = n
      BY <2>2, <3>3
    <3>. QED  BY <3>2, <3>3
  <2>8. \A t \in Session \ {s} : gone \cap refresh[t].gone = {}
    BY <1>3, <2>1
  <2>. HIDE DEF rest, gone, r
  <2>9. InOrder(r) /\ RowsRight(r) /\ CalmRight(r)
    <3>1. InOrder(r)
      BY <1>1, <2>1, <2>5 DEF InOrder
    <3>2. RowsRight(r)
      BY <1>1, <2>5, <2>6, <2>7 DEF RowsRight
    <3>3. CalmRight(r)
      BY <1>1, <2>1, <2>5, <2>6 DEF CalmRight
    <3>. QED  BY <3>1, <3>2, <3>3
  <2>. QED  BY <1>5, <2>1, <2>3, <2>5, <2>8, <2>9, SessionStep DEF DeletesRow
<1>6. CASE Deleted(s)
  <2>. DEFINE r == [old EXCEPT !.pc = "insert"]
  <2>1. refresh' = [refresh EXCEPT ![s] = r] /\ old.pc = "rows" /\ old.seen = {}
    BY <1>2, <1>6 DEF Deleted
  <2>2. /\ r \in RefreshType /\ r.pc = "insert" /\ r.seen = old.seen /\ r.gone = old.gone
        /\ r.left = old.left /\ r.new = old.new /\ r.calm = old.calm
    BY <1>1 DEF RefreshType
  <2>3. InOrder(r) /\ RowsRight(r) /\ CalmRight(r)
    <3>. HIDE DEF r
    <3>1. InOrder(r)
      BY <1>1, <2>1, <2>2 DEF InOrder
    <3>2. RowsRight(r)
      BY <1>1, <2>1, <2>2 DEF RowsRight
    <3>3. CalmRight(r)
      BY <1>1, <2>1, <2>2 DEF CalmRight
    <3>. QED  BY <3>1, <3>2, <3>3
  <2>. HIDE DEF r
  <2>. QED  BY <1>3, <1>6, <2>1, <2>2, <2>3, SessionStep DEF Deleted
<1>7. CASE Cancel(s)
  <2>1. /\ refresh' = [refresh EXCEPT ![s] = NoRefresh] /\ UNCHANGED <<parent, summary>>
        /\ picked' = NotPicked
    BY <1>7 DEF Cancel, Aborted
  <2>2. NoRefresh.calm = FALSE /\ NoRefresh.pc = "idle" /\ NoRefresh.gone = {}
    BY DEF NoRefresh
  <2>. QED  BY <2>1, <2>2, NoRefreshRight, SessionStep
<1>. QED  BY <1>4, <1>5, <1>6, <1>7

LEMMA SummariseStep ==
  ASSUME RouteInv, NEW s \in Session, Summarise(s)
  PROVE  RouteInv'
<1>. DEFINE old  == refresh[s]
            p    == Head(old.left)
            mean == Mean(p, 1)
            next == [old EXCEPT !.left = Tail(@)]
<1>1. InOrder(old) /\ RowsRight(old) /\ CalmRight(old) /\ old \in RefreshType
  BY DEF RouteInv, InOrder
<1>2. DOMAIN refresh = Session
  BY DEF RouteInv
<1>3. old.pc = "insert" /\ old.left # <<>> /\ picked' = NotPicked /\ UNCHANGED <<parent, summary>>
  BY DEF Summarise, Aborted
<1>8. \A t \in Session \ {s} : old.gone \cap refresh[t].gone = {}
  BY DEF RouteInv, Exclusive
<1>4. /\ old.left \in Seq(Partition) /\ p \in Partition /\ p = old.left[1]
      /\ Tail(old.left) \in Seq(Partition)
      /\ \A i \in DOMAIN Tail(old.left) : i + 1 \in DOMAIN old.left
                                          /\ Tail(old.left)[i] = old.left[i + 1]
      /\ \A i \in DOMAIN old.left : i = 1 \/ i - 1 \in DOMAIN Tail(old.left)
      /\ 1 \in DOMAIN old.left /\ DOMAIN old.left \subseteq Nat
  BY <1>1, <1>3 DEF RefreshType
<1>5. mean \in Means /\ Due(p) = IF mean.n > 0 THEN mean ELSE NoMean
  BY <1>4, MeanIs DEF RouteInv, Due
<1>6. CASE refresh' = [refresh EXCEPT ![s] = NoRefresh]
  <2>1. NoRefresh.calm = FALSE /\ NoRefresh.pc = "idle" /\ NoRefresh.gone = {}
    BY DEF NoRefresh
  <2>. QED  BY <1>3, <1>6, <2>1, NoRefreshRight, SessionStep
<1>7. CASE refresh' = [refresh EXCEPT ![s] = IF mean.n = 0 THEN next
                                             ELSE [next EXCEPT !.new[p] = mean]]
  <2>. DEFINE r == IF mean.n = 0 THEN next ELSE [next EXCEPT !.new[p] = mean]
  <2>1. /\ next \in RefreshType /\ next.pc = old.pc /\ next.left = Tail(old.left)
        /\ next.seen = old.seen /\ next.gone = old.gone /\ next.new = old.new
        /\ next.calm = old.calm
    <3>. HIDE DEF p
    <3>. QED  BY <1>1, <1>4 DEF RefreshType
  <2>2. /\ r \in RefreshType /\ r.pc = old.pc /\ r.left = Tail(old.left)
        /\ r.seen = old.seen /\ r.gone = old.gone /\ r.calm = old.calm
        /\ \A q \in Partition \ {p} : r.new[q] = old.new[q]
        /\ r.new[p] = IF mean.n = 0 THEN old.new[p] ELSE mean
    <3>. HIDE DEF next, mean, p
    <3>1. CASE mean.n = 0
      BY <2>1, <3>1
    <3>2. CASE mean.n # 0
      <4>. DEFINE n == [next.new EXCEPT ![p] = mean]
      <4>1. r = [next EXCEPT !.new = n]
        BY <3>2
      <4>2. n \in [Partition -> Means] /\ \A q \in Partition : n[q] = IF q = p THEN mean ELSE old.new[q]
        <5>1. next.new \in [Partition -> Means] /\ next.new = old.new
          BY <2>1 DEF RefreshType
        <5>. QED  BY <1>4, <1>5, <5>1
      <4>. HIDE DEF n, r
      <4>3. /\ r \in RefreshType /\ r.new = n /\ r.pc = next.pc /\ r.left = next.left
            /\ r.seen = next.seen /\ r.gone = next.gone /\ r.calm = next.calm
        BY <2>1, <4>1, <4>2 DEF RefreshType
      <4>. QED  BY <1>4, <2>1, <3>2, <4>2, <4>3
    <3>. QED  BY <3>1, <3>2
  <2>. HIDE DEF r, next, mean, p
  <2>3. /\ \A i \in DOMAIN r.left : /\ i \in Nat /\ i + 1 \in DOMAIN old.left
                                    /\ r.left[i] = old.left[i + 1]
        /\ \A i \in DOMAIN old.left : i = 1 \/ i - 1 \in DOMAIN r.left
        /\ p = old.left[1] /\ DOMAIN old.left \subseteq Nat
    <3>1. r.left = Tail(old.left) /\ r.left \in Seq(Partition)
      BY <1>4, <2>2
    <3>2. \A i \in DOMAIN r.left : i \in Nat
      BY <3>1
    <3>. HIDE DEF old
    <3>. QED  BY <1>4, <3>1, <3>2
  <2>4. InOrder(r)
    <3>1. Ascending(r.left)
      <4>1. SUFFICES ASSUME NEW i \in DOMAIN r.left, NEW j \in DOMAIN r.left, i < j
                     PROVE  Precedes(r.left[i], r.left[j])
        BY DEF Ascending
      <4>2. /\ i + 1 \in DOMAIN old.left /\ r.left[i] = old.left[i + 1]
            /\ j + 1 \in DOMAIN old.left /\ r.left[j] = old.left[j + 1]
        BY <2>3, Zenon
      <4>3. i \in Nat /\ j \in Nat
        BY <2>3, Zenon
      <4>4. i + 1 < j + 1
        BY <4>1, <4>3
      <4>. QED  BY <1>1, <4>2, <4>4 DEF InOrder, Ascending
    <3>2. \A q \in Partition : r.new[q] # NoMean => \A i \in DOMAIN r.left : Precedes(q, r.left[i])
      <4>1. TAKE q \in Partition
      <4>2. HAVE r.new[q] # NoMean
      <4>3. TAKE i \in DOMAIN r.left
      <4>4. i + 1 \in DOMAIN old.left /\ r.left[i] = old.left[i + 1] /\ i \in Nat
        BY <2>3, Zenon
      <4>5. CASE q = p
        <5>1. 1 < i + 1
          BY <1>4, <2>2, <4>4
        <5>. QED  BY <1>1, <1>4, <4>4, <4>5, <5>1 DEF InOrder, Ascending
      <4>6. CASE q # p
        <5>1. old.new[q] # NoMean
          BY <2>2, <4>2, <4>6
        <5>. QED  BY <1>1, <4>4, <5>1 DEF InOrder
      <4>. QED  BY <4>5, <4>6
    <3>. QED  BY <1>3, <2>2, <3>1, <3>2 DEF InOrder
  <2>5. CalmRight(r)
    <3>1. SUFFICES ASSUME r.calm
                   PROVE  \A q \in Partition : r.new[q] = Due(q) \/ (r.new[q] = NoMean /\ q \in ToSet(r.left))
      BY <1>1, <1>3, <2>2 DEF CalmRight
    <3>2. TAKE q \in Partition
    <3>3. old.new[q] = Due(q) \/ (old.new[q] = NoMean /\ q \in ToSet(old.left))
      BY <1>1, <2>2, <3>1 DEF CalmRight
    <3>4. CASE q = p
      BY <1>5, <2>2, <3>3, <3>4 DEF Means
    <3>5. CASE q # p
      <4>1. q \in ToSet(old.left) => q \in ToSet(r.left)
        <5>1. SUFFICES ASSUME NEW i \in DOMAIN old.left, q = old.left[i] PROVE q \in ToSet(r.left)
          BY DEF ToSet
        <5>2. i # 1 /\ i - 1 \in DOMAIN r.left /\ i \in Nat
          BY <2>3, <3>5, <5>1, Zenon
        <5>3. (i - 1) + 1 = i /\ r.left[i - 1] = old.left[(i - 1) + 1]
          BY <2>3, <5>2
        <5>4. r.left[i - 1] = q
          BY <5>1, <5>3
        <5>. QED  BY <5>2, <5>4 DEF ToSet
      <4>. QED  BY <2>2, <3>3, <3>5, <4>1
    <3>. QED  BY <3>4, <3>5
  <2>7. RowsRight(r)
    BY <1>1, <1>3, <2>2 DEF RowsRight
  <2>6. refresh' = [refresh EXCEPT ![s] = r]
    BY <1>7 DEF r
  <2>. QED  BY <1>3, <1>8, <2>2, <2>4, <2>5, <2>6, <2>7, SessionStep
<1>. QED  BY <1>6, <1>7, Zenon DEF Summarise, Aborted

-----------------------------------------------------------------------------
(* Routing to partitions: the ranking.                                     *)

\* A total order places the elements of a finite set.
PlaceIn(D, L) == [i \in D |-> Cardinality({j \in D : <<j, i>> \in L}) + 1]

LEMMA Placed ==
  ASSUME NEW D, IsFiniteSet(D), NEW L,
         \A i \in D : ~ (<<i, i>> \in L),
         \A i, j, k \in D : <<i, j>> \in L /\ <<j, k>> \in L => <<i, k>> \in L,
         \A i, j \in D : i # j => <<i, j>> \in L \/ <<j, i>> \in L
  PROVE  /\ Cardinality(D) \in Nat
         /\ \A i \in D : PlaceIn(D, L)[i] \in 1 .. Cardinality(D)
         /\ \A i, j \in D : <<i, j>> \in L => PlaceIn(D, L)[i] < PlaceIn(D, L)[j]
         /\ \A n \in 1 .. Cardinality(D) : \E i \in D : PlaceIn(D, L)[i] = n
<1>. DEFINE Below(i) == {j \in D : <<j, i>> \in L}
            card == Cardinality(D)
            place == PlaceIn(D, L)
<1>1. card \in Nat
  BY FS_CardinalityType
<1>2. \A i \in D : /\ place[i] = Cardinality(Below(i)) + 1
                   /\ Cardinality(Below(i)) \in Nat /\ IsFiniteSet(Below(i))
  <2>1. TAKE i \in D
  <2>2. Below(i) \in SUBSET D
    OBVIOUS
  <2>3. place[i] = Cardinality(Below(i)) + 1
    BY DEF PlaceIn
  <2>. HIDE DEF Below, place
  <2>. QED  BY <2>2, <2>3, FS_Subset, FS_CardinalityType
<1>3. \A i \in D : place[i] \in 1 .. card
  <2>1. TAKE i \in D
  <2>2. Below(i) \in SUBSET (D \ {i})
    OBVIOUS
  <2>3. IsFiniteSet(D \ {i}) /\ Cardinality(D \ {i}) = card - 1
    BY FS_RemoveElement
  <2>. HIDE DEF Below, place, card
  <2>4. Cardinality(Below(i)) <= card - 1
    BY <2>2, <2>3, FS_Subset
  <2>. QED  BY <1>1, <1>2, <2>4
<1>4. \A i, j \in D : <<i, j>> \in L => place[i] < place[j]
  <2>1. TAKE i, j \in D
  <2>2. HAVE <<i, j>> \in L
  <2>3. Below(i) \in SUBSET Below(j) /\ i \in Below(j) /\ i \notin Below(i)
    BY <2>2
  <2>. HIDE DEF Below, place, card
  <2>4. Cardinality(Below(i)) <= Cardinality(Below(j))
        /\ Cardinality(Below(i)) # Cardinality(Below(j))
    BY <1>2, <2>3, FS_Subset
  <2>. QED  BY <1>2, <2>4
<1>5. place \in Injection(D, 1 .. card)
  <2>. HIDE DEF card
  <2>1. place \in [D -> 1 .. card]
    BY <1>3 DEF PlaceIn
  <2>. HIDE DEF place
  <2>2. \A i, j \in D : place[i] = place[j] => i = j
    <3>1. TAKE i, j \in D
    <3>2. HAVE place[i] = place[j]
    <3>3. place[i] \in Int /\ place[j] \in Int
      BY <1>3
    <3>4. SUFFICES ASSUME i # j PROVE FALSE
      OBVIOUS
    <3>5. <<i, j>> \in L \/ <<j, i>> \in L
      BY <3>4, Zenon
    <3>6. place[i] < place[j] \/ place[j] < place[i]
      BY <1>4, <3>5, Zenon
    <3>. QED  BY <3>2, <3>3, <3>6
  <2>. QED  BY <2>1, <2>2 DEF Injection, IsInjective
<1>6. \A n \in 1 .. card : \E i \in D : place[i] = n
  <2>1. IsFiniteSet(1 .. card) /\ Cardinality(1 .. card) = card
    <3>. HIDE DEF card
    <3>1. 1 \in Int /\ card \in Int
      BY <1>1
    <3>. QED  BY <1>1, <3>1, FS_Interval
  <2>2. place \in Surjection(D, 1 .. card)
    <3>1. Cardinality(D) = Cardinality(1 .. card)
      BY <2>1
    <3>. HIDE DEF place, card
    <3>. QED  BY <1>5, <2>1, <3>1, FS_Injection
  <2>. HIDE DEF place, card
  <2>. QED  BY <2>2 DEF Surjection
<1>. QED  BY <1>1, <1>3, <1>4, <1>6

LEMMA CrossLess ==
  ASSUME NEW da \in Int, NEW db \in Int, NEW dc \in Int,
         NEW sa \in Nat \ {0}, NEW sb \in Nat \ {0}, NEW sc \in Nat \ {0},
         ~ (da * sb < db * sa), ~ (db * sc < dc * sb)
  PROVE  ~ (da * sc < dc * sa)
<1>1. \A x, y \in Int, z \in Nat \ {0} : x <= y => x * z <= y * z
  OBVIOUS
<1>2. \A x, y \in Int, z \in Nat \ {0} : x < y => x * z < y * z
  OBVIOUS
<1>3. \A x, y, z \in Int : (x * y) * z = (x * z) * y /\ x * y \in Int
  OBVIOUS
<1>4. (db * sa) * sc <= (da * sb) * sc
  <2>1. db * sa \in Int /\ da * sb \in Int
    BY <1>3
  <2>2. db * sa <= da * sb
    BY <2>1
  <2>. QED  BY <1>1, <2>1, <2>2
<1>5. (dc * sb) * sa <= (db * sc) * sa
  <2>1. dc * sb \in Int /\ db * sc \in Int
    BY <1>3
  <2>2. dc * sb <= db * sc
    BY <2>1
  <2>. QED  BY <1>1, <2>1, <2>2
<1>. SUFFICES ASSUME da * sc < dc * sa PROVE FALSE
  OBVIOUS
<1>6. (da * sc) * sb < (dc * sa) * sb
  <2>1. da * sc \in Int /\ dc * sa \in Int
    BY <1>3
  <2>. QED  BY <1>2, <2>1
<1>7. (da * sc) * sb = (da * sb) * sc /\ (dc * sa) * sb = (dc * sb) * sa
      /\ (db * sa) * sc = (db * sc) * sa
  BY <1>3
<1>8. /\ (da * sb) * sc \in Int /\ (dc * sb) * sa \in Int /\ (db * sc) * sa \in Int
  BY <1>3
<1>. QED  BY <1>4, <1>5, <1>6, <1>7, <1>8

Counted == {m \in Means : m.n > 0}

\* Metric::distance and its scale, and the order of the sort.
LEMMA DistanceType ==
  ASSUME NEW metric \in Metric, NEW q \in Int, NEW m \in Counted
  PROVE  MetricDistance(metric, q, m) \in Int /\ Scale(metric, m) \in Nat \ {0}
<1>1. m.sum \in Int /\ m.n \in Nat \ {0}
  BY DEF Counted, Means
<1>2. \A x, y \in Int : x * y \in Int /\ - x \in Int /\ x - y \in Int
  OBVIOUS
<1>3. \A x \in Nat \ {0} : x * x \in Nat \ {0}
  OBVIOUS
<1>4. CASE metric = "cosine"
  <2>1. \A x \in Int : Sign(x) \in Int
    BY DEF Sign
  <2>2. Sign(q) * Sign(m.sum) \in Int
    BY <1>1, <1>2, <2>1
  <2>3. MetricDistance(metric, q, m) = 1 - Sign(q) * Sign(m.sum) /\ Scale(metric, m) = 1
    BY <1>4 DEF MetricDistance, Scale
  <2>. QED  BY <2>2, <2>3
<1>5. CASE metric = "l2"
  <2>1. q * m.n - m.sum \in Int
    BY <1>1, <1>2
  <2>2. /\ MetricDistance(metric, q, m) = (q * m.n - m.sum) * (q * m.n - m.sum)
        /\ Scale(metric, m) = m.n * m.n
    BY <1>5 DEF MetricDistance, Scale, Square
  <2>. QED  BY <1>1, <1>2, <1>3, <2>1, <2>2
<1>6. CASE metric = "ip"
  <2>1. MetricDistance(metric, q, m) = - q * m.sum /\ Scale(metric, m) = m.n
    BY <1>6 DEF MetricDistance, Scale
  <2>2. - q \in Int
    OBVIOUS
  <2>3. MetricDistance(metric, q, m) \in Int
    BY <1>1, <1>2, <2>1, <2>2
  <2>. QED  BY <1>1, <2>1, <2>3
<1>. QED  BY <1>4, <1>5, <1>6 DEF Metric

LEMMA BeforeOrders ==
  ASSUME NEW metric \in Metric, NEW q \in Int,
         NEW a \in Counted, NEW b \in Counted, NEW c \in Counted
  PROVE  /\ Before(metric, q, a, b) => ~ Before(metric, q, b, a)
         /\ ~ Before(metric, q, a, b) /\ ~ Before(metric, q, b, c) => ~ Before(metric, q, a, c)
<1>. DEFINE d(m) == MetricDistance(metric, q, m)
            s(m) == Scale(metric, m)
            nan(m) == IsNaN(metric, q, m)
            B(m, o) == Before(metric, q, m, o)
<1>1. \A m, o \in Counted : B(m, o) <=> ~ nan(m) /\ (nan(o) \/ d(m) * s(o) < d(o) * s(m))
  BY DEF Before
<1>2. \A m \in {a, b, c} : d(m) \in Int /\ s(m) \in Nat \ {0}
  BY DistanceType
<1>3. \A x, y \in Int : x * y \in Int
  OBVIOUS
<1>. HIDE DEF d, s, nan, B
<1>4. B(a, b) => ~ B(b, a)
  <2>1. d(a) * s(b) \in Int /\ d(b) * s(a) \in Int
    BY <1>2, <1>3
  <2>. QED  BY <1>1, <2>1
<1>5. ~ B(a, b) /\ ~ B(b, c) => ~ B(a, c)
  <2>1. SUFFICES ASSUME ~ B(a, b), ~ B(b, c), B(a, c) PROVE FALSE
    OBVIOUS
  <2>2. ~ nan(a) /\ ~ nan(b) /\ ~ (d(a) * s(b) < d(b) * s(a))
    BY <1>1, <2>1
  <2>3. ~ nan(c) /\ ~ (d(b) * s(c) < d(c) * s(b))
    BY <1>1, <2>1, <2>2
  <2>4. d(a) * s(c) < d(c) * s(a)
    BY <1>1, <2>1, <2>3
  <2>. QED  BY <1>2, <2>2, <2>3, <2>4, CrossLess
<1>. QED  BY <1>4, <1>5 DEF B

LEMMA MinOfTwo ==
  ASSUME NEW a \in Int, NEW b \in Int
  PROVE  Min({a, b}) = IF a <= b THEN a ELSE b
<1>1. \E x \in {a, b} : \A y \in {a, b} : x <= y
  OBVIOUS
<1>2. Min({a, b}) \in {a, b} /\ \A y \in {a, b} : Min({a, b}) <= y
  BY <1>1 DEF Min
<1>. QED  BY <1>2

\* Partitions that have means.
Summarised(rows, means) ==
  /\ rows \in Seq(Partition) /\ \A i, j \in DOMAIN rows : rows[i] = rows[j] => i = j
  /\ \A i \in DOMAIN rows : means[rows[i]] \in Counted

\* The k nearest of some partitions, nearest first.
NearestFirst(metric, q, means, rows, k, p) ==
  /\ DOMAIN p = 1 .. Len(p)
  /\ \A i \in DOMAIN p : p[i] \in ToSet(rows)
  /\ \A i, j \in DOMAIN p : i < j =>
       p[i] # p[j] /\ ~ Before(metric, q, means[p[j]], means[p[i]])
  /\ \A o \in ToSet(rows) \ ToSet(p) :
       Len(p) = k /\ \A i \in DOMAIN p : ~ Before(metric, q, means[o], means[p[i]])

\* That is what rank_nearest returns.
LEMMA Ranked ==
  ASSUME NEW metric \in Metric, NEW q \in Int, NEW means, NEW k \in Nat \ {0},
         NEW rows, Summarised(rows, means)
  PROVE  NearestFirst(metric, q, means, rows, k, rank_nearest(metric, q, means, rows, k))
<1>0. /\ rows \in Seq(Partition) /\ \A i, j \in DOMAIN rows : rows[i] = rows[j] => i = j
      /\ \A i \in DOMAIN rows : means[rows[i]] \in Counted
  BY DEF Summarised
<1>. USE <1>0
<1>p. PICK p : p = rank_nearest(metric, q, means, rows, k)
  OBVIOUS
<1>. DEFINE D == DOMAIN rows
            m == Min({k, Len(rows)})
            B(i, j) == Before(metric, q, means[rows[i]], means[rows[j]])
            Less(j, i) == B(j, i) \/ (~ B(i, j) /\ j < i)
            L == {e \in D \X D : Less(e[1], e[2])}
            place(i) == Cardinality({j \in D : Less(j, i)}) + 1
            at(n) == CHOOSE i \in D : place(i) = n
<1>1. /\ Len(rows) \in Nat /\ D = 1 .. Len(rows) /\ m \in 0 .. Len(rows)
      /\ m = IF k <= Len(rows) THEN k ELSE Len(rows)
  <2>1. Len(rows) \in Nat /\ D = 1 .. Len(rows)
    OBVIOUS
  <2>2. k \in Int /\ Len(rows) \in Int
    BY <2>1
  <2>3. m = IF k <= Len(rows) THEN k ELSE Len(rows)
    BY <2>2, MinOfTwo
  <2>. HIDE DEF m
  <2>4. m \in 0 .. Len(rows)
    <3>. DEFINE n == Len(rows)
    <3>1. n \in Nat /\ m = IF k <= n THEN k ELSE n
      BY <2>1, <2>3
    <3>. HIDE <1>0 DEF n
    <3>2. m \in 0 .. n
      BY <3>1
    <3>. QED  BY <3>2 DEF n
  <2>. QED  BY <2>1, <2>3, <2>4
<1>2. IsFiniteSet(D) /\ Cardinality(D) = Len(rows)
  <2>. DEFINE n == Len(rows)
  <2>1. n \in Nat /\ D = 1 .. n
    BY <1>1
  <2>. HIDE DEF n, D
  <2>2. 1 \in Int /\ n \in Int
    BY <2>1
  <2>3. IsFiniteSet(1 .. n) /\ Cardinality(1 .. n) = IF 1 > n THEN 0 ELSE n - 1 + 1
    BY <2>2, FS_Interval
  <2>4. IsFiniteSet(D) /\ Cardinality(D) = n
    BY <2>1, <2>3
  <2>. QED  BY <2>4 DEF n
<1>3. p = [n \in 1 .. m |-> rows[at(n)]]
  BY <1>p, Zenon DEF rank_nearest
<1>4. \A i, j, h \in D : /\ B(i, j) => ~ B(j, i)
                         /\ ~ B(i, j) /\ ~ B(j, h) => ~ B(i, h)
  <2>1. TAKE i, j, h \in D
  <2>2. means[rows[i]] \in Counted /\ means[rows[j]] \in Counted /\ means[rows[h]] \in Counted
    OBVIOUS
  <2>. QED  BY <2>2, BeforeOrders
<1>. HIDE DEF B
<1>5. /\ \A i, j \in D : <<i, j>> \in L <=> Less(i, j)
      /\ \A i \in D : PlaceIn(D, L)[i] = place(i)
  <2>1. \A i, j \in D : <<i, j>> \in L <=> Less(i, j)
    <3>. HIDE DEF Less, D
    <3>. QED  OBVIOUS
  <2>2. \A i \in D : PlaceIn(D, L)[i] = place(i)
    <3>1. TAKE i \in D
    <3>2. {j \in D : <<j, i>> \in L} = {j \in D : Less(j, i)}
      <4>. HIDE DEF Less, L, D
      <4>. QED  BY <2>1
    <3>. HIDE DEF L, Less, D
    <3>. QED  BY <3>2 DEF PlaceIn
  <2>. HIDE DEF L, Less, place, D
  <2>. QED  BY <2>1, <2>2
<1>6. /\ \A i \in D : place(i) \in 1 .. Len(rows)
      /\ \A i, j \in D : Less(i, j) => place(i) < place(j)
      /\ \A n \in 1 .. Len(rows) : \E i \in D : place(i) = n
  <2>1. \A i \in D : ~ Less(i, i)
    BY <1>1, <1>4
  <2>2. \A i, j, h \in D : Less(i, j) /\ Less(j, h) => Less(i, h)
    <3>1. TAKE i, j, h \in D
    <3>2. HAVE Less(i, j) /\ Less(j, h)
    <3>3. i \in Int /\ j \in Int /\ h \in Int
      BY <1>1
    <3>4. ~ B(j, i) /\ ~ B(h, j)
      BY <1>4, <3>2
    <3>5. ~ B(h, i)
      BY <1>4, <3>4
    <3>6. CASE B(i, h)
      BY <3>6
    <3>7. CASE ~ B(i, h)
      <4>1. ~ B(i, j)
        BY <1>4, <3>4, <3>7
      <4>2. ~ B(j, h)
        BY <1>4, <3>4, <3>7
      <4>. QED  BY <3>2, <3>3, <3>5, <4>1, <4>2
    <3>. QED  BY <3>6, <3>7
  <2>3. \A i, j \in D : i # j => Less(i, j) \/ Less(j, i)
    <3>1. \A i \in D : i \in Int
      BY <1>1
    <3>. QED  BY <3>1
  <2>. HIDE DEF L, Less, place, D
  <2>4. /\ \A i \in D : ~ (<<i, i>> \in L)
        /\ \A i, j, h \in D : <<i, j>> \in L /\ <<j, h>> \in L => <<i, h>> \in L
        /\ \A i, j \in D : i # j => <<i, j>> \in L \/ <<j, i>> \in L
    BY <1>5, <2>1, <2>2, <2>3, Zenon
  <2>5. /\ \A i \in D : PlaceIn(D, L)[i] \in 1 .. Cardinality(D)
        /\ \A i, j \in D : <<i, j>> \in L => PlaceIn(D, L)[i] < PlaceIn(D, L)[j]
        /\ \A n \in 1 .. Cardinality(D) : \E i \in D : PlaceIn(D, L)[i] = n
    BY <1>2, <2>4, Placed
  <2>6. \A i \in D : place(i) \in 1 .. Len(rows)
    BY <1>2, <1>5, <2>5
  <2>7. \A i, j \in D : Less(i, j) => place(i) < place(j)
    BY <1>5, <2>5, Zenon
  <2>8. \A n \in 1 .. Len(rows) : \E i \in D : place(i) = n
    BY <1>2, <1>5, <2>5
  <2>. QED  BY <2>6, <2>7, <2>8
<1>7. \A n \in 1 .. m : at(n) \in D /\ place(at(n)) = n
  <2>1. \A n \in 1 .. m : n \in 1 .. Len(rows)
    BY <1>1
  <2>. HIDE DEF place, D, m
  <2>. QED  BY <1>6, <2>1
<1>8. \A i, j \in D : ~ (place(j) < place(i)) /\ i # j => Less(i, j) /\ ~ B(j, i)
  <2>1. TAKE i, j \in D
  <2>2. HAVE ~ (place(j) < place(i)) /\ i # j
  <2>3. ~ Less(j, i)
    <3>. HIDE DEF Less, place, D
    <3>. QED  BY <1>6, <2>2
  <2>4. Less(i, j)
    <3>1. i \in Int /\ j \in Int
      BY <1>1
    <3>. QED  BY <2>2, <2>3, <3>1
  <2>. QED  BY <1>4, <2>4
<1>. HIDE DEF place, at, L, Less
<1>9. /\ DOMAIN p = 1 .. m /\ Len(p) = m /\ p \in Seq(ToSet(rows))
      /\ \A n \in 1 .. m : p[n] = rows[at(n)]
  <2>1. \A n \in 1 .. m : rows[at(n)] \in ToSet(rows)
    BY <1>7 DEF ToSet
  <2>2. p \in [1 .. m -> ToSet(rows)]
    <3>. HIDE DEF m
    <3>. QED  BY <1>3, <2>1
  <2>3. \A n \in 1 .. m : p[n] = rows[at(n)]
    <3>. HIDE DEF m
    <3>. QED  BY <1>3
  <2>4. m \in Nat
    BY <1>1
  <2>. HIDE DEF m
  <2>. QED  BY <2>2, <2>3, <2>4
<1>10. ASSUME NEW i \in 1 .. m, NEW j \in 1 .. m, i < j
       PROVE  p[i] # p[j] /\ ~ Before(metric, q, means[p[j]], means[p[i]])
  <2>1. /\ at(i) \in D /\ at(j) \in D /\ place(at(i)) = i /\ place(at(j)) = j
    BY <1>7
  <2>2. at(i) # at(j) /\ ~ (place(at(j)) < place(at(i)))
    BY <1>10, <2>1
  <2>3. ~ B(at(j), at(i))
    BY <1>8, <2>1, <2>2
  <2>. QED  BY <1>9, <2>1, <2>2, <2>3 DEF B
<1>11. ASSUME NEW o \in ToSet(rows) \ ToSet(p)
       PROVE  m = k /\ \A i \in 1 .. m : ~ Before(metric, q, means[o], means[p[i]])
  <2>1. PICK h \in D : o = rows[h]
    BY DEF ToSet
  <2>2. place(h) \notin 1 .. m
    <3>1. SUFFICES ASSUME place(h) \in 1 .. m PROVE FALSE
      OBVIOUS
    <3>2. at(place(h)) \in D /\ place(at(place(h))) = place(h)
      BY <1>7, <3>1
    <3>3. at(place(h)) = h
      <4>1. SUFFICES ASSUME at(place(h)) # h PROVE FALSE
        OBVIOUS
      <4>2. place(h) \in Int
        BY <1>6
      <4>3. Less(at(place(h)), h)
        BY <1>8, <2>1, <3>2, <4>1, <4>2
      <4>. QED  BY <1>6, <2>1, <3>2, <4>2, <4>3
    <3>4. p[place(h)] = o
      BY <1>9, <2>1, <3>1, <3>3
    <3>. QED  BY <1>9, <1>11, <3>1, <3>4 DEF ToSet
  <2>3. place(h) \in 1 .. Len(rows)
    BY <1>6
  <2>4. m = k /\ m < place(h)
    <3>. DEFINE n == Len(rows)
    <3>1. /\ n \in Nat /\ m \in 0 .. n /\ m = (IF k <= n THEN k ELSE n)
          /\ place(h) \in 1 .. n
      BY <1>1, <2>3
    <3>. HIDE DEF m, n
    <3>. QED  BY <2>2, <3>1
  <2>5. ASSUME NEW i \in 1 .. m PROVE ~ Before(metric, q, means[o], means[p[i]])
    <3>1. at(i) \in D /\ place(at(i)) = i
      BY <1>7
    <3>2. at(i) # h /\ ~ (place(h) < place(at(i)))
      BY <1>1, <2>2, <2>3, <2>4, <3>1
    <3>3. ~ B(h, at(i))
      BY <1>8, <3>1, <3>2
    <3>. QED  BY <1>9, <2>1, <3>3 DEF B
  <2>. QED  BY <2>4, <2>5
<1>. HIDE DEF m
<1>12. \A i \in DOMAIN p : p[i] \in ToSet(rows)
  BY <1>9
<1>13. NearestFirst(metric, q, means, rows, k, p)
  BY <1>9, <1>10, <1>11, <1>12 DEF NearestFirst
<1>. QED  BY <1>p, <1>13

LEMMA PickStep ==
  ASSUME RouteInv, NEW q \in Wanted, NEW k \in 1 .. Cardinality(Partition), NEW metric \in Metric,
         nearest_partitions(q, k, metric)
  PROVE  RouteInv'
<1>1. UNCHANGED <<parent, summary, refresh>>
  BY DEF nearest_partitions
<1>2. ParentRight' /\ SummaryRight' /\ DOMAIN refresh' = Session /\ Exclusive'
  BY <1>1, SameDue DEF RouteInv, ParentRight, SummaryRight, Exclusive
<1>3. \A s \in Session : /\ InOrder(refresh[s])' /\ RowsRight(refresh[s])'
                         /\ CalmRight(refresh[s])' /\ Alone(s)'
  BY <1>1, SessionsSame
<1>4. PickedAreNearest'
  <2>. DEFINE with == With(summary.of)
              n == Cardinality(with)
  <2>1. PICK rows \in SetToSeqs(with) :
          picked' = [on |-> TRUE, calm |-> summary.fresh, query |-> q, metric |-> metric, k |-> k,
                     partitions |-> rank_nearest(metric, q, summary.of, rows, k)]
    BY Zenon DEF nearest_partitions
  <2>means. PICK means : means = summary.of
    OBVIOUS
  <2>p. PICK p : p = rank_nearest(metric, q, means, rows, k)
    OBVIOUS
  <2>2. /\ picked'.calm = summary.fresh /\ picked'.query = q /\ picked'.metric = metric
        /\ picked'.k = k /\ picked'.partitions = p
    <3>1. picked' = [on |-> TRUE, calm |-> summary.fresh, query |-> q, metric |-> metric, k |-> k,
                     partitions |-> p]
      BY <2>1, <2>means, <2>p, Zenon
    <3>. QED  BY <3>1
  <2>3. SUFFICES ASSUME summary.fresh PROVE PickedAreNearest'
    BY <2>2 DEF PickedAreNearest
  <2>4. \A o \in Partition : /\ Mean(o, 1)' = Mean(o, 1) /\ means[o] = Due(o)
                             /\ Mean(o, 1) \in Means
    BY <1>1, <2>3, <2>means, SameDue, MeanIs DEF RouteInv, SummaryRight
  <2>5. /\ \A o \in Partition : o \in with <=> Mean(o, 1).n > 0
        /\ \A o \in with : o \in Partition /\ means[o] = Mean(o, 1) /\ means[o] \in Counted
    <3>1. \A o \in Partition : Mean(o, 1).n > 0 => Mean(o, 1) # NoMean
      BY DEF NoMean
    <3>. QED  BY <2>4, <2>means, <3>1 DEF With, Due, Counted
  <2>6. IsFiniteSet(with)
    BY PartitionAssumption, FS_Subset DEF With
  <2>7. rows \in [1 .. n -> with] /\ \A i, j \in 1 .. n : rows[i] = rows[j] => i = j
    BY <2>1 DEF SetToSeqs
  <2>. HIDE DEF with
  <2>8. /\ rows \in Seq(with) /\ DOMAIN rows = 1 .. n
        /\ \A o \in with : \E i \in DOMAIN rows : rows[i] = o
    <3>1. rows \in [1 .. n -> with]
      BY <2>7
    <3>2. \A i, j \in 1 .. n : rows[i] = rows[j] => i = j
      BY <2>7
    <3>. QED  BY <2>6, <3>1, <3>2, InjectiveListing, Zenon
  <2>9. rows \in Seq(Partition) /\ \A i \in DOMAIN rows : means[rows[i]] \in Counted
    <3>1. \A i \in DOMAIN rows : rows[i] \in with
      BY <2>7
    <3>2. \A o \in with : o \in Partition
      BY <2>5
    <3>3. rows \in Seq(Partition)
      BY <2>8, <3>2
    <3>4. \A i \in DOMAIN rows : means[rows[i]] \in Counted
      BY <2>5, <3>1, Zenon
    <3>. QED  BY <3>3, <3>4
  <2>10. \A i, j \in DOMAIN rows : rows[i] = rows[j] => i = j
    BY <2>7, <2>8
  <2>11. k \in Nat \ {0} /\ q \in Int
    BY PointAssumption
  <2>12. /\ DOMAIN p = 1 .. Len(p)
         /\ \A i \in DOMAIN p : p[i] \in ToSet(rows)
         /\ \A i, j \in DOMAIN p : i < j =>
              p[i] # p[j] /\ ~ Before(metric, q, means[p[j]], means[p[i]])
         /\ \A o \in ToSet(rows) \ ToSet(p) :
              Len(p) = k /\ \A i \in DOMAIN p : ~ Before(metric, q, means[o], means[p[i]])
    <3>1. Summarised(rows, means)
      BY <2>9, <2>10 DEF Summarised
    <3>2. NearestFirst(metric, q, means, rows, k, p)
      BY <2>11, <2>p, <3>1, Ranked
    <3>. QED  BY <3>2 DEF NearestFirst
  <2>13. ToSet(rows) = with
    <3>1. \A i \in DOMAIN rows : rows[i] \in with
      BY <2>7
    <3>2. \A o \in with : \E i \in DOMAIN rows : rows[i] = o
      BY <2>8
    <3>. QED  BY <3>1, <3>2 DEF ToSet
  <2>14. \A i \in DOMAIN p : /\ p[i] \in Partition /\ Mean(p[i], 1)' = Mean(p[i], 1)
                             /\ Mean(p[i], 1).n > 0 /\ means[p[i]] = Mean(p[i], 1)
    <3>1. TAKE i \in DOMAIN p
    <3>2. p[i] \in with
      BY <2>12, <2>13
    <3>3. p[i] \in Partition /\ means[p[i]] = Mean(p[i], 1)
      BY <2>5, <3>2
    <3>4. Mean(p[i], 1).n > 0
      BY <2>5, <3>2, <3>3
    <3>5. Mean(p[i], 1)' = Mean(p[i], 1)
      BY <2>4, <3>3
    <3>. QED  BY <3>3, <3>4, <3>5
  <2>15. \A i \in DOMAIN p : Mean(p[i], 1)'.n > 0
    BY <2>14
  <2>16. \A i, j \in DOMAIN p : i < j =>
           p[i] # p[j] /\ ~ Before(metric, q, Mean(p[j], 1)', Mean(p[i], 1)')
    BY <2>12, <2>14
  <2>17. \A o \in {x \in Partition : Mean(x, 1)'.n > 0} \ ToSet(p) :
           Len(p) = k /\ \A i \in DOMAIN p : ~ Before(metric, q, Mean(o, 1)', Mean(p[i], 1)')
    <3>1. TAKE o \in {x \in Partition : Mean(x, 1)'.n > 0} \ ToSet(p)
    <3>2. o \in with /\ Mean(o, 1)' = Mean(o, 1) /\ means[o] = Mean(o, 1)
      BY <2>4, <2>5
    <3>3. Len(p) = k /\ \A i \in DOMAIN p : ~ Before(metric, q, means[o], means[p[i]])
      BY <2>12, <2>13, <3>2
    <3>. QED  BY <2>14, <3>2, <3>3
  <2>. QED  BY <2>2, <2>15, <2>16, <2>17 DEF PickedAreNearest
<1>. QED  BY <1>2, <1>3, <1>4 DEF RouteInv

LEMMA TableSteps ==
  ASSUME RouteInv, NEW p \in Partition,
         DropPartition(p) \/ \E v \in Point \cup {Odd} : InsertRow(p, v) \/ DeleteRow(p, v)
  PROVE  RouteInv'
<1>1. /\ parent \in [Partition -> [on : BOOLEAN, name : Nat, rows : SUBSET (Point \cup {Odd})]]
      /\ \A o \in Partition : /\ IsFiniteSet(parent[o].rows)
                              /\ ~ parent[o].on => parent[o].rows = {}
  BY DEF RouteInv, ParentRight
<1>2. ASSUME NEW rows \in SUBSET (Point \cup {Odd}), IsFiniteSet(rows), parent[p].on,
             parent' = [parent EXCEPT ![p].rows = rows]
      PROVE  ParentRight' /\ \A o \in Partition : parent'[o].name = parent[o].name
  <2>1. /\ \A o \in Partition \ {p} : parent'[o] = parent[o]
        /\ parent'[p].on = parent[p].on /\ parent'[p].name = parent[p].name
        /\ parent'[p].rows = rows
    BY <1>1, <1>2
  <2>2. parent' \in [Partition -> [on : BOOLEAN, name : Nat, rows : SUBSET (Point \cup {Odd})]]
    BY <1>1, <1>2
  <2>. QED  BY <1>1, <1>2, <2>1, <2>2 DEF ParentRight
<1>3. ASSUME NEW v \in Point \cup {Odd}, InsertRow(p, v)
      PROVE  /\ ParentRight' /\ Changed
             /\ \A o \in Partition : parent'[o].name = parent[o].name
  <2>. DEFINE rows == parent[p].rows \cup {v}
  <2>1. parent' = [parent EXCEPT ![p].rows = rows] /\ parent[p].on /\ Changed
    BY <1>3 DEF InsertRow
  <2>2. rows \in SUBSET (Point \cup {Odd}) /\ IsFiniteSet(rows)
    BY <1>1, FS_AddElement
  <2>. HIDE DEF rows
  <2>. QED  BY <1>2, <2>1, <2>2
<1>4. ASSUME NEW v \in Point \cup {Odd}, DeleteRow(p, v)
      PROVE  /\ ParentRight' /\ Changed
             /\ \A o \in Partition : parent'[o].name = parent[o].name
  <2>. DEFINE rows == parent[p].rows \ {v}
  <2>1. parent' = [parent EXCEPT ![p].rows = rows] /\ v \in parent[p].rows /\ Changed
    BY <1>4 DEF DeleteRow
  <2>2. rows \in SUBSET (Point \cup {Odd}) /\ IsFiniteSet(rows) /\ parent[p].on
    BY <1>1, <2>1, FS_RemoveElement
  <2>. HIDE DEF rows
  <2>. QED  BY <1>2, <2>1, <2>2
<1>5. CASE DropPartition(p)
  <2>1. parent' = [parent EXCEPT ![p].on = FALSE, ![p].rows = {}] /\ Changed
    BY <1>5 DEF DropPartition
  <2>2. /\ \A o \in Partition \ {p} : parent'[o] = parent[o]
        /\ parent'[p].on = FALSE /\ parent'[p].name = parent[p].name /\ parent'[p].rows = {}
        /\ parent' \in [Partition -> [on : BOOLEAN, name : Nat, rows : SUBSET (Point \cup {Odd})]]
    <3>. DEFINE Table == [on : BOOLEAN, name : Nat, rows : SUBSET (Point \cup {Odd})]
                one == [parent[p] EXCEPT !.on = FALSE, !.rows = {}]
    <3>1. parent' = [parent EXCEPT ![p] = one]
      BY <2>1
    <3>2. one \in Table /\ one.on = FALSE /\ one.name = parent[p].name /\ one.rows = {}
      BY <1>1
    <3>. HIDE DEF one, Table
    <3>3. parent \in [Partition -> Table]
      BY <1>1 DEF Table
    <3>4. parent' \in [Partition -> Table] /\ parent'[p] = one
          /\ \A o \in Partition \ {p} : parent'[o] = parent[o]
      BY <3>1, <3>2, <3>3
    <3>. QED  BY <3>2, <3>4 DEF Table
  <2>3. ParentRight'
    BY <1>1, <2>2, FS_EmptySet DEF ParentRight
  <2>4. \A o \in Partition : parent'[o].name = parent[o].name
    BY <2>2
  <2>. QED  BY <2>1, <2>3, <2>4, ChangedStep
<1>. QED  BY <1>3, <1>4, <1>5, ChangedStep

LEMMA RouteStep ==
  ASSUME RouteInv, [RouteNext]_routeVars
  PROVE  RouteInv'
<1>1. CASE UNCHANGED routeVars
  <2>1. UNCHANGED <<parent, summary, refresh, picked>>
    BY <1>1 DEF routeVars
  <2>2. ParentRight' /\ SummaryRight' /\ DOMAIN refresh' = Session /\ Exclusive'
    <3>1. ParentRight /\ SummaryRight /\ DOMAIN refresh = Session /\ Exclusive
      BY DEF RouteInv
    <3>2. ParentRight' /\ Exclusive'
      BY <2>1, <3>1 DEF ParentRight, Exclusive
    <3>3. \A p \in Partition : Due(p)' = Due(p)
      BY <2>1, SameDue
    <3>4. SummaryRight'
      BY <2>1, <3>1, <3>3 DEF SummaryRight
    <3>. QED  BY <2>1, <3>1, <3>2, <3>4
  <2>3. \A s \in Session : /\ InOrder(refresh[s])' /\ RowsRight(refresh[s])'
                           /\ CalmRight(refresh[s])' /\ Alone(s)'
    BY <2>1, SessionsSame
  <2>4. PickedAreNearest'
    <3>1. PickedAreNearest
      BY DEF RouteInv
    <3>2. \A p : Mean(p, 1)' = Mean(p, 1)
      BY <2>1 DEF Mean
    <3>. QED  BY <2>1, <3>1, <3>2 DEF PickedAreNearest
  <2>. QED  BY <2>2, <2>3, <2>4 DEF RouteInv
<1>2. ASSUME NEW s \in Session, \/ Begin(s) \/ Deletes(s) \/ DeletesRow(s) \/ Deleted(s)
                                \/ Summarise(s) \/ Commit(s) \/ Cancel(s)
      PROVE  RouteInv'
  BY <1>2, BeginStep, DeleteSteps, SummariseStep, CommitStep
<1>. QED  BY <1>1, <1>2, TableSteps, PickStep DEF RouteNext

LEMMA RouteStart ==
  ASSUME RouteInit
  PROVE  RouteInv
<1>1. ParentRight
  <2>1. \A rows \in {{}} \cup {{x} : x \in Point} : rows \subseteq Point /\ IsFiniteSet(rows)
    BY FS_EmptySet, FS_Singleton
  <2>2. PICK names \in Naming, rows \in [Partition -> {{}} \cup {{x} : x \in Point}] :
          parent = [p \in Partition |-> [on |-> TRUE, name |-> names[p], rows |-> rows[p]]]
    BY DEF RouteInit
  <2>3. \A p \in Partition : names[p] \in Nat /\ rows[p] \in {{}} \cup {{x} : x \in Point}
    BY PartitionAssumption
  <2>4. \A p \in Partition : rows[p] \subseteq Point /\ IsFiniteSet(rows[p])
    BY <2>1, <2>3
  <2>. QED  BY <2>2, <2>3, <2>4 DEF ParentRight
<1>2. SummaryRight
  <2>1. [p \in Partition |-> NoMean] \in [Partition -> Means]
    BY DEF NoMean, Means
  <2>. QED  BY <2>1 DEF RouteInit, SummaryRight
<1>3. DOMAIN refresh = Session /\ \A s \in Session : refresh[s] = NoRefresh
  BY DEF RouteInit
<1>4. \A s \in Session : /\ InOrder(refresh[s]) /\ RowsRight(refresh[s])
                         /\ CalmRight(refresh[s]) /\ Alone(s)
  <2>1. TAKE s \in Session
  <2>2. InOrder(refresh[s]) /\ RowsRight(refresh[s]) /\ CalmRight(refresh[s])
    BY <1>3, NoRefreshRight
  <2>3. Alone(s)
    BY <1>3 DEF Alone, NoRefresh
  <2>. QED  BY <2>2, <2>3
<1>6. Exclusive
  BY <1>3 DEF Exclusive, NoRefresh
<1>5. PickedAreNearest
  BY DEF RouteInit, NotPicked, PickedAreNearest
<1>. QED  BY <1>1, <1>2, <1>3, <1>4, <1>5, <1>6 DEF RouteInv

\* After a refresh that nothing disturbed, the partitions picked are the k
\* nearest by the mean of the rows they hold, nearest first, whatever was
\* summarised before and whichever sessions refreshed.
\* (refresh_partition_summary, nearest_partitions.)
THEOREM PickedRight == RouteSpec => []PickedAreNearest
<1>1. RouteInv => PickedAreNearest
  BY DEF RouteInv
<1>. QED  BY <1>1, RouteStart, RouteStep, PTL DEF RouteSpec

\* However many sessions refresh at once, they never all wait for each other:
\* unless two partitions have one name, or a refresh was committed since the
\* DELETE of one of them began and another is deleting what it left.
\* (child_partitions orders the partitions by name, and a scan has one order.)
THEOREM RefreshesGoOn == RouteSpec => []NoRefreshDeadlock
BY NoCircle, RouteStart, RouteStep, PTL DEF RouteSpec

-----------------------------------------------------------------------------
(* turbovec.knn().                                                         *)

\* All rows of the one are in the other, as they are.
Within(r, s) == \A i \in Ids(r) : s[i] = r[i]

\* A call knows how many rows it counted.  While no row has been changed or
\* deleted since the last rewrite, the table has what a call and an entry of its
\* relfilenode saw; and the entry is older than the call.
CallRight ==
  call.pc # "idle" =>
    /\ call.col \in IdColumn /\ call.node <= table.node
    /\ call.pc = "count" => call.count = RowCount(call.rows)
    /\ call.node = table.node /\ ~ table.churned => Within(call.rows, table.rows)
EntryRight ==
  entry.on =>
    /\ entry.node <= table.node
    /\ entry.node = table.node /\ ~ table.churned =>
         /\ entry.count <= RowCount(entry.rows) /\ Within(entry.rows, table.rows)
         /\ call.pc # "idle" /\ call.node = table.node => Within(entry.rows, call.rows)

KnnInv == TypeOK /\ CallRight /\ EntryRight /\ AnswerIsCurrentRow /\ AnswerIsNearest

TableOf == [node : 1 .. MaxNode, rows : Rows, churned : BOOLEAN]
EntryOf == [on : BOOLEAN, node : 0 .. MaxNode, count : 0 .. Cardinality(Id),
            rows : Rows, col : IdColumn \cup {None}, norm : BOOLEAN]
CallOf == [pc : {"idle", "node", "count"}, node : 0 .. MaxNode, count : 0 .. Cardinality(Id),
           rows : Rows, col : IdColumn \cup {None}, norm : BOOLEAN]
AnswerOf == [on : BOOLEAN, id : Int \cup {None}, score : Int \cup {None},
             col : IdColumn \cup {None}, norm : BOOLEAN,
             rows : Rows, stood : SUBSET Id, cut : BOOLEAN, fit : BOOLEAN]

LEMMA TypeIs ==
  TypeOK <=> table \in TableOf /\ entry \in EntryOf /\ call \in CallOf /\ answer \in AnswerOf
BY DEF TypeOK, TableOf, EntryOf, CallOf, AnswerOf

LEMMA TypeNext ==
  ASSUME table' \in TableOf, entry' \in EntryOf, call' \in CallOf, answer' \in AnswerOf
  PROVE  TypeOK'
BY DEF TypeOK, TableOf, EntryOf, CallOf, AnswerOf

LEMMA RowCountIs ==
  ASSUME NEW r
  PROVE  /\ Ids(r) \in SUBSET Id /\ IsFiniteSet(Ids(r)) /\ RowCount(r) \in 0 .. Cardinality(Id)
         /\ RowCount(r) = Cardinality(Ids(r)) /\ RowCount(r) \in Nat
<1>1. Ids(r) \in SUBSET Id
  BY DEF Ids
<1>2. IsFiniteSet(Ids(r)) /\ Cardinality(Ids(r)) <= Cardinality(Id)
  BY <1>1, IdAssumption, FS_Subset
<1>3. Cardinality(Ids(r)) \in Nat /\ Cardinality(Id) \in Nat
  BY <1>2, IdAssumption, FS_CardinalityType
<1>. QED  BY <1>1, <1>2, <1>3 DEF RowCount

LEMMA NoneYet ==
  /\ NoRows \in Rows /\ NoEntry \in EntryOf /\ NoCall \in CallOf /\ NoAnswer \in AnswerOf
  /\ ~ NoEntry.on /\ NoCall.pc = "idle" /\ ~ NoAnswer.on
<1>1. NoRows \in Rows
  BY DEF NoRows, Rows
<1>2. 0 \in 0 .. MaxNode /\ 0 \in 0 .. Cardinality(Id)
  BY BoundsAssumption, IdAssumption, FS_CardinalityType
<1>3. NoEntry \in EntryOf /\ ~ NoEntry.on
  BY <1>1, <1>2 DEF NoEntry, EntryOf
<1>4. NoCall \in CallOf /\ NoCall.pc = "idle"
  BY <1>1, <1>2 DEF NoCall, CallOf
<1>5. NoAnswer \in AnswerOf /\ ~ NoAnswer.on
  BY <1>1 DEF NoAnswer, AnswerOf
<1>. QED  BY <1>1, <1>3, <1>4, <1>5

LEMMA NoKnnAnswer ==
  ASSUME answer' = NoAnswer
  PROVE  (answer \in AnswerOf /\ AnswerIsCurrentRow /\ AnswerIsNearest)'
BY NoneYet DEF AnswerIsCurrentRow, AnswerIsNearest, AnswerOf

\* The rows of a table: vectors with two scores, and an id in each column.
LEMMA RowIs ==
  ASSUME NEW r \in Rows, NEW i \in Ids(r), NEW norm \in BOOLEAN, NEW col \in IdColumn
  PROVE  i \in Id /\ r[i] \in Vec /\ ExactScore(r[i], norm) \in Int /\ col[i] \in Int
<1>1. i \in Id /\ r[i] \in Vec
  BY DEF Ids, Rows
<1>2. ExactScore(r[i], norm) \in Int
  BY <1>1, VecAssumption DEF ExactScore
<1>3. col[i] \in Int
  BY <1>1, AskedAssumption DEF IdColumn
<1>. QED  BY <1>1, <1>2, <1>3

\* Reranking the candidates of an index finds the best of its rows, if it is of
\* the call's id column and setting and the table still has them all.
LEMMA RerankedIsNearest ==
  ASSUME call.col \in IdColumn, call.norm \in BOOLEAN,
         NEW index, index.col = call.col, index.norm = call.norm, index.rows \in Rows,
         NEW view \in Rows, NEW C \in Candidates(index.rows, index.norm),
         Within(index.rows, view), NEW j \in Ids(index.rows)
  PROVE  /\ Reranks(index, C, view) # {}
         /\ \A b \in Reranks(index, C, view) :
              ExactScore(view[j], call.norm)
                <= b.score + (IF Take < Cardinality(Ids(index.rows)) THEN CodeError ELSE 0)
<1>. DEFINE left == Fetched(index, C, view)
            s == [i \in Id |-> ExactScore(view[i], call.norm)]
            all == Ids(index.rows)
            n == Cardinality(all)
            err == IF Take < n THEN CodeError ELSE 0
<1>1. /\ C \subseteq all /\ Cardinality(C) = Min({Take, n})
      /\ \A i \in C, h \in all \ C :
           ExactScore(index.rows[h], call.norm) <= ExactScore(index.rows[i], call.norm) + CodeError
  BY DEF Candidates, kSubset
<1>2. IsFiniteSet(all) /\ n \in Nat /\ Take \in Nat \ {0} /\ CodeError \in Nat
  BY RowCountIs, BoundsAssumption
<1>3. C # {} /\ (n <= Take => C = all)
  <2>1. n # 0
    BY <1>2, FS_EmptySet
  <2>. HIDE DEF n
  <2>2. Min({Take, n}) = IF Take <= n THEN Take ELSE n
    <3>1. Take \in Int /\ n \in Int
      BY <1>2
    <3>. QED  BY <3>1, MinOfTwo
  <2>3. Cardinality(C) # 0
    BY <1>1, <1>2, <2>1, <2>2
  <2>4. n <= Take => Cardinality(C) = n
    BY <1>1, <1>2, <2>2
  <2>5. Cardinality(C) = n => C = all
    <3>1. Cardinality(C) = Cardinality(all) => C = all
      <4>. HIDE DEF all
      <4>. QED  BY <1>1, <1>2, FS_Subset
    <3>. QED  BY <3>1 DEF n
  <2>. QED  BY <2>3, <2>4, <2>5, FS_EmptySet
<1>4. \A i \in all : /\ i \in Id /\ i \in Ids(view) /\ view[i] = index.rows[i]
                     /\ s[i] = ExactScore(index.rows[i], call.norm) /\ s[i] \in Int
  <2>1. TAKE i \in all
  <2>2. i \in Id /\ view[i] = index.rows[i] /\ view[i] # None
    BY DEF Within, Ids
  <2>3. i \in Ids(view)
    BY <2>2 DEF Ids
  <2>4. ExactScore(view[i], call.norm) \in Int
    BY <2>3, RowIs
  <2>. QED  BY <2>2, <2>3, <2>4
<1>5. left = C
  <2>1. \A i, h \in Id : call.col[i] = call.col[h] => i = h
    BY AskedAssumption DEF IdColumn
  <2>2. left = {h \in Ids(view) : \E i \in C : call.col[i] = call.col[h]}
    BY DEF Fetched
  <2>3. \A h \in Ids(view) : h \in Id
    BY DEF Ids
  <2>4. \A i \in C : i \in Id /\ i \in Ids(view)
    BY <1>1, <1>4
  <2>. HIDE DEF left
  <2>. QED  BY <2>1, <2>2, <2>3, <2>4
<1>6. PICK m \in C : \A i \in C : s[i] <= s[m]
  <2>. DEFINE f == [i \in C |-> s[i]]
              S == {f[i] : i \in C}
  <2>1. IsFiniteSet(S)
    <3>1. IsFiniteSet(C) /\ DOMAIN f = C
      BY <1>1, <1>2, FS_Subset
    <3>. HIDE DEF f
    <3>. QED  BY <3>1, FiniteImage
  <2>2. \A i \in C : f[i] = s[i] /\ s[i] \in Int
    BY <1>1, <1>4
  <2>. HIDE DEF f
  <2>3. S \in SUBSET Int /\ S # {}
    BY <1>3, <2>2
  <2>4. PICK x \in S : \A y \in S : y <= x
    <3>. HIDE DEF S
    <3>. QED  BY <2>1, <2>3, GreatestInt
  <2>. HIDE DEF s
  <2>. QED  BY <2>2, <2>4
<1>7. Reranks(index, C, view) =
        {[id |-> call.col[i], score |-> s[i]] : i \in {i \in C : \A h \in C : s[h] <= s[i]}}
  <2>1. Reranks(index, C, view) =
          {[id |-> call.col[i], score |-> ExactScore(view[i], call.norm)] :
             i \in {i \in left : \A h \in left :
                      ExactScore(view[h], call.norm) <= ExactScore(view[i], call.norm)}}
    BY DEF Reranks
  <2>2. \A i \in C : s[i] = ExactScore(view[i], call.norm)
    BY <1>1, <1>4
  <2>. HIDE DEF left, s
  <2>. QED  BY <1>5, <2>1, <2>2
<1>. HIDE DEF s
<1>8. ASSUME NEW i \in C, \A h \in C : s[h] <= s[i]
      PROVE  s[j] <= s[i] + err
  <2>1. s[i] \in Int /\ s[j] \in Int
    BY <1>1, <1>4
  <2>2. CASE j \in C
    <3>1. s[j] <= s[i]
      BY <1>8, <2>2
    <3>2. err \in Nat
      BY <1>2
    <3>. HIDE DEF err
    <3>. QED  BY <2>1, <3>1, <3>2
  <2>3. CASE j \notin C
    <3>1. s[j] <= s[i] + CodeError
      BY <1>1, <1>4, <2>3
    <3>2. Take < n
      BY <1>2, <1>3, <2>3
    <3>. QED  BY <3>1, <3>2
  <2>. QED  BY <2>2, <2>3
<1>9. [id |-> call.col[m], score |-> s[m]] \in Reranks(index, C, view)
  BY <1>6, <1>7
<1>10. ASSUME NEW b \in Reranks(index, C, view)
       PROVE  ExactScore(view[j], call.norm) <= b.score + err
  <2>1. PICK i \in C : b = [id |-> call.col[i], score |-> s[i]] /\ \A h \in C : s[h] <= s[i]
    BY <1>7
  <2>2. s[j] <= s[i] + err
    BY <1>8, <2>1
  <2>3. s[j] = ExactScore(view[j], call.norm)
    BY <1>4
  <2>. HIDE DEF err
  <2>. QED  BY <2>1, <2>2, <2>3
<1>. QED  BY <1>9, <1>10

\* What is answered is a row of the view under the call's id column, with its
\* score there.
LEMMA RerankedIsThere ==
  ASSUME call.col \in IdColumn, call.norm \in BOOLEAN,
         NEW index, NEW view \in Rows, NEW C, NEW b \in Reranks(index, C, view)
  PROVE  /\ b.id \in Int /\ b.score \in Int
         /\ \E i \in Ids(view) : b.id = call.col[i] /\ b.score = ExactScore(view[i], call.norm)
<1>1. PICK i \in Fetched(index, C, view) :
        b = [id |-> call.col[i], score |-> ExactScore(view[i], call.norm)]
  BY DEF Reranks
<1>2. i \in Ids(view)
  BY DEF Fetched
<1>3. ExactScore(view[i], call.norm) \in Int /\ call.col[i] \in Int
  BY <1>2, RowIs
<1>. QED  BY <1>1, <1>2, <1>3

\* What an answer is: of a hit, from the cached index, of a miss, from the view.
LEMMA AnsweredIs ==
  ASSUME call.col \in IdColumn, call.norm \in BOOLEAN,
         NEW index, index.rows \in Rows, NEW view \in Rows,
         NEW stood, stood \subseteq Ids(view), NEW fit \in BOOLEAN,
         Answered(index, view, stood, fit),
         fit => /\ index.col = call.col /\ index.norm = call.norm
                /\ Within(index.rows, view) /\ stood \subseteq Ids(index.rows)
  PROVE  (answer \in AnswerOf /\ AnswerIsCurrentRow /\ AnswerIsNearest)'
<1>. DEFINE full == Take < Cardinality(Ids(index.rows))
            none == [NoAnswer EXCEPT !.on = TRUE, !.col = call.col, !.norm = call.norm,
                                     !.rows = view, !.stood = stood, !.fit = fit,
                                     !.cut = full]
            found(b) == [none EXCEPT !.id = b.id, !.score = b.score]
<1>1. PICK C \in Candidates(index.rows, index.norm) :
        answer' \in IF Reranks(index, C, view) = {} THEN {none}
                    ELSE {found(b) : b \in Reranks(index, C, view)}
  BY Zenon DEF Answered
<1>2. stood \in SUBSET Id /\ full \in BOOLEAN
  BY RowCountIs
<1>3. /\ none \in AnswerOf /\ none.on /\ none.rows = view /\ none.stood = stood
      /\ none.col = call.col /\ none.norm = call.norm /\ none.fit = fit
      /\ none.cut = full /\ none.id = None
  <2>. HIDE DEF full
  <2>1. NoAnswer \in AnswerOf /\ NoAnswer.id = None
    BY NoneYet DEF NoAnswer
  <2>. QED  BY <1>2, <2>1 DEF AnswerOf
<1>. DEFINE err == IF full THEN CodeError ELSE 0
<1>4. ASSUME fit, NEW j \in stood
      PROVE  /\ Reranks(index, C, view) # {}
             /\ \A b \in Reranks(index, C, view) :
                  ExactScore(view[j], call.norm) <= b.score + err
  <2>1. j \in Ids(index.rows)
    BY <1>4
  <2>. QED  BY <1>4, <2>1, RerankedIsNearest
<1>. HIDE DEF none
<1>5. CASE Reranks(index, C, view) = {}
  <2>1. answer' = none
    BY <1>1, <1>5
  <2>2. fit => stood = {}
    BY <1>4, <1>5
  <2>3. AnswerIsCurrentRow'
    BY <1>3, <2>1 DEF AnswerIsCurrentRow
  <2>4. AnswerIsNearest'
    BY <1>3, <2>1, <2>2 DEF AnswerIsNearest
  <2>. QED  BY <1>3, <2>1, <2>3, <2>4
<1>6. CASE Reranks(index, C, view) # {}
  <2>1. PICK b \in Reranks(index, C, view) : answer' = found(b)
    BY <1>1, <1>6
  <2>2. /\ b.id \in Int /\ b.score \in Int
        /\ \E i \in Ids(view) : b.id = call.col[i] /\ b.score = ExactScore(view[i], call.norm)
    BY RerankedIsThere
  <2>3. /\ answer' \in AnswerOf /\ answer'.id = b.id /\ answer'.score = b.score
        /\ answer'.rows = view /\ answer'.stood = stood /\ answer'.fit = fit
        /\ answer'.col = call.col /\ answer'.norm = call.norm /\ answer'.cut = full
    BY <1>3, <2>1, <2>2 DEF AnswerOf
  <2>4. AnswerIsCurrentRow'
    BY <2>2, <2>3 DEF AnswerIsCurrentRow
  <2>5. AnswerIsNearest'
    <3>1. SUFFICES ASSUME fit, NEW j \in stood
                   PROVE  /\ answer'.id # None
                          /\ ExactScore(view[j], call.norm) <= answer'.score + err
      BY <2>3 DEF AnswerIsNearest
    <3>2. ExactScore(view[j], call.norm) <= b.score + err
      BY <1>4, <3>1
    <3>. HIDE DEF err
    <3>. QED  BY <2>2, <2>3, <3>2, IdAssumption
  <2>. QED  BY <2>3, <2>4, <2>5
<1>. QED  BY <1>5, <1>6

\* The cached rows are those of the call if there are as many of them.
LEMMA HitIsRight ==
  ASSUME KnnInv, call.pc = "count", Hit, Fit, NEW view \in Views
  PROVE  Within(entry.rows, view) /\ Stood(view) \subseteq Ids(entry.rows)
<1>1. /\ call.node = table.node /\ call.count = RowCount(call.rows) /\ ~ table.churned
      /\ entry.on /\ entry.node = table.node /\ entry.count = call.count
  BY DEF KnnInv, CallRight, Hit, Fit
<1>2. /\ entry.count <= RowCount(entry.rows) /\ Within(entry.rows, table.rows)
      /\ Within(entry.rows, call.rows)
  BY <1>1 DEF KnnInv, EntryRight
<1>3. Ids(entry.rows) \subseteq Ids(call.rows)
  BY <1>2 DEF Within, Ids
<1>4. Ids(entry.rows) = Ids(call.rows)
  <2>1. /\ IsFiniteSet(Ids(call.rows)) /\ RowCount(call.rows) = Cardinality(Ids(call.rows))
        /\ RowCount(entry.rows) = Cardinality(Ids(entry.rows))
        /\ RowCount(call.rows) \in Nat /\ RowCount(entry.rows) \in Nat
    BY RowCountIs
  <2>2. Cardinality(Ids(entry.rows)) <= Cardinality(Ids(call.rows))
    BY <1>3, <2>1, FS_Subset
  <2>3. Cardinality(Ids(entry.rows)) = Cardinality(Ids(call.rows))
    BY <1>1, <1>2, <2>1, <2>2
  <2>. QED  BY <1>3, <2>1, <2>3, FS_Subset
<1>5. \A j \in Stood(view) : j \in Ids(call.rows)
  BY DEF Stood, Ids
<1>. QED  BY <1>2, <1>4, <1>5 DEF Views

LEMMA AnswerStep ==
  ASSUME KnnInv, Answer
  PROVE  KnnInv'
<1>1. PICK view \in Views :
        /\ call.pc = "count" /\ call' = NoCall /\ table' = table
        /\ IF Hit
           THEN Answered(entry, view, Stood(view), Fit) /\ entry' = entry
           ELSE /\ Answered(BuiltOf(view), view, Ids(view), TRUE)
                /\ entry' = IF Ids(view) = {} THEN NoEntry ELSE BuiltOf(view)
  BY Zenon DEF Answer
<1>2. table \in TableOf /\ entry \in EntryOf /\ call \in CallOf
  BY TypeIs DEF KnnInv
<1>3. /\ call.rows \in Rows /\ table.rows \in Rows /\ entry.rows \in Rows /\ view \in Rows
      /\ call.col \in IdColumn /\ call.norm \in BOOLEAN
  BY <1>1, <1>2 DEF TableOf, EntryOf, CallOf, Views, KnnInv, CallRight
<1>4. call' \in CallOf /\ call'.pc = "idle"
  BY <1>1, NoneYet
<1>5. CallRight'
  BY <1>4 DEF CallRight
<1>6. CASE Hit
  <2>1. Answered(entry, view, Stood(view), Fit) /\ entry' = entry
    BY <1>1, <1>6
  <2>2. Fit \in BOOLEAN /\ Stood(view) \subseteq Ids(view)
    <3>1. Fit \in BOOLEAN
      BY DEF Fit
    <3>. QED  BY <3>1 DEF Stood
  <2>3. Fit => /\ entry.col = call.col /\ entry.norm = call.norm
               /\ Within(entry.rows, view) /\ Stood(view) \subseteq Ids(entry.rows)
    <3>1. Fit => entry.col = call.col /\ entry.norm = call.norm
      BY DEF Fit
    <3>2. Fit => Within(entry.rows, view) /\ Stood(view) \subseteq Ids(entry.rows)
      BY <1>1, <1>6, HitIsRight
    <3>. QED  BY <3>1, <3>2
  <2>4. (answer \in AnswerOf /\ AnswerIsCurrentRow /\ AnswerIsNearest)'
    <3>1. PICK fit \in BOOLEAN, stood \in SUBSET Ids(view) : fit = Fit /\ stood = Stood(view)
      BY <2>2
    <3>2. Answered(entry, view, stood, fit)
      BY <2>1, <3>1, Zenon
    <3>3. fit => /\ entry.col = call.col /\ entry.norm = call.norm
                 /\ Within(entry.rows, view) /\ stood \subseteq Ids(entry.rows)
      BY <2>3, <3>1
    <3>. QED  BY <1>3, <2>2, <3>1, <3>2, <3>3, AnsweredIs
  <2>5. EntryRight'
    BY <1>1, <1>4, <2>1 DEF KnnInv, EntryRight
  <2>6. TypeOK'
    BY <1>1, <1>2, <1>4, <2>1, <2>4, TypeNext
  <2>. QED  BY <1>5, <2>4, <2>5, <2>6 DEF KnnInv
<1>7. CASE ~ Hit
  <2>. DEFINE index == BuiltOf(view)
  <2>1. /\ Answered(index, view, Ids(view), TRUE)
        /\ entry' = IF Ids(view) = {} THEN NoEntry ELSE index
    BY <1>1, <1>7
  <2>2. /\ index \in EntryOf /\ index.rows = view /\ index.col = call.col
        /\ index.norm = call.norm /\ index.node = call.node /\ index.count = call.count
    BY <1>2, <1>3 DEF BuiltOf, EntryOf, CallOf
  <2>. HIDE DEF index
  <2>3. (answer \in AnswerOf /\ AnswerIsCurrentRow /\ AnswerIsNearest)'
    <3>1. PICK fit \in BOOLEAN, stood \in SUBSET Ids(view) : fit = TRUE /\ stood = Ids(view)
      OBVIOUS
    <3>2. Answered(index, view, stood, fit)
      BY <2>1, <3>1
    <3>3. Within(view, view)
      BY DEF Within
    <3>. QED  BY <1>3, <2>2, <3>1, <3>2, <3>3, AnsweredIs
  <2>4. entry' \in EntryOf
    BY <2>1, <2>2, NoneYet
  <2>5. EntryRight'
    <3>1. CASE Ids(view) = {}
      BY <2>1, <3>1, NoneYet DEF EntryRight
    <3>2. CASE Ids(view) # {}
      <4>1. /\ entry'.node = call.node /\ entry'.count = call.count /\ entry'.rows = view
        BY <2>1, <2>2, <3>2
      <4>2. call.node <= table.node /\ call.count = RowCount(call.rows)
        BY <1>1 DEF KnnInv, CallRight
      <4>3. ASSUME call.node = table.node, ~ table.churned
            PROVE  Within(view, table.rows) /\ RowCount(call.rows) <= RowCount(view)
        <5>1. /\ Within(call.rows, table.rows) /\ Within(table.rows, table.rows)
              /\ Within(call.rows, call.rows)
          BY <1>1, <4>3 DEF KnnInv, CallRight, Within
        <5>2. Ids(call.rows) \subseteq Ids(view) /\ Within(view, table.rows)
          <6>1. view = call.rows \/ view = table.rows
            BY DEF Views
          <6>2. Ids(call.rows) \subseteq Ids(table.rows)
            BY <5>1 DEF Within, Ids
          <6>. QED  BY <5>1, <6>1, <6>2
        <5>3. RowCount(call.rows) <= RowCount(view)
          BY <5>2, RowCountIs, FS_Subset
        <5>. QED  BY <5>2, <5>3
      <4>. QED  BY <1>1, <1>4, <4>1, <4>2, <4>3 DEF EntryRight
    <3>. QED  BY <3>1, <3>2
  <2>6. TypeOK'
    BY <1>1, <1>2, <1>4, <2>3, <2>4, TypeNext
  <2>. QED  BY <1>5, <2>3, <2>5, <2>6 DEF KnnInv
<1>. QED  BY <1>6, <1>7

\* A change to a row is remembered, a new row takes the place of none.
LEMMA TableChanges ==
  ASSUME table \in TableOf,
         NEW i \in Id, NEW v \in Vec, Insert(i, v) \/ Update(i, v) \/ Delete(i)
  PROVE  /\ table' \in TableOf
         /\ table'.node = table.node /\ UNCHANGED <<entry, call>> /\ answer' = NoAnswer
         /\ ~ table'.churned => /\ ~ table.churned
                                /\ \A r : Within(r, table.rows) => Within(r, table'.rows)
<1>. DEFINE set(w) == [table.rows EXCEPT ![i] = w]
<1>1. ASSUME NEW w \in Vec \cup {None}
      PROVE  set(w) \in Rows /\ \A j \in Id \ {i} : set(w)[j] = table.rows[j]
  BY DEF Rows, TableOf
<1>2. ASSUME NEW rows \in Rows, NEW was, was = table,
             table' = [was EXCEPT !.rows = rows, !.churned = TRUE]
      PROVE  table' \in TableOf /\ table'.node = table.node /\ table'.churned
  BY <1>2 DEF TableOf
<1>3. CASE Insert(i, v)
  <2>1. PICK rows \in Rows : rows = set(v)
    BY <1>1
  <2>2. table' = [table EXCEPT !.rows = rows] /\ table.rows[i] = None
    BY <1>3, <2>1 DEF Insert
  <2>3. /\ table' \in TableOf /\ table'.node = table.node /\ table'.rows = rows
        /\ table'.churned = table.churned
    BY <2>2 DEF TableOf
  <2>4. \A r : Within(r, table.rows) => Within(r, rows)
    BY <1>1, <2>1, <2>2 DEF Within, Ids
  <2>. QED  BY <1>3, <2>3, <2>4 DEF Insert
<1>4. CASE Update(i, v)
  <2>1. PICK rows \in Rows : rows = set(v)
    BY <1>1
  <2>2. table' = [table EXCEPT !.rows = rows, !.churned = TRUE]
    BY <1>4, <2>1 DEF Update
  <2>3. table' \in TableOf /\ table'.node = table.node /\ table'.churned
    BY <1>2, <2>2
  <2>. QED  BY <1>4, <2>3 DEF Update
<1>5. CASE Delete(i)
  <2>1. PICK rows \in Rows : rows = set(None)
    BY <1>1
  <2>2. table' = [table EXCEPT !.rows = rows, !.churned = TRUE]
    BY <1>5, <2>1 DEF Delete
  <2>3. table' \in TableOf /\ table'.node = table.node /\ table'.churned
    BY <1>2, <2>2
  <2>. QED  BY <1>5, <2>3 DEF Delete
<1>. QED  BY <1>3, <1>4, <1>5

LEMMA KnnTableStep ==
  ASSUME KnnInv, NEW i \in Id, NEW v \in Vec, Insert(i, v) \/ Update(i, v) \/ Delete(i)
  PROVE  KnnInv'
<1>1. table \in TableOf /\ entry \in EntryOf /\ call \in CallOf
  BY TypeIs DEF KnnInv
<1>2. /\ table' \in TableOf
      /\ table'.node = table.node /\ UNCHANGED <<entry, call>> /\ answer' = NoAnswer
      /\ ~ table'.churned => /\ ~ table.churned
                             /\ \A r : Within(r, table.rows) => Within(r, table'.rows)
  BY <1>1, TableChanges
<1>3. TypeOK' /\ AnswerIsCurrentRow' /\ AnswerIsNearest'
  BY <1>1, <1>2, NoKnnAnswer, TypeNext
<1>4. CallRight'
  BY <1>2 DEF KnnInv, CallRight
<1>5. EntryRight'
  BY <1>2 DEF KnnInv, EntryRight
<1>. QED  BY <1>3, <1>4, <1>5 DEF KnnInv

\* A rewrite gives the table a number no entry has, and no call.
LEMMA RewriteStep ==
  ASSUME KnnInv, ClusterTable \/ TruncateTable
  PROVE  KnnInv'
<1>1. table \in TableOf /\ entry \in EntryOf /\ call \in CallOf
  BY TypeIs DEF KnnInv
<1>2. PICK rows \in Rows :
        /\ table' = [node |-> table.node + 1, rows |-> rows, churned |-> FALSE]
        /\ table.node < MaxNode /\ entry' = entry /\ answer' = NoAnswer
        /\ call.pc # "count"
  <2>1. table.rows \in Rows /\ NoRows \in Rows
    BY <1>1, NoneYet DEF TableOf
  <2>. QED  BY <2>1 DEF ClusterTable, TruncateTable, Rewritten
<1>3. /\ call' \in CallOf /\ call'.pc = call.pc /\ call'.node = call.node
      /\ call'.col = call.col
  <2>1. CASE call' = call
    BY <1>1, <2>1
  <2>2. CASE call' = [call EXCEPT !.rows = NoRows]
    BY <1>1, <2>2, NoneYet DEF CallOf
  <2>. QED  BY <2>1, <2>2 DEF ClusterTable, TruncateTable
<1>4. /\ table.node \in Int /\ entry.node \in Int /\ call.node \in Int
      /\ table.node + 1 \in 1 .. MaxNode
  BY <1>1, <1>2, BoundsAssumption DEF TableOf, EntryOf, CallOf
<1>5. table' \in TableOf /\ table'.node = table.node + 1
  BY <1>2, <1>4 DEF TableOf
<1>6. TypeOK' /\ AnswerIsCurrentRow' /\ AnswerIsNearest'
  BY <1>1, <1>2, <1>3, <1>5, NoKnnAnswer, TypeNext
<1>7. CallRight'
  BY <1>2, <1>3, <1>4, <1>5 DEF KnnInv, CallRight
<1>8. EntryRight'
  BY <1>2, <1>4, <1>5 DEF KnnInv, EntryRight
<1>. QED  BY <1>6, <1>7, <1>8 DEF KnnInv

LEMMA ProbeEvictStep ==
  ASSUME KnnInv, (\E a \in Asked : ProbeNode(a)) \/ ProbeCount \/ Evict
  PROVE  KnnInv'
<1>1. table \in TableOf /\ entry \in EntryOf /\ call \in CallOf
  BY TypeIs DEF KnnInv
<1>2. table' = table /\ answer' = NoAnswer
  BY DEF ProbeNode, ProbeCount, Evict
<1>3. AnswerIsCurrentRow' /\ AnswerIsNearest' /\ answer' \in AnswerOf
  BY <1>2, NoKnnAnswer
<1>4. table.rows \in Rows /\ table.node \in 0 .. MaxNode /\ table.node \in Int
      /\ call.rows \in Rows
  BY <1>1 DEF TableOf, CallOf
<1>5. ASSUME NEW a \in Asked, ProbeNode(a) PROVE KnnInv'
  <2>1. /\ call' = [pc |-> "node", node |-> table.node, count |-> 0, rows |-> table.rows,
                    col |-> a.col, norm |-> a.norm]
        /\ entry' = entry
    BY <1>5 DEF ProbeNode
  <2>2. a.col \in IdColumn /\ a.norm \in BOOLEAN
    BY AskedAssumption DEF IdColumn
  <2>3. 0 \in 0 .. Cardinality(Id)
    BY IdAssumption, FS_CardinalityType
  <2>4. call' \in CallOf
    BY <1>4, <2>1, <2>2, <2>3 DEF CallOf
  <2>5. TypeOK'
    BY <1>1, <1>2, <1>3, <2>1, <2>4, TypeNext
  <2>6. CallRight'
    BY <1>2, <1>4, <2>1, <2>2 DEF CallRight, Within
  <2>7. EntryRight'
    BY <1>2, <2>1 DEF KnnInv, EntryRight
  <2>. QED  BY <1>3, <2>5, <2>6, <2>7 DEF KnnInv
<1>6. CASE ProbeCount
  <2>2. PICK view \in Views :
          call' = [call EXCEPT !.pc = "count", !.count = RowCount(view), !.rows = view]
    BY <1>6 DEF ProbeCount
  <2>3. PICK n \in 0 .. Cardinality(Id) : n = RowCount(view)
    BY RowCountIs
  <2>4. view \in Rows /\ (view = call.rows \/ view = table.rows)
    BY <1>4 DEF Views
  <2>5. /\ call' \in CallOf /\ call'.pc = "count" /\ call'.count = n /\ call'.rows = view
        /\ call'.node = call.node /\ call'.col = call.col
    BY <1>1, <2>2, <2>3, <2>4 DEF CallOf
  <2>6. entry' = entry /\ call.pc = "node"
    BY <1>6 DEF ProbeCount
  <2>7. TypeOK'
    BY <1>1, <1>2, <1>3, <2>5, <2>6, TypeNext
  <2>8. CallRight'
    BY <1>2, <2>3, <2>4, <2>5, <2>6 DEF KnnInv, CallRight, Within
  <2>9. EntryRight'
    BY <1>2, <2>4, <2>5, <2>6 DEF KnnInv, EntryRight
  <2>. QED  BY <1>3, <2>7, <2>8, <2>9 DEF KnnInv
<1>7. CASE Evict
  <2>1. ~ entry'.on /\ entry' \in EntryOf /\ call' = call
    BY <1>7, NoneYet DEF Evict
  <2>2. TypeOK'
    BY <1>1, <1>2, <1>3, <2>1, TypeNext
  <2>3. CallRight' /\ EntryRight'
    BY <1>2, <2>1 DEF KnnInv, CallRight, EntryRight
  <2>. QED  BY <1>3, <2>2, <2>3 DEF KnnInv
<1>. QED  BY <1>5, <1>6, <1>7

LEMMA KnnStep ==
  ASSUME KnnInv, [Next]_vars
  PROVE  KnnInv'
<1>1. CASE UNCHANGED vars
  <2>1. UNCHANGED <<table, entry, call, answer>>
    BY <1>1 DEF vars
  <2>2. TypeOK' /\ CallRight' /\ EntryRight'
    BY <2>1 DEF KnnInv, TypeOK, CallRight, EntryRight
  <2>3. AnswerIsCurrentRow' /\ AnswerIsNearest'
    BY <2>1 DEF KnnInv, AnswerIsCurrentRow, AnswerIsNearest
  <2>. QED  BY <2>2, <2>3 DEF KnnInv
<1>2. ASSUME NEW i \in Id, NEW v \in Vec, Insert(i, v) \/ Update(i, v)
      PROVE  KnnInv'
  BY <1>2, KnnTableStep
<1>3. ASSUME NEW i \in Id, Delete(i) PROVE KnnInv'
  <2>1. table.rows[i] \in Vec
    <3>1. table.rows \in Rows
      BY TypeIs DEF KnnInv, TableOf
    <3>. QED  BY <1>3, <3>1 DEF Rows, Delete
  <2>. QED  BY <1>3, <2>1, KnnTableStep
<1>4. ASSUME ClusterTable \/ TruncateTable PROVE KnnInv'
  BY <1>4, RewriteStep
<1>5. ASSUME (\E a \in Asked : ProbeNode(a)) \/ ProbeCount \/ Evict PROVE KnnInv'
  BY <1>5, ProbeEvictStep
<1>6. \/ UNCHANGED vars
      \/ \E i \in Id, v \in Vec : Insert(i, v) \/ Update(i, v)
      \/ \E i \in Id : Delete(i)
      \/ ClusterTable \/ TruncateTable
      \/ (\E a \in Asked : ProbeNode(a)) \/ ProbeCount \/ Evict
      \/ Answer
  BY DEF Next
<1>. QED  BY <1>1, <1>2, <1>3, <1>4, <1>5, <1>6, AnswerStep

LEMMA KnnStart ==
  ASSUME Init
  PROVE  KnnInv
<1>1. PICK rows \in Rows : table = [node |-> 1, rows |-> rows, churned |-> FALSE]
  BY DEF Init
<1>2. table \in TableOf
  BY <1>1, BoundsAssumption DEF TableOf
<1>3. entry = NoEntry /\ call = NoCall /\ answer = NoAnswer
  BY DEF Init
<1>4. TypeOK
  BY <1>2, <1>3, NoneYet, TypeIs
<1>5. CallRight /\ EntryRight
  BY <1>3, NoneYet DEF CallRight, EntryRight
<1>6. AnswerIsCurrentRow /\ AnswerIsNearest
  BY <1>3, NoneYet DEF AnswerIsCurrentRow, AnswerIsNearest
<1>. QED  BY <1>4, <1>5, <1>6 DEF KnnInv

\* What turbovec.knn() answers is right, whichever calls of other id columns and
\* settings share its cache, and whatever became of the table: a row of it under
\* the call's id column, with that row's own score; and of the rows that stood
\* throughout the call, none that scores better by more than the codes may err,
\* or at all if every row was a candidate.  The last for an index that is of the
\* call's id column and setting, while rows are only added and the table
\* rewritten.  (cache::lookup, run_search, exact_rerank.)
THEOREM KnnRight == Spec => []KnnAnswersRight
<1>1. KnnInv => KnnAnswersRight
  BY DEF KnnInv, KnnAnswersRight
<1>. QED  BY <1>1, KnnStart, KnnStep, PTL DEF Spec

-----------------------------------------------------------------------------
(* turbovec.colbert_search().                                              *)

Doc == [id : DocId, toks : Arrays]
DocRows == [Tid -> Doc \cup {NoDoc}]

\* Rows with the same value in the column that serves as the id have the same id.
LEMMA ValueDiffers ==
  ASSUME NEW r \in Doc, NEW u \in Doc, NEW col, Value(r, col) = Value(u, col)
  PROVE  r.id = u.id
<1>1. Max(DocId) \in Int /\ Min(DocId) \in Int /\ r.id \in Int /\ u.id \in Int
  BY DocIdAssumption, GreatestIs, LeastIs DEF Doc
<1>2. CASE col = "id"
  BY <1>2 DEF Value
<1>3. CASE col # "id"
  <2>1. Max(DocId) + Min(DocId) - r.id = Max(DocId) + Min(DocId) - u.id
    BY <1>3 DEF Value
  <2>2. PICK a \in Int, b \in Int : a = Max(DocId) /\ b = Min(DocId)
    BY <1>1
  <2>3. PICK c \in Int, d \in Int : c = r.id /\ d = u.id
    BY <1>1
  <2>4. a + b - c = a + b - d
    BY <2>1, <2>2, <2>3
  <2>5. c = d
    BY <2>4
  <2>. QED  BY <2>3, <2>5
<1>. QED  BY <1>2, <1>3

\* The tokens that match are vectors of the query's dimension.
LEMMA MatchingIs ==
  ASSUME NEW toks \in Arrays
  PROVE  Matching(toks) \in Seq(Int)
<1>. DEFINE D == {i \in DOMAIN toks : toks[i] # Bad}
            k == Kept(toks, D)
<1>1. toks \in Seq(Int \cup {Bad})
  BY TokenAssumption
<1>2. k \in Seq(Int \cup {Bad}) /\ PlacesOf(k, toks, D) # {}
  <2>. HIDE DEF D
  <2>. QED  BY <1>1, KeptIs
<1>3. PICK at \in [1 .. Len(k) -> D] : \A j \in 1 .. Len(k) : k[j] = toks[at[j]]
  BY <1>2 DEF PlacesOf
<1>4. \A j \in 1 .. Len(k) : k[j] \in Int \cup {Bad} /\ k[j] # Bad
  <2>. HIDE DEF k
  <2>. QED  BY <1>2, <1>3
<1>5. k = [j \in 1 .. Len(k) |-> k[j]] /\ Len(k) \in Nat
  <2>. HIDE DEF k
  <2>. QED  BY <1>2
<1>6. k \in [1 .. Len(k) -> Int]
  <2>. HIDE DEF k
  <2>. QED  BY <1>4, <1>5
<1>7. k \in Seq(Int)
  <2>. HIDE DEF k
  <2>. QED  BY <1>5, <1>6
<1>. QED  BY <1>7 DEF Matching

LEMMA QueryIs ==
  ASSUME NEW norm
  PROVE  /\ Normalised(Query, norm) \in [DOMAIN Query -> Int]
         /\ Normalised(Query, norm) # <<>>
<1>1. Query \in [DOMAIN Query -> Int] /\ DOMAIN Query # {}
  <2>1. Query \in Seq(Int) /\ Query # <<>>
    BY TokenAssumption
  <2>2. Query \in [1 .. Len(Query) -> Int] /\ Len(Query) \in Nat /\ Len(Query) # 0
    BY <2>1
  <2>. QED  BY <2>2
<1>2. \A x \in Int : SignOf(x) \in Int
  BY DEF SignOf
<1>3. CASE norm
  <2>1. Normalised(Query, norm) = [i \in DOMAIN Query |-> SignOf(Query[i])]
    BY <1>3 DEF Normalised
  <2>. QED  BY <1>1, <1>2, <2>1
<1>4. CASE ~ norm
  <2>1. Normalised(Query, norm) = Query
    BY <1>4 DEF Normalised
  <2>. QED  BY <1>1, <2>1
<1>. QED  BY <1>3, <1>4

\* The score of a document is the sum, over the query's tokens, of the best
\* similarity any of the document's has.
BestSum(query, toks, score) ==
  \E best \in [DOMAIN query -> Range(toks)] :
    /\ \A q \in DOMAIN query, i \in DOMAIN toks : query[q] * best[q] >= query[q] * toks[i]
    /\ score = SumFunction([q \in DOMAIN query |-> query[q] * best[q]])

LEMMA MaxSimIs ==
  ASSUME NEW D, NEW query \in [D -> Int], query # <<>>, NEW toks \in Seq(Int), toks # <<>>
  PROVE  BestSum(query, toks, MaxSim(query, toks))
<1>1. ASSUME NEW q \in D
      PROVE  \E i \in DOMAIN toks : /\ BestSim(query[q], toks) = query[q] * toks[i]
                                    /\ \A j \in DOMAIN toks : query[q] * toks[i] >= query[q] * toks[j]
  <2>. DEFINE S == {query[q] * toks[i] : i \in DOMAIN toks}
  <2>1. DOMAIN toks # {} /\ IsFiniteSet(DOMAIN toks) /\ \A i \in DOMAIN toks : toks[i] \in Int
    <3>1. DOMAIN toks = 1 .. Len(toks) /\ Len(toks) \in Nat /\ Len(toks) # 0
      OBVIOUS
    <3>2. IsFiniteSet(1 .. Len(toks))
      BY <3>1, FS_Interval
    <3>3. \A i \in DOMAIN toks : toks[i] \in Int
      OBVIOUS
    <3>4. 1 \in 1 .. Len(toks)
      BY <3>1
    <3>. QED  BY <3>1, <3>2, <3>3, <3>4
  <2>2. query[q] \in Int
    OBVIOUS
  <2>3. \A a, b \in Int : a * b \in Int
    OBVIOUS
  <2>4. S \in SUBSET Int /\ S # {}
    BY <2>1, <2>2, <2>3
  <2>5. IsFiniteSet(S)
    <3>. DEFINE f == [i \in DOMAIN toks |-> query[q] * toks[i]]
    <3>1. DOMAIN f = DOMAIN toks
      OBVIOUS
    <3>2. IsFiniteSet({f[i] : i \in DOMAIN toks})
      <4>. HIDE DEF f
      <4>. QED  BY <2>1, <3>1, FiniteImage
    <3>3. \A i \in DOMAIN toks : f[i] = query[q] * toks[i]
      OBVIOUS
    <3>. HIDE DEF f
    <3>. QED  BY <3>2, <3>3
  <2>6. Max(S) \in S /\ \A k \in S : k <= Max(S)
    <3>. HIDE DEF S
    <3>. QED  BY <2>4, <2>5, GreatestIs
  <2>7. PICK i \in DOMAIN toks : Max(S) = query[q] * toks[i]
    BY <2>6
  <2>8. \A j \in DOMAIN toks : query[q] * toks[j] \in S
    OBVIOUS
  <2>9. \A j \in DOMAIN toks : Max(S) >= query[q] * toks[j]
    <3>. HIDE DEF S
    <3>1. TAKE j \in DOMAIN toks
    <3>2. PICK x \in Int : x = query[q] * toks[j]
      BY <2>4, <2>8
    <3>3. PICK m \in Int : m = Max(S)
      BY <2>4, <2>6
    <3>4. x <= m
      BY <2>6, <2>8, <3>2, <3>3
    <3>. QED  BY <3>2, <3>3, <3>4
  <2>. QED  BY <2>7, <2>9, Zenon DEF BestSim
<1>2. PICK at \in [D -> DOMAIN toks] : \A q \in D :
        /\ BestSim(query[q], toks) = query[q] * toks[at[q]]
        /\ \A j \in DOMAIN toks : query[q] * toks[at[q]] >= query[q] * toks[j]
  <2>. DEFINE P(q, i) == /\ BestSim(query[q], toks) = query[q] * toks[i]
                         /\ \A j \in DOMAIN toks : query[q] * toks[i] >= query[q] * toks[j]
  <2>1. \A q \in D : \E i \in DOMAIN toks : P(q, i)
    BY <1>1, Zenon
  <2>. HIDE DEF P
  <2>. DEFINE at == [q \in D |-> CHOOSE i \in DOMAIN toks : P(q, i)]
  <2>2. at \in [D -> DOMAIN toks] /\ \A q \in D : P(q, at[q])
    BY <2>1
  <2>. QED  BY <2>2 DEF P
<1>. DEFINE best == [q \in D |-> toks[at[q]]]
<1>3. best \in [D -> Range(toks)] /\ \A q \in D : best[q] = toks[at[q]]
  BY DEF Range
<1>. HIDE DEF best
<1>4. DOMAIN query = D
  OBVIOUS
<1>5. \A q \in DOMAIN query, i \in DOMAIN toks : query[q] * best[q] >= query[q] * toks[i]
  BY <1>2, <1>3, <1>4, Zenon
<1>6. [q \in D |-> BestSim(query[q], toks)] = [q \in D |-> query[q] * best[q]]
  BY <1>2, <1>3, Zenon
<1>7. MaxSim(query, toks) = SumFunction([q \in DOMAIN query |-> query[q] * best[q]])
  BY <1>4, <1>6, Zenon DEF MaxSim
<1>. QED  BY <1>3, <1>4, <1>5, <1>7, Zenon DEF BestSum

DocTable == [node : {1, 2}, rows : DocRows, dead : SUBSET Tid, churned : BOOLEAN]

DocInv == documents \in DocTable /\ UniqueIds(documents.rows) /\ AnswersAreCurrentDocs

AnswerRight(ans, rows) ==
  /\ \A a \in ans.docs : \E t \in Docs(rows) :
       /\ Value(rows[t], ans.col) = a.id
       /\ BestSum(Normalised(Query, ans.norm), Matching(rows[t].toks), a.score)
  /\ \A a, b \in ans.docs : a.id = b.id => a = b

LEMMA RightIs ==
  /\ AnswersAreCurrentDocs <=> AnswerRight(docAnswer, documents.rows)
  /\ AnswersAreCurrentDocs' <=> AnswerRight(docAnswer', documents'.rows)
BY Zenon DEF AnswersAreCurrentDocs, AnswerRight, BestSum

LEMMA NoDocAnswerYet ==
  ASSUME docAnswer = NoDocAnswer
  PROVE  AnswersAreCurrentDocs
BY DEF AnswersAreCurrentDocs, NoDocAnswer

\* An answer to a call whose rows have different ids.
LEMMA StageTwoRight ==
  ASSUME DocInv, StageTwo
  PROVE  DocInv'
<1>. DEFINE query == Normalised(Query, docCall.norm)
            rows == documents.rows
            col == docCall.col
            m(t) == Matching(rows[t].toks)
            docOf(t) == [id |-> Value(rows[t], col), score |-> MaxSim(query, m(t))]
<1>1. /\ documents \in DocTable /\ UniqueIds(rows) /\ rows \in DocRows
  BY DEF DocInv, DocTable
<1>2. documents' = documents /\ docAnswer'.col = col /\ docAnswer'.norm = docCall.norm
  BY DEF StageTwo
<1>3. \A a \in docAnswer'.docs : \E t \in FetchedDocs(rows) : a = docOf(t)
  BY DEF StageTwo, Top
<1>4. \A t \in Docs(rows) : rows[t] \in Doc /\ rows[t].toks \in Arrays
  BY <1>1 DEF Docs, DocRows, Doc
<1>5. \A t \in FetchedDocs(rows) : t \in Docs(rows) /\ m(t) # <<>>
  BY DEF FetchedDocs, Usable
<1>6. \A t \in FetchedDocs(rows) : BestSum(query, m(t), docOf(t).score)
  <2>1. TAKE t \in FetchedDocs(rows)
  <2>2. m(t) \in Seq(Int) /\ m(t) # <<>>
    BY <1>4, <1>5, MatchingIs
  <2>3. query \in [DOMAIN Query -> Int] /\ query # <<>>
    BY QueryIs
  <2>4. docOf(t).score = MaxSim(query, m(t))
    OBVIOUS
  <2>. HIDE DEF m, query, docOf
  <2>. QED  BY <2>2, <2>3, <2>4, MaxSimIs
<1>7. \A a \in docAnswer'.docs : \E t \in Docs(rows) :
        Value(rows[t], col) = a.id /\ BestSum(query, m(t), a.score)
  BY <1>3, <1>5, <1>6
<1>8. \A a, b \in docAnswer'.docs : a.id = b.id => a = b
  <2>1. TAKE a, b \in docAnswer'.docs
  <2>2. PICK t \in FetchedDocs(rows) : a = docOf(t)
    BY <1>3
  <2>3. PICK u \in FetchedDocs(rows) : b = docOf(u)
    BY <1>3
  <2>4. HAVE a.id = b.id
  <2>5. Value(rows[t], col) = Value(rows[u], col)
    BY <2>2, <2>3, <2>4
  <2>6. rows[t] \in Doc /\ rows[u] \in Doc /\ t \in Docs(rows) /\ u \in Docs(rows)
    BY <1>4, <1>5
  <2>7. rows[t].id = rows[u].id
    <3>. HIDE DEF rows, col
    <3>. QED  BY <2>5, <2>6, ValueDiffers
  <2>8. t = u
    BY <1>1, <2>6, <2>7 DEF UniqueIds
  <2>. QED  BY <2>2, <2>3, <2>8
<1>9. AnswerRight(docAnswer', documents'.rows)
  BY <1>2, <1>7, <1>8 DEF AnswerRight
<1>. QED  BY <1>1, <1>2, <1>9, RightIs DEF DocInv

\* A row takes the place of another with its id, or has an id no other has.
LEMMA RowsStep ==
  ASSUME DocInv,
         \/ \E t \in Tid, i \in DocId, a \in Arrays : InsertDoc(t, [id |-> i, toks |-> a])
         \/ \E t \in Tid : DeleteDoc(t)
  PROVE  DocInv'
<1>1. documents \in DocTable /\ UniqueIds(documents.rows) /\ documents.rows \in DocRows
  BY DEF DocInv, DocTable
<1>2. ASSUME NEW t \in Tid, NEW row \in Doc, InsertDoc(t, row) PROVE DocInv'
  <2>. DEFINE rows == [documents.rows EXCEPT ![t] = row]
  <2>1. UniqueIds(rows) /\ documents' = [documents EXCEPT !.rows = rows] /\ docAnswer' = NoDocAnswer
    BY <1>2 DEF InsertDoc, TableChanged
  <2>2. rows \in DocRows
    BY <1>1 DEF DocRows
  <2>. HIDE DEF rows
  <2>3. documents' \in DocTable /\ documents'.rows = rows
    BY <1>1, <2>1, <2>2 DEF DocTable
  <2>4. AnswersAreCurrentDocs'
    BY <2>1 DEF AnswersAreCurrentDocs, NoDocAnswer
  <2>. QED  BY <2>1, <2>3, <2>4 DEF DocInv
<1>3. ASSUME NEW t \in Tid, DeleteDoc(t) PROVE DocInv'
  <2>. DEFINE rows == [documents.rows EXCEPT ![t] = NoDoc]
  <2>1. /\ documents' = [documents EXCEPT !.rows = rows, !.dead = Freed(t), !.churned = TRUE]
        /\ docAnswer' = NoDocAnswer
    BY <1>3 DEF DeleteDoc, TableChanged
  <2>2. rows \in DocRows
    BY <1>1 DEF DocRows
  <2>3. UniqueIds(rows)
    BY <1>1, <2>2 DEF UniqueIds, Docs, DocRows
  <2>. HIDE DEF rows
  <2>4. Freed(t) \in SUBSET Tid
    BY <1>1 DEF DocTable, Freed
  <2>5. documents' \in DocTable /\ documents'.rows = rows
    <3>1. PICK dead \in SUBSET Tid : dead = Freed(t)
      BY <2>4
    <3>2. documents' = [documents EXCEPT !.rows = rows, !.dead = dead, !.churned = TRUE]
      BY <2>1, <3>1
    <3>. QED  BY <1>1, <2>2, <3>2 DEF DocTable
  <2>6. AnswersAreCurrentDocs'
    BY <2>1 DEF AnswersAreCurrentDocs, NoDocAnswer
  <2>. QED  BY <2>3, <2>5, <2>6 DEF DocInv
<1>4. \A i \in DocId, a \in Arrays : [id |-> i, toks |-> a] \in Doc
  BY DEF Doc
<1>. QED  BY <1>2, <1>3, <1>4

LEMMA MovedStep ==
  ASSUME DocInv, NEW t \in Tid, NEW u \in Tid, NEW row \in Doc, Moved(t, u, row),
         row.id = documents.rows[t].id
  PROVE  DocInv'
<1>1. documents \in DocTable /\ UniqueIds(documents.rows) /\ documents.rows \in DocRows
  BY DEF DocInv, DocTable
<1>. DEFINE rows == [[documents.rows EXCEPT ![t] = NoDoc] EXCEPT ![u] = row]
            churned == documents.churned \/ row # documents.rows[t]
<1>2. /\ t \in Docs(documents.rows) /\ u \notin Docs(documents.rows)
      /\ documents' = [documents EXCEPT !.rows = rows, !.dead = Freed(t), !.churned = churned]
      /\ docAnswer' = NoDocAnswer
  BY DEF Moved, TableChanged
<1>3. rows \in DocRows
  BY <1>1 DEF DocRows
<1>4. \A s \in Docs(rows) : IF s = u THEN rows[s] = row
                            ELSE s # t /\ s \in Docs(documents.rows) /\ rows[s] = documents.rows[s]
  BY <1>1 DEF Docs, DocRows
<1>5. UniqueIds(rows)
  <2>. HIDE DEF rows
  <2>. QED  BY <1>1, <1>2, <1>4 DEF UniqueIds
<1>6. documents' \in DocTable /\ documents'.rows = rows
  <2>1. PICK dead \in SUBSET Tid : dead = Freed(t)
    BY <1>1 DEF DocTable, Freed
  <2>2. PICK c \in BOOLEAN : c = churned
    BY <1>1 DEF DocTable
  <2>. HIDE DEF rows, churned
  <2>3. documents' = [documents EXCEPT !.rows = rows, !.dead = dead, !.churned = c]
    BY <1>2, <2>1, <2>2
  <2>. QED  BY <1>1, <1>3, <2>3 DEF DocTable
<1>7. AnswersAreCurrentDocs'
  BY <1>2 DEF AnswersAreCurrentDocs, NoDocAnswer
<1>. QED  BY <1>5, <1>6, <1>7 DEF DocInv

LEMMA UpdateStep ==
  ASSUME DocInv, NEW t \in Tid, NEW u \in Tid,
         HotUpdate(t, u) \/ \E toks \in Arrays : UpdateDoc(t, u, toks)
  PROVE  DocInv'
<1>1. documents.rows \in DocRows
  BY DEF DocInv, DocTable
<1>2. t \in Docs(documents.rows)
  BY DEF HotUpdate, UpdateDoc, Moved
<1>3. documents.rows[t] \in Doc
  BY <1>1, <1>2 DEF Docs, DocRows
<1>4. CASE HotUpdate(t, u)
  BY <1>3, <1>4, MovedStep DEF HotUpdate
<1>5. ASSUME NEW toks \in Arrays, UpdateDoc(t, u, toks) PROVE DocInv'
  <2>. DEFINE row == [documents.rows[t] EXCEPT !.toks = toks]
  <2>1. row \in Doc /\ row.id = documents.rows[t].id
    BY <1>3 DEF Doc
  <2>2. Moved(t, u, row)
    BY <1>5 DEF UpdateDoc
  <2>. HIDE DEF row
  <2>. QED  BY <2>1, <2>2, MovedStep
<1>. QED  BY <1>4, <1>5

\* The other steps return nothing, and leave the rows, or all of them go.
LEMMA OtherDocStep ==
  ASSUME DocInv, docAnswer' = NoDocAnswer,
         \/ UNCHANGED documents
         \/ documents' = [documents EXCEPT !.dead = {}]
         \/ documents' = [node |-> 2, rows |-> NoDocs, dead |-> {}, churned |-> FALSE]
  PROVE  DocInv'
<1>1. documents \in DocTable /\ UniqueIds(documents.rows)
  BY DEF DocInv
<1>2. NoDocs \in DocRows /\ UniqueIds(NoDocs)
  BY DEF NoDocs, DocRows, UniqueIds, Docs
<1>3. documents' \in DocTable /\ (documents'.rows = documents.rows \/ documents'.rows = NoDocs)
  <2>1. CASE UNCHANGED documents
    BY <1>1, <2>1
  <2>2. CASE documents' = [documents EXCEPT !.dead = {}]
    BY <1>1, <2>2 DEF DocTable
  <2>3. CASE documents' = [node |-> 2, rows |-> NoDocs, dead |-> {}, churned |-> FALSE]
    BY <1>2, <2>3 DEF DocTable
  <2>. QED  BY <2>1, <2>2, <2>3
<1>4. AnswersAreCurrentDocs'
  BY DEF AnswersAreCurrentDocs, NoDocAnswer
<1>. QED  BY <1>1, <1>2, <1>3, <1>4 DEF DocInv

LEMMA ColbertStep ==
  ASSUME DocInv, [ColbertNext]_docVars
  PROVE  DocInv'
<1>1. CASE UNCHANGED docVars
  <2>1. documents' = documents /\ docAnswer' = docAnswer
    BY <1>1 DEF docVars
  <2>. QED  BY <2>1, RightIs DEF DocInv
<1>2. CASE Vacuum \/ DropIndex
  BY <1>2, OtherDocStep DEF Vacuum, DropIndex
<1>3. CASE Truncate
  BY <1>3, OtherDocStep DEF Truncate
<1>4. CASE EvictDocs \/ SearchElsewhere
  BY <1>4, OtherDocStep DEF EvictDocs, SearchElsewhere
<1>5. ASSUME NEW s \in Settings, CreateIndex(s.norm) \/ StageOneByIndex(s) \/ StageOneByCache(s)
      PROVE  DocInv'
  BY <1>5, OtherDocStep DEF CreateIndex, StageOneByIndex, StageOneByCache
<1>. QED  BY <1>1, <1>2, <1>3, <1>4, <1>5, RowsStep, UpdateStep, StageTwoRight DEF ColbertNext

LEMMA ColbertStart ==
  ASSUME ColbertInit
  PROVE  DocInv
<1>1. NoDocs \in DocRows /\ UniqueIds(NoDocs)
  BY DEF NoDocs, DocRows, UniqueIds, Docs
<1>2. documents \in DocTable /\ documents.rows = NoDocs
  BY <1>1 DEF ColbertInit, DocTable
<1>. QED  BY <1>1, <1>2, NoDocAnswerYet DEF ColbertInit, DocInv

\* turbovec.colbert_search() answers with documents of the table, by their ids,
\* none twice and each with the sum of its best similarities, whichever index
\* the candidates are from and whatever became of the table since it was built
\* and between the stages.  (Stage 2 of colbert_search.)
THEOREM ColbertRight == ColbertSpec => []AnswersAreCurrentDocs
<1>1. DocInv => AnswersAreCurrentDocs
  BY DEF DocInv
<1>. QED  BY <1>1, ColbertStart, ColbertStep, PTL DEF ColbertSpec

-----------------------------------------------------------------------------
(* The aggregates.                                                         *)

\* The sums of those w[1] .. w[k] whose positions are in S, for each k.
Sums(w, n, S) ==
  {f \in [0 .. n -> Int] : /\ f[0] = 0
                           /\ \A k \in 1 .. n : f[k] = f[k - 1] + IF k \in S THEN w[k] ELSE 0}

\* The sum of the numbers of w at the positions in S.
PartSum(w, n, S) == (CHOOSE f \in Sums(w, n, S) : TRUE)[n]

LEMMA SumsExist ==
  ASSUME NEW n \in Nat, NEW w \in [1 .. n -> Int], NEW S
  PROVE  Sums(w, n, S) # {}
<1>. DEFINE step == [p \in Int \X Nat |-> p[1] + IF p[2] \in S /\ p[2] \in 1 .. n THEN w[p[2]] ELSE 0]
<1>1. step \in StepOf(Int)
  <2>1. ASSUME NEW x \in Int, NEW k \in Nat
        PROVE  x + (IF k \in S /\ k \in 1 .. n THEN w[k] ELSE 0) \in Int
    <3>1. CASE k \in S /\ k \in 1 .. n
      <4>1. w[k] \in Int
        BY <3>1
      <4>. QED  BY <3>1, <4>1
    <3>2. CASE ~ (k \in S /\ k \in 1 .. n)
      BY <3>2
    <3>. QED  BY <3>1, <3>2
  <2>. QED  BY <2>1 DEF StepOf
<1>2. \A x \in Int, k \in 1 .. n : step[<<x, k>>] = x + IF k \in S THEN w[k] ELSE 0
  <2>1. TAKE x \in Int, k \in 1 .. n
  <2>2. <<x, k>> \in Int \X Nat
    OBVIOUS
  <2>. QED  BY <2>2
<1>. HIDE DEF step
<1>3. Recursions(Int, 0, step, n) # {}
  <2>1. 0 \in Int
    OBVIOUS
  <2>2. \A X, base, s : base \in X /\ s \in StepOf(X) => Recursions(X, base, s, n) # {}
    BY Recursion, Zenon
  <2>. QED  BY <1>1, <2>1, <2>2, Zenon
<1>4. PICK f \in [0 .. n -> Int] : f[0] = 0 /\ \A k \in 1 .. n : f[k] = step[<<f[k - 1], k>>]
  BY <1>3 DEF Recursions
<1>5. \A k \in 1 .. n : f[k - 1] \in Int
  <2>1. \A k \in 1 .. n : k - 1 \in 0 .. n
    OBVIOUS
  <2>. QED  BY <1>4, <2>1
<1>6. \A k \in 1 .. n : f[k] = f[k - 1] + IF k \in S THEN w[k] ELSE 0
  BY <1>2, <1>4, <1>5
<1>. QED  BY <1>4, <1>6 DEF Sums

LEMMA SumsAgree ==
  ASSUME NEW n \in Nat, NEW w, NEW S, NEW f \in Sums(w, n, S), NEW g \in Sums(w, n, S)
  PROVE  f[n] = g[n]
<1>. DEFINE Same == {k \in Nat : k <= n => f[k] = g[k]}
<1>1. 0 \in Same
  BY DEF Sums
<1>2. ASSUME NEW k \in Nat, k \in Same PROVE k + 1 \in Same
  <2>1. SUFFICES ASSUME k + 1 <= n PROVE f[k + 1] = g[k + 1]
    OBVIOUS
  <2>2. k + 1 \in 1 .. n /\ (k + 1) - 1 = k /\ k <= n
    BY <2>1
  <2>3. f[k] = g[k]
    BY <1>2, <2>2
  <2>. QED  BY <2>2, <2>3 DEF Sums
<1>3. n \in Same
  <2>. HIDE DEF Same
  <2>. QED  BY <1>1, <1>2, SetInduction
<1>. QED  BY <1>3

LEMMA PartSumIs ==
  ASSUME NEW n \in Nat, NEW w, NEW S, NEW f \in Sums(w, n, S)
  PROVE  PartSum(w, n, S) = f[n] /\ PartSum(w, n, S) \in Int
<1>. DEFINE g == CHOOSE h \in Sums(w, n, S) : TRUE
<1>1. g \in Sums(w, n, S)
  OBVIOUS
<1>. HIDE DEF g
<1>2. g[n] = f[n]
  BY <1>1, SumsAgree
<1>3. f[n] \in Int
  BY DEF Sums
<1>. QED  BY <1>2, <1>3 DEF PartSum, g

LEMMA PartSumInt ==
  ASSUME NEW n \in Nat, NEW w \in [1 .. n -> Int], NEW S
  PROVE  PartSum(w, n, S) \in Int
<1>1. PICK f \in Sums(w, n, S) : TRUE
  BY SumsExist
<1>. QED  BY <1>1, PartSumIs

\* Of none it is 0, of one that one, of two parts the sum of both.
LEMMA PartSumNone ==
  ASSUME NEW n \in Nat, NEW w
  PROVE  PartSum(w, n, {}) = 0
<1>1. [k \in 0 .. n |-> 0] \in Sums(w, n, {})
  BY DEF Sums
<1>. QED  BY <1>1, PartSumIs

LEMMA PartSumOne ==
  ASSUME NEW n \in Nat, NEW w \in [1 .. n -> Int], NEW i \in 1 .. n
  PROVE  PartSum(w, n, {i}) = w[i]
<1>. DEFINE f == [k \in 0 .. n |-> IF k < i THEN 0 ELSE w[i]]
<1>1. f \in Sums(w, n, {i})
  <2>1. f \in [0 .. n -> Int] /\ f[0] = 0
    OBVIOUS
  <2>2. \A k \in 1 .. n : f[k] = f[k - 1] + IF k \in {i} THEN w[k] ELSE 0
    <3>1. TAKE k \in 1 .. n
    <3>2. k \in 0 .. n /\ k - 1 \in 0 .. n /\ w[i] \in Int
      OBVIOUS
    <3>. QED  BY <3>2
  <2>. HIDE DEF f
  <2>. QED  BY <2>1, <2>2 DEF Sums
<1>2. f[n] = w[i]
  OBVIOUS
<1>. HIDE DEF f
<1>. QED  BY <1>1, <1>2, PartSumIs

LEMMA PartSumBoth ==
  ASSUME NEW n \in Nat, NEW w \in [1 .. n -> Int], NEW S, NEW T, S \cap T = {}
  PROVE  PartSum(w, n, S \cup T) = PartSum(w, n, S) + PartSum(w, n, T)
<1>1. PICK f \in Sums(w, n, S) : TRUE
  BY SumsExist
<1>2. PICK g \in Sums(w, n, T) : TRUE
  BY SumsExist
<1>. DEFINE h == [k \in 0 .. n |-> f[k] + g[k]]
<1>3. f \in [0 .. n -> Int] /\ g \in [0 .. n -> Int]
  BY DEF Sums
<1>4. h \in Sums(w, n, S \cup T)
  <2>1. h \in [0 .. n -> Int] /\ h[0] = 0
    BY <1>1, <1>2, <1>3 DEF Sums
  <2>2. \A k \in 1 .. n : h[k] = h[k - 1] + IF k \in S \cup T THEN w[k] ELSE 0
    <3>1. TAKE k \in 1 .. n
    <3>2. k \in 0 .. n /\ k - 1 \in 0 .. n /\ w[k] \in Int
      OBVIOUS
    <3>3. h[k] = f[k] + g[k] /\ h[k - 1] = f[k - 1] + g[k - 1]
      BY <3>2
    <3>4. f[k - 1] \in Int /\ g[k - 1] \in Int
      BY <1>3, <3>2
    <3>5. /\ f[k] = f[k - 1] + IF k \in S THEN w[k] ELSE 0
          /\ g[k] = g[k - 1] + IF k \in T THEN w[k] ELSE 0
      BY DEF Sums
    <3>. HIDE DEF h
    <3>. QED  BY <3>2, <3>3, <3>4, <3>5
  <2>. HIDE DEF h
  <2>. QED  BY <2>1, <2>2 DEF Sums
<1>5. h[n] = f[n] + g[n]
  OBVIOUS
<1>. HIDE DEF h
<1>. QED  BY <1>4, <1>5, PartSumIs

\* Coordinate c of each row.
Column(rows, c) == [i \in 1 .. Len(rows) |-> IF c \in DOMAIN rows[i] THEN rows[i][c] ELSE 0]

LEMMA ColumnIs ==
  ASSUME NEW rows \in Seq(Row), NEW c
  PROVE  Column(rows, c) \in [1 .. Len(rows) -> Int] /\ Len(rows) \in Nat
<1>1. \A i \in 1 .. Len(rows) : rows[i] \in Seq(Int)
  BY AggAssumption
<1>. QED  BY <1>1 DEF Column

LEMMA ColumnSumIs ==
  ASSUME NEW rows \in Seq(Row), NEW c, \A i \in DOMAIN rows : c \in DOMAIN rows[i]
  PROVE  ColumnSum(rows, c) = PartSum(Column(rows, c), Len(rows), 1 .. Len(rows))
<1>. DEFINE n == Len(rows)
            w == Column(rows, c)
            F(h) == [k \in 0 .. n |-> IF k = 0 THEN 0 ELSE h[k - 1] + rows[k][c]]
            g == CHOOSE h : h = F(h)
<1>1. n \in Nat /\ DOMAIN rows = 1 .. n /\ w \in [1 .. n -> Int]
  BY ColumnIs
<1>2. \A k \in 1 .. n : w[k] = rows[k][c]
  BY <1>1 DEF Column
<1>3. PICK f \in Sums(w, n, 1 .. n) : TRUE
  <2>. HIDE DEF w, n
  <2>. QED  BY <1>1, SumsExist
<1>4. f \in [0 .. n -> Int] /\ f[0] = 0 /\ \A k \in 1 .. n : f[k] = f[k - 1] + rows[k][c]
  <2>. HIDE DEF w, n
  <2>. QED  BY <1>2, <1>3 DEF Sums
<1>5. f = F(f)
  <2>. HIDE DEF n
  <2>1. \A k \in 0 .. n : k # 0 => k \in 1 .. n
    BY <1>1
  <2>2. \A k \in 0 .. n : f[k] = IF k = 0 THEN 0 ELSE f[k - 1] + rows[k][c]
    BY <1>4, <2>1
  <2>. QED  BY <1>4, <2>2
<1>6. g = F(g)
  <2>. HIDE DEF F
  <2>. QED  BY <1>5
<1>7. ColumnSum(rows, c) = g[n]
  BY DEF ColumnSum
<1>. HIDE DEF g
<1>8. \A k \in 0 .. n : g[k] = IF k = 0 THEN 0 ELSE g[k - 1] + rows[k][c]
  BY <1>6
<1>. DEFINE Same == {k \in Nat : k <= n => g[k] = f[k]}
<1>. HIDE DEF n, w
<1>9. 0 \in Same
  BY <1>1, <1>4, <1>8
<1>10. ASSUME NEW k \in Nat, k \in Same PROVE k + 1 \in Same
  <2>1. SUFFICES ASSUME k + 1 <= n PROVE g[k + 1] = f[k + 1]
    OBVIOUS
  <2>2. k + 1 \in 1 .. n /\ k + 1 \in 0 .. n /\ (k + 1) - 1 = k /\ k <= n /\ k + 1 # 0
    BY <1>1, <2>1
  <2>3. g[k] = f[k]
    BY <1>10, <2>2
  <2>. QED  BY <1>4, <1>8, <2>2, <2>3
<1>11. n \in Same
  <2>. HIDE DEF Same
  <2>. QED  BY <1>1, <1>9, <1>10, SetInduction
<1>12. g[n] = f[n]
  BY <1>1, <1>11
<1>13. PartSum(w, n, 1 .. n) = f[n]
  BY <1>1, <1>3, PartSumIs
<1>. QED  BY <1>7, <1>12, <1>13 DEF n, w

\* The state of the rows at the positions in S.
StateOf(rows, S, s) ==
  /\ S \subseteq 1 .. Len(rows)
  /\ S = {} => s = NoState
  /\ S # {} =>
       \E d \in 1 .. MaxDim :
         /\ \A i \in S : Len(rows[i]) = d
         /\ s = [sum |-> [c \in 1 .. d |-> PartSum(Column(rows, c), Len(rows), S)],
                 count |-> Cardinality(S)]

LEMMA StateIs ==
  ASSUME NEW rows \in Seq(Row), NEW S, NEW s, StateOf(rows, S, s)
  PROVE  /\ s.count \in Nat /\ s.count = Cardinality(S) /\ IsFiniteSet(S)
         /\ s.count = 0 <=> S = {}
         /\ s.sum = <<>> <=> S = {}
         /\ \A i \in S : Len(rows[i]) = Len(s.sum)
<1>1. Len(rows) \in Nat /\ IsFiniteSet(1 .. Len(rows))
  <2>1. Len(rows) \in Nat
    OBVIOUS
  <2>. QED  BY <2>1, FS_Interval
<1>2. IsFiniteSet(S) /\ Cardinality(S) \in Nat /\ (Cardinality(S) = 0 <=> S = {})
  BY <1>1, FS_Subset, FS_CardinalityType, FS_EmptySet DEF StateOf
<1>3. CASE S = {}
  BY <1>2, <1>3 DEF StateOf, NoState
<1>4. CASE S # {}
  <2>1. PICK d \in 1 .. MaxDim :
          /\ \A i \in S : Len(rows[i]) = d
          /\ s = [sum |-> [c \in 1 .. d |-> PartSum(Column(rows, c), Len(rows), S)],
                  count |-> Cardinality(S)]
    BY <1>4, Zenon DEF StateOf
  <2>2. MaxDim \in Nat /\ d \in Nat /\ 1 <= d
    BY AggAssumption
  <2>3. s.count = Cardinality(S) /\ s.sum = [c \in 1 .. d |-> PartSum(Column(rows, c), Len(rows), S)]
    BY <2>1
  <2>4. Len(s.sum) = d /\ s.sum # <<>>
    BY <2>2, <2>3
  <2>. QED  BY <1>2, <1>4, <2>1, <2>3, <2>4
<1>. QED  BY <1>3, <1>4

\* vec_accum of the next row, and the other two, by coordinates.
LEMMA AccumulatedIs ==
  ASSUME NEW type \in Type, NEW sum \in Seq(Int), NEW n, NEW v \in Seq(Int), v # <<>>,
         sum = <<>> \/ Len(sum) = Len(v)
  PROVE  Accumulated(type, [sum |-> sum, count |-> n], v) =
           [sum |-> [c \in 1 .. Len(v) |-> (IF sum = <<>> THEN 0 ELSE sum[c]) + v[c]],
            count |-> n + 1]
<1>. DEFINE s == [sum |-> sum, count |-> n]
            base == IF sum = <<>> THEN Zeros(Len(v)) ELSE sum
            want == [c \in 1 .. Len(v) |-> (IF sum = <<>> THEN 0 ELSE sum[c]) + v[c]]
            sparse == [i \in DOMAIN base |-> IF i \in {k \in DOMAIN v : v[k] # 0}
                                            THEN base[i] + v[i] ELSE base[i]]
<1>1. s.sum = sum /\ s.count = n
  OBVIOUS
<1>2. /\ DOMAIN base = 1 .. Len(v) /\ DOMAIN v = 1 .. Len(v)
      /\ \A c \in 1 .. Len(v) : base[c] = (IF sum = <<>> THEN 0 ELSE sum[c]) /\ base[c] \in Int /\ v[c] \in Int
  BY DEF Zeros
<1>. HIDE DEF s, base
<1>3. Added(base, v) = want
  BY <1>2 DEF Added
<1>4. vec_accum(s, v) = [sum |-> want, count |-> n + 1]
  BY <1>1, <1>3, Zenon DEF vec_accum, base
<1>5. sparse = want
  BY <1>2
<1>6. sparsevec_accum(s, v) = [sum |-> want, count |-> n + 1]
  BY <1>1, <1>5, Zenon DEF sparsevec_accum, base
<1>. HIDE DEF want, sparse
<1>7. Accumulated(type, s, v) = [sum |-> want, count |-> n + 1]
  <2>1. CASE type = "vector"
    BY <1>4, <2>1 DEF Accumulated
  <2>2. CASE type = "halfvec"
    BY <1>4, <2>2 DEF Accumulated, halfvec_accum
  <2>3. CASE type = "sparsevec"
    BY <1>6, <2>3 DEF Accumulated
  <2>. QED  BY <2>1, <2>2, <2>3 DEF Type
<1>. QED  BY <1>7 DEF s, want

\* A state takes the next row if it is of its dimension; else the rows are refused.
LEMMA AccumulateIs ==
  ASSUME NEW type \in Type, NEW rows \in Seq(Row), NEW S, NEW s, StateOf(rows, S, s),
         NEW i \in 1 .. Len(rows), i \notin S
  PROVE  /\ DimFits(s, Len(rows[i])) => StateOf(rows, S \cup {i}, Accumulated(type, s, rows[i]))
         /\ ~ DimFits(s, Len(rows[i])) => Refused(rows)
<1>. DEFINE v == rows[i]
            T == S \cup {i}
            part(c, R) == PartSum(Column(rows, c), Len(rows), R)
<1>1. /\ v \in Seq(Int) /\ v # <<>> /\ Len(v) \in Nat /\ Len(v) # 0
      /\ Len(rows) \in Nat /\ DOMAIN rows = 1 .. Len(rows) /\ MaxDim \in Nat
  <2>1. v \in Row
    OBVIOUS
  <2>. QED  BY <2>1, AggAssumption
<1>2. S \subseteq 1 .. Len(rows) /\ IsFiniteSet(S) /\ s.count = Cardinality(S) /\ s.count \in Nat
  <2>1. S \subseteq 1 .. Len(rows)
    BY Zenon DEF StateOf
  <2>. QED  BY <2>1, StateIs
<1>3. Cardinality(T) = Cardinality(S) + 1 /\ T \subseteq 1 .. Len(rows) /\ T # {}
  BY <1>2, FS_AddElement
<1>4. \A c \in 1 .. Len(v) : part(c, {i}) = v[c] /\ part(c, S) \in Int /\ part(c, T) = part(c, S) + v[c]
  <2>1. TAKE c \in 1 .. Len(v)
  <2>2. Column(rows, c) \in [1 .. Len(rows) -> Int]
    BY ColumnIs
  <2>3. part(c, {i}) = Column(rows, c)[i]
    BY <1>1, <2>2, PartSumOne
  <2>4. Column(rows, c)[i] = v[c]
    BY <1>1 DEF Column
  <2>5. part(c, T) = part(c, S) + part(c, {i})
    <3>. DEFINE one == {i}
    <3>1. S \cap one = {}
      OBVIOUS
    <3>2. PICK w \in [1 .. Len(rows) -> Int] : w = Column(rows, c)
      BY <2>2
    <3>3. Len(rows) \in Nat
      OBVIOUS
    <3>4. PICK n \in Nat : n = Len(rows)
      BY <3>3, Zenon
    <3>5. w \in [1 .. n -> Int]
      BY <3>4
    <3>. HIDE DEF one
    <3>6. PartSum(w, n, S \cup one) = PartSum(w, n, S) + PartSum(w, n, one)
      BY <3>1, <3>5, PartSumBoth
    <3>. USE DEF one
    <3>. QED  BY <3>2, <3>4, <3>6
  <2>6. part(c, S) \in Int
    BY <1>1, <2>2, PartSumInt
  <2>. QED  BY <2>3, <2>4, <2>5, <2>6
<1>5. ASSUME NEW sum \in Seq(Int), s = [sum |-> sum, count |-> s.count],
             sum = <<>> \/ Len(sum) = Len(v),
             \A c \in 1 .. Len(v) : (IF sum = <<>> THEN 0 ELSE sum[c]) = part(c, S),
             \A j \in S : Len(rows[j]) = Len(v), Len(v) <= MaxDim
      PROVE  StateOf(rows, T, Accumulated(type, s, v))
  <2>. DEFINE new == [c \in 1 .. Len(v) |-> (IF sum = <<>> THEN 0 ELSE sum[c]) + v[c]]
  <2>. HIDE DEF v
  <2>1. Accumulated(type, [sum |-> sum, count |-> s.count], v) = [sum |-> new, count |-> s.count + 1]
    BY <1>1, <1>5, AccumulatedIs
  <2>2. new = [c \in 1 .. Len(v) |-> part(c, T)]
    <3>1. \A c \in 1 .. Len(v) : (IF sum = <<>> THEN 0 ELSE sum[c]) + v[c] = part(c, T)
      BY <1>4, <1>5
    <3>. HIDE DEF part
    <3>. QED  BY <3>1
  <2>. HIDE DEF new, part
  <2>3. Accumulated(type, s, v) = [sum |-> [c \in 1 .. Len(v) |-> part(c, T)], count |-> Cardinality(T)]
    BY <1>2, <1>3, <1>5, <2>1, <2>2
  <2>4. \A j \in T : Len(rows[j]) = Len(v)
    BY <1>5 DEF v
  <2>5. Len(v) \in 1 .. MaxDim
    BY <1>1, <1>5
  <2>. HIDE DEF T
  <2>. QED  BY <1>3, <2>3, <2>4, <2>5, Zenon DEF StateOf, part
<1>6. CASE S = {}
  <2>1. s = NoState /\ s.sum = <<>> /\ s.count = 0
    BY <1>6 DEF StateOf, NoState
  <2>2. ~ DimFits(s, Len(v)) => Len(v) > MaxDim
    BY <1>1, <2>1 DEF DimFits
  <2>3. ~ DimFits(s, Len(v)) => Refused(rows)
    BY <1>1, <2>2 DEF Refused
  <2>4. DimFits(s, Len(v)) => StateOf(rows, T, Accumulated(type, s, v))
    <3>1. HAVE DimFits(s, Len(v))
    <3>2. Len(v) <= MaxDim
      BY <2>1, <3>1 DEF DimFits
    <3>3. \A c \in 1 .. Len(v) : part(c, S) = 0
      BY <1>1, <1>6, PartSumNone
    <3>4. s = [sum |-> <<>>, count |-> s.count] /\ <<>> \in Seq(Int)
      BY <2>1 DEF NoState
    <3>. HIDE DEF v, T, part
    <3>. QED  BY <1>5, <1>6, <3>2, <3>3, <3>4
  <2>. QED  BY <2>3, <2>4
<1>7. CASE S # {}
  <2>1. PICK d \in 1 .. MaxDim :
          /\ \A j \in S : Len(rows[j]) = d
          /\ s = [sum |-> [c \in 1 .. d |-> part(c, S)], count |-> Cardinality(S)]
    BY <1>7, Zenon DEF StateOf
  <2>. DEFINE sum == [c \in 1 .. d |-> part(c, S)]
  <2>2. d \in Nat /\ d # 0 /\ d <= MaxDim
    BY <1>1
  <2>3. s.sum = sum /\ Len(sum) = d /\ sum # <<>> /\ DOMAIN sum = 1 .. d
    BY <2>1, <2>2
  <2>4. DimFits(s, Len(v)) <=> d = Len(v)
    BY <2>3 DEF DimFits
  <2>5. PICK j \in S : TRUE
    BY <1>7
  <2>6. ~ DimFits(s, Len(v)) => Refused(rows)
    BY <1>1, <1>2, <2>1, <2>4, <2>5 DEF Refused
  <2>7. DimFits(s, Len(v)) => StateOf(rows, T, Accumulated(type, s, v))
    <3>1. HAVE DimFits(s, Len(v))
    <3>2. d = Len(v)
      BY <2>4, <3>1
    <3>3. sum \in Seq(Int)
      <4>1. \A c \in 1 .. d : part(c, S) \in Int
        BY <1>4, <3>2
      <4>. HIDE DEF part
      <4>. QED  BY <2>2, <4>1
    <3>4. s = [sum |-> sum, count |-> s.count] /\ \A c \in 1 .. Len(v) : sum[c] = part(c, S)
      BY <1>2, <2>1, <3>2
    <3>. HIDE DEF v, T, part, sum
    <3>. QED  BY <1>5, <2>1, <2>2, <2>3, <3>2, <3>3, <3>4
  <2>. QED  BY <2>6, <2>7
<1>. QED  BY <1>6, <1>7

\* Two states are merged if they are of one dimension; else the rows are refused.
LEMMA CombinedIs ==
  ASSUME NEW type \in Type, NEW rows \in Seq(Row), NEW S, NEW a, StateOf(rows, S, a),
         NEW T, NEW b, StateOf(rows, T, b), S \cap T = {}
  PROVE  /\ Combines(a, b) => StateOf(rows, S \cup T, Combined(type, a, b))
         /\ ~ Combines(a, b) => Refused(rows)
<1>. DEFINE part(c, R) == PartSum(Column(rows, c), Len(rows), R)
            U == S \cup T
<1>1. /\ a.count \in Nat /\ a.count = Cardinality(S) /\ IsFiniteSet(S)
      /\ a.count = 0 <=> S = {}
      /\ \A i \in S : Len(rows[i]) = Len(a.sum)
  BY StateIs
<1>2. /\ b.count \in Nat /\ b.count = Cardinality(T) /\ IsFiniteSet(T)
      /\ b.count = 0 <=> T = {}
      /\ \A i \in T : Len(rows[i]) = Len(b.sum)
  BY StateIs
<1>3. Combined(type, a, b) = vec_combine(a, b)
  <2>1. CASE type = "vector"
    BY <2>1 DEF Combined
  <2>2. CASE type = "halfvec"
    BY <2>2 DEF Combined, halfvec_combine
  <2>3. CASE type = "sparsevec"
    BY <2>3 DEF Combined, sparsevec_combine
  <2>. QED  BY <2>1, <2>2, <2>3 DEF Type
<1>4. CASE S = {}
  <2>1. Combined(type, a, b) = b /\ S \cup T = T /\ Combines(a, b)
    BY <1>1, <1>3, <1>4 DEF vec_combine, Combines
  <2>. QED  BY <2>1
<1>5. CASE S # {} /\ T = {}
  <2>1. Combined(type, a, b) = a /\ S \cup T = S /\ Combines(a, b)
    BY <1>1, <1>2, <1>3, <1>5 DEF vec_combine, Combines
  <2>. QED  BY <2>1
<1>6. CASE S # {} /\ T # {}
  <2>1. PICK d \in 1 .. MaxDim :
          /\ \A i \in S : Len(rows[i]) = d
          /\ a = [sum |-> [c \in 1 .. d |-> part(c, S)], count |-> Cardinality(S)]
    BY <1>6, Zenon DEF StateOf
  <2>2. PICK e \in 1 .. MaxDim :
          /\ \A i \in T : Len(rows[i]) = e
          /\ b = [sum |-> [c \in 1 .. e |-> part(c, T)], count |-> Cardinality(T)]
    BY <1>6, Zenon DEF StateOf
  <2>3. Combined(type, a, b) = [sum |-> Added(a.sum, b.sum), count |-> a.count + b.count]
    BY <1>1, <1>2, <1>3, <1>6, Zenon DEF vec_combine
  <2>4. d \in Nat /\ e \in Nat
    BY AggAssumption
  <2>5. a.sum = [c \in 1 .. d |-> part(c, S)] /\ b.sum = [c \in 1 .. e |-> part(c, T)]
    BY <2>1, <2>2
  <2>. HIDE DEF part
  <2>6. Len(a.sum) = d /\ Len(b.sum) = e /\ DOMAIN a.sum = 1 .. d
    BY <2>4, <2>5
  <2>7. S \subseteq 1 .. Len(rows) /\ T \subseteq 1 .. Len(rows)
    BY Zenon DEF StateOf
  <2>8. ~ Combines(a, b) => Refused(rows)
    <3>1. HAVE ~ Combines(a, b)
    <3>2. d # e
      BY <2>6, <3>1 DEF Combines
    <3>3. PICK i \in S, j \in T : TRUE
      BY <1>6
    <3>4. i \in DOMAIN rows /\ j \in DOMAIN rows
      BY <2>7
    <3>. QED  BY <2>1, <2>2, <3>2, <3>3, <3>4 DEF Refused
  <2>9. Combines(a, b) => StateOf(rows, U, Combined(type, a, b))
    <3>1. HAVE Combines(a, b)
    <3>2. d = e
      BY <1>1, <1>2, <1>6, <2>6, <3>1 DEF Combines
    <3>3. \A c \in 1 .. d : part(c, S) + part(c, T) = part(c, U)
      <4>1. TAKE c \in 1 .. d
      <4>2. PICK w \in [1 .. Len(rows) -> Int] : w = Column(rows, c)
        BY ColumnIs
      <4>3. Len(rows) \in Nat
        OBVIOUS
      <4>4. PartSum(w, Len(rows), S \cup T) = PartSum(w, Len(rows), S) + PartSum(w, Len(rows), T)
        BY <4>3, PartSumBoth
      <4>. QED  BY <4>2, <4>4 DEF part
    <3>4. Added(a.sum, b.sum) = [c \in 1 .. d |-> part(c, U)]
      <4>1. \A c \in 1 .. d : a.sum[c] + b.sum[c] = part(c, U)
        BY <2>5, <3>2, <3>3
      <4>. HIDE DEF U
      <4>. QED  BY <2>6, <4>1 DEF Added
    <3>5. Cardinality(U) = a.count + b.count
      <4>1. Cardinality(S \cap T) = 0
        BY FS_EmptySet
      <4>2. Cardinality(U) = Cardinality(S) + Cardinality(T) - Cardinality(S \cap T)
        BY <1>1, <1>2, FS_Union
      <4>. HIDE DEF U
      <4>. QED  BY <1>1, <1>2, <4>1, <4>2
    <3>6. Combined(type, a, b) = [sum |-> [c \in 1 .. d |-> part(c, U)], count |-> Cardinality(U)]
      BY <2>3, <3>4, <3>5, Zenon
    <3>7. U \subseteq 1 .. Len(rows) /\ U # {} /\ \A i \in U : Len(rows[i]) = d
      BY <1>6, <2>1, <2>2, <2>7, <3>2
    <3>. HIDE DEF U
    <3>. QED  BY <3>6, <3>7, Zenon DEF StateOf, part
  <2>. QED  BY <2>8, <2>9
<1>. QED  BY <1>4, <1>5, <1>6

\* What a serial plan returns.
Serial ==
  LET rows == agg.rows
      sum  == [c \in DOMAIN rows[1] |-> ColumnSum(rows, c)]
  IN  IF rows = <<>> THEN Null
      ELSE IF Refused(rows) THEN Error
      ELSE IF agg.fn = "avg" THEN [sum |-> sum, count |-> Len(rows)]
      ELSE IF ~ Fits(agg.type, sum) THEN Error
      ELSE [sum |-> sum, count |-> 1]

\* The value of the state of all rows.
LEMMA FinalIs ==
  ASSUME agg.type \in Type, agg.fn \in {"avg", "sum"}, agg.type = "sparsevec" => agg.fn = "sum",
         agg.rows \in Seq(Row), NEW s, StateOf(agg.rows, 1 .. Len(agg.rows), s)
  PROVE  Final(agg.type, agg.fn, s) = Serial
<1>. DEFINE rows == agg.rows
            D == 1 .. Len(rows)
            sum == [c \in DOMAIN rows[1] |-> ColumnSum(rows, c)]
<1>1. Len(rows) \in Nat /\ DOMAIN rows = D /\ (rows = <<>> <=> D = {}) /\ Cardinality(D) = Len(rows)
  <2>1. Len(rows) \in Nat /\ DOMAIN rows = D /\ (rows = <<>> <=> Len(rows) = 0)
    OBVIOUS
  <2>2. PICK n \in Nat : n = Len(rows)
    BY <2>1
  <2>3. Cardinality(1 .. n) = IF 1 > n THEN 0 ELSE n - 1 + 1
    BY FS_Interval
  <2>4. Cardinality(1 .. n) = n /\ (n = 0 <=> 1 .. n = {})
    BY <2>3
  <2>. QED  BY <2>1, <2>2, <2>4
<1>2. CASE rows = <<>>
  <2>1. s = NoState
    BY <1>1, <1>2 DEF StateOf
  <2>. QED  BY <1>2, <2>1 DEF Final, Serial, NoState
<1>3. CASE rows # <<>>
  <2>1. PICK d \in 1 .. MaxDim :
          /\ \A i \in D : Len(rows[i]) = d
          /\ s = [sum |-> [c \in 1 .. d |-> PartSum(Column(rows, c), Len(rows), D)],
                  count |-> Cardinality(D)]
    BY <1>1, <1>3, Zenon DEF StateOf
  <2>2. d \in Nat /\ d <= MaxDim /\ MaxDim \in Nat /\ 1 \in D
    BY <1>1, <1>3, AggAssumption
  <2>3. ~ Refused(rows)
    <3>1. \A i, j \in DOMAIN rows : Len(rows[i]) = Len(rows[j])
      BY <1>1, <2>1
    <3>2. \A i \in DOMAIN rows : ~ (Len(rows[i]) > MaxDim)
      BY <1>1, <2>1, <2>2
    <3>. QED  BY <3>1, <3>2, Zenon DEF Refused
  <2>4. \A i \in D : DOMAIN rows[i] = 1 .. d
    <3>1. TAKE i \in D
    <3>2. rows[i] \in Seq(Int)
      <4>1. rows[i] \in Row
        OBVIOUS
      <4>. QED  BY <4>1, AggAssumption
    <3>3. Len(rows[i]) = d
      BY <2>1
    <3>. HIDE DEF rows
    <3>. QED  BY <3>2, <3>3
  <2>5. \A c \in 1 .. d : ColumnSum(rows, c) = PartSum(Column(rows, c), Len(rows), D)
    BY <1>1, <2>4, ColumnSumIs
  <2>6. \A c \in 1 .. d : PartSum(Column(rows, c), Len(rows), D) \in Int
    BY <1>1, ColumnIs, PartSumInt
  <2>7. sum = [c \in 1 .. d |-> PartSum(Column(rows, c), Len(rows), D)]
    BY <2>2, <2>4, <2>5
  <2>8. s = [sum |-> sum, count |-> Len(rows)] /\ DOMAIN sum = 1 .. d /\ \A c \in 1 .. d : sum[c] \in Int
    BY <1>1, <2>1, <2>6, <2>7
  <2>9. Serial = IF agg.fn = "avg" THEN [sum |-> sum, count |-> Len(rows)]
                 ELSE IF ~ Fits(agg.type, sum) THEN Error
                 ELSE [sum |-> sum, count |-> 1]
    BY <1>3, <2>3, Zenon DEF Serial
  <2>. HIDE DEF sum
  <2>10. s.sum = sum /\ s.count = Len(rows) /\ s.count # 0
    BY <1>1, <1>3, <2>8
  <2>11. CASE agg.fn = "avg" /\ agg.type = "vector"
    BY <2>9, <2>10, <2>11 DEF Final, vec_avg_finalfn
  <2>12. CASE agg.fn = "avg" /\ agg.type = "halfvec"
    BY <2>9, <2>10, <2>12 DEF Final, halfvec_avg_finalfn, vec_avg_finalfn
  <2>13. CASE agg.fn = "sum" /\ agg.type = "vector"
    BY <2>9, <2>10, <2>13 DEF Final, vec_sum_finalfn
  <2>14. CASE agg.fn = "sum" /\ agg.type = "halfvec"
    BY <2>9, <2>10, <2>14 DEF Final, halfvec_sum_finalfn
  <2>15. CASE agg.fn = "sum" /\ agg.type = "sparsevec"
    <3>. DEFINE set == {i \in DOMAIN s.sum : s.sum[i] # 0}
                kept == [i \in DOMAIN s.sum |-> IF i \in set THEN s.sum[i] ELSE 0]
    <3>1. Final(agg.type, agg.fn, s) = sparsevec_sum_finalfn(s)
      BY <2>10, <2>15 DEF Final
    <3>2. kept = sum
      <4>1. \A i \in 1 .. d : (IF i \in set THEN s.sum[i] ELSE 0) = sum[i]
        BY <2>8, <2>10
      <4>2. sum = [i \in 1 .. d |-> sum[i]]
        BY <2>7 DEF sum
      <4>. HIDE DEF set
      <4>. QED  BY <2>8, <2>10, <4>1, <4>2
    <3>3. MaxCoord["sparsevec"] \in Nat
      BY AggAssumption DEF Type
    <3>4. (\E i \in set : Magnitude(s.sum[i]) > MaxCoord["sparsevec"]) <=> ~ Fits("sparsevec", sum)
      <4>1. \A x \in Int : (x = 0 => Magnitude(x) = 0) /\ Magnitude(x) \in Int
        BY DEF Magnitude
      <4>2. PICK most \in Nat : most = MaxCoord["sparsevec"]
        BY <3>3
      <4>3. \A i \in 1 .. d : IF i \in set /\ Magnitude(s.sum[i]) > most THEN ~ (Magnitude(sum[i]) <= most)
                              ELSE Magnitude(sum[i]) <= most
        <5>1. TAKE i \in 1 .. d
        <5>2. PICK x \in Int : x = sum[i]
          BY <2>8
        <5>3. PICK m \in Int : m = Magnitude(x)
          BY <4>1
        <5>4. x = 0 => m = 0
          BY <4>1, <5>3
        <5>5. i \in set <=> x # 0
          BY <2>8, <2>10, <5>2
        <5>6. IF i \in set /\ m > most THEN ~ (m <= most) ELSE m <= most
          BY <5>4, <5>5
        <5>. QED  BY <2>10, <5>2, <5>3, <5>6
      <4>4. \A i \in set : i \in 1 .. d
        BY <2>8, <2>10
      <4>. HIDE DEF set
      <4>. QED  BY <2>8, <4>2, <4>3, <4>4 DEF Fits
    <3>5. sparsevec_sum_finalfn(s) = IF ~ Fits("sparsevec", sum) THEN Error
                                     ELSE [sum |-> sum, count |-> 1]
      BY <3>2, <3>4, Zenon DEF sparsevec_sum_finalfn
    <3>. QED  BY <2>9, <2>15, <3>1, <3>5
  <2>. QED  BY <2>11, <2>12, <2>13, <2>14, <2>15 DEF Type
<1>. QED  BY <1>2, <1>3

\* by says which process took each of the rows scanned so far: the state of a
\* process is that of the rows it took, and that of the leader the one of the
\* rows of the processes it has heard of.
Taken(n, by, P) == {i \in 1 .. n : by[i] \in P}
Divided(n, by) ==
  /\ n \in Nat /\ n <= Len(agg.rows) /\ by \in [1 .. n -> Process]
  /\ todo = [i \in 1 .. Len(agg.rows) - n |-> agg.rows[n + i]]
  /\ \A p \in Process : StateOf(agg.rows, Taken(n, by, {p}), partial[p])
  /\ StateOf(agg.rows, Taken(n, by, merged.from), merged.state)

AggIs ==
  /\ agg.type \in Type /\ agg.fn \in {"avg", "sum"} /\ (agg.type = "sparsevec" => agg.fn = "sum")
  /\ agg.rows \in Seq(Row)

AggInv ==
  /\ AggIs /\ DOMAIN partial = Process /\ merged.from \in SUBSET Process
  /\ todo # <<>> => merged.from = {}
  /\ \E n, by : Divided(n, by)
  /\ result # Running => result = Serial

LEMMA ResultIsSerial ==
  /\ (result # Running => result = Serial) <=> ParallelIsSerial
BY Zenon DEF ParallelIsSerial, Serial

LEMMA AggStart ==
  ASSUME AggInit
  PROVE  AggInv
<1>1. PICK rows \in BoundedSeq(Row, MaxRows), type \in Type, fn \in {"avg", "sum"} :
        agg = [type |-> type, fn |-> fn, rows |-> rows]
  BY DEF AggInit
<1>2. rows \in Seq(Row)
  <2>1. PICK m \in 0 .. MaxRows : rows \in [1 .. m -> Row]
    BY DEF BoundedSeq, SeqOf
  <2>2. m \in Nat
    BY AggAssumption
  <2>. QED  BY <2>1, <2>2
<1>3. AggIs
  BY <1>1, <1>2 DEF AggInit, AggIs
<1>4. /\ todo = rows /\ partial = [p \in Process |-> NoState]
      /\ merged = [state |-> NoState, from |-> {}] /\ result = Running
  BY <1>1 DEF AggInit
<1>5. \A by, P : Taken(0, by, P) = {}
  BY DEF Taken
<1>6. StateOf(rows, {}, NoState)
  BY DEF StateOf
<1>7. Divided(0, [i \in 1 .. 0 |-> 0])
  <2>1. [i \in 1 .. 0 |-> 0] \in [1 .. 0 -> Process]
    OBVIOUS
  <2>2. rows = [i \in 1 .. Len(rows) - 0 |-> rows[0 + i]] /\ Len(rows) \in Nat
    BY <1>2
  <2>3. agg.rows = rows /\ todo = [i \in 1 .. Len(agg.rows) - 0 |-> agg.rows[0 + i]]
    BY <1>1, <1>4, <2>2
  <2>4. \A p \in Process : partial[p] = NoState
    BY <1>4
  <2>5. merged.state = NoState /\ merged.from = {}
    BY <1>4
  <2>6. \A p \in Process :
           StateOf(agg.rows, Taken(0, [i \in 1 .. 0 |-> 0], {p}), partial[p])
    BY <1>5, <1>6, <2>3, <2>4
  <2>7. StateOf(agg.rows, Taken(0, [i \in 1 .. 0 |-> 0], merged.from), merged.state)
    BY <1>5, <1>6, <2>3, <2>5
  <2>. QED  BY <2>1, <2>2, <2>3, <2>6, <2>7 DEF Divided
<1>. QED  BY <1>3, <1>4, <1>7 DEF AggInv

LEMMA AccumulateStep ==
  ASSUME AggInv, NEW p \in Process, Accumulate(p)
  PROVE  AggInv'
<1>. DEFINE rows == agg.rows
<1>1. AggIs /\ DOMAIN partial = Process /\ merged.from = {}
  BY DEF AggInv, Accumulate
<1>2. PICK n, by : Divided(n, by)
  BY DEF AggInv
<1>3. /\ result = Running /\ todo # <<>> /\ agg' = agg /\ merged' = merged
  BY DEF Accumulate
<1>4. /\ n \in Nat /\ Len(rows) \in Nat /\ n + 1 \in 1 .. Len(rows) /\ Head(todo) = rows[n + 1]
      /\ Tail(todo) = [i \in 1 .. Len(rows) - (n + 1) |-> rows[n + 1 + i]]
  <2>1. /\ n \in Nat /\ n <= Len(rows) /\ todo = [i \in 1 .. Len(rows) - n |-> rows[n + i]]
    BY <1>2 DEF Divided
  <2>2. Len(rows) \in Nat /\ rows \in Seq(Row)
    BY <1>1 DEF AggIs
  <2>3. PICK m \in Nat : m = Len(rows) - n
    <3>1. PICK l \in Nat : l = Len(rows)
      BY <2>2
    <3>2. l - n \in Nat
      BY <2>1, <3>1
    <3>. QED  BY <3>1, <3>2
  <2>4. todo = [i \in 1 .. m |-> rows[n + i]]
    BY <2>1, <2>3
  <2>5. m # 0
    BY <1>3, <2>4
  <2>6. \A i \in 1 .. m : n + i \in 1 .. Len(rows) /\ rows[n + i] \in Row
    BY <2>1, <2>2, <2>3
  <2>7. todo \in Seq(Row) /\ Len(todo) = m
    BY <2>4, <2>6
  <2>8. Head(todo) = rows[n + 1]
    BY <2>4, <2>5, <2>7
  <2>9. Tail(todo) = [i \in 1 .. m - 1 |-> rows[n + 1 + i]]
    <3>1. Tail(todo) = [i \in 1 .. m - 1 |-> todo[i + 1]]
      <4>1. PICK q \in Seq(Row) : q = todo /\ Len(q) # 0
        BY <2>5, <2>7
      <4>2. Len(Tail(q)) = Len(q) - 1 /\ Tail(q) \in Seq(Row)
        BY <4>1
      <4>3. \A i \in 1 .. Len(q) - 1 : Tail(q)[i] = q[i + 1]
        BY <4>1
      <4>4. Tail(q) = [i \in 1 .. Len(q) - 1 |-> q[i + 1]]
        <5>1. PICK r \in Seq(Row) : r = Tail(q)
          BY <4>2
        <5>2. r = [i \in 1 .. Len(r) |-> r[i]]
          OBVIOUS
        <5>. QED  BY <4>2, <4>3, <5>1, <5>2
      <4>. QED  BY <2>7, <4>1, <4>4
    <3>2. \A i \in 1 .. m - 1 : todo[i + 1] = rows[n + 1 + i]
      <4>1. TAKE i \in 1 .. m - 1
      <4>2. i + 1 \in 1 .. m /\ n + (i + 1) = n + 1 + i
        BY <2>1
      <4>. QED  BY <2>4, <4>2
    <3>. HIDE DEF rows
    <3>. QED  BY <3>1, <3>2
  <2>10. m - 1 = Len(rows) - (n + 1) /\ n + 1 \in 1 .. Len(rows)
    BY <2>1, <2>2, <2>3, <2>5
  <2>. QED  BY <2>1, <2>2, <2>8, <2>9, <2>10
<1>5. PICK S : S = Taken(n, by, {p})
  OBVIOUS
<1>6. StateOf(rows, S, partial[p]) /\ n + 1 \notin S
  <2>1. StateOf(rows, S, partial[p])
    BY <1>2, <1>5 DEF Divided
  <2>2. n + 1 \notin 1 .. n
    BY <1>4
  <2>. QED  BY <1>5, <2>1, <2>2 DEF Taken
<1>7. /\ DimFits(partial[p], Len(rows[n + 1])) =>
           StateOf(rows, S \cup {n + 1}, Accumulated(agg.type, partial[p], rows[n + 1]))
      /\ ~ DimFits(partial[p], Len(rows[n + 1])) => Refused(rows)
  <2>1. agg.type \in Type /\ rows \in Seq(Row)
    BY <1>1 DEF AggIs
  <2>. HIDE DEF rows
  <2>. QED  BY <1>4, <1>6, <2>1, AccumulateIs
<1>8. AggIs'
  BY <1>1, <1>3 DEF AggIs
<1>9. CASE DimFits(partial[p], Len(rows[n + 1]))
  <2>1. /\ partial' = [partial EXCEPT ![p] = Accumulated(agg.type, @, rows[n + 1])]
        /\ todo' = Tail(todo) /\ result' = result
    BY <1>4, <1>9 DEF Accumulate
  <2>. DEFINE new == [i \in 1 .. n + 1 |-> IF i = n + 1 THEN p ELSE by[i]]
  <2>2. by \in [1 .. n -> Process]
    BY <1>2 DEF Divided
  <2>3. /\ new \in [1 .. n + 1 -> Process] /\ new[n + 1] = p
        /\ \A i \in 1 .. n : new[i] = by[i]
    <3>1. \A i \in 1 .. n + 1 : i # n + 1 => i \in 1 .. n
      BY <1>4
    <3>2. \A i \in 1 .. n : i # n + 1 /\ i \in 1 .. n + 1
      BY <1>4
    <3>. QED  BY <1>4, <2>2, <3>1, <3>2
  <2>. HIDE DEF new
  <2>4. Taken(n + 1, new, {p}) = S \cup {n + 1}
    BY <1>4, <1>5, <2>3 DEF Taken
  <2>5. \A o \in Process \ {p} : Taken(n + 1, new, {o}) = Taken(n, by, {o})
    BY <1>4, <2>3 DEF Taken
  <2>6. Taken(n + 1, new, {}) = {} /\ Taken(n, by, {}) = {}
    BY DEF Taken
  <2>7. \A o \in Process : StateOf(rows, Taken(n + 1, new, {o}), partial'[o])
    <3>1. TAKE o \in Process
    <3>2. CASE o = p
      BY <1>1, <1>7, <1>9, <2>1, <2>4, <3>2
    <3>3. CASE o # p
      <4>1. StateOf(rows, Taken(n, by, {o}), partial[o])
        BY <1>2 DEF Divided
      <4>. QED  BY <1>1, <2>1, <2>5, <3>3, <4>1
    <3>. QED  BY <3>2, <3>3
  <2>8. StateOf(rows, Taken(n + 1, new, merged'.from), merged'.state)
    BY <1>1, <1>2, <1>3, <2>6 DEF Divided
  <2>9. n + 1 \in Nat /\ n + 1 <= Len(rows)
    BY <1>4
  <2>10. Divided(n + 1, new)'
    BY <1>3, <1>4, <2>1, <2>3, <2>7, <2>8, <2>9 DEF Divided
  <2>11. DOMAIN partial' = Process /\ merged'.from = {} /\ result' = Running
    BY <1>1, <1>3, <2>1
  <2>. QED  BY <1>8, <2>10, <2>11 DEF AggInv
<1>10. CASE ~ DimFits(partial[p], Len(rows[n + 1]))
  <2>1. result' = Error /\ UNCHANGED <<partial, todo>>
    BY <1>4, <1>10 DEF Accumulate
  <2>2. rows # <<>> /\ Refused(rows)
    BY <1>1, <1>4, <1>7, <1>10 DEF AggIs
  <2>3. Serial' = Error
    BY <1>3, <2>2, Zenon DEF Serial
  <2>4. Divided(n, by)'
    BY <1>2, <1>3, <2>1 DEF Divided
  <2>. QED  BY <1>1, <1>3, <1>8, <2>1, <2>3, <2>4 DEF AggInv
<1>. QED  BY <1>9, <1>10

LEMMA GatherStep ==
  ASSUME AggInv, NEW p \in Process, Gather(p)
  PROVE  AggInv'
<1>. DEFINE rows == agg.rows
<1>1. /\ AggIs /\ DOMAIN partial = Process /\ merged.from \in SUBSET Process
      /\ p \notin merged.from /\ todo = <<>>
      /\ agg' = agg /\ todo' = todo /\ partial' = partial /\ result = Running
  BY DEF AggInv, Gather
<1>2. PICK n, by : Divided(n, by)
  BY DEF AggInv
<1>3. PICK S, T : S = Taken(n, by, merged.from) /\ T = Taken(n, by, {p})
  OBVIOUS
<1>4. /\ StateOf(rows, S, merged.state) /\ StateOf(rows, T, partial[p])
      /\ S \cap T = {} /\ S \cup T = Taken(n, by, merged.from \cup {p})
  BY <1>1, <1>2, <1>3 DEF Divided, Taken
<1>5. /\ Combines(merged.state, partial[p]) =>
           StateOf(rows, S \cup T, Combined(agg.type, merged.state, partial[p]))
      /\ ~ Combines(merged.state, partial[p]) => Refused(rows)
  <2>1. agg.type \in Type /\ rows \in Seq(Row)
    BY <1>1 DEF AggIs
  <2>. HIDE DEF rows
  <2>. QED  BY <1>4, <2>1, CombinedIs
<1>6. AggIs'
  BY <1>1 DEF AggIs
<1>7. CASE Combines(merged.state, partial[p])
  <2>1. /\ merged'.state = Combined(agg.type, merged.state, partial[p])
        /\ merged'.from = merged.from \cup {p} /\ result' = Running
    BY <1>1, <1>7 DEF Gather
  <2>2. StateOf(rows, Taken(n, by, merged'.from), merged'.state)
    BY <1>4, <1>5, <1>7, <2>1
  <2>3. Divided(n, by)'
    BY <1>1, <1>2, <2>2 DEF Divided
  <2>. QED  BY <1>1, <1>6, <2>1, <2>3 DEF AggInv
<1>8. CASE ~ Combines(merged.state, partial[p])
  <2>1. result' = Error /\ merged' = merged
    BY <1>8 DEF Gather
  <2>2. Refused(rows)
    BY <1>5, <1>8
  <2>3. rows # <<>>
    BY <2>2 DEF Refused
  <2>4. Serial' = Error
    BY <1>1, <2>2, <2>3, Zenon DEF Serial
  <2>5. Divided(n, by)'
    BY <1>1, <1>2, <2>1 DEF Divided
  <2>. QED  BY <1>1, <1>6, <2>1, <2>4, <2>5 DEF AggInv
<1>. QED  BY <1>7, <1>8

LEMMA FinishStep ==
  ASSUME AggInv, Finish
  PROVE  AggInv'
<1>1. /\ AggIs /\ merged.from = Process /\ agg' = agg /\ UNCHANGED <<todo, partial, merged>>
      /\ result' = Final(agg.type, agg.fn, merged.state) /\ todo = <<>>
  BY ProcessAssumption DEF AggInv, Finish
<1>2. PICK n, by : Divided(n, by)
  BY DEF AggInv
<1>3. n = Len(agg.rows)
  <2>1. n \in Nat /\ Len(agg.rows) \in Nat /\ n <= Len(agg.rows)
        /\ todo = [i \in 1 .. Len(agg.rows) - n |-> agg.rows[n + i]]
    BY <1>1, <1>2 DEF Divided, AggIs
  <2>2. 1 .. Len(agg.rows) - n = {}
    BY <1>1, <2>1
  <2>. QED  BY <2>1, <2>2
<1>4. Taken(n, by, Process) = 1 .. Len(agg.rows)
  BY <1>2, <1>3 DEF Divided, Taken
<1>5. StateOf(agg.rows, 1 .. Len(agg.rows), merged.state)
  BY <1>1, <1>2, <1>4 DEF Divided
<1>6. result' = Serial
  BY <1>1, <1>5, FinalIs DEF AggIs
<1>7. Serial' = Serial
  BY <1>1 DEF Serial
<1>8. Divided(n, by)'
  BY <1>1, <1>2 DEF Divided
<1>9. AggIs'
  BY <1>1 DEF AggIs
<1>. QED  BY <1>1, <1>6, <1>7, <1>8, <1>9 DEF AggInv

LEMMA AggStep ==
  ASSUME AggInv, [AggNext]_aggVars
  PROVE  AggInv'
<1>1. CASE UNCHANGED aggVars
  <2>1. UNCHANGED <<agg, todo, partial, merged, result>>
    BY <1>1 DEF aggVars
  <2>2. Serial' = Serial
    BY <2>1 DEF Serial
  <2>3. PICK n, by : Divided(n, by)
    BY DEF AggInv
  <2>4. Divided(n, by)'
    BY <2>1, <2>3 DEF Divided
  <2>5. AggIs'
    BY <2>1 DEF AggInv, AggIs
  <2>. QED  BY <2>1, <2>2, <2>4, <2>5 DEF AggInv
<1>. QED  BY <1>1, AccumulateStep, GatherStep, FinishStep DEF AggNext

\* avg and sum return what they would in one process, however many processes
\* take the rows, whichever rows each takes and in whatever order the leader
\* hears of them.  (COMBINEFUNC = vec_combine and its like.)
THEOREM SerialAlways == AggSpec => []ParallelIsSerial
<1>1. AggInv => ParallelIsSerial
  BY ResultIsSerial DEF AggInv
<1>. QED  BY <1>1, AggStart, AggStep, PTL DEF AggSpec

=============================================================================
