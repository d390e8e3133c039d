---------------------------- MODULE VectorTypes ----------------------------
(***************************************************************************)
(* The SQL types vector, halfvec, sparsevec and bitvec: what a session     *)
(* makes of a literal by casts, text input and output and the functions    *)
(* that slice, join and combine values, and the distances of what it gets. *)
(*                                                                         *)
(* A value is kept as its type keeps it.  Next to it stands what it means: *)
(* the coordinates an SQL user counts on.                                  *)
(***************************************************************************)
EXTENDS Integers, Sequences, FiniteSets, SequencesExt, Functions

CONSTANTS
  Literal,    \* the literals a session starts with
  Operand,    \* vectors used as second operands
  MaxDim,     \* most dimensions of a dense vector
  MaxFloat,   \* largest finite f32
  MaxHalf,    \* largest finite f16
  HalfOf(_),  \* f16::from_f32, before the check for infinity
  Missing,    \* a NULL element of an array
  ByteBits,   \* bits of a byte
  Lanes,      \* accumulators of a kernel
  MaxSteps    \* bound: functions applied to one literal

VARIABLES
  value,    \* the value, as its type keeps it
  means,    \* the coordinates it means; none if it is an error
  steps     \* functions applied

-----------------------------------------------------------------------------
(* Representations.                                                        *)

\* A value: indices and values of a sparsevec or its text, bytes of a bitvec
\* (sets of bits, the first bit the most significant one), data of the others.
Value(type, dim, at, data, bytes) ==
  [type |-> type, dim |-> dim, at |-> at, data |-> data, bytes |-> bytes]
Dense(type, data) == Value(type, Len(data), <<>>, data, <<>>)
Error == Value("error", 0, <<>>, <<>>, <<>>)

Magnitude(x) == IF x < 0 THEN -x ELSE x
Finite(data, max) == \A i \in DOMAIN data : Magnitude(data[i]) <= max

\* Vector::from_vec.
from_vec(data) ==
  IF Len(data) \in 1 .. MaxDim /\ Finite(data, MaxFloat) THEN Dense("vector", data) ELSE Error

\* Halfvec::from_f16_vec.
from_f16_vec(data) ==
  IF Len(data) \in 1 .. MaxDim /\ Finite(data, MaxHalf) THEN Dense("halfvec", data) ELSE Error

\* Halfvec::from_f32_vec: finite as f32, and still after narrowing.
from_f32_vec(data) ==
  IF ~ Finite(data, MaxFloat) THEN Error
  ELSE from_f16_vec([i \in DOMAIN data |-> HalfOf(data[i])])

\* Sparsevec::new: each index is above the one before and below the dimension.
SparseNew(dim, at, data) ==
  IF /\ dim >= 1
     /\ Len(at) = Len(data)
     /\ \A k \in DOMAIN at :
          /\ at[k] > (IF k = 1 THEN -1 ELSE at[k - 1])
          /\ at[k] < dim
     /\ Finite(data, MaxFloat)
  THEN Value("sparsevec", dim, at, data, <<>>) ELSE Error

\* Bitvec::new of bits packed from the most significant one.
Bytes(n, Set(_)) ==
  [b \in 1 .. (n + ByteBits - 1) \div ByteBits |->
     {i \in 0 .. ByteBits - 1 : LET bit == (b - 1) * ByteBits + i + 1 IN bit <= n /\ Set(bit)}]

\* to_dense.
to_dense(s) ==
  [i \in 1 .. s.dim |->
     IF \E k \in DOMAIN s.at : s.at[k] = i - 1
     THEN s.data[CHOOSE k \in DOMAIN s.at : s.at[k] = i - 1] ELSE 0]

-----------------------------------------------------------------------------
(* Text and casts.                                                         *)

\* parse_sparsevec: indices are 1-based in text.
parse_sparsevec(t) ==
  IF \E k \in DOMAIN t.at : t.at[k] < 1 THEN Error
  ELSE SparseNew(t.dim, [k \in DOMAIN t.at |-> t.at[k] - 1], t.data)

\* Mutant: the 0-based index is written.
SparseOutputZeroBased(s) == Value("sparsetext", s.dim, s.at, s.data, <<>>)

\* Sparsevec's output.
SparseOutput(s) ==
  Value("sparsetext", s.dim, [k \in DOMAIN s.at |-> s.at[k] + 1], s.data, <<>>)

\* vector_to_sparsevec.
vector_to_sparsevec(v) ==
  LET set == SetToSortSeq({i \in DOMAIN v.data : v.data[i] # 0}, <)
  IN  SparseNew(v.dim, [k \in DOMAIN set |-> set[k] - 1], [k \in DOMAIN set |-> v.data[set[k]]])

\* sparsevec_to_vector.
sparsevec_to_vector(s) == IF s.dim > MaxDim THEN Error ELSE from_vec(to_dense(s))

\* Bitvec's input.
BitInput(t) ==
  IF t.data = <<>> \/ \E i \in DOMAIN t.data : t.data[i] \notin {0, 1} THEN Error
  ELSE Value("bitvec", Len(t.data), <<>>, <<>>, Bytes(Len(t.data), LAMBDA i : t.data[i] = 1))

Bit(b, i) == IF ((i - 1) % ByteBits) \in b.bytes[((i - 1) \div ByteBits) + 1] THEN 1 ELSE 0

\* Bitvec's output.
BitOutput(b) == Dense("bittext", [i \in 1 .. b.dim |-> Bit(b, i)])

\* binary_quantize.
binary_quantize(v) == Value("bitvec", v.dim, <<>>, <<>>, Bytes(v.dim, LAMBDA i : v.data[i] > 0))

array_to_vec(a) ==
  IF \E i \in DOMAIN a.data : a.data[i] = Missing THEN Error ELSE from_vec(a.data)
array_to_halfvec(a) ==
  IF \E i \in DOMAIN a.data : a.data[i] = Missing THEN Error ELSE from_f32_vec(a.data)

\* jsonb_to_vec.
jsonb_to_vec(j) ==
  IF Len(j.data) \notin 1 .. MaxDim \/ \E i \in DOMAIN j.data : j.data[i] = Missing THEN Error
  ELSE from_vec(j.data)

\* parse_vec, whose tokens are finite numbers.
parse_vec(t) == IF t.data = <<>> THEN Error ELSE from_vec(t.data)
HalfInput(t) == IF t.data = <<>> THEN Error ELSE from_f32_vec(t.data)

\* The casts and text functions, by the type they take.
Casts(v) ==
  CASE v.type = "array"      -> {array_to_vec(v), array_to_halfvec(v)}
    [] v.type = "text"       -> {parse_vec(v), HalfInput(v)}
    [] v.type = "jsonb"      -> {jsonb_to_vec(v)}
    [] v.type = "sparsetext" -> {parse_sparsevec(v)}
    [] v.type = "bittext"    -> {BitInput(v)}
    [] v.type = "vector"     -> {Dense(t, v.data) : t \in {"array", "text", "jsonb"}}
                                \cup {vector_to_sparsevec(v), from_f32_vec(v.data)}
    [] v.type = "halfvec"    -> {Dense(t, v.data) : t \in {"array", "text"}}
                                \cup {from_vec(v.data)}
    [] v.type = "sparsevec"  -> {SparseOutput(v), sparsevec_to_vector(v)}
    [] v.type = "bitvec"     -> {BitOutput(v)}
    [] OTHER                 -> {}

-----------------------------------------------------------------------------
(* Functions of vectors.                                                   *)

Make(type, data) == IF type = "vector" THEN from_vec(data) ELSE from_f32_vec(data)

subvector(v, start, length) ==
  IF start < 1 \/ length < 1 \/ start - 1 + length > v.dim THEN Error
  ELSE from_vec(SubSeq(v.data, start, start - 1 + length))

vec_concat(v, w) ==
  IF v.dim + Len(w) > MaxDim THEN Error ELSE Make(v.type, v.data \o w)

Coordwise(v, w, Op(_, _)) == [i \in DOMAIN v |-> Op(v[i], w[i])]
Arithmetic(v, w, Op(_, _)) ==
  IF v.dim # Len(w) THEN Error ELSE Make(v.type, Coordwise(v.data, w, Op))

vec_add(v, w) == Arithmetic(v, w, +)
vec_sub(v, w) == Arithmetic(v, w, -)
vec_mul(v, w) == Arithmetic(v, w, *)
halfvec_add(v, w) == Arithmetic(v, w, +)
halfvec_sub(v, w) == Arithmetic(v, w, -)
halfvec_mul(v, w) == Arithmetic(v, w, *)
halfvec_concat(v, w) == vec_concat(v, w)

Function(v, w, fn) ==
  CASE fn = "+" -> IF v.type = "vector" THEN vec_add(v, w) ELSE halfvec_add(v, w)
    [] fn = "-" -> IF v.type = "vector" THEN vec_sub(v, w) ELSE halfvec_sub(v, w)
    [] fn = "*" -> IF v.type = "vector" THEN vec_mul(v, w) ELSE halfvec_mul(v, w)
    [] fn = "||" -> IF v.type = "vector" THEN vec_concat(v, w) ELSE halfvec_concat(v, w)

-----------------------------------------------------------------------------
(* What a session does, and what it means by it.                           *)

Meaningless == <<>>
Known(data, max) == IF Len(data) \in 1 .. MaxDim /\ Finite(data, max) THEN data ELSE Meaningless

\* What the coordinates m mean as a value of the type.
MeansAs(type, m) ==
  CASE type = "halfvec" -> Known([i \in DOMAIN m |-> HalfOf(m[i])], MaxHalf)
    [] OTHER -> m

\* What a literal means, if anything.
Meaning(l) ==
  IF l.type # "sparsetext"
  THEN IF l.type = "bittext" THEN IF ToSet(l.data) \subseteq {0, 1} THEN l.data ELSE Meaningless
       ELSE Known(l.data, MaxFloat)
  ELSE IF /\ ToSet(l.at) \subseteq 1 .. l.dim
          /\ \A j, k \in DOMAIN l.at : j < k => l.at[j] < l.at[k]
          /\ Finite(l.data, MaxFloat)
       THEN [i \in 1 .. l.dim |-> IF i \in ToSet(l.at) THEN l.data[AntiFunction(l.at)[i]] ELSE 0]
       ELSE Meaningless

TypeInit == value \in Literal /\ means = Meaning(value) /\ steps = 0

\* A new value, and what is meant by it.
Becomes(v, m) == value' = v /\ means' = m /\ steps' = steps + 1

Cast ==
  /\ steps < MaxSteps
  /\ \E v \in Casts(value) :
       Becomes(v, IF v.type = "error" THEN
                    CASE value.type \in {"vector", "array", "text"} -> MeansAs("halfvec", means)
                      [] value.type = "sparsevec" -> Known(means, MaxFloat)
                      [] OTHER -> means
                  ELSE MeansAs(v.type, means))

Subvector ==
  /\ steps < MaxSteps /\ value.type = "vector"
  /\ \E s, l \in 0 .. MaxDim :
       Becomes(subvector(value, s, l),
               IF s \in DOMAIN means /\ l >= 1 /\ s + l - 1 \in DOMAIN means
               THEN [i \in 1 .. l |-> means[s + i - 1]] ELSE Meaningless)

Compute ==
  /\ steps < MaxSteps /\ value.type \in {"vector", "halfvec"}
  /\ \E w \in Operand, fn \in {"+", "-", "*", "||"} :
       LET m == IF fn = "||" THEN means \o w
                ELSE IF Len(w) # Len(means) THEN Meaningless
                ELSE [i \in DOMAIN means |-> CASE fn = "+" -> means[i] + w[i]
                                              [] fn = "-" -> means[i] - w[i]
                                              [] fn = "*" -> means[i] * w[i]]
       IN  /\ value.type = "halfvec" => \A i \in DOMAIN w : HalfOf(w[i]) = w[i]
           /\ Becomes(Function(value, w, fn),
                      IF value.type = "halfvec" THEN MeansAs("halfvec", Known(m, MaxFloat))
                      ELSE Known(m, MaxFloat))

Quantize ==
  /\ steps < MaxSteps /\ value.type = "vector"
  /\ Becomes(binary_quantize(value), [i \in DOMAIN means |-> IF means[i] > 0 THEN 1 ELSE 0])

TypeNext == Cast \/ Subvector \/ Compute \/ Quantize

-----------------------------------------------------------------------------
(* Distances.                                                              *)

\* Mutant: the walk ends with the first vector.
sparse_walkCut(a, b) ==
  [i \in DOMAIN a.at |->
     <<a.data[i], IF \E j \in DOMAIN b.at : b.at[j] = a.at[i]
                  THEN b.data[CHOOSE j \in DOMAIN b.at : b.at[j] = a.at[i]] ELSE 0>>]

\* sparse_walk: the pairs of coordinates visited.
sparse_walk(a, b) ==
  LET walk[i \in 1 .. Len(a.at) + 1, j \in 1 .. Len(b.at) + 1] ==
        IF i > Len(a.at) /\ j > Len(b.at) THEN <<>>
        ELSE IF j > Len(b.at) THEN <<<<a.data[i], 0>>>> \o walk[i + 1, j]
        ELSE IF i > Len(a.at) THEN <<<<0, b.data[j]>>>> \o walk[i, j + 1]
        ELSE CASE a.at[i] = b.at[j] -> <<<<a.data[i], b.data[j]>>>> \o walk[i + 1, j + 1]
               [] a.at[i] < b.at[j] -> <<<<a.data[i], 0>>>> \o walk[i + 1, j]
               [] a.at[i] > b.at[j] -> <<<<0, b.data[j]>>>> \o walk[i, j + 1]
  IN  walk[1, 1]

SumOf(s) == FoldLeft(+, 0, s)
Terms(pairs, Op(_, _)) == SumOf([k \in DOMAIN pairs |-> Op(pairs[k][1], pairs[k][2])])
Product(x, y) == x * y
SquareDiff(x, y) == (x - y) * (x - y)
AbsDiff(x, y) == Magnitude(x - y)

sparsevec_inner_product(a, b) == Terms(sparse_walk(a, b), Product)
sparsevec_l2_squared_distance(a, b) == Terms(sparse_walk(a, b), SquareDiff)
sparsevec_l1_distance(a, b) == Terms(sparse_walk(a, b), AbsDiff)
sparsevec_norm(a) == SumOf([k \in DOMAIN a.data |-> a.data[k] * a.data[k]])

\* lane_sum: whole groups of Lanes into the lanes, the rest one by one.
lane_sum(v, w, Op(_, _)) ==
  LET whole == (Len(v) \div Lanes) * Lanes
      lane(l) == SumOf([g \in 1 .. Len(v) \div Lanes |->
                          Op(v[(g - 1) * Lanes + l], w[(g - 1) * Lanes + l])])
  IN  SumOf([l \in 1 .. Lanes |-> lane(l)])
      + SumOf([r \in 1 .. Len(v) - whole |-> Op(v[whole + r], w[whole + r])])

dot(v, w) == lane_sum(v, w, Product)
l2_sq(v, w) == lane_sum(v, w, SquareDiff)
l1_abs(v, w) == lane_sum(v, w, AbsDiff)
norm2(v) == lane_sum(v, v, Product)

Bits(bytes, Op(_, _), other) ==
  SumOf([b \in DOMAIN bytes |-> Cardinality(Op(bytes[b], other[b]))])

\* The bits of the last byte that are behind the last bit are taken off again.
TailBits(b, set) ==
  IF b.dim % ByteBits = 0 THEN 0
  ELSE Cardinality({i \in set : i >= b.dim % ByteBits})

SymmetricDiff(x, y) == (x \ y) \cup (y \ x)
Both(x, y) == x \cap y
Either(x, y) == x \cup y
Counted(a, b, Op(_, _)) ==
  Bits(a.bytes, Op, b.bytes) - TailBits(a, Op(Last(a.bytes), Last(b.bytes)))

hamming_distance(a, b) == Counted(a, b, SymmetricDiff)

\* jaccard_distance, as the bits in one only and those in either.
jaccard_distance(a, b) ==
  LET union == Counted(a, b, Either)
  IN  IF union = 0 THEN <<0, 1>> ELSE <<union - Counted(a, b, Both), union>>

popcount(a) == Counted(a, a, Both)

-----------------------------------------------------------------------------
(* Properties.                                                             *)

\* The coordinates a value stands for, as its type keeps them.
Denotes(v) ==
  CASE v.type = "sparsevec"  -> to_dense(v)
    [] v.type = "sparsetext" -> to_dense([v EXCEPT !.at = [k \in DOMAIN v.at |-> v.at[k] - 1]])
    [] v.type = "bitvec"     -> [i \in 1 .. v.dim |-> Bit(v, i)]
    [] OTHER                 -> v.data

\* After any sequence of casts, text round trips and functions a value stands
\* for the coordinates meant, and is an error only if there is nothing it could
\* mean in its type.  (cast.rs, sparsevec_ops.rs, halfvec_ops.rs, extras.rs.)
ValueIsMeant ==
  steps > 0 => IF value.type = "error" THEN means = Meaningless ELSE Denotes(value) = means

Pairs(v, w) == [i \in DOMAIN v |-> <<v[i], w[i]>>]

\* The distances of sparse vectors, of packed bits and of the lanes of a kernel
\* are those of the coordinates, one by one.  (sparse_walk, hamming_distance,
\* jaccard_distance, lane_sum.)
DistancesAgree ==
  \A w \in {w \in Operand : Len(w) = Len(means) /\ means # Meaningless} :
    LET p    == Pairs(means, w)
        sw   == vector_to_sparsevec(Dense("vector", w))
        bw   == binary_quantize(Dense("vector", w))
        ones == {i \in DOMAIN means : means[i] = 1}
        set  == {i \in DOMAIN w : w[i] > 0}
    IN  /\ value.type = "sparsevec" =>
             /\ sparsevec_inner_product(value, sw) = Terms(p, Product)
             /\ sparsevec_l2_squared_distance(value, sw) = Terms(p, SquareDiff)
             /\ sparsevec_l1_distance(value, sw) = Terms(p, AbsDiff)
             /\ sparsevec_norm(value) = Terms(Pairs(means, means), Product)
        /\ value.type \in {"vector", "halfvec"} =>
             /\ dot(value.data, w) = Terms(p, Product)
             /\ l2_sq(value.data, w) = Terms(p, SquareDiff)
             /\ l1_abs(value.data, w) = Terms(p, AbsDiff)
             /\ norm2(value.data) = Terms(Pairs(means, means), Product)
        /\ value.type = "bitvec" =>
             /\ hamming_distance(value, bw) = Cardinality(SymmetricDiff(ones, set))
             /\ popcount(value) = Cardinality(ones)
             /\ ones \cup set # {} =>
                  jaccard_distance(value, bw) =
                    <<Cardinality(SymmetricDiff(ones, set)), Cardinality(ones \cup set)>>

=============================================================================
