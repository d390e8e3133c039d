-------------------------- MODULE VectorAggregates --------------------------
(***************************************************************************)
(* avg and sum of vectors, halfvecs and sparsevecs under a parallel plan.  *)
(*                                                                         *)
(* Each process folds the rows it happens to scan into a state of its own  *)
(* (SFUNC); the leader merges the states in the order they arrive          *)
(* (COMBINEFUNC) and makes a value of the last one (FINALFUNC).  A state   *)
(* is NULL until its first row.                                            *)
(*                                                                         *)
(* Coordinates are integers.  An average is kept as its sum and its count. *)
(***************************************************************************)
EXTENDS Integers, Sequences, FiniteSets, SequencesExt

CONSTANTS
  Process,    \* the leader and the workers
  Row,        \* the vectors a table holds
  MaxRows,    \* bound: rows of the table
  MaxDim,     \* the largest dimension of a state
  MaxCoord    \* the largest coordinate of each type

Type == {"vector", "halfvec", "sparsevec"}

ASSUME ProcessAssumption == Process # {}
ASSUME AggAssumption ==
  /\ Row \subseteq Seq(Int) \ {<<>>}
  /\ MaxRows \in Nat /\ MaxDim \in Nat /\ MaxCoord \in [Type -> Nat]

VARIABLES
  agg,       \* the type, the function, and the rows of the table
  todo,      \* rows no process has scanned
  partial,   \* the state of each process
  merged,    \* the state of the leader, and the processes merged into it
  result     \* of the query

aggVars == <<agg, todo, partial, merged, result>>

\* What is no value, told apart by its count.
Null == [sum |-> <<>>, count |-> 0]
Error == [sum |-> <<>>, count |-> -1]
Running == [sum |-> <<>>, count |-> -2]

-----------------------------------------------------------------------------
\* VecAccum::default and NULL: the functions treat them alike.
NoState == [sum |-> <<>>, count |-> 0]

\* ensure_dim.
DimFits(s, dim) == IF s.sum = <<>> THEN dim <= MaxDim ELSE Len(s.sum) = dim

Added(x, y) == [i \in DOMAIN x |-> x[i] + y[i]]
Zeros(n) == [i \in 1 .. n |-> 0]

vec_accum(s, v) ==
  [sum |-> Added(IF s.sum = <<>> THEN Zeros(Len(v)) ELSE s.sum, v), count |-> s.count + 1]

\* The halves are widened and added as vectors are.
halfvec_accum(s, v) == vec_accum(s, v)

\* Only the coordinates that are not zero are added.
sparsevec_accum(s, v) ==
  LET sum == IF s.sum = <<>> THEN Zeros(Len(v)) ELSE s.sum
      set == {i \in DOMAIN v : v[i] # 0}
  IN  [sum |-> [i \in DOMAIN sum |-> IF i \in set THEN sum[i] + v[i] ELSE sum[i]],
       count |-> s.count + 1]

Accumulated(type, s, v) ==
  CASE type = "vector"    -> vec_accum(s, v)
    [] type = "halfvec"   -> halfvec_accum(s, v)
    [] type = "sparsevec" -> sparsevec_accum(s, v)

\* Mutant: the count of the first state is kept.
vec_combineCountKept(a, b) ==
  IF a.count = 0 THEN b
  ELSE IF b.count = 0 THEN a
  ELSE [sum |-> Added(a.sum, b.sum), count |-> a.count]

\* A state of no rows gives way to the other.
vec_combine(a, b) ==
  IF a.count = 0 THEN b
  ELSE IF b.count = 0 THEN a
  ELSE [sum |-> Added(a.sum, b.sum), count |-> a.count + b.count]

halfvec_combine(a, b) == vec_combine(a, b)
sparsevec_combine(a, b) == vec_combine(a, b)

Combined(type, a, b) ==
  CASE type = "vector"    -> vec_combine(a, b)
    [] type = "halfvec"   -> halfvec_combine(a, b)
    [] type = "sparsevec" -> sparsevec_combine(a, b)

Combines(a, b) == a.count = 0 \/ b.count = 0 \/ Len(a.sum) = Len(b.sum)

Magnitude(x) == IF x < 0 THEN -x ELSE x
Fits(type, v) == \A i \in DOMAIN v : Magnitude(v[i]) <= MaxCoord[type]

\* vec_avg_finalfn: an average is no larger than the largest coordinate.
vec_avg_finalfn(s) == [sum |-> s.sum, count |-> s.count]
halfvec_avg_finalfn(s) == vec_avg_finalfn(s)

\* vec_sum_finalfn: from_vec refuses the infinity of an overflow.
vec_sum_finalfn(s) ==
  IF Fits("vector", s.sum) THEN [sum |-> s.sum, count |-> 1] ELSE Error
halfvec_sum_finalfn(s) ==
  IF Fits("halfvec", s.sum) THEN [sum |-> s.sum, count |-> 1] ELSE Error

\* sparsevec_sum_finalfn: coordinates that cancelled out are left out, the
\* others checked.
sparsevec_sum_finalfn(s) ==
  LET set == {i \in DOMAIN s.sum : s.sum[i] # 0}
  IN  IF \E i \in set : Magnitude(s.sum[i]) > MaxCoord["sparsevec"] THEN Error
      ELSE [sum |-> [i \in DOMAIN s.sum |-> IF i \in set THEN s.sum[i] ELSE 0], count |-> 1]

\* A strict function of NULL is NULL.
Final(type, fn, s) ==
  IF s.count = 0 THEN Null
  ELSE CASE fn = "avg" /\ type = "vector"    -> vec_avg_finalfn(s)
         [] fn = "avg" /\ type = "halfvec"   -> halfvec_avg_finalfn(s)
         [] fn = "sum" /\ type = "vector"    -> vec_sum_finalfn(s)
         [] fn = "sum" /\ type = "halfvec"   -> halfvec_sum_finalfn(s)
         [] fn = "sum" /\ type = "sparsevec" -> sparsevec_sum_finalfn(s)

-----------------------------------------------------------------------------
AggInit ==
  /\ agg \in [type : Type, fn : {"avg", "sum"}, rows : BoundedSeq(Row, MaxRows)]
  /\ agg.type = "sparsevec" => agg.fn = "sum"
  /\ \A i \in DOMAIN agg.rows : Fits(agg.type, agg.rows[i])
  /\ todo = agg.rows
  /\ partial = [p \in Process |-> NoState]
  /\ merged = [state |-> NoState, from |-> {}]
  /\ result = Running

\* A process takes the next row of the shared scan.
Accumulate(p) ==
  /\ result = Running /\ todo # <<>>
  /\ IF DimFits(partial[p], Len(Head(todo)))
     THEN /\ partial' = [partial EXCEPT ![p] = Accumulated(agg.type, @, Head(todo))]
          /\ todo' = Tail(todo)
          /\ UNCHANGED result
     ELSE result' = Error /\ UNCHANGED <<partial, todo>>
  /\ UNCHANGED <<agg, merged>>

\* The state of a process that is done reaches the leader.
Gather(p) ==
  /\ result = Running /\ todo = <<>> /\ p \notin merged.from
  /\ IF Combines(merged.state, partial[p])
     THEN /\ merged' = [state |-> Combined(agg.type, merged.state, partial[p]),
                        from |-> merged.from \cup {p}]
          /\ UNCHANGED result
     ELSE result' = Error /\ UNCHANGED merged
  /\ UNCHANGED <<agg, todo, partial>>

Finish ==
  /\ result = Running /\ merged.from = Process
  /\ result' = Final(agg.type, agg.fn, merged.state)
  /\ UNCHANGED <<agg, todo, partial, merged>>

AggNext == Finish \/ \E p \in Process : Accumulate(p) \/ Gather(p)

AggSpec == AggInit /\ [][AggNext]_aggVars

-----------------------------------------------------------------------------
\* The sum of the rows, coordinate by coordinate.
ColumnSum(rows, c) ==
  LET sum[n \in 0 .. Len(rows)] == IF n = 0 THEN 0 ELSE sum[n - 1] + rows[n][c]
  IN  sum[Len(rows)]

Refused(rows) ==
  \/ \E i, j \in DOMAIN rows : Len(rows[i]) # Len(rows[j])
  \/ \E i \in DOMAIN rows : Len(rows[i]) > MaxDim

\* However the rows are divided among the processes and in whatever order the
\* leader merges the states, the result is that of the rows in one process: an
\* error when the dimensions differ or the sum overflows, NULL of no rows, and
\* otherwise the sum over all the rows and, for avg, their number.
\* (COMBINEFUNC = vec_combine, halfvec_combine, sparsevec_combine.)
ParallelIsSerial ==
  result # Running =>
    LET rows == agg.rows
        sum  == [c \in DOMAIN rows[1] |-> ColumnSum(rows, c)]
    IN  result = IF rows = <<>> THEN Null
                 ELSE IF Refused(rows) THEN Error
                 ELSE IF agg.fn = "avg" THEN [sum |-> sum, count |-> Len(rows)]
                 ELSE IF ~ Fits(agg.type, sum) THEN Error
                 ELSE [sum |-> sum, count |-> 1]

=============================================================================
