--------------------------- MODULE MCSqlFunctions ---------------------------
(* What SQL calls: turbovec.knn(), the aggregates, the types, the distance    *)
(* functions, the routing to partitions, turbovec.colbert_search(), what      *)
(* monitors call, and the life of an index under its options and settings.    *)
(* They share no state: a behaviour is of one of them.                        *)
EXTENDS KnnCache, OperandCache, PartitionRouting, ColbertSearch, VectorAggregates

VARIABLES
  part,                                       \* the functions called
  value, means, steps,                        \* VectorTypes
  file, damage, check, report,                \* IndexHealth
  setting, frozen, with, rowTable, relfile, fork, write, scanned, statements  \* IndexSettings

-----------------------------------------------------------------------------
\* The same two rows under another column, one value of which is the other
\* row's.  The vectors that are nearer by angle are the further by product.
MCAsked ==
  LET col(n) == [i \in Id |-> i + n]
  IN  {[col |-> col(0), norm |-> TRUE], [col |-> col(0), norm |-> FALSE],
       [col |-> col(1), norm |-> TRUE]}
MCVec == {[cosine |-> 1, dot |-> 2], [cosine |-> 2, dot |-> 0]}

AggRows == {<<1>>, <<-1, 1>>, <<2, 0>>}
AggMax == [t \in {"vector", "halfvec", "sparsevec"} |-> IF t = "halfvec" THEN 2 ELSE 3]

\* Halves above 2 are even: 3 is rounded to 4, 5 to 6, an infinity.
Half(x) ==
  IF x \in -2 .. 2 THEN x ELSE IF x > 0 THEN 2 * ((x + 1) \div 2) ELSE - 2 * ((1 - x) \div 2)

Lit(type, dim, at, data) ==
  [type |-> type, dim |-> dim, at |-> at, data |-> data, bytes |-> <<>>]
Data == {<<>>, <<0>>, <<3, -1, 0>>, <<0, 1, 5>>, <<1, 2, 1, 7>>, <<1, 9, 0>>, <<2, 0, -2, 1>>,
         <<1, 1, 1, 1, 1>>}
Literals ==
  {Lit(t, Len(d), <<>>, d) : t \in {"array", "text", "jsonb"}, d \in Data}
  \cup {Lit("sparsetext", d, at, [k \in DOMAIN at |-> x]) :
          d \in {3, 5}, x \in {2, 7},
          at \in {<<>>, <<1>>, <<1, 3>>, <<3, 1>>, <<2, 2>>, <<0>>, <<4>>}}
  \cup {Lit("bittext", Len(d), <<>>, d) : d \in {<<>>, <<1, 0, 1>>, <<0, 2>>, <<1, 1, 0, 1, 1>>}}

T == INSTANCE VectorTypes WITH
       Literal <- Literals, Operand <- {<<1>>, <<0, 1, -1>>, <<1, 0, 2, 2>>}, MaxDim <- 4,
       MaxFloat <- 6, MaxHalf <- 4, HalfOf <- Half, Missing <- 9, ByteBits <- 2, Lanes <- 2,
       MaxSteps <- 4

\* Partitions with rows on both sides of the origin, and in it.
MCPoint == {-1, 1}
MCNaming == {<<1, 2>>, <<1, 1>>}

\* Documents of one or two tokens: long and short ones, in and against the
\* query's direction, and one that does not fit it.
MCArrays == {<<1>>, <<3, -2>>, <<-1, Bad>>}
MCQuery == <<1, -2>>
MCDocSettings == [col : {"id", "other"}, norm : {TRUE}]

H == INSTANCE IndexHealth WITH
       Kinds <- {"single", "bq", "graph", "colbert"}, Dim <- 2, MaxRows <- 3, MaxLists <- 2,
       MaxDelta <- 50, MaxDamage <- 1, Probes <- {0, 1, 2, 5}

\* Options that name the width, one or four bits.  An index altered to four
\* bits is a 1-bit one until it is rebuilt.
Opt(width, dim, lists, graph) ==
  [given |-> TRUE, width |-> width, dim |-> dim, lists |-> lists, graph |-> graph]
Options == {Opt(4, 0, 2, FALSE), Opt(4, 16, 0, FALSE), Opt(4, 0, 0, TRUE), Opt(1, 0, 1, FALSE),
            Opt(1, 8, 0, FALSE)}
ScanSettings == {[probes |-> 1, ooc |-> "auto", budget |-> 8],
                 [probes |-> 3, ooc |-> "on", budget |-> 8]}

\* A column of vectors, and one of documents.
S == INSTANCE IndexSettings WITH
       Session <- {"s", "t"}, Array <- FALSE, Unlogged <- TRUE, Dims <- {0, 8, 12},
       Withs <- Options, Defaults <- {2, 4}, AlterWidths <- {4}, OldRows <- <<>>,
       Scans <- ScanSettings, MaxDelta <- 50, MaxChanges <- 5,
       table <- rowTable, file <- relfile, answer <- scanned, changes <- statements
D == INSTANCE IndexSettings WITH
       Session <- {"s", "t"}, Array <- TRUE, Unlogged <- TRUE, Dims <- {0, 8, 12},
       Withs <- Options, Defaults <- {2, 4}, AlterWidths <- {4}, OldRows <- <<>>,
       Scans <- ScanSettings, MaxDelta <- 50, MaxChanges <- 4,
       table <- rowTable, file <- relfile, answer <- scanned, changes <- statements

\* What the theorems about IndexSettings ask of an installation.
ASSUME InstallationsAssumption ==
  S!InstallationAssumption /\ S!OneReading /\ D!InstallationAssumption /\ D!OneReading

-----------------------------------------------------------------------------
\* Of a part that is not called: a state it starts in.
NoKnn ==
  /\ table = [node |-> 1, rows |-> NoRows, churned |-> FALSE]
  /\ entry = NoEntry /\ call = NoCall /\ answer = NoAnswer
NoAgg == agg = [type |-> "vector", fn |-> "avg", rows |-> <<>>] /\ AggInit
TypeVars == <<value, means, steps>>
NoType == value = 0 /\ means = 0 /\ steps = 0
NoOperand == CacheInit /\ stored = [o \in Oid |-> "u"]
NoRoute == RouteInit /\ NamesDiffer /\ \A p \in Partition : parent[p].rows = {}
NoColbert == ColbertInit
HealthVars == <<file, damage, check, report>>
NoHealth == file = 0 /\ damage = 0 /\ check = 0 /\ report = 0
IndexVars == <<setting, frozen, with, rowTable, relfile, fork, write, scanned, statements>>
NoIndex ==
  /\ setting = 0 /\ frozen = 0 /\ with = 0 /\ rowTable = 0 /\ relfile = 0 /\ fork = 0
  /\ write = 0 /\ scanned = 0 /\ statements = 0

SqlInit ==
  \/ /\ part = "knn" /\ Init
     /\ NoAgg /\ NoType /\ NoOperand
     /\ NoRoute /\ NoColbert /\ NoHealth /\ NoIndex
  \/ /\ part = "agg" /\ AggInit
     /\ NoKnn /\ NoType /\ NoOperand
     /\ NoRoute /\ NoColbert /\ NoHealth /\ NoIndex
  \/ /\ part = "type" /\ T!TypeInit
     /\ NoKnn /\ NoAgg /\ NoOperand
     /\ NoRoute /\ NoColbert /\ NoHealth /\ NoIndex
  \/ /\ part = "operand" /\ CacheInit
     /\ NoKnn /\ NoAgg /\ NoType
     /\ NoRoute /\ NoColbert /\ NoHealth /\ NoIndex
  \/ /\ part = "route" /\ RouteInit
     /\ NoKnn /\ NoAgg /\ NoType
     /\ NoOperand /\ NoColbert /\ NoHealth /\ NoIndex
  \/ /\ part = "colbert" /\ ColbertInit
     /\ NoKnn /\ NoAgg /\ NoType
     /\ NoOperand /\ NoRoute /\ NoHealth /\ NoIndex
  \/ /\ part = "health" /\ H!HealthInit
     /\ NoKnn /\ NoAgg /\ NoType
     /\ NoOperand /\ NoRoute /\ NoColbert /\ NoIndex
  \/ /\ \/ part = "vectors" /\ S!SettingsInit
        \/ part = "documents" /\ D!SettingsInit
     /\ NoKnn /\ NoAgg /\ NoType /\ NoOperand
     /\ NoRoute /\ NoColbert /\ NoHealth

KnnStep ==
  /\ part = "knn" /\ Next /\ UNCHANGED part
  /\ UNCHANGED <<aggVars, TypeVars, operandVars, routeVars, docVars, HealthVars, IndexVars>>
AggStep ==
  /\ part = "agg" /\ AggNext /\ UNCHANGED part
  /\ UNCHANGED <<vars, TypeVars, operandVars, routeVars, docVars, HealthVars, IndexVars>>
TypeStep ==
  /\ part = "type" /\ T!TypeNext /\ UNCHANGED part
  /\ UNCHANGED <<vars, aggVars, operandVars, routeVars, docVars, HealthVars, IndexVars>>
OperandStep ==
  /\ part = "operand" /\ CacheNext /\ UNCHANGED part
  /\ UNCHANGED <<vars, aggVars, TypeVars, routeVars, docVars, HealthVars, IndexVars>>
RouteStep ==
  /\ part = "route" /\ RouteNext /\ UNCHANGED part
  /\ UNCHANGED <<vars, aggVars, TypeVars, operandVars, docVars, HealthVars, IndexVars>>
DocStep ==
  /\ part = "colbert" /\ ColbertNext /\ UNCHANGED part
  /\ UNCHANGED <<vars, aggVars, TypeVars, operandVars, routeVars, HealthVars, IndexVars>>
HealthStep ==
  /\ part = "health" /\ H!HealthNext /\ UNCHANGED part
  /\ UNCHANGED <<vars, aggVars, TypeVars, operandVars, routeVars, docVars, IndexVars>>
IndexStep ==
  /\ \/ part = "vectors" /\ S!SettingsNext
     \/ part = "documents" /\ D!SettingsNext
  /\ UNCHANGED part
  /\ UNCHANGED <<vars, aggVars, TypeVars, operandVars, routeVars, docVars, HealthVars>>

SqlNext ==
  \/ KnnStep \/ AggStep \/ TypeStep \/ OperandStep
  \/ RouteStep \/ DocStep \/ HealthStep \/ IndexStep

SqlSpec ==
  SqlInit /\ [][SqlNext]_<<part, vars, aggVars, TypeVars, operandVars, routeVars, docVars,
                            HealthVars, IndexVars>>

-----------------------------------------------------------------------------
(* The properties of the other parts, stated there.                        *)

\* Casts, text and functions keep what a value means, and the distances of
\* sparse, packed and lane-wise data are those of the coordinates.
TypesAgree == part = "type" => T!ValueIsMeant /\ T!DistancesAgree

\* turbovec_check reports the damage that scans meet and no index without any,
\* and an index built with cells is called degraded if its scans have none.
HealthIsTold == part = "health" => H!DamageReported /\ H!HealthyIsClean /\ H!DegradationTold

\* An index of named options reads every code as it was written, has every
\* committed row, and is costed as the scan it gets.
SettingsAreKept ==
  /\ part = "vectors" => S!ReadAsWritten /\ S!CommittedRowsIndexed /\ S!CostIsOfTheScan
  /\ part = "documents" => D!ReadAsWritten /\ D!CommittedRowsIndexed /\ D!CostIsOfTheScan
=============================================================================
