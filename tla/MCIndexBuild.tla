---------------------------- MODULE MCIndexBuild ----------------------------
(* IndexBuild over points of a line: two pairs, far from each other; the     *)
(* training of its cells, in the plane; and the cache of one backend,        *)
(* BackendCache.  They share no state: a behaviour is of one of them.        *)
EXTENDS IndexBuild, BackendCache

VARIABLES
  part,                               \* "build", "train" or "cache"
  corpus, ncells, pool, km            \* KMeansTraining

Line == {<<0>>, <<1>>, <<20>>, <<21>>}

Kind(bq, colbert, lists, dups) == [bq |-> bq, colbert |-> colbert, lists |-> lists, dups |-> dups]

Row(alive, toks) == [alive |-> alive, toks |-> toks]
One(v) == Row(TRUE, <<v>>)
Null == Row(TRUE, <<>>)

\* Three vectors and a dead row, or NULLs only.
Vectors3 == {<<One(a), Row(FALSE, <<a>>), One(b), One(<<20>>)>> : a, b \in Line}
Nulls == {<<Null, Null, Null>>}

Documents == {<<Row(TRUE, <<a, b>>), Row(TRUE, <<b, <<1>>>>)>> : a, b \in Line}

SmallBuilds ==
  [heap : Nulls \cup Vectors3, opts : {Kind(FALSE, FALSE, 0, 1), Kind(TRUE, FALSE, 0, 1),
                                      Kind(FALSE, FALSE, 3, 2), Kind(TRUE, FALSE, 2, 2)}]
    \cup [heap : Nulls \cup Documents, opts : {Kind(FALSE, TRUE, 3, 1)}]
    \cup [heap : {<<One(<<0>>), One(<<1>>), One(<<20>>), One(<<21>>)>>},
          opts : {Kind(FALSE, FALSE, 4, 1)}]

-----------------------------------------------------------------------------
QuarterTurn(v) == <<-v[2], v[1]>>

\* 2 and 3 rows, equal ones among them, and tables with a row more than the
\* sample holds or than there are distinct vectors.
Corner == {<<0, 0>>, <<12, 0>>, <<0, 24>>}
Tables ==
  [1 .. 2 -> Corner] \cup [1 .. 3 -> Corner]
    \cup {<<<<0, 0>>, <<12, 0>>, <<0, 24>>, <<24, 12>>>>, <<<<0, 0>>, <<0, 0>>, <<12, 0>>, <<12, 0>>>>}

Sampled(n) == IF n = 1 THEN 2 ELSE 4
InMemory(n) == IF n = 3 THEN 2 ELSE 4

K == INSTANCE KMeansTraining WITH
       Corpora <- Tables, Rotated <- QuarterTurn, Unit <- <<<<1, 0>>, <<0, 1>>>>,
       lists <- ncells, Lists <- 1 .. 3, SampleCap <- Sampled, CrossBudget <- 6, TargetRows <- 1,
       MaxChunks <- InMemory, Pools <- {1, 2}, Err <- 1, MaxIters <- 3, Tol <- 1

-----------------------------------------------------------------------------
BuildVars == <<heap, opts, chunk, job, index>>
TrainVars == <<corpus, ncells, pool, km>>

NoTraining == corpus = 0 /\ ncells = 0 /\ pool = 0 /\ km = 0
NoBuild == heap = 0 /\ opts = 0 /\ chunk = 0 /\ job = 0 /\ index = 0
NoCache == CacheInit /\ cap = 0

MCInit ==
  \/ part = "build" /\ Init /\ NoTraining /\ NoCache
  \/ part = "train" /\ K!KMeansInit /\ NoBuild /\ NoCache
  \/ part = "cache" /\ CacheInit /\ NoBuild /\ NoTraining

BuildStep == part = "build" /\ Next /\ UNCHANGED <<part, TrainVars, cacheVars>>
TrainStep == part = "train" /\ K!KMeansNext /\ UNCHANGED <<part, BuildVars, cacheVars>>
CacheStep == part = "cache" /\ CacheNext /\ UNCHANGED <<part, BuildVars, TrainVars>>

MCNext == BuildStep \/ TrainStep \/ CacheStep

MCSpec == MCInit /\ [][MCNext]_<<part, BuildVars, TrainVars, cacheVars>>

\* The properties of the parts, stated there.

\* Every vector of every live row is found by a scan at it that probes one cell.
RowsAreFound == part = "build" => RowsFound

\* The out-of-core path looks at what the whole-load path looks at.
OocIsWhole == part = "build" => OocLooksAtSame

\* The walk over the centroid graph returns the nearest cells it can reach.
ProbeIsNearest == part = "build" => GraphProbeNearest

\* The sample is of the table, assignments are those of a scalar search, sums
\* do not depend on the threads, and no cell is left without a row.
CellsAreTrained == part = "train" => K!TrainingSound

\* No iteration makes the cells worse.
TrainingDescends == part = "train" => K!LloydDescends

\* A build stores the same index whatever memory cut it into.
BuildIsReference ==
  [][ part = "build" => StoredAsReference ]_<<part, BuildVars>>
=============================================================================
