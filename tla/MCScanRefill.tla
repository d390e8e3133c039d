---------------------------- MODULE MCScanRefill ----------------------------
(* ScanRefill with a narrow and a wide value of each setting; and the        *)
(* searches of HandleSearch over four rows in the plane, which share no      *)
(* state with it: a behaviour is of one of them.                             *)
EXTENDS ScanRefill

CONSTANTS x, y, z  \* rows

VARIABLES
  part,                                        \* what a behaviour is of
  handle, parallel, pool, search, searches     \* HandleSearch

Narrow == [iterative |-> TRUE, k |-> 1, probes |-> 1, maxProbes |-> 2, maxScan |-> 2,
           allow |-> NoAllow]
MCSettings ==
  {Narrow,
   [Narrow EXCEPT !.iterative = FALSE],
   [Narrow EXCEPT !.maxProbes = 9, !.maxScan = 9],
   [Narrow EXCEPT !.maxProbes = 9, !.maxScan = 9, !.allow = {x}],
   [Narrow EXCEPT !.k = 2, !.maxProbes = 9],
   [Narrow EXCEPT !.k = 2, !.maxScan = 9]}

-----------------------------------------------------------------------------
\* Four rows with 2-bit codes: all different, or two equal ones.
Codebook == [i \in 0 .. 3 |-> 2 * i - 3]
Planes(a, b) == [p \in 0 .. 1 |-> {d \in 1 .. 2 : (<<a, b>>[d] \div 2^p) % 2 = 1}]
CodeRow(code, scale, id) == [code |-> code, scale |-> scale, id |-> id]
FourRows ==
  {<<CodeRow(Planes(3, 1), 1, 10), CodeRow(Planes(1, 2), 1, 20),
     CodeRow(Planes(0, 3), 2, 30), CodeRow(Planes(2, 2), 1, 40)>>,
   <<CodeRow(Planes(1, 1), 1, 10), CodeRow(Planes(1, 1), 1, 20),
     CodeRow(Planes(3, 3), 1, 30), CodeRow(Planes(3, 0), 1, 40)>>}

\* Two cells and a row behind them, or none; every set of tombstones.
FourRowHandles ==
  LET Of(arms, cells) == [arm : arms, rows : FourRows, cells : {cells},
                          dead : SUBSET (0 .. 3), mean : {<<0, 1>>}]
  IN  Of({"ReadOnly", "Bq", "Ooc"}, <<1, 2>>) \cup Of({"ReadOnly", "Bq"}, <<>>)

Ask(v, user, halves, mode, cells, allow) ==
  [vec |-> v, user |-> user, oversample |-> halves, mode |-> mode, cells |-> cells, allow |-> allow]
Asked ==
  {Ask(<<2, -1>>, 1, 2, "off", <<2>>, NoAllow), Ask(<<1, 1>>, 1, 3, "off", <<2, 1>>, NoAllow),
   Ask(<<1, 1>>, 1, 2, "auto", <<1, 2>>, {10, 20, 40}),
   Ask(<<2, -1>>, 3, 2, "on", <<2, 2>>, {20, 30, 40}), Ask(<<2, -1>>, 2, 2, "auto", <<1>>, NoAllow)}

H == INSTANCE HandleSearch WITH
       Dims <- {1, 2}, Levels <- Codebook, Handles <- FourRowHandles, Queries <- Asked,
       Threads <- {0, 2, 3}, ChunkFloor <- 1, Spare <- 1, HiDim <- 3, RerankFloor <- 1,
       RerankCap <- 2, Multiplier <- 2, MaxSearches <- 2

NoHandle == handle = 0 /\ parallel = 0 /\ pool = 0 /\ search = 0 /\ searches = 0
NoScan ==
  /\ index = [arm |-> "ReadOnly", lists |-> 0, cells |-> [r \in Row |-> {}], dead |-> {}]
  /\ guc = [set |-> Narrow, changes |-> 0] /\ phase = "ended" /\ scan = Scan0 /\ rescans = 0

allVars == <<part, vars, handle, parallel, pool, search, searches>>

MCInit ==
  \/ part = "scan" /\ Init /\ NoHandle
  \/ part = "search" /\ H!HandleInit /\ NoScan

ScanOnly == part = "scan" /\ UNCHANGED <<part, handle, parallel, pool, search, searches>>
ScanFetch == ScanOnly /\ Fetch
ScanStep == ScanOnly /\ Next
SearchStep == part = "search" /\ H!HandleNext /\ UNCHANGED <<part, vars>>

MCSpec == MCInit /\ [][ScanStep \/ SearchStep]_allVars /\ WF_allVars(ScanFetch)

\* A search returns the best of the live rows in its reach, whatever handle
\* and threads answer it, and on no more threads than the setting allows.
SearchIsRight == part = "search" => H!AnswerIsTop /\ H!ScoresAgree /\ H!ThreadsAsSet
=============================================================================
