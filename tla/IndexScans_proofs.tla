------------------------- MODULE IndexScans_proofs -------------------------
(***************************************************************************)
(* What the scans of an index return and what they read.  For every table, *)
(* handle, settings and sequence of calls, a scan returns rows it may, and *)
(* all of them when it could look everywhere (ScanRefill).  For any        *)
(* options, settings and sessions, an index keeps its committed rows, is   *)
(* costed as the scan it gets, and, if it has one width and one dimension, *)
(* reads every code as it was written (IndexSettings).                     *)
(***************************************************************************)
EXTENDS ScanRefill, IndexSettings, DataInduction_proofs

-----------------------------------------------------------------------------
(* The slots of a handle.                                                  *)

LEMMA IndexIs ==
  ASSUME index \in Index
  PROVE  /\ index.lists \in Nat /\ index.dead \subseteq Row /\ DOMAIN index.cells = Row
         /\ \A r \in Row : index.cells[r] \subseteq 0 .. index.lists
         /\ index.arm \in Arms /\ (index.arm = "Ooc" => index.lists > 0)
<1>1. PICK n \in 0 .. MaxLists : index \in [arm : Arms, lists : {n}, cells : Cells(n), dead : SUBSET Row]
  BY DEF Index
<1>2. /\ index.lists = n /\ index.dead \subseteq Row /\ index.arm \in Arms
      /\ index.cells \in Cells(n) /\ n \in Nat
  BY <1>1, BoundsAssumption
<1>3. index.cells \in [Row -> SUBSET (0 .. n)]
  BY <1>2 DEF Cells
<1>4. index.arm = "Ooc" => index.lists > 0
  BY DEF Index
<1>. QED  BY <1>2, <1>3, <1>4

LEMMA SlotsAre ==
  ASSUME index \in Index
  PROVE  /\ \A s \in Slots : /\ s.row \in Row /\ s.cell \in index.cells[s.row]
                             /\ s.cell \in 0 .. index.lists /\ s = [row |-> s.row, cell |-> s.cell]
         /\ IsFiniteSet(Slots) /\ NLive \in Nat
         /\ \A r \in Row : IsFiniteSet(index.cells[r]) /\ Cardinality(index.cells[r]) \in Nat
<1>. DEFINE C == 0 .. index.lists
            F == {p \in Row \X C : p[2] \in index.cells[p[1]]}
            f == [p \in F |-> [row |-> p[1], cell |-> p[2]]]
<1>1. /\ index.lists \in Nat /\ \A r \in Row : index.cells[r] \subseteq C
  BY IndexIs
<1>2. IsFiniteSet(C)
  BY <1>1, FS_Interval
<1>. HIDE DEF C
<1>3. \A s \in Slots : \E r \in Row, c \in C : s = [row |-> r, cell |-> c] /\ c \in index.cells[r]
  BY <1>1 DEF Slots
<1>4. \A s \in Slots : /\ s.row \in Row /\ s.cell \in index.cells[s.row]
                       /\ s.cell \in C /\ s = [row |-> s.row, cell |-> s.cell]
  BY <1>3
<1>5. IsFiniteSet(F)
  BY <1>2, RowAssumption, FS_Product, FS_Subset
<1>6. f \in Surjection(F, Slots)
  <2>1. \A p \in F : f[p] \in Slots
    BY DEF Slots
  <2>2. \A s \in Slots : <<s.row, s.cell>> \in F /\ f[<<s.row, s.cell>>] = s
    BY <1>4
  <2>. QED  BY <2>1, <2>2 DEF Surjection
<1>7. IsFiniteSet(Slots)
  BY <1>5, <1>6, FS_Surjection
<1>8. NLive \in Nat
  BY <1>7, FS_CardinalityType DEF NLive
<1>9. \A r \in Row : IsFiniteSet(index.cells[r])
  BY <1>1, <1>2, FS_Subset
<1>10. \A r \in Row : Cardinality(index.cells[r]) \in Nat
  BY <1>9, FS_CardinalityType
<1>. QED  BY <1>4, <1>7, <1>8, <1>9, <1>10 DEF C

\* The tombstones split the slots.
LEMMA LiveIs ==
  ASSUME index \in Index
  PROVE  /\ Live \subseteq Slots /\ Dead \subseteq Slots /\ Slots \ Dead = Live
         /\ IsFiniteSet(Live) /\ Cardinality(Live) <= NLive /\ Cardinality(Live) \in Nat
<1>1. Live \subseteq Slots /\ Dead \subseteq Slots /\ Slots \ Dead = Live
  BY DEF Live, Dead
<1>2. IsFiniteSet(Slots) /\ NLive \in Nat
  BY SlotsAre
<1>. QED  BY <1>1, <1>2, FS_Subset, FS_CardinalityType DEF NLive

LEMMA SameIndex ==
  ASSUME index' = index
  PROVE  Slots' = Slots /\ NLive' = NLive /\ Live' = Live /\ Dead' = Dead /\ CellScoped' = CellScoped
BY DEF Slots, NLive, Live, Dead, CellScoped

-----------------------------------------------------------------------------
(* Searches.                                                               *)

\* A top k is a part of the set, and all of it if k is large enough.
LEMMA TopIs ==
  ASSUME NEW S, IsFiniteSet(S), NEW k \in Nat, NEW T \in Top(S, k)
  PROVE  /\ T \subseteq S /\ IsFiniteSet(T) /\ Cardinality(T) \in Nat
         /\ k >= Cardinality(S) => T = S
<1>1. Cardinality(S) \in Nat
  BY FS_CardinalityType
<1>2. T \in SUBSET S /\ Cardinality(T) = AtMost(k, Cardinality(S))
  BY DEF Top, kSubset
<1>3. k >= Cardinality(S) => Cardinality(T) = Cardinality(S)
  BY <1>1, <1>2 DEF AtMost
<1>. QED  BY <1>2, <1>3, FS_Subset, FS_CardinalityType

LEMMA AllowedIs ==
  ASSUME NEW S, IsFiniteSet(S), NEW allow
  PROVE  /\ Allowed(S, allow) \subseteq S /\ IsFiniteSet(Allowed(S, allow))
         /\ Cardinality(Allowed(S, allow)) <= Cardinality(S)
         /\ Cardinality(Allowed(S, allow)) \in Nat /\ Cardinality(S) \in Nat
         /\ allow # NoAllow => \A s \in Allowed(S, allow) : s.row \in allow
<1>1. Allowed(S, allow) \subseteq S
  BY DEF Allowed
<1>2. allow # NoAllow => \A s \in Allowed(S, allow) : s.row \in allow
  BY DEF Allowed
<1>. QED  BY <1>1, <1>2, FS_Subset, FS_CardinalityType

\* The wide search finds allowed slots only, and with a k for all slots it
\* leaves none out.
LEMMA FilteredIs ==
  ASSUME index \in Index, NEW S \in SUBSET Slots, NEW k \in Nat, NEW allow, NEW T \in Filtered(S, k, allow)
  PROVE  /\ T \subseteq Allowed(S, allow)
         /\ k >= NLive => T = Allowed(S, allow)
<1>1. /\ IsFiniteSet(S) /\ Cardinality(S) <= NLive /\ NLive \in Nat /\ Cardinality(S) \in Nat
  BY SlotsAre, FS_Subset, FS_CardinalityType DEF NLive
<1>2. CASE allow = NoAllow
  <2>1. T \in Top(S, k) /\ Allowed(S, allow) = S
    BY <1>2 DEF Filtered, Allowed
  <2>2. T \subseteq S /\ (k >= Cardinality(S) => T = S)
    BY <1>1, <2>1, TopIs
  <2>. QED  BY <1>1, <2>1, <2>2
<1>3. CASE allow # NoAllow
  <2>. DEFINE wide == AtLeast(AtMost(k * Widening, NLive), k)
  <2>1. PICK W \in Top(S, wide) : T \in Top(Allowed(W, allow), k)
    BY <1>3 DEF Filtered
  <2>2. wide \in Nat /\ wide >= k
    <3>1. k * Widening \in Nat
      BY BoundsAssumption
    <3>. QED  BY <1>1, <3>1 DEF AtLeast, AtMost
  <2>. HIDE DEF wide
  <2>3. W \subseteq S /\ IsFiniteSet(W) /\ (wide >= Cardinality(S) => W = S)
    BY <1>1, <2>1, <2>2, TopIs
  <2>4. IsFiniteSet(Allowed(W, allow)) /\ Cardinality(Allowed(W, allow)) <= Cardinality(W)
        /\ Cardinality(Allowed(W, allow)) \in Nat
    BY <2>3, AllowedIs
  <2>5. T \subseteq Allowed(W, allow) /\ (k >= Cardinality(Allowed(W, allow)) => T = Allowed(W, allow))
    BY <2>1, <2>4, TopIs
  <2>6. Allowed(W, allow) \subseteq Allowed(S, allow)
    BY <2>3 DEF Allowed
  <2>7. ASSUME k >= NLive PROVE T = Allowed(S, allow)
    <3>1. W = S
      BY <1>1, <2>2, <2>3, <2>7
    <3>. QED  BY <1>1, <2>4, <2>5, <2>7, <3>1
  <2>. QED  BY <2>5, <2>6, <2>7
<1>. QED  BY <1>2, <1>3

\* search_slots: what is left of the over-fetch is live.
LEMMA OverFetchedIs ==
  ASSUME index \in Index, NEW S \in SUBSET Slots, NEW k \in Nat, NEW T \in OverFetched(S, k)
  PROVE  /\ T \subseteq S \ Dead
         /\ k >= NLive => T = S \ Dead
<1>1. /\ IsFiniteSet(S) /\ Cardinality(S) <= NLive /\ NLive \in Nat /\ Cardinality(S) \in Nat
  BY SlotsAre, FS_Subset, FS_CardinalityType DEF NLive
<1>. DEFINE want == IF Dead = {} THEN k ELSE AtMost(AtLeast(2 * k, k + 8), NLive)
<1>2. PICK W \in Top(S, want) : T \in Top(W \ Dead, k)
  BY DEF OverFetched
<1>3. want \in Nat /\ (k >= NLive => want >= NLive)
  BY <1>1 DEF AtLeast, AtMost
<1>. HIDE DEF want
<1>4. W \subseteq S /\ IsFiniteSet(W) /\ (want >= Cardinality(S) => W = S)
  BY <1>1, <1>2, <1>3, TopIs
<1>5. IsFiniteSet(W \ Dead) /\ Cardinality(W \ Dead) <= Cardinality(S) /\ Cardinality(W \ Dead) \in Nat
  <2>1. W \ Dead \in SUBSET S
    BY <1>4
  <2>. QED  BY <1>1, <2>1, FS_Subset, FS_CardinalityType
<1>6. T \subseteq W \ Dead /\ (k >= Cardinality(W \ Dead) => T = W \ Dead)
  BY <1>2, <1>5, TopIs
<1>7. ASSUME k >= NLive PROVE T = S \ Dead
  <2>1. W = S
    BY <1>1, <1>3, <1>4, <1>7
  <2>. QED  BY <1>1, <1>5, <1>6, <1>7, <2>1
<1>. QED  BY <1>4, <1>6, <1>7

\* What a search without cells finds: allowed slots, live ones unless the copy
\* has no tombstones, and all of the live ones if k is for all slots.
LEMMA FlatSearchIs ==
  ASSUME index \in Index, NEW k \in Nat, NEW allow, NEW T \in FlatSearch(k, allow)
  PROVE  /\ T \subseteq Slots /\ (index.arm # "Mutable" => T \subseteq Live)
         /\ allow # NoAllow => \A s \in T : s.row \in allow
         /\ ~ CellScoped /\ k >= NLive => Allowed(Live, allow) \subseteq T
<1>1. /\ Live \subseteq Slots /\ IsFiniteSet(Live) /\ Cardinality(Live) <= NLive
      /\ Slots \ Dead = Live /\ NLive \in Nat /\ IsFiniteSet(Slots)
  BY LiveIs, SlotsAre
<1>2. index.arm \in {"ReadOnly", "Bq", "Ooc", "Mutable", "Graph"}
  BY IndexIs, ArmsAssumption
<1>3. /\ Allowed(Live, allow) \subseteq Live /\ Allowed(Slots, allow) \subseteq Slots
      /\ Allowed(Live, allow) \subseteq Allowed(Slots, allow)
      /\ Allowed(Slots, allow) \ Dead = Allowed(Live, allow)
      /\ allow # NoAllow => \A s \in Allowed(Slots, allow) : s.row \in allow
  BY <1>1 DEF Allowed
<1>4. CASE index.arm = "ReadOnly"
  <2>1. T \in Top(Allowed(Live, allow), k)
    BY <1>4 DEF FlatSearch
  <2>2. IsFiniteSet(Allowed(Live, allow)) /\ Cardinality(Allowed(Live, allow)) <= Cardinality(Live)
        /\ Cardinality(Allowed(Live, allow)) \in Nat /\ Cardinality(Live) \in Nat
    BY <1>1, AllowedIs
  <2>3. T \subseteq Allowed(Live, allow) /\ (k >= NLive => T = Allowed(Live, allow))
    BY <1>1, <2>1, <2>2, TopIs
  <2>. QED  BY <1>1, <1>3, <2>3
<1>5. CASE index.arm = "Bq"
  <2>1. T \in OverFetched(Allowed(Slots, allow), k)
    BY <1>5 DEF FlatSearch
  <2>2. T \subseteq Allowed(Slots, allow) \ Dead /\ (k >= NLive => T = Allowed(Slots, allow) \ Dead)
    BY <1>3, <2>1, OverFetchedIs
  <2>. QED  BY <1>1, <1>3, <2>2
<1>6. CASE index.arm = "Mutable"
  <2>1. T \in Filtered(Slots, k, allow)
    BY <1>6 DEF FlatSearch
  <2>2. T \subseteq Allowed(Slots, allow) /\ (k >= NLive => T = Allowed(Slots, allow))
    BY <2>1, FilteredIs
  <2>. QED  BY <1>3, <1>6, <2>2
<1>7. CASE index.arm = "Graph"
  <2>1. T \in Filtered(Live, k, allow)
    BY <1>7 DEF FlatSearch
  <2>2. T \subseteq Allowed(Live, allow) /\ (k >= NLive => T = Allowed(Live, allow))
    BY <1>1, <2>1, FilteredIs
  <2>. QED  BY <1>1, <1>3, <2>2
<1>8. CASE index.arm = "Ooc"
  <2>1. T = {}
    BY <1>8 DEF FlatSearch
  <2>2. CellScoped
    BY <1>8, IndexIs DEF CellScoped
  <2>. QED  BY <2>1, <2>2
<1>. QED  BY <1>2, <1>4, <1>5, <1>6, <1>7, <1>8

\* The same of a search through cells; its reach is their mask.
LEMMA SearchIs ==
  ASSUME index \in Index, NEW cells, NEW k \in Nat, NEW allow, NEW T \in Search(cells, k, allow)
  PROVE  /\ T \subseteq Live
         /\ allow # NoAllow => \A s \in T : s.row \in allow
         /\ k >= NLive => T = Mask(cells, allow)
<1>1. IsFiniteSet(Live) /\ Cardinality(Live) <= NLive /\ NLive \in Nat /\ Cardinality(Live) \in Nat
  BY LiveIs, SlotsAre
<1>2. /\ Mask(cells, allow) \subseteq Live
      /\ allow # NoAllow => \A s \in Mask(cells, allow) : s.row \in allow
  BY DEF Mask, Allowed
<1>3. /\ IsFiniteSet(Mask(cells, allow)) /\ Cardinality(Mask(cells, allow)) <= Cardinality(Live)
      /\ Cardinality(Mask(cells, allow)) \in Nat
  BY <1>1, <1>2, FS_Subset, FS_CardinalityType
<1>4. T \subseteq Mask(cells, allow) /\ (k >= Cardinality(Mask(cells, allow)) => T = Mask(cells, allow))
  BY <1>3, TopIs DEF Search
<1>. QED  BY <1>1, <1>2, <1>3, <1>4

\* A probe is so many cells.
LEMMA ProbeIs ==
  ASSUME NEW p, NEW cells \in Probe(p)
  PROVE  cells \subseteq 1 .. index.lists /\ Cardinality(cells) = p
BY DEF Probe, kSubset

-----------------------------------------------------------------------------
(* Batches.                                                                *)

\* populate_batch appends the rows found that were not returned before: of a
\* row no more than it has slots.
LEMMA BatchIs ==
  ASSUME index \in Index, NEW results \in Seq(Row), NEW emitted, NEW found \in SUBSET Slots,
         NEW R, R = PopulateBatch(results, emitted, found)
  PROVE  /\ R \in Seq(Row) /\ Len(R) >= Len(results)
         /\ \A i \in 1 .. Len(results) : R[i] = results[i]
         /\ \A i \in 1 .. Len(R) :
              i > Len(results) => \E s \in found : R[i] = s.row /\ s.row \notin emitted
         /\ \A s \in found : s.row \in emitted \/ \E i \in 1 .. Len(R) : R[i] = s.row
         /\ \A r \in Row : r \in emitted => Times(R, r) = Times(results, r)
         /\ (\A i \in 1 .. Len(results) : results[i] \in emitted) =>
              \A r \in Row : r \notin emitted => Times(R, r) <= Cardinality(index.cells[r])
<1>. DEFINE N == {s \in found : s.row \notin emitted}
            m == Cardinality(N)
            fresh == SetToSeq(N)
            rows == [i \in DOMAIN fresh |-> fresh[i].row]
<1>1. IsFiniteSet(N) /\ m \in Nat
  <2>1. N \in SUBSET Slots /\ IsFiniteSet(Slots)
    BY SlotsAre
  <2>. HIDE DEF N
  <2>. QED  BY <2>1, FS_Subset, FS_CardinalityType
<1>2. /\ fresh \in [1 .. m -> N]
      /\ \A i, j \in 1 .. m : fresh[i] = fresh[j] => i = j
  <2>. HIDE DEF N
  <2>1. \E s \in [1 .. m -> N] : IsInjective(s)
    BY <1>1, ListingExists DEF IsInjective
  <2>2. fresh \in [1 .. m -> N] /\ IsInjective(fresh)
    BY <2>1 DEF SetToSeq
  <2>. HIDE DEF fresh, m
  <2>. QED  BY <2>2 DEF IsInjective
<1>3. /\ DOMAIN fresh = 1 .. m
      /\ \A x \in N : \E i \in 1 .. m : fresh[i] = x
  <2>. HIDE DEF N, fresh
  <2>. QED  BY <1>1, <1>2, InjectiveListing
<1>4. R = results \o rows
  BY DEF PopulateBatch
<1>. HIDE DEF m, fresh
<1>5. \A i \in 1 .. m : /\ fresh[i] \in found /\ fresh[i] \in Slots /\ fresh[i].row \in Row
                        /\ fresh[i].row \notin emitted /\ rows[i] = fresh[i].row
  <2>1. SUFFICES ASSUME NEW i \in 1 .. m
                 PROVE  /\ fresh[i] \in found /\ fresh[i].row \notin emitted
                        /\ rows[i] = fresh[i].row
    BY SlotsAre
  <2>2. fresh[i] \in N
    BY <1>2
  <2>3. rows[i] = fresh[i].row
    BY <1>3
  <2>. QED  BY <2>2, <2>3
<1>6. rows \in Seq(Row) /\ Len(rows) = m
  BY <1>1, <1>3, <1>5
<1>. HIDE DEF rows
<1>7. PICK n \in Nat : n = Len(results)
  OBVIOUS
<1>8. /\ R \in Seq(Row) /\ Len(R) = n + m /\ DOMAIN R = 1 .. n + m
      /\ \A i \in 1 .. n : R[i] = results[i]
      /\ \A i \in 1 .. m : R[n + i] = rows[i]
  <2>. HIDE DEF N
  <2>1. R \in Seq(Row) /\ Len(R) = n + m
    BY <1>1, <1>4, <1>6, <1>7
  <2>2. DOMAIN R = 1 .. n + m
    BY <2>1
  <2>3. \A i \in 1 .. n : R[i] = results[i]
    BY <1>1, <1>4, <1>6, <1>7
  <2>4. \A i \in 1 .. m : R[n + i] = rows[i]
    BY <1>1, <1>4, <1>6, <1>7
  <2>. QED  BY <2>1, <2>2, <2>3, <2>4
<1>9. \A i \in 1 .. n + m : i > n => i - n \in 1 .. m /\ R[i] = rows[i - n]
  <2>1. SUFFICES ASSUME NEW i \in 1 .. n + m, i > n PROVE i - n \in 1 .. m /\ R[i] = rows[i - n]
    OBVIOUS
  <2>2. i - n \in 1 .. m /\ n + (i - n) = i
    BY <1>1, <1>7, <2>1
  <2>. QED  BY <1>8, <2>2
<1>10. \A i \in 1 .. n + m : i > n => \E s \in found : R[i] = s.row /\ s.row \notin emitted
  BY <1>5, <1>9
<1>11. \A s \in found : s.row \in emitted \/ \E i \in 1 .. n + m : R[i] = s.row
  <2>1. SUFFICES ASSUME NEW s \in found, s.row \notin emitted PROVE \E i \in 1 .. n + m : R[i] = s.row
    OBVIOUS
  <2>2. PICK i \in 1 .. m : fresh[i] = s
    BY <1>3, <2>1
  <2>3. n + i \in 1 .. n + m /\ R[n + i] = s.row
    BY <1>1, <1>5, <1>7, <1>8, <2>2
  <2>. QED  BY <2>3
<1>12. ASSUME NEW r \in Row, r \in emitted PROVE Times(R, r) = Times(results, r)
  <2>1. \A i \in 1 .. n + m : R[i] = r => i \in 1 .. n
    BY <1>1, <1>7, <1>10, <1>12
  <2>2. {i \in DOMAIN R : R[i] = r} = {i \in DOMAIN results : results[i] = r}
    BY <1>1, <1>7, <1>8, <2>1
  <2>. QED  BY <2>2 DEF Times
<1>13. ASSUME NEW r \in Row, r \notin emitted, \A i \in 1 .. n : results[i] \in emitted
       PROVE  Times(R, r) <= Cardinality(index.cells[r])
  <2>. DEFINE O == {i \in DOMAIN R : R[i] = r}
              f == [i \in O |-> fresh[i - n].cell]
  <2>1. \A i \in O : i \in 1 .. n + m /\ i - n \in 1 .. m /\ fresh[i - n].row = r
    <3>1. SUFFICES ASSUME NEW i \in O
                   PROVE  i \in 1 .. n + m /\ i - n \in 1 .. m /\ fresh[i - n].row = r
      OBVIOUS
    <3>2. i \in 1 .. n + m /\ R[i] = r
      BY <1>8
    <3>3. i \notin 1 .. n
      BY <1>8, <1>13, <3>2
    <3>4. i > n
      BY <1>1, <1>7, <3>2, <3>3
    <3>. QED  BY <1>5, <1>9, <3>2, <3>4
  <2>. HIDE DEF O
  <2>2. \A i \in O : f[i] \in index.cells[r] /\ fresh[i - n] = [row |-> r, cell |-> f[i]]
    BY <1>5, <2>1, SlotsAre
  <2>3. f \in [O -> index.cells[r]]
    BY <2>2
  <2>4. \A i, j \in O : f[i] = f[j] => i = j
    <3>1. SUFFICES ASSUME NEW i \in O, NEW j \in O, f[i] = f[j] PROVE i = j
      OBVIOUS
    <3>. HIDE DEF f
    <3>2. fresh[i - n] = fresh[j - n]
      BY <2>2, <3>1
    <3>3. i - n = j - n
      BY <1>2, <2>1, <3>2
    <3>. QED  BY <1>7, <2>1, <3>3
  <2>5. f \in Injection(O, index.cells[r])
    BY <2>3, <2>4 DEF Injection, IsInjective
  <2>6. Cardinality(O) <= Cardinality(index.cells[r])
    BY <2>5, SlotsAre, FS_Injection
  <2>. QED  BY <2>6 DEF Times, O
<1>14. n + m >= n
  BY <1>1, <1>7
<1>. QED  BY <1>7, <1>8, <1>10, <1>11, <1>12, <1>13, <1>14

-----------------------------------------------------------------------------
(* The two searches of a scan.                                             *)

\* What the settings in force can be.
LEMMA SettingsAre ==
  ASSUME TypeOK
  PROVE  /\ guc.set.k \in Nat \ {0} /\ guc.set.probes \in Nat \ {0} /\ guc.set.maxProbes \in Nat \ {0}
         /\ guc.set.maxScan \in Nat \ {0} /\ guc.set.iterative \in BOOLEAN
         /\ guc.set.allow \in {NoAllow} \cup SUBSET Row
         /\ index.lists \in Nat /\ NLive \in Nat
<1>1. guc.set \in Settings /\ index \in Index
  BY DEF TypeOK
<1>2. guc.set \in [iterative : BOOLEAN, k : Nat \ {0}, probes : Nat \ {0},
                   maxProbes : Nat \ {0}, maxScan : Nat \ {0},
                   allow : {NoAllow} \cup ((SUBSET Row) \ {{}})]
  BY <1>1, SettingsAssumption
<1>3. index.lists \in Nat /\ NLive \in Nat
  BY <1>1, IndexIs, SlotsAre
<1>. QED  BY <1>2, <1>3

\* The first search of a scan with this k and allowlist.
FirstSearch(k, allow) ==
  \E T \in SUBSET Slots, ivf \in BOOLEAN, probes \in 0 .. index.lists,
     cells \in SUBSET (1 .. index.lists) :
    /\ scan' = [scan EXCEPT !.results = PopulateBatch(<<>>, scan.emitted, T),
                            !.cursor = 0, !.k = k, !.allow = allow, !.ivf = ivf,
                            !.probes = probes, !.cells = cells]
    /\ ivf = CellScoped /\ Cardinality(cells) = probes
    /\ index.arm # "Mutable" => T \subseteq Live
    /\ allow # NoAllow /\ index.arm # "Graph" => \A s \in T : s.row \in allow
    /\ k >= NLive => (IF ivf THEN Mask(cells, allow) ELSE Allowed(Live, allow)) \subseteq T

LEMMA FirstFound ==
  ASSUME TypeOK, FirstCall, NEW k, k = AtMost(guc.set.k, NLive), NEW allow, allow = guc.set.allow
  PROVE  k \in Nat /\ FirstSearch(k, allow)
<1>. DEFINE p == AtMost(guc.set.probes, index.lists)
            New(found, ivf, probes, cells) ==
              scan' = [scan EXCEPT !.results = PopulateBatch(<<>>, scan.emitted, found),
                                   !.cursor = 0, !.k = k, !.allow = allow, !.ivf = ivf,
                                   !.probes = probes, !.cells = cells]
<1>1. k \in Nat /\ p \in 0 .. index.lists /\ 0 \in 0 .. index.lists
  BY SettingsAre DEF AtMost
<1>2. index \in Index /\ Live \subseteq Slots
  BY LiveIs DEF TypeOK
<1>3. CASE CellScoped
  <2>1. PICK cells \in Probe(p) : \E T \in Search(cells, k, allow) : New(T, TRUE, p, cells)
    <3>1. index.arm # "Graph"
      BY <1>3 DEF CellScoped
    <3>. QED  BY <1>3, <3>1, Zenon DEF FirstCall
  <2>5. PICK T \in Search(cells, k, allow) : New(T, TRUE, p, cells)
    BY <2>1
  <2>. HIDE DEF New, p
  <2>2. cells \subseteq 1 .. index.lists /\ Cardinality(cells) = p
    BY <2>1, ProbeIs
  <2>3. /\ T \subseteq Live
        /\ allow # NoAllow => \A s \in T : s.row \in allow
        /\ k >= NLive => T = Mask(cells, allow)
    BY <1>1, <1>2, <2>5, SearchIs
  <2>4. \E TT \in SUBSET Slots, ivf \in BOOLEAN, probes \in 0 .. index.lists,
           cc \in SUBSET (1 .. index.lists) :
          /\ New(TT, ivf, probes, cc)
          /\ ivf = CellScoped /\ Cardinality(cc) = probes
          /\ index.arm # "Mutable" => TT \subseteq Live
          /\ allow # NoAllow /\ index.arm # "Graph" => \A s \in TT : s.row \in allow
          /\ k >= NLive => (IF ivf THEN Mask(cc, allow) ELSE Allowed(Live, allow)) \subseteq TT
    <3>1. T \in SUBSET Slots /\ cells \in SUBSET (1 .. index.lists)
      BY <1>2, <2>2, <2>3
    <3>. QED  BY <1>1, <1>3, <2>5, <2>2, <2>3, <3>1
  <2>. QED  BY <1>1, <2>4 DEF New, FirstSearch
<1>4. ASSUME ~ CellScoped, NEW T \in SUBSET Slots, New(T, FALSE, 0, {}),
             index.arm # "Mutable" => T \subseteq Live,
             allow # NoAllow /\ index.arm # "Graph" => \A s \in T : s.row \in allow,
             k >= NLive => Allowed(Live, allow) \subseteq T
      PROVE  \E TT \in SUBSET Slots, ivf \in BOOLEAN, probes \in 0 .. index.lists,
                cc \in SUBSET (1 .. index.lists) :
               /\ New(TT, ivf, probes, cc)
               /\ ivf = CellScoped /\ Cardinality(cc) = probes
               /\ index.arm # "Mutable" => TT \subseteq Live
               /\ allow # NoAllow /\ index.arm # "Graph" => \A s \in TT : s.row \in allow
               /\ k >= NLive => (IF ivf THEN Mask(cc, allow) ELSE Allowed(Live, allow)) \subseteq TT
  <2>. HIDE DEF New, p
  <2>1. Cardinality({}) = 0 /\ {} \in SUBSET (1 .. index.lists) /\ FALSE \in BOOLEAN
    BY FS_EmptySet
  <2>2. T \in SUBSET Slots /\ 0 \in 0 .. index.lists
    BY <1>1, <1>4
  <2>3. FALSE = CellScoped
    BY <1>4 DEF CellScoped
  <2>4. k >= NLive => (IF FALSE THEN Mask({}, allow) ELSE Allowed(Live, allow)) \subseteq T
    BY <1>4
  <2>. USE <2>1, <2>2
  <2>. WITNESS T \in SUBSET Slots, FALSE \in BOOLEAN, 0 \in 0 .. index.lists, {} \in SUBSET (1 .. index.lists)
  <2>. QED  BY <1>4, <2>1, <2>3, <2>4
<1>5. CASE ~ CellScoped /\ index.arm = "Graph"
  <2>1. PICK T \in Top(Live, k) : New(T, FALSE, 0, {})
    BY <1>5 DEF FirstCall
  <2>. HIDE DEF New, p
  <2>2. IsFiniteSet(Live) /\ Cardinality(Live) <= NLive /\ Cardinality(Live) \in Nat /\ NLive \in Nat
    BY <1>2, LiveIs, SlotsAre
  <2>3. T \subseteq Live /\ (k >= NLive => T = Live)
    BY <1>1, <2>1, <2>2, TopIs
  <2>4. Allowed(Live, allow) \subseteq Live
    BY DEF Allowed
  <2>5. T \in SUBSET Slots
    BY <1>2, <2>3
  <2>6. \E TT \in SUBSET Slots, ivf \in BOOLEAN, probes \in 0 .. index.lists,
           cc \in SUBSET (1 .. index.lists) :
          /\ New(TT, ivf, probes, cc)
          /\ ivf = CellScoped /\ Cardinality(cc) = probes
          /\ index.arm # "Mutable" => TT \subseteq Live
          /\ allow # NoAllow /\ index.arm # "Graph" => \A s \in TT : s.row \in allow
          /\ k >= NLive => (IF ivf THEN Mask(cc, allow) ELSE Allowed(Live, allow)) \subseteq TT
    BY <1>4, <1>5, <2>1, <2>3, <2>4, <2>5
  <2>. QED  BY <1>1, <2>6 DEF New, FirstSearch
<1>6. CASE ~ CellScoped /\ index.arm # "Graph"
  <2>1. PICK T \in FlatSearch(k, allow) : New(T, FALSE, 0, {})
    BY <1>6 DEF FirstCall
  <2>. HIDE DEF New, p
  <2>2. /\ T \subseteq Slots /\ (index.arm # "Mutable" => T \subseteq Live)
        /\ allow # NoAllow => \A s \in T : s.row \in allow
        /\ k >= NLive => Allowed(Live, allow) \subseteq T
    BY <1>1, <1>2, <1>6, <2>1, FlatSearchIs
  <2>3. \E TT \in SUBSET Slots, ivf \in BOOLEAN, probes \in 0 .. index.lists,
           cc \in SUBSET (1 .. index.lists) :
          /\ New(TT, ivf, probes, cc)
          /\ ivf = CellScoped /\ Cardinality(cc) = probes
          /\ index.arm # "Mutable" => TT \subseteq Live
          /\ allow # NoAllow /\ index.arm # "Graph" => \A s \in TT : s.row \in allow
          /\ k >= NLive => (IF ivf THEN Mask(cc, allow) ELSE Allowed(Live, allow)) \subseteq TT
    BY <1>4, <1>6, <2>1, <2>2
  <2>. QED  BY <1>1, <2>3 DEF New, FirstSearch
<1>. QED  BY <1>3, <1>5, <1>6

LEMMA RefillFound ==
  ASSUME TypeOK, Refill, scan.ivf = CellScoped, Cardinality(scan.cells) = scan.probes
  PROVE  \E T \in SUBSET Slots, k \in Nat, probes \in 0 .. index.lists,
            cells \in SUBSET (1 .. index.lists) :
           /\ scan' = [scan EXCEPT !.results = PopulateBatch(scan.results, scan.emitted, T),
                                   !.k = k, !.probes = probes, !.cells = cells]
           /\ phase' = IF Len(scan'.results) > Len(scan.results) \/ CanWiden(probes) \/ CanGrow(k)
                       THEN "inside" ELSE "ended"
           /\ Cardinality(cells) = probes
           /\ index.arm # "Mutable" => T \subseteq Live
           /\ scan.allow # NoAllow => \A s \in T : s.row \in scan.allow
           /\ k >= NLive =>
                (IF scan.ivf THEN Mask(cells, scan.allow) ELSE Allowed(Live, scan.allow)) \subseteq T
<1>. DEFINE k == NextK(scan.k)
            p == IF CanWiden(scan.probes) THEN NextProbes(scan.probes) ELSE scan.probes
            New(found, cells) ==
              /\ scan' = [scan EXCEPT !.results = PopulateBatch(scan.results, scan.emitted, found),
                                      !.k = k, !.probes = p, !.cells = cells]
              /\ phase' = IF \/ Len(PopulateBatch(scan.results, scan.emitted, found)) > Len(scan.results)
                             \/ CanWiden(p) \/ CanGrow(k)
                          THEN "inside" ELSE "ended"
            Right(T, cells) ==
              /\ Cardinality(cells) = p
              /\ index.arm # "Mutable" => T \subseteq Live
              /\ scan.allow # NoAllow => \A s \in T : s.row \in scan.allow
              /\ k >= NLive =>
                   (IF scan.ivf THEN Mask(cells, scan.allow) ELSE Allowed(Live, scan.allow)) \subseteq T
<1>1. /\ scan.k \in Nat /\ scan.probes \in 0 .. index.lists /\ scan.cells \subseteq 1 .. index.lists
      /\ index \in Index /\ Live \subseteq Slots
  BY LiveIs DEF TypeOK
<1>2. k \in Nat
  <2>1. Ceiling \in Nat
    BY SettingsAre DEF Ceiling, AtMost
  <2>. QED  BY <1>1, <2>1 DEF NextK, AtLeast, AtMost
<1>3. p \in 0 .. index.lists
  <2>1. ProbeCap \in 0 .. index.lists
    BY SettingsAre DEF ProbeCap, AtMost
  <2>2. CanWiden(scan.probes) => scan.probes < ProbeCap
    BY DEF CanWiden
  <2>3. CASE CanWiden(scan.probes)
    <3>1. NextProbes(scan.probes) \in 0 .. index.lists
      BY <1>1, <2>1, <2>2, <2>3, SettingsAre DEF NextProbes, AtLeast, AtMost
    <3>. QED  BY <2>3, <3>1
  <2>. QED  BY <1>1, <2>3
<1>4. \E T \in SUBSET Slots, cells \in SUBSET (1 .. index.lists) : New(T, cells) /\ Right(T, cells)
  <2>1. CASE scan.ivf
    <3>1. PICK cells \in IF p = scan.probes THEN {scan.cells} ELSE Probe(p) :
                 \E T \in Search(cells, k, scan.allow) : New(T, cells)
      BY <2>1 DEF Refill, RefillGoesOn
    <3>5. PICK T \in Search(cells, k, scan.allow) : New(T, cells)
      BY <3>1
    <3>. HIDE DEF New, k, p
    <3>2. cells \subseteq 1 .. index.lists /\ Cardinality(cells) = p
      <4>1. CASE p = scan.probes
        BY <1>1, <3>1, <4>1
      <4>2. CASE p # scan.probes
        BY <3>1, <4>2, ProbeIs
      <4>. QED  BY <4>1, <4>2
    <3>3. /\ T \subseteq Live
          /\ scan.allow # NoAllow => \A s \in T : s.row \in scan.allow
          /\ k >= NLive => T = Mask(cells, scan.allow)
      BY <1>1, <1>2, <3>5, SearchIs
    <3>4. T \in SUBSET Slots /\ cells \in SUBSET (1 .. index.lists)
      BY <1>1, <3>2, <3>3
    <3>. QED  BY <2>1, <3>5, <3>2, <3>3, <3>4
  <2>2. CASE ~ scan.ivf
    <3>1. PICK T \in FlatSearch(k, scan.allow) : New(T, scan.cells)
      BY <2>2 DEF Refill, RefillGoesOn
    <3>2. p = scan.probes
      BY <2>2 DEF CanWiden
    <3>. HIDE DEF New, k, p
    <3>3. /\ T \subseteq Slots /\ (index.arm # "Mutable" => T \subseteq Live)
          /\ scan.allow # NoAllow => \A s \in T : s.row \in scan.allow
          /\ k >= NLive => Allowed(Live, scan.allow) \subseteq T
      BY <1>1, <1>2, <2>2, <3>1, FlatSearchIs
    <3>4. T \in SUBSET Slots /\ scan.cells \in SUBSET (1 .. index.lists)
      BY <1>1, <3>3
    <3>. QED  BY <2>2, <3>1, <3>2, <3>3, <3>4
  <2>. QED  BY <2>1, <2>2 DEF TypeOK
<1>5. PICK T \in SUBSET Slots, cells \in SUBSET (1 .. index.lists) : New(T, cells) /\ Right(T, cells)
  BY <1>4
<1>6. scan'.results = PopulateBatch(scan.results, scan.emitted, T)
  BY <1>5 DEF TypeOK
<1>. QED  BY <1>2, <1>3, <1>5, <1>6

\* One search of a drained scan: what it appends is as good as what is there.
LEMMA BatchStep ==
  ASSUME index \in Index, index' = index, scan.results \in Seq(Row), CursorRight, BatchRight,
         scan.cursor = Len(scan.results), NEW T \in SUBSET Slots,
         scan'.results = PopulateBatch(scan.results, scan.emitted, T),
         scan'.emitted = scan.emitted, scan'.cursor = scan.cursor,
         scan.results = <<>> \/ scan'.allow = scan.allow,
         index.arm # "Mutable" => T \subseteq Live,
         scan'.allow # NoAllow /\ index.arm # "Graph" => \A s \in T : s.row \in scan'.allow
  PROVE  /\ scan'.results \in Seq(Row) /\ scan'.cursor <= Len(scan'.results)
         /\ scan'.emitted = {scan'.results[i] : i \in 1 .. scan'.cursor}
         /\ BatchRight'
         /\ RowsOf(T) \subseteq ToSet(scan'.results)
<1>1. PICK n \in Nat : n = Len(scan.results) /\ scan.cursor = n
  OBVIOUS
<1>2. scan.emitted = {scan.results[i] : i \in 1 .. n}
  BY <1>1 DEF CursorRight
<1>3. PICK R : R = PopulateBatch(scan.results, scan.emitted, T)
  OBVIOUS
<1>4. /\ R \in Seq(Row) /\ Len(R) >= n
      /\ \A i \in 1 .. n : R[i] = scan.results[i]
      /\ \A i \in 1 .. Len(R) :
           i > n => \E s \in T : R[i] = s.row /\ s.row \notin scan.emitted
      /\ \A s \in T : s.row \in scan.emitted \/ \E i \in 1 .. Len(R) : R[i] = s.row
      /\ \A r \in Row : r \in scan.emitted => Times(R, r) = Times(scan.results, r)
      /\ (\A i \in 1 .. n : scan.results[i] \in scan.emitted) =>
           \A r \in Row : r \notin scan.emitted => Times(R, r) <= Cardinality(index.cells[r])
  BY <1>1, <1>3, BatchIs
<1>5. \A i \in 1 .. n : scan.results[i] \in scan.emitted
  BY <1>2
<1>6. PICK m \in Nat : m = Len(R) /\ m >= n /\ DOMAIN R = 1 .. m
  BY <1>4
<1>7. scan'.results = R
  BY <1>3
<1>8. scan'.emitted = {R[i] : i \in 1 .. n}
  <2>1. {scan.results[i] : i \in 1 .. n} = {R[i] : i \in 1 .. n}
    BY <1>4
  <2>. QED  BY <1>2, <2>1
<1>9. \A r \in Row : Times(R, r) <= Cardinality(index.cells[r])
  BY <1>4, <1>5 DEF BatchRight
<1>10. \A i \in 1 .. m : Candidate(R[i])'
  <2>1. SUFFICES ASSUME NEW i \in 1 .. m PROVE Candidate(R[i])'
    OBVIOUS
  <2>3. CASE i \in 1 .. n
    <3>1. Candidate(scan.results[i]) /\ R[i] = scan.results[i]
      BY <1>1, <1>4, <2>3 DEF BatchRight
    <3>2. scan'.allow = scan.allow
      BY <1>1, <2>3
    <3>. QED  BY <3>1, <3>2 DEF Candidate
  <2>4. CASE i \notin 1 .. n
    <3>1. i > n
      BY <1>6, <2>4
    <3>2. PICK s \in T : R[i] = s.row
      BY <1>4, <1>6, <3>1
    <3>3. s \in Slots /\ (index.arm # "Mutable" => s \in Live)
      OBVIOUS
    <3>4. scan'.allow # NoAllow /\ index.arm # "Graph" => s.row \in scan'.allow
      OBVIOUS
    <3>5. index.cells[s.row] # {} /\ (index.arm = "Mutable" \/ s.row \notin index.dead)
      BY <3>3, SlotsAre DEF Live
    <3>. QED  BY <3>2, <3>4, <3>5 DEF Candidate
  <2>. QED  BY <2>3, <2>4
<1>11. BatchRight'
  BY <1>6, <1>7, <1>9, <1>10 DEF BatchRight
<1>12. RowsOf(T) \subseteq ToSet(R)
  <2>1. \A s \in T : s.row \in scan.emitted => \E i \in 1 .. n : s.row = R[i]
    BY <1>2, <1>4
  <2>2. \A s \in T : \E i \in 1 .. m : s.row = R[i]
    BY <1>4, <1>6, <2>1
  <2>. QED  BY <1>6, <2>2 DEF RowsOf, ToSet
<1>13. scan'.cursor = n
  BY <1>1
<1>. QED  BY <1>1, <1>4, <1>6, <1>7, <1>8, <1>11, <1>12, <1>13

-----------------------------------------------------------------------------
(* Every step keeps the invariant.                                         *)

\* What a search reaches.
LEMMA SameReach ==
  ASSUME index' = index, scan'.ivf = scan.ivf, scan'.cells = scan.cells, scan'.allow = scan.allow
  PROVE  Reach' = Reach
BY SameIndex DEF Reach, Mask, Allowed

LEMMA InitScanInv ==
  ASSUME Init
  PROVE  ScanInv
<1>1. scan = Scan0 /\ phase = "open" /\ index \in Index
  BY DEF Init
<1>2. index.lists \in Nat
  BY <1>1, IndexIs
<1>3. TypeOK
  <2>1. guc \in [set : Settings, changes : 0 .. MaxSets] /\ rescans \in 0 .. MaxRescans
    BY BoundsAssumption DEF Init
  <2>2. scan \in [results : Seq(Row), cursor : Nat, emitted : SUBSET Row, k : Nat,
                  allow : {NoAllow} \cup SUBSET Row, ivf : BOOLEAN,
                  probes : 0 .. index.lists, cells : SUBSET (1 .. index.lists)]
    BY <1>1, <1>2 DEF Scan0
  <2>. QED  BY <1>1, <2>1, <2>2 DEF TypeOK
<1>4. CursorRight
  <2>1. Scan0.cursor = 0 /\ Scan0.results = <<>> /\ Scan0.emitted = {}
    BY DEF Scan0
  <2>. QED  BY <1>1, <2>1 DEF CursorRight
<1>5. BatchRight
  <2>1. scan.results = <<>> /\ DOMAIN <<>> = {}
    BY <1>1 DEF Scan0
  <2>2. \A r \in Row : Times(scan.results, r) = 0
    BY <2>1, FS_EmptySet DEF Times
  <2>3. \A r \in Row : Cardinality(index.cells[r]) >= 0
    BY <1>1, SlotsAre
  <2>. QED  BY <2>1, <2>2, <2>3 DEF BatchRight
<1>. QED  BY <1>1, <1>3, <1>4, <1>5 DEF ScanInv, LastSearch, EndIsExhausted

LEMMA FirstCallKeeps ==
  ASSUME ScanInv, FirstCall
  PROVE  ScanInv'
<1>0. PICK k, allow : k = AtMost(guc.set.k, NLive) /\ allow = guc.set.allow
  OBVIOUS
<1>1. /\ TypeOK /\ CursorRight /\ BatchRight /\ index \in Index /\ index' = index /\ guc' = guc
      /\ rescans' = rescans /\ phase = "open" /\ phase' = "inside" /\ NLive > 0
  BY DEF ScanInv, TypeOK, FirstCall
<1>2. PICK T \in SUBSET Slots, ivf \in BOOLEAN, probes \in 0 .. index.lists,
           cells \in SUBSET (1 .. index.lists) :
        /\ scan' = [scan EXCEPT !.results = PopulateBatch(<<>>, scan.emitted, T),
                                !.cursor = 0, !.k = k, !.allow = allow, !.ivf = ivf,
                                !.probes = probes, !.cells = cells]
        /\ ivf = CellScoped /\ Cardinality(cells) = probes
        /\ index.arm # "Mutable" => T \subseteq Live
        /\ allow # NoAllow /\ index.arm # "Graph" => \A s \in T : s.row \in allow
        /\ k >= NLive => (IF ivf THEN Mask(cells, allow) ELSE Allowed(Live, allow)) \subseteq T
  <2>1. FirstSearch(k, allow)
    BY <1>0, <1>1, FirstFound
  <2>. QED  BY <2>1, Zenon DEF FirstSearch
<1>3. k \in Nat /\ allow \in {NoAllow} \cup SUBSET Row
  BY <1>0, <1>1, FirstFound, SettingsAre
<1>4. /\ scan = Scan0 /\ scan.results = <<>> /\ scan.cursor = 0 /\ scan.emitted = {}
      /\ Len(scan.results) = 0
  BY <1>1 DEF CursorRight, Scan0
<1>5. /\ scan'.results = PopulateBatch(scan.results, scan.emitted, T)
      /\ scan'.cursor = scan.cursor /\ scan'.emitted = scan.emitted /\ scan'.k = k
      /\ scan'.allow = allow /\ scan'.ivf = ivf /\ scan'.probes = probes /\ scan'.cells = cells
      /\ scan' = [scan EXCEPT !.results = scan'.results, !.cursor = 0, !.k = k, !.allow = allow,
                              !.ivf = ivf, !.probes = probes, !.cells = cells]
  BY <1>1, <1>2, <1>4 DEF TypeOK
<1>6. /\ scan'.results \in Seq(Row) /\ scan'.cursor <= Len(scan'.results)
      /\ scan'.emitted = {scan'.results[i] : i \in 1 .. scan'.cursor}
      /\ BatchRight'
      /\ RowsOf(T) \subseteq ToSet(scan'.results)
  <2>1. /\ scan.results \in Seq(Row) /\ scan.cursor = Len(scan.results)
        /\ scan'.allow # NoAllow /\ index.arm # "Graph" => \A s \in T : s.row \in scan'.allow
    BY <1>1, <1>2, <1>4, <1>5 DEF TypeOK
  <2>. QED  BY <1>1, <1>2, <1>4, <1>5, <2>1, BatchStep
<1>7. TypeOK'
  <2>1. scan' \in [results : Seq(Row), cursor : Nat, emitted : SUBSET Row, k : Nat,
                   allow : {NoAllow} \cup SUBSET Row, ivf : BOOLEAN,
                   probes : 0 .. index.lists, cells : SUBSET (1 .. index.lists)]
    BY <1>1, <1>3, <1>5, <1>6 DEF TypeOK
  <2>. QED  BY <1>1, <2>1 DEF TypeOK
<1>8. LastSearch'
  <2>1. NLive' = NLive /\ Live' = Live /\ CellScoped' = CellScoped
    BY <1>1, SameIndex
  <2>2. Reach' = IF ivf THEN Mask(cells, allow) ELSE Allowed(Live, allow)
    BY <1>5, <2>1 DEF Reach, Mask, Allowed
  <2>3. scan'.k >= NLive' => RowsOf(Reach') \subseteq ToSet(scan'.results)
    <3>1. SUFFICES ASSUME k >= NLive PROVE RowsOf(Reach') \subseteq ToSet(scan'.results)
      BY <1>5, <2>1
    <3>2. Reach' \subseteq T
      BY <1>2, <2>2, <3>1
    <3>. QED  BY <1>6, <3>2 DEF RowsOf
  <2>. QED  BY <1>1, <1>2, <1>5, <2>1, <2>3 DEF LastSearch
<1>9. CursorRight' /\ EndIsExhausted'
  BY <1>1, <1>6 DEF CursorRight, EndIsExhausted
<1>. QED  BY <1>6, <1>7, <1>8, <1>9 DEF ScanInv

\* A larger search: cells are as many as it was told, and the scan ends only if
\* it brought nothing and no larger one is left.
LEMMA RefillKeeps ==
  ASSUME ScanInv, Refill
  PROVE  ScanInv'
<1>1. /\ TypeOK /\ CursorRight /\ BatchRight /\ index \in Index /\ index' = index /\ guc' = guc
      /\ rescans' = rescans /\ phase = "inside" /\ scan.cursor = Len(scan.results) /\ LastSearch
  BY DEF ScanInv, TypeOK, Refill, Drained
<1>2. NLive > 0 /\ scan.ivf = CellScoped /\ Cardinality(scan.cells) = scan.probes
  BY <1>1 DEF LastSearch
<1>3. PICK T \in SUBSET Slots, k \in Nat, probes \in 0 .. index.lists,
            cells \in SUBSET (1 .. index.lists) :
        /\ scan' = [scan EXCEPT !.results = PopulateBatch(scan.results, scan.emitted, T),
                                !.k = k, !.probes = probes, !.cells = cells]
        /\ phase' = IF Len(scan'.results) > Len(scan.results) \/ CanWiden(probes) \/ CanGrow(k)
                    THEN "inside" ELSE "ended"
        /\ Cardinality(cells) = probes
        /\ index.arm # "Mutable" => T \subseteq Live
        /\ scan.allow # NoAllow => \A s \in T : s.row \in scan.allow
        /\ k >= NLive =>
             (IF scan.ivf THEN Mask(cells, scan.allow) ELSE Allowed(Live, scan.allow)) \subseteq T
  BY <1>1, <1>2, RefillFound, Zenon
<1>4. /\ scan'.results = PopulateBatch(scan.results, scan.emitted, T)
      /\ scan'.cursor = scan.cursor /\ scan'.emitted = scan.emitted /\ scan'.k = k
      /\ scan'.allow = scan.allow /\ scan'.ivf = scan.ivf /\ scan'.probes = probes
      /\ scan'.cells = cells
      /\ scan' = [scan EXCEPT !.results = scan'.results, !.k = k, !.probes = probes, !.cells = cells]
  BY <1>1, <1>3 DEF TypeOK
<1>5. /\ scan'.results \in Seq(Row) /\ scan'.cursor <= Len(scan'.results)
      /\ scan'.emitted = {scan'.results[i] : i \in 1 .. scan'.cursor}
      /\ BatchRight'
      /\ RowsOf(T) \subseteq ToSet(scan'.results)
  <2>1. /\ scan.results \in Seq(Row)
        /\ scan'.allow # NoAllow /\ index.arm # "Graph" => \A s \in T : s.row \in scan'.allow
    BY <1>1, <1>3, <1>4 DEF TypeOK
  <2>. QED  BY <1>1, <1>3, <1>4, <2>1, BatchStep
<1>6. TypeOK'
  <2>1. scan' \in [results : Seq(Row), cursor : Nat, emitted : SUBSET Row, k : Nat,
                   allow : {NoAllow} \cup SUBSET Row, ivf : BOOLEAN,
                   probes : 0 .. index.lists, cells : SUBSET (1 .. index.lists)]
    BY <1>1, <1>4, <1>5 DEF TypeOK
  <2>2. phase' \in {"open", "inside", "returned", "ended"}
    BY <1>3
  <2>. QED  BY <1>1, <2>1, <2>2 DEF TypeOK
<1>7. NLive' = NLive /\ Live' = Live /\ CellScoped' = CellScoped
  BY <1>1, SameIndex
<1>8. LastSearch'
  <2>1. Reach' = IF scan.ivf THEN Mask(cells, scan.allow) ELSE Allowed(Live, scan.allow)
    BY <1>4, <1>7 DEF Reach, Mask, Allowed
  <2>2. scan'.k >= NLive' => RowsOf(Reach') \subseteq ToSet(scan'.results)
    <3>1. SUFFICES ASSUME k >= NLive PROVE RowsOf(Reach') \subseteq ToSet(scan'.results)
      BY <1>4, <1>7
    <3>2. Reach' \subseteq T
      BY <1>3, <2>1, <3>1
    <3>. QED  BY <1>5, <3>2 DEF RowsOf
  <2>. QED  BY <1>2, <1>3, <1>4, <1>7, <2>2 DEF LastSearch
<1>9. phase' = "ended" => /\ Len(scan'.results) = scan'.cursor
                          /\ ~ CanWiden(probes) /\ ~ CanGrow(k)
  <2>1. Len(scan'.results) \in Nat /\ Len(scan.results) \in Nat
    BY <1>1, <1>5 DEF TypeOK
  <2>. QED  BY <1>1, <1>3, <1>4, <1>5, <2>1
<1>10. CursorRight'
  BY <1>3, <1>5, <1>9 DEF CursorRight
<1>11. EndIsExhausted'
  <2>1. CanWiden(probes)' = CanWiden(probes) /\ CanGrow(k)' = CanGrow(k)
    BY <1>1, <1>4, <1>7 DEF CanWiden, CanGrow, ProbeCap, Ceiling
  <2>. QED  BY <1>4, <1>9, <2>1 DEF EndIsExhausted, CanWiden, CanGrow
<1>. QED  BY <1>5, <1>6, <1>8, <1>10, <1>11 DEF ScanInv

LEMMA ReturnKeeps ==
  ASSUME ScanInv, Return
  PROVE  ScanInv'
<1>1. /\ TypeOK /\ CursorRight /\ BatchRight /\ LastSearch /\ index' = index /\ guc' = guc
      /\ rescans' = rescans /\ phase = "inside" /\ phase' = "returned"
      /\ scan.cursor < Len(scan.results)
      /\ scan' = [scan EXCEPT !.cursor = @ + 1,
                              !.emitted = @ \cup {scan.results[scan.cursor + 1]}]
  BY DEF ScanInv, Return
<1>2. /\ scan'.results = scan.results /\ scan'.cursor = scan.cursor + 1
      /\ scan'.emitted = scan.emitted \cup {scan.results[scan.cursor + 1]}
      /\ scan'.k = scan.k /\ scan'.allow = scan.allow /\ scan'.ivf = scan.ivf
      /\ scan'.probes = scan.probes /\ scan'.cells = scan.cells
      /\ scan.results \in Seq(Row) /\ scan.cursor \in Nat
  BY <1>1 DEF TypeOK
<1>3. TypeOK'
  <2>1. scan.results[scan.cursor + 1] \in Row
    BY <1>1, <1>2
  <2>2. /\ scan' = [scan EXCEPT !.cursor = scan'.cursor, !.emitted = scan'.emitted]
        /\ scan'.cursor \in Nat /\ scan'.emitted \in SUBSET Row
    BY <1>1, <1>2, <2>1 DEF TypeOK
  <2>3. scan' \in [results : Seq(Row), cursor : Nat, emitted : SUBSET Row, k : Nat,
                   allow : {NoAllow} \cup SUBSET Row, ivf : BOOLEAN,
                   probes : 0 .. index.lists, cells : SUBSET (1 .. index.lists)]
    BY <1>1, <2>2 DEF TypeOK
  <2>. QED  BY <1>1, <2>3 DEF TypeOK
<1>4. CursorRight'
  <2>1. scan'.cursor <= Len(scan'.results)
    BY <1>1, <1>2
  <2>2. 1 .. scan'.cursor = (1 .. scan.cursor) \cup {scan.cursor + 1}
    BY <1>2
  <2>3. scan'.emitted = {scan'.results[i] : i \in 1 .. scan'.cursor}
    BY <1>1, <1>2, <2>2 DEF CursorRight
  <2>. QED  BY <1>1, <2>1, <2>3 DEF CursorRight
<1>5. BatchRight'
  BY <1>1, <1>2 DEF BatchRight, Candidate
<1>6. LastSearch'
  BY <1>1, <1>2, SameIndex, SameReach DEF LastSearch
<1>. QED  BY <1>1, <1>3, <1>4, <1>5, <1>6 DEF ScanInv, EndIsExhausted

\* The steps that leave ScanOpaque as it is.
LEMMA OtherStepsKeep ==
  ASSUME ScanInv, FirstCallEmpty \/ Call \/ Exhausted \/ SetGuc \/ UNCHANGED vars
  PROVE  ScanInv'
<1>1. /\ TypeOK /\ CursorRight /\ BatchRight /\ LastSearch /\ EndIsExhausted
      /\ index' = index /\ scan' = scan /\ rescans' = rescans
  BY DEF ScanInv, FirstCallEmpty, Call, Exhausted, SetGuc, vars
<1>2. /\ phase' \in {"open", "inside", "returned", "ended"}
      /\ guc' \in [set : Settings, changes : 0 .. MaxSets]
  <2>1. CASE SetGuc
    <3>1. guc.changes \in 0 .. MaxSets /\ guc.changes < MaxSets /\ MaxSets \in Nat
      BY <1>1, <2>1, BoundsAssumption DEF TypeOK, SetGuc
    <3>2. guc.changes + 1 \in 0 .. MaxSets
      BY <3>1
    <3>. QED  BY <1>1, <2>1, <3>2 DEF TypeOK, SetGuc
  <2>2. CASE FirstCallEmpty \/ Call \/ Exhausted \/ UNCHANGED vars
    BY <1>1, <2>2 DEF TypeOK, FirstCallEmpty, Call, Exhausted, vars
  <2>. QED  BY <2>1, <2>2
<1>3. TypeOK'
  BY <1>1, <1>2 DEF TypeOK
<1>4. BatchRight'
  BY <1>1 DEF BatchRight, Candidate
<1>5. NLive' = NLive /\ CellScoped' = CellScoped /\ Reach' = Reach
  BY <1>1, SameIndex, SameReach
<1>6. CursorRight'
  <2>1. CASE FirstCallEmpty
    BY <1>1, <2>1 DEF CursorRight, FirstCallEmpty, Scan0
  <2>2. CASE Call \/ Exhausted \/ SetGuc \/ UNCHANGED vars
    BY <1>1, <2>2 DEF CursorRight, Call, Exhausted, Drained, SetGuc, vars
  <2>. QED  BY <2>1, <2>2
<1>7. LastSearch'
  <2>1. phase' \in {"inside", "returned"} => phase \in {"inside", "returned"}
    BY DEF FirstCallEmpty, Call, Exhausted, SetGuc, vars
  <2>2. phase' # "open" /\ NLive > 0 => phase # "open"
    BY DEF FirstCallEmpty, Call, Exhausted, Drained, SetGuc, vars
  <2>. QED  BY <1>1, <1>5, <2>1, <2>2 DEF LastSearch
<1>8. EndIsExhausted'
  <2>1. CASE SetGuc \/ Call
    BY <2>1 DEF SetGuc, Call, EndIsExhausted
  <2>2. CASE FirstCallEmpty
    <3>1. ~ (NLive' > 0)
      BY <1>5, <2>2 DEF FirstCallEmpty
    <3>. QED  BY <3>1 DEF EndIsExhausted
  <2>3. CASE Exhausted
    BY <1>1, <1>5, <2>3
    DEF Exhausted, EndIsExhausted, CanWiden, CanGrow, ProbeCap, Ceiling
  <2>4. CASE UNCHANGED vars
    BY <1>1, <1>5, <2>4 DEF vars, EndIsExhausted, CanWiden, CanGrow, ProbeCap, Ceiling
  <2>. QED  BY <2>1, <2>2, <2>3, <2>4
<1>. QED  BY <1>3, <1>4, <1>6, <1>7, <1>8 DEF ScanInv

LEMMA RescanKeeps ==
  ASSUME ScanInv, Rescan
  PROVE  ScanInv'
<1>1. /\ TypeOK /\ index \in Index /\ index' = index /\ guc' = guc /\ phase' = "open"
      /\ scan' = Scan0 /\ rescans < MaxRescans /\ rescans' = rescans + 1
  BY DEF ScanInv, TypeOK, Rescan, Rescanned
<1>2. index.lists \in Nat
  BY <1>1, IndexIs
<1>3. TypeOK'
  <2>1. rescans' \in 0 .. MaxRescans
    BY <1>1, BoundsAssumption DEF TypeOK
  <2>2. scan' \in [results : Seq(Row), cursor : Nat, emitted : SUBSET Row, k : Nat,
                   allow : {NoAllow} \cup SUBSET Row, ivf : BOOLEAN,
                   probes : 0 .. index.lists, cells : SUBSET (1 .. index.lists)]
    BY <1>1, <1>2 DEF Scan0
  <2>. QED  BY <1>1, <2>1, <2>2 DEF TypeOK
<1>4. CursorRight'
  <2>1. Scan0.cursor = 0 /\ Scan0.results = <<>> /\ Scan0.emitted = {}
    BY DEF Scan0
  <2>. QED  BY <1>1, <2>1 DEF CursorRight
<1>5. BatchRight'
  <2>1. scan'.results = <<>> /\ DOMAIN <<>> = {}
    BY <1>1 DEF Scan0
  <2>2. \A r \in Row : Times(scan'.results, r) = 0
    BY <2>1, FS_EmptySet DEF Times
  <2>3. \A r \in Row : Cardinality(index.cells[r]) >= 0
    BY <1>1, SlotsAre
  <2>. QED  BY <1>1, <2>1, <2>2, <2>3 DEF BatchRight
<1>. QED  BY <1>1, <1>3, <1>4, <1>5 DEF ScanInv, LastSearch, EndIsExhausted

\* Every step of a scan keeps the invariant: what was returned lies before the
\* cursor, every row of the batches may be returned, a search for all slots has
\* all rows it could reach, and the scan ends when no larger one is left.
\* (amgettuple, fetch_next_batch, populate_batch.)
THEOREM ScanInvariant == Spec => []ScanInv
<1>1. Init => ScanInv
  BY InitScanInv
<1>2. ScanInv /\ [Next]_vars => ScanInv'
  BY FirstCallKeeps, RefillKeeps, ReturnKeeps, OtherStepsKeep, RescanKeeps DEF Next, Fetch
<1>. QED  BY <1>1, <1>2, PTL DEF Spec

-----------------------------------------------------------------------------
(* The promises of a scan.                                                 *)

\* What was returned is a part of what was found.
LEMMA ReturnedIs ==
  ASSUME TypeOK, scan.cursor <= Len(scan.results)
  PROVE  /\ DOMAIN Returned = 1 .. scan.cursor
         /\ \A i \in 1 .. scan.cursor : i \in DOMAIN scan.results /\ Returned[i] = scan.results[i]
<1>1. scan.results \in Seq(Row) /\ scan.cursor \in Nat
  BY DEF TypeOK
<1>. QED  BY <1>1 DEF Returned

\* Every row is returned at most once per slot it has, and is one that the
\* scan may return: a live row, in the allowlist.
THEOREM ReturnedRight == Spec => []RowsReturnedRight
<1>1. ASSUME ScanInv PROVE RowsReturnedRight
  <2>1. TypeOK /\ BatchRight /\ scan.cursor <= Len(scan.results)
    BY <1>1 DEF ScanInv, CursorRight
  <2>2. /\ DOMAIN Returned = 1 .. scan.cursor
        /\ \A i \in 1 .. scan.cursor : i \in DOMAIN scan.results /\ Returned[i] = scan.results[i]
    BY <2>1, ReturnedIs
  <2>3. ASSUME NEW r \in Row PROVE Times(Returned, r) <= Cardinality(index.cells[r])
    <3>. DEFINE A == {i \in DOMAIN scan.results : scan.results[i] = r}
                B == {i \in DOMAIN Returned : Returned[i] = r}
    <3>1. B \subseteq A
      BY <2>2
    <3>2. IsFiniteSet(A)
      <4>1. DOMAIN scan.results = 1 .. Len(scan.results) /\ Len(scan.results) \in Nat
        BY <2>1 DEF TypeOK
      <4>2. IsFiniteSet(DOMAIN scan.results) /\ A \subseteq DOMAIN scan.results
        BY <4>1, FS_Interval
      <4>. HIDE DEF A
      <4>. QED  BY <4>2, FS_Subset
    <3>. HIDE DEF A, B
    <3>3. /\ IsFiniteSet(B) /\ Cardinality(B) <= Cardinality(A)
          /\ Cardinality(A) \in Nat /\ Cardinality(B) \in Nat
      BY <3>1, <3>2, FS_Subset, FS_CardinalityType
    <3>4. Cardinality(A) <= Cardinality(index.cells[r])
      BY <2>1 DEF BatchRight, Times, A
    <3>5. Cardinality(index.cells[r]) \in Nat
      BY <2>1, SlotsAre DEF TypeOK
    <3>. QED  BY <3>3, <3>4, <3>5 DEF Times, B
  <2>4. \A i \in DOMAIN Returned : Candidate(Returned[i])
    BY <2>1, <2>2 DEF BatchRight
  <2>. QED  BY <2>3, <2>4 DEF RowsReturnedRight
<1>. QED  BY <1>1, ScanInvariant, PTL

\* All cells are as many as there are.
LEMMA AllCells ==
  ASSUME NEW n \in Nat, NEW cells \in SUBSET (1 .. n), Cardinality(cells) = n
  PROVE  cells = 1 .. n
<1>1. IsFiniteSet(1 .. n) /\ Cardinality(1 .. n) = n
  <2>1. IsFiniteSet(1 .. n) /\ Cardinality(1 .. n) = IF 1 > n THEN 0 ELSE n - 1 + 1
    BY FS_Interval
  <2>. QED  BY <2>1
<1>. QED  BY <1>1, FS_Subset

\* With settings that let it look at all cells and slots, a scan ends only when
\* it has returned every live row that is allowed.
THEOREM ScanComplete == Spec => []ScanIsComplete
<1>1. ASSUME ScanInv PROVE ScanIsComplete
  <2>1. SUFFICES ASSUME phase = "ended", guc.set.iterative, guc.set.maxProbes >= index.lists,
                        guc.set.maxScan >= NLive
                 PROVE  RowsOf(Allowed(Live, scan.allow)) \subseteq ToSet(Returned)
    BY DEF ScanIsComplete
  <2>2. /\ TypeOK /\ index \in Index /\ scan.cursor = Len(scan.results)
        /\ NLive \in Nat /\ index.lists \in Nat
    BY <1>1, <2>1, SettingsAre DEF ScanInv, CursorRight, TypeOK
  <2>3. CASE NLive = 0
    <3>1. Slots = {}
      BY <2>2, <2>3, SlotsAre, FS_EmptySet DEF NLive
    <3>2. Allowed(Live, scan.allow) = {}
      BY <3>1 DEF Live, Allowed
    <3>. QED  BY <3>2 DEF RowsOf
  <2>4. CASE NLive > 0
    <3>1. /\ ~ CanWiden(scan.probes) /\ ~ CanGrow(scan.k)
          /\ scan.ivf = CellScoped /\ Cardinality(scan.cells) = scan.probes
          /\ scan.k >= NLive => RowsOf(Reach) \subseteq ToSet(scan.results)
      BY <1>1, <2>1, <2>4 DEF ScanInv, EndIsExhausted, LastSearch
    <3>2. /\ scan.k \in Nat /\ scan.probes \in 0 .. index.lists
          /\ scan.cells \in SUBSET (1 .. index.lists)
          /\ guc.set.maxScan \in Nat /\ guc.set.maxProbes \in Nat
      BY <2>2, SettingsAre DEF TypeOK
    <3>3. scan.k >= NLive
      BY <2>1, <2>2, <3>1, <3>2 DEF CanGrow, Ceiling, AtMost
    <3>4. Allowed(Live, scan.allow) \subseteq Reach
      <4>1. CASE scan.ivf
        <5>1. scan.probes = index.lists
          BY <2>1, <2>2, <3>1, <3>2, <4>1 DEF CanWiden, ProbeCap, AtMost
        <5>2. scan.cells = 1 .. index.lists
          BY <2>2, <3>1, <3>2, <5>1, AllCells
        <5>3. \A s \in Allowed(Live, scan.allow) : s.cell \in 0 .. index.lists
          BY <2>2, SlotsAre DEF Allowed, Live
        <5>4. \A s \in Allowed(Live, scan.allow) : s.cell \in scan.cells \cup {0}
          BY <2>2, <5>2, <5>3
        <5>. QED  BY <4>1, <5>4 DEF Reach, Mask
      <4>2. CASE ~ scan.ivf
        BY <4>2 DEF Reach
      <4>. QED  BY <4>1, <4>2
    <3>5. ToSet(Returned) = ToSet(scan.results)
      <4>1. /\ DOMAIN Returned = 1 .. scan.cursor
            /\ \A i \in 1 .. scan.cursor : Returned[i] = scan.results[i]
        BY <2>2, ReturnedIs DEF TypeOK
      <4>2. DOMAIN scan.results = 1 .. scan.cursor
        BY <2>2 DEF TypeOK
      <4>. QED  BY <4>1, <4>2 DEF ToSet
    <3>. QED  BY <3>1, <3>3, <3>4, <3>5 DEF RowsOf
  <2>. QED  BY <2>2, <2>3, <2>4
<1>. QED  BY <1>1, ScanInvariant, PTL

-----------------------------------------------------------------------------
(* An index, the copies of open transactions, and their types.             *)

Coded == [id : Nat, code : [dim : Nat, width : Nat, version : Nat]]
Files ==
  [on : {TRUE}, kind : {"single", "bq", "graph", "colbert"}, version : Nat, width : Nat, dim : Nat,
   lists : Nat, degraded : BOOLEAN, cells : Nat, short : BOOLEAN, rows : Seq(Coded)]
Keys == [dim : Nat, width : Nat]
Entries == [key : Keys, dim : Nat, width : Nat, rows : Seq(Coded), touched : SUBSET Nat]
Writes == [rows : Seq(Rows), entries : SUBSET Entries, closing : BOOLEAN]

\* Who holds a changed copy holds a lock on the table, and the copy is of an
\* index whose inserts wait for the commit.
OpenCopies ==
  \A s \in Session : write[s].entries # {} =>
    write[s].rows # <<>> /\ file \in Files /\ file.kind \notin {"graph", "bq"}

SettingsType ==
  /\ setting \in [Session -> Nat] /\ frozen \in [Session -> Nat]
  /\ with \in Options /\ (~ with.given => with = NoWith)
  /\ table \in Seq(Rows)
  /\ file \in Files \cup {NoFile} /\ fork \in Files \cup {NoFile}
  /\ write \in [Session -> Writes]
  /\ OpenCopies
  /\ changes \in Nat

LEMMA MinTwo ==
  ASSUME NEW a \in Int, NEW b \in Int
  PROVE  Min({a, b}) = IF a <= b THEN a ELSE b
<1>1. \E x \in {a, b} : \A y \in {a, b} : x <= y
  OBVIOUS
<1>2. Min({a, b}) \in {a, b} /\ \A y \in {a, b} : Min({a, b}) <= y
  BY <1>1 DEF Min
<1>. QED  BY <1>2

LEMMA MaxTwo ==
  ASSUME NEW a \in Int, NEW b \in Int
  PROVE  Max({a, b}) = IF a >= b THEN a ELSE b
<1>1. \E x \in {a, b} : \A y \in {a, b} : x >= y
  OBVIOUS
<1>2. Max({a, b}) \in {a, b} /\ \A y \in {a, b} : Max({a, b}) >= y
  BY <1>1 DEF Max
<1>. QED  BY <1>2

LEMMA DefaultIs ==
  ASSUME InstallationAssumption
  PROVE  Max(Defaults) \in Nat
<1>1. Defaults \subseteq {2, 3, 4} /\ Defaults # {}
  <2>1. Defaults \subseteq 2 .. 4 /\ Defaults # {}
    BY DEF InstallationAssumption
  <2>2. \A x \in 2 .. 4 : x = 2 \/ x = 3 \/ x = 4
    OBVIOUS
  <2>. QED  BY <2>1, <2>2
<1>2. \E x \in Defaults : \A y \in Defaults : x >= y
  <2>1. /\ \A y \in {2, 3, 4} : 4 >= y
        /\ \A y \in {2, 3, 4} : y # 4 => 3 >= y
        /\ \A y \in {2, 3, 4} : y # 4 /\ y # 3 => y = 2 /\ 2 >= y
    OBVIOUS
  <2>2. CASE 4 \in Defaults
    BY <1>1, <2>1, <2>2
  <2>3. CASE 4 \notin Defaults /\ 3 \in Defaults
    BY <1>1, <2>1, <2>3
  <2>4. CASE 4 \notin Defaults /\ 3 \notin Defaults
    <3>1. \A y \in Defaults : y = 2 /\ 2 >= y
      BY <1>1, <2>1, <2>4
    <3>. QED  BY <1>1, <3>1
  <2>. QED  BY <2>2, <2>3, <2>4
<1>3. Max(Defaults) \in Defaults
  BY <1>2 DEF Max
<1>4. \A x \in {2, 3, 4} : x \in Nat
  OBVIOUS
<1>. DEFINE m == Max(Defaults)
<1>5. m \in {2, 3, 4}
  BY <1>1, <1>3
<1>. HIDE DEF m
<1>6. m \in Nat
  BY <1>4, <1>5
<1>. QED  BY <1>6 DEF m

\* Options as a session reads them: the width alone can be another.
LEMMA ReadIs ==
  ASSUME SettingsType, NEW s \in Session, NEW w \in Options
  PROVE  /\ Read(s, w) \in Options /\ Registered(s) \in Nat
         /\ Read(s, w).lists = w.lists /\ Read(s, w).graph = w.graph /\ Read(s, w).dim = w.dim
         /\ w.given /\ w.width # 0 => Read(s, w).width = w.width
<1>1. setting[s] \in Nat /\ frozen[s] \in Nat
  BY DEF SettingsType
<1>2. Registered(s) \in Nat
  BY <1>1 DEF Registered
<1>. QED  BY <1>1, <1>2 DEF Read, Options

\* The rows that have a vector, in their order.
LEMMA IndexedIs ==
  ASSUME NEW rows \in Seq(Rows)
  PROVE  /\ Indexed(rows) \in Seq(Rows)
         /\ \A j \in DOMAIN Indexed(rows) :
              Indexed(rows)[j].dim # 0 /\ \E i \in DOMAIN rows : Indexed(rows)[j] = rows[i]
         /\ \A i \in DOMAIN rows :
              rows[i].dim # 0 => \E j \in DOMAIN Indexed(rows) : Indexed(rows)[j] = rows[i]
<1>. DEFINE D == {i \in DOMAIN rows : rows[i].dim # 0}
<1>1. Indexed(rows) = Kept(rows, D)
  BY DEF Indexed
<1>2. \A i \in DOMAIN rows : i \in D <=> rows[i].dim # 0
  OBVIOUS
<1>. HIDE DEF D
<1>3. /\ Kept(rows, D) \in Seq(Rows)
      /\ \A j \in DOMAIN Kept(rows, D) : \E i \in DOMAIN rows : i \in D /\ Kept(rows, D)[j] = rows[i]
      /\ \A i \in DOMAIN rows : i \in D => \E j \in DOMAIN Kept(rows, D) : Kept(rows, D)[j] = rows[i]
  BY KeptValues
<1>. QED  BY <1>1, <1>2, <1>3

LEMMA EmptyIs ==
  ASSUME NEW kind \in {"single", "bq", "graph", "colbert"}, NEW o \in Options, NEW lists \in Nat
  PROVE  /\ EmptyFile(kind, o, lists) \in Files
         /\ EmptyFile(kind, o, lists).rows = <<>>
         /\ EmptyFile(kind, o, lists).version = Version
         /\ EmptyFile(kind, o, lists).width = o.width
         /\ EmptyFile(kind, o, lists).kind = kind
         /\ EmptyFile(kind, o, lists).lists = lists
         /\ EmptyFile(kind, o, lists).degraded = (lists > 0)
<1>1. <<>> \in Seq(Coded) /\ Version \in Nat
  BY DEF Version
<1>. QED  BY <1>1 DEF EmptyFile, Files, Options

LEMMA InitForkIs ==
  ASSUME NEW o \in Options
  PROVE  /\ InitFork(o) \in Files /\ InitFork(o).rows = <<>> /\ InitFork(o).version = Version
         /\ InitFork(o).width = o.width
         /\ InitFork(o).kind = IF o.width = 1 THEN "bq" ELSE "single"
<1>. DEFINE k == IF o.width = 1 THEN "bq" ELSE "single"
            e == EmptyFile(k, o, o.lists)
<1>1. k \in {"single", "bq", "graph", "colbert"} /\ o.lists \in Nat /\ (o.width = 1) \in BOOLEAN
  BY DEF Options
<1>. HIDE DEF k
<1>2. /\ e \in Files /\ e.rows = <<>> /\ e.version = Version /\ e.width = o.width /\ e.kind = k
  BY <1>1, EmptyIs
<1>3. InitFork(o) = [e EXCEPT !.short = o.width = 1 /\ o.dim # 0]
  BY DEF InitFork, k
<1>. HIDE DEF e
<1>. QED  BY <1>2, <1>3 DEF Files, k

\* What a build makes of the rows.
LEMMA BuiltIs ==
  ASSUME InstallationAssumption, NEW o \in Options, NEW rows \in Seq(Rows)
  PROVE  /\ Built(o, rows) \in Files
         /\ Built(o, rows).version = Version /\ Built(o, rows).width = o.width
         /\ Built(o, rows).kind = "bq" <=> o.width = 1
         /\ Built(o, rows).kind = "graph" =>
              o.graph /\ ~ Array /\ Built(o, rows).lists \in 0 .. o.lists
         /\ Len(Built(o, rows).rows) = Len(rows)
         /\ \A i \in DOMAIN rows :
              /\ Built(o, rows).rows[i].id = rows[i].id
              /\ Built(o, rows).rows[i].code = Code(rows[i].dim, o.width, Version)
         /\ rows # <<>> => Built(o, rows).dim = rows[1].dim
<1>. DEFINE lists == IF Array /\ o.lists = 0 THEN ColbertLists ELSE o.lists
            n == Len(rows)
            kind == IF o.width = 1 THEN "bq"
                    ELSE IF n = 0 THEN "single"
                    ELSE IF Array THEN "colbert"
                    ELSE IF o.graph THEN "graph" ELSE "single"
            empty == EmptyFile(kind, o, lists)
            coded == [i \in 1 .. n |->
                       [id |-> rows[i].id, code |-> Code(rows[i].dim, o.width, Version)]]
            b == IF n = 0 THEN empty
                 ELSE [empty EXCEPT !.dim = rows[1].dim, !.lists = Min({lists, n}),
                                    !.degraded = FALSE, !.cells = IF lists > 0 THEN n ELSE 0,
                                    !.rows = coded]
<1>1. Built(o, rows) = b
  BY DEF Built
<1>2. /\ o.width \in Nat /\ o.dim \in Nat /\ o.lists \in Nat /\ o.graph \in BOOLEAN
      /\ Array \in BOOLEAN /\ ColbertLists \in Nat /\ Version \in Nat
  BY DEF Options, InstallationAssumption, ColbertLists, Version
<1>3. /\ lists \in Nat /\ (~ Array => lists = o.lists) /\ n \in Nat /\ n = Len(rows)
      /\ DOMAIN rows = 1 .. n
      /\ \A i \in 1 .. n : rows[i] \in Rows
      /\ (n = 0 <=> rows = <<>>) /\ (n # 0 => 1 \in 1 .. n)
  BY <1>2
<1>4. /\ kind \in {"single", "bq", "graph", "colbert"} /\ (kind = "bq" <=> o.width = 1)
      /\ (kind = "graph" => o.graph /\ ~ Array)
  BY <1>2
<1>5. Min({lists, n}) \in 0 .. lists
  BY <1>3, MinTwo
<1>6. /\ coded \in Seq(Coded) /\ Len(coded) = n
      /\ \A i \in 1 .. n : coded[i].id = rows[i].id /\ coded[i].code = Code(rows[i].dim, o.width, Version)
  <2>1. \A i \in 1 .. n : [id |-> rows[i].id, code |-> Code(rows[i].dim, o.width, Version)] \in Coded
    BY <1>2, <1>3 DEF Code, Coded, Rows
  <2>2. coded \in [1 .. n -> Coded]
    BY <2>1
  <2>. QED  BY <2>2, <1>3
<1>. HIDE DEF coded, lists, kind, n
<1>7. /\ empty \in Files /\ empty.rows = <<>> /\ empty.version = Version /\ empty.width = o.width
      /\ empty.kind = kind /\ empty.lists = lists
  BY <1>3, <1>4, EmptyIs
<1>. HIDE DEF empty
<1>8. CASE n = 0
  <2>1. b = empty /\ Len(empty.rows) = 0 /\ DOMAIN rows = {} /\ rows = <<>>
    BY <1>3, <1>7, <1>8
  <2>2. /\ b \in Files /\ b.version = Version /\ b.width = o.width /\ b.kind = kind
        /\ b.lists = lists /\ Len(b.rows) = Len(rows) /\ lists \in 0 .. lists
    BY <1>3, <1>7, <1>8, <2>1
  <2>. HIDE DEF b
  <2>. QED  BY <1>1, <1>3, <1>4, <2>1, <2>2
<1>9. CASE n # 0
  <2>1. rows[1].dim \in Nat /\ (IF lists > 0 THEN n ELSE 0) \in Nat
    BY <1>3, <1>9 DEF Rows
  <2>2. b = [empty EXCEPT !.dim = rows[1].dim, !.lists = Min({lists, n}),
                          !.degraded = FALSE, !.cells = IF lists > 0 THEN n ELSE 0,
                          !.rows = coded]
    BY <1>9
  <2>. HIDE DEF b
  <2>3. /\ b \in Files /\ b.version = Version /\ b.width = o.width /\ b.kind = kind
        /\ b.lists = Min({lists, n}) /\ b.rows = coded /\ b.dim = rows[1].dim
    <3>. DEFINE d == rows[1].dim
                l == Min({lists, n})
                c == IF lists > 0 THEN n ELSE 0
                R == Seq(Coded)
                F == [on : {TRUE}, kind : {"single", "bq", "graph", "colbert"}, version : Nat,
                      width : Nat, dim : Nat, lists : Nat, degraded : BOOLEAN, cells : Nat,
                      short : BOOLEAN, rows : R]
    <3>1. /\ d \in Nat /\ l \in Nat /\ c \in Nat /\ coded \in R /\ F = Files
          /\ b = [empty EXCEPT !.dim = d, !.lists = l, !.degraded = FALSE, !.cells = c, !.rows = coded]
      BY <2>1, <2>2, <1>3, <1>5, <1>6 DEF Files
    <3>2. empty \in F
      BY <1>7, <3>1
    <3>. HIDE DEF d, l, c, R
    <3>3. /\ b \in F /\ b.version = empty.version /\ b.width = empty.width /\ b.kind = empty.kind
          /\ b.lists = l /\ b.rows = coded /\ b.dim = d
      BY <3>1, <3>2
    <3>. QED  BY <3>1, <3>3, <1>7 DEF d, l
  <2>4. Len(b.rows) = Len(rows)
    BY <2>3, <1>3, <1>6
  <2>5. \A i \in DOMAIN rows :
          b.rows[i].id = rows[i].id /\ b.rows[i].code = Code(rows[i].dim, o.width, Version)
    BY <2>3, <1>3, <1>6
  <2>6. b.kind = "graph" => o.graph /\ ~ Array /\ b.lists \in 0 .. o.lists
    BY <2>3, <1>3, <1>4, <1>5
  <2>. QED  BY <1>1, <1>4, <2>3, <2>4, <2>5, <2>6
<1>. QED  BY <1>8, <1>9


-----------------------------------------------------------------------------
(* What inserts and flushes make of a file.                                *)

LEMMA ReadBackIs ==
  ASSUME NEW rows \in Seq(Coded), NEW aligned \in BOOLEAN
  PROVE  /\ ReadBack(rows, aligned) \in Seq(Coded) /\ Len(ReadBack(rows, aligned)) = Len(rows)
         /\ \A i \in DOMAIN rows : ReadBack(rows, aligned)[i].id = rows[i].id
         /\ aligned => ReadBack(rows, aligned) = rows
<1>. DEFINE r == ReadBack(rows, aligned)
            n == Len(rows)
<1>1. r = [i \in 1 .. n |-> IF aligned THEN rows[i] ELSE [rows[i] EXCEPT !.code = Torn]]
  BY DEF ReadBack
<1>2. \A i \in 1 .. n : rows[i] \in Coded
  OBVIOUS
<1>3. Torn \in [dim : Nat, width : Nat, version : Nat]
  BY DEF Torn
<1>4. \A i \in 1 .. n : /\ [rows[i] EXCEPT !.code = Torn] \in Coded
                        /\ [rows[i] EXCEPT !.code = Torn].id = rows[i].id
  BY <1>2, <1>3 DEF Coded
<1>. HIDE DEF r
<1>5. \A i \in 1 .. n : r[i] \in Coded /\ r[i].id = rows[i].id /\ (aligned => r[i] = rows[i])
  BY <1>1, <1>2, <1>4
<1>6. r \in [1 .. n -> Coded] /\ n \in Nat
  BY <1>1, <1>5
<1>7. r \in Seq(Coded) /\ Len(r) = n /\ DOMAIN rows = 1 .. n
  BY <1>6
<1>8. aligned => r = rows
  BY <1>1, <1>5, <1>7
<1>. QED  BY <1>5, <1>7, <1>8 DEF r

\* The touched rows of an entry.
Own(e) == Kept(e.rows, {i \in DOMAIN e.rows : e.rows[i].id \in e.touched})

LEMMA OwnIs ==
  ASSUME NEW e \in Entries
  PROVE  /\ Own(e) \in Seq(Coded)
         /\ \A j \in DOMAIN Own(e) : \E i \in DOMAIN e.rows : Own(e)[j] = e.rows[i]
         /\ \A i \in DOMAIN e.rows :
              e.rows[i].id \in e.touched => \E j \in DOMAIN Own(e) : Own(e)[j] = e.rows[i]
<1>. DEFINE D == {i \in DOMAIN e.rows : e.rows[i].id \in e.touched}
<1>1. Own(e) = Kept(e.rows, D) /\ e.rows \in Seq(Coded)
  BY DEF Own, Entries
<1>2. \A i \in DOMAIN e.rows : i \in D <=> e.rows[i].id \in e.touched
  OBVIOUS
<1>. HIDE DEF D
<1>3. /\ Kept(e.rows, D) \in Seq(Coded)
      /\ \A j \in DOMAIN Kept(e.rows, D) :
           \E i \in DOMAIN e.rows : i \in D /\ Kept(e.rows, D)[j] = e.rows[i]
      /\ \A i \in DOMAIN e.rows : i \in D =>
           \E j \in DOMAIN Kept(e.rows, D) : Kept(e.rows, D)[j] = e.rows[i]
  BY <1>1, KeptValues
<1>. QED  BY <1>1, <1>2, <1>3

\* What a flush writes: every row of the file and every touched one, read back
\* right where the strides agree.
LEMMA ReconciledIs ==
  ASSUME InstallationAssumption, file \in Files, NEW e \in Entries
  PROVE  /\ Reconciled(e) \in Files
         /\ Reconciled(e).kind = "single" /\ Reconciled(e).version = Version
         /\ Reconciled(e).width = e.key.width /\ Reconciled(e).dim = e.key.dim
         /\ \A i \in DOMAIN file.rows :
              \E j \in DOMAIN Reconciled(e).rows : Reconciled(e).rows[j].id = file.rows[i].id
         /\ \A i \in DOMAIN e.rows : e.rows[i].id \in e.touched =>
              \E j \in DOMAIN Reconciled(e).rows : Reconciled(e).rows[j].id = e.rows[i].id
         /\ (file.rows = <<>> \/ Stride(file) = Stride(e.key)) /\ Stride(e) = Stride(e.key) =>
              \A j \in DOMAIN Reconciled(e).rows :
                \/ \E i \in DOMAIN file.rows : Reconciled(e).rows[j] = file.rows[i]
                \/ \E i \in DOMAIN e.rows : Reconciled(e).rows[j] = e.rows[i]
<1>. DEFINE aligned == file.rows = <<>> \/ Stride(file) = Stride(e.key)
            alike == aligned /\ Stride(e) = Stride(e.key)
            old == ReadBack(file.rows, aligned)
            new == ReadBack(Own(e), alike)
            rows == old \o new
            carried == file.lists > 0 /\ ~ IsDegraded(file) /\ WithinBound(file.cells, Len(rows))
            degraded == file.lists > 0 /\ ~ carried
            cells == IF carried THEN file.cells ELSE 0
            b == [file EXCEPT !.kind = "single", !.version = Version, !.width = e.key.width,
                              !.dim = e.key.dim, !.rows = rows, !.degraded = degraded, !.cells = cells]
<1>1. Reconciled(e) = b
  BY DEF Reconciled, Own
<1>2. /\ file.rows \in Seq(Coded) /\ aligned \in BOOLEAN /\ alike \in BOOLEAN
      /\ file.cells \in Nat /\ e.key.dim \in Nat /\ e.key.width \in Nat /\ e.rows \in Seq(Coded)
      /\ file.lists \in Nat
  BY DEF Files, Entries, Keys
<1>3. /\ Own(e) \in Seq(Coded)
      /\ \A j \in DOMAIN Own(e) : \E i \in DOMAIN e.rows : Own(e)[j] = e.rows[i]
      /\ \A i \in DOMAIN e.rows :
           e.rows[i].id \in e.touched => \E j \in DOMAIN Own(e) : Own(e)[j] = e.rows[i]
  BY OwnIs
<1>. HIDE DEF aligned, alike
<1>4. /\ old \in Seq(Coded) /\ Len(old) = Len(file.rows)
      /\ \A i \in DOMAIN file.rows : old[i].id = file.rows[i].id
      /\ aligned => old = file.rows
  BY <1>2, ReadBackIs
<1>5. /\ new \in Seq(Coded) /\ Len(new) = Len(Own(e))
      /\ \A i \in DOMAIN Own(e) : new[i].id = Own(e)[i].id
      /\ alike => new = Own(e)
  BY <1>2, <1>3, ReadBackIs
<1>. HIDE DEF old, new
<1>6. /\ rows \in Seq(Coded) /\ DOMAIN rows = 1 .. Len(old) + Len(new)
      /\ Len(old) \in Nat /\ Len(new) \in Nat
      /\ DOMAIN old = 1 .. Len(old) /\ DOMAIN new = 1 .. Len(new)
      /\ \A i \in 1 .. Len(old) : i \in DOMAIN rows /\ rows[i] = old[i]
      /\ \A i \in 1 .. Len(new) : Len(old) + i \in DOMAIN rows /\ rows[Len(old) + i] = new[i]
      /\ \A j \in DOMAIN rows : j \notin 1 .. Len(old) =>
           j - Len(old) \in 1 .. Len(new) /\ rows[j] = new[j - Len(old)]
  <2>1. old \in Seq(Coded) /\ new \in Seq(Coded)
    BY <1>4, <1>5
  <2>2. /\ rows \in Seq(Coded) /\ Len(rows) = Len(old) + Len(new)
        /\ Len(old) \in Nat /\ Len(new) \in Nat
        /\ \A i \in 1 .. Len(old) : i \in DOMAIN rows /\ rows[i] = old[i]
        /\ \A i \in 1 .. Len(new) : Len(old) + i \in DOMAIN rows /\ rows[Len(old) + i] = new[i]
        /\ \A j \in DOMAIN rows : j \notin 1 .. Len(old) =>
             j - Len(old) \in 1 .. Len(new) /\ rows[j] = new[j - Len(old)]
    BY <2>1, Concatenated
  <2>. HIDE DEF rows
  <2>3. DOMAIN rows = 1 .. Len(old) + Len(new)
    BY <2>2
  <2>. QED  BY <2>1, <2>2, <2>3
<1>. HIDE DEF rows
<1>7. DOMAIN file.rows = 1 .. Len(old) /\ DOMAIN Own(e) = 1 .. Len(new)
  BY <1>2, <1>3, <1>4, <1>5
<1>8. \A i \in DOMAIN file.rows : \E j \in DOMAIN rows : rows[j].id = file.rows[i].id
  BY <1>4, <1>6, <1>7
<1>9. \A i \in DOMAIN e.rows : e.rows[i].id \in e.touched => \E j \in DOMAIN rows : rows[j].id = e.rows[i].id
  <2>1. \A k \in DOMAIN Own(e) : \E j \in DOMAIN rows : rows[j].id = Own(e)[k].id
    BY <1>5, <1>6, <1>7
  <2>. QED  BY <1>3, <2>1
<1>10. alike => \A j \in DOMAIN rows : \/ \E i \in DOMAIN file.rows : rows[j] = file.rows[i]
                                       \/ \E i \in DOMAIN e.rows : rows[j] = e.rows[i]
  <2>. SUFFICES ASSUME alike, NEW j \in DOMAIN rows
                PROVE  \/ \E i \in DOMAIN file.rows : rows[j] = file.rows[i]
                       \/ \E i \in DOMAIN e.rows : rows[j] = e.rows[i]
    OBVIOUS
  <2>1. old = file.rows /\ new = Own(e)
    BY <1>4, <1>5 DEF alike
  <2>2. CASE j \in 1 .. Len(old)
    BY <1>6, <1>7, <2>1, <2>2
  <2>3. CASE j \notin 1 .. Len(old)
    BY <1>3, <1>6, <1>7, <2>1, <2>3
  <2>. QED  BY <2>2, <2>3
<1>11. /\ b \in Files /\ b.kind = "single" /\ b.version = Version /\ b.width = e.key.width
       /\ b.dim = e.key.dim /\ b.rows = rows
  <2>1. carried \in BOOLEAN /\ degraded \in BOOLEAN /\ cells \in Nat /\ Version \in Nat
    BY <1>2 DEF Version
  <2>. DEFINE R == Seq(Coded)
              F == [on : {TRUE}, kind : {"single", "bq", "graph", "colbert"}, version : Nat,
                    width : Nat, dim : Nat, lists : Nat, degraded : BOOLEAN, cells : Nat,
                    short : BOOLEAN, rows : R]
              w == e.key.width
              d == e.key.dim
  <2>2. F = Files /\ rows \in R /\ w \in Nat /\ d \in Nat
    BY <1>2, <1>6 DEF Files
  <2>. HIDE DEF R, w, d, degraded, cells
  <2>3. file \in F
    BY <2>2
  <2>4. b = [file EXCEPT !.kind = "single", !.version = Version, !.width = w,
                         !.dim = d, !.rows = rows, !.degraded = degraded, !.cells = cells]
    BY DEF w, d
  <2>. HIDE DEF b
  <2>5. /\ b \in F /\ b.kind = "single" /\ b.version = Version /\ b.width = w
        /\ b.dim = d /\ b.rows = rows
    BY <2>1, <2>2, <2>3, <2>4
  <2>. QED  BY <2>2, <2>5 DEF w, d
<1>. HIDE DEF b
<1>. QED  BY <1>1, <1>8, <1>9, <1>10, <1>11 DEF aligned, alike

\* What an immediate insert writes.
LEMMA InsertedIs ==
  ASSUME InstallationAssumption, file \in Files, NEW row \in Rows, InsertNow(row)
  PROVE  /\ file' \in Files /\ file'.kind = file.kind /\ file'.version = Version
         /\ file'.width = file.width /\ file'.dim = row.dim
         /\ file'.lists = file.lists /\ file'.degraded = (file.lists > 0)
         /\ file'.rows =
              Append(file.rows, [id |-> row.id, code |-> Code(row.dim, file.width, Version)])
<1>. DEFINE c == [id |-> row.id, code |-> Code(row.dim, file.width, Version)]
            R == Seq(Coded)
            F == [on : {TRUE}, kind : {"single", "bq", "graph", "colbert"}, version : Nat,
                  width : Nat, dim : Nat, lists : Nat, degraded : BOOLEAN, cells : Nat,
                  short : BOOLEAN, rows : R]
            r == Append(file.rows, c)
            d == row.dim
            g == file.lists > 0
<1>1. file.rows \in Seq(Coded) /\ row.dim \in Nat /\ row.id \in Nat /\ file.width \in Nat
  BY DEF Files, Rows
<1>2. c \in Coded
  BY <1>1 DEF Coded, Code, Version
<1>. HIDE DEF c
<1>3. r \in R /\ F = Files /\ d \in Nat /\ g \in BOOLEAN /\ Version \in Nat
  BY <1>1, <1>2 DEF Files, Version
<1>4. file' = [file EXCEPT !.version = Version, !.dim = d, !.degraded = g, !.cells = 0, !.rows = r]
  BY DEF InsertNow, c
<1>. HIDE DEF R, r, d, g
<1>5. file \in F
  BY <1>3
<1>6. /\ file' \in F /\ file'.kind = file.kind /\ file'.version = Version
      /\ file'.width = file.width /\ file'.dim = d
      /\ file'.lists = file.lists /\ file'.degraded = g /\ file'.rows = r
  BY <1>3, <1>4, <1>5
<1>. QED  BY <1>3, <1>6 DEF d, g, r, c


-----------------------------------------------------------------------------
(* The steps, and the types.                                               *)

LEMMA OpensIs ==
  ASSUME SettingsType, NEW s \in Session, NEW w \in Options, Opens(s, w)
  PROVE  frozen' \in [Session -> Nat]
<1>1. Registered(s) \in Nat /\ frozen \in [Session -> Nat]
  BY ReadIs DEF SettingsType
<1>. QED  BY <1>1 DEF Opens

LEMMA AddsIs ==
  ASSUME write \in [Session -> Writes], NEW s \in Session, NEW row \in Rows,
         NEW entries \in SUBSET Entries, Adds(s, row, entries)
  PROVE  /\ write' \in [Session -> Writes]
         /\ write'[s].rows = Append(write[s].rows, row) /\ write'[s].entries = entries
         /\ write'[s].rows # <<>>
         /\ \A t \in Session : t # s => write'[t] = write[t]
<1>. DEFINE r == Append(write[s].rows, row)
            g == [write[s] EXCEPT !.rows = r, !.entries = entries]
            R == Seq(Rows)
            E == SUBSET Entries
<1>1. write[s] \in Writes /\ write' = [write EXCEPT ![s] = g]
  BY DEF Adds
<1>2. r \in R /\ r # <<>>
  <2>1. write[s].rows \in Seq(Rows)
    BY <1>1 DEF Writes
  <2>. QED  BY <2>1, Appended
<1>3. entries \in E /\ write[s] \in [rows : R, entries : E, closing : BOOLEAN]
  BY <1>1 DEF Writes
<1>. HIDE DEF r, R, E
<1>4. g \in [rows : R, entries : E, closing : BOOLEAN] /\ g.rows = r /\ g.entries = entries
  BY <1>2, <1>3
<1>5. g \in Writes
  BY <1>4 DEF Writes, R, E
<1>. HIDE DEF g
<1>6. write' \in [Session -> Writes] /\ write'[s] = g /\ \A t \in Session : t # s => write'[t] = write[t]
  BY <1>1, <1>5
<1>. QED  BY <1>2, <1>4, <1>6 DEF r

LEMMA AbortIs ==
  ASSUME write \in [Session -> Writes], NEW s \in Session, Abort(s)
  PROVE  /\ write' \in [Session -> Writes] /\ write'[s] = NoWrite
         /\ \A t \in Session : t # s => write'[t] = write[t]
<1>1. NoWrite \in Writes
  <2>1. <<>> \in Seq(Rows) /\ {} \in SUBSET Entries
    OBVIOUS
  <2>. QED  BY <2>1 DEF NoWrite, Writes
<1>. QED  BY <1>1 DEF Abort

\* A backend's own copy: one its transaction changed, or one just loaded.
LEMMA EntryIs ==
  ASSUME SettingsType, file \in Files, NEW s \in Session, NEW key \in Keys
  PROVE  /\ OwnEntry(s, key) \in Entries
         /\ \/ OwnEntry(s, key) \in write[s].entries /\ OwnEntry(s, key).key = key
            \/ OwnEntry(s, key) = Loaded(key)
         /\ Loaded(key).key = key /\ Loaded(key).touched = {}
         /\ Loaded(key).rows = file.rows
         /\ file.rows # <<>> => Loaded(key).dim = file.dim /\ Loaded(key).width = file.width
         /\ file.rows = <<>> => Loaded(key).dim = key.dim /\ Loaded(key).width = key.width
<1>1. /\ file.dim \in Nat /\ file.width \in Nat /\ file.rows \in Seq(Coded)
      /\ key.dim \in Nat /\ key.width \in Nat
  BY DEF Files, Keys
<1>2. /\ Loaded(key).key = key /\ Loaded(key).touched = {} /\ Loaded(key).rows = file.rows
      /\ file.rows # <<>> => Loaded(key).dim = file.dim /\ Loaded(key).width = file.width
      /\ file.rows = <<>> => Loaded(key).dim = key.dim /\ Loaded(key).width = key.width
      /\ Loaded(key) \in Entries
  <2>1. CASE file.rows # <<>>
    BY <1>1, <2>1 DEF Loaded, Entries
  <2>2. CASE file.rows = <<>>
    BY <1>1, <2>2 DEF Loaded, Entries
  <2>. QED  BY <2>1, <2>2
<1>3. write[s].entries \subseteq Entries
  BY DEF SettingsType, Writes
<1>4. CASE \E e \in write[s].entries : e.key = key
  <2>1. OwnEntry(s, key) \in write[s].entries /\ OwnEntry(s, key).key = key
    BY <1>4 DEF OwnEntry
  <2>. QED  BY <1>2, <1>3, <2>1
<1>5. CASE ~ \E e \in write[s].entries : e.key = key
  BY <1>2, <1>5 DEF OwnEntry
<1>. QED  BY <1>4, <1>5

\* An entry that takes a row.
Grown(e, row) ==
  [e EXCEPT !.rows = Append(@, [id |-> row.id, code |-> Code(e.dim, e.width, Version)]),
            !.touched = @ \cup {row.id}]

LEMMA GrownIs ==
  ASSUME NEW e \in Entries, NEW row \in Rows
  PROVE  /\ Grown(e, row) \in Entries
         /\ Grown(e, row).key = e.key /\ Grown(e, row).dim = e.dim /\ Grown(e, row).width = e.width
         /\ Grown(e, row).touched = e.touched \cup {row.id}
         /\ Grown(e, row).rows =
              Append(e.rows, [id |-> row.id, code |-> Code(e.dim, e.width, Version)])
<1>. DEFINE c == [id |-> row.id, code |-> Code(e.dim, e.width, Version)]
            r == Append(e.rows, c)
            x == e.touched \cup {row.id}
            R == Seq(Coded)
            T == SUBSET Nat
<1>1. /\ row.id \in Nat /\ e.dim \in Nat /\ e.width \in Nat /\ e.rows \in Seq(Coded)
      /\ e.touched \in SUBSET Nat
  BY DEF Entries, Rows
<1>2. c \in Coded
  BY <1>1 DEF Coded, Code, Version
<1>3. r \in R /\ x \in T /\ e \in [key : Keys, dim : Nat, width : Nat, rows : R, touched : T]
  BY <1>1, <1>2 DEF Entries
<1>4. Grown(e, row) = [e EXCEPT !.rows = r, !.touched = x]
  BY DEF Grown
<1>. HIDE DEF r, x, R, T
<1>5. /\ Grown(e, row) \in [key : Keys, dim : Nat, width : Nat, rows : R, touched : T]
      /\ Grown(e, row).key = e.key /\ Grown(e, row).dim = e.dim /\ Grown(e, row).width = e.width
      /\ Grown(e, row).touched = x /\ Grown(e, row).rows = r
  BY <1>3, <1>4
<1>. QED  BY <1>5 DEF Entries, R, T, r, x

\* The four ways of an INSERT: without an index or a vector, one that fails, one
\* that writes the index at once, and one that does at the commit.
KeyOf(s, d) == [dim |-> d, width |-> Read(s, with).width]
Unindexed(s, d) ==
  /\ ~ file.on \/ d = 0
  /\ Adds(s, [id |-> changes, dim |-> d], write[s].entries)
  /\ UNCHANGED file
Fails(s) == Abort(s) /\ UNCHANGED file
Immediate(s, d) ==
  /\ file \in Files /\ d # 0 /\ d % 8 = 0 /\ file.kind \in {"graph", "bq"} /\ ~ ImmediateFails(d)
  /\ Adds(s, [id |-> changes, dim |-> d], write[s].entries)
  /\ InsertNow([id |-> changes, dim |-> d])
Deferred(s, d) ==
  LET e == OwnEntry(s, KeyOf(s, d))
  IN  /\ file \in Files /\ d # 0 /\ d % 8 = 0 /\ file.kind \notin {"graph", "bq"} /\ e.dim = d
      /\ Adds(s, [id |-> changes, dim |-> d],
              (write[s].entries \ {e}) \cup {Grown(e, [id |-> changes, dim |-> d])})
      /\ UNCHANGED file

LEMMA InsertIs ==
  ASSUME SettingsType, NEW s \in Session, NEW d \in Dims, Insert(s, d)
  PROVE  /\ Unindexed(s, d) \/ Fails(s) \/ Immediate(s, d) \/ Deferred(s, d)
         /\ frozen' \in [Session -> Nat]
         /\ UNCHANGED <<setting, with, table, fork, answer>>
<1>. DEFINE row == [id |-> changes, dim |-> d]
            key == [dim |-> d, width |-> Read(s, with).width]
            e == OwnEntry(s, key)
            code == Code(e.dim, e.width, Version)
            grown == [e EXCEPT !.rows = Append(@, [id |-> changes, code |-> code]),
                               !.touched = @ \cup {changes}]
<1>1. file.on => file \in Files
  BY DEF SettingsType, NoFile
<1>2. frozen' \in [Session -> Nat]
  BY OpensIs DEF Insert, SettingsType
<1>3. UNCHANGED <<setting, with, table, fork, answer>>
  BY DEF Insert
<1>4. \/ /\ ~ file.on \/ d = 0
         /\ Adds(s, row, write[s].entries)
         /\ UNCHANGED file
      \/ Abort(s) /\ UNCHANGED file
      \/ /\ file.on /\ d # 0 /\ ~ RowFails(d) /\ file.kind \in {"graph", "bq"} /\ ~ ImmediateFails(d)
         /\ Adds(s, row, write[s].entries)
         /\ InsertNow(row)
      \/ /\ file.on /\ d # 0 /\ ~ RowFails(d) /\ file.kind \notin {"graph", "bq"}
         /\ InsertDeferred(s, row)
         /\ UNCHANGED file
  BY DEF Insert
<1>5. ~ RowFails(d) /\ d # 0 => d % 8 = 0
  BY DEF RowFails
<1>6. CASE file.on /\ d # 0 /\ ~ RowFails(d) /\ file.kind \notin {"graph", "bq"}
           /\ InsertDeferred(s, row) /\ UNCHANGED file
  <2>1. row.dim = d /\ row.id = changes
    OBVIOUS
  <2>2. \/ Abort(s)
        \/ e.dim = d /\ Adds(s, row, (write[s].entries \ {e}) \cup {grown})
    BY <1>6, <2>1 DEF InsertDeferred
  <2>3. grown = Grown(e, row) /\ key = KeyOf(s, d)
    BY <2>1 DEF Grown, KeyOf
  <2>4. CASE Abort(s)
    BY <1>2, <1>3, <1>6, <2>4 DEF Fails
  <2>5. CASE e.dim = d /\ Adds(s, row, (write[s].entries \ {e}) \cup {grown})
    BY <1>1, <1>2, <1>3, <1>5, <1>6, <2>3, <2>5 DEF Deferred
  <2>. QED  BY <2>2, <2>4, <2>5
<1>7. CASE file.on /\ d # 0 /\ ~ RowFails(d) /\ file.kind \in {"graph", "bq"} /\ ~ ImmediateFails(d)
           /\ Adds(s, row, write[s].entries) /\ InsertNow(row)
  BY <1>1, <1>2, <1>3, <1>5, <1>7 DEF Immediate
<1>8. CASE Abort(s) /\ UNCHANGED file
  BY <1>2, <1>3, <1>8 DEF Fails
<1>9. CASE (~ file.on \/ d = 0) /\ Adds(s, row, write[s].entries) /\ UNCHANGED file
  BY <1>2, <1>3, <1>9 DEF Unindexed
<1>. QED  BY <1>4, <1>6, <1>7, <1>8, <1>9


LEMMA NoFileIs == ~ NoFile.on /\ \A f \in Files : f.on
BY DEF NoFile, Files

\* What CREATE INDEX and REINDEX leave.
LEMMA RebuiltIs ==
  ASSUME InstallationAssumption, SettingsType, NEW s \in Session, NEW w \in Options, Rebuilt(Read(s, w))
  PROVE  /\ Read(s, w) \in Options /\ Indexed(table) \in Seq(Rows)
         /\ file' = Built(Read(s, w), Indexed(table)) /\ file' \in Files
         /\ fork' = InitFork(Read(s, w)) \/ (~ Unlogged /\ fork' = fork)
         /\ fork' \in Files \cup {NoFile}
<1>1. Read(s, w) \in Options /\ Indexed(table) \in Seq(Rows)
  BY ReadIs, IndexedIs DEF SettingsType
<1>2. file' = Built(Read(s, w), Indexed(table)) /\ file' \in Files
  BY <1>1, BuiltIs DEF Rebuilt
<1>3. InitFork(Read(s, w)) \in Files
  BY <1>1, InitForkIs
<1>. QED  BY <1>1, <1>2, <1>3 DEF Rebuilt, SettingsType

LEMMA OldIndexIs ==
  ASSUME InstallationAssumption
  PROVE  /\ OldIndex \in Files \cup {NoFile}
         /\ OldRows = <<>> => OldIndex = NoFile
         /\ OldRows # <<>> =>
              /\ OldIndex \in Files /\ OldIndex.kind # "graph"
              /\ \A i \in DOMAIN OldRows : \E j \in DOMAIN OldIndex.rows :
                   OldIndex.rows[j].id = OldRows[i].id
<1>1. CASE OldRows = <<>>
  BY <1>1 DEF OldIndex
<1>2. CASE OldRows # <<>>
  <2>. DEFINE o == [NoWith EXCEPT !.width = 4]
              new == Built(o, OldRows)
              r == [i \in DOMAIN new.rows |-> [new.rows[i] EXCEPT !.code.version = Version - 1]]
              v == Version - 1
              n == Len(OldRows)
  <2>1. o \in Options /\ ~ o.graph /\ o.width # 1
    <3>1. NoWith \in Options /\ ~ NoWith.graph
      BY DEF NoWith, Options
    <3>. QED  BY <3>1 DEF Options
  <2>. HIDE DEF o
  <2>2. OldRows \in Seq(Rows) /\ DOMAIN OldRows = 1 .. n /\ n \in Nat
    BY DEF InstallationAssumption
  <2>3. /\ new \in Files /\ new.kind # "graph" /\ Len(new.rows) = n
        /\ \A i \in 1 .. n : new.rows[i].id = OldRows[i].id
    BY <2>1, <2>2, BuiltIs
  <2>4. OldIndex = [new EXCEPT !.version = v, !.rows = r]
    BY <1>2 DEF OldIndex, o
  <2>. HIDE DEF new, n
  <2>5. /\ new.rows \in Seq(Coded) /\ v \in Nat
    BY <2>3 DEF Files, Version
  <2>6. \A i \in 1 .. n : new.rows[i] \in Coded
    BY <2>3, <2>5
  <2>7. \A i \in 1 .. n : /\ [new.rows[i] EXCEPT !.code.version = Version - 1] \in Coded
                          /\ [new.rows[i] EXCEPT !.code.version = Version - 1].id = new.rows[i].id
    BY <2>5, <2>6 DEF Coded
  <2>8. r \in Seq(Coded) /\ DOMAIN r = 1 .. n /\ \A i \in 1 .. n : r[i].id = OldRows[i].id
    <3>1. DOMAIN new.rows = 1 .. n
      BY <2>3, <2>5
    <3>2. r \in [1 .. n -> Coded]
      BY <2>7, <3>1
    <3>3. \A i \in 1 .. n : r[i].id = OldRows[i].id
      BY <2>3, <2>7, <3>1
    <3>. HIDE DEF r
    <3>4. r \in Seq(Coded) /\ DOMAIN r = 1 .. n
      BY <2>2, <3>2
    <3>. QED  BY <3>3, <3>4
  <2>. HIDE DEF r, v
  <2>9. OldIndex \in Files /\ OldIndex.kind = new.kind /\ OldIndex.rows = r
    <3>. DEFINE R == Seq(Coded)
                F == [on : {TRUE}, kind : {"single", "bq", "graph", "colbert"}, version : Nat,
                      width : Nat, dim : Nat, lists : Nat, degraded : BOOLEAN, cells : Nat,
                      short : BOOLEAN, rows : R]
    <3>1. F = Files /\ new \in F /\ r \in R
      BY <2>3, <2>8 DEF Files
    <3>. HIDE DEF R
    <3>2. OldIndex \in F /\ OldIndex.kind = new.kind /\ OldIndex.rows = r
      BY <2>4, <2>5, <3>1
    <3>. QED  BY <3>1, <3>2
  <2>. QED  BY <1>2, <2>2, <2>3, <2>8, <2>9
<1>. QED  BY <1>1, <1>2

LEMMA TypeInit ==
  ASSUME InstallationAssumption, SettingsInit
  PROVE  SettingsType
<1>1. setting \in [Session -> Nat]
  BY DefaultIs DEF SettingsInit
<1>2. frozen \in [Session -> Nat] /\ changes \in Nat /\ fork \in Files \cup {NoFile}
  BY DEF SettingsInit
<1>3. with \in Options /\ (~ with.given => with = NoWith)
  <2>1. NoWith \in Options /\ [NoWith EXCEPT !.given = TRUE, !.width = 4] \in Options
        /\ [NoWith EXCEPT !.given = TRUE, !.width = 4].given
    BY DEF NoWith, Options
  <2>. QED  BY <2>1 DEF SettingsInit
<1>4. table \in Seq(Rows) /\ file \in Files \cup {NoFile}
  BY OldIndexIs DEF SettingsInit, InstallationAssumption
<1>5. write \in [Session -> Writes]
  <2>1. NoWrite \in Writes
    <3>1. <<>> \in Seq(Rows) /\ {} \in SUBSET Entries
      OBVIOUS
    <3>. QED  BY <3>1 DEF NoWrite, Writes
  <2>. QED  BY <2>1 DEF SettingsInit
<1>6. OpenCopies
  BY DEF SettingsInit, NoWrite, OpenCopies
<1>. QED  BY <1>1, <1>2, <1>3, <1>4, <1>5, <1>6 DEF SettingsType


\* What the steps do to the index, the table and the transactions.
Rebuilds(s, w) ==
  /\ w \in Options /\ (~ w.given => w = NoWith)
  /\ \/ ~ file.on /\ w \in Withs /\ (w.given => Valid(Read(s, w)))
     \/ file.on /\ w = with
  /\ TableIsFree /\ ~ BuildFails(Read(s, w), Indexed(table))
  /\ Rebuilt(Read(s, w)) /\ with' = w
  /\ UNCHANGED <<table, write, answer>>
Alters(s, width) ==
  /\ file.on /\ width \in AlterWidths
  /\ with' = [with EXCEPT !.given = TRUE, !.width = width] /\ Valid(Read(s, with'))
  /\ UNCHANGED <<table, file, fork, write, answer>>
Crashes ==
  /\ Unlogged /\ file.on /\ table' = <<>> /\ file' = fork /\ write' = [s \in Session |-> NoWrite]
  /\ UNCHANGED <<with, fork, answer>>
Inserts(s, d) ==
  /\ Unindexed(s, d) \/ Immediate(s, d) \/ Deferred(s, d)
  /\ UNCHANGED <<with, table, fork, answer>>
Undoes(s) == Fails(s) /\ UNCHANGED <<with, table, fork, answer>>
Flushes(s, e) ==
  /\ file' = Reconciled(e)
  /\ write' = [write EXCEPT ![s].entries = @ \ {e}, ![s].closing = TRUE]
  /\ UNCHANGED <<with, table, fork, answer>>
Commits(s) ==
  /\ write[s].entries = {} /\ table' = table \o write[s].rows /\ Abort(s)
  /\ UNCHANGED <<with, file, fork, answer>>
Looks ==
  /\ \E s \in Session :
       \/ \E q \in Dims \ {0}, look \in Scans : ~ Array /\ Scan(s, q, look, TRUE)
       \/ \E look \in Scans : Scan(s, 0, look, FALSE)
  /\ UNCHANGED <<with, table, file, fork, write>>
Idles == UNCHANGED <<with, table, file, fork, write, answer>>

LEMMA StepIs ==
  ASSUME InstallationAssumption, SettingsType, [SettingsNext]_settingsVars
  PROVE  /\ setting' \in [Session -> Nat] /\ frozen' \in [Session -> Nat] /\ changes' \in Nat
         /\ \/ \E s \in Session, w \in Options : Rebuilds(s, w)
            \/ \E s \in Session, width \in Nat : Alters(s, width)
            \/ Crashes
            \/ \E s \in Session, d \in Dims : Inserts(s, d)
            \/ \E s \in Session : Undoes(s)
            \/ \E s \in Session, e \in Entries : e \in write[s].entries /\ Flushes(s, e)
            \/ \E s \in Session : Commits(s)
            \/ Looks
            \/ Idles
<1>1. /\ setting \in [Session -> Nat] /\ frozen \in [Session -> Nat] /\ changes \in Nat
      /\ with \in Options /\ (~ with.given => with = NoWith)
      /\ \A s \in Session : write[s].entries \subseteq Entries
  BY DEF SettingsType, Writes
<1>2. ASSUME NEW s \in Session, NEW w \in Withs, CreateIndex(s, w), changes' = changes + 1
      PROVE  /\ setting' \in [Session -> Nat] /\ frozen' \in [Session -> Nat] /\ changes' \in Nat
             /\ w \in Options /\ Rebuilds(s, w)
  <2>1. w \in Options /\ (~ w.given => w = NoWith)
    BY DEF InstallationAssumption
  <2>2. frozen' \in [Session -> Nat] /\ UNCHANGED setting
    BY <1>2, <2>1, OpensIs DEF CreateIndex
  <2>3. Rebuilds(s, w)
    BY <1>2, <2>1 DEF CreateIndex, Rebuilds
  <2>. QED  BY <1>1, <1>2, <2>1, <2>2, <2>3
<1>3. ASSUME NEW s \in Session, Reindex(s), changes' = changes + 1
      PROVE  /\ setting' \in [Session -> Nat] /\ frozen' \in [Session -> Nat] /\ changes' \in Nat
             /\ Rebuilds(s, with)
  <2>1. frozen' \in [Session -> Nat] /\ UNCHANGED setting
    BY <1>1, <1>3, OpensIs DEF Reindex
  <2>2. Rebuilds(s, with)
    BY <1>1, <1>3 DEF Reindex, Rebuilds
  <2>. QED  BY <1>1, <1>3, <2>1, <2>2
<1>4. ASSUME NEW s \in Session, NEW width \in AlterWidths, AlterIndex(s, width), changes' = changes + 1
      PROVE  /\ setting' \in [Session -> Nat] /\ frozen' \in [Session -> Nat] /\ changes' \in Nat
             /\ width \in Nat /\ Alters(s, width)
  <2>1. width \in Nat
    BY DEF InstallationAssumption
  <2>2. with' \in Options
    <3>1. with' = [with EXCEPT !.given = TRUE, !.width = width]
      BY <1>4 DEF AlterIndex
    <3>. QED  BY <1>1, <2>1, <3>1 DEF Options
  <2>3. frozen' \in [Session -> Nat] /\ UNCHANGED setting
    <3>1. Opens(s, with') /\ UNCHANGED setting
      BY <1>4 DEF AlterIndex
    <3>2. Registered(s) \in Nat
      BY <1>1, ReadIs
    <3>. QED  BY <1>1, <3>1, <3>2 DEF Opens
  <2>4. Alters(s, width)
    BY <1>4 DEF AlterIndex, Alters
  <2>. QED  BY <1>1, <1>4, <2>1, <2>3, <2>4
<1>5. ASSUME NEW s \in Session, NEW width \in Defaults, SetDefault(s, width), changes' = changes + 1
      PROVE  /\ setting' \in [Session -> Nat] /\ frozen' \in [Session -> Nat] /\ changes' \in Nat
             /\ Idles
  <2>1. width \in Nat
    <3>1. width \in 2 .. 4
      BY DEF InstallationAssumption
    <3>. QED  BY <3>1
  <2>. QED  BY <1>1, <1>5, <2>1 DEF SetDefault, Idles
<1>6. ASSUME NEW s \in Session, NEW d \in Dims, Insert(s, d), changes' = changes + 1
      PROVE  /\ setting' \in [Session -> Nat] /\ frozen' \in [Session -> Nat] /\ changes' \in Nat
             /\ Inserts(s, d) \/ Undoes(s)
  <2>1. /\ Unindexed(s, d) \/ Fails(s) \/ Immediate(s, d) \/ Deferred(s, d)
        /\ frozen' \in [Session -> Nat]
        /\ UNCHANGED <<setting, with, table, fork, answer>>
    BY <1>6, InsertIs
  <2>. QED  BY <1>1, <1>6, <2>1 DEF Inserts, Undoes
<1>7. ASSUME NEW s \in Session, NEW q, NEW look, NEW ordered, Scan(s, q, look, ordered),
             changes' = changes + 1
      PROVE  /\ setting' \in [Session -> Nat] /\ frozen' \in [Session -> Nat] /\ changes' \in Nat
             /\ UNCHANGED <<with, table, file, fork, write>>
  <2>1. Opens(s, with) /\ UNCHANGED <<setting, with, table, file, fork, write>>
    BY <1>7 DEF Scan
  <2>2. frozen' \in [Session -> Nat]
    BY <1>1, <2>1, OpensIs
  <2>. QED  BY <1>1, <1>7, <2>1, <2>2
<1>8. ASSUME Crash, changes' = changes + 1
      PROVE  /\ setting' \in [Session -> Nat] /\ frozen' \in [Session -> Nat] /\ changes' \in Nat
             /\ Crashes
  <2>1. frozen' = [s \in Session |-> 0] /\ UNCHANGED setting
    BY <1>8 DEF Crash
  <2>2. frozen' \in [Session -> Nat]
    BY <2>1
  <2>3. Crashes
    BY <1>8 DEF Crash, Crashes
  <2>. QED  BY <1>1, <1>8, <2>1, <2>2, <2>3
<1>9. ASSUME NEW s \in Session, NEW e \in write[s].entries, Flush(s, e)
      PROVE  UNCHANGED <<setting, frozen, changes>> /\ e \in Entries /\ (Undoes(s) \/ Flushes(s, e))
  <2>1. e \in Entries
    BY <1>1
  <2>. QED  BY <1>9, <2>1 DEF Flush, Undoes, Fails, Flushes
<1>10. ASSUME NEW s \in Session, Commit(s)
       PROVE  UNCHANGED <<setting, frozen, changes>> /\ Commits(s)
  BY <1>10 DEF Commit, Commits
<1>11. ASSUME NEW s \in Session, Rollback(s)
       PROVE  UNCHANGED <<setting, frozen, changes>> /\ Undoes(s)
  BY <1>11 DEF Rollback, Undoes, Fails
<1>12. CASE UNCHANGED settingsVars
  BY <1>1, <1>12 DEF settingsVars, Idles
<1>13. ASSUME NEW s \in Session, Statement(s), changes' = changes + 1
       PROVE  /\ setting' \in [Session -> Nat] /\ frozen' \in [Session -> Nat] /\ changes' \in Nat
              /\ \/ \E w \in Options : Rebuilds(s, w)
                 \/ \E width \in Nat : Alters(s, width)
                 \/ \E d \in Dims : Inserts(s, d)
                 \/ Undoes(s)
                 \/ Looks
                 \/ Idles
  <2>1. CASE \E w \in Withs : CreateIndex(s, w)
    BY <1>2, <1>13, <2>1
  <2>2. CASE Reindex(s)
    BY <1>1, <1>3, <1>13, <2>2
  <2>3. CASE \E width \in AlterWidths : AlterIndex(s, width)
    BY <1>4, <1>13, <2>3
  <2>4. CASE \E width \in Defaults : SetDefault(s, width)
    BY <1>5, <1>13, <2>4
  <2>5. CASE \E d \in Dims : Insert(s, d)
    BY <1>6, <1>13, <2>5
  <2>6. CASE \E q \in Dims \ {0}, look \in Scans : ~ Array /\ Scan(s, q, look, TRUE)
    BY <1>7, <1>13, <2>6 DEF Looks
  <2>7. CASE \E look \in Scans : Scan(s, 0, look, FALSE)
    BY <1>7, <1>13, <2>7 DEF Looks
  <2>. QED  BY <1>13, <2>1, <2>2, <2>3, <2>4, <2>5, <2>6, <2>7 DEF Statement
<1>14. CASE changes' = changes + 1 /\ Crash
  BY <1>8, <1>14
<1>15. CASE changes' = changes + 1 /\ \E s \in Session : Statement(s)
  BY <1>13, <1>15
<1>16. CASE \E s \in Session : Commit(s) \/ Rollback(s) \/ \E e \in write[s].entries : Flush(s, e)
  <2>1. PICK s \in Session : Commit(s) \/ Rollback(s) \/ \E e \in write[s].entries : Flush(s, e)
    BY <1>16
  <2>2. /\ UNCHANGED <<setting, frozen, changes>>
        /\ Commits(s) \/ Undoes(s) \/ \E e \in Entries : e \in write[s].entries /\ Flushes(s, e)
    BY <1>9, <1>10, <1>11, <2>1
  <2>. QED  BY <1>1, <2>2
<1>. QED  BY <1>12, <1>14, <1>15, <1>16 DEF SettingsNext


LEMMA FlushesIs ==
  ASSUME write \in [Session -> Writes], NEW s \in Session, NEW e \in Entries, Flushes(s, e)
  PROVE  /\ write' \in [Session -> Writes]
         /\ write'[s].rows = write[s].rows /\ write'[s].entries = write[s].entries \ {e}
         /\ \A t \in Session : t # s => write'[t] = write[t]
<1>. DEFINE x == write[s].entries \ {e}
            g == [write[s] EXCEPT !.entries = x, !.closing = TRUE]
            R == Seq(Rows)
            E == SUBSET Entries
<1>1. write[s] \in [rows : R, entries : E, closing : BOOLEAN] /\ write' = [write EXCEPT ![s] = g]
  BY DEF Flushes, Writes
<1>2. x \in E
  BY <1>1
<1>. HIDE DEF R, E, x
<1>3. g \in [rows : R, entries : E, closing : BOOLEAN] /\ g.rows = write[s].rows /\ g.entries = x
  BY <1>1, <1>2
<1>4. g \in Writes
  BY <1>3 DEF Writes, R, E
<1>. HIDE DEF g
<1>. QED  BY <1>1, <1>3, <1>4 DEF x

\* The entries after an insert that changes one of them.
LEMMA DeferredIs ==
  ASSUME SettingsType, NEW s \in Session, NEW d \in Nat, Deferred(s, d)
  PROVE  \E e \in Entries :
           /\ e.dim = d
           /\ \/ e \in write[s].entries /\ e.key = KeyOf(s, d)
              \/ e = Loaded(KeyOf(s, d))
           /\ file \in Files /\ file' = file /\ d # 0 /\ d % 8 = 0 /\ file.kind \notin {"graph", "bq"}
           /\ KeyOf(s, d) \in Keys
           /\ LET row == [id |-> changes, dim |-> d]
              IN  /\ row \in Rows /\ Grown(e, row) \in Entries
                  /\ write' \in [Session -> Writes]
                  /\ write'[s].rows = Append(write[s].rows, row)
                  /\ write'[s].entries = (write[s].entries \ {e}) \cup {Grown(e, row)}
                  /\ write'[s].rows # <<>>
                  /\ \A t \in Session : t # s => write'[t] = write[t]
<1>. DEFINE e == OwnEntry(s, KeyOf(s, d))
            row == [id |-> changes, dim |-> d]
<1>1. /\ write \in [Session -> Writes] /\ with \in Options /\ row \in Rows
  BY DEF SettingsType, Rows
<1>2. KeyOf(s, d) \in Keys
  <2>1. Read(s, with).width \in Nat
    BY <1>1, ReadIs DEF Options
  <2>. QED  BY <2>1 DEF KeyOf, Keys
<1>3. /\ file \in Files /\ d # 0 /\ d % 8 = 0 /\ file.kind \notin {"graph", "bq"} /\ e.dim = d
      /\ Adds(s, row, (write[s].entries \ {e}) \cup {Grown(e, row)}) /\ file' = file
  BY DEF Deferred
<1>4. /\ e \in Entries
      /\ \/ e \in write[s].entries /\ e.key = KeyOf(s, d)
         \/ e = Loaded(KeyOf(s, d))
  BY <1>2, <1>3, EntryIs
<1>. HIDE DEF e, row
<1>5. Grown(e, row) \in Entries
  BY <1>1, <1>4, GrownIs
<1>6. (write[s].entries \ {e}) \cup {Grown(e, row)} \in SUBSET Entries
  <2>1. write[s].entries \subseteq Entries
    BY <1>1 DEF Writes
  <2>. QED  BY <1>5, <2>1
<1>7. /\ write' \in [Session -> Writes]
      /\ write'[s].rows = Append(write[s].rows, row)
      /\ write'[s].entries = (write[s].entries \ {e}) \cup {Grown(e, row)}
      /\ write'[s].rows # <<>>
      /\ \A t \in Session : t # s => write'[t] = write[t]
  BY <1>1, <1>3, <1>6, AddsIs
<1>. QED  BY <1>1, <1>2, <1>3, <1>4, <1>5, <1>7 DEF row

\* The other inserts.
LEMMA AddedIs ==
  ASSUME SettingsType, NEW s \in Session, NEW d \in Nat,
         Adds(s, [id |-> changes, dim |-> d], write[s].entries)
  PROVE  /\ write' \in [Session -> Writes]
         /\ [id |-> changes, dim |-> d] \in Rows
         /\ write'[s].rows = Append(write[s].rows, [id |-> changes, dim |-> d])
         /\ write'[s].rows # <<>>
         /\ write'[s].entries = write[s].entries
         /\ \A t \in Session : t # s => write'[t] = write[t]
<1>. DEFINE row == [id |-> changes, dim |-> d]
<1>1. write \in [Session -> Writes] /\ row \in Rows
  BY DEF SettingsType, Rows
<1>2. write[s].entries \in SUBSET Entries
  BY <1>1 DEF Writes
<1>. HIDE DEF row
<1>3. Adds(s, row, write[s].entries)
  BY DEF row
<1>4. /\ write' \in [Session -> Writes] /\ write'[s].rows = Append(write[s].rows, row)
      /\ write'[s].rows # <<>> /\ write'[s].entries = write[s].entries
      /\ \A t \in Session : t # s => write'[t] = write[t]
  BY <1>1, <1>2, <1>3, AddsIs
<1>. QED  BY <1>1, <1>4 DEF row

LEMMA TypeStep ==
  ASSUME InstallationAssumption, SettingsType, [SettingsNext]_settingsVars
  PROVE  SettingsType'
<1>1. /\ with \in Options /\ (~ with.given => with = NoWith)
      /\ table \in Seq(Rows)
      /\ file \in Files \cup {NoFile} /\ fork \in Files \cup {NoFile}
      /\ write \in [Session -> Writes] /\ OpenCopies
      /\ Dims \subseteq Nat
  BY DEF SettingsType, InstallationAssumption
<1>. DEFINE Rest == /\ with' \in Options /\ (~ with'.given => with' = NoWith)
                    /\ table' \in Seq(Rows)
                    /\ file' \in Files \cup {NoFile} /\ fork' \in Files \cup {NoFile}
                    /\ write' \in [Session -> Writes]
                    /\ OpenCopies'
<1>2. ASSUME NEW s \in Session, NEW w \in Options, Rebuilds(s, w)
      PROVE  Rest
  <2>1. file' \in Files /\ fork' \in Files \cup {NoFile}
    BY <1>2, RebuiltIs DEF Rebuilds
  <2>2. table' = table /\ write' = write /\ with' = w /\ (~ w.given => w = NoWith)
    BY <1>2 DEF Rebuilds
  <2>3. \A t \in Session : write[t].entries = {}
    BY <1>1, <1>2 DEF Rebuilds, TableIsFree, OpenCopies
  <2>4. OpenCopies'
    BY <2>2, <2>3 DEF OpenCopies
  <2>. QED  BY <1>1, <2>1, <2>2, <2>4
<1>3. ASSUME NEW s \in Session, NEW width \in Nat, Alters(s, width)
      PROVE  Rest
  <2>1. with' \in Options /\ with'.given
    <3>1. with' = [with EXCEPT !.given = TRUE, !.width = width]
      BY <1>3 DEF Alters
    <3>. QED  BY <1>1, <3>1 DEF Options
  <2>2. table' = table /\ file' = file /\ fork' = fork /\ write' = write
    BY <1>3 DEF Alters
  <2>. QED  BY <1>1, <2>1, <2>2 DEF OpenCopies
<1>4. ASSUME Crashes
      PROVE  Rest
  <2>1. NoWrite \in Writes /\ <<>> \in Seq(Rows) /\ NoWrite.entries = {}
    <3>1. <<>> \in Seq(Rows) /\ {} \in SUBSET Entries
      OBVIOUS
    <3>. QED  BY <3>1 DEF NoWrite, Writes
  <2>2. write' \in [Session -> Writes] /\ \A s \in Session : write'[s].entries = {}
    BY <1>4, <2>1 DEF Crashes
  <2>3. with' = with /\ table' = <<>> /\ file' = fork /\ fork' = fork
    BY <1>4 DEF Crashes
  <2>. QED  BY <1>1, <2>1, <2>2, <2>3 DEF OpenCopies
<1>5. ASSUME NEW s \in Session, NEW d \in Dims, Inserts(s, d)
      PROVE  Rest
  <2>1. d \in Nat /\ with' = with /\ table' = table /\ fork' = fork
    BY <1>1, <1>5 DEF Inserts
  <2>2. CASE Unindexed(s, d)
    <3>1. /\ write' \in [Session -> Writes] /\ file' = file
          /\ write'[s].rows # <<>> /\ write'[s].entries = write[s].entries
          /\ \A t \in Session : t # s => write'[t] = write[t]
      BY <2>1, <2>2, AddedIs DEF Unindexed
    <3>2. OpenCopies'
      BY <1>1, <3>1 DEF OpenCopies
    <3>. QED  BY <1>1, <2>1, <3>1, <3>2
  <2>3. CASE Immediate(s, d)
    <3>1. /\ write' \in [Session -> Writes] /\ [id |-> changes, dim |-> d] \in Rows
          /\ write'[s].rows # <<>> /\ write'[s].entries = write[s].entries
          /\ \A t \in Session : t # s => write'[t] = write[t]
      BY <2>1, <2>3, AddedIs DEF Immediate
    <3>2. file' \in Files /\ file'.kind = file.kind
      BY <2>3, <3>1, InsertedIs DEF Immediate
    <3>3. OpenCopies'
      BY <1>1, <3>1, <3>2 DEF OpenCopies
    <3>. QED  BY <1>1, <2>1, <3>1, <3>2, <3>3
  <2>4. CASE Deferred(s, d)
    <3>1. /\ write' \in [Session -> Writes] /\ file' = file
          /\ file \in Files /\ file.kind \notin {"graph", "bq"}
          /\ write'[s].rows # <<>>
          /\ \A t \in Session : t # s => write'[t] = write[t]
      BY <2>1, <2>4, DeferredIs
    <3>2. OpenCopies'
      BY <1>1, <3>1 DEF OpenCopies
    <3>. QED  BY <1>1, <2>1, <3>1, <3>2
  <2>. QED  BY <1>5, <2>2, <2>3, <2>4 DEF Inserts
<1>6. ASSUME NEW s \in Session, Abort(s), file' = file
      PROVE  write' \in [Session -> Writes] /\ OpenCopies'
  <2>1. /\ write' \in [Session -> Writes] /\ write'[s] = NoWrite
        /\ \A t \in Session : t # s => write'[t] = write[t]
    BY <1>1, <1>6, AbortIs
  <2>2. NoWrite.entries = {}
    BY DEF NoWrite
  <2>. QED  BY <1>1, <1>6, <2>1, <2>2 DEF OpenCopies
<1>7. ASSUME NEW s \in Session, Undoes(s)
      PROVE  Rest
  <2>1. Abort(s) /\ with' = with /\ table' = table /\ file' = file /\ fork' = fork
    BY <1>7 DEF Undoes, Fails
  <2>. QED  BY <1>1, <1>6, <2>1
<1>8. ASSUME NEW s \in Session, NEW e \in Entries, e \in write[s].entries, Flushes(s, e)
      PROVE  Rest
  <2>1. file \in Files /\ with' = with /\ table' = table /\ fork' = fork
    BY <1>1, <1>8 DEF OpenCopies, Flushes
  <2>2. /\ write' \in [Session -> Writes]
        /\ write'[s].rows = write[s].rows /\ write[s].entries # {}
        /\ \A t \in Session : t # s => write'[t] = write[t]
    BY <1>1, <1>8, FlushesIs
  <2>3. file' \in Files /\ file'.kind = "single"
    BY <1>8, <2>1, ReconciledIs DEF Flushes
  <2>4. OpenCopies'
    BY <1>1, <2>2, <2>3 DEF OpenCopies
  <2>. QED  BY <1>1, <2>1, <2>2, <2>3, <2>4
<1>9. ASSUME NEW s \in Session, Commits(s)
      PROVE  Rest
  <2>1. Abort(s) /\ with' = with /\ file' = file /\ fork' = fork
    BY <1>9 DEF Commits
  <2>2. table' \in Seq(Rows)
    <3>1. write[s].rows \in Seq(Rows) /\ table' = table \o write[s].rows
      BY <1>1, <1>9 DEF Commits, Writes
    <3>. QED  BY <1>1, <3>1, Concatenated
  <2>. QED  BY <1>1, <1>6, <2>1, <2>2
<1>10. ASSUME with' = with /\ table' = table /\ file' = file /\ fork' = fork /\ write' = write
       PROVE  Rest
  BY <1>1, <1>10 DEF OpenCopies
<1>11. (Looks \/ Idles) => Rest
  BY <1>10 DEF Looks, Idles
<1>12. Rest
  <2>. HIDE DEF Rest
  <2>. QED  BY StepIs, <1>2, <1>3, <1>4, <1>5, <1>7, <1>8, <1>9, <1>11
<1>. QED  BY <1>12, StepIs DEF SettingsType


-----------------------------------------------------------------------------
(* Committed rows.                                                         *)

Has(rows, x) == \E j \in DOMAIN rows : rows[j].id = x
Pending(entries, x) == \E e \in entries : x \in e.touched

\* Where the rows with a vector are: those committed in the file, those of an
\* open transaction there or in a copy it flushes, which has what it touched.
RowsInv ==
  /\ file.on => \A i \in DOMAIN table : table[i].dim # 0 => Has(file.rows, table[i].id)
  /\ file.on => \A s \in Session : \A i \in DOMAIN write[s].rows :
                  write[s].rows[i].dim # 0 =>
                    \/ Has(file.rows, write[s].rows[i].id)
                    \/ Pending(write[s].entries, write[s].rows[i].id)
  /\ \A s \in Session : \A e \in write[s].entries : \A x \in e.touched : Has(e.rows, x)

LEMMA RowsInit ==
  ASSUME InstallationAssumption, SettingsInit
  PROVE  RowsInv
<1>1. file = OldIndex /\ table = OldRows
  BY DEF SettingsInit
<1>2. file.on => \A i \in DOMAIN table : Has(file.rows, table[i].id)
  <2>1. CASE OldRows = <<>>
    BY <1>1, <2>1, OldIndexIs, NoFileIs
  <2>2. CASE OldRows # <<>>
    BY <1>1, <2>2, OldIndexIs DEF Has
  <2>. QED  BY <2>1, <2>2
<1>3. \A s \in Session : write[s].rows = <<>> /\ write[s].entries = {}
  BY DEF SettingsInit, NoWrite
<1>. QED  BY <1>2, <1>3 DEF RowsInv

LEMMA HasAppended ==
  ASSUME NEW rows \in Seq(Coded), NEW c \in Coded
  PROVE  Has(Append(rows, c), c.id) /\ \A x : Has(rows, x) => Has(Append(rows, c), x)
BY Appended DEF Has

LEMMA RowsStep ==
  ASSUME InstallationAssumption, SettingsType, SettingsType', RowsInv, [SettingsNext]_settingsVars
  PROVE  RowsInv'
<1>1. /\ table \in Seq(Rows) /\ write \in [Session -> Writes] /\ OpenCopies /\ Dims \subseteq Nat
      /\ file.on => file \in Files
      /\ \A s \in Session : write[s].rows \in Seq(Rows) /\ write[s].entries \subseteq Entries
  BY DEF SettingsType, InstallationAssumption, Writes, NoFile
<1>2. ASSUME NEW s \in Session, NEW w \in Options, Rebuilds(s, w)
      PROVE  RowsInv'
  <2>. DEFINE I == Indexed(table)
              o == Read(s, w)
  <2>1. /\ o \in Options /\ I \in Seq(Rows) /\ file' = Built(o, I) /\ file' \in Files
        /\ table' = table /\ write' = write
    BY <1>2, RebuiltIs DEF Rebuilds
  <2>2. \A i \in DOMAIN table : table[i].dim # 0 => \E j \in DOMAIN I : I[j] = table[i]
    BY <1>1, IndexedIs
  <2>. HIDE DEF I, o
  <2>3. \A j \in DOMAIN I : j \in DOMAIN file'.rows /\ file'.rows[j].id = I[j].id
    <3>1. Len(file'.rows) = Len(I) /\ \A j \in DOMAIN I : file'.rows[j].id = I[j].id
      BY <2>1, BuiltIs
    <3>2. file'.rows \in Seq(Coded)
      BY <2>1 DEF Files
    <3>3. DOMAIN file'.rows = DOMAIN I
      BY <2>1, <3>1, <3>2
    <3>. QED  BY <3>1, <3>3
  <2>4. \A i \in DOMAIN table' : table'[i].dim # 0 => Has(file'.rows, table'[i].id)
    BY <2>1, <2>2, <2>3 DEF Has
  <2>5. \A t \in Session : write'[t].rows = <<>> /\ write'[t].entries = {}
    BY <1>1, <1>2, <2>1 DEF Rebuilds, TableIsFree, OpenCopies
  <2>. QED  BY <2>4, <2>5 DEF RowsInv
<1>3. ASSUME table' = table, file' = file, write' = write
      PROVE  RowsInv'
  BY <1>3 DEF RowsInv, Pending
<1>4. ASSUME Crashes
      PROVE  RowsInv'
  <2>1. NoWrite.rows = <<>> /\ NoWrite.entries = {}
    BY DEF NoWrite
  <2>2. table' = <<>> /\ \A s \in Session : write'[s].rows = <<>> /\ write'[s].entries = {}
    BY <1>4, <2>1 DEF Crashes
  <2>. QED  BY <2>2 DEF RowsInv
<1>5. ASSUME NEW s \in Session, NEW d \in Dims, Unindexed(s, d), table' = table
      PROVE  RowsInv'
  <2>. DEFINE row == [id |-> changes, dim |-> d]
  <2>1. /\ d \in Nat /\ file' = file /\ (~ file.on \/ d = 0) /\ row.dim = d
    BY <1>1, <1>5 DEF Unindexed
  <2>2. /\ row \in Rows /\ write'[s].rows = Append(write[s].rows, row)
        /\ write'[s].entries = write[s].entries
        /\ \A t \in Session : t # s => write'[t] = write[t]
    BY <1>5, <2>1, AddedIs DEF Unindexed
  <2>. HIDE DEF row
  <2>3. \A i \in DOMAIN write'[s].rows :
          write'[s].rows[i] = row \/ (i \in DOMAIN write[s].rows /\ write'[s].rows[i] = write[s].rows[i])
    BY <1>1, <2>2, Appended
  <2>4. \A t \in Session : write'[t].entries = write[t].entries
    BY <2>2
  <2>5. file'.on => \A i \in DOMAIN table' : table'[i].dim # 0 => Has(file'.rows, table'[i].id)
    BY <1>5, <2>1 DEF RowsInv
  <2>6. file.on => \A i \in DOMAIN write'[s].rows :
          write'[s].rows[i].dim # 0 => i \in DOMAIN write[s].rows /\ write'[s].rows[i] = write[s].rows[i]
    BY <2>1, <2>3
  <2>7. file'.on => \A t \in Session : \A i \in DOMAIN write'[t].rows :
          write'[t].rows[i].dim # 0 =>
            \/ Has(file'.rows, write'[t].rows[i].id)
            \/ Pending(write'[t].entries, write'[t].rows[i].id)
    <3>1. ASSUME NEW t \in Session, file.on
          PROVE  \A i \in DOMAIN write'[t].rows :
                   write'[t].rows[i].dim # 0 =>
                     \/ Has(file.rows, write'[t].rows[i].id)
                     \/ Pending(write[t].entries, write'[t].rows[i].id)
      <4>1. CASE t = s
        BY <2>6, <3>1, <4>1 DEF RowsInv
      <4>2. CASE t # s
        BY <2>2, <3>1, <4>2 DEF RowsInv
      <4>. QED  BY <4>1, <4>2
    <3>. QED  BY <2>1, <2>4, <3>1
  <2>8. \A t \in Session : \A e \in write'[t].entries : \A x \in e.touched : Has(e.rows, x)
    BY <2>4 DEF RowsInv
  <2>. QED  BY <2>5, <2>7, <2>8 DEF RowsInv
<1>6. ASSUME NEW s \in Session, NEW d \in Dims, Immediate(s, d), table' = table
      PROVE  RowsInv'
  <2>. DEFINE row == [id |-> changes, dim |-> d]
              c == [id |-> row.id, code |-> Code(row.dim, file.width, Version)]
  <2>1. d \in Nat /\ file \in Files /\ file.on /\ InsertNow(row)
    BY <1>1, <1>6 DEF Immediate, Files
  <2>2. /\ row \in Rows /\ write'[s].rows = Append(write[s].rows, row)
        /\ write'[s].entries = write[s].entries
        /\ \A t \in Session : t # s => write'[t] = write[t]
    BY <1>6, <2>1, AddedIs DEF Immediate
  <2>3. file'.rows = Append(file.rows, c) /\ file.rows \in Seq(Coded) /\ c \in Coded /\ c.id = row.id
    <3>1. file'.rows = Append(file.rows, c)
      BY <2>1, <2>2, InsertedIs
    <3>2. row.id \in Nat /\ row.dim \in Nat /\ file.width \in Nat /\ file.rows \in Seq(Coded)
      BY <2>1, <2>2 DEF Rows, Files
    <3>. QED  BY <3>1, <3>2 DEF Coded, Code, Version
  <2>. HIDE DEF row, c
  <2>4. Has(file'.rows, row.id) /\ \A x : Has(file.rows, x) => Has(file'.rows, x)
    BY <2>3, HasAppended
  <2>5. \A i \in DOMAIN write'[s].rows :
          write'[s].rows[i] = row \/ (i \in DOMAIN write[s].rows /\ write'[s].rows[i] = write[s].rows[i])
    BY <1>1, <2>2, Appended
  <2>6. \A t \in Session : write'[t].entries = write[t].entries
    BY <2>2
  <2>7. \A i \in DOMAIN table' : table'[i].dim # 0 => Has(file'.rows, table'[i].id)
    BY <1>6, <2>1, <2>4 DEF RowsInv
  <2>8. \A t \in Session : \A i \in DOMAIN write'[t].rows :
           write'[t].rows[i].dim # 0 =>
             \/ Has(file'.rows, write'[t].rows[i].id)
             \/ Pending(write'[t].entries, write'[t].rows[i].id)
    <3>. SUFFICES ASSUME NEW t \in Session, NEW i \in DOMAIN write'[t].rows,
                         write'[t].rows[i].dim # 0
                  PROVE  \/ Has(file'.rows, write'[t].rows[i].id)
                         \/ Pending(write'[t].entries, write'[t].rows[i].id)
      OBVIOUS
    <3>1. \A j \in DOMAIN write[t].rows : write[t].rows[j].dim # 0 =>
            \/ Has(file.rows, write[t].rows[j].id)
            \/ Pending(write[t].entries, write[t].rows[j].id)
      BY <2>1 DEF RowsInv
    <3>2. write'[t].rows[i] = row
          \/ (i \in DOMAIN write[t].rows /\ write'[t].rows[i] = write[t].rows[i])
      BY <2>2, <2>5
    <3>. QED  BY <2>4, <2>6, <3>1, <3>2
  <2>9. \A t \in Session : \A x \in write'[t].entries : \A y \in x.touched : Has(x.rows, y)
    BY <2>6 DEF RowsInv
  <2>. QED  BY <2>7, <2>8, <2>9 DEF RowsInv
<1>7. ASSUME NEW s \in Session, NEW d \in Dims, Deferred(s, d), table' = table
      PROVE  RowsInv'
  <2>. DEFINE row == [id |-> changes, dim |-> d]
  <2>1. d \in Nat
    BY <1>1
  <2>2. PICK e \in Entries :
           /\ \/ e \in write[s].entries
              \/ e = Loaded(KeyOf(s, d))
           /\ file \in Files /\ file' = file /\ KeyOf(s, d) \in Keys
           /\ row \in Rows /\ Grown(e, row) \in Entries
           /\ write'[s].rows = Append(write[s].rows, row)
           /\ write'[s].entries = (write[s].entries \ {e}) \cup {Grown(e, row)}
           /\ \A t \in Session : t # s => write'[t] = write[t]
    BY <1>7, <2>1, DeferredIs
  <2>. HIDE DEF row
  <2>. DEFINE c == [id |-> row.id, code |-> Code(e.dim, e.width, Version)]
              g == Grown(e, row)
  <2>3. g.touched = e.touched \cup {row.id} /\ g.rows = Append(e.rows, c)
    BY <2>2, GrownIs
  <2>4. e.rows \in Seq(Coded) /\ c \in Coded /\ c.id = row.id
    <3>1. row.id \in Nat /\ e.dim \in Nat /\ e.width \in Nat /\ e.rows \in Seq(Coded)
      BY <2>2 DEF Rows, Entries
    <3>. QED  BY <3>1 DEF Coded, Code, Version
  <2>. HIDE DEF c, g
  <2>5. \A x \in e.touched : Has(e.rows, x)
    <3>1. e = Loaded(KeyOf(s, d)) => e.touched = {}
      BY <2>2, EntryIs
    <3>. QED  BY <2>2, <3>1 DEF RowsInv
  <2>6. \A x \in g.touched : Has(g.rows, x)
    BY <2>3, <2>4, <2>5, HasAppended
  <2>7. write'[s].entries = (write[s].entries \ {e}) \cup {g}
    BY <2>2 DEF g
  <2>8. \A x : Pending(write[s].entries, x) => Pending(write'[s].entries, x)
    BY <2>3, <2>7 DEF Pending
  <2>9. Pending(write'[s].entries, row.id)
    BY <2>3, <2>7 DEF Pending
  <2>10. \A t \in Session : t # s => write'[t] = write[t]
    BY <2>2
  <2>11. \A i \in DOMAIN write'[s].rows :
           write'[s].rows[i] = row \/ (i \in DOMAIN write[s].rows /\ write'[s].rows[i] = write[s].rows[i])
    BY <1>1, <2>2, Appended
  <2>12. \A t \in Session : \A x \in write'[t].entries : \A y \in x.touched : Has(x.rows, y)
    BY <2>6, <2>7, <2>10 DEF RowsInv
  <2>13. file'.on => \A i \in DOMAIN table' : table'[i].dim # 0 => Has(file'.rows, table'[i].id)
    BY <1>7, <2>2 DEF RowsInv
  <2>14. file.on => \A t \in Session : \A i \in DOMAIN write'[t].rows :
                      write'[t].rows[i].dim # 0 =>
             \/ Has(file'.rows, write'[t].rows[i].id)
             \/ Pending(write'[t].entries, write'[t].rows[i].id)
    <3>. SUFFICES ASSUME file.on, NEW t \in Session,
                         NEW i \in DOMAIN write'[t].rows, write'[t].rows[i].dim # 0
                  PROVE  \/ Has(file'.rows, write'[t].rows[i].id)
                         \/ Pending(write'[t].entries, write'[t].rows[i].id)
      OBVIOUS
    <3>1. \A j \in DOMAIN write[t].rows : write[t].rows[j].dim # 0 =>
            \/ Has(file.rows, write[t].rows[j].id)
            \/ Pending(write[t].entries, write[t].rows[j].id)
      BY DEF RowsInv
    <3>2. CASE t = s
      BY <2>2, <2>8, <2>9, <2>11, <3>1, <3>2
    <3>3. CASE t # s
      BY <2>2, <2>10, <3>1, <3>3
    <3>. QED  BY <3>2, <3>3
  <2>. QED  BY <2>2, <2>12, <2>13, <2>14 DEF RowsInv
<1>8. ASSUME NEW s \in Session, Abort(s), file' = file,
             file.on => \A i \in DOMAIN table' : table'[i].dim # 0 => Has(file.rows, table'[i].id)
      PROVE  RowsInv'
  <2>1. write'[s] = NoWrite /\ \A t \in Session : t # s => write'[t] = write[t]
    BY <1>1, <1>8, AbortIs
  <2>2. NoWrite.entries = {} /\ NoWrite.rows = <<>>
    BY DEF NoWrite
  <2>. QED  BY <1>8, <2>1, <2>2 DEF RowsInv, Pending
<1>9. ASSUME NEW s \in Session, NEW e \in Entries, e \in write[s].entries, Flushes(s, e)
      PROVE  RowsInv'
  <2>1. file \in Files /\ file.on /\ table' = table
    BY <1>1, <1>9 DEF OpenCopies, Flushes, Files
  <2>2. /\ write'[s].rows = write[s].rows /\ write'[s].entries = write[s].entries \ {e}
        /\ \A t \in Session : t # s => write'[t] = write[t]
    BY <1>1, <1>9, FlushesIs
  <2>3. \A x : Has(file.rows, x) => Has(file'.rows, x)
    BY <1>9, <2>1, ReconciledIs DEF Flushes, Has
  <2>4. \A x \in e.touched : Has(file'.rows, x)
    <3>1. \A x \in e.touched : Has(e.rows, x)
      BY <1>9 DEF RowsInv
    <3>2. \A i \in DOMAIN e.rows : e.rows[i].id \in e.touched => Has(file'.rows, e.rows[i].id)
      BY <1>9, <2>1, ReconciledIs DEF Flushes, Has
    <3>. QED  BY <3>1, <3>2 DEF Has
  <2>5. \A x : Pending(write[s].entries, x) => Pending(write'[s].entries, x) \/ Has(file'.rows, x)
    BY <2>2, <2>4 DEF Pending
  <2>7. \A t \in Session : write'[t].entries \subseteq write[t].entries /\ write'[t].rows = write[t].rows
    BY <2>2
  <2>8. \A i \in DOMAIN table' : table'[i].dim # 0 => Has(file'.rows, table'[i].id)
    BY <2>1, <2>3 DEF RowsInv
  <2>9. \A t \in Session : \A i \in DOMAIN write'[t].rows :
          write'[t].rows[i].dim # 0 =>
            \/ Has(file'.rows, write'[t].rows[i].id)
            \/ Pending(write'[t].entries, write'[t].rows[i].id)
    <3>1. \A t \in Session : t # s => write'[t].entries = write[t].entries
      BY <2>2
    <3>. QED  BY <2>1, <2>3, <2>5, <2>7, <3>1 DEF RowsInv
  <2>10. \A t \in Session : \A x \in write'[t].entries : \A y \in x.touched : Has(x.rows, y)
    BY <2>7 DEF RowsInv
  <2>. QED  BY <2>8, <2>9, <2>10 DEF RowsInv
<1>10. ASSUME NEW s \in Session, Commits(s)
       PROVE  RowsInv'
  <2>1. Abort(s) /\ file' = file /\ write[s].entries = {} /\ table' = table \o write[s].rows
    BY <1>10 DEF Commits
  <2>2. file.on => \A i \in DOMAIN write[s].rows :
                     write[s].rows[i].dim # 0 => Has(file.rows, write[s].rows[i].id)
    BY <2>1 DEF RowsInv, Pending
  <2>3. file.on => \A i \in DOMAIN table' : table'[i].dim # 0 => Has(file.rows, table'[i].id)
    <3>. DEFINE r == write[s].rows
    <3>1. table \in Seq(Rows) /\ r \in Seq(Rows)
      BY <1>1
    <3>2. /\ DOMAIN table = 1 .. Len(table) /\ DOMAIN r = 1 .. Len(r)
      BY <3>1
    <3>. HIDE DEF r
    <3>3. \A i \in DOMAIN (table \o r) :
            \/ i \in DOMAIN table /\ (table \o r)[i] = table[i]
            \/ i - Len(table) \in DOMAIN r /\ (table \o r)[i] = r[i - Len(table)]
      BY <3>1, <3>2, Concatenated
    <3>4. table' = table \o r
      BY <2>1 DEF r
    <3>5. \A i \in DOMAIN table' : (\E j \in DOMAIN table : table'[i] = table[j])
                                   \/ (\E j \in DOMAIN r : table'[i] = r[j])
      BY <3>3, <3>4
    <3>6. file.on => \A j \in DOMAIN r : r[j].dim # 0 => Has(file.rows, r[j].id)
      BY <2>2 DEF r
    <3>7. file.on => \A j \in DOMAIN table : table[j].dim # 0 => Has(file.rows, table[j].id)
      BY DEF RowsInv
    <3>. QED  BY <3>5, <3>6, <3>7
  <2>. QED  BY <1>8, <2>1, <2>3
<1>11. ASSUME NEW s \in Session, Undoes(s)
       PROVE  RowsInv'
  <2>1. Abort(s) /\ file' = file /\ table' = table
    BY <1>11 DEF Undoes, Fails
  <2>. QED  BY <1>8, <2>1 DEF RowsInv
<1>12. ASSUME NEW s \in Session, NEW d \in Dims, Inserts(s, d)
       PROVE  RowsInv'
  BY <1>5, <1>6, <1>7, <1>12 DEF Inserts
<1>13. ASSUME NEW s \in Session, NEW width \in Nat, Alters(s, width)
       PROVE  RowsInv'
  BY <1>3, <1>13 DEF Alters
<1>14. (Looks \/ Idles) => RowsInv'
  BY <1>3 DEF Looks, Idles
<1>. QED  BY StepIs, <1>2, <1>4, <1>9, <1>10, <1>11, <1>12, <1>13, <1>14

-----------------------------------------------------------------------------
(* What a scan reads, and what the planner is told of it.                  *)

\* A scan raises an ERROR, reads a copy of its own transaction, or the file.
Outcome(s, a) ==
  \/ a.way \in {"error", "empty"} /\ a.codes = {}
  \/ \E e \in write[s].entries :
       /\ a.way = "own" /\ \A c \in a.codes : \E i \in DOMAIN e.rows : c = e.rows[i].code
       /\ a.as = Code(e.dim, e.width, Version)
  \/ /\ a.way \in {"bq", "graph", "whole", "ooc"} /\ file.kind # "colbert" /\ file.rows # <<>>
     /\ a.cells <=> (file.kind \in {"single", "bq"} /\ file.lists > 0 /\ ~ IsDegraded(file))
     /\ \A c \in a.codes : \E i \in DOMAIN file.rows : c = file.rows[i].code
     /\ a.as = Code(file.dim, file.width, Version)

LEMMA TupleIs ==
  ASSUME SettingsType, file \in Files, NEW s \in Session, NEW q, NEW look,
         NEW a \in FirstTuple(s, q, look)
  PROVE  Outcome(s, a) /\ DOMAIN a = DOMAIN NoAnswer
<1>. DEFINE codes(rows) == {r.code : r \in Range(rows)}
            own == {e \in write[s].entries : e.key = [dim |-> file.dim, width |-> file.width]}
            fallback == IF file.rows = <<>> \/ file.dim # q THEN write[s].entries ELSE {}
            cells == file.kind \in {"single", "bq"} /\ file.lists > 0 /\ ~ IsDegraded(file)
            as == Code(file.dim, file.width, Version)
            mutable(e) == Served(IF e.dim = q THEN "own" ELSE "error",
                                 IF e.dim = q THEN codes(e.rows) ELSE {},
                                 Code(e.dim, e.width, Version), FALSE)
            way == CASE file.kind \in {"bq", "graph"} -> file.kind
                     [] file.kind = "single" /\ cells /\ OutOfCore(look, file) -> "ooc"
                     [] OTHER -> "whole"
<1>1. \/ a = Served("error", {}, as, FALSE)
      \/ \E e \in write[s].entries : a = mutable(e)
      \/ a = Served("empty", {}, as, FALSE)
      \/ ~ Refused(file) /\ file.rows # <<>> /\ a = Served(way, codes(file.rows), as, cells)
  BY DEF FirstTuple
<1>2. \A rows : \A c \in codes(rows) : \E i \in DOMAIN rows : c = rows[i].code
  BY DEF Range
<1>3. way \in {"bq", "graph", "whole", "ooc"}
  <2>1. CASE file.kind \in {"bq", "graph"}
    BY <2>1
  <2>2. CASE file.kind \notin {"bq", "graph"}
    BY <2>2
  <2>. QED  BY <2>1, <2>2
<1>. HIDE DEF codes, cells, as, way
<1>4. CASE a = Served("error", {}, as, FALSE) \/ a = Served("empty", {}, as, FALSE)
  <2>1. a.way \in {"error", "empty"} /\ a.codes = {} /\ DOMAIN a = DOMAIN NoAnswer
    BY <1>4 DEF Served, NoAnswer
  <2>. QED  BY <2>1 DEF Outcome
<1>5. ASSUME NEW e \in write[s].entries, a = mutable(e)
      PROVE  Outcome(s, a) /\ DOMAIN a = DOMAIN NoAnswer
  <2>1. CASE e.dim = q
    <3>1. a = Served("own", codes(e.rows), Code(e.dim, e.width, Version), FALSE)
      BY <1>5, <2>1
    <3>2. /\ a.way = "own" /\ a.codes = codes(e.rows) /\ a.as = Code(e.dim, e.width, Version)
          /\ DOMAIN a = DOMAIN NoAnswer
      BY <3>1 DEF Served, NoAnswer
    <3>. QED  BY <1>2, <3>2 DEF Outcome
  <2>2. CASE e.dim # q
    <3>1. a = Served("error", {}, Code(e.dim, e.width, Version), FALSE)
      BY <1>5, <2>2
    <3>2. a.way = "error" /\ a.codes = {} /\ DOMAIN a = DOMAIN NoAnswer
      BY <3>1 DEF Served, NoAnswer
    <3>. QED  BY <3>2 DEF Outcome
  <2>. QED  BY <2>1, <2>2
<1>6. CASE ~ Refused(file) /\ file.rows # <<>> /\ a = Served(way, codes(file.rows), as, cells)
  <2>1. file.kind # "colbert"
    BY <1>6 DEF Refused
  <2>2. a.way = way /\ a.codes = codes(file.rows) /\ a.as = as /\ (a.cells <=> cells)
        /\ DOMAIN a = DOMAIN NoAnswer
    BY <1>6 DEF Served, NoAnswer
  <2>. DEFINE c0 == codes(file.rows)
  <2>3. \A c \in c0 : \E i \in DOMAIN file.rows : c = file.rows[i].code
    BY <1>2
  <2>. HIDE DEF c0
  <2>4. a.codes = c0
    BY <2>2 DEF c0
  <2>. QED  BY <1>3, <1>6, <2>1, <2>2, <2>3, <2>4 DEF Outcome, cells, as
<1>. QED  BY <1>1, <1>4, <1>5, <1>6

LEMMA Product ==
  ASSUME NEW n \in Nat, NEW p \in Nat, NEW l \in Nat, 1 <= p, p <= l
  PROVE  n * p \in Nat /\ n * l \in Nat /\ n <= n * p /\ n * p <= n * l
<1>1. n * p \in Nat /\ n * l \in Nat /\ n * (p - 1) >= 0 /\ n * (l - p) >= 0
  <2>1. p - 1 \in Nat /\ l - p \in Nat
    OBVIOUS
  <2>2. \A i, j \in Nat : i * j \in Nat
    OBVIOUS
  <2>. QED  BY <2>1, <2>2
<1>2. n * (p - 1) = n * p - n /\ n * (l - p) = n * l - n * p
  OBVIOUS
<1>. QED  BY <1>1, <1>2

LEMMA ScoredIs ==
  ASSUME NEW n \in Nat, NEW lists \in Nat, NEW probes \in Nat
  PROVE  /\ lists = 0 => Scored(n, lists, probes)[1] = n * Scored(n, lists, probes)[2]
         /\ lists > 0 => /\ Scored(n, lists, probes)[2] = lists
                         /\ Scored(n, lists, probes)[1] \in n .. n * lists
<1>1. CASE lists = 0
  <2>1. Scored(n, lists, probes) = <<n, 1>> /\ n * 1 = n
    BY <1>1 DEF Scored
  <2>. QED  BY <1>1, <2>1
<1>2. CASE lists > 0
  <2>. DEFINE m == Min({probes, lists})
              p == Max({1, m})
              x == Max({n * p, n})
  <2>1. m \in Nat /\ m <= lists
    BY MinTwo
  <2>. HIDE DEF m
  <2>2. p \in Nat /\ 1 <= p /\ p <= lists
    BY <1>2, <2>1, MaxTwo
  <2>3. Scored(n, lists, probes) = <<x, lists>>
    BY <1>2 DEF Scored, m
  <2>. HIDE DEF p
  <2>4. n * p \in Nat /\ n * lists \in Nat /\ n <= n * p /\ n * p <= n * lists
    BY <2>2, Product
  <2>. DEFINE y == n * p
              z == n * lists
  <2>5. y \in Nat /\ z \in Nat /\ n <= y /\ y <= z /\ x = Max({y, n})
    BY <2>4
  <2>. HIDE DEF y, z, x
  <2>6. x \in n .. z
    BY <2>5, MaxTwo
  <2>. QED  BY <1>2, <2>3, <2>6 DEF z
<1>. QED  BY <1>1, <1>2

\* Where a graph is built there are no cells, or they are lost.
CostInv ==
  /\ with.graph => with.lists = 0
  /\ file.on => (file.kind = "graph" => file.lists = 0 \/ file.degraded)
  /\ fork.on => fork.kind # "graph"
  /\ CostIsOfTheScan

\* What one scan leaves.
LEMMA LookIs ==
  ASSUME InstallationAssumption, SettingsType, Looks
  PROVE  /\ file \in Files
         /\ \/ /\ answer'.codes = {} /\ answer'.way \in {"error", "nothing"}
               /\ answer'.way = "nothing" => answer'.disabled
            \/ \E s \in Session, probes \in Nat :
                 /\ Outcome(s, answer') /\ answer'.n = Len(file.rows)
                 /\ answer'.scored = Scored(Len(file.rows), EffectiveLists(file), probes)
<1>1. \A look \in Scans : look.probes \in Nat
  BY DEF InstallationAssumption
<1>2. ASSUME NEW s \in Session, NEW q, NEW look \in Scans, Scan(s, q, look, TRUE)
      PROVE  /\ file \in Files
             /\ \E probes \in Nat :
                  /\ Outcome(s, answer') /\ answer'.n = Len(file.rows)
                  /\ answer'.scored = Scored(Len(file.rows), EffectiveLists(file), probes)
  <2>1. file \in Files
    BY <1>2 DEF Scan, SettingsType, NoFile
  <2>2. PICK a \in FirstTuple(s, q, look) :
          answer' = [a EXCEPT !.n = Len(file.rows), !.disabled = FALSE,
                              !.scored = Scored(Len(file.rows), EffectiveLists(file), look.probes)]
    BY <1>2 DEF Scan
  <2>3. Outcome(s, a) /\ DOMAIN a = DOMAIN NoAnswer
    BY <2>1, TupleIs
  <2>4. /\ answer'.way = a.way /\ answer'.codes = a.codes /\ answer'.as = a.as
        /\ (answer'.cells <=> a.cells) /\ answer'.n = Len(file.rows)
        /\ answer'.scored = Scored(Len(file.rows), EffectiveLists(file), look.probes)
    BY <2>2, <2>3 DEF NoAnswer
  <2>5. Outcome(s, answer')
    BY <2>3, <2>4 DEF Outcome
  <2>. QED  BY <1>1, <2>1, <2>4, <2>5
<1>3. ASSUME NEW s \in Session, NEW look \in Scans, Scan(s, 0, look, FALSE)
      PROVE  /\ file \in Files
             /\ answer'.codes = {} /\ answer'.way \in {"error", "nothing"} /\ answer'.disabled
  <2>1. file \in Files
    BY <1>3 DEF Scan, SettingsType, NoFile
  <2>. DEFINE a == Served(IF Refused(file) THEN "error" ELSE "nothing", {}, Torn, FALSE)
  <2>2. answer' = [a EXCEPT !.n = Len(file.rows), !.disabled = TRUE,
                            !.scored = Scored(Len(file.rows), EffectiveLists(file), look.probes)]
    BY <1>3 DEF Scan
  <2>3. a.codes = {} /\ a.way \in {"error", "nothing"} /\ DOMAIN a = DOMAIN NoAnswer
    BY DEF Served, NoAnswer
  <2>. HIDE DEF a
  <2>4. answer'.way = a.way /\ answer'.codes = a.codes /\ answer'.disabled
    BY <2>2, <2>3 DEF NoAnswer
  <2>. QED  BY <2>1, <2>3, <2>4
<1>. QED  BY <1>2, <1>3 DEF Looks

LEMMA CostInit ==
  ASSUME InstallationAssumption, SettingsInit
  PROVE  CostInv
<1>1. ~ with.graph \/ with.lists = 0
  <2>1. NoWith.lists = 0 /\ [NoWith EXCEPT !.given = TRUE, !.width = 4].lists = 0
    BY DEF NoWith
  <2>. QED  BY <2>1 DEF SettingsInit
<1>2. file.on => file.kind # "graph"
  <2>1. CASE OldRows = <<>>
    BY <2>1, OldIndexIs, NoFileIs DEF SettingsInit
  <2>2. CASE OldRows # <<>>
    BY <2>2, OldIndexIs DEF SettingsInit
  <2>. QED  BY <2>1, <2>2
<1>3. ~ fork.on
  BY NoFileIs DEF SettingsInit
<1>4. CostIsOfTheScan
  BY DEF SettingsInit, NoAnswer, CostIsOfTheScan
<1>. QED  BY <1>1, <1>2, <1>3, <1>4 DEF CostInv

LEMMA CostStep ==
  ASSUME InstallationAssumption, SettingsType, CostInv, [SettingsNext]_settingsVars
  PROVE  CostInv'
<1>1. /\ with \in Options /\ Dims \subseteq Nat /\ OpenCopies /\ file \in Files \cup {NoFile}
      /\ fork \in Files \cup {NoFile} /\ \A f \in Files : f.on
  BY NoFileIs DEF SettingsType, InstallationAssumption
<1>2. ASSUME UNCHANGED answer
      PROVE  CostIsOfTheScan'
  BY <1>2 DEF CostInv, CostIsOfTheScan
<1>3. ASSUME with' = with, fork' = fork, UNCHANGED answer,
             file'.on => (file'.kind = "graph" => file'.lists = 0 \/ file'.degraded)
      PROVE  CostInv'
  BY <1>2, <1>3 DEF CostInv
<1>4. ASSUME NEW s \in Session, NEW w \in Options, Rebuilds(s, w)
      PROVE  CostInv'
  <2>. DEFINE o == Read(s, w)
              I == Indexed(table)
  <2>1. /\ o \in Options /\ I \in Seq(Rows) /\ file' = Built(o, I) /\ with' = w /\ UNCHANGED answer
        /\ fork' = InitFork(o) \/ fork' = fork
    BY <1>4, RebuiltIs DEF Rebuilds
  <2>2. o.lists = w.lists /\ o.graph = w.graph /\ w.lists \in Nat
    BY ReadIs DEF Options
  <2>3. w.graph => w.lists = 0
    <3>1. CASE ~ w.given
      <4>1. NoWith.lists = 0
        BY DEF NoWith
      <4>. QED  BY <1>4, <3>1, <4>1 DEF Rebuilds
    <3>2. CASE w.given /\ w \in Withs
      <4>1. CASE Valid(o)
        BY <2>2, <4>1 DEF Valid
      <4>2. CASE w = with
        BY <4>2 DEF CostInv
      <4>. QED  BY <1>4, <3>2, <4>1, <4>2 DEF Rebuilds
    <3>3. CASE w = with
      BY <3>3 DEF CostInv
    <3>. QED  BY <1>4, <3>1, <3>2, <3>3 DEF Rebuilds
  <2>. HIDE DEF o, I
  <2>4. file'.kind = "graph" => o.graph /\ file'.lists \in 0 .. o.lists
    BY <2>1, BuiltIs
  <2>5. file'.kind = "graph" => file'.lists = 0
    <3>1. \A x \in 0 .. 0 : x = 0
      OBVIOUS
    <3>. QED  BY <2>2, <2>3, <2>4, <3>1
  <2>6. fork'.on => fork'.kind # "graph"
    <3>1. InitFork(o).kind # "graph"
      BY <2>1, InitForkIs
    <3>. QED  BY <2>1, <3>1 DEF CostInv
  <2>. QED  BY <1>2, <2>1, <2>3, <2>5, <2>6 DEF CostInv
<1>5. ASSUME NEW s \in Session, NEW width \in Nat, Alters(s, width)
      PROVE  CostInv'
  <2>1. with'.graph = with.graph /\ with'.lists = with.lists
    BY <1>1, <1>5 DEF Alters, Options
  <2>2. file' = file /\ fork' = fork /\ UNCHANGED answer
    BY <1>5 DEF Alters
  <2>. QED  BY <1>2, <2>1, <2>2 DEF CostInv
<1>6. ASSUME Crashes
      PROVE  CostInv'
  <2>1. with' = with /\ file' = fork /\ fork' = fork /\ UNCHANGED answer
    BY <1>6 DEF Crashes
  <2>. QED  BY <1>3, <2>1 DEF CostInv
<1>7. ASSUME NEW s \in Session, NEW d \in Dims, Inserts(s, d)
      PROVE  CostInv'
  <2>1. d \in Nat /\ with' = with /\ fork' = fork /\ UNCHANGED answer
    BY <1>1, <1>7 DEF Inserts
  <2>2. CASE Unindexed(s, d)
    BY <1>3, <2>1, <2>2 DEF Unindexed, CostInv
  <2>3. CASE Immediate(s, d)
    <3>1. file \in Files /\ [id |-> changes, dim |-> d] \in Rows
      BY <2>1, <2>3, AddedIs DEF Immediate
    <3>2. file'.lists = file.lists /\ file'.degraded = (file.lists > 0) /\ file.lists \in Nat
      BY <2>3, <3>1, InsertedIs DEF Immediate, Files
    <3>3. CASE file.lists = 0
      <4>1. file'.lists = 0
        BY <3>2, <3>3
      <4>. QED  BY <1>3, <2>1, <2>3, <3>1, <3>2, <4>1
    <3>4. CASE file.lists > 0
      <4>1. (file.lists > 0) = TRUE
        BY <3>4
      <4>2. file'.degraded
        BY <3>2, <4>1
      <4>. QED  BY <1>3, <2>1, <4>2
    <3>. QED  BY <3>2, <3>3, <3>4
  <2>4. CASE Deferred(s, d)
    BY <1>3, <2>1, <2>4, DeferredIs DEF CostInv
  <2>. QED  BY <1>7, <2>2, <2>3, <2>4 DEF Inserts
<1>8. ASSUME NEW s \in Session, Undoes(s)
      PROVE  CostInv'
  BY <1>3, <1>8 DEF Undoes, Fails, CostInv
<1>9. ASSUME NEW s \in Session, NEW e \in Entries, e \in write[s].entries, Flushes(s, e)
      PROVE  CostInv'
  <2>1. file \in Files
    BY <1>1, <1>9 DEF OpenCopies
  <2>2. file'.kind = "single"
    BY <1>9, <2>1, ReconciledIs DEF Flushes
  <2>. QED  BY <1>3, <1>9, <2>2 DEF Flushes
<1>10. ASSUME NEW s \in Session, Commits(s)
       PROVE  CostInv'
  BY <1>3, <1>10 DEF Commits, CostInv
<1>11. ASSUME Looks
       PROVE  CostInv'
  <2>1. with' = with /\ file' = file /\ fork' = fork
    BY <1>11 DEF Looks
  <2>2. CostIsOfTheScan'
    <3>1. CASE answer'.way \in {"error", "nothing"} /\ (answer'.way = "nothing" => answer'.disabled)
      BY <3>1 DEF CostIsOfTheScan
    <3>2. ASSUME NEW s \in Session, NEW probes \in Nat, file \in Files,
                 Outcome(s, answer'), answer'.n = Len(file.rows),
                 answer'.scored = Scored(Len(file.rows), EffectiveLists(file), probes)
          PROVE  CostIsOfTheScan'
      <4>1. /\ file.lists \in Nat /\ file.rows \in Seq(Coded) /\ file.degraded \in BOOLEAN
            /\ file.kind \in {"single", "bq", "graph", "colbert"}
        BY <3>2 DEF Files
      <4>2. CASE answer'.way \in {"error", "empty", "own"}
        BY <4>2 DEF CostIsOfTheScan
      <4>3. CASE /\ answer'.way \in {"bq", "graph", "whole", "ooc"} /\ file.kind # "colbert"
                 /\ answer'.cells <=> (file.kind \in {"single", "bq"} /\ file.lists > 0 /\ ~ IsDegraded(file))
        <5>. DEFINE n == Len(file.rows)
                    l == EffectiveLists(file)
        <5>1. n \in Nat /\ l \in Nat
          BY <4>1 DEF EffectiveLists
        <5>2. answer'.cells => l > 0
          BY <4>3 DEF EffectiveLists
        <5>3. ~ answer'.cells => l = 0
          <6>1. CASE IsDegraded(file)
            BY <6>1 DEF EffectiveLists
          <6>2. CASE ~ IsDegraded(file) /\ file.lists > 0
            <7>1. file.kind # "graph"
              BY <1>1, <3>2, <4>1, <6>2 DEF CostInv, IsDegraded
            <7>. QED  BY <4>1, <4>3, <6>2, <7>1
          <6>3. CASE ~ IsDegraded(file) /\ ~ (file.lists > 0)
            BY <4>1, <6>3 DEF EffectiveLists
          <6>. QED  BY <6>1, <6>2, <6>3
        <5>4. answer'.n = n /\ answer'.scored = Scored(n, l, probes)
          BY <3>2
        <5>. DEFINE x == Scored(n, l, probes)
        <5>. HIDE DEF n, l
        <5>5. (l = 0 => x[1] = n * x[2]) /\ (l > 0 => x[2] = l /\ x[1] \in n .. n * l)
          BY <5>1, ScoredIs
        <5>. HIDE DEF x
        <5>6. answer'.n = n /\ answer'.scored = x
          BY <5>4 DEF x
        <5>7. ~ answer'.cells => answer'.scored[1] = answer'.n * answer'.scored[2]
          BY <5>3, <5>5, <5>6
        <5>8. answer'.cells => /\ answer'.scored[2] > 0
                               /\ answer'.scored[1] \in answer'.n .. answer'.n * answer'.scored[2]
          BY <5>1, <5>2, <5>5, <5>6
        <5>. QED  BY <4>3, <5>7, <5>8 DEF CostIsOfTheScan
      <4>. QED  BY <3>2, <4>2, <4>3 DEF Outcome
    <3>. QED  BY <1>11, <3>1, <3>2, LookIs
  <2>. QED  BY <2>1, <2>2 DEF CostInv
<1>12. ASSUME Idles
       PROVE  CostInv'
  BY <1>3, <1>12 DEF Idles, CostInv
<1>13. \/ \E s \in Session, w \in Options : Rebuilds(s, w)
       \/ \E s \in Session, width \in Nat : Alters(s, width)
       \/ Crashes
       \/ \E s \in Session, d \in Dims : Inserts(s, d)
       \/ \E s \in Session : Undoes(s)
       \/ \E s \in Session, e \in Entries : e \in write[s].entries /\ Flushes(s, e)
       \/ \E s \in Session : Commits(s)
       \/ Looks
       \/ Idles
  BY StepIs
<1>. QED  BY <1>4, <1>5, <1>6, <1>7, <1>8, <1>9, <1>10, <1>11, <1>12, <1>13

-----------------------------------------------------------------------------
(* How the codes were written, in an index of one width and one dimension.  *)

\* OneReading, of that width and dimension.
ReadsAs(W, D) ==
  /\ OldRows = <<>> /\ W \in 2 .. 4 /\ D \in Nat
  /\ AlterWidths \subseteq {W} /\ \A w \in Withs : w.given /\ w.width \in {1, W}
  /\ \A d \in Dims : d = 0 \/ d % 8 # 0 \/ d = D

Fits(rows) == \A i \in DOMAIN rows : rows[i].dim \in Dims
Alike(rows, code) == \A i \in DOMAIN rows : rows[i].code = code

\* Of an index and of what a crash makes of it.
IndexReads(f, w, W, D) ==
  /\ w.given /\ w.width \in {1, W}
  /\ f.kind # "bq" => f.width = W /\ w.width = W
  /\ f.rows # <<>> => f.dim = D
  /\ Alike(f.rows, Code(f.dim, f.width, Version))

ReadInv(W, D) ==
  /\ Fits(table) /\ \A s \in Session : Fits(write[s].rows)
  /\ file.on => IndexReads(file, with, W, D)
  /\ fork.on => Unlogged /\ fork.rows = <<>> /\ IndexReads(fork, with, W, D)
  /\ \A s \in Session : \A e \in write[s].entries :
       /\ e.key.dim = D /\ e.key.width = W /\ e.dim = D /\ e.width = W
       /\ Alike(e.rows, Code(D, W, Version))
  /\ ReadAsWritten

LEMMA ReadInit ==
  ASSUME InstallationAssumption, NEW W, NEW D, ReadsAs(W, D), SettingsInit
  PROVE  ReadInv(W, D)
<1>1. table = <<>> /\ \A s \in Session : write[s].rows = <<>> /\ write[s].entries = {}
  BY DEF SettingsInit, NoWrite, ReadsAs
<1>2. ~ file.on /\ ~ fork.on
  BY OldIndexIs, NoFileIs DEF SettingsInit, ReadsAs
<1>3. answer.codes = {}
  BY DEF SettingsInit, NoAnswer
<1>. QED  BY <1>1, <1>2, <1>3 DEF ReadInv, Fits, ReadAsWritten

LEMMA OptionsRead ==
  ASSUME SettingsType, NEW W, NEW D, ReadsAs(W, D), NEW s \in Session, NEW w \in Options,
         w.given, w.width \in {1, W}
  PROVE  Read(s, w).width = w.width
<1>1. w.width # 0
  BY DEF ReadsAs
<1>. QED  BY <1>1, ReadIs

\* The one dimension a row with a vector can have.
LEMMA OneDim ==
  ASSUME NEW W, NEW D, ReadsAs(W, D), NEW d \in Dims, d # 0, d % 8 = 0
  PROVE  d = D
BY DEF ReadsAs

LEMMA FitsAppended ==
  ASSUME NEW rows \in Seq(Rows), NEW row \in Rows, Fits(rows), row.dim \in Dims
  PROVE  Fits(Append(rows, row))
BY Appended DEF Fits

LEMMA AlikeAppended ==
  ASSUME NEW rows \in Seq(Coded), NEW c \in Coded, Alike(rows, c.code)
  PROVE  Alike(Append(rows, c), c.code)
BY Appended DEF Alike

\* A build encodes rows of one dimension, with the width it was given.
LEMMA RebuildReads ==
  ASSUME InstallationAssumption, SettingsType, NEW W, NEW D, ReadsAs(W, D), ReadInv(W, D),
         NEW s \in Session, NEW w \in Options, Rebuilds(s, w)
  PROVE  /\ IndexReads(file', w, W, D)
         /\ fork'.on => Unlogged /\ fork'.rows = <<>> /\ IndexReads(fork', w, W, D)
<1>. DEFINE o == Read(s, w)
            I == Indexed(table)
            b == Built(o, I)
<1>1. w.given /\ w.width \in {1, W}
  BY DEF Rebuilds, ReadsAs, ReadInv, IndexReads
<1>2. o.width = w.width
  BY <1>1, OptionsRead
<1>3. /\ o \in Options /\ I \in Seq(Rows) /\ file' = b /\ b \in Files
      /\ fork' = InitFork(o) \/ (~ Unlogged /\ fork' = fork)
      /\ ~ BuildFails(o, I)
  BY RebuiltIs DEF Rebuilds
<1>4. \A j \in DOMAIN I : I[j].dim = D
  <2>1. table \in Seq(Rows) /\ Fits(table)
    BY DEF SettingsType, ReadInv
  <2>2. \A j \in DOMAIN I : I[j].dim # 0 /\ \E i \in DOMAIN table : I[j] = table[i]
    BY <2>1, IndexedIs
  <2>3. \A j \in DOMAIN I : I[j].dim \in Dims /\ I[j].dim # 0
    BY <2>1, <2>2 DEF Fits
  <2>4. \A j \in DOMAIN I : I[j] \in Range(I)
    BY DEF Range
  <2>5. \A j \in DOMAIN I : I[j].dim % 8 = 0
    BY <1>3, <2>4 DEF BuildFails
  <2>. HIDE DEF I
  <2>. QED  BY <2>3, <2>5, OneDim
<1>. HIDE DEF o, I
<1>5. /\ b.version = Version /\ b.width = o.width /\ (b.kind = "bq" <=> o.width = 1)
      /\ Len(b.rows) = Len(I) /\ (I # <<>> => b.dim = I[1].dim)
      /\ \A i \in DOMAIN I : b.rows[i].code = Code(I[i].dim, o.width, Version)
  BY <1>3, BuiltIs
<1>. HIDE DEF b
<1>6. b.rows \in Seq(Coded) /\ DOMAIN b.rows = DOMAIN I /\ (b.rows # <<>> => I # <<>> /\ 1 \in DOMAIN I)
  <2>1. b.rows \in Seq(Coded)
    BY <1>3 DEF Files
  <2>. QED  BY <1>3, <1>5, <2>1
<1>7. b.rows # <<>> => b.dim = D
  BY <1>4, <1>5, <1>6
<1>8. Alike(b.rows, Code(b.dim, b.width, Version))
  <2>1. \A i \in DOMAIN b.rows : b.rows # <<>>
    BY <1>6
  <2>2. \A i \in DOMAIN b.rows : b.rows[i].code = Code(D, b.width, Version) /\ b.dim = D
    BY <1>4, <1>5, <1>6, <1>7, <2>1
  <2>. QED  BY <2>2 DEF Alike
<1>9. b.kind # "bq" => b.width = W /\ w.width = W
  BY <1>1, <1>2, <1>5
<1>10. IndexReads(file', w, W, D)
  BY <1>1, <1>3, <1>7, <1>8, <1>9 DEF IndexReads
<1>11. ASSUME fork'.on
       PROVE  Unlogged /\ fork'.rows = <<>> /\ IndexReads(fork', w, W, D)
  <2>. DEFINE f == InitFork(o)
  <2>1. Unlogged /\ fork' = f
    <3>1. Unlogged \in BOOLEAN /\ (fork.on => Unlogged)
      BY DEF InstallationAssumption, ReadInv
    <3>2. CASE ~ Unlogged
      <4>1. fork' = fork
        BY <3>2 DEF Rebuilds, Rebuilt
      <4>. QED  BY <1>11, <3>1, <3>2, <4>1
    <3>3. CASE Unlogged
      BY <3>3 DEF Rebuilds, Rebuilt, o
    <3>. QED  BY <3>1, <3>2, <3>3
  <2>2. f.rows = <<>> /\ f.width = o.width /\ f.kind = IF o.width = 1 THEN "bq" ELSE "single"
    BY <1>3, InitForkIs
  <2>. HIDE DEF f
  <2>3. f.kind # "bq" => f.width = W /\ w.width = W
    BY <1>1, <1>2, <2>2
  <2>4. Alike(f.rows, Code(f.dim, f.width, Version))
    BY <2>2 DEF Alike
  <2>. QED  BY <1>1, <2>1, <2>2, <2>3, <2>4 DEF IndexReads
<1>. QED  BY <1>10, <1>11

\* An insert that writes the index encodes with its width and of its dimension.
LEMMA ImmediateReads ==
  ASSUME InstallationAssumption, SettingsType, NEW W, NEW D, ReadsAs(W, D), ReadInv(W, D),
         NEW s \in Session, NEW d \in Dims, Immediate(s, d)
  PROVE  IndexReads(file', with, W, D)
<1>. DEFINE row == [id |-> changes, dim |-> d]
            c == [id |-> row.id, code |-> Code(row.dim, file.width, Version)]
<1>1. /\ file \in Files /\ file.on /\ d # 0 /\ d % 8 = 0 /\ ~ ImmediateFails(d) /\ InsertNow(row)
      /\ d \in Nat /\ changes \in Nat
  BY DEF Immediate, Files, SettingsType, InstallationAssumption
<1>2. d = D /\ IndexReads(file, with, W, D)
  BY <1>1, OneDim DEF ReadInv
<1>3. row \in Rows /\ row.dim = d /\ row.id = changes
  BY <1>1 DEF Rows
<1>. HIDE DEF row
<1>4. /\ file'.kind = file.kind /\ file'.width = file.width /\ file'.dim = d
      /\ file'.rows = Append(file.rows, c)
  BY <1>1, <1>3, InsertedIs
<1>5. c \in Coded /\ c.code = Code(d, file.width, Version) /\ file.rows \in Seq(Coded)
  BY <1>1, <1>3 DEF Coded, Code, Version, Files
<1>. HIDE DEF c
<1>6. Alike(file.rows, c.code)
  <2>1. CASE d = file.dim
    BY <1>2, <1>5, <2>1 DEF IndexReads
  <2>2. CASE file.rows = <<>>
    BY <2>2 DEF Alike
  <2>. QED  BY <1>1, <2>1, <2>2 DEF ImmediateFails
<1>7. Alike(file'.rows, c.code)
  BY <1>4, <1>5, <1>6, AlikeAppended
<1>. QED  BY <1>2, <1>4, <1>5, <1>7 DEF IndexReads

\* An insert that waits encodes with the width and the dimension of the index
\* it will be written to.
LEMMA DeferredReads ==
  ASSUME InstallationAssumption, SettingsType, NEW W, NEW D, ReadsAs(W, D), ReadInv(W, D),
         NEW s \in Session, NEW d \in Dims, Deferred(s, d)
  PROVE  \A e \in write'[s].entries :
           /\ e.key.dim = D /\ e.key.width = W /\ e.dim = D /\ e.width = W
           /\ Alike(e.rows, Code(D, W, Version))
<1>. DEFINE row == [id |-> changes, dim |-> d]
<1>1. d \in Nat /\ with \in Options
  BY DEF InstallationAssumption, SettingsType
<1>2. PICK e \in Entries :
        /\ e \in write[s].entries \/ e = Loaded(KeyOf(s, d))
        /\ file \in Files /\ d # 0 /\ d % 8 = 0 /\ file.kind \notin {"graph", "bq"}
        /\ KeyOf(s, d) \in Keys /\ row \in Rows
        /\ write'[s].entries = (write[s].entries \ {e}) \cup {Grown(e, row)}
  BY <1>1, DeferredIs
<1>. HIDE DEF row
<1>3. d = D /\ file.on
  BY <1>2, OneDim DEF Files
<1>4. with.given /\ with.width = W /\ file.width = W /\ (file.rows # <<>> => file.dim = D)
      /\ Alike(file.rows, Code(file.dim, file.width, Version))
  BY <1>2, <1>3 DEF ReadInv, IndexReads
<1>5. KeyOf(s, d).dim = D /\ KeyOf(s, d).width = W
  BY <1>1, <1>3, <1>4, OptionsRead DEF KeyOf
<1>6. e.key.dim = D /\ e.key.width = W /\ e.dim = D /\ e.width = W /\ Alike(e.rows, Code(D, W, Version))
  <2>1. CASE e \in write[s].entries
    BY <2>1 DEF ReadInv
  <2>2. CASE e = Loaded(KeyOf(s, d))
    <3>. DEFINE k == KeyOf(s, d)
                l == Loaded(k)
    <3>1. /\ l.key = k /\ l.rows = file.rows
          /\ file.rows # <<>> => l.dim = file.dim /\ l.width = file.width
          /\ file.rows = <<>> => l.dim = k.dim /\ l.width = k.width
      BY <1>2, EntryIs
    <3>2. k.dim = D /\ k.width = W /\ e = l
      BY <1>5, <2>2
    <3>. HIDE DEF k, l
    <3>3. e.dim = D /\ e.width = W
      BY <1>4, <3>1, <3>2
    <3>4. Alike(e.rows, Code(D, W, Version))
      <4>1. CASE file.rows = <<>>
        BY <3>1, <3>2, <4>1 DEF Alike
      <4>2. CASE file.rows # <<>>
        BY <1>4, <3>1, <3>2, <4>2
      <4>. QED  BY <4>1, <4>2
    <3>. QED  BY <3>1, <3>2, <3>3, <3>4
  <2>. QED  BY <1>2, <2>1, <2>2
<1>. DEFINE g == Grown(e, row)
            c == [id |-> row.id, code |-> Code(e.dim, e.width, Version)]
<1>7. /\ g.key = e.key /\ g.dim = e.dim /\ g.width = e.width /\ g.rows = Append(e.rows, c)
      /\ e.rows \in Seq(Coded) /\ c \in Coded /\ c.code = Code(D, W, Version)
  <2>1. g.key = e.key /\ g.dim = e.dim /\ g.width = e.width /\ g.rows = Append(e.rows, c)
    BY <1>2, GrownIs
  <2>2. e.rows \in Seq(Coded) /\ e.dim \in Nat /\ e.width \in Nat /\ row.id \in Nat
    BY <1>2 DEF Entries, Rows
  <2>. QED  BY <1>6, <2>1, <2>2 DEF Coded, Code, Version
<1>. HIDE DEF c, g
<1>8. Alike(g.rows, Code(D, W, Version))
  BY <1>6, <1>7, AlikeAppended
<1>9. write'[s].entries = (write[s].entries \ {e}) \cup {g}
  BY <1>2 DEF g
<1>. QED  BY <1>6, <1>7, <1>8, <1>9 DEF ReadInv

\* A flush finds the relfile as long in the row as its own copy.
LEMMA FlushReads ==
  ASSUME InstallationAssumption, SettingsType, NEW W, NEW D, ReadsAs(W, D), ReadInv(W, D),
         NEW s \in Session, NEW e \in Entries, e \in write[s].entries, Flushes(s, e)
  PROVE  IndexReads(file', with, W, D)
<1>. DEFINE r == Reconciled(e)
<1>1. file \in Files /\ file.on /\ file.kind # "bq" /\ file' = r
  BY DEF SettingsType, OpenCopies, Flushes, Files
<1>2. /\ with.given /\ with.width = W /\ file.width = W
      /\ file.rows # <<>> => file.dim = D
      /\ Alike(file.rows, Code(file.dim, file.width, Version))
  BY <1>1 DEF ReadInv, IndexReads
<1>3. /\ e.key.dim = D /\ e.key.width = W /\ e.dim = D /\ e.width = W
      /\ Alike(e.rows, Code(D, W, Version))
  BY DEF ReadInv
<1>4. (file.rows = <<>> \/ Stride(file) = Stride(e.key)) /\ Stride(e) = Stride(e.key)
  BY <1>2, <1>3 DEF Stride
<1>5. /\ r.kind = "single" /\ r.width = e.key.width /\ r.dim = e.key.dim
      /\ \A j \in DOMAIN r.rows : \/ \E i \in DOMAIN file.rows : r.rows[j] = file.rows[i]
                                  \/ \E i \in DOMAIN e.rows : r.rows[j] = e.rows[i]
  BY <1>1, <1>4, ReconciledIs
<1>. HIDE DEF r
<1>6. \A i \in DOMAIN file.rows : file.rows[i].code = Code(D, W, Version)
  <2>1. \A i \in DOMAIN file.rows : file.rows # <<>>
    <3>1. file.rows \in Seq(Coded)
      BY <1>1 DEF Files
    <3>. QED  BY <3>1
  <2>. QED  BY <1>2, <2>1 DEF Alike
<1>7. \A i \in DOMAIN e.rows : e.rows[i].code = Code(D, W, Version)
  BY <1>3 DEF Alike
<1>8. Alike(r.rows, Code(r.dim, r.width, Version))
  BY <1>3, <1>5, <1>6, <1>7 DEF Alike
<1>. QED  BY <1>1, <1>2, <1>3, <1>5, <1>8 DEF IndexReads

LEMMA ReadStep ==
  ASSUME InstallationAssumption, SettingsType, NEW W, NEW D, ReadsAs(W, D), ReadInv(W, D),
         [SettingsNext]_settingsVars
  PROVE  ReadInv(W, D)'
<1>. DEFINE Written(entries) ==
              \A e \in entries : /\ e.key.dim = D /\ e.key.width = W /\ e.dim = D /\ e.width = W
                                 /\ Alike(e.rows, Code(D, W, Version))
            Forked == fork.on => Unlogged /\ fork.rows = <<>> /\ IndexReads(fork, with, W, D)
<1>1. /\ table \in Seq(Rows) /\ write \in [Session -> Writes] /\ OpenCopies /\ Dims \subseteq Nat
      /\ file \in Files \cup {NoFile} /\ with \in Options /\ changes \in Nat
      /\ \A s \in Session : write[s].rows \in Seq(Rows) /\ write[s].entries \subseteq Entries
  BY DEF SettingsType, InstallationAssumption, Writes
<1>2. /\ Fits(table) /\ \A s \in Session : Fits(write[s].rows) /\ Written(write[s].entries)
      /\ Forked /\ (file.on => IndexReads(file, with, W, D)) /\ ReadAsWritten
  BY DEF ReadInv
<1>3. ASSUME Fits(table'), \A s \in Session : Fits(write'[s].rows) /\ Written(write'[s].entries),
             fork'.on => Unlogged /\ fork'.rows = <<>> /\ IndexReads(fork', with', W, D),
             file'.on => IndexReads(file', with', W, D),
             \A c \in answer'.codes : c = answer'.as
      PROVE  ReadInv(W, D)'
  BY <1>3 DEF ReadInv, ReadAsWritten
<1>4. ASSUME UNCHANGED answer
      PROVE  \A c \in answer'.codes : c = answer'.as
  BY <1>2, <1>4 DEF ReadAsWritten
<1>5. ASSUME with' = with, fork' = fork
      PROVE  fork'.on => Unlogged /\ fork'.rows = <<>> /\ IndexReads(fork', with', W, D)
  BY <1>2, <1>5
<1>. HIDE DEF Written, Forked
<1>6. Fits(<<>>) /\ Written({}) /\ NoWrite.rows = <<>> /\ NoWrite.entries = {}
  BY DEF Fits, Written, NoWrite
<1>7. ASSUME NEW s \in Session, NEW w \in Options, Rebuilds(s, w)
      PROVE  ReadInv(W, D)'
  <2>1. with' = w /\ table' = table /\ write' = write /\ UNCHANGED answer
    BY <1>7 DEF Rebuilds
  <2>2. /\ IndexReads(file', w, W, D)
        /\ fork'.on => Unlogged /\ fork'.rows = <<>> /\ IndexReads(fork', w, W, D)
    BY <1>7, RebuildReads
  <2>. QED  BY <1>2, <1>3, <1>4, <2>1, <2>2
<1>8. ASSUME NEW s \in Session, NEW width \in Nat, Alters(s, width)
      PROVE  ReadInv(W, D)'
  <2>1. /\ with' = [with EXCEPT !.given = TRUE, !.width = width] /\ width \in AlterWidths
        /\ table' = table /\ file' = file /\ fork' = fork /\ write' = write /\ UNCHANGED answer
    BY <1>8 DEF Alters
  <2>2. with'.given /\ with'.width = W
    BY <1>1, <2>1 DEF Options, ReadsAs
  <2>3. file'.on => IndexReads(file', with', W, D)
    BY <1>2, <2>1, <2>2 DEF IndexReads
  <2>4. fork'.on => Unlogged /\ fork'.rows = <<>> /\ IndexReads(fork', with', W, D)
    BY <1>2, <2>1, <2>2 DEF IndexReads, Forked
  <2>. QED  BY <1>2, <1>3, <1>4, <2>1, <2>3, <2>4
<1>9. ASSUME Crashes
      PROVE  ReadInv(W, D)'
  <2>1. /\ table' = <<>> /\ file' = fork /\ write' = [s \in Session |-> NoWrite]
        /\ with' = with /\ fork' = fork /\ UNCHANGED answer
    BY <1>9 DEF Crashes
  <2>2. fork'.on => Unlogged /\ fork'.rows = <<>> /\ IndexReads(fork', with', W, D)
    BY <1>5, <2>1
  <2>3. file'.on => IndexReads(file', with', W, D)
    BY <2>1, <2>2
  <2>4. \A s \in Session : Fits(write'[s].rows) /\ Written(write'[s].entries)
    BY <1>6, <2>1
  <2>. QED  BY <1>3, <1>4, <1>6, <2>1, <2>2, <2>3, <2>4
<1>10. ASSUME NEW s \in Session, NEW row \in Rows, row.dim \in Dims,
              write'[s].rows = Append(write[s].rows, row), Written(write'[s].entries),
              \A t \in Session : t # s => write'[t] = write[t],
              with' = with, table' = table, fork' = fork, UNCHANGED answer,
              file'.on => IndexReads(file', with, W, D)
       PROVE  ReadInv(W, D)'
  <2>1. Fits(write'[s].rows)
    BY <1>1, <1>2, <1>10, FitsAppended
  <2>2. \A t \in Session : Fits(write'[t].rows) /\ Written(write'[t].entries)
    BY <1>2, <1>10, <2>1
  <2>3. fork'.on => Unlogged /\ fork'.rows = <<>> /\ IndexReads(fork', with', W, D)
    BY <1>5, <1>10
  <2>4. file'.on => IndexReads(file', with', W, D)
    BY <1>10
  <2>. QED  BY <1>2, <1>3, <1>4, <1>10, <2>2, <2>3, <2>4
<1>11. ASSUME NEW s \in Session, NEW d \in Dims, Inserts(s, d)
       PROVE  ReadInv(W, D)'
  <2>. DEFINE row == [id |-> changes, dim |-> d]
  <2>1. with' = with /\ table' = table /\ fork' = fork /\ UNCHANGED answer
    BY <1>11 DEF Inserts
  <2>2. row \in Rows /\ row.dim \in Dims /\ d \in Nat
    BY <1>1 DEF Rows
  <2>3. CASE Unindexed(s, d)
    <3>1. /\ write'[s].rows = Append(write[s].rows, row) /\ write'[s].entries = write[s].entries
          /\ \A t \in Session : t # s => write'[t] = write[t]
      BY <2>2, <2>3, AddedIs DEF Unindexed
    <3>2. file' = file
      BY <2>3 DEF Unindexed
    <3>. HIDE DEF row
    <3>. QED  BY <1>2, <1>10, <2>1, <2>2, <3>1, <3>2
  <2>4. CASE Immediate(s, d)
    <3>1. /\ write'[s].rows = Append(write[s].rows, row) /\ write'[s].entries = write[s].entries
          /\ \A t \in Session : t # s => write'[t] = write[t]
      BY <2>2, <2>4, AddedIs DEF Immediate
    <3>2. IndexReads(file', with, W, D)
      BY <2>4, ImmediateReads
    <3>. HIDE DEF row
    <3>. QED  BY <1>2, <1>10, <2>1, <2>2, <3>1, <3>2
  <2>5. CASE Deferred(s, d)
    <3>1. /\ write'[s].rows = Append(write[s].rows, row) /\ file' = file
          /\ \A t \in Session : t # s => write'[t] = write[t]
      BY <2>2, <2>5, DeferredIs
    <3>2. Written(write'[s].entries)
      BY <2>5, DeferredReads DEF Written
    <3>. HIDE DEF row
    <3>. QED  BY <1>2, <1>10, <2>1, <2>2, <3>1, <3>2
  <2>. QED  BY <1>11, <2>3, <2>4, <2>5 DEF Inserts
<1>12. ASSUME NEW s \in Session, Abort(s), with' = with, file' = file, fork' = fork, UNCHANGED answer,
              Fits(table')
       PROVE  ReadInv(W, D)'
  <2>1. write'[s] = NoWrite /\ \A t \in Session : t # s => write'[t] = write[t]
    BY <1>1, <1>12, AbortIs
  <2>2. \A t \in Session : Fits(write'[t].rows) /\ Written(write'[t].entries)
    BY <1>2, <1>6, <2>1
  <2>3. fork'.on => Unlogged /\ fork'.rows = <<>> /\ IndexReads(fork', with', W, D)
    BY <1>5, <1>12
  <2>4. file'.on => IndexReads(file', with', W, D)
    BY <1>2, <1>12
  <2>. QED  BY <1>3, <1>4, <1>12, <2>2, <2>3, <2>4
<1>13. ASSUME NEW s \in Session, Undoes(s)
       PROVE  ReadInv(W, D)'
  BY <1>2, <1>12, <1>13 DEF Undoes, Fails
<1>14. ASSUME NEW s \in Session, Commits(s)
       PROVE  ReadInv(W, D)'
  <2>1. /\ table' = table \o write[s].rows /\ Abort(s) /\ with' = with /\ file' = file
        /\ fork' = fork /\ UNCHANGED answer
    BY <1>14 DEF Commits
  <2>2. Fits(table \o write[s].rows)
    <3>. DEFINE r == write[s].rows
    <3>1. r \in Seq(Rows) /\ Fits(r)
      BY <1>1, <1>2
    <3>. HIDE DEF r
    <3>2. /\ DOMAIN r = 1 .. Len(r) /\ DOMAIN table = 1 .. Len(table)
          /\ \A j \in DOMAIN (table \o r) :
               \/ j \in 1 .. Len(table) /\ (table \o r)[j] = table[j]
               \/ j - Len(table) \in 1 .. Len(r) /\ (table \o r)[j] = r[j - Len(table)]
      BY <1>1, <3>1, Concatenated
    <3>3. Fits(table \o r)
      BY <1>2, <3>1, <3>2 DEF Fits
    <3>. QED  BY <3>3 DEF r
  <2>. QED  BY <1>12, <2>1, <2>2
<1>15. ASSUME NEW s \in Session, NEW e \in Entries, e \in write[s].entries, Flushes(s, e)
       PROVE  ReadInv(W, D)'
  <2>1. with' = with /\ table' = table /\ fork' = fork /\ UNCHANGED answer
    BY <1>15 DEF Flushes
  <2>2. /\ write'[s].rows = write[s].rows /\ write'[s].entries = write[s].entries \ {e}
        /\ \A t \in Session : t # s => write'[t] = write[t]
    BY <1>1, <1>15, FlushesIs
  <2>3. \A t \in Session : Fits(write'[t].rows) /\ Written(write'[t].entries)
    BY <1>2, <2>2 DEF Written
  <2>4. IndexReads(file', with', W, D)
    BY <1>15, <2>1, FlushReads
  <2>5. fork'.on => Unlogged /\ fork'.rows = <<>> /\ IndexReads(fork', with', W, D)
    BY <1>5, <2>1
  <2>. QED  BY <1>2, <1>3, <1>4, <2>1, <2>3, <2>4, <2>5
<1>16. ASSUME Looks
       PROVE  ReadInv(W, D)'
  <2>1. with' = with /\ table' = table /\ file' = file /\ fork' = fork /\ write' = write
    BY <1>16 DEF Looks
  <2>2. fork'.on => Unlogged /\ fork'.rows = <<>> /\ IndexReads(fork', with', W, D)
    BY <1>5, <2>1
  <2>3. \A c \in answer'.codes : c = answer'.as
    <3>1. ASSUME NEW s \in Session, Outcome(s, answer'), file \in Files
          PROVE  \A c \in answer'.codes : c = answer'.as
      <4>1. CASE answer'.codes = {}
        BY <4>1
      <4>2. ASSUME NEW e \in write[s].entries,
                   \A c \in answer'.codes : \E i \in DOMAIN e.rows : c = e.rows[i].code,
                   answer'.as = Code(e.dim, e.width, Version)
            PROVE  \A c \in answer'.codes : c = answer'.as
        <5>1. e.dim = D /\ e.width = W /\ Alike(e.rows, Code(D, W, Version))
          BY <1>2, <4>2 DEF Written
        <5>. QED  BY <4>2, <5>1 DEF Alike
      <4>3. CASE /\ \A c \in answer'.codes : \E i \in DOMAIN file.rows : c = file.rows[i].code
                 /\ answer'.as = Code(file.dim, file.width, Version)
        <5>1. Alike(file.rows, Code(file.dim, file.width, Version))
          BY <1>2, <3>1 DEF IndexReads, Files
        <5>. QED  BY <4>3, <5>1 DEF Alike
      <4>. QED  BY <3>1, <4>1, <4>2, <4>3 DEF Outcome
    <3>2. CASE answer'.codes = {}
      BY <3>2
    <3>. QED  BY <1>16, <3>1, <3>2, LookIs
  <2>. QED  BY <1>2, <1>3, <2>1, <2>2, <2>3
<1>17. ASSUME Idles
       PROVE  ReadInv(W, D)'
  <2>1. /\ with' = with /\ table' = table /\ file' = file /\ fork' = fork /\ write' = write
        /\ UNCHANGED answer
    BY <1>17 DEF Idles
  <2>2. fork'.on => Unlogged /\ fork'.rows = <<>> /\ IndexReads(fork', with', W, D)
    BY <1>5, <2>1
  <2>. QED  BY <1>2, <1>3, <1>4, <2>1, <2>2
<1>18. \/ \E s \in Session, w \in Options : Rebuilds(s, w)
       \/ \E s \in Session, width \in Nat : Alters(s, width)
       \/ Crashes
       \/ \E s \in Session, d \in Dims : Inserts(s, d)
       \/ \E s \in Session : Undoes(s)
       \/ \E s \in Session, e \in Entries : e \in write[s].entries /\ Flushes(s, e)
       \/ \E s \in Session : Commits(s)
       \/ Looks
       \/ Idles
  BY StepIs
<1>. QED  BY <1>7, <1>8, <1>9, <1>11, <1>13, <1>14, <1>15, <1>16, <1>17, <1>18

-----------------------------------------------------------------------------
(* The theorems.                                                           *)

LEMMA TypeAlways ==
  ASSUME InstallationAssumption
  PROVE  SettingsSpec => []SettingsType
<1>1. SettingsInit => SettingsType
  BY TypeInit
<1>2. SettingsType /\ [SettingsNext]_settingsVars => SettingsType'
  BY TypeStep
<1>. QED  BY <1>1, <1>2, PTL DEF SettingsSpec

\* Whatever the options make of an index and whoever writes it and when, every
\* committed row that has a vector is in it: a build takes them all, an insert
\* writes the index or keeps a copy that its commit cannot be without, and a
\* crash takes the rows of an UNLOGGED table with the index.  (ambuild,
\* aminsert_impl, reconcile_and_write_flush, ambuildempty.)
THEOREM RowsIndexed ==
  ASSUME InstallationAssumption
  PROVE  SettingsSpec => []CommittedRowsIndexed
<1>1. SettingsType /\ RowsInv => CommittedRowsIndexed
  <2>1. ASSUME SettingsType, RowsInv, file.on, NEW x \in Ids(Indexed(table))
        PROVE  x \in Ids(file.rows)
    <3>1. table \in Seq(Rows)
      BY <2>1 DEF SettingsType
    <3>2. PICK j \in DOMAIN Indexed(table) : x = Indexed(table)[j].id
      BY <2>1 DEF Ids, Range
    <3>3. PICK i \in DOMAIN table : table[i].dim # 0 /\ x = table[i].id
      BY <3>1, <3>2, IndexedIs
    <3>4. Has(file.rows, x)
      BY <2>1, <3>3 DEF RowsInv
    <3>. QED  BY <3>4 DEF Has, Ids, Range
  <2>. QED  BY <2>1 DEF CommittedRowsIndexed
<1>2. SettingsInit => RowsInv
  BY RowsInit
<1>3. SettingsType /\ SettingsType' /\ RowsInv /\ [SettingsNext]_settingsVars => RowsInv'
  BY RowsStep
<1>. QED  BY <1>1, <1>2, <1>3, TypeAlways, PTL DEF SettingsSpec

\* The planner is told of cells exactly where the scan has some to look at, and
\* of no more rows than there are and no fewer than one cell's share; a scan
\* that returns nothing is priced out.  The graph is why it takes an invariant:
\* its scan has no cells, and no build gives a graph any that are not degraded.
\* (amcostestimate, ivf_setup_and_search, build_relfile.)
THEOREM CostAlwaysOfTheScan ==
  ASSUME InstallationAssumption
  PROVE  SettingsSpec => []CostIsOfTheScan
<1>1. CostInv => CostIsOfTheScan
  BY DEF CostInv
<1>2. SettingsInit => CostInv
  BY CostInit
<1>3. SettingsType /\ CostInv /\ [SettingsNext]_settingsVars => CostInv'
  BY CostStep
<1>. QED  BY <1>1, <1>2, <1>3, TypeAlways, PTL DEF SettingsSpec

LEMMA ReadsAlways ==
  ASSUME InstallationAssumption, NEW W, NEW D, ReadsAs(W, D)
  PROVE  SettingsSpec => []ReadAsWritten
<1>1. ReadInv(W, D) => ReadAsWritten
  BY DEF ReadInv
<1>2. SettingsInit => ReadInv(W, D)
  BY ReadInit
<1>3. SettingsType /\ ReadInv(W, D) /\ [SettingsNext]_settingsVars => ReadInv(W, D)'
  BY ReadStep
<1>. QED  BY <1>1, <1>2, <1>3, TypeAlways, PTL DEF SettingsSpec

\* Where every index names its width, 1 or one other, and takes rows of one
\* dimension, no scan takes a code for another: not in an index altered from
\* one bit and not yet rebuilt, in the copy of a transaction, or behind a crash.
\* With two widths or two dimensions it does, which the runs about the settings
\* and the releases show.  (options.rs read, aminsert_relfile,
\* reconcile_and_write_flush, ambeginscan.)
THEOREM OneReadingSuffices ==
  ASSUME InstallationAssumption, OneReading
  PROVE  SettingsSpec => []ReadAsWritten
<1>1. PICK W \in 2 .. 4 : AlterWidths \subseteq {W} /\ \A w \in Withs : w.given /\ w.width \in {1, W}
  BY DEF OneReading
<1>2. \E D \in Nat : \A d \in Dims : d = 0 \/ d % 8 # 0 \/ d = D
  <2>1. Dims \subseteq Nat /\ \A d, e \in Dims \ {0} : d % 8 = 0 /\ e % 8 = 0 => d = e
    BY DEF InstallationAssumption, OneReading
  <2>2. CASE \E e \in Dims \ {0} : e % 8 = 0
    BY <2>1, <2>2
  <2>3. CASE ~ \E e \in Dims \ {0} : e % 8 = 0
    <3>1. \A d \in Dims : d = 0 \/ d % 8 # 0 \/ d = 0
      BY <2>3
    <3>2. 0 \in Nat
      OBVIOUS
    <3>. QED  BY <3>1, <3>2
  <2>. QED  BY <2>2, <2>3
<1>3. PICK D \in Nat : \A d \in Dims : d = 0 \/ d % 8 # 0 \/ d = D
  BY <1>2
<1>4. ReadsAs(W, D)
  BY <1>1, <1>3 DEF ReadsAs, OneReading
<1>. QED  BY <1>4, ReadsAlways

=============================================================================
