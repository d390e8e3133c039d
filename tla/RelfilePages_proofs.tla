------------------------ MODULE RelfilePages_proofs ------------------------
(***************************************************************************)
(* For every kind of index, any rows and any page capacities: the chains   *)
(* planned for a relfile never share a block, lie within the blocks it is  *)
(* extended to and hold the rows they are planned for; and what the meta   *)
(* page names can be read back, whatever rewrite was stopped where.        *)
(***************************************************************************)
EXTENDS RelfilePages, DataInduction_proofs, SequenceTheorems

-----------------------------------------------------------------------------
(* Pages.                                                                  *)

\* Division by a positive number rounds down.
LEMMA DivBounds ==
  ASSUME NEW a \in Nat, NEW b \in Nat \ {0}
  PROVE  /\ a \div b \in Nat
         /\ b * (a \div b) <= a
         /\ a < b * (a \div b) + b
  BY SMT

\* As many pages as the rows need, and less than one too many.
LEMMA PagesNeededBounds ==
  ASSUME NEW n \in Nat, NEW p \in Nat
  PROVE  /\ PagesNeeded(n, p) \in Nat
         /\ p > 0 => n <= p * PagesNeeded(n, p)
         /\ p > 0 => p * PagesNeeded(n, p) < n + p
<1>1. CASE n = 0 \/ p = 0
  BY <1>1 DEF PagesNeeded
<1>2. CASE n # 0 /\ p # 0
  <2>1. n + p - 1 \in Nat /\ p \in Nat \ {0}
    BY <1>2
  <2>2. PagesNeeded(n, p) = (n + p - 1) \div p
    BY <1>2 DEF PagesNeeded
  <2>. QED  BY <2>1, <2>2, DivBounds
<1>. QED  BY <1>1, <1>2

\* A longer chain needs no fewer pages.
LEMMA PagesNeededMonotone ==
  ASSUME NEW m \in Nat, NEW n \in Nat, m <= n, NEW p \in Nat
  PROVE  PagesNeeded(m, p) <= PagesNeeded(n, p)
<1>1. CASE p = 0
  BY <1>1 DEF PagesNeeded
<1>2. CASE p > 0
  <2>. DEFINE a == PagesNeeded(m, p)
              b == PagesNeeded(n, p)
  <2>1. a \in Nat /\ b \in Nat /\ n <= p * b /\ p * a < m + p
    BY <1>2, PagesNeededBounds
  <2>. HIDE DEF a, b
  <2>2. p * a < p * b + p
    BY <2>1
  <2>3. p * a < p * (b + 1)
    BY <2>1, <2>2
  <2>4. a < b + 1
    BY <1>2, <2>1, <2>3, SMT
  <2>. QED  BY <2>1, <2>4 DEF a, b
<1>. QED  BY <1>1, <1>2

\* Padding to a multiple of q adds less than q.
LEMMA PaddingBounds ==
  ASSUME NEW k \in Nat, NEW q \in Nat \ {0}
  PROVE  /\ ((k + q - 1) \div q) * q \in Nat
         /\ k <= ((k + q - 1) \div q) * q
         /\ ((k + q - 1) \div q) * q < k + q
<1>1. k + q - 1 \in Nat
  OBVIOUS
<1>. DEFINE d == (k + q - 1) \div q
<1>2. d \in Nat /\ q * d <= k + q - 1 /\ k + q - 1 < q * d + q
  BY <1>1, DivBounds
<1>. HIDE DEF d
<1>3. d * q \in Nat /\ k <= d * q /\ d * q < k + q
  BY <1>2, SMT
<1>. QED  BY <1>3 DEF d

\* pad_chain_pages: no page is lost, and less than PAD_PAGES are spent.
THEOREM PaddedPagesBounds ==
  ASSUME NEW n \in Nat, NEW p \in Nat
  PROVE  /\ PaddedPages(n, p) \in Nat
         /\ PagesNeeded(n, p) <= PaddedPages(n, p)
         /\ PaddedPages(n, p) < PagesNeeded(n, p) + PadPages
         /\ n = 0 => PaddedPages(n, p) = 0
<1>. DEFINE k == PagesNeeded(n, p)
<1>1. k \in Nat /\ PadPages \in Nat \ {0}
  BY PagesNeededBounds, PadAssumption
<1>2. n = 0 => k = 0
  BY DEF PagesNeeded
<1>3. CASE k < PadPages
  BY <1>1, <1>2, <1>3 DEF PaddedPages
<1>4. CASE ~ (k < PadPages)
  <2>1. PaddedPages(n, p) = ((k + PadPages - 1) \div PadPages) * PadPages
    BY <1>4 DEF PaddedPages
  <2>2. n # 0
    BY <1>1, <1>2, <1>4
  <2>. HIDE DEF k
  <2>3. /\ PaddedPages(n, p) \in Nat
        /\ k <= PaddedPages(n, p)
        /\ PaddedPages(n, p) < k + PadPages
    BY <1>1, <2>1, PaddingBounds
  <2>. QED  BY <2>2, <2>3 DEF k
<1>. QED  BY <1>3, <1>4

\* A chain that shrinks is not padded beyond what it had.
LEMMA PaddedPagesMonotone ==
  ASSUME NEW m \in Nat, NEW n \in Nat, m <= n, NEW p \in Nat
  PROVE  PaddedPages(m, p) <= PaddedPages(n, p)
<1>. DEFINE j == PagesNeeded(m, p)
            k == PagesNeeded(n, p)
            q == PadPages
<1>1. j \in Nat /\ k \in Nat /\ j <= k /\ q \in Nat \ {0}
  BY PagesNeededBounds, PagesNeededMonotone, PadAssumption
<1>2. CASE j < q
  <2>1. PaddedPages(m, p) = j
    BY <1>2 DEF PaddedPages
  <2>. QED  BY <1>1, <2>1, PaddedPagesBounds
<1>3. CASE ~ (j < q)
  <2>. DEFINE a == (j + q - 1) \div q
              b == (k + q - 1) \div q
  <2>1. PaddedPages(m, p) = a * q /\ PaddedPages(n, p) = b * q
    BY <1>1, <1>3 DEF PaddedPages
  <2>2. j + q - 1 \in Nat /\ k + q - 1 \in Nat
    BY <1>1
  <2>3. /\ a \in Nat /\ q * a <= j + q - 1
        /\ b \in Nat /\ k + q - 1 < q * b + q
    BY <1>1, <2>2, DivBounds
  <2>. HIDE DEF a, b, j, k, q
  <2>4. q * a < q * (b + 1)
    BY <1>1, <2>3, SMT
  <2>5. a <= b
    BY <1>1, <2>3, <2>4, SMT
  <2>6. a * q <= b * q
    BY <1>1, <2>3, <2>5, SMT
  <2>. QED  BY <2>1, <2>6
<1>. QED  BY <1>2, <1>3

-----------------------------------------------------------------------------
(* Chains in order.                                                        *)

\* The order of the chains in the file.
Rank == [codes |-> 1, scales |-> 2, ids |-> 3, rotation |-> 4, mean |-> 5,
         coarse |-> 6, dir |-> 7, graph |-> 8, tomb |-> 9]

\* The chains that are there lie in this order, possibly with gaps.
Sorted(l) ==
  \A c, d \in Chain :
    Rank[c] < Rank[d] /\ l[c].count > 0 /\ l[d].count > 0 =>
      l[c].first + l[c].count <= l[d].first

\* The block at which each chain starts if there are no gaps.
Starts(l) ==
  LET scales   == 1 + l["codes"].count
      ids      == scales + l["scales"].count
      rotation == ids + l["ids"].count
      mean     == rotation + l["rotation"].count
      coarse   == mean + l["mean"].count
      dir      == coarse + l["coarse"].count
      graph    == dir + l["dir"].count
      tomb     == graph + l["graph"].count
  IN  [codes |-> 1, scales |-> scales, ids |-> ids, rotation |-> rotation,
       mean |-> mean, coarse |-> coarse, dir |-> dir, graph |-> graph,
       tomb |-> tomb]

\* There are no gaps, and absent tombstones have no first block.
Packed(l) ==
  /\ l \in Layout
  /\ \A c \in Chain : l[c].count > 0 => l[c].first = Starts(l)[c]
  /\ l["tomb"].first # 0 => l["tomb"].count > 0

\* Chains in order share no block.
LEMMA SortedDisjoint ==
  ASSUME NEW l \in Layout, Sorted(l)
  PROVE  ChainsDisjoint(l)
<1>1. \A c, d \in Chain : c # d => Rank[c] < Rank[d] \/ Rank[d] < Rank[c]
  BY DEF Chain, Rank
<1>. QED  BY <1>1 DEF Sorted, ChainsDisjoint

\* Each start is the end of what lies before it.
LEMMA PackedSorted ==
  ASSUME NEW l, Packed(l)
  PROVE  Sorted(l)
<1>. DEFINE s == Starts(l)
<1>1. l \in Layout
  BY DEF Packed
<1>2. \A c \in Chain : l[c].count \in Nat /\ l[c].first \in Nat
  BY <1>1 DEF Layout
<1>3. \A c, d \in Chain : Rank[c] < Rank[d] => s[c] + l[c].count <= s[d]
  <2>1. SUFFICES ASSUME NEW c \in Chain
                 PROVE  \A d \in Chain : Rank[c] < Rank[d] => s[c] + l[c].count <= s[d]
    OBVIOUS
  <2>2. /\ s["codes"] = 1
        /\ s["scales"] = s["codes"] + l["codes"].count
        /\ s["ids"] = s["scales"] + l["scales"].count
        /\ s["rotation"] = s["ids"] + l["ids"].count
        /\ s["mean"] = s["rotation"] + l["rotation"].count
        /\ s["coarse"] = s["mean"] + l["mean"].count
        /\ s["dir"] = s["coarse"] + l["coarse"].count
        /\ s["graph"] = s["dir"] + l["dir"].count
        /\ s["tomb"] = s["graph"] + l["graph"].count
    BY DEF Starts
  <2>3. \A d \in Chain : l[d].count \in Nat
    BY <1>2
  <2>. HIDE DEF s
  <2>4. CASE c = "codes"
    BY <2>2, <2>3, <2>4 DEF Rank, Chain
  <2>5. CASE c = "scales"
    BY <2>2, <2>3, <2>5 DEF Rank, Chain
  <2>6. CASE c = "ids"
    BY <2>2, <2>3, <2>6 DEF Rank, Chain
  <2>7. CASE c = "rotation"
    BY <2>2, <2>3, <2>7 DEF Rank, Chain
  <2>8. CASE c = "mean"
    BY <2>2, <2>3, <2>8 DEF Rank, Chain
  <2>9. CASE c = "coarse"
    BY <2>2, <2>3, <2>9 DEF Rank, Chain
  <2>10. CASE c = "dir"
    BY <2>2, <2>3, <2>10 DEF Rank, Chain
  <2>11. CASE c = "graph"
    BY <2>2, <2>3, <2>11 DEF Rank, Chain
  <2>12. CASE c = "tomb"
    BY <2>2, <2>3, <2>12 DEF Rank, Chain
  <2>. QED  BY <2>4, <2>5, <2>6, <2>7, <2>8, <2>9, <2>10, <2>11, <2>12, Zenon DEF Chain
<1>. QED  BY <1>2, <1>3 DEF Packed, Sorted

\* The last start and its chain are the whole file.
LEMMA PackedInside ==
  ASSUME NEW l, Packed(l)
  PROVE  ChainsInside(l)
<1>1. \A c \in Chain : l[c].count \in Nat /\ l[c].first \in Nat
  BY DEF Packed, Layout
<1>2. \A c \in Chain : Starts(l)[c] >= 1 /\ Starts(l)[c] + l[c].count <= TotalBlocks(l)
  BY <1>1 DEF Starts, TotalBlocks, Chain
<1>. QED  BY <1>2 DEF Packed, ChainsInside

-----------------------------------------------------------------------------
(* The plans.                                                              *)

\* A layout in which the chains of D are absent.
Without(l, D) == \A c \in D : l[c] = Absent

\* What Placed gives: n pages from block f on, or an absent chain.
PlacedAt(p, f, n) ==
  /\ p \in [first : Nat, count : Nat]
  /\ p.count = n
  /\ p.first = IF n > 0 THEN f ELSE 0

\* A chain of a plan, absent or not.
LEMMA PlacedType ==
  ASSUME NEW f \in Nat, NEW n \in Nat
  PROVE  PlacedAt(Placed(f, n), f, n)
  BY DEF Placed, PlacedAt

\* plan_with_blocked leaves no gap.
LEMMA PlanWithBlockedPacked ==
  ASSUME NEW n \in Nat, NEW rotation \in Nat, NEW perPage,
         perPage.codes \in Nat, perPage.scales \in Nat, perPage.ids \in Nat
  PROVE  LET l == PlanWithBlocked(n, perPage, rotation)
         IN  Packed(l) /\ Without(l, {"mean", "coarse", "dir", "graph", "tomb"})
<1>. DEFINE l == PlanWithBlocked(n, perPage, rotation)
            codes  == PaddedPages(n, perPage.codes)
            scales == PaddedPages(n, perPage.scales)
            ids    == PaddedPages(n, perPage.ids)
            after  == 1 + codes + scales + ids
            placed == Placed(after, rotation)
<1>1. codes \in Nat /\ scales \in Nat /\ ids \in Nat
  BY PaddedPagesBounds
<1>2. l = [NoChains EXCEPT
             !["codes"]    = [first |-> 1, count |-> codes],
             !["scales"]   = [first |-> 1 + codes, count |-> scales],
             !["ids"]      = [first |-> 1 + codes + scales, count |-> ids],
             !["rotation"] = placed]
  BY DEF PlanWithBlocked
<1>. HIDE DEF codes, scales, ids, l
<1>3. after \in Nat
  BY <1>1
<1>4. PlacedAt(placed, after, rotation)
  BY <1>3, PlacedType
<1>. HIDE DEF placed
<1>5. /\ l["codes"] = [first |-> 1, count |-> codes]
      /\ l["scales"] = [first |-> 1 + codes, count |-> scales]
      /\ l["ids"] = [first |-> 1 + codes + scales, count |-> ids]
      /\ l["rotation"] = placed
      /\ \A c \in {"mean", "coarse", "dir", "graph", "tomb"} : l[c] = Absent
  BY <1>2 DEF NoChains, Chain
<1>6. l \in Layout
  BY <1>1, <1>2, <1>4 DEF PlacedAt, Layout, NoChains, Absent, Chain
<1>7. \A c \in Chain : l[c].count > 0 => l[c].first = Starts(l)[c]
  BY <1>1, <1>4, <1>5 DEF PlacedAt, Starts, Chain, Absent
<1>. QED  BY <1>5, <1>6, <1>7 DEF Packed, Without, Absent, l

\* plan_bq leaves no gap.
LEMMA PlanBqPacked ==
  ASSUME NEW n \in Nat, NEW mean \in Nat, NEW perPage,
         perPage.codes \in Nat, perPage.ids \in Nat
  PROVE  LET l == PlanBq(n, perPage, mean)
         IN  Packed(l) /\ Without(l, {"scales", "rotation", "coarse", "dir", "graph", "tomb"})
<1>. DEFINE l == PlanBq(n, perPage, mean)
            codes  == PaddedPages(n, perPage.codes)
            ids    == PaddedPages(n, perPage.ids)
            after  == 1 + codes + ids
            placed == Placed(after, mean)
<1>1. codes \in Nat /\ ids \in Nat
  BY PaddedPagesBounds
<1>2. l = [NoChains EXCEPT
             !["codes"] = [first |-> 1, count |-> codes],
             !["ids"]   = [first |-> 1 + codes, count |-> ids],
             !["mean"]  = placed]
  BY DEF PlanBq
<1>. HIDE DEF codes, ids, l
<1>3. after \in Nat
  BY <1>1
<1>4. PlacedAt(placed, after, mean)
  BY <1>3, PlacedType
<1>. HIDE DEF placed
<1>5. /\ l["codes"] = [first |-> 1, count |-> codes]
      /\ l["ids"] = [first |-> 1 + codes, count |-> ids]
      /\ l["mean"] = placed
      /\ \A c \in {"scales", "rotation", "coarse", "dir", "graph", "tomb"} : l[c] = Absent
  BY <1>2 DEF NoChains, Chain
<1>6. l \in Layout
  BY <1>1, <1>2, <1>4 DEF PlacedAt, Layout, NoChains, Absent, Chain
<1>7. \A c \in Chain : l[c].count > 0 => l[c].first = Starts(l)[c]
  BY <1>1, <1>4, <1>5 DEF PlacedAt, Starts, Chain, Absent
<1>. QED  BY <1>5, <1>6, <1>7 DEF Packed, Without, Absent, l

\* set_ivf_chains: the centroids and the directory follow what is there.
LEMMA SetIvfPacked ==
  ASSUME NEW l, Packed(l), Without(l, {"coarse", "dir", "graph", "tomb"}),
         NEW coarse \in Nat, NEW dir \in Nat
  PROVE  LET k == SetIvfChains(l, coarse, dir)
         IN  Packed(k) /\ Without(k, {"graph", "tomb"})
<1>. DEFINE k == SetIvfChains(l, coarse, dir)
            after == AfterRotation(l)
            placed == Placed(after, coarse)
            behind == Placed(after + coarse, dir)
<1>1. l \in Layout /\ \A c \in Chain : l[c].count \in Nat /\ l[c].first \in Nat
  BY DEF Packed, Layout
<1>2. after \in Nat /\ after = Starts(l)["coarse"]
  BY <1>1 DEF AfterRotation, Starts, Chain
<1>3. k = [l EXCEPT !["coarse"] = placed, !["dir"] = behind]
  BY DEF SetIvfChains
<1>. HIDE DEF k, after
<1>4. PlacedAt(placed, after, coarse) /\ PlacedAt(behind, after + coarse, dir)
  BY <1>2, PlacedType
<1>. HIDE DEF placed, behind
<1>5. /\ k["coarse"] = placed
      /\ k["dir"] = behind
      /\ \A c \in Chain \ {"coarse", "dir"} : k[c] = l[c]
  BY <1>1, <1>3 DEF Layout, Chain
<1>6. k \in Layout
  BY <1>1, <1>3, <1>4 DEF PlacedAt, Layout, Chain
<1>7. k["graph"] = Absent /\ k["tomb"] = Absent
  BY <1>5 DEF Without, Chain
<1>8. Starts(k)["coarse"] = after /\ Starts(k)["dir"] = after + coarse
  BY <1>1, <1>2, <1>4, <1>5 DEF PlacedAt, Starts, Chain
<1>9. \A c \in {"codes", "scales", "ids", "rotation", "mean"} : Starts(k)[c] = Starts(l)[c]
  BY <1>5 DEF Starts, Chain
<1>10. \A c \in Chain : k[c].count > 0 => k[c].first = Starts(k)[c]
  BY <1>4, <1>5, <1>7, <1>8, <1>9 DEF PlacedAt, Packed, Chain, Absent
<1>. QED  BY <1>6, <1>7, <1>10 DEF Packed, Without, Absent, k

\* set_graph_chain: the adjacency follows what is there.
LEMMA SetGraphPacked ==
  ASSUME NEW l, Packed(l), Without(l, {"graph", "tomb"}), NEW graph \in Nat
  PROVE  LET k == SetGraphChain(l, graph)
         IN  Packed(k) /\ Without(k, {"tomb"})
<1>. DEFINE k == SetGraphChain(l, graph)
            after == 1 + l["codes"].count + l["scales"].count + l["ids"].count
                       + l["rotation"].count + l["coarse"].count + l["dir"].count
                       + l["tomb"].count + l["mean"].count
            placed == Placed(after, graph)
<1>1. l \in Layout /\ \A c \in Chain : l[c].count \in Nat /\ l[c].first \in Nat
  BY DEF Packed, Layout
<1>2. l["tomb"].count = 0
  BY DEF Without, Absent
<1>3. after \in Nat /\ after = Starts(l)["graph"]
  BY <1>1, <1>2 DEF Starts, Chain
<1>4. k = [l EXCEPT !["graph"] = placed]
  BY DEF SetGraphChain
<1>. HIDE DEF k, after
<1>5. PlacedAt(placed, after, graph)
  BY <1>3, PlacedType
<1>. HIDE DEF placed
<1>6. k["graph"] = placed /\ \A c \in Chain \ {"graph"} : k[c] = l[c]
  BY <1>1, <1>4 DEF Layout, Chain
<1>7. k \in Layout
  BY <1>1, <1>4, <1>5 DEF PlacedAt, Layout, Chain
<1>8. k["tomb"] = Absent
  BY <1>6 DEF Without, Chain
<1>9. \A c \in Chain \ {"tomb"} : Starts(k)[c] = Starts(l)[c]
  BY <1>6 DEF Starts, Chain
<1>10. \A c \in Chain : k[c].count > 0 => k[c].first = Starts(k)[c]
  BY <1>3, <1>5, <1>6, <1>8, <1>9 DEF PlacedAt, Packed, Chain, Absent
<1>. QED  BY <1>7, <1>8, <1>10 DEF Packed, Without, Absent, k

\* The tombstones follow everything else.
LEMMA SetTombstonesPacked ==
  ASSUME NEW l, Packed(l), NEW tomb \in Nat
  PROVE  Packed(SetTombstones(l, tomb))
<1>. DEFINE k == SetTombstones(l, tomb)
            after == AfterAll(l)
            placed == Placed(after, tomb)
<1>1. l \in Layout /\ \A c \in Chain : l[c].count \in Nat /\ l[c].first \in Nat
  BY DEF Packed, Layout
<1>2. after \in Nat /\ after = Starts(l)["tomb"]
  BY <1>1 DEF AfterAll, Starts, Chain
<1>3. k = [l EXCEPT !["tomb"] = placed]
  BY DEF SetTombstones
<1>. HIDE DEF k, after
<1>4. PlacedAt(placed, after, tomb)
  BY <1>2, PlacedType
<1>. HIDE DEF placed
<1>5. k["tomb"] = placed /\ \A c \in Chain \ {"tomb"} : k[c] = l[c]
  BY <1>1, <1>3 DEF Layout, Chain
<1>6. k \in Layout
  BY <1>1, <1>3, <1>4 DEF PlacedAt, Layout, Chain
<1>7. \A c \in Chain : Starts(k)[c] = Starts(l)[c]
  BY <1>5 DEF Starts, Chain
<1>8. \A c \in Chain : k[c].count > 0 => k[c].first = Starts(k)[c]
  BY <1>2, <1>4, <1>5, <1>7 DEF PlacedAt, Packed, Chain
<1>9. k["tomb"].first # 0 => k["tomb"].count > 0
  BY <1>4, <1>5 DEF PlacedAt
<1>. QED  BY <1>6, <1>8, <1>9 DEF Packed, k

\* write_tombstones_and_meta: the tombstones stay behind everything else.
LEMMA ResetTombstonesPacked ==
  ASSUME NEW l, Packed(l), NEW tomb \in Nat \ {0}
  PROVE  Packed(ResetTombstones(l, tomb))
<1>. DEFINE k == ResetTombstones(l, tomb)
            first == IF l["tomb"].first # 0 THEN l["tomb"].first ELSE AfterAll(l)
<1>1. l \in Layout /\ \A c \in Chain : l[c].count \in Nat /\ l[c].first \in Nat
  BY DEF Packed, Layout
<1>2. AfterAll(l) \in Nat /\ AfterAll(l) = Starts(l)["tomb"]
  BY <1>1 DEF AfterAll, Starts, Chain
<1>3. first \in Nat /\ first = Starts(l)["tomb"]
  BY <1>1, <1>2 DEF Packed, Chain
<1>4. k = [l EXCEPT !["tomb"] = [first |-> first, count |-> tomb]]
  BY DEF ResetTombstones
<1>. HIDE DEF k, first
<1>5. /\ k["tomb"] = [first |-> first, count |-> tomb]
      /\ \A c \in Chain \ {"tomb"} : k[c] = l[c]
  BY <1>1, <1>4 DEF Layout, Chain
<1>6. k \in Layout
  BY <1>1, <1>3, <1>4 DEF Layout, Chain
<1>7. \A c \in Chain : Starts(k)[c] = Starts(l)[c]
  BY <1>5 DEF Starts, Chain
<1>8. \A c \in Chain : k[c].count > 0 => k[c].first = Starts(k)[c]
  BY <1>3, <1>5, <1>7 DEF Packed, Chain
<1>9. k["tomb"].count > 0
  BY <1>5
<1>. QED  BY <1>6, <1>8, <1>9 DEF Packed, k

-----------------------------------------------------------------------------
(* Whole relfiles.                                                         *)

\* However many rows, whatever the page size and whichever optional chains:
\* the plan of a TurboQuant relfile (write_full_inner) gives no block to two
\* chains and none outside the blocks it extends the file to; nor does the
\* first or a later bitmap that VACUUM adds to it.
THEOREM FullLayoutSound ==
  ASSUME NEW n \in Nat, NEW perPage,
         perPage.codes \in Nat, perPage.scales \in Nat, perPage.ids \in Nat,
         NEW rotation \in Nat, NEW coarse \in Nat, NEW dir \in Nat,
         NEW graph \in Nat, NEW tomb \in Nat, NEW bits \in Nat \ {0}
  PROVE  LET l == FullLayout(n, perPage, rotation, coarse, dir, graph, tomb)
         IN  /\ ChainsDisjoint(l) /\ ChainsInside(l)
             /\ ChainsDisjoint(ResetTombstones(l, bits))
             /\ ChainsInside(ResetTombstones(l, bits))
<1>. DEFINE p == PlanWithBlocked(n, perPage, rotation)
            i == SetIvfChains(p, coarse, dir)
            g == SetGraphChain(i, graph)
            l == SetTombstones(g, tomb)
<1>1. Packed(p) /\ Without(p, {"coarse", "dir", "graph", "tomb"})
  BY PlanWithBlockedPacked DEF Without
<1>. HIDE DEF p
<1>2. Packed(i) /\ Without(i, {"graph", "tomb"})
  BY <1>1, SetIvfPacked
<1>. HIDE DEF i
<1>3. Packed(g)
  BY <1>2, SetGraphPacked
<1>. HIDE DEF g
<1>4. Packed(l)
  BY <1>3, SetTombstonesPacked
<1>5. l = FullLayout(n, perPage, rotation, coarse, dir, graph, tomb)
  BY DEF FullLayout, p, i, g
<1>. HIDE DEF l
<1>6. Packed(ResetTombstones(l, bits))
  BY <1>4, ResetTombstonesPacked
<1>7. \A k : Packed(k) => ChainsDisjoint(k) /\ ChainsInside(k)
  BY PackedSorted, PackedInside, SortedDisjoint DEF Packed
<1>. QED  BY <1>4, <1>5, <1>6, <1>7

\* Likewise for a 1-bit relfile (write_full_bq_parts).
THEOREM BqLayoutSound ==
  ASSUME NEW n \in Nat, NEW perPage,
         perPage.codes \in Nat, perPage.ids \in Nat,
         NEW mean \in Nat, NEW coarse \in Nat, NEW dir \in Nat,
         NEW tomb \in Nat, NEW bits \in Nat \ {0}
  PROVE  LET l == BqLayout(n, perPage, mean, coarse, dir, tomb)
         IN  /\ ChainsDisjoint(l) /\ ChainsInside(l)
             /\ ChainsDisjoint(ResetTombstones(l, bits))
             /\ ChainsInside(ResetTombstones(l, bits))
<1>. DEFINE p == PlanBq(n, perPage, mean)
            i == SetIvfChains(p, coarse, dir)
            l == SetTombstones(i, tomb)
<1>1. Packed(p) /\ Without(p, {"coarse", "dir", "graph", "tomb"})
  BY PlanBqPacked DEF Without
<1>. HIDE DEF p
<1>2. Packed(i)
  BY <1>1, SetIvfPacked
<1>. HIDE DEF i
<1>3. Packed(l)
  BY <1>2, SetTombstonesPacked
<1>4. l = BqLayout(n, perPage, mean, coarse, dir, tomb)
  BY DEF BqLayout, p, i
<1>. HIDE DEF l
<1>5. Packed(ResetTombstones(l, bits))
  BY <1>3, ResetTombstonesPacked
<1>6. \A k : Packed(k) => ChainsDisjoint(k) /\ ChainsInside(k)
  BY PackedSorted, PackedInside, SortedDisjoint DEF Packed
<1>. QED  BY <1>3, <1>4, <1>5, <1>6

\* VACUUM of a flat index (write_meta_shrink_in_place, truncate_ids_tail): after
\* the counts have shrunk no block is in two chains, and if the index has no
\* calibration chain the truncation at the end of the ids cuts none off.
THEOREM ShrinkSound ==
  ASSUME NEW n \in Nat, NEW m \in Nat, m <= n, NEW perPage,
         perPage.codes \in Nat, perPage.scales \in Nat, perPage.ids \in Nat
  PROVE  LET l == PlanWithBlocked(n, perPage, 0)
             k == ShrinkInPlace(l, m, perPage)
         IN  /\ ChainsDisjoint(k)
             /\ \A c \in Chain : k[c].count > 0 =>
                  k[c].first + k[c].count <= IdsEnd(l, m, perPage)
<1>. DEFINE l == PlanWithBlocked(n, perPage, 0)
            k == ShrinkInPlace(l, m, perPage)
            codes  == PaddedPages(n, perPage.codes)
            scales == PaddedPages(n, perPage.scales)
            ids    == PaddedPages(n, perPage.ids)
            codesLeft  == PaddedPages(m, perPage.codes)
            scalesLeft == PaddedPages(m, perPage.scales)
            idsLeft    == PaddedPages(m, perPage.ids)
<1>1. /\ codes \in Nat /\ scales \in Nat /\ ids \in Nat
      /\ codesLeft \in Nat /\ scalesLeft \in Nat /\ idsLeft \in Nat
      /\ codesLeft <= codes /\ scalesLeft <= scales
  BY PaddedPagesBounds, PaddedPagesMonotone
<1>2. l = [NoChains EXCEPT
             !["codes"]    = [first |-> 1, count |-> codes],
             !["scales"]   = [first |-> 1 + codes, count |-> scales],
             !["ids"]      = [first |-> 1 + codes + scales, count |-> ids],
             !["rotation"] = Absent]
  BY DEF PlanWithBlocked, Placed, Absent
<1>3. k = [l EXCEPT !["codes"].count  = codesLeft,
                    !["scales"].count = scalesLeft,
                    !["ids"].count    = idsLeft]
  BY DEF ShrinkInPlace
<1>4. IdsEnd(l, m, perPage) = 1 + codes + scales + idsLeft
  BY <1>2 DEF IdsEnd, NoChains, Chain
<1>. HIDE DEF l, k, codes, scales, ids, codesLeft, scalesLeft, idsLeft
<1>5. /\ l["codes"] = [first |-> 1, count |-> codes]
      /\ l["scales"] = [first |-> 1 + codes, count |-> scales]
      /\ l["ids"] = [first |-> 1 + codes + scales, count |-> ids]
      /\ DOMAIN l = Chain
      /\ \A c \in Chain \ {"codes", "scales", "ids"} : l[c] = Absent
  BY <1>2 DEF NoChains, Chain
<1>6. /\ k["codes"] = [first |-> 1, count |-> codesLeft]
      /\ k["scales"] = [first |-> 1 + codes, count |-> scalesLeft]
      /\ k["ids"] = [first |-> 1 + codes + scales, count |-> idsLeft]
      /\ \A c \in Chain \ {"codes", "scales", "ids"} : k[c] = Absent
  BY <1>3, <1>5 DEF Chain
<1>7. ChainsDisjoint(k)
  BY <1>1, <1>6 DEF ChainsDisjoint, Chain, Absent
<1>8. \A c \in Chain : k[c].count > 0 =>
        k[c].first + k[c].count <= 1 + codes + scales + idsLeft
  BY <1>1, <1>6 DEF Chain, Absent
<1>. QED  BY <1>4, <1>7, <1>8 DEF l, k

-----------------------------------------------------------------------------
(* Items and their places.                                                 *)

\* BlockOf and PlaceOf are the digits of an item's number.
LEMMA Digits ==
  ASSUME NEW i \in Nat \ {0}, NEW p \in Nat \ {0}
  PROVE  /\ (i - 1) \div p \in Nat
         /\ ((i - 1) % p) + 1 \in 1 .. p
         /\ i = ((i - 1) \div p) * p + ((i - 1) % p) + 1
<1>. DEFINE k == (i - 1) \div p
            j == (i - 1) % p
<1>1. i - 1 \in Nat
  OBVIOUS
<1>2. k \in Nat
  BY <1>1, DivBounds
<1>3. j \in 0 .. p - 1 /\ i - 1 = p * k + j
  BY <1>1
<1>. HIDE DEF k, j
<1>4. p * k = k * p
  BY <1>2
<1>. QED  BY <1>2, <1>3, <1>4 DEF k, j

\* A number has one pair of digits.
LEMMA DigitsUnique ==
  ASSUME NEW p \in Nat \ {0}, NEW k \in Nat, NEW l \in Nat,
         NEW j \in 1 .. p, NEW m \in 1 .. p, k * p + j = l * p + m
  PROVE  k = l /\ j = m
<1>1. ASSUME NEW a \in Nat, NEW b \in Nat, NEW c \in 1 .. p, NEW d \in 1 .. p,
             a * p + c = b * p + d, a < b
      PROVE  FALSE
  <2>1. (a + 1) * p <= b * p
    BY <1>1, SMT
  <2>2. a * p + p <= b * p
    BY <1>1, <2>1, SMT
  <2>3. a * p \in Int /\ b * p \in Int
    BY <1>1
  <2>. QED  BY <1>1, <2>2, <2>3
<1>2. k = l
  BY <1>1
<1>3. k * p \in Int
  OBVIOUS
<1>. QED  BY <1>2, <1>3

\* An item of a chain is in one of the pages the chain needs.
LEMMA DigitInChain ==
  ASSUME NEW n \in Nat, NEW p \in Nat \ {0}, NEW i \in 1 .. n
  PROVE  (i - 1) \div p < PagesNeeded(n, p)
<1>. DEFINE k == (i - 1) \div p
            q == PagesNeeded(n, p)
<1>1. k \in Nat /\ i = k * p + ((i - 1) % p) + 1 /\ ((i - 1) % p) + 1 \in 1 .. p
  BY Digits
<1>2. q \in Nat /\ n <= p * q
  BY PagesNeededBounds
<1>3. k * p \in Int /\ p * q = q * p /\ q * p \in Int
  BY <1>1, <1>2
<1>4. k * p < q * p
  BY <1>1, <1>2, <1>3
<1>. HIDE DEF k, q
<1>5. ~ (q <= k)
  <2>1. ASSUME q <= k PROVE q * p <= k * p
    BY <1>1, <1>2, <2>1, SMT
  <2>. QED  BY <1>3, <1>4, <2>1
<1>6. k < q
  BY <1>1, <1>2, <1>5
<1>. QED  BY <1>6 DEF k, q

\* A chain that holds something needs a page.
LEMMA PagesPositive ==
  ASSUME NEW n \in Nat \ {0}, NEW p \in Nat \ {0}
  PROVE  PagesNeeded(n, p) > 0
<1>1. n <= p * PagesNeeded(n, p) /\ PagesNeeded(n, p) \in Nat
  BY PagesNeededBounds
<1>2. PagesNeeded(n, p) # 0
  <2>1. ASSUME PagesNeeded(n, p) = 0 PROVE FALSE
    <3>1. p * PagesNeeded(n, p) = 0
      BY <2>1
    <3>. QED  BY <1>1, <3>1
  <2>. QED  BY <2>1
<1>. QED  BY <1>1, <1>2

-----------------------------------------------------------------------------
(* What an image puts into its chains.                                     *)

\* An item of a chain.
Item == Vec \cup Id \cup Nat \cup BOOLEAN

\* The chains of an image, one by one.
LEMMA ContentFields ==
  ASSUME NEW img
  PROVE  LET n    == Len(img.rows)
             vecs == [i \in 1 .. n |-> img.rows[i].vec]
         IN  /\ DOMAIN Content(img) = Chain
             /\ Content(img)["codes"] = vecs
             /\ Content(img)["scales"] = Only(~ OneBit, vecs)
             /\ Content(img)["ids"] = [i \in 1 .. n |-> img.rows[i].id]
             /\ Content(img)["rotation"] = <<>>
             /\ Content(img)["mean"] = Only(OneBit /\ n > 0, <<0>>)
             /\ Content(img)["coarse"] = Only(img.cells > 0, <<img.cells>>)
             /\ Content(img)["dir"] = Only(img.cells > 0, <<img.cells>>)
             /\ Content(img)["graph"] = Only(kind = "graph", [i \in 1 .. n |-> n])
             /\ Content(img)["tomb"] = img.tomb
<1>. DEFINE n    == Len(img.rows)
            vecs == [i \in 1 .. n |-> img.rows[i].vec]
            ids  == [i \in 1 .. n |-> img.rows[i].id]
            scales == Only(~ OneBit, vecs)
            mean == Only(OneBit /\ n > 0, <<0>>)
            coarse == Only(img.cells > 0, <<img.cells>>)
            graph == Only(kind = "graph", [i \in 1 .. n |-> n])
            tomb == img.tomb
<1>1. Content(img) =
        [[c \in Chain |-> <<>>] EXCEPT
         !["codes"]  = vecs, !["scales"] = scales, !["ids"] = ids, !["mean"] = mean,
         !["coarse"] = coarse, !["dir"] = coarse, !["graph"] = graph, !["tomb"] = tomb]
  BY DEF Content
<1>. HIDE DEF n, vecs, ids, scales, mean, coarse, graph, tomb
<1>2. /\ DOMAIN Content(img) = Chain
      /\ Content(img)["codes"] = vecs
      /\ Content(img)["scales"] = scales
      /\ Content(img)["ids"] = ids
      /\ Content(img)["rotation"] = <<>>
      /\ Content(img)["mean"] = mean
      /\ Content(img)["coarse"] = coarse
      /\ Content(img)["dir"] = coarse
      /\ Content(img)["graph"] = graph
      /\ Content(img)["tomb"] = tomb
  BY <1>1 DEF Chain
<1>. QED  BY <1>2 DEF n, vecs, ids, scales, mean, coarse, graph, tomb

\* They are sequences.
LEMMA ContentType ==
  ASSUME NEW img \in Image, NEW c \in Chain
  PROVE  /\ Content(img)[c] \in Seq(Item)
         /\ Len(Content(img)[c]) \in Nat
         /\ DOMAIN Content(img)[c] = 1 .. Len(Content(img)[c])
<1>. DEFINE n == Len(img.rows)
            vecs == [i \in 1 .. n |-> img.rows[i].vec]
            ids == [i \in 1 .. n |-> img.rows[i].id]
            sizes == [i \in 1 .. n |-> n]
            one == <<img.cells>>
<1>1. img.rows \in Seq(Row) /\ img.tomb \in Seq(BOOLEAN) /\ img.cells \in Nat
  BY DEF Image
<1>2. n \in Nat /\ \A i \in 1 .. n : img.rows[i] \in Row
  BY <1>1
<1>3. \A i \in 1 .. n : img.rows[i].id \in Id /\ img.rows[i].vec \in Vec
  BY <1>2 DEF Row
<1>4. vecs \in Seq(Item) /\ ids \in Seq(Item) /\ sizes \in Seq(Item)
  BY <1>2, <1>3 DEF Item
<1>5. <<>> \in Seq(Item) /\ <<0>> \in Seq(Item) /\ one \in Seq(Item) /\ img.tomb \in Seq(Item)
  BY <1>1 DEF Item
<1>6. \A x, s : s \in Seq(Item) => Only(x, s) \in Seq(Item)
  BY <1>5 DEF Only
<1>7. /\ Content(img)["codes"] = vecs
      /\ Content(img)["scales"] = Only(~ OneBit, vecs)
      /\ Content(img)["ids"] = ids
      /\ Content(img)["rotation"] = <<>>
      /\ Content(img)["mean"] = Only(OneBit /\ n > 0, <<0>>)
      /\ Content(img)["coarse"] = Only(img.cells > 0, one)
      /\ Content(img)["dir"] = Only(img.cells > 0, one)
      /\ Content(img)["graph"] = Only(kind = "graph", sizes)
      /\ Content(img)["tomb"] = img.tomb
  BY ContentFields
<1>. HIDE DEF n, vecs, ids, sizes, one
<1>8. Content(img)[c] \in Seq(Item)
  <2>. HIDE DEF Item
  <2>1. \A x : /\ Only(x, vecs) \in Seq(Item) /\ Only(x, <<0>>) \in Seq(Item)
               /\ Only(x, one) \in Seq(Item) /\ Only(x, sizes) \in Seq(Item)
    BY <1>4, <1>5, <1>6
  <2>. QED  BY <1>4, <1>5, <1>7, <2>1 DEF Chain
<1>. QED  BY <1>8

-----------------------------------------------------------------------------
(* The plan of a relfile has room for what goes into it.                   *)

\* The counts in the plan of a TurboQuant relfile.
FullPlan(l, n, pc, pd, pg, pt) ==
  /\ Packed(l)
  /\ l["codes"].count = PaddedPages(n, PerPage["codes"])
  /\ l["scales"].count = PaddedPages(n, PerPage["scales"])
  /\ l["ids"].count = PaddedPages(n, PerPage["ids"])
  /\ l["rotation"].count = 0 /\ l["mean"].count = 0
  /\ l["coarse"].count = pc /\ l["dir"].count = pd
  /\ l["graph"].count = pg /\ l["tomb"].count = pt
  /\ l["ids"].first = 1 + PaddedPages(n, PerPage["codes"]) + PaddedPages(n, PerPage["scales"])

\* They are those of the planner.
LEMMA FullLayoutPlan ==
  ASSUME NEW n \in Nat, NEW pc \in Nat, NEW pd \in Nat, NEW pg \in Nat, NEW pt \in Nat
  PROVE  FullPlan(FullLayout(n, PerPage, 0, pc, pd, pg, pt), n, pc, pd, pg, pt)
<1>. DEFINE p == PlanWithBlocked(n, PerPage, 0)
            i == SetIvfChains(p, pc, pd)
            g == SetGraphChain(i, pg)
            t == SetTombstones(g, pt)
<1>1. PerPage.codes \in Nat /\ PerPage.scales \in Nat /\ PerPage.ids \in Nat
  BY PerPageAssumption DEF Chain
<1>2. Packed(p) /\ Without(p, {"mean", "coarse", "dir", "graph", "tomb"})
  BY <1>1, PlanWithBlockedPacked
<1>3. /\ p["codes"].count = PaddedPages(n, PerPage["codes"])
      /\ p["scales"].count = PaddedPages(n, PerPage["scales"])
      /\ p["ids"].count = PaddedPages(n, PerPage["ids"])
      /\ p["rotation"].count = 0
      /\ p["mean"].count = 0
      /\ p["ids"].first = 1 + PaddedPages(n, PerPage["codes"]) + PaddedPages(n, PerPage["scales"])
  <2>. DEFINE placed == Placed(1 + PaddedPages(n, PerPage.codes) + PaddedPages(n, PerPage.scales)
                                 + PaddedPages(n, PerPage.ids), 0)
  <2>1. placed.count = 0
    BY DEF Placed
  <2>. HIDE DEF placed
  <2>2. p["codes"].count = PaddedPages(n, PerPage["codes"])
    BY DEF PlanWithBlocked, NoChains, Chain
  <2>3. p["scales"].count = PaddedPages(n, PerPage["scales"])
    BY DEF PlanWithBlocked, NoChains, Chain
  <2>4. /\ p["ids"].count = PaddedPages(n, PerPage["ids"])
        /\ p["ids"].first = 1 + PaddedPages(n, PerPage["codes"]) + PaddedPages(n, PerPage["scales"])
    BY DEF PlanWithBlocked, NoChains, Chain
  <2>5. p["rotation"] = placed
    BY DEF PlanWithBlocked, NoChains, Chain, placed
  <2>6. p["mean"].count = 0
    BY <1>2 DEF Without, Absent
  <2>. QED  BY <2>1, <2>2, <2>3, <2>4, <2>5, <2>6
<1>. HIDE DEF p
<1>4. Packed(i) /\ Without(i, {"graph", "tomb"})
  BY <1>2, SetIvfPacked DEF Without
<1>5. /\ i["coarse"].count = pc /\ i["dir"].count = pd
      /\ \A c \in Chain \ {"coarse", "dir"} : i[c] = p[c]
  BY <1>2 DEF SetIvfChains, Placed, Packed, Layout, Chain
<1>. HIDE DEF i
<1>6. Packed(g)
  BY <1>4, SetGraphPacked
<1>7. g["graph"].count = pg /\ \A c \in Chain \ {"graph"} : g[c] = i[c]
  BY <1>4 DEF SetGraphChain, Placed, Packed, Layout, Chain
<1>. HIDE DEF g
<1>8. Packed(t)
  BY <1>6, SetTombstonesPacked
<1>9. t["tomb"].count = pt /\ \A c \in Chain \ {"tomb"} : t[c] = g[c]
  BY <1>6 DEF SetTombstones, Placed, Packed, Layout, Chain
<1>10. t = FullLayout(n, PerPage, 0, pc, pd, pg, pt)
  BY DEF FullLayout, p, i, g
<1>. HIDE DEF t
<1>. QED  BY <1>3, <1>5, <1>7, <1>8, <1>9, <1>10 DEF Chain, FullPlan

\* The counts in the plan of a 1-bit relfile.
BqPlan(l, n, pm, pc, pd, pt) ==
  /\ Packed(l)
  /\ l["codes"].count = PaddedPages(n, PerPage["codes"])
  /\ l["ids"].count = PaddedPages(n, PerPage["ids"])
  /\ l["mean"].count = pm
  /\ l["coarse"].count = pc /\ l["dir"].count = pd
  /\ l["tomb"].count = pt

\* They are those of the planner.
LEMMA BqLayoutPlan ==
  ASSUME NEW n \in Nat, NEW pm \in Nat, NEW pc \in Nat, NEW pd \in Nat, NEW pt \in Nat
  PROVE  BqPlan(BqLayout(n, PerPage, pm, pc, pd, pt), n, pm, pc, pd, pt)
<1>. DEFINE p == PlanBq(n, PerPage, pm)
            i == SetIvfChains(p, pc, pd)
            t == SetTombstones(i, pt)
<1>1. PerPage.codes \in Nat /\ PerPage.ids \in Nat
  BY PerPageAssumption DEF Chain
<1>2. Packed(p) /\ Without(p, {"scales", "rotation", "coarse", "dir", "graph", "tomb"})
  BY <1>1, PlanBqPacked
<1>3. /\ p["codes"].count = PaddedPages(n, PerPage["codes"])
      /\ p["ids"].count = PaddedPages(n, PerPage["ids"])
      /\ p["mean"].count = pm
  BY DEF PlanBq, Placed, NoChains, Chain
<1>. HIDE DEF p
<1>4. Packed(i)
  BY <1>2, SetIvfPacked DEF Without
<1>5. /\ i["coarse"].count = pc /\ i["dir"].count = pd
      /\ \A c \in Chain \ {"coarse", "dir"} : i[c] = p[c]
  BY <1>2 DEF SetIvfChains, Placed, Packed, Layout, Chain
<1>. HIDE DEF i
<1>6. Packed(t)
  BY <1>4, SetTombstonesPacked
<1>7. t["tomb"].count = pt /\ \A c \in Chain \ {"tomb"} : t[c] = i[c]
  BY <1>4 DEF SetTombstones, Placed, Packed, Layout, Chain
<1>8. t = BqLayout(n, PerPage, pm, pc, pd, pt)
  BY DEF BqLayout, p, i
<1>. HIDE DEF t
<1>. QED  BY <1>3, <1>5, <1>6, <1>7, <1>8 DEF Chain, BqPlan

\* In a layout without gaps the tombstones are last.
LEMMA PackedTombLast ==
  ASSUME NEW l, Packed(l)
  PROVE  TombLast(l)
<1>1. \A c \in Chain : l[c].count \in Nat /\ l[c].first \in Nat
  BY DEF Packed, Layout
<1>2. Starts(l)["tomb"] = AfterAll(l)
  BY <1>1 DEF Starts, AfterAll, Chain
<1>3. \A c \in Chain \ {"tomb"} : Starts(l)[c] + l[c].count <= AfterAll(l)
  BY <1>1 DEF Starts, AfterAll, Chain
<1>4. "tomb" \in Chain
  BY DEF Chain
<1>. QED  BY <1>1, <1>2, <1>3, <1>4 DEF Packed, TombLast

\* How much an image puts into each chain.
LEMMA Lengths ==
  ASSUME NEW img \in Image
  PROVE  LET n == Len(img.rows)
             len == MetaFor(img, LayoutOf(img)).len
         IN  /\ n \in Nat /\ len \in [Chain -> Nat]
             /\ \A c \in Chain : len[c] = Len(Content(img)[c])
             /\ len["codes"] = n /\ len["ids"] = n
             /\ len["scales"] = IF OneBit THEN 0 ELSE n
             /\ len["rotation"] = 0
             /\ ~ OneBit => len["mean"] = 0
             /\ img.cells = 0 => len["coarse"] = 0 /\ len["dir"] = 0
             /\ kind # "graph" => len["graph"] = 0
             /\ len["tomb"] = Len(img.tomb)
<1>. DEFINE n == Len(img.rows)
            vecs == [i \in 1 .. n |-> img.rows[i].vec]
            ids == [i \in 1 .. n |-> img.rows[i].id]
            len == [c \in Chain |-> Len(Content(img)[c])]
<1>1. img.rows \in Seq(Row) /\ n \in Nat /\ img.cells \in Nat
  BY DEF Image
<1>2. Len(vecs) = n /\ Len(ids) = n
  BY <1>1
<1>3. /\ Content(img)["codes"] = vecs
      /\ Content(img)["scales"] = Only(~ OneBit, vecs)
      /\ Content(img)["ids"] = ids
      /\ Content(img)["rotation"] = <<>>
      /\ Content(img)["mean"] = Only(OneBit /\ n > 0, <<0>>)
      /\ Content(img)["coarse"] = Only(img.cells > 0, <<img.cells>>)
      /\ Content(img)["dir"] = Only(img.cells > 0, <<img.cells>>)
      /\ Content(img)["graph"] = Only(kind = "graph", [i \in 1 .. n |-> n])
      /\ Content(img)["tomb"] = img.tomb
  BY ContentFields
<1>4. Len(<<>>) = 0
  OBVIOUS
<1>5. \A s : Only(FALSE, s) = <<>> /\ Only(TRUE, s) = s
  BY DEF Only
<1>. HIDE DEF n, vecs, ids
<1>6. \A c \in Chain : len[c] = Len(Content(img)[c]) /\ len[c] \in Nat
  BY ContentType
<1>. HIDE DEF len
<1>7. /\ len["codes"] = n /\ len["ids"] = n /\ len["rotation"] = 0
      /\ len["tomb"] = Len(img.tomb)
  BY <1>2, <1>3, <1>4, <1>6 DEF Chain
<1>8. len["scales"] = IF OneBit THEN 0 ELSE n
  <2>1. len["scales"] = Len(Only(~ OneBit, vecs))
    BY <1>3, <1>6 DEF Chain
  <2>2. CASE OneBit
    BY <1>4, <2>1, <2>2 DEF Only
  <2>3. CASE ~ OneBit
    BY <1>2, <2>1, <2>3 DEF Only
  <2>. QED  BY <2>2, <2>3
<1>9. ~ OneBit => len["mean"] = 0
  <2>1. len["mean"] = Len(Only(OneBit /\ n > 0, <<0>>))
    BY <1>3, <1>6 DEF Chain
  <2>. QED  BY <1>4, <2>1 DEF Only
<1>10. img.cells = 0 => len["coarse"] = 0 /\ len["dir"] = 0
  <2>1. /\ len["coarse"] = Len(Only(img.cells > 0, <<img.cells>>))
        /\ len["dir"] = Len(Only(img.cells > 0, <<img.cells>>))
    BY <1>3, <1>6 DEF Chain
  <2>. QED  BY <1>4, <2>1 DEF Only
<1>11. kind # "graph" => len["graph"] = 0
  <2>1. len["graph"] = Len(Only(kind = "graph", [i \in 1 .. n |-> n]))
    BY <1>3, <1>6 DEF Chain
  <2>. QED  BY <1>4, <2>1 DEF Only
<1>12. len = MetaFor(img, LayoutOf(img)).len
  BY DEF MetaFor, len
<1>13. len \in [Chain -> Nat]
  <2>1. len = [c \in Chain |-> len[c]]
    BY DEF len
  <2>. QED  BY <1>6, <2>1
<1>. QED  BY <1>1, <1>6, <1>7, <1>8, <1>9, <1>10, <1>11, <1>12, <1>13 DEF n

\* The sums over a layout.
LEMMA SumsType ==
  ASSUME NEW l \in Layout
  PROVE  TotalBlocks(l) \in Nat \ {0} /\ AfterAll(l) \in Nat \ {0}
<1>1. \A c \in Chain : l[c].count \in Nat
  BY DEF Layout
<1>2. /\ l["codes"].count \in Nat /\ l["scales"].count \in Nat /\ l["ids"].count \in Nat
      /\ l["rotation"].count \in Nat /\ l["coarse"].count \in Nat /\ l["dir"].count \in Nat
      /\ l["tomb"].count \in Nat /\ l["graph"].count \in Nat /\ l["mean"].count \in Nat
  BY <1>1 DEF Chain
<1>. QED  BY <1>2 DEF TotalBlocks, AfterAll

\* A layout without gaps that has room for what the image puts into it is one
\* the meta page of the image may name.
LEMMA PackedMetaSound ==
  ASSUME kind \in Kinds, NEW img, ImageSound(img), NEW at, Packed(at),
         \A c \in Chain : Len(Content(img)[c]) > 0 =>
           PagesNeeded(Len(Content(img)[c]), PerPage[c]) <= at[c].count,
         kind = "flat" =>
           \A c \in Chain : at[c].count = IF c \in {"codes", "scales", "ids"}
                                        THEN PaddedPages(Len(img.rows), PerPage[c]) ELSE 0
  PROVE  LET m == MetaFor(img, at)
         IN  /\ MetaSound(m, img) /\ TotalBlocks(at) \in Nat \ {0}
             /\ FitsIn(m, TotalBlocks(at))
<1>. DEFINE m == MetaFor(img, at)
            n == Len(img.rows)
<1>1. img \in Image /\ n \in Nat
  BY Lengths DEF ImageSound
<1>2. m.at = at /\ \A c \in Chain : m.len[c] = Len(Content(img)[c])
  BY DEF MetaFor
<1>. HIDE DEF m
<1>3. at \in Layout /\ \A c \in Chain : at[c].count \in Nat /\ at[c].first \in Nat
  BY DEF Packed, Layout
<1>4. ChainsDisjoint(at) /\ Sorted(at) /\ ChainsInside(at)
  BY <1>3, PackedSorted, PackedInside, SortedDisjoint
<1>. HIDE DEF n
<1>5. TotalBlocks(at) \in Nat \ {0}
  BY <1>3, SumsType
<1>6. \A c \in Chain : /\ PerPage[c] \in Nat \ {0}
                       /\ m.len[c] \in Nat
                       /\ PagesNeeded(m.len[c], PerPage[c]) \in Nat
  <2>1. TAKE c \in Chain
  <2>2. PerPage[c] \in Nat \ {0} /\ m.len[c] \in Nat
    BY <1>1, <1>2, ContentType, PerPageAssumption
  <2>. QED  BY <2>2, PagesNeededBounds
<1>7. \A c \in Chain : m.len[c] > 0 => PagesNeeded(m.len[c], PerPage[c]) > 0
  BY <1>6, PagesPositive
<1>8. \A c \in Chain : m.len[c] > 0 =>
        m.at[c].first > 0 /\ PagesNeeded(m.len[c], PerPage[c]) <= m.at[c].count
  BY <1>2, <1>3, <1>4, <1>6, <1>7 DEF ChainsInside
<1>9. FitsIn(m, TotalBlocks(at))
  BY <1>2, <1>3, <1>4, <1>5, <1>6, <1>7 DEF ChainsInside, FitsIn
<1>10. CASE kind = "flat"
  <2>1. n > 0 => \A c \in {"codes", "scales", "ids"} : at[c].count > 0
    <3>1. SUFFICES ASSUME n > 0, NEW c \in {"codes", "scales", "ids"} PROVE at[c].count > 0
      OBVIOUS
    <3>2. c \in Chain
      BY DEF Chain
    <3>3. PerPage[c] \in Nat \ {0}
      BY <1>6, <3>2
    <3>4. PagesNeeded(n, PerPage[c]) > 0 /\ PagesNeeded(n, PerPage[c]) \in Nat
      <4>1. n \in Nat \ {0} /\ PerPage[c] \in Nat
        BY <1>1, <3>1, <3>3
      <4>2. PagesNeeded(n, PerPage[c]) > 0
        BY <3>3, <4>1, PagesPositive
      <4>. QED  BY <4>1, <4>2, PagesNeededBounds
    <3>5. /\ PagesNeeded(n, PerPage[c]) <= PaddedPages(n, PerPage[c])
          /\ PaddedPages(n, PerPage[c]) \in Nat
      BY <1>1, <3>3, PaddedPagesBounds
    <3>6. at[c].count = PaddedPages(n, PerPage[c])
      BY <1>10, <3>2 DEF n
    <3>. QED  BY <3>4, <3>5, <3>6
  <2>2. n > 0 => /\ at["codes"].first + at["codes"].count <= at["scales"].first
                 /\ at["scales"].first + at["scales"].count <= at["ids"].first
    BY <1>4, <2>1 DEF Sorted, Rank, Chain
  <2>3. FlatPlan(at, Len(img.rows))
    BY <1>10, <2>2 DEF FlatPlan, n
  <2>4. m = MetaFor(img, at)
    BY DEF m
  <2>. QED  BY <1>2, <1>3, <1>4, <1>5, <1>8, <1>9, <1>10, <2>3, <2>4 DEF MetaSound
<1>11. CASE kind # "flat"
  <2>1. TombLast(at)
    BY PackedTombLast
  <2>2. m = MetaFor(img, at)
    BY DEF m
  <2>. QED  BY <1>2, <1>3, <1>4, <1>5, <1>8, <1>9, <1>11, <2>1, <2>2 DEF MetaSound
<1>. QED  BY <1>10, <1>11

\* The layout that a rewrite plans.
LEMMA LayoutOfSound ==
  ASSUME kind \in Kinds, NEW img, ImageSound(img)
  PROVE  LET at == LayoutOf(img)
         IN  /\ MetaSound(MetaFor(img, at), img) /\ TotalBlocks(at) \in Nat \ {0}
             /\ FitsIn(MetaFor(img, at), TotalBlocks(at))
             /\ ~ OneBit => at["ids"].first <= TotalBlocks(at)
<1>. DEFINE n == Len(img.rows)
            len == MetaFor(img, LayoutOf(img)).len
            pages == [c \in Chain |-> PagesNeeded(Len(Content(img)[c]), PerPage[c])]
            at == LayoutOf(img)
<1>1. img \in Image
  BY DEF ImageSound
<1>2. /\ n \in Nat /\ len \in [Chain -> Nat]
      /\ \A c \in Chain : len[c] = Len(Content(img)[c])
      /\ len["codes"] = n /\ len["ids"] = n
      /\ len["scales"] = IF OneBit THEN 0 ELSE n
      /\ len["rotation"] = 0
      /\ ~ OneBit => len["mean"] = 0
      /\ img.cells = 0 => len["coarse"] = 0 /\ len["dir"] = 0
      /\ kind # "graph" => len["graph"] = 0
      /\ len["tomb"] = Len(img.tomb)
  BY <1>1, Lengths
<1>3. at = IF OneBit
           THEN BqLayout(n, PerPage, pages["mean"], pages["coarse"], pages["dir"], pages["tomb"])
           ELSE FullLayout(n, PerPage, 0, pages["coarse"], pages["dir"], pages["graph"],
                           pages["tomb"])
  BY DEF LayoutOf
<1>. HIDE DEF len, at
<1>4. \A c \in Chain : pages[c] = PagesNeeded(len[c], PerPage[c])
  BY <1>2
<1>5. \A c \in Chain : PerPage[c] \in Nat \ {0} /\ len[c] \in Nat /\ PerPage[c] \in Nat
  BY <1>2, PerPageAssumption
<1>6. \A c \in Chain : pages[c] \in Nat /\ (len[c] = 0 => pages[c] = 0)
  <2>1. \A c \in Chain : PagesNeeded(len[c], PerPage[c]) \in Nat
    BY <1>5, PagesNeededBounds
  <2>2. \A p : PagesNeeded(0, p) = 0
    BY DEF PagesNeeded
  <2>. QED  BY <1>4, <2>1, <2>2
<1>7. \A c \in Chain : /\ PaddedPages(n, PerPage[c]) \in Nat
                       /\ PagesNeeded(n, PerPage[c]) <= PaddedPages(n, PerPage[c])
  BY <1>2, <1>5, PaddedPagesBounds
<1>. HIDE DEF pages
<1>8. CASE OneBit
  <2>1. /\ Packed(at)
        /\ at["codes"].count = PaddedPages(n, PerPage["codes"])
        /\ at["ids"].count = PaddedPages(n, PerPage["ids"])
        /\ at["mean"].count = pages["mean"]
        /\ at["coarse"].count = pages["coarse"] /\ at["dir"].count = pages["dir"]
        /\ at["tomb"].count = pages["tomb"]
    <3>1. /\ pages["mean"] \in Nat /\ pages["coarse"] \in Nat /\ pages["dir"] \in Nat
          /\ pages["tomb"] \in Nat
      BY <1>6 DEF Chain
    <3>2. at = BqLayout(n, PerPage, pages["mean"], pages["coarse"], pages["dir"], pages["tomb"])
      BY <1>3, <1>8
    <3>. DEFINE pm == pages["mean"]
                pc == pages["coarse"]
                pd == pages["dir"]
                pt == pages["tomb"]
    <3>. HIDE DEF n, pm, pc, pd, pt
    <3>3. n \in Nat
      BY <1>2
    <3>4. pm \in Nat /\ pc \in Nat /\ pd \in Nat /\ pt \in Nat
      BY <3>1 DEF pm, pc, pd, pt
    <3>5. at = BqLayout(n, PerPage, pm, pc, pd, pt)
      BY <3>2 DEF pm, pc, pd, pt
    <3>6. /\ Packed(at)
          /\ at["codes"].count = PaddedPages(n, PerPage["codes"])
          /\ at["ids"].count = PaddedPages(n, PerPage["ids"])
          /\ at["mean"].count = pm
          /\ at["coarse"].count = pc /\ at["dir"].count = pd
          /\ at["tomb"].count = pt
      <4>1. BqPlan(at, n, pm, pc, pd, pt)
        BY <3>3, <3>4, <3>5, BqLayoutPlan
      <4>. QED  BY <4>1 DEF BqPlan
    <3>. QED  BY <3>6 DEF pm, pc, pd, pt
  <2>2. kind # "flat" /\ kind # "graph"
    BY <1>8 DEF OneBit
  <2>3. \A c \in Chain : len[c] > 0 => PagesNeeded(len[c], PerPage[c]) <= at[c].count
    <3>. HIDE DEF n
    <3>1. \A c \in {"codes", "ids"} : len[c] = n /\ at[c].count = PaddedPages(n, PerPage[c])
      BY <1>2, <2>1
    <3>2. \A c \in {"scales", "rotation", "graph"} : len[c] = 0
      BY <1>2, <1>8, <2>2
    <3>3. \A c \in {"mean", "coarse", "dir", "tomb"} : at[c].count = pages[c]
      BY <2>1
    <3>4. \A c \in {"mean", "coarse", "dir", "tomb"} :
            PagesNeeded(len[c], PerPage[c]) <= at[c].count
      BY <1>4, <1>6, <3>3 DEF Chain
    <3>5. \A c \in {"codes", "ids"} : PagesNeeded(len[c], PerPage[c]) <= at[c].count
      BY <1>7, <3>1 DEF Chain
    <3>. QED  BY <3>2, <3>4, <3>5 DEF Chain
  <2>4. \A c \in Chain : Len(Content(img)[c]) > 0 =>
          PagesNeeded(Len(Content(img)[c]), PerPage[c]) <= at[c].count
    BY <1>2, <2>3
  <2>5. /\ MetaSound(MetaFor(img, at), img) /\ TotalBlocks(at) \in Nat \ {0}
        /\ FitsIn(MetaFor(img, at), TotalBlocks(at))
    BY <2>1, <2>2, <2>4, PackedMetaSound
  <2>. QED  BY <1>8, <2>5 DEF at
<1>9. CASE ~ OneBit
  <2>1. /\ Packed(at)
        /\ at["codes"].count = PaddedPages(n, PerPage["codes"])
        /\ at["scales"].count = PaddedPages(n, PerPage["scales"])
        /\ at["ids"].count = PaddedPages(n, PerPage["ids"])
        /\ at["rotation"].count = 0 /\ at["mean"].count = 0
        /\ at["coarse"].count = pages["coarse"] /\ at["dir"].count = pages["dir"]
        /\ at["graph"].count = pages["graph"] /\ at["tomb"].count = pages["tomb"]
        /\ at["ids"].first = 1 + PaddedPages(n, PerPage["codes"]) + PaddedPages(n, PerPage["scales"])
    <3>1. /\ pages["graph"] \in Nat /\ pages["coarse"] \in Nat /\ pages["dir"] \in Nat
          /\ pages["tomb"] \in Nat
      BY <1>6 DEF Chain
    <3>2. at = FullLayout(n, PerPage, 0, pages["coarse"], pages["dir"], pages["graph"],
                          pages["tomb"])
      BY <1>3, <1>9
    <3>. DEFINE pc == pages["coarse"]
                pd == pages["dir"]
                pg == pages["graph"]
                pt == pages["tomb"]
    <3>. HIDE DEF n, pc, pd, pg, pt
    <3>3. n \in Nat
      BY <1>2
    <3>4. pc \in Nat /\ pd \in Nat /\ pg \in Nat /\ pt \in Nat
      BY <3>1 DEF pc, pd, pg, pt
    <3>5. at = FullLayout(n, PerPage, 0, pc, pd, pg, pt)
      BY <3>2 DEF pc, pd, pg, pt
    <3>6. /\ Packed(at)
          /\ at["codes"].count = PaddedPages(n, PerPage["codes"])
          /\ at["scales"].count = PaddedPages(n, PerPage["scales"])
          /\ at["ids"].count = PaddedPages(n, PerPage["ids"])
          /\ at["rotation"].count = 0 /\ at["mean"].count = 0
          /\ at["coarse"].count = pc /\ at["dir"].count = pd
          /\ at["graph"].count = pg /\ at["tomb"].count = pt
          /\ at["ids"].first = 1 + PaddedPages(n, PerPage["codes"]) + PaddedPages(n, PerPage["scales"])
      <4>1. FullPlan(at, n, pc, pd, pg, pt)
        BY <3>3, <3>4, <3>5, FullLayoutPlan
      <4>. QED  BY <4>1 DEF FullPlan
    <3>. QED  BY <3>6 DEF pc, pd, pg, pt
  <2>2. \A c \in Chain : len[c] > 0 => PagesNeeded(len[c], PerPage[c]) <= at[c].count
    <3>. HIDE DEF n
    <3>1. \A c \in {"codes", "scales", "ids"} :
            len[c] = n /\ at[c].count = PaddedPages(n, PerPage[c])
      BY <1>2, <1>9, <2>1
    <3>2. \A c \in {"rotation", "mean"} : len[c] = 0
      BY <1>2, <1>9
    <3>3. \A c \in {"coarse", "dir", "graph", "tomb"} : at[c].count = pages[c]
      BY <2>1
    <3>4. \A c \in {"coarse", "dir", "graph", "tomb"} :
            PagesNeeded(len[c], PerPage[c]) <= at[c].count
      BY <1>4, <1>6, <3>3 DEF Chain
    <3>5. \A c \in {"codes", "scales", "ids"} : PagesNeeded(len[c], PerPage[c]) <= at[c].count
      BY <1>7, <3>1 DEF Chain
    <3>. QED  BY <3>2, <3>4, <3>5 DEF Chain
  <2>3. \A c \in Chain : Len(Content(img)[c]) > 0 =>
          PagesNeeded(Len(Content(img)[c]), PerPage[c]) <= at[c].count
    BY <1>2, <2>2
  <2>4. kind = "flat" =>
          \A c \in Chain : at[c].count = IF c \in {"codes", "scales", "ids"}
                                       THEN PaddedPages(n, PerPage[c]) ELSE 0
    <3>1. HAVE kind = "flat"
    <3>2. img.cells = 0 /\ img.tomb = <<>> /\ Len(img.tomb) = 0
      BY <3>1 DEF ImageSound
    <3>3. /\ pages["coarse"] = 0 /\ pages["dir"] = 0 /\ pages["graph"] = 0
          /\ pages["tomb"] = 0
      BY <1>2, <1>6, <3>1, <3>2 DEF Chain
    <3>. HIDE DEF n
    <3>. QED  BY <2>1, <3>3 DEF Chain
  <2>5. /\ MetaSound(MetaFor(img, at), img) /\ TotalBlocks(at) \in Nat \ {0}
        /\ FitsIn(MetaFor(img, at), TotalBlocks(at))
    BY <2>1, <2>3, <2>4, PackedMetaSound
  <2>6. at["ids"].first <= TotalBlocks(at)
    <3>1. \A c \in Chain : at[c].count \in Nat
      BY <2>1 DEF Packed, Layout
    <3>. HIDE DEF n
    <3>. QED  BY <1>7, <2>1, <3>1 DEF TotalBlocks, Chain
  <2>. QED  BY <2>5, <2>6 DEF at
<1>. QED  BY <1>8, <1>9

-----------------------------------------------------------------------------
(* Where the items of an image lie.                                        *)

\* What MetaSound says of the chains, with the types that arithmetic needs.
LEMMA MetaType ==
  ASSUME NEW m, NEW img, ImageSound(img), MetaSound(m, img), NEW c \in Chain
  PROVE  /\ PerPage[c] \in Nat \ {0}
         /\ m.len[c] = Len(Content(img)[c]) /\ m.len[c] \in Nat
         /\ m.at[c].first \in Nat /\ m.at[c].count \in Nat
         /\ PagesNeeded(m.len[c], PerPage[c]) \in Nat
<1>1. img \in Image /\ m.at \in Layout /\ m = MetaFor(img, m.at)
  BY DEF ImageSound, MetaSound
<1>2. m.len[c] = Len(Content(img)[c])
  <2>1. MetaFor(img, m.at).len[c] = Len(Content(img)[c])
    BY DEF MetaFor
  <2>. QED  BY <1>1, <2>1
<1>3. m.len[c] \in Nat
  BY <1>1, <1>2, ContentType
<1>4. PerPage[c] \in Nat \ {0}
  BY PerPageAssumption
<1>5. PagesNeeded(m.len[c], PerPage[c]) \in Nat
  BY <1>3, <1>4, PagesNeededBounds
<1>6. m.at[c].first \in Nat /\ m.at[c].count \in Nat
  BY <1>1 DEF Layout
<1>. QED  BY <1>2, <1>3, <1>4, <1>5, <1>6

\* An item is in a block of its chain.
LEMMA BlockInChain ==
  ASSUME NEW m, NEW img, ImageSound(img), MetaSound(m, img),
         NEW c \in Chain, NEW i \in 1 .. m.len[c]
  PROVE  /\ m.at[c].first > 0 /\ m.at[c].count > 0
         /\ BlockOf(m.at, c, i) \in Nat
         /\ m.at[c].first <= BlockOf(m.at, c, i)
         /\ BlockOf(m.at, c, i) < m.at[c].first + PagesNeeded(m.len[c], PerPage[c])
         /\ BlockOf(m.at, c, i) < m.at[c].first + m.at[c].count
<1>. DEFINE n == m.len[c]
            p == PerPage[c]
            f == m.at[c].first
            d == (i - 1) \div p
            q == PagesNeeded(n, p)
            r == m.at[c].count
<1>1. p \in Nat \ {0} /\ n \in Nat /\ f \in Nat /\ q \in Nat /\ r \in Nat
  BY MetaType
<1>2. n > 0 => f > 0 /\ q <= r
  BY DEF MetaSound
<1>. HIDE DEF n, p, f
<1>3. i \in 1 .. n
  BY DEF n
<1>4. i \in Nat \ {0} /\ n > 0
  BY <1>1, <1>3
<1>5. d \in Nat
  BY <1>1, <1>4, Digits
<1>6. d < q
  BY <1>1, <1>3, DigitInChain
<1>. HIDE DEF d, q, r
<1>7. f > 0 /\ r > 0 /\ f + d \in Nat /\ f <= f + d /\ f + d < f + q /\ f + d < f + r
  BY <1>1, <1>2, <1>4, <1>5, <1>6
<1>. QED  BY <1>7 DEF BlockOf, f, d, q, n, p, r

\* Items of two chains are never in one block.
LEMMA BlocksApart ==
  ASSUME NEW m, NEW img, ImageSound(img), MetaSound(m, img),
         NEW c \in Chain, NEW i \in 1 .. m.len[c],
         NEW d \in Chain, NEW j \in 1 .. m.len[d],
         BlockOf(m.at, c, i) = BlockOf(m.at, d, j)
  PROVE  c = d
<1>. DEFINE b == BlockOf(m.at, c, i)
<1>1. /\ b \in Nat /\ m.at[c].first <= b /\ b < m.at[c].first + m.at[c].count
      /\ m.at[c].first \in Nat /\ m.at[c].count \in Nat /\ m.at[c].count > 0
  BY BlockInChain, MetaType
<1>2. /\ m.at[d].first <= BlockOf(m.at, d, j)
      /\ BlockOf(m.at, d, j) < m.at[d].first + m.at[d].count
      /\ m.at[d].first \in Nat /\ m.at[d].count \in Nat /\ m.at[d].count > 0
  BY BlockInChain, MetaType
<1>3. m.at[d].first <= b /\ b < m.at[d].first + m.at[d].count
  BY <1>2
<1>. HIDE DEF b
<1>4. ChainsDisjoint(m.at)
  BY DEF MetaSound
<1>. QED  BY <1>1, <1>2, <1>3, <1>4 DEF ChainsDisjoint

\* Two items of a chain are never in one place.
LEMMA PlacesApart ==
  ASSUME NEW at, NEW c \in Chain, at[c].first \in Nat,
         NEW i \in Nat \ {0}, NEW j \in Nat \ {0},
         BlockOf(at, c, i) = BlockOf(at, c, j), PlaceOf(c, i) = PlaceOf(c, j)
  PROVE  i = j
<1>. DEFINE p == PerPage[c]
            k == (i - 1) \div p
            l == (j - 1) \div p
            x == ((i - 1) % p) + 1
            y == ((j - 1) % p) + 1
            f == at[c].first
<1>1. p \in Nat \ {0}
  BY PerPageAssumption
<1>2. k \in Nat /\ l \in Nat /\ i = k * p + x /\ j = l * p + y
  <2>1. k \in Nat /\ i = k * p + ((i - 1) % p) + 1 /\ x \in 1 .. p
    BY <1>1, Digits
  <2>2. l \in Nat /\ j = l * p + ((j - 1) % p) + 1 /\ y \in 1 .. p
    BY <1>1, Digits
  <2>3. k * p \in Int /\ l * p \in Int /\ (i - 1) % p \in Int /\ (j - 1) % p \in Int
    BY <1>1, <2>1, <2>2
  <2>. QED  BY <2>1, <2>2, <2>3
<1>3. f + k = f + l
  BY DEF BlockOf
<1>4. x = y
  BY DEF PlaceOf
<1>5. f \in Nat
  OBVIOUS
<1>. HIDE DEF k, l, x, y, f
<1>6. k = l
  BY <1>2, <1>3, <1>5
<1>. QED  BY <1>2, <1>4, <1>6

\* An item is still there after a change that leaves its block alone, or its
\* page and place.
LEMMA ItemKept ==
  ASSUME NEW d, NEW e, NEW at, NEW c, NEW i, NEW v, HasItem(d, at, c, i, v),
         BlockOf(at, c, i) \in DOMAIN e,
         e[BlockOf(at, c, i)] = d[BlockOf(at, c, i)]
  PROVE  HasItem(e, at, c, i, v)
  BY DEF HasItem

\* Nothing that lies in the blocks that are left goes with a truncation, and
\* nothing with an extension.
LEMMA ExtendedKeeps ==
  ASSUME NEW S, NEW d \in Seq(S), NEW n \in Nat
  PROVE  LET e == Extended(d, n)
         IN  /\ e \in Seq(Range(e)) /\ Len(e) \in Nat /\ Len(e) >= Len(d) /\ Len(e) + 1 >= n
             /\ \A b \in DOMAIN d : b \in DOMAIN e /\ e[b] = d[b]
             /\ \A b \in DOMAIN e : b \notin DOMAIN d => e[b] = ZeroPage
<1>. DEFINE k == IF n - 1 > Len(d) THEN n - 1 - Len(d) ELSE 0
            z == [i \in 1 .. k |-> ZeroPage]
            T == S \cup {ZeroPage}
            e == d \o z
<1>1. k \in Nat /\ Len(d) \in Nat
  OBVIOUS
<1>2. n <= Len(d) + k + 1
  BY <1>1
<1>. HIDE DEF k
<1>3. z \in Seq(T) /\ Len(z) = k /\ d \in Seq(T) /\ \A i \in 1 .. k : z[i] = ZeroPage
  BY <1>1
<1>. HIDE DEF z, T
<1>4. e \in Seq(T) /\ Len(e) = Len(d) + k
  BY <1>1, <1>3
<1>5. \A b \in 1 .. Len(e) : e[b] = IF b <= Len(d) THEN d[b] ELSE z[b - Len(d)]
  BY <1>1, <1>3
<1>6. DOMAIN e = 1 .. Len(e) /\ DOMAIN d = 1 .. Len(d)
  BY <1>4
<1>7. e \in Seq(Range(e))
  BY <1>4, SeqOfRange
<1>8. e = Extended(d, n)
  BY DEF Extended, k, z
<1>. HIDE DEF e
<1>9. \A b \in DOMAIN e : b \notin DOMAIN d => e[b] = ZeroPage
  BY <1>1, <1>3, <1>4, <1>5, <1>6
<1>. QED  BY <1>1, <1>2, <1>4, <1>5, <1>6, <1>7, <1>8, <1>9

-----------------------------------------------------------------------------
(* The writes of a rewrite.                                                *)

\* The fields of a write.
LEMMA PageWriteFields ==
  ASSUME NEW img, NEW at, NEW c \in Chain,
         NEW k \in 1 .. PagesNeeded(Len(Content(img)[c]), PerPage[c])
  PROVE  LET w    == PageWrites(img, at, c)[k]
             all  == Content(img)[c]
             base == (k - 1) * PerPage[c]
             size == Lesser(PerPage[c], Len(all) - base)
         IN  /\ w.block = at[c].first + k - 1
             /\ DOMAIN w.page = {"chain", "data"}
             /\ w.page.chain = c
             /\ w.page.data = [j \in 1 .. size |-> all[base + j]]
<1>. DEFINE all == Content(img)[c]
            per == PerPage[c]
            base == (k - 1) * per
            data == [j \in 1 .. Lesser(per, Len(all) - base) |-> all[base + j]]
            page == [chain |-> c, data |-> data]
            block == at[c].first + k - 1
            w == [block |-> block, page |-> page]
<1>1. PageWrites(img, at, c)[k] = w
  BY DEF PageWrites
<1>. HIDE DEF data, block
<1>2. DOMAIN page = {"chain", "data"} /\ page.chain = c /\ page.data = data
  OBVIOUS
<1>. HIDE DEF page
<1>3. w.block = block /\ w.page = page
  OBVIOUS
<1>. QED  BY <1>1, <1>2, <1>3 DEF data, block

\* The writes of a chain are the pages of the image, and all of them.
LEMMA PageWritesSound ==
  ASSUME NEW m, NEW img, ImageSound(img), MetaSound(m, img), NEW c \in Chain
  PROVE  LET W == PageWrites(img, m.at, c)
         IN  /\ W \in Seq(Range(W))
             /\ \A w \in Range(W) :
                  /\ PageSound(w, m, img)
                  /\ m.len[c] > 0
                  /\ w.block \in Nat \ {0}
                  /\ w.block < m.at[c].first + PagesNeeded(m.len[c], PerPage[c])
             /\ \A i \in 1 .. m.len[c] : \E w \in Range(W) : w.block = BlockOf(m.at, c, i)
<1>. DEFINE W   == PageWrites(img, m.at, c)
            all == Content(img)[c]
            n   == m.len[c]
            p   == PerPage[c]
            f   == m.at[c].first
            q   == PagesNeeded(n, p)
<1>1. p \in Nat \ {0} /\ n \in Nat /\ n = Len(all) /\ f \in Nat /\ q \in Nat
  BY MetaType
<1>2. DOMAIN W = 1 .. q
  BY <1>1 DEF PageWrites
<1>3. \A k \in 1 .. q :
        /\ W[k].block = f + k - 1
        /\ DOMAIN W[k].page = {"chain", "data"}
        /\ W[k].page.chain = c
        /\ W[k].page.data = [j \in 1 .. Lesser(p, n - (k - 1) * p) |-> all[(k - 1) * p + j]]
  BY <1>1, PageWriteFields
<1>4. W \in Seq(Range(W))
  <2>1. W = [k \in 1 .. q |-> W[k]]
    BY <1>1, <1>2 DEF PageWrites
  <2>2. \A k \in 1 .. q : W[k] \in Range(W)
    BY <1>2 DEF Range
  <2>. DEFINE R == Range(W)
  <2>. HIDE DEF W, q, R
  <2>3. [k \in 1 .. q |-> W[k]] \in Seq(R)
    BY <1>1, <2>2 DEF R
  <2>. QED  BY <2>1, <2>3, Zenon DEF R
<1>5. q > 0 => n > 0
  <2>1. n = 0 => q = 0
    BY DEF PagesNeeded
  <2>. QED  BY <1>1, <2>1
<1>6. n > 0 => f > 0
  BY DEF MetaSound
<1>. HIDE DEF W, n, p, f, q, all
<1>7. ASSUME NEW k \in 1 .. q
      PROVE  /\ PageSound(W[k], m, img) /\ n > 0
             /\ W[k].block \in Nat \ {0} /\ W[k].block < f + q
  <2>1. n > 0 /\ f > 0 /\ W[k].block = f + k - 1
    <3>1. q > 0
      BY <1>1
    <3>2. n > 0
      BY <1>5, <3>1
    <3>3. f > 0
      BY <1>6, <3>2
    <3>4. W[k].block = f + k - 1
      BY <1>3
    <3>. QED  BY <3>2, <3>3, <3>4
  <2>2. W[k].block \in Nat \ {0} /\ W[k].block < f + q
    BY <1>1, <2>1
  <2>3. ASSUME NEW d \in Chain, NEW i \in 1 .. m.len[d], BlockOf(m.at, d, i) = W[k].block
        PROVE  /\ W[k].page.chain = d /\ PlaceOf(d, i) \in DOMAIN W[k].page.data
               /\ W[k].page.data[PlaceOf(d, i)] = Content(img)[d][i]
    <3>1. d = c
      <4>. DEFINE b == W[k].block
                  x == m.at[d].first
                  r == m.at[d].count
                  s == m.at[c].count
      <4>1. /\ BlockOf(m.at, d, i) \in Nat /\ x <= BlockOf(m.at, d, i)
            /\ BlockOf(m.at, d, i) < x + r /\ r > 0
        BY BlockInChain
      <4>2. x \in Nat /\ r \in Nat /\ s \in Nat
        BY MetaType
      <4>3. q <= s
        BY <2>1 DEF MetaSound, n, p, q
      <4>4. x <= b /\ b < x + r /\ f <= b /\ b < f + s
        <5>1. x <= b /\ b < x + r
          BY <2>3, <4>1
        <5>. HIDE DEF b, x, r, s
        <5>2. b = f + k - 1
          BY <2>1 DEF b
        <5>. QED  BY <1>1, <4>2, <4>3, <5>1, <5>2
      <4>5. ChainsDisjoint(m.at)
        BY DEF MetaSound
      <4>6. c # d => x + r <= f \/ f + s <= x
        <5>1. s > 0
          BY <1>1, <4>2, <4>3
        <5>2. m.at[d].count > 0 /\ m.at[c].count > 0
          BY <4>1, <5>1
        <5>. QED  BY <4>5, <5>2 DEF ChainsDisjoint, f
      <4>7. b \in Nat
        BY <2>2
      <4>. HIDE DEF b, x, r, s
      <4>. QED  BY <1>1, <4>2, <4>4, <4>6, <4>7
    <3>. DEFINE x == (i - 1) \div p
                y == ((i - 1) % p) + 1
    <3>2. i \in 1 .. n
      BY <3>1 DEF n
    <3>3. i \in Nat \ {0} /\ i <= n
      BY <1>1, <3>2
    <3>4. x \in Nat /\ y \in 1 .. p /\ i = x * p + ((i - 1) % p) + 1
      BY <1>1, <3>3, Digits
    <3>5. x * p \in Int /\ (i - 1) % p \in Int
      BY <1>1, <3>3, <3>4
    <3>6. i = x * p + y
      BY <3>4, <3>5
    <3>7. BlockOf(m.at, d, i) = f + x /\ PlaceOf(d, i) = y
      BY <3>1 DEF BlockOf, PlaceOf, f, p
    <3>. HIDE DEF x, y
    <3>8. x = k - 1
      BY <1>1, <2>1, <2>3, <3>4, <3>7
    <3>9. (k - 1) * p = x * p
      BY <3>8
    <3>. DEFINE base == (k - 1) * p
    <3>10. base \in Int /\ i = base + y
      BY <3>5, <3>6, <3>9
    <3>11. W[k].page.data = [j \in 1 .. Lesser(p, n - base) |-> all[base + j]]
      BY <1>3
    <3>. HIDE DEF base
    <3>12. y \in 1 .. Lesser(p, n - base)
      BY <1>1, <3>3, <3>4, <3>10 DEF Lesser
    <3>13. y \in DOMAIN W[k].page.data /\ W[k].page.data[y] = all[base + y]
      BY <3>11, <3>12
    <3>14. W[k].page.data[y] = all[i]
      BY <3>10, <3>13
    <3>. QED  BY <1>3, <3>1, <3>7, <3>13, <3>14 DEF all
  <2>4. DOMAIN W[k].page = {"chain", "data"}
    BY <1>3
  <2>. QED  BY <2>1, <2>2, <2>3, <2>4 DEF PageSound
<1>8. ASSUME NEW i \in 1 .. n
      PROVE  \E k \in 1 .. q : W[k].block = BlockOf(m.at, c, i)
  <2>. DEFINE x == (i - 1) \div p
  <2>1. i \in Nat \ {0}
    BY <1>1
  <2>2. x \in Nat
    BY <1>1, <2>1, Digits
  <2>3. x < q
    BY <1>1, DigitInChain DEF q
  <2>4. BlockOf(m.at, c, i) = f + x
    BY DEF BlockOf, f, p
  <2>. HIDE DEF x
  <2>5. x + 1 \in 1 .. q /\ f + (x + 1) - 1 = f + x
    BY <1>1, <2>2, <2>3
  <2>. QED  BY <1>3, <2>4, <2>5
<1>9. \A w \in Range(W) : \E k \in 1 .. q : w = W[k]
  BY <1>2 DEF Range
<1>10. \A k \in 1 .. q : W[k] \in Range(W)
  BY <1>2 DEF Range
<1>11. \A i \in 1 .. n : \E w \in Range(W) : w.block = BlockOf(m.at, c, i)
  BY <1>8, <1>10
<1>12. \A w \in Range(W) : /\ PageSound(w, m, img) /\ n > 0
                           /\ w.block \in Nat \ {0} /\ w.block < f + q
  BY <1>7, <1>9
<1>. QED  BY <1>4, <1>11, <1>12 DEF W, f, q, n, p

\* The writes of all chains.
LEMMA AllWritesRange ==
  ASSUME NEW m, NEW img, ImageSound(img), MetaSound(m, img)
  PROVE  LET W == AllWrites(img, m.at)
         IN  /\ W \in Seq(Range(W))
             /\ \A w \in Range(W) : \E c \in Chain : w \in Range(PageWrites(img, m.at, c))
             /\ \A c \in Chain \ {"rotation"} : Range(PageWrites(img, m.at, c)) \subseteq Range(W)
<1>. DEFINE P(c) == PageWrites(img, m.at, c)
            S == UNION {Range(P(c)) : c \in Chain}
            W == AllWrites(img, m.at)
<1>1. \A c \in Chain : P(c) \in Seq(S)
  <2>1. TAKE c \in Chain
  <2>. DEFINE R == Range(P(c))
  <2>2. P(c) \in Seq(R)
    BY PageWritesSound
  <2>3. R \subseteq S
    OBVIOUS
  <2>. HIDE DEF P, S, R
  <2>. QED  BY <2>2, <2>3, SeqMonotonic
<1>2. W = P("codes") \o P("scales") \o P("ids") \o P("mean") \o P("coarse") \o P("dir")
            \o P("graph") \o P("tomb")
  BY DEF AllWrites
<1>3. \A w \in S : \E c \in Chain : w \in Range(P(c))
  OBVIOUS
<1>. DEFINE a == P("codes")
            b == P("scales")
            c == P("ids")
            d == P("mean")
            e == P("coarse")
            f == P("dir")
            g == P("graph")
            h == P("tomb")
<1>4. /\ a \in Seq(S) /\ b \in Seq(S) /\ c \in Seq(S) /\ d \in Seq(S) /\ e \in Seq(S)
      /\ f \in Seq(S) /\ g \in Seq(S) /\ h \in Seq(S)
  BY <1>1 DEF Chain
<1>5. W = a \o b \o c \o d \o e \o f \o g \o h
  BY <1>2
<1>6. \A x \in Chain \ {"rotation"} :
        P(x) = a \/ P(x) = b \/ P(x) = c \/ P(x) = d \/ P(x) = e \/ P(x) = f \/ P(x) = g \/ P(x) = h
  BY DEF Chain
<1>. HIDE DEF P, S, W, a, b, c, d, e, f, g, h
<1>7. \A s, t \in Seq(S) : s \o t \in Seq(S) /\ Range(s \o t) = Range(s) \cup Range(t)
  BY RangeConcatenation
<1>8. a \o b \in Seq(S) /\ Range(a \o b) = Range(a) \cup Range(b)
  BY <1>4, <1>7
<1>9. a \o b \o c \in Seq(S) /\ Range(a \o b \o c) = Range(a) \cup Range(b) \cup Range(c)
  BY <1>4, <1>7, <1>8
<1>. DEFINE u == a \o b \o c
<1>10. u \in Seq(S) /\ Range(u) = Range(a) \cup Range(b) \cup Range(c)
  BY <1>9
<1>11. W = u \o d \o e \o f \o g \o h
  BY <1>5
<1>. HIDE DEF u
<1>12. u \o d \in Seq(S) /\ Range(u \o d) = Range(u) \cup Range(d)
  BY <1>4, <1>7, <1>10
<1>13. u \o d \o e \in Seq(S) /\ Range(u \o d \o e) = Range(u) \cup Range(d) \cup Range(e)
  BY <1>4, <1>7, <1>12
<1>. DEFINE v == u \o d \o e
<1>14. v \in Seq(S) /\ Range(v) = Range(u) \cup Range(d) \cup Range(e)
  BY <1>13
<1>15. W = v \o f \o g \o h
  BY <1>11
<1>. HIDE DEF v
<1>16. v \o f \in Seq(S) /\ Range(v \o f) = Range(v) \cup Range(f)
  BY <1>4, <1>7, <1>14
<1>17. v \o f \o g \in Seq(S) /\ Range(v \o f \o g) = Range(v) \cup Range(f) \cup Range(g)
  BY <1>4, <1>7, <1>16
<1>18. W \in Seq(S) /\ Range(W) = Range(v) \cup Range(f) \cup Range(g) \cup Range(h)
  BY <1>4, <1>7, <1>15, <1>17
<1>19. \A x \in Chain \ {"rotation"} : Range(P(x)) \subseteq Range(W)
  <2>1. /\ Range(a) \subseteq Range(W) /\ Range(b) \subseteq Range(W)
        /\ Range(c) \subseteq Range(W) /\ Range(d) \subseteq Range(W)
        /\ Range(e) \subseteq Range(W) /\ Range(f) \subseteq Range(W)
        /\ Range(g) \subseteq Range(W) /\ Range(h) \subseteq Range(W)
    BY <1>10, <1>14, <1>18
  <2>. QED  BY <1>6, <2>1
<1>20. W \in Seq(Range(W))
  BY <1>18, SeqOfRange
<1>21. \A w \in Range(W) : w \in S
  BY <1>18, RangeOfSeq
<1>. QED  BY <1>3, <1>19, <1>20, <1>21 DEF P, W

\* They are the pages of the image, and all of them.
LEMMA AllWritesSound ==
  ASSUME NEW m, NEW img, ImageSound(img), MetaSound(m, img)
  PROVE  LET W == AllWrites(img, m.at)
         IN  /\ W \in Seq(Range(W))
             /\ \A w \in Range(W) : /\ PageSound(w, m, img)
                                    /\ w.block \in Nat \ {0}
                                    /\ \A b \in Nat : FitsIn(m, b) => w.block < b
             /\ \A c \in Chain : \A i \in 1 .. m.len[c] :
                  \E w \in Range(W) : w.block = BlockOf(m.at, c, i)
<1>. DEFINE W == AllWrites(img, m.at)
            P(c) == PageWrites(img, m.at, c)
<1>1. /\ W \in Seq(Range(W))
      /\ \A w \in Range(W) : \E c \in Chain : w \in Range(P(c))
      /\ \A c \in Chain \ {"rotation"} : Range(P(c)) \subseteq Range(W)
  BY AllWritesRange
<1>2. \A c \in Chain :
        /\ \A w \in Range(P(c)) :
             /\ PageSound(w, m, img)
             /\ m.len[c] > 0
             /\ w.block \in Nat \ {0}
             /\ w.block < m.at[c].first + PagesNeeded(m.len[c], PerPage[c])
        /\ \A i \in 1 .. m.len[c] : \E w \in Range(P(c)) : w.block = BlockOf(m.at, c, i)
  BY PageWritesSound
<1>3. m.len["rotation"] = 0
  <2>1. MetaFor(img, m.at).len["rotation"] = Len(Content(img)["rotation"])
    BY DEF MetaFor, Chain
  <2>2. Content(img)["rotation"] = <<>>
    BY ContentFields
  <2>3. m = MetaFor(img, m.at)
    BY DEF MetaSound
  <2>. QED  BY <2>1, <2>2, <2>3
<1>. HIDE DEF W, P
<1>4. ASSUME NEW w \in Range(W), NEW b \in Nat, FitsIn(m, b) PROVE w.block < b
  <2>1. PICK c \in Chain : w \in Range(P(c))
    BY <1>1
  <2>2. /\ m.len[c] > 0 /\ w.block \in Nat
        /\ w.block < m.at[c].first + PagesNeeded(m.len[c], PerPage[c])
    BY <1>2, <2>1
  <2>3. m.at[c].first + PagesNeeded(m.len[c], PerPage[c]) <= b
    BY <1>4, <2>2 DEF FitsIn
  <2>4. m.at[c].first \in Nat /\ PagesNeeded(m.len[c], PerPage[c]) \in Nat
    BY MetaType
  <2>. QED  BY <2>2, <2>3, <2>4
<1>5. \A w \in Range(W) : PageSound(w, m, img) /\ w.block \in Nat \ {0}
  BY <1>1, <1>2
<1>6. \A c \in Chain : \A i \in 1 .. m.len[c] :
        \E w \in Range(W) : w.block = BlockOf(m.at, c, i)
  <2>1. TAKE c \in Chain
  <2>2. TAKE i \in 1 .. m.len[c]
  <2>3. c # "rotation"
    BY <1>3
  <2>. QED  BY <1>1, <1>2, <2>3
<1>. QED  BY <1>1, <1>4, <1>5, <1>6 DEF W

\* A rewrite of an empty file leaves a file that reads back as the image.
LEMMA DiskOfSound ==
  ASSUME NEW img, ImageSound(img), MetaSound(MetaFor(img, LayoutOf(img)), img),
         TotalBlocks(LayoutOf(img)) \in Nat \ {0},
         FitsIn(MetaFor(img, LayoutOf(img)), TotalBlocks(LayoutOf(img)))
  PROVE  LET d == DiskOf(img)
         IN  /\ d \in Seq(Range(d)) /\ Len(d) + 1 = TotalBlocks(LayoutOf(img))
             /\ \A b \in DOMAIN d : DOMAIN d[b] = {"chain", "data"}
             /\ Reads(d, MetaFor(img, LayoutOf(img)), img)
<1>. DEFINE at == LayoutOf(img)
            m  == MetaFor(img, at)
            W  == AllWrites(img, at)
            t  == TotalBlocks(at)
            To(b) == {k \in DOMAIN W : W[k].block = b}
            d  == DiskOf(img)
<1>1. m.at = at /\ \A c \in Chain : m.len[c] = Len(Content(img)[c])
  BY DEF MetaFor
<1>2. d = [b \in 1 .. t - 1 |->
             IF To(b) = {} THEN ZeroPage ELSE W[CHOOSE k \in To(b) : TRUE].page]
  BY DEF DiskOf
<1>3. t - 1 \in Nat
  OBVIOUS
<1>4. /\ W \in Seq(Range(W))
      /\ \A w \in Range(W) : PageSound(w, m, img)
      /\ \A c \in Chain : \A i \in 1 .. m.len[c] :
           \E w \in Range(W) : w.block = BlockOf(m.at, c, i)
  BY <1>1, AllWritesSound
<1>. HIDE DEF at, m, W, t, d
<1>5. \A b \in 1 .. t - 1 : To(b) # {} => \E w \in Range(W) : w.block = b /\ d[b] = w.page
  <2>1. TAKE b \in 1 .. t - 1
  <2>2. HAVE To(b) # {}
  <2>. DEFINE k == CHOOSE k \in To(b) : TRUE
  <2>3. k \in To(b)
    BY <2>2
  <2>4. d[b] = W[k].page
    BY <1>2, <2>2
  <2>. HIDE DEF k
  <2>. QED  BY <2>3, <2>4 DEF Range
<1>6. DOMAIN d = 1 .. t - 1
  BY <1>2
<1>7. d \in Seq(Range(d)) /\ Len(d) + 1 = t
  <2>. DEFINE R == Range(d)
              D(b) == IF To(b) = {} THEN ZeroPage ELSE W[CHOOSE k \in To(b) : TRUE].page
  <2>1. d = [b \in 1 .. t - 1 |-> D(b)]
    BY <1>2
  <2>. HIDE DEF D
  <2>2. \A b \in 1 .. t - 1 : D(b) \in R
    BY <2>1 DEF Range
  <2>. HIDE DEF R
  <2>3. [b \in 1 .. t - 1 |-> D(b)] \in Seq(R) /\ Len([b \in 1 .. t - 1 |-> D(b)]) = t - 1
    BY <1>3, <2>2
  <2>4. d \in Seq(R) /\ Len(d) = t - 1
    BY <2>1, <2>3
  <2>5. t \in Nat
    BY DEF t, at
  <2>. QED  BY <2>4, <2>5 DEF R
<1>8. \A b \in DOMAIN d : DOMAIN d[b] = {"chain", "data"}
  <2>1. TAKE b \in DOMAIN d
  <2>2. CASE To(b) = {}
    <3>1. d[b] = ZeroPage
      BY <1>2, <1>6, <2>2
    <3>. QED  BY <3>1 DEF ZeroPage
  <2>3. CASE To(b) # {}
    BY <1>4, <1>5, <1>6, <2>3 DEF PageSound
  <2>. QED  BY <2>2, <2>3
<1>9. ASSUME NEW c \in Chain, NEW i \in 1 .. m.len[c]
      PROVE  HasItem(d, m.at, c, i, Content(img)[c][i])
  <2>. DEFINE b == BlockOf(m.at, c, i)
  <2>1. b \in 1 .. t - 1
    <3>1. MetaSound(m, img) /\ FitsIn(m, t) /\ t \in Nat
      BY DEF m, at, t
    <3>2. /\ m.at[c].first > 0 /\ b \in Nat /\ m.at[c].first <= b
          /\ b < m.at[c].first + PagesNeeded(m.len[c], PerPage[c])
      BY <3>1, BlockInChain
    <3>3. /\ m.at[c].first \in Nat /\ PagesNeeded(m.len[c], PerPage[c]) \in Nat
          /\ m.len[c] \in Nat
      BY <3>1, MetaType
    <3>4. m.at[c].first + PagesNeeded(m.len[c], PerPage[c]) <= t
      BY <3>1, <3>3 DEF FitsIn
    <3>. HIDE DEF b
    <3>. QED  BY <3>1, <3>2, <3>3, <3>4
  <2>2. To(b) # {}
    <3>1. PICK w \in Range(W) : w.block = b
      BY <1>4
    <3>2. PICK k \in DOMAIN W : w = W[k]
      BY DEF Range
    <3>. QED  BY <3>1, <3>2
  <2>3. PICK w \in Range(W) : w.block = b /\ d[b] = w.page
    BY <1>5, <2>1, <2>2
  <2>4. PageSound(w, m, img)
    BY <1>4
  <2>. QED  BY <1>6, <2>1, <2>3, <2>4 DEF PageSound, HasItem
<1>10. Reads(d, m, img)
  BY <1>1, <1>9 DEF Reads
<1>. QED  BY <1>7, <1>8, <1>10 DEF d, m, at, t

-----------------------------------------------------------------------------
(* A VACUUM of a flat index.                                               *)

\* One row less.
LEMMA SwapRemoveType ==
  ASSUME NEW S, NEW rows \in Seq(S), rows # <<>>, NEW s
  PROVE  SwapRemove(rows, s) \in Seq(S) /\ Len(SwapRemove(rows, s)) = Len(rows) - 1
<1>. DEFINE n == Len(rows)
            R == SwapRemove(rows, s)
<1>1. n \in Nat \ {0} /\ \A i \in 1 .. n : rows[i] \in S
  BY EmptySeq, ElementOfSeq
<1>2. R = [i \in 1 .. n - 1 |-> IF i = s THEN rows[n] ELSE rows[i]]
  BY DEF SwapRemove
<1>. HIDE DEF n, R
<1>3. \A i \in 1 .. n - 1 : (IF i = s THEN rows[n] ELSE rows[i]) \in S
  BY <1>1
<1>4. n - 1 \in Nat
  BY <1>1
<1>. QED  BY <1>2, <1>3, <1>4 DEF n, R

\* What RowsLeft defines.
Removal(left, rows, dead, m) ==
  /\ left[0] = rows
  /\ \A k \in 1 .. m : left[k] = SwapRemove(left[k - 1], dead[k])

\* The rows left are those of the recursion: there is a function that satisfies
\* it, for any number of dead slots.
LEMMA RowsLeftRecursion ==
  ASSUME NEW rows, NEW m \in Nat, NEW dead, DOMAIN dead = 1 .. m, Len(dead) = m
  PROVE  Removal(RowsLeft(rows, dead), rows, dead, m)
<1>. DEFINE F(f, b) == [k \in 0 .. b |-> IF k = 0 THEN rows ELSE SwapRemove(f[k - 1], dead[k])]
            Good == {b \in Nat : \E f : f = F(f, b)}
<1>1. 0 \in Good
  <2>1. [k \in 0 .. 0 |-> rows] = F([k \in 0 .. 0 |-> rows], 0)
    OBVIOUS
  <2>. HIDE DEF F
  <2>. QED  BY <2>1
<1>2. ASSUME NEW b \in Nat, b \in Good PROVE b + 1 \in Good
  <2>1. PICK f : f = F(f, b)
    BY <1>2
  <2>. DEFINE g == [k \in 0 .. b + 1 |-> IF k = b + 1 THEN SwapRemove(f[b], dead[b + 1]) ELSE f[k]]
  <2>2. ASSUME NEW k \in 0 .. b + 1
        PROVE  g[k] = IF k = 0 THEN rows ELSE SwapRemove(g[k - 1], dead[k])
    <3>1. CASE k = b + 1
      <4>1. k # 0 /\ k - 1 = b /\ b \in 0 .. b + 1 /\ b # b + 1
        BY <3>1
      <4>2. g[k - 1] = f[b]
        BY <4>1
      <4>3. g[k] = SwapRemove(f[b], dead[b + 1])
        BY <3>1
      <4>. QED  BY <3>1, <4>1, <4>2, <4>3
    <3>2. CASE k # b + 1
      <4>1. k \in 0 .. b
        BY <3>2
      <4>2. g[k] = f[k]
        BY <3>2
      <4>3. f[k] = IF k = 0 THEN rows ELSE SwapRemove(f[k - 1], dead[k])
        BY <2>1, <4>1
      <4>4. k # 0 => k - 1 \in 0 .. b + 1 /\ k - 1 # b + 1
        BY <4>1
      <4>5. k # 0 => g[k - 1] = f[k - 1]
        BY <4>4
      <4>. HIDE DEF g
      <4>. QED  BY <4>2, <4>3, <4>5
    <3>. QED  BY <3>1, <3>2
  <2>3. g = F(g, b + 1)
    <3>1. DOMAIN g = 0 .. b + 1 /\ g = [k \in 0 .. b + 1 |-> g[k]]
      OBVIOUS
    <3>. HIDE DEF g
    <3>. QED  BY <2>2, <3>1
  <2>. HIDE DEF F, g
  <2>. QED  BY <2>3
<1>3. m \in Good
  <2>. HIDE DEF Good
  <2>. QED  BY <1>1, <1>2, SetInduction
<1>. DEFINE left == RowsLeft(rows, dead)
<1>4. left = CHOOSE f : f = F(f, m)
  BY DEF RowsLeft
<1>5. left = F(left, m)
  <2>. HIDE DEF F
  <2>. QED  BY <1>3, <1>4
<1>6. \A k \in 0 .. m : left[k] = IF k = 0 THEN rows ELSE SwapRemove(left[k - 1], dead[k])
  <2>. HIDE DEF left
  <2>. QED  BY <1>5
<1>. HIDE DEF left
<1>7. 0 \in 0 .. m /\ \A k \in 1 .. m : k \in 0 .. m /\ k # 0
  OBVIOUS
<1>. QED  BY <1>6, <1>7 DEF left, Removal

\* Each time one row less.
LEMMA RowsLeftType ==
  ASSUME NEW S, NEW rows \in Seq(S), NEW m \in Nat, NEW dead, DOMAIN dead = 1 .. m,
         Len(dead) = m, m <= Len(rows)
  PROVE  \A k \in 0 .. m : /\ RowsLeft(rows, dead)[k] \in Seq(S)
                           /\ Len(RowsLeft(rows, dead)[k]) = Len(rows) - k
<1>. DEFINE left == RowsLeft(rows, dead)
            n == Len(rows)
            Good == {k \in Nat : k <= m => left[k] \in Seq(S) /\ Len(left[k]) = n - k}
<1>1. left[0] = rows /\ \A k \in 1 .. m : left[k] = SwapRemove(left[k - 1], dead[k])
  <2>1. Removal(left, rows, dead, m)
    BY RowsLeftRecursion
  <2>. HIDE DEF left
  <2>. QED  BY <2>1 DEF Removal
<1>2. n \in Nat
  OBVIOUS
<1>. HIDE DEF left
<1>3. 0 \in Good
  BY <1>1, <1>2
<1>. HIDE DEF n
<1>4. ASSUME NEW k \in Nat, k \in Good PROVE k + 1 \in Good
  <2>1. SUFFICES ASSUME k + 1 <= m
                 PROVE  left[k + 1] \in Seq(S) /\ Len(left[k + 1]) = n - (k + 1)
    OBVIOUS
  <2>2. left[k] \in Seq(S) /\ Len(left[k]) = n - k
    BY <1>4, <2>1
  <2>3. n - k > 0
    BY <1>2, <2>1 DEF n
  <2>4. left[k] # <<>>
    BY <2>2, <2>3, EmptySeq
  <2>5. left[k + 1] = SwapRemove(left[k], dead[k + 1])
    <3>1. k + 1 \in 1 .. m /\ (k + 1) - 1 = k
      BY <2>1
    <3>. QED  BY <1>1, <3>1
  <2>6. left[k + 1] \in Seq(S) /\ Len(left[k + 1]) = Len(left[k]) - 1
    BY <2>2, <2>4, <2>5, SwapRemoveType
  <2>. QED  BY <1>2, <2>2, <2>6
<1>5. \A k \in Nat : k \in Good
  <2>. HIDE DEF Good
  <2>. QED  BY <1>3, <1>4, SetInduction
<1>. QED  BY <1>5 DEF left, n

\* The k-th of a descending list of numbers up to n has k - 1 of them above it.
LEMMA Descending ==
  ASSUME NEW n \in Nat, NEW m \in Nat, NEW dead \in [1 .. m -> 1 .. n],
         \A j, k \in 1 .. m : j < k => dead[j] > dead[k]
  PROVE  \A k \in 1 .. m : dead[k] <= n + 1 - k
<1>. DEFINE Good == {k \in Nat : k + 1 \in 1 .. m => dead[k + 1] <= n - k}
<1>1. 0 \in Good
  OBVIOUS
<1>2. ASSUME NEW k \in Nat, k \in Good PROVE k + 1 \in Good
  <2>1. SUFFICES ASSUME k + 2 \in 1 .. m PROVE dead[k + 2] <= n - (k + 1)
    OBVIOUS
  <2>2. k + 1 \in 1 .. m /\ k + 1 < k + 2
    BY <2>1
  <2>3. dead[k + 1] > dead[k + 2]
    BY <2>1, <2>2
  <2>4. dead[k + 1] <= n - k
    BY <1>2, <2>2
  <2>5. dead[k + 1] \in 1 .. n /\ dead[k + 2] \in 1 .. n
    BY <2>1, <2>2
  <2>. QED  BY <2>3, <2>4, <2>5
<1>3. \A k \in Nat : k \in Good
  <2>. HIDE DEF Good
  <2>. QED  BY <1>1, <1>2, SetInduction
<1>4. TAKE k \in 1 .. m
<1>5. k - 1 \in Nat /\ (k - 1) + 1 = k
  OBVIOUS
<1>6. dead[k] <= n - (k - 1)
  BY <1>3, <1>5
<1>. QED  BY <1>6

\* A change of one item of one page.
LEMMA PutItem ==
  ASSUME NEW d, NEW b \in DOMAIN d, DOMAIN d[b] = {"chain", "data"},
         NEW p \in DOMAIN d[b].data, NEW v, NEW e, e = [d EXCEPT ![b].data[p] = v]
  PROVE  /\ DOMAIN e = DOMAIN d
         /\ \A a \in DOMAIN d : a # b => e[a] = d[a]
         /\ DOMAIN e[b] = {"chain", "data"} /\ e[b].chain = d[b].chain
         /\ DOMAIN e[b].data = DOMAIN d[b].data
         /\ e[b].data[p] = v
         /\ \A q \in DOMAIN d[b].data : q # p => e[b].data[q] = d[b].data[q]
<1>. DEFINE data == [d[b].data EXCEPT ![p] = v]
            page == [d[b] EXCEPT !.data = data]
<1>1. /\ DOMAIN data = DOMAIN d[b].data /\ data[p] = v
      /\ \A q \in DOMAIN d[b].data : q # p => data[q] = d[b].data[q]
  OBVIOUS
<1>2. e = [d EXCEPT ![b] = page]
  OBVIOUS
<1>. HIDE DEF data
<1>3. DOMAIN page = {"chain", "data"} /\ page.chain = d[b].chain /\ page.data = data
  OBVIOUS
<1>. HIDE DEF page
<1>4. DOMAIN e = DOMAIN d /\ e[b] = page /\ \A a \in DOMAIN d : a # b => e[a] = d[a]
  BY <1>2
<1>. QED  BY <1>1, <1>3, <1>4

\* The progress of a column: a copy takes the column it is in on by one row,
\* and no other column.
LEMMA ColumnProgress ==
  ASSUME NEW x \in Nat, NEW m \in Nat, x < 3 * m
  PROVE  /\ (x % 3) + 1 \in 1 .. 3 /\ x \div 3 \in 0 .. m - 1
         /\ \A j \in 1 .. 3 :
              /\ (x + 3 - j) \div 3 \in 0 .. m
              /\ j = (x % 3) + 1 => /\ (x + 3 - j) \div 3 = x \div 3
                                    /\ ((x + 1) + 3 - j) \div 3 = (x \div 3) + 1
              /\ j # (x % 3) + 1 => ((x + 1) + 3 - j) \div 3 = (x + 3 - j) \div 3
<1>. DEFINE k == x \div 3
            r == x % 3
<1>1. k \in Nat /\ r \in 0 .. 2 /\ x = 3 * k + r
  OBVIOUS
<1>. HIDE DEF k, r
<1>2. k \in 0 .. m - 1
  BY <1>1
<1>3. \A y \in Nat : 3 * k <= y /\ y < 3 * k + 3 => y \div 3 = k
  BY <1>1
<1>4. \A y \in Nat : 3 * k + 3 <= y /\ y < 3 * k + 6 => y \div 3 = k + 1
  BY <1>1
<1>5. ASSUME NEW j \in 1 .. 3
      PROVE  /\ (x + 3 - j) \div 3 \in 0 .. m
             /\ j = r + 1 => (x + 3 - j) \div 3 = k /\ ((x + 1) + 3 - j) \div 3 = k + 1
             /\ j # r + 1 => ((x + 1) + 3 - j) \div 3 = (x + 3 - j) \div 3
  <2>1. x + 3 - j \in Nat /\ (x + 1) + 3 - j \in Nat
    BY <1>1
  <2>2. CASE j = r + 1
    <3>1. x + 3 - j = 3 * k + 2 /\ (x + 1) + 3 - j = 3 * k + 3
      BY <1>1, <2>2
    <3>2. (x + 3 - j) \div 3 = k
      BY <1>1, <1>3, <2>1, <3>1
    <3>3. ((x + 1) + 3 - j) \div 3 = k + 1
      BY <1>1, <1>4, <2>1, <3>1
    <3>. QED  BY <1>2, <2>2, <3>2, <3>3
  <2>3. CASE j < r + 1
    <3>1. /\ 3 * k + 3 <= x + 3 - j /\ x + 3 - j < 3 * k + 6
          /\ 3 * k + 3 <= (x + 1) + 3 - j /\ (x + 1) + 3 - j < 3 * k + 6
      BY <1>1, <2>3
    <3>2. (x + 3 - j) \div 3 = k + 1 /\ ((x + 1) + 3 - j) \div 3 = k + 1
      BY <1>4, <2>1, <3>1
    <3>. QED  BY <1>1, <1>2, <2>3, <3>2
  <2>4. CASE j > r + 1
    <3>1. /\ 3 * k <= x + 3 - j /\ x + 3 - j < 3 * k + 3
          /\ 3 * k <= (x + 1) + 3 - j /\ (x + 1) + 3 - j < 3 * k + 3
      BY <1>1, <2>4
    <3>2. (x + 3 - j) \div 3 = k /\ ((x + 1) + 3 - j) \div 3 = k
      BY <1>3, <2>1, <3>1
    <3>. QED  BY <1>1, <1>2, <2>4, <3>2
  <2>. QED  BY <1>1, <2>2, <2>3, <2>4
<1>6. r + 1 \in 1 .. 3
  BY <1>1
<1>. QED  BY <1>2, <1>5, <1>6 DEF k, r

\* In a flat index each column holds its part of every row.
LEMMA FlatColumns ==
  ASSUME NEW m, NEW img, ImageSound(img), MetaSound(m, img), kind = "flat"
  PROVE  /\ Len(img.rows) \in Nat /\ img.rows \in Seq(Row)
         /\ \A j \in 1 .. 3 :
              /\ Columns[j] \in Chain /\ m.len[Columns[j]] = Len(img.rows)
              /\ \A i \in 1 .. Len(img.rows) :
                   Content(img)[Columns[j]][i] = InColumn(img.rows, j, i)
         /\ \A c \in Chain : m.len[c] > 0 => \E j \in 1 .. 3 : c = Columns[j]
         /\ \A j, k \in 1 .. 3 : Columns[j] = Columns[k] => j = k
<1>. DEFINE n == Len(img.rows)
            len == m.len
<1>1. img \in Image /\ img.rows \in Seq(Row)
  BY DEF ImageSound, Image
<1>2. /\ n \in Nat
      /\ len["codes"] = n /\ len["ids"] = n /\ len["scales"] = n
      /\ len["rotation"] = 0 /\ len["mean"] = 0 /\ len["coarse"] = 0 /\ len["dir"] = 0
      /\ len["graph"] = 0 /\ len["tomb"] = 0
  <2>1. \A c \in Chain : len[c] = Len(Content(img)[c])
    BY MetaType
  <2>. DEFINE l == MetaFor(img, LayoutOf(img)).len
  <2>2. /\ n \in Nat
        /\ \A c \in Chain : l[c] = Len(Content(img)[c])
        /\ l["codes"] = n /\ l["ids"] = n /\ l["scales"] = IF OneBit THEN 0 ELSE n
        /\ l["rotation"] = 0
        /\ ~ OneBit => l["mean"] = 0
        /\ img.cells = 0 => l["coarse"] = 0 /\ l["dir"] = 0
        /\ kind # "graph" => l["graph"] = 0
        /\ l["tomb"] = Len(img.tomb)
    BY <1>1, Lengths
  <2>3. ~ OneBit /\ img.cells = 0 /\ img.tomb = <<>> /\ kind # "graph"
    BY DEF OneBit, ImageSound
  <2>4. Len(img.tomb) = 0
    BY <2>3
  <2>. HIDE DEF l, n
  <2>5. \A c \in Chain : len[c] = l[c]
    BY <2>1, <2>2
  <2>6. /\ l["codes"] = n /\ l["ids"] = n /\ l["scales"] = n
        /\ l["rotation"] = 0 /\ l["mean"] = 0 /\ l["coarse"] = 0 /\ l["dir"] = 0
        /\ l["graph"] = 0 /\ l["tomb"] = 0
    BY <2>2, <2>3, <2>4
  <2>. QED  BY <2>2, <2>5, <2>6 DEF Chain
<1>3. Columns[1] = "codes" /\ Columns[2] = "scales" /\ Columns[3] = "ids"
  BY DEF Columns
<1>4. \A j \in 1 .. 3 : j = 1 \/ j = 2 \/ j = 3
  OBVIOUS
<1>5. /\ Content(img)["codes"] = [i \in 1 .. n |-> img.rows[i].vec]
      /\ Content(img)["scales"] = [i \in 1 .. n |-> img.rows[i].vec]
      /\ Content(img)["ids"] = [i \in 1 .. n |-> img.rows[i].id]
  <2>1. ~ OneBit
    BY DEF OneBit
  <2>. QED  BY <2>1, ContentFields DEF Only
<1>. HIDE DEF n, len
<1>6. \A j \in 1 .. 3 : Columns[j] \in Chain /\ len[Columns[j]] = n
  BY <1>2, <1>3, <1>4 DEF Chain
<1>7. \A j \in 1 .. 3 : \A i \in 1 .. n : Content(img)[Columns[j]][i] = InColumn(img.rows, j, i)
  <2>1. TAKE j \in 1 .. 3
  <2>2. TAKE i \in 1 .. n
  <2>. DEFINE all == Content(img)
  <2>. HIDE DEF all
  <2>3. /\ all["codes"][i] = img.rows[i].vec /\ all["scales"][i] = img.rows[i].vec
        /\ all["ids"][i] = img.rows[i].id
    BY <1>5 DEF all
  <2>4. all[Columns[j]][i] = InColumn(img.rows, j, i)
    BY <1>3, <1>4, <2>3 DEF InColumn
  <2>. QED  BY <2>4 DEF all
<1>8. \A c \in Chain : len[c] > 0 => \E j \in 1 .. 3 : c = Columns[j]
  BY <1>2, <1>3 DEF Chain
<1>9. \A j, k \in 1 .. 3 : Columns[j] = Columns[k] => j = k
  BY <1>3, <1>4
<1>. QED  BY <1>1, <1>2, <1>6, <1>7, <1>8, <1>9 DEF n, len

\* The pages and the columns after the first of these copies.
OneCopied(copies, d, at, rows, dead) ==
  LET e == Copied(d, at, Head(copies))
  IN  /\ CopiesSound(Tail(copies), e, at, rows, dead)
      /\ DOMAIN e = DOMAIN d
      /\ \A b \in DOMAIN e : DOMAIN e[b] = {"chain", "data"}

\* One copy takes the columns on, and changes nothing else of the file.
LEMMA CopyOne ==
  ASSUME NEW mt, NEW img, ImageSound(img), MetaSound(mt, img), kind = "flat",
         NEW d, \A b \in DOMAIN d : DOMAIN d[b] = {"chain", "data"},
         NEW m \in 0 .. Len(img.rows), NEW dead \in [1 .. m -> 1 .. Len(img.rows)],
         NEW copies, copies \in Seq(Range(copies)), copies # <<>>,
         CopiesSound(copies, d, mt.at, img.rows, dead)
  PROVE  OneCopied(copies, d, mt.at, img.rows, dead)
<1>. DEFINE S == Range(copies)
<1>. HIDE DEF S
<1>0. copies \in Seq(S)
  BY DEF S
<1>. DEFINE at == mt.at
            n == Len(img.rows)
            left == RowsLeft(img.rows, dead)
            x == 3 * m - Len(copies)
            r == (x % 3) + 1
            k0 == x \div 3
            K(j) == (x + 3 - j) \div 3
            L(j) == ((x + 1) + 3 - j) \div 3
            C == Columns[r]
            to == dead[k0 + 1]
            b == BlockOf(at, C, to)
            p == PlaceOf(C, to)
            s == Head(copies)
            from == d[BlockOf(at, s.chain, s.from)].data[PlaceOf(s.chain, s.from)]
            e == Copied(d, at, s)
<1>. HIDE DEF s, from, e
<1>1. n \in Nat /\ m \in Nat /\ Len(dead) = m /\ DOMAIN dead = 1 .. m
  BY FlatColumns
<1>2. /\ \A j, k \in 1 .. m : j < k => dead[j] > dead[k]
      /\ Len(copies) <= 3 * m
      /\ copies = [y \in 1 .. 3 * m - x |-> Moves(n, dead)[x + y]]
      /\ \A j \in 1 .. 3 : \A i \in 1 .. n - K(j) :
           HasItem(d, at, Columns[j], i, InColumn(left[K(j)], j, i))
  BY <1>1 DEF CopiesSound
<1>3. Len(copies) \in Nat \ {0}
  BY <1>0, EmptySeq
<1>4. x \in Nat /\ x < 3 * m
  BY <1>1, <1>2, <1>3
<1>. HIDE DEF x
<1>5. /\ r \in 1 .. 3 /\ k0 \in 0 .. m - 1
      /\ \A j \in 1 .. 3 : /\ K(j) \in 0 .. m
                           /\ j = r => K(j) = k0 /\ L(j) = k0 + 1
                           /\ j # r => L(j) = K(j)
  BY <1>1, <1>4, ColumnProgress
<1>6. s.chain = C /\ s.from = n - k0 /\ s.to = to
  <2>1. copies[1] = Moves(n, dead)[x + 1]
    <3>1. 1 \in 1 .. 3 * m - x
      BY <1>1, <1>4
    <3>. DEFINE mvs == Moves(n, dead)
    <3>. HIDE DEF mvs
    <3>2. copies = [y \in 1 .. 3 * m - x |-> mvs[x + y]]
      BY <1>2 DEF mvs
    <3>. QED  BY <3>1, <3>2 DEF mvs
  <2>2. s = copies[1]
    BY <1>3 DEF s
  <2>3. x + 1 \in 1 .. 3 * Len(dead) /\ (x + 1) - 1 = x
    BY <1>1, <1>4
  <2>. DEFINE mv == [chain |-> Columns[(((x + 1) - 1) % 3) + 1],
                     from |-> n - (((x + 1) - 1) \div 3), to |-> dead[(((x + 1) - 1) \div 3) + 1]]
  <2>4. Moves(n, dead)[x + 1] = mv
    <3>. HIDE DEF n
    <3>. QED  BY <2>3 DEF Moves
  <2>5. mv = [chain |-> C, from |-> n - k0, to |-> to]
    BY <2>3
  <2>. HIDE DEF C, k0, to, n, mv
  <2>. QED  BY <2>1, <2>2, <2>4, <2>5
<1>7. \A k \in 0 .. m : left[k] \in Seq(Row) /\ Len(left[k]) = n - k
  <2>. DEFINE rows == img.rows
  <2>1. rows \in Seq(Row) /\ m <= Len(rows)
    BY <1>1, FlatColumns
  <2>. HIDE DEF rows
  <2>2. \A k \in 0 .. m : /\ RowsLeft(rows, dead)[k] \in Seq(Row)
                          /\ Len(RowsLeft(rows, dead)[k]) = Len(rows) - k
    BY <1>1, <2>1, RowsLeftType
  <2>. QED  BY <2>2 DEF rows
<1>8. Removal(left, img.rows, dead, m)
  BY <1>1, RowsLeftRecursion
<1>. HIDE DEF left, n, r, k0, K, L
<1>9. to \in 1 .. n - k0 /\ k0 + 1 \in 1 .. m
  <2>1. k0 + 1 \in 1 .. m
    BY <1>1, <1>5
  <2>2. to \in 1 .. n
    BY <2>1 DEF n
  <2>3. \A k \in 1 .. m : dead[k] <= n + 1 - k
    <3>1. dead \in [1 .. m -> 1 .. n]
      BY DEF n
    <3>. QED  BY <1>1, <1>2, <3>1, Descending
  <2>4. to <= n + 1 - (k0 + 1)
    BY <2>1, <2>3
  <2>. QED  BY <1>1, <1>5, <2>1, <2>2, <2>4
<1>10. \A j \in 1 .. 3 : Columns[j] \in Chain /\ mt.len[Columns[j]] = n
  BY FlatColumns DEF n
<1>11. \A i \in 1 .. n - k0 : HasItem(d, at, C, i, InColumn(left[k0], r, i))
  BY <1>2, <1>5
<1>12. from = InColumn(left[k0], r, n - k0)
  <2>1. n - k0 \in 1 .. n - k0
    BY <1>1, <1>5, <1>9
  <2>2. HasItem(d, at, C, n - k0, InColumn(left[k0], r, n - k0))
    BY <1>11, <2>1
  <2>. HIDE DEF C
  <2>. QED  BY <1>6, <2>2 DEF HasItem, from
<1>13. b \in DOMAIN d /\ p \in DOMAIN d[b].data /\ d[b].chain = C
  <2>1. HasItem(d, at, C, to, InColumn(left[k0], r, to))
    BY <1>9, <1>11
  <2>. HIDE DEF C, to
  <2>. QED  BY <2>1 DEF HasItem
<1>14. e = [d EXCEPT ![b].data[p] = from]
  <2>. HIDE DEF C, to
  <2>. QED  BY <1>6 DEF e, from, Copied
<1>. HIDE DEF b, p
<1>15. /\ DOMAIN e = DOMAIN d
       /\ \A a \in DOMAIN d : a # b => e[a] = d[a]
       /\ DOMAIN e[b] = {"chain", "data"} /\ e[b].chain = d[b].chain
       /\ DOMAIN e[b].data = DOMAIN d[b].data
       /\ e[b].data[p] = from
       /\ \A q \in DOMAIN d[b].data : q # p => e[b].data[q] = d[b].data[q]
  BY <1>13, <1>14, PutItem
<1>16. \A a \in DOMAIN e : DOMAIN e[a] = {"chain", "data"}
  BY <1>15
<1>17. ASSUME NEW j \in 1 .. 3, NEW i \in 1 .. n - L(j)
       PROVE  HasItem(e, at, Columns[j], i, InColumn(left[L(j)], j, i))
  <2>1. CASE j # r
    <3>1. L(j) = K(j) /\ K(j) \in 0 .. m
      BY <1>5, <2>1
    <3>2. HasItem(d, at, Columns[j], i, InColumn(left[L(j)], j, i))
      BY <1>2, <3>1
    <3>3. BlockOf(at, Columns[j], i) # b
      <4>1. i \in 1 .. mt.len[Columns[j]] /\ to \in 1 .. mt.len[C]
        <5>1. mt.len[Columns[j]] = n /\ mt.len[C] = n
          BY <1>5, <1>10
        <5>2. i \in 1 .. n - K(j)
          BY <3>1
        <5>. HIDE DEF C, to
        <5>3. i \in 1 .. n
          BY <1>1, <3>1, <5>2
        <5>4. to \in 1 .. n
          BY <1>1, <1>5, <1>9
        <5>. QED  BY <5>1, <5>3, <5>4
      <4>2. Columns[j] # C
        BY <1>5, <2>1, FlatColumns
      <4>. HIDE DEF C, to
      <4>3. Columns[j] \in Chain /\ C \in Chain
        BY <1>5, <1>10 DEF C
      <4>. QED  BY <4>1, <4>2, <4>3, BlocksApart DEF b
    <3>. QED  BY <1>15, <3>2, <3>3, ItemKept DEF HasItem
  <2>2. CASE j = r
    <3>1. L(j) = k0 + 1 /\ Columns[j] = C
      BY <1>5, <2>2
    <3>2. i \in 1 .. n - k0 - 1 /\ i \in 1 .. n - k0
      BY <1>1, <1>5, <3>1
    <3>3. left[k0 + 1] = SwapRemove(left[k0], to)
      <4>1. (k0 + 1) - 1 = k0
        BY <1>5
      <4>. QED  BY <1>8, <1>9, <4>1 DEF Removal
    <3>4. Len(left[k0]) = n - k0
      BY <1>1, <1>5, <1>7
    <3>5. left[k0 + 1][i] = IF i = to THEN left[k0][n - k0] ELSE left[k0][i]
      <4>. HIDE DEF to
      <4>. QED  BY <3>2, <3>3, <3>4 DEF SwapRemove
    <3>. HIDE DEF to, C
    <3>6. HasItem(d, at, C, i, InColumn(left[k0], r, i))
      BY <1>11, <3>2
    <3>7. CASE i = to
      <4>1. InColumn(left[k0 + 1], j, i) = from
        BY <1>12, <2>2, <3>5, <3>7 DEF InColumn
      <4>2. BlockOf(at, C, i) = b /\ PlaceOf(C, i) = p
        BY <3>7 DEF b, p
      <4>. QED  BY <1>13, <1>15, <3>1, <4>1, <4>2 DEF HasItem
    <3>8. CASE i # to
      <4>1. InColumn(left[k0 + 1], j, i) = InColumn(left[k0], r, i)
        BY <2>2, <3>5, <3>8 DEF InColumn
      <4>2. ~ (BlockOf(at, C, i) = b /\ PlaceOf(C, i) = p)
        <5>1. C \in Chain
          BY <1>5, <1>10 DEF C
        <5>2. at[C].first \in Nat
          BY <5>1, MetaType
        <5>3. i \in Nat \ {0} /\ to \in Nat \ {0}
          <6>1. i \in 1 .. n - k0 /\ to \in 1 .. n - k0 /\ n - k0 \in Int
            BY <1>1, <1>5, <1>9, <3>2
          <6>. QED  BY <6>1
        <5>. QED  BY <3>8, <5>1, <5>2, <5>3, PlacesApart DEF b, p
      <4>3. HasItem(e, at, C, i, InColumn(left[k0], r, i))
        <5>. DEFINE v == InColumn(left[k0], r, i)
                    a == BlockOf(at, C, i)
                    q == PlaceOf(C, i)
        <5>. HIDE DEF v, a, q
        <5>1. /\ a \in DOMAIN d /\ d[a].chain = C
              /\ q \in DOMAIN d[a].data /\ d[a].data[q] = v
          BY <3>6 DEF HasItem, v, a, q
        <5>2. ~ (a = b /\ q = p)
          BY <4>2 DEF a, q
        <5>3. CASE a # b
          <6>1. e[a] = d[a]
            BY <1>15, <5>1, <5>3
          <6>. QED  BY <1>15, <5>1, <6>1 DEF HasItem, v, a, q
        <5>4. CASE a = b
          <6>1. q \in DOMAIN e[a].data /\ e[a].data[q] = v /\ e[a].chain = C
            BY <1>15, <5>1, <5>2, <5>4
          <6>. QED  BY <1>15, <5>1, <6>1 DEF HasItem, v, a, q
        <5>. QED  BY <5>3, <5>4
      <4>. QED  BY <3>1, <4>1, <4>3
    <3>. QED  BY <3>7, <3>8
  <2>. QED  BY <2>1, <2>2
<1>18. Tail(copies) = [y \in 1 .. 3 * m - (x + 1) |-> Moves(n, dead)[(x + 1) + y]]
  <2>. DEFINE mv == Moves(n, dead)
  <2>. HIDE DEF mv
  <2>1. Len(copies) = 3 * m - x
    BY <1>1, <1>3 DEF x
  <2>2. Tail(copies) = [y \in 1 .. Len(copies) - 1 |-> copies[y + 1]]
    <3>1. /\ Tail(copies) \in Seq(S) /\ Len(Tail(copies)) = Len(copies) - 1
          /\ \A y \in 1 .. Len(Tail(copies)) : Tail(copies)[y] = copies[y + 1]
      BY <1>0, HeadTailProperties
    <3>. DEFINE tail == Tail(copies)
    <3>2. tail = [y \in 1 .. Len(tail) |-> tail[y]]
      <4>1. \A t \in Seq(S) : t = [y \in 1 .. Len(t) |-> t[y]]
        OBVIOUS
      <4>. QED  BY <3>1, <4>1, Zenon
    <3>. HIDE DEF tail
    <3>. QED  BY <3>1, <3>2 DEF tail
  <2>3. \A y \in 1 .. Len(copies) - 1 : copies[y + 1] = mv[x + (y + 1)]
    <3>1. copies = [y \in 1 .. 3 * m - x |-> mv[x + y]]
      BY <1>2 DEF mv
    <3>2. TAKE y \in 1 .. Len(copies) - 1
    <3>3. y + 1 \in 1 .. 3 * m - x
      BY <1>3, <2>1
    <3>. QED  BY <3>1, <3>3
  <2>4. \A y \in 1 .. Len(copies) - 1 : x + (y + 1) = (x + 1) + y
    BY <1>3, <1>4
  <2>5. Len(copies) - 1 = 3 * m - (x + 1)
    BY <1>1, <1>4, <2>1
  <2>6. \A y \in 1 .. Len(copies) - 1 : copies[y + 1] = mv[(x + 1) + y]
    BY <2>3, <2>4
  <2>. QED  BY <2>2, <2>5, <2>6 DEF mv
<1>19. 3 * m - Len(Tail(copies)) = x + 1 /\ Len(Tail(copies)) <= 3 * m
  <2>1. Len(Tail(copies)) = Len(copies) - 1
    BY <1>3
  <2>. QED  BY <1>1, <1>2, <1>3, <2>1 DEF x
<1>20. CopiesSound(Tail(copies), e, at, img.rows, dead)
  BY <1>1, <1>2, <1>17, <1>18, <1>19 DEF CopiesSound, n, left, L
<1>. QED  BY <1>15, <1>16, <1>20 DEF e, s, at, OneCopied

\* When all copies are done the file holds the rows that are left.
LEMMA CopiesEnd ==
  ASSUME NEW mt, NEW img, ImageSound(img), MetaSound(mt, img), kind = "flat",
         NEW mn, NEW new, ImageSound(new), MetaSound(mn, new),
         \A c \in Chain : mn.at[c].first = mt.at[c].first,
         NEW d, NEW m \in 0 .. Len(img.rows), NEW dead \in [1 .. m -> 1 .. Len(img.rows)],
         new.rows = RowsLeft(img.rows, dead)[m],
         CopiesSound(<<>>, d, mt.at, img.rows, dead)
  PROVE  WritesSound(<<>>, d, mn, new)
<1>. DEFINE n == Len(img.rows)
            left == RowsLeft(img.rows, dead)
            x == 3 * m
<1>1. n \in Nat /\ m \in Nat /\ Len(dead) = m /\ DOMAIN dead = 1 .. m
  BY FlatColumns
<1>2. \A j \in 1 .. 3 : \A i \in 1 .. n - ((x + 3 - j) \div 3) :
        HasItem(d, mt.at, Columns[j], i, InColumn(left[(x + 3 - j) \div 3], j, i))
  <2>1. 3 * m - Len(<<>>) = x
    BY <1>1
  <2>. QED  BY <1>1, <2>1 DEF CopiesSound
<1>3. \A j \in 1 .. 3 : (x + 3 - j) \div 3 = m
  <2>1. TAKE j \in 1 .. 3
  <2>2. x + 3 - j \in Nat /\ 3 * m <= x + 3 - j /\ x + 3 - j < 3 * m + 3
    BY <1>1
  <2>. HIDE DEF x
  <2>3. \A y \in Nat : 3 * m <= y /\ y < 3 * m + 3 => y \div 3 = m
    BY <1>1
  <2>. QED  BY <2>2, <2>3
<1>4. Len(new.rows) = n - m
  <2>. DEFINE rows == img.rows
  <2>1. rows \in Seq(Row) /\ m <= Len(rows)
    BY <1>1, FlatColumns
  <2>. HIDE DEF rows
  <2>2. Len(RowsLeft(rows, dead)[m]) = Len(rows) - m
    BY <1>1, <2>1, RowsLeftType
  <2>. QED  BY <2>2 DEF rows
<1>. HIDE DEF n, x, left
<1>5. ASSUME NEW c \in Chain, NEW i \in 1 .. mn.len[c]
      PROVE  HasItem(d, mn.at, c, i, Content(new)[c][i])
  <2>1. mn.len[c] \in Nat /\ mn.len[c] > 0
    BY MetaType
  <2>2. PICK j \in 1 .. 3 : c = Columns[j]
    BY <2>1, FlatColumns
  <2>3. mn.len[c] = Len(new.rows)
    BY <2>2, FlatColumns
  <2>4. Content(new)[c][i] = InColumn(new.rows, j, i)
    BY <2>2, <2>3, FlatColumns
  <2>5. HasItem(d, mt.at, c, i, InColumn(left[m], j, i))
    <3>1. i \in 1 .. n - m
      BY <1>4, <2>3
    <3>. QED  BY <1>2, <1>3, <2>2, <3>1
  <2>6. InColumn(left[m], j, i) = Content(new)[c][i]
    BY <2>4 DEF left
  <2>7. BlockOf(mn.at, c, i) = BlockOf(mt.at, c, i)
    BY DEF BlockOf
  <2>. QED  BY <2>5, <2>6, <2>7 DEF HasItem
<1>. QED  BY <1>5 DEF WritesSound

\* Before the first copy the columns are those of the image.
LEMMA CopiesBegin ==
  ASSUME NEW mt, NEW img, ImageSound(img), MetaSound(mt, img), kind = "flat",
         NEW d, Reads(d, mt, img), NEW m \in 1 .. Len(img.rows),
         NEW dead \in [1 .. m -> 1 .. Len(img.rows)],
         \A j, k \in 1 .. m : j < k => dead[j] > dead[k]
  PROVE  LET copies == Moves(Len(img.rows), dead)
         IN  /\ CopiesSound(copies, d, mt.at, img.rows, dead)
             /\ copies \in Seq(Range(copies)) /\ copies # <<>>
<1>. DEFINE n == Len(img.rows)
            left == RowsLeft(img.rows, dead)
            mvs == Moves(n, dead)
<1>1. n \in Nat /\ m \in Nat /\ m > 0 /\ Len(dead) = m /\ DOMAIN dead = 1 .. m
  BY FlatColumns
<1>2. left[0] = img.rows
  BY <1>1, RowsLeftRecursion DEF Removal
<1>3. DOMAIN mvs = 1 .. 3 * m /\ mvs = [y \in 1 .. 3 * m |-> mvs[y]]
  BY <1>1 DEF Moves
<1>. HIDE DEF n, left, mvs
<1>4. mvs \in Seq(Range(mvs)) /\ Len(mvs) = 3 * m
  <2>. DEFINE R == Range(mvs)
              F == [y \in 1 .. 3 * m |-> mvs[y]]
  <2>1. \A y \in 1 .. 3 * m : mvs[y] \in R
    BY <1>3 DEF Range
  <2>. HIDE DEF R
  <2>2. 3 * m \in Nat
    BY <1>1
  <2>3. F \in Seq(R) /\ Len(F) = 3 * m
    BY <2>1, <2>2
  <2>. HIDE DEF F
  <2>4. mvs = F
    BY <1>3 DEF F
  <2>. QED  BY <2>3, <2>4 DEF R
<1>5. mvs # <<>>
  <2>1. Len(mvs) > 0
    BY <1>1, <1>4
  <2>. QED  BY <2>1, EmptySeq
<1>6. 3 * m - Len(mvs) = 0 /\ Len(mvs) <= 3 * m
  BY <1>1, <1>4
<1>7. mvs = [y \in 1 .. 3 * m - 0 |-> mvs[0 + y]]
  <2>1. 3 * m - 0 = 3 * m /\ \A y \in 1 .. 3 * m : 0 + y = y
    BY <1>1
  <2>. QED  BY <1>3, <2>1
<1>8. \A j \in 1 .. 3 : (0 + 3 - j) \div 3 = 0
  OBVIOUS
<1>9. ASSUME NEW j \in 1 .. 3, NEW i \in 1 .. n - 0
      PROVE  HasItem(d, mt.at, Columns[j], i, InColumn(left[0], j, i))
  <2>1. i \in 1 .. n
    BY <1>1
  <2>2. /\ Columns[j] \in Chain /\ mt.len[Columns[j]] = n
        /\ Content(img)[Columns[j]][i] = InColumn(img.rows, j, i)
    BY <2>1, FlatColumns DEF n
  <2>3. HasItem(d, mt.at, Columns[j], i, Content(img)[Columns[j]][i])
    BY <2>1, <2>2 DEF Reads
  <2>. QED  BY <1>2, <2>2, <2>3
<1>10. CopiesSound(mvs, d, mt.at, img.rows, dead)
  <2>1. \A j \in 1 .. 3 : LET k == (0 + 3 - j) \div 3
                          IN  \A i \in 1 .. n - k :
                                HasItem(d, mt.at, Columns[j], i, InColumn(left[k], j, i))
    BY <1>8, <1>9
  <2>. QED  BY <1>1, <1>6, <1>7, <2>1 DEF CopiesSound, n, left, mvs
<1>. QED  BY <1>4, <1>5, <1>10 DEF mvs, n

-----------------------------------------------------------------------------
(* The meta pages of a VACUUM.                                             *)

\* With other tombstones the image is one of as many rows, and only the
\* tombstone chain changes, which is put behind the others or stays there.
LEMMA ResetMetaSound ==
  ASSUME NEW mt, NEW img, ImageSound(img), MetaSound(mt, img), kind \in Kinds, kind # "flat",
         NEW bits \in Seq(BOOLEAN), Len(bits) = Len(img.rows)
  PROVE  LET new == [img EXCEPT !.tomb = bits]
             at  == ResetTombstones(mt.at, PagesNeeded(Len(img.rows), PerPage["tomb"]))
             m   == MetaFor(new, at)
         IN  /\ ImageSound(new) /\ MetaSound(m, new)
             /\ m.len["tomb"] = Len(img.rows)
             /\ at["tomb"].count = PagesNeeded(Len(img.rows), PerPage["tomb"])
             /\ \A c \in Chain \ {"tomb"} : /\ at[c] = mt.at[c] /\ m.len[c] = mt.len[c]
                                            /\ Content(new)[c] = Content(img)[c]
<1>. DEFINE new == [img EXCEPT !.tomb = bits]
            n   == Len(img.rows)
            q   == PagesNeeded(n, PerPage["tomb"])
            old == mt.at
            at  == ResetTombstones(old, q)
            m   == MetaFor(new, at)
<1>1. /\ img \in Image /\ img.rows \in Seq(Row) /\ img.tomb \in Seq(BOOLEAN) /\ img.cells \in Nat
      /\ n \in Nat /\ img.cells <= n
  BY DEF ImageSound, Image
<1>2. /\ new \in Image /\ new.rows = img.rows /\ new.tomb = bits /\ new.cells = img.cells
  BY <1>1 DEF Image
<1>. HIDE DEF new
<1>3. ImageSound(new)
  BY <1>1, <1>2 DEF ImageSound
<1>4. \A c \in Chain \ {"tomb"} : Content(new)[c] = Content(img)[c]
  <2>. DEFINE vecs == [i \in 1 .. n |-> img.rows[i].vec]
              ids == [i \in 1 .. n |-> img.rows[i].id]
              scales == Only(~ OneBit, vecs)
              mean == Only(OneBit /\ n > 0, <<0>>)
              coarse == Only(img.cells > 0, <<img.cells>>)
              graph == Only(kind = "graph", [i \in 1 .. n |-> n])
  <2>1. /\ Content(img)["codes"] = vecs /\ Content(img)["scales"] = scales
        /\ Content(img)["ids"] = ids /\ Content(img)["rotation"] = <<>>
        /\ Content(img)["mean"] = mean /\ Content(img)["coarse"] = coarse
        /\ Content(img)["dir"] = coarse /\ Content(img)["graph"] = graph
    BY ContentFields
  <2>2. /\ Content(new)["codes"] = vecs /\ Content(new)["scales"] = scales
        /\ Content(new)["ids"] = ids /\ Content(new)["rotation"] = <<>>
        /\ Content(new)["mean"] = mean /\ Content(new)["coarse"] = coarse
        /\ Content(new)["dir"] = coarse /\ Content(new)["graph"] = graph
    <3>. DEFINE k == Len(new.rows)
                nvecs == [i \in 1 .. k |-> new.rows[i].vec]
                nids == [i \in 1 .. k |-> new.rows[i].id]
                ncoarse == Only(new.cells > 0, <<new.cells>>)
    <3>1. /\ Content(new)["codes"] = nvecs /\ Content(new)["scales"] = Only(~ OneBit, nvecs)
          /\ Content(new)["ids"] = nids /\ Content(new)["rotation"] = <<>>
          /\ Content(new)["mean"] = Only(OneBit /\ k > 0, <<0>>)
          /\ Content(new)["coarse"] = ncoarse /\ Content(new)["dir"] = ncoarse
          /\ Content(new)["graph"] = Only(kind = "graph", [i \in 1 .. k |-> k])
      BY ContentFields
    <3>2. k = n
      BY <1>2
    <3>3. nvecs = vecs /\ nids = ids /\ ncoarse = coarse
      BY <1>2
    <3>. HIDE DEF k, nvecs, nids, ncoarse, n, vecs, ids, coarse
    <3>. QED  BY <3>1, <3>2, <3>3
  <2>. HIDE DEF vecs, ids, scales, mean, coarse, graph
  <2>. QED  BY <2>1, <2>2 DEF Chain
<1>5. Content(new)["tomb"] = bits
  BY <1>2, ContentFields
<1>6. /\ m.at = at /\ \A c \in Chain : m.len[c] = Len(Content(new)[c])
  BY DEF MetaFor
<1>7. m.len["tomb"] = n /\ \A c \in Chain \ {"tomb"} : m.len[c] = mt.len[c]
  <2>1. \A c \in Chain : mt.len[c] = Len(Content(img)[c])
    BY MetaType
  <2>. HIDE DEF m
  <2>2. Len(Content(new)["tomb"]) = n /\ "tomb" \in Chain
    BY <1>2, <1>5 DEF Chain
  <2>3. m.len["tomb"] = n
    BY <1>6, <2>2
  <2>4. ASSUME NEW c \in Chain \ {"tomb"} PROVE m.len[c] = mt.len[c]
    BY <1>4, <1>6, <2>1
  <2>. QED  BY <2>3, <2>4
<1>8. old \in Layout /\ \A c \in Chain : old[c].first \in Nat /\ old[c].count \in Nat
  BY DEF MetaSound, Layout
<1>9. q \in Nat /\ n <= PerPage["tomb"] * q /\ PerPage["tomb"] \in Nat \ {0}
  <2>1. PerPage["tomb"] \in Nat \ {0}
    BY PerPageAssumption DEF Chain
  <2>. DEFINE p == PerPage["tomb"]
  <2>3. p \in Nat /\ p > 0
    BY <2>1
  <2>. HIDE DEF p, n
  <2>2. PagesNeeded(n, p) \in Nat /\ n <= p * PagesNeeded(n, p)
    BY <1>1, <2>3, PagesNeededBounds
  <2>. QED  BY <2>1, <2>2 DEF p
<1>10. TombLast(old) /\ AfterAll(old) \in Nat \ {0}
  BY <1>8, SumsType DEF MetaSound
<1>. DEFINE f == IF old["tomb"].first # 0 THEN old["tomb"].first ELSE AfterAll(old)
            cell == [first |-> f, count |-> q]
<1>11. f = AfterAll(old) /\ f \in Nat \ {0}
  BY <1>10 DEF TombLast
<1>. HIDE DEF f, q
<1>12. at = [old EXCEPT !["tomb"] = cell] /\ cell.first = f /\ cell.count = q
  BY DEF ResetTombstones, f
<1>13. cell \in [first : Nat, count : Nat]
  BY <1>9, <1>11
<1>. HIDE DEF cell
<1>14. at["tomb"] = cell /\ \A c \in Chain \ {"tomb"} : at[c] = old[c]
  <2>. HIDE DEF at
  <2>. QED  BY <1>8, <1>12 DEF Layout, Chain
<1>15. at \in Layout
  <2>1. at = [old EXCEPT !["tomb"] = cell]
    BY <1>12
  <2>. HIDE DEF at
  <2>. QED  BY <1>8, <1>13, <2>1 DEF Layout
<1>. HIDE DEF at, m
<1>16. AfterAll(at) = f
  <2>1. \A c \in Chain \ {"tomb"} : at[c].count = old[c].count
    BY <1>14
  <2>. QED  BY <1>11, <2>1 DEF AfterAll, Chain
<1>17. \A c \in Chain \ {"tomb"} : at[c].count > 0 => at[c].first + at[c].count <= f
  BY <1>10, <1>11, <1>14 DEF TombLast
<1>18. TombLast(at)
  BY <1>12, <1>14, <1>16, <1>17 DEF TombLast
<1>19. ChainsDisjoint(at)
  <2>1. SUFFICES ASSUME NEW c \in Chain, NEW d \in Chain, c # d,
                        at[c].count > 0, at[d].count > 0
                 PROVE  \/ at[c].first + at[c].count <= at[d].first
                        \/ at[d].first + at[d].count <= at[c].first
    BY DEF ChainsDisjoint
  <2>2. CASE c = "tomb"
    BY <1>12, <1>14, <1>17, <2>1, <2>2
  <2>3. CASE d = "tomb"
    BY <1>12, <1>14, <1>17, <2>1, <2>3
  <2>4. CASE c # "tomb" /\ d # "tomb"
    <3>1. ChainsDisjoint(old)
      BY DEF MetaSound
    <3>. QED  BY <1>14, <2>1, <2>4, <3>1 DEF ChainsDisjoint
  <2>. QED  BY <2>2, <2>3, <2>4
<1>20. \A c \in Chain : m.len[c] > 0 =>
         m.at[c].first > 0 /\ PagesNeeded(m.len[c], PerPage[c]) <= m.at[c].count
  <2>1. TAKE c \in Chain
  <2>2. CASE c = "tomb"
    BY <1>6, <1>7, <1>9, <1>11, <1>12, <1>14, <2>2 DEF q
  <2>3. CASE c # "tomb"
    <3>1. mt.len[c] > 0 =>
            mt.at[c].first > 0 /\ PagesNeeded(mt.len[c], PerPage[c]) <= mt.at[c].count
      BY DEF MetaSound
    <3>. QED  BY <1>6, <1>7, <1>14, <2>3, <3>1
  <2>. QED  BY <2>2, <2>3
<1>21. m = MetaFor(new, m.at)
  BY <1>6 DEF m
<1>22. MetaSound(m, new)
  BY <1>6, <1>15, <1>18, <1>19, <1>20, <1>21 DEF MetaSound
<1>. QED  BY <1>3, <1>4, <1>7, <1>12, <1>14, <1>22 DEF new, at, m, q, n

\* A shrunk flat index lies where it lay, and ends where its ids end.
LEMMA ShrinkMetaSound ==
  ASSUME NEW mt, NEW img, ImageSound(img), MetaSound(mt, img), kind = "flat",
         NEW new, ImageSound(new), Len(new.rows) <= Len(img.rows)
  PROVE  LET n  == Len(new.rows)
             at == ShrinkInPlace(mt.at, n, PerPage)
             m  == MetaFor(new, at)
         IN  /\ MetaSound(m, new)
             /\ \A c \in Chain : at[c].first = mt.at[c].first
             /\ \A b \in Nat : FitsIn(mt, b) => FitsIn(m, b)
             /\ FitsIn(m, IdsEnd(mt.at, n, PerPage))
             /\ IdsEnd(mt.at, n, PerPage) \in Nat
             /\ at["ids"].first <= IdsEnd(mt.at, n, PerPage)
<1>. DEFINE n   == Len(new.rows)
            big == Len(img.rows)
            old == mt.at
            at  == ShrinkInPlace(old, n, PerPage)
            m   == MetaFor(new, at)
            end == IdsEnd(old, n, PerPage)
            Three == {"codes", "scales", "ids"}
<1>1. n \in Nat /\ big \in Nat /\ n <= big /\ new \in Image /\ img \in Image
  BY Lengths DEF ImageSound
<1>2. old \in Layout /\ \A c \in Chain : old[c].first \in Nat /\ old[c].count \in Nat
  BY DEF MetaSound, Layout
<1>3. \A c \in Chain : PerPage[c] \in Nat \ {0}
  BY PerPageAssumption
<1>. HIDE DEF n, big
<1>4. \A c \in Chain : /\ PagesNeeded(n, PerPage[c]) \in Nat /\ PaddedPages(n, PerPage[c]) \in Nat
                       /\ PagesNeeded(n, PerPage[c]) <= PaddedPages(n, PerPage[c])
                       /\ PaddedPages(n, PerPage[c]) <= PaddedPages(big, PerPage[c])
                       /\ PagesNeeded(n, PerPage[c]) <= PagesNeeded(big, PerPage[c])
                       /\ PagesNeeded(big, PerPage[c]) \in Nat
                       /\ PaddedPages(big, PerPage[c]) \in Nat
  <2>1. TAKE c \in Chain
  <2>. DEFINE p == PerPage[c]
  <2>2. p \in Nat
    BY <1>3
  <2>. HIDE DEF p
  <2>3. /\ PagesNeeded(n, p) \in Nat /\ PaddedPages(n, p) \in Nat
        /\ PagesNeeded(n, p) <= PaddedPages(n, p)
    BY <1>1, <2>2, PagesNeededBounds, PaddedPagesBounds
  <2>4. PagesNeeded(big, p) \in Nat /\ PaddedPages(big, p) \in Nat
    BY <1>1, <2>2, PagesNeededBounds, PaddedPagesBounds
  <2>5. PaddedPages(n, p) <= PaddedPages(big, p) /\ PagesNeeded(n, p) <= PagesNeeded(big, p)
    BY <1>1, <2>2, PaddedPagesMonotone, PagesNeededMonotone
  <2>. QED  BY <2>3, <2>4, <2>5 DEF p
<1>5. FlatPlan(old, big) /\ ChainsDisjoint(old)
  BY DEF MetaSound, big
<1>. DEFINE pc == PaddedPages(n, PerPage["codes"])
            ps == PaddedPages(n, PerPage["scales"])
            pi == PaddedPages(n, PerPage["ids"])
<1>6. pc \in Nat /\ ps \in Nat /\ pi \in Nat
  BY <1>4 DEF Chain
<1>7. at = [old EXCEPT !["codes"].count = pc, !["scales"].count = ps, !["ids"].count = pi]
  BY DEF ShrinkInPlace
<1>8. end = old["ids"].first + pi
  BY DEF IdsEnd
<1>. HIDE DEF pc, ps, pi, at, end
<1>9. /\ DOMAIN at = Chain
      /\ at["codes"] = [old["codes"] EXCEPT !.count = pc]
      /\ at["scales"] = [old["scales"] EXCEPT !.count = ps]
      /\ at["ids"] = [old["ids"] EXCEPT !.count = pi]
      /\ \A c \in Chain \ Three : at[c] = old[c]
  BY <1>2, <1>7 DEF Layout, Chain
<1>10. \A c \in Chain : old[c] \in [first : Nat, count : Nat]
  BY <1>2 DEF Layout
<1>11. /\ at["codes"] \in [first : Nat, count : Nat] /\ at["codes"].count = pc
       /\ at["codes"].first = old["codes"].first
       /\ at["scales"] \in [first : Nat, count : Nat] /\ at["scales"].count = ps
       /\ at["scales"].first = old["scales"].first
       /\ at["ids"] \in [first : Nat, count : Nat] /\ at["ids"].count = pi
       /\ at["ids"].first = old["ids"].first
  BY <1>6, <1>9, <1>10 DEF Chain
<1>12. at \in Layout
  <2>1. at = [c \in Chain |-> at[c]]
    <3>1. at = [c \in DOMAIN at |-> at[c]]
      BY <1>7 
    <3>. QED  BY <1>9, <3>1
  <2>2. \A c \in Chain : at[c] \in [first : Nat, count : Nat]
    <3>1. SUFFICES ASSUME NEW c \in Chain PROVE at[c] \in [first : Nat, count : Nat]
      OBVIOUS
    <3>2. CASE c \in Three
      BY <1>11, <3>2
    <3>3. CASE c \notin Three
      BY <1>9, <1>10, <3>3
    <3>. QED  BY <3>2, <3>3
  <2>. QED  BY <2>1, <2>2 DEF Layout
<1>13. \A c \in Chain : at[c].first = old[c].first
  BY <1>9, <1>11 DEF Chain
<1>14. \A c \in Chain : at[c].count = IF c \in Three THEN PaddedPages(n, PerPage[c]) ELSE 0
  BY <1>5, <1>9, <1>11 DEF Chain, FlatPlan, pc, ps, pi
<1>15. \A c \in Chain : at[c].count \in Nat /\ at[c].count <= old[c].count
  BY <1>4, <1>5, <1>14 DEF FlatPlan
<1>16. FlatPlan(at, n)
  <2>1. n > 0 => /\ at["codes"].first + at["codes"].count <= at["scales"].first
                 /\ at["scales"].first + at["scales"].count <= at["ids"].first
    <3>1. HAVE n > 0
    <3>2. big > 0
      BY <1>1, <3>1
    <3>3. /\ old["codes"].first + old["codes"].count <= old["scales"].first
          /\ old["scales"].first + old["scales"].count <= old["ids"].first
      BY <1>5, <3>2 DEF FlatPlan
    <3>4. \A c \in Three : /\ at[c].count \in Nat /\ at[c].count <= old[c].count
                           /\ at[c].first = old[c].first
                           /\ old[c].first \in Nat /\ old[c].count \in Nat
      BY <1>2, <1>13, <1>15 DEF Chain
    <3>5. /\ at["codes"].count \in Nat /\ at["codes"].count <= old["codes"].count
          /\ at["codes"].first = old["codes"].first
          /\ old["codes"].first \in Nat /\ old["codes"].count \in Nat
      BY <3>4
    <3>6. /\ at["scales"].count \in Nat /\ at["scales"].count <= old["scales"].count
          /\ at["scales"].first = old["scales"].first
          /\ old["scales"].first \in Nat /\ old["scales"].count \in Nat
      BY <3>4
    <3>7. at["ids"].first = old["ids"].first /\ old["ids"].first \in Nat
      BY <3>4
    <3>8. at["codes"].first + at["codes"].count <= at["scales"].first
      BY <3>3, <3>5, <3>6
    <3>9. at["scales"].first + at["scales"].count <= at["ids"].first
      BY <3>3, <3>6, <3>7
    <3>. QED  BY <3>8, <3>9
  <2>. QED  BY <1>14, <2>1 DEF FlatPlan
<1>17. ChainsDisjoint(at)
  <2>1. SUFFICES ASSUME NEW c \in Chain, NEW d \in Chain, c # d,
                        at[c].count > 0, at[d].count > 0
                 PROVE  \/ at[c].first + at[c].count <= at[d].first
                        \/ at[d].first + at[d].count <= at[c].first
    BY DEF ChainsDisjoint
  <2>2. /\ at[c].count \in Nat /\ at[c].count <= old[c].count /\ at[c].first = old[c].first
        /\ at[d].count \in Nat /\ at[d].count <= old[d].count /\ at[d].first = old[d].first
        /\ old[c].first \in Nat /\ old[c].count \in Nat
        /\ old[d].first \in Nat /\ old[d].count \in Nat
    BY <1>2, <1>13, <1>15
  <2>3. \/ old[c].first + old[c].count <= old[d].first
        \/ old[d].first + old[d].count <= old[c].first
    BY <1>5, <2>1, <2>2 DEF ChainsDisjoint
  <2>. DEFINE fc == old[c].first
              cc == old[c].count
              nc == at[c].count
              fd == old[d].first
              cd == old[d].count
              nd == at[d].count
  <2>4. /\ fc \in Nat /\ cc \in Nat /\ nc \in Nat /\ nc <= cc
        /\ fd \in Nat /\ cd \in Nat /\ nd \in Nat /\ nd <= cd
        /\ fc + cc <= fd \/ fd + cd <= fc
        /\ at[c].first = fc /\ at[d].first = fd /\ at[c].count = nc /\ at[d].count = nd
    BY <2>2, <2>3
  <2>. HIDE DEF fc, cc, nc, fd, cd, nd
  <2>5. fc + nc <= fd \/ fd + nd <= fc
    BY <2>4
  <2>. QED  BY <2>4, <2>5
<1>18. m.at = at /\ m = MetaFor(new, m.at)
  BY DEF MetaFor
<1>19. \A c \in Chain : m.len[c] = IF c \in Three THEN n ELSE 0
  <2>. DEFINE l == MetaFor(new, LayoutOf(new)).len
  <2>1. \A c \in Chain : m.len[c] = l[c]
    BY DEF MetaFor
  <2>2. /\ l["codes"] = n /\ l["ids"] = n /\ l["scales"] = IF OneBit THEN 0 ELSE n
        /\ l["rotation"] = 0
        /\ ~ OneBit => l["mean"] = 0
        /\ new.cells = 0 => l["coarse"] = 0 /\ l["dir"] = 0
        /\ kind # "graph" => l["graph"] = 0
        /\ l["tomb"] = Len(new.tomb)
    BY <1>1, Lengths DEF n
  <2>3. ~ OneBit /\ new.cells = 0 /\ new.tomb = <<>> /\ kind # "graph"
    BY DEF OneBit, ImageSound
  <2>4. Len(new.tomb) = 0
    BY <2>3
  <2>. HIDE DEF l, m
  <2>5. /\ l["codes"] = n /\ l["ids"] = n /\ l["scales"] = n
        /\ l["rotation"] = 0 /\ l["mean"] = 0 /\ l["coarse"] = 0 /\ l["dir"] = 0
        /\ l["graph"] = 0 /\ l["tomb"] = 0
    BY <2>2, <2>3, <2>4
  <2>. QED  BY <2>1, <2>5 DEF Chain
<1>. HIDE DEF m
<1>20. \A c \in Chain : mt.len[c] = IF c \in Three THEN big ELSE 0
  <2>1. \A j \in 1 .. 3 : mt.len[Columns[j]] = big
    BY FlatColumns DEF big
  <2>2. Columns[1] = "codes" /\ Columns[2] = "scales" /\ Columns[3] = "ids"
    BY DEF Columns
  <2>3. \A c \in Three : mt.len[c] = big
    <3>1. mt.len[Columns[1]] = big /\ mt.len[Columns[2]] = big /\ mt.len[Columns[3]] = big
      BY <2>1
    <3>. QED  BY <2>2, <3>1
  <2>4. ASSUME NEW c \in Chain \ Three PROVE mt.len[c] = 0
    <3>1. mt.len[c] \in Nat
      BY MetaType
    <3>2. ~ (mt.len[c] > 0)
      <4>1. ASSUME mt.len[c] > 0 PROVE FALSE
        <5>1. PICK j \in 1 .. 3 : c = Columns[j]
          BY <4>1, FlatColumns
        <5>2. j = 1 \/ j = 2 \/ j = 3
          OBVIOUS
        <5>. QED  BY <2>2, <2>4, <5>1, <5>2
      <4>. QED  BY <4>1
    <3>. QED  BY <3>1, <3>2
  <2>. QED  BY <2>3, <2>4
<1>21. \A c \in Chain : m.len[c] > 0 =>
         /\ c \in Three /\ m.len[c] = n /\ n > 0
         /\ m.at[c].first = old[c].first /\ m.at[c].count = PaddedPages(n, PerPage[c])
  BY <1>1, <1>13, <1>14, <1>18, <1>19
<1>22. \A c \in Chain : m.len[c] > 0 =>
         m.at[c].first > 0 /\ PagesNeeded(m.len[c], PerPage[c]) <= m.at[c].count
  <2>1. TAKE c \in Chain
  <2>2. HAVE m.len[c] > 0
  <2>3. /\ c \in Three /\ m.len[c] = n /\ n > 0
        /\ m.at[c].first = old[c].first /\ m.at[c].count = PaddedPages(n, PerPage[c])
    BY <1>21, <2>2
  <2>4. mt.len[c] > 0
    BY <1>1, <1>20, <2>3
  <2>5. old[c].first > 0
    BY <2>4 DEF MetaSound
  <2>. QED  BY <1>4, <2>3, <2>5
<1>23. MetaSound(m, new)
  BY <1>12, <1>16, <1>17, <1>18, <1>22 DEF MetaSound, n
<1>24. ASSUME NEW b \in Nat, FitsIn(mt, b) PROVE FitsIn(m, b)
  <2>1. SUFFICES ASSUME NEW c \in Chain, m.len[c] > 0
                 PROVE  m.at[c].first + PagesNeeded(m.len[c], PerPage[c]) <= b
    BY DEF FitsIn
  <2>2. c \in Three /\ m.len[c] = n /\ n > 0 /\ m.at[c].first = old[c].first
    BY <1>21, <2>1
  <2>3. mt.len[c] = big /\ big > 0
    BY <1>1, <1>20, <2>2
  <2>4. old[c].first + PagesNeeded(big, PerPage[c]) <= b
    BY <1>24, <2>3 DEF FitsIn
  <2>5. /\ PagesNeeded(n, PerPage[c]) <= PagesNeeded(big, PerPage[c])
        /\ PagesNeeded(n, PerPage[c]) \in Nat /\ PagesNeeded(big, PerPage[c]) \in Nat
        /\ old[c].first \in Nat
    BY <1>2, <1>4
  <2>6. m.at[c].first + PagesNeeded(m.len[c], PerPage[c]) = old[c].first + PagesNeeded(n, PerPage[c])
    BY <2>2
  <2>. QED  BY <2>4, <2>5, <2>6
<1>25. end \in Nat /\ at["ids"].first <= end
  <2>. DEFINE f == old["ids"].first
  <2>1. f \in Nat /\ at["ids"].first = f /\ end = f + pi
    BY <1>2, <1>8, <1>11 DEF Chain
  <2>. HIDE DEF f
  <2>. QED  BY <1>6, <2>1
<1>26. FitsIn(m, end)
  <2>1. SUFFICES ASSUME NEW c \in Chain, m.len[c] > 0
                 PROVE  m.at[c].first + PagesNeeded(m.len[c], PerPage[c]) <= end
    BY DEF FitsIn
  <2>2. c \in Three /\ m.len[c] = n /\ n > 0 /\ m.at[c].first = at[c].first
    BY <1>18, <1>21, <2>1
  <2>3. /\ at["codes"].first + at["codes"].count <= at["scales"].first
        /\ at["scales"].first + at["scales"].count <= at["ids"].first
    BY <1>16, <2>2 DEF FlatPlan
  <2>4. at["ids"].first + at["ids"].count = end
    BY <1>8, <1>11
  <2>5. \A x \in Three : at[x].first \in Nat /\ at[x].count \in Nat
    BY <1>12 DEF Layout, Chain
  <2>. DEFINE fc == at["codes"].first
              cc == at["codes"].count
              fs == at["scales"].first
              cs == at["scales"].count
              fi == at["ids"].first
              ci == at["ids"].count
  <2>9. /\ fc \in Nat /\ cc \in Nat /\ fs \in Nat /\ cs \in Nat /\ fi \in Nat /\ ci \in Nat
    BY <2>5
  <2>10. fc + cc <= fs /\ fs + cs <= fi /\ fi + ci = end
    BY <2>3, <2>4
  <2>6. at[c].first + at[c].count <= end
    <3>1. fc + cc <= end /\ fs + cs <= end /\ fi + ci <= end
      <4>. HIDE DEF fc, cc, fs, cs, fi, ci
      <4>. QED  BY <1>25, <2>9, <2>10
    <3>2. CASE c = "codes"
      BY <3>1, <3>2
    <3>3. CASE c = "scales"
      BY <3>1, <3>3
    <3>4. CASE c = "ids"
      BY <3>1, <3>4
    <3>. QED  BY <2>2, <3>2, <3>3, <3>4
  <2>7. /\ PagesNeeded(n, PerPage[c]) <= at[c].count /\ PagesNeeded(n, PerPage[c]) \in Nat
        /\ at[c].first \in Nat /\ at[c].count \in Nat
    BY <1>4, <1>14, <2>2, <2>5
  <2>8. m.at[c].first + PagesNeeded(m.len[c], PerPage[c]) = at[c].first + PagesNeeded(n, PerPage[c])
    BY <2>2
  <2>. QED  BY <1>25, <2>6, <2>7, <2>8
<1>. QED  BY <1>13, <1>23, <1>24, <1>25, <1>26 DEF m, at, n, end

-----------------------------------------------------------------------------
(* The kind of an index does not change.  What the chains of an image hold  *)
(* depends on it, so that what is known of a file and its image before a    *)
(* step has to be carried over to the state behind it.                      *)

\* The chains, in the next state, of the images that a state knows of.
LEMMA ContentNext ==
  ASSUME kind' = kind
  PROVE  /\ Content(image)' = Content(image')
         /\ Content(job.image)' = Content(job'.image)
<1>1. OneBit' <=> OneBit
  BY DEF OneBit
<1>. QED  BY <1>1 DEF Content, Only, OneBit

\* What holds of an image and its meta page there.
LEMMA SoundNext ==
  ASSUME kind' = kind
  PROVE  /\ ImageSound(image)' = ImageSound(image')
         /\ ImageSound(job.image)' = ImageSound(job'.image)
         /\ MetaSound(meta, image)' = MetaSound(meta', image')
         /\ MetaSound(job.meta, job.image)' = MetaSound(job'.meta, job'.image)
         /\ Reads(disk, meta, image)' = Reads(disk', meta', image')
<1>1. /\ ImageSound(image)' = ImageSound(image')
      /\ ImageSound(job.image)' = ImageSound(job'.image)
  BY DEF ImageSound
<1>2. MetaFor(image, meta.at)' = MetaFor(image', meta'.at)
  BY ContentNext DEF MetaFor
<1>3. MetaFor(job.image, job.meta.at)' = MetaFor(job'.image, job'.meta.at)
  BY ContentNext DEF MetaFor
<1>4. MetaSound(meta, image)' = MetaSound(meta', image')
  BY <1>2 DEF MetaSound
<1>5. MetaSound(job.meta, job.image)' = MetaSound(job'.meta, job'.image)
  BY <1>3 DEF MetaSound
<1>6. Reads(disk, meta, image)' = Reads(disk', meta', image')
  BY ContentNext DEF Reads
<1>. QED  BY <1>1, <1>4, <1>5, <1>6

\* What holds of a rewrite there.
LEMMA JobNext ==
  ASSUME kind' = kind
  PROVE  /\ WritesSound(job.writes, disk, job.meta, job.image)'
              = WritesSound(job'.writes, disk', job'.meta, job'.image)
         /\ (meta' = meta /\ image' = image) =>
              OnlyAdds(job.image, job.meta.at)' = OnlyAdds(job'.image, job'.meta.at)
<1>1. WritesSound(job.writes, disk, job.meta, job.image)'
        = WritesSound(job'.writes, disk', job'.meta, job'.image)
  BY ContentNext DEF WritesSound, PageSound
<1>2. ASSUME meta' = meta, image' = image
      PROVE  OnlyAdds(job.image, job.meta.at)' = OnlyAdds(job'.image, job'.meta.at)
  <2>1. Content(image)' = Content(image)
    BY <1>2, ContentNext
  <2>. QED  BY <1>2, <2>1, ContentNext DEF OnlyAdds
<1>. QED  BY <1>1, <1>2

\* The invariant behind a step, part by part.
LEMMA Assembled ==
  ASSUME kind' = kind, kind \in Kinds, ImageSound(image'), MetaSound(meta', image'),
         hurt' \in BOOLEAN, jobs' \in 0 .. MaxJobs,
         job'.on => job'.limit = 0 \/ job'.meta.at["ids"].first <= job'.limit,
         disk' \in Seq(Range(disk')),
         \A b \in DOMAIN disk' : DOMAIN disk'[b] = {"chain", "data"},
         FitsIn(meta', Len(disk') + 1),
         (IF job'.on THEN job'.named \/ ~ (job'.risky \/ hurt') ELSE ~ hurt')
           => Reads(disk', meta', image'),
         JobSound'
  PROVE  RewriteInv'
<1>1. meta'.len \in [Chain -> Nat]
  <2>1. meta' = MetaFor(image', meta'.at) /\ image' \in Image
    BY DEF MetaSound, ImageSound
  <2>2. \A c \in Chain : Len(Content(image')[c]) \in Nat
    BY <2>1, ContentType
  <2>. DEFINE len == [c \in Chain |-> Len(Content(image')[c])]
  <2>3. len \in [Chain -> Nat]
    BY <2>2
  <2>4. meta'.len = len
    BY <2>1 DEF MetaFor
  <2>. QED  BY <2>3, <2>4
<1>2. TypeOK'
  BY <1>1 DEF TypeOK, ImageSound, MetaSound
<1>3. ImageReadable'
  BY SoundNext DEF ImageReadable
<1>4. MetaInFile'
  BY DEF MetaInFile, FitsIn
<1>5. ImageSound(image)' /\ MetaSound(meta, image)'
  BY SoundNext
<1>6. PagesSound'
  BY DEF PagesSound
<1>. QED  BY <1>2, <1>3, <1>4, <1>5, <1>6 DEF RewriteInv, FileSound

\* A rewrite that has written no meta page yet, part by part.
LEMMA AssembledJob ==
  ASSUME kind' = kind, DOMAIN job' = DOMAIN NoJob, job'.on = TRUE, job'.named = FALSE,
         ImageSound(job'.image), MetaSound(job'.meta, job'.image),
         FitsIn(job'.meta, Len(disk') + 1), job'.limit \in Nat,
         job'.limit > 0 => FitsIn(job'.meta, job'.limit),
         job'.writes \in Seq(Range(job'.writes)), job'.copies \in Seq(Range(job'.copies)),
         Underway'
  PROVE  JobSound'
<1>1. ImageSound(job.image)' /\ MetaSound(job.meta, job.image)'
  BY SoundNext
<1>2. FitsIn(job.meta, Len(disk) + 1)' /\ (job.limit > 0 => FitsIn(job.meta, job.limit))'
  BY DEF FitsIn
<1>3. DOMAIN NoJob' = DOMAIN NoJob
  BY DEF NoJob
<1>4. DOMAIN job' = DOMAIN NoJob'
  BY <1>3
<1>. HIDE DEF NoJob
<1>. QED  BY <1>1, <1>2, <1>4 DEF JobSound

\* What a rewrite has still to do, in the next state.
LEMMA AssembledUnderway ==
  ASSUME kind' = kind, meta' = meta, image' = image,
         job'.copies = <<>>, ~ job'.risky => OnlyAdds(job'.image, job'.meta.at),
         WritesSound(job'.writes, disk', job'.meta, job'.image)
  PROVE  Underway'
<1>1. /\ OnlyAdds(job.image, job.meta.at)' = OnlyAdds(job'.image, job'.meta.at)
      /\ WritesSound(job.writes, disk, job.meta, job.image)'
           = WritesSound(job'.writes, disk', job'.meta, job'.image)
  BY JobNext
<1>. QED  BY <1>1 DEF Underway

\* What a VACUUM has still to copy, in the next state.
LEMMA AssembledCopies ==
  ASSUME kind' = kind, meta' = meta, image' = image, kind = "flat",
         job'.copies # <<>>, job'.writes = <<>>, job'.risky = TRUE,
         \A c \in Chain : job'.meta.at[c].first = meta.at[c].first,
         \E dead \in [1 .. Len(image.rows) - Len(job'.image.rows) -> 1 .. Len(image.rows)] :
           /\ job'.image.rows =
                RowsLeft(image.rows, dead)[Len(image.rows) - Len(job'.image.rows)]
           /\ CopiesSound(job'.copies, disk', meta.at, image.rows, dead)
  PROVE  Underway'
<1>1. PICK dead \in [1 .. Len(image.rows) - Len(job'.image.rows) -> 1 .. Len(image.rows)] :
           /\ job'.image.rows =
                RowsLeft(image.rows, dead)[Len(image.rows) - Len(job'.image.rows)]
           /\ CopiesSound(job'.copies, disk', meta.at, image.rows, dead)
  OBVIOUS
<1>2. CopiesSound(job'.copies, disk', meta'.at, image'.rows, dead)
  BY <1>1
<1>3. CopiesSound(job.copies, disk, meta.at, image.rows, dead)'
  BY <1>2 DEF CopiesSound, HasItem, BlockOf, PlaceOf, Moves, RowsLeft, SwapRemove, Columns, InColumn
<1>4. (RowsLeft(image.rows, dead)[Len(image.rows) - Len(job.image.rows)])'
        = RowsLeft(image.rows, dead)[Len(image.rows) - Len(job'.image.rows)]
  BY DEF RowsLeft, SwapRemove
<1>. QED  BY <1>1, <1>3, <1>4 DEF Underway

-----------------------------------------------------------------------------
(* Whole files.                                                            *)

\* What fits in some blocks fits in more.
LEMMA FitsInMore ==
  ASSUME NEW m, NEW img, ImageSound(img), MetaSound(m, img),
         NEW a \in Nat, NEW b \in Nat, a <= b, FitsIn(m, a)
  PROVE  FitsIn(m, b)
<1>1. SUFFICES ASSUME NEW c \in Chain, m.len[c] > 0
               PROVE  m.at[c].first + PagesNeeded(m.len[c], PerPage[c]) <= b
  BY DEF FitsIn
<1>. DEFINE f == m.at[c].first
            p == PagesNeeded(m.len[c], PerPage[c])
<1>2. f \in Nat /\ p \in Nat
  BY MetaType
<1>3. f + p <= a
  BY <1>1 DEF FitsIn
<1>. HIDE DEF f, p
<1>4. f + p <= b
  BY <1>2, <1>3
<1>. QED  BY <1>4 DEF f, p

\* A file that is longer holds what it held.
LEMMA ExtendedReads ==
  ASSUME PagesSound, NEW blocks \in Nat, NEW m, NEW img, Reads(disk, m, img)
  PROVE  LET e == Extended(disk, blocks)
         IN  /\ e \in Seq(Range(e)) /\ Len(e) \in Nat
             /\ Len(e) >= Len(disk) /\ Len(e) + 1 >= blocks
             /\ \A b \in DOMAIN disk : b \in DOMAIN e /\ e[b] = disk[b]
             /\ \A b \in DOMAIN e : DOMAIN e[b] = {"chain", "data"}
             /\ Reads(e, m, img)
<1>. DEFINE e == Extended(disk, blocks)
<1>1. /\ disk \in Seq(Range(disk)) /\ \A b \in DOMAIN disk : DOMAIN disk[b] = {"chain", "data"}
  BY DEF PagesSound
<1>2. /\ e \in Seq(Range(e)) /\ Len(e) \in Nat /\ Len(e) >= Len(disk) /\ Len(e) + 1 >= blocks
      /\ \A b \in DOMAIN disk : b \in DOMAIN e /\ e[b] = disk[b]
      /\ \A b \in DOMAIN e : b \notin DOMAIN disk => e[b] = ZeroPage
  BY <1>1, ExtendedKeeps
<1>3. DOMAIN ZeroPage = {"chain", "data"}
  BY DEF ZeroPage
<1>. HIDE DEF e
<1>4. \A b \in DOMAIN e : DOMAIN e[b] = {"chain", "data"}
  BY <1>1, <1>2, <1>3
<1>5. Reads(e, m, img)
  <2>1. ASSUME NEW c \in Chain, NEW i \in 1 .. m.len[c]
        PROVE  HasItem(e, m.at, c, i, Content(img)[c][i])
    <3>1. HasItem(disk, m.at, c, i, Content(img)[c][i])
      BY DEF Reads
    <3>2. BlockOf(m.at, c, i) \in DOMAIN disk
      BY <3>1 DEF HasItem
    <3>. QED  BY <1>2, <3>1, <3>2, ItemKept
  <2>. QED  BY <2>1 DEF Reads
<1>. QED  BY <1>2, <1>4, <1>5 DEF e

\* A file as an index build leaves it.
LEMMA BuiltFile ==
  ASSUME kind \in Kinds, NEW rows \in Seq(Row)
  PROVE  LET img == Built(rows)
             m   == MetaFor(img, LayoutOf(img))
             d   == DiskOf(img)
         IN  /\ ImageSound(img) /\ MetaSound(m, img)
             /\ d \in Seq(Range(d)) /\ \A b \in DOMAIN d : DOMAIN d[b] = {"chain", "data"}
             /\ FitsIn(m, Len(d) + 1) /\ Reads(d, m, img)
<1>. DEFINE img == Built(rows)
<1>1. ImageSound(img)
  <2>1. Len(rows) \in Nat /\ <<>> \in Seq(BOOLEAN) /\ Len(<<>>) = 0
    OBVIOUS
  <2>2. img.rows = rows /\ img.tomb = <<>> /\ img.cells \in {0, Len(rows)}
    BY DEF Built
  <2>3. img \in Image
    BY <2>1 DEF Built, Image
  <2>4. kind = "flat" => img.cells = 0
    BY DEF Built
  <2>. HIDE DEF img
  <2>. QED  BY <2>1, <2>2, <2>3, <2>4 DEF ImageSound
<1>. HIDE DEF img
<1>2. LET at == LayoutOf(img)
      IN  /\ MetaSound(MetaFor(img, at), img) /\ TotalBlocks(at) \in Nat \ {0}
          /\ FitsIn(MetaFor(img, at), TotalBlocks(at))
  BY <1>1, LayoutOfSound
<1>3. LET d == DiskOf(img)
      IN  /\ d \in Seq(Range(d)) /\ Len(d) + 1 = TotalBlocks(LayoutOf(img))
          /\ \A b \in DOMAIN d : DOMAIN d[b] = {"chain", "data"}
          /\ Reads(d, MetaFor(img, LayoutOf(img)), img)
  BY <1>1, <1>2, DiskOfSound
<1>. QED  BY <1>1, <1>2, <1>3 DEF img

\* An index build establishes the invariant.
LEMMA InitRewriteInv == Init => RewriteInv
<1>1. SUFFICES ASSUME Init PROVE RewriteInv
  OBVIOUS
<1>2. PICK n \in {0, 2, 3}, v \in Vec : \E q \in [1 .. n -> Id] : image = Built(RowsOf(q, v))
  BY <1>1 DEF Init
<1>3. PICK q \in [1 .. n -> Id] : image = Built(RowsOf(q, v))
  BY <1>2
<1>4. RowsOf(q, v) \in Seq(Row)
  BY <1>3 DEF RowsOf, Row
<1>5. /\ kind \in Kinds /\ meta = MetaFor(image, LayoutOf(image)) /\ disk = DiskOf(image)
      /\ job = NoJob /\ hurt = FALSE /\ jobs = 0
  BY <1>1 DEF Init
<1>6. /\ ImageSound(image) /\ MetaSound(meta, image)
      /\ disk \in Seq(Range(disk)) /\ \A b \in DOMAIN disk : DOMAIN disk[b] = {"chain", "data"}
      /\ FitsIn(meta, Len(disk) + 1) /\ Reads(disk, meta, image)
  BY <1>3, <1>4, <1>5, BuiltFile
<1>7. PagesSound
  BY <1>6 DEF PagesSound
<1>8. job.on = FALSE
  BY <1>5 DEF NoJob
<1>9. JobSound
  <2>1. DOMAIN job = DOMAIN NoJob
    BY <1>5
  <2>. QED  BY <1>5, <1>8, <2>1 DEF JobSound
<1>10. meta.len \in [Chain -> Nat]
  <2>1. meta = MetaFor(image, meta.at) /\ image \in Image
    BY <1>6 DEF MetaSound, ImageSound
  <2>2. \A c \in Chain : Len(Content(image)[c]) \in Nat
    BY <2>1, ContentType
  <2>. DEFINE len == [c \in Chain |-> Len(Content(image)[c])]
  <2>3. len \in [Chain -> Nat]
    BY <2>2
  <2>4. meta.len = len
    BY <2>1 DEF MetaFor
  <2>. QED  BY <2>3, <2>4
<1>11. TypeOK
  <2>1. /\ image \in Image /\ Len(image.tomb) \in {0, Len(image.rows)}
        /\ image.cells <= Len(image.rows)
    BY <1>6 DEF ImageSound
  <2>2. meta.at \in Layout /\ ChainsDisjoint(meta.at)
    BY <1>6 DEF MetaSound
  <2>3. hurt \in BOOLEAN /\ jobs \in 0 .. MaxJobs
    <3>1. hurt \in BOOLEAN
      BY <1>5
    <3>2. MaxJobs \in Nat /\ jobs = 0
      BY <1>5, BoundsAssumption
    <3>. QED  BY <3>1, <3>2
  <2>. QED  BY <1>8, <1>10, <2>1, <2>2, <2>3 DEF TypeOK
<1>12. ImageReadable /\ MetaInFile
  BY <1>6 DEF ImageReadable, MetaInFile
<1>. QED  BY <1>5, <1>6, <1>7, <1>9, <1>11, <1>12 DEF RewriteInv, FileSound

-----------------------------------------------------------------------------
(* The beginning of a rewrite.                                             *)

\* It leaves what is there as it is, and makes room for what is to come.
LEMMA BeginSound ==
  ASSUME RewriteInv, Idle, NEW img, NEW at, NEW blocks \in Nat, NEW writes, NEW copies,
         NEW limit \in Nat, Begin(img, at, blocks, writes, copies, limit),
         ImageSound(img), MetaSound(MetaFor(img, at), img),
         FitsIn(MetaFor(img, at), Len(disk') + 1),
         limit > 0 => FitsIn(MetaFor(img, at), limit) /\ at["ids"].first <= limit,
         writes \in Seq(Range(writes)), copies \in Seq(Range(copies)), Underway'
  PROVE  RewriteInv'
<1>1. /\ disk' = Extended(disk, blocks) /\ kind' = kind /\ meta' = meta /\ image' = image
      /\ hurt' = hurt /\ jobs' = jobs + 1
  BY DEF Begin
<1>2. /\ job'.on = TRUE /\ job'.named = FALSE /\ job'.writes = writes /\ job'.copies = copies
      /\ job'.meta = MetaFor(img, at) /\ job'.image = img /\ job'.limit = limit
      /\ DOMAIN job' = DOMAIN NoJob
      /\ job'.risky = ~ (OnlyAdds(img, at) /\ copies = <<>>)
  <2>. DEFINE m == MetaFor(img, at)
              risk == ~ (OnlyAdds(img, at) /\ copies = <<>>)
  <2>1. job' = [on |-> TRUE, writes |-> writes, copies |-> copies, meta |-> m, image |-> img,
                limit |-> limit, risky |-> risk, named |-> FALSE]
    BY DEF Begin
  <2>2. DOMAIN NoJob = {"on", "writes", "copies", "meta", "image", "limit", "risky", "named"}
    BY DEF NoJob
  <2>. HIDE DEF m, risk
  <2>3. /\ job'.on = TRUE /\ job'.named = FALSE /\ job'.writes = writes
        /\ job'.copies = copies /\ job'.meta = m /\ job'.image = img /\ job'.limit = limit
        /\ DOMAIN job' = DOMAIN NoJob /\ job'.risky = risk
    BY <2>1, <2>2
  <2>. QED  BY <2>3 DEF m, risk
<1>3. /\ ImageSound(image) /\ MetaSound(meta, image) /\ kind \in Kinds
      /\ PagesSound /\ TypeOK /\ MetaInFile
  BY DEF RewriteInv, FileSound
<1>4. Reads(disk, meta, image) /\ jobs < MaxJobs
  BY DEF Idle
<1>5. /\ disk' \in Seq(Range(disk')) /\ Len(disk') \in Nat /\ Len(disk') >= Len(disk)
      /\ \A b \in DOMAIN disk' : DOMAIN disk'[b] = {"chain", "data"}
      /\ Reads(disk', meta, image)
  BY <1>1, <1>3, <1>4, ExtendedReads
<1>6. FitsIn(meta', Len(disk') + 1)
  <2>1. Len(disk) \in Nat
    BY <1>3 DEF PagesSound
  <2>2. FitsIn(meta, Len(disk) + 1)
    BY <1>3 DEF MetaInFile
  <2>. QED  BY <1>1, <1>3, <1>5, <2>1, <2>2, FitsInMore
<1>7. jobs' \in 0 .. MaxJobs /\ hurt' \in BOOLEAN
  BY <1>1, <1>3, <1>4, BoundsAssumption DEF TypeOK
<1>8. job'.limit = 0 \/ job'.meta.at["ids"].first <= job'.limit
  <2>1. job'.meta.at = at
    BY <1>2 DEF MetaFor
  <2>. QED  BY <1>2, <2>1
<1>9. JobSound'
  <2>1. job'.writes \in Seq(Range(job'.writes)) /\ job'.copies \in Seq(Range(job'.copies))
    BY <1>2
  <2>2. job'.limit > 0 => FitsIn(job'.meta, job'.limit)
    BY <1>2
  <2>. QED  BY <1>1, <1>2, <2>1, <2>2, AssembledJob
<1>. QED  BY <1>1, <1>3, <1>5, <1>6, <1>7, <1>8, <1>9, Assembled

\* A rewrite of all chains.
LEMMA RewriteSound ==
  ASSUME RewriteInv, Idle, NEW img, ImageSound(img), Rewrite(img)
  PROVE  RewriteInv'
<1>. DEFINE at == LayoutOf(img)
            m  == MetaFor(img, at)
            total == TotalBlocks(at)
            writes == AllWrites(img, at)
            limit == RewriteLimit(at)
<1>1. kind \in Kinds /\ PagesSound
  BY DEF RewriteInv
<1>2. /\ MetaSound(m, img) /\ total \in Nat \ {0} /\ FitsIn(m, total)
      /\ ~ OneBit => at["ids"].first <= total
  BY <1>1, LayoutOfSound
<1>3. Begin(img, at, total, writes, <<>>, limit)
  BY DEF Rewrite
<1>4. /\ disk' = Extended(disk, total) /\ kind' = kind /\ meta' = meta /\ image' = image
  BY <1>3 DEF Begin
<1>5. limit \in {0, total} /\ limit \in Nat /\ (limit > 0 => limit = total /\ ~ OneBit)
  BY <1>2 DEF RewriteLimit
<1>6. m.at = at
  BY DEF MetaFor
<1>. HIDE DEF at, m, total, writes, limit
<1>7. Reads(disk, meta, image)
  BY DEF Idle
<1>8. /\ disk' \in Seq(Range(disk')) /\ Len(disk') \in Nat /\ Len(disk') + 1 >= total
  BY <1>1, <1>2, <1>4, <1>7, ExtendedReads
<1>9. FitsIn(m, Len(disk') + 1)
  BY <1>2, <1>8, FitsInMore
<1>10. LET W == AllWrites(img, m.at)
       IN  /\ W \in Seq(Range(W))
           /\ \A w \in Range(W) : /\ PageSound(w, m, img)
                                  /\ w.block \in Nat \ {0}
                                  /\ \A b \in Nat : FitsIn(m, b) => w.block < b
           /\ \A c \in Chain : \A i \in 1 .. m.len[c] :
                \E w \in Range(W) : w.block = BlockOf(m.at, c, i)
  BY <1>2, AllWritesSound
<1>11. /\ writes \in Seq(Range(writes))
       /\ \A w \in Range(writes) : /\ PageSound(w, m, img)
                                   /\ w.block \in Nat \ {0}
                                   /\ \A b \in Nat : FitsIn(m, b) => w.block < b
       /\ \A c \in Chain : \A i \in 1 .. m.len[c] :
            \E w \in Range(writes) : w.block = BlockOf(m.at, c, i)
  BY <1>6, <1>10 DEF writes
<1>12. Range(writes) = {writes[k] : k \in DOMAIN writes}
  BY DEF Range
<1>13. WritesSound(writes, disk', m, img)
  <2>1. ASSUME NEW k \in DOMAIN writes
        PROVE  writes[k].block \in DOMAIN disk' /\ PageSound(writes[k], m, img)
    <3>1. writes[k] \in Range(writes)
      BY <1>12
    <3>2. writes[k].block \in Nat \ {0} /\ writes[k].block < Len(disk') + 1
      BY <1>8, <1>9, <1>11, <3>1
    <3>3. DOMAIN disk' = 1 .. Len(disk')
      BY <1>8
    <3>. QED  BY <1>8, <1>11, <3>1, <3>2, <3>3
  <2>2. ASSUME NEW c \in Chain, NEW i \in 1 .. m.len[c]
        PROVE  \E k \in DOMAIN writes : writes[k].block = BlockOf(m.at, c, i)
    BY <1>11, <1>12
  <2>. QED  BY <2>1, <2>2 DEF WritesSound
<1>14. /\ job'.copies = <<>> /\ job'.writes = writes /\ job'.meta = m /\ job'.image = img
       /\ job'.risky = ~ OnlyAdds(img, at)
  BY <1>3, <1>6 DEF Begin, m
<1>15. Underway'
  BY <1>4, <1>6, <1>13, <1>14, AssembledUnderway
<1>16. <<>> \in Seq(Range(<<>>))
  OBVIOUS
<1>17. limit > 0 => FitsIn(m, limit) /\ at["ids"].first <= limit
  BY <1>2, <1>5
<1>. QED  BY <1>2, <1>3, <1>5, <1>9, <1>11, <1>15, <1>16, <1>17, BeginSound DEF m

-----------------------------------------------------------------------------
(* An insert.                                                              *)

\* The rows, with one overwritten and others behind them.
LEMMA InsertedRows ==
  ASSUME NEW rows \in Seq(Row), NEW s \in 0 .. Len(rows), NEW k \in Nat,
         NEW q \in [1 .. k -> Id], NEW v \in Vec
  PROVE  LET over == IF s = 0 THEN rows ELSE [rows EXCEPT ![s].vec = v]
         IN  /\ over \o RowsOf(q, v) \in Seq(Row)
             /\ Len(over \o RowsOf(q, v)) = Len(rows) + k
             /\ Len(rows) \in Nat
<1>. DEFINE over == IF s = 0 THEN rows ELSE [rows EXCEPT ![s].vec = v]
            add  == RowsOf(q, v)
<1>1. Len(rows) \in Nat /\ DOMAIN rows = 1 .. Len(rows) /\ \A i \in 1 .. Len(rows) : rows[i] \in Row
  OBVIOUS
<1>2. \A r \in Row : [r EXCEPT !.vec = v] \in Row
  BY DEF Row
<1>3. over \in Seq(Row) /\ Len(over) = Len(rows)
  <2>1. CASE s = 0
    BY <2>1
  <2>2. CASE s # 0
    <3>1. s \in DOMAIN rows
      BY <1>1, <2>2
    <3>. DEFINE r == [rows[s] EXCEPT !.vec = v]
    <3>2. r \in Row
      BY <1>1, <1>2, <3>1
    <3>3. over = [rows EXCEPT ![s] = r]
      BY <2>2
    <3>. HIDE DEF r, over
    <3>. QED  BY <3>1, <3>2, <3>3
  <2>. QED  BY <2>1, <2>2
<1>4. add \in Seq(Row) /\ Len(add) = k
  <2>. DEFINE one(i) == [id |-> q[i], vec |-> v]
  <2>1. \A i \in 1 .. k : one(i) \in Row
    BY DEF Row
  <2>2. add = [i \in 1 .. k |-> one(i)]
    BY DEF RowsOf
  <2>. HIDE DEF one
  <2>. QED  BY <2>1, <2>2
<1>. HIDE DEF over, add
<1>5. over \o add \in Seq(Row) /\ Len(over \o add) = Len(over) + Len(add)
  BY <1>3, <1>4
<1>. QED  BY <1>1, <1>3, <1>4, <1>5 DEF over, add

\* A bitmap as long as the rows, or none.
LEMMA InsertedBits ==
  ASSUME NEW s, NEW n \in Nat, ImageSound(image), Len(image.rows) <= n
  PROVE  /\ NewTomb(s, n) \in Seq(BOOLEAN) /\ Len(NewTomb(s, n)) \in {0, n}
         /\ image.tomb = <<>> => NewTomb(s, n) = <<>>
<1>. DEFINE bits == image.tomb
            dropped == kind \in {"flat", "ivf"} /\ \A i \in DOMAIN bits : ~ bits[i]
            clear == Cleared(bits, s)
            pad == [i \in 1 .. n - Len(clear) |-> FALSE]
<1>1. bits \in Seq(BOOLEAN) /\ Len(bits) \in {0, Len(image.rows)} /\ Len(image.rows) \in Nat
  BY Lengths DEF ImageSound, Image
<1>2. NewTomb(s, n) = IF bits = <<>> \/ dropped THEN <<>> ELSE clear \o pad
  BY DEF NewTomb, Padded
<1>3. clear \in Seq(BOOLEAN) /\ Len(clear) = Len(bits)
  <2>. HIDE DEF bits
  <2>1. CASE s \in DOMAIN bits
    <3>1. clear = [bits EXCEPT ![s] = FALSE]
      BY <2>1 DEF Cleared
    <3>. QED  BY <1>1, <2>1, <3>1
  <2>2. CASE s \notin DOMAIN bits
    <3>1. clear = bits
      BY <2>2 DEF Cleared
    <3>. QED  BY <1>1, <3>1
  <2>. QED  BY <2>1, <2>2
<1>4. Len(bits) <= n
  BY <1>1
<1>. HIDE DEF bits, clear, dropped
<1>5. pad \in Seq(BOOLEAN) /\ Len(pad) = n - Len(bits)
  <2>1. n - Len(clear) \in Nat /\ n - Len(clear) = n - Len(bits)
    BY <1>1, <1>3, <1>4
  <2>2. \A j \in Nat : /\ [i \in 1 .. j |-> FALSE] \in Seq(BOOLEAN)
                       /\ Len([i \in 1 .. j |-> FALSE]) = j
    OBVIOUS
  <2>. QED  BY <2>1, <2>2
<1>. HIDE DEF pad
<1>6. clear \o pad \in Seq(BOOLEAN) /\ Len(clear \o pad) = n
  <2>1. clear \o pad \in Seq(BOOLEAN) /\ Len(clear \o pad) = Len(clear) + Len(pad)
    BY <1>3, <1>5
  <2>2. Len(bits) \in Nat
    BY <1>1
  <2>. QED  BY <1>3, <1>5, <2>1, <2>2
<1>7. <<>> \in Seq(BOOLEAN) /\ Len(<<>>) = 0
  OBVIOUS
<1>. QED  BY <1>2, <1>6, <1>7 DEF bits

\* An insert begins a rewrite of all chains.
LEMMA InsertSound ==
  ASSUME RewriteInv, NEW s \in 0 .. Len(image.rows), NEW k \in 0 .. 2, NEW v \in Vec,
         NEW q \in [1 .. k -> Fresh], Insert(s, q, v)
  PROVE  RewriteInv'
<1>. DEFINE over == IF s = 0 THEN image.rows ELSE [image.rows EXCEPT ![s].vec = v]
            rows == over \o RowsOf(q, v)
            n    == Len(rows)
            keep == kind = "ivf" /\ DeltaWithinBound(image.cells, n)
            cells == IF keep THEN image.cells ELSE 0
            img  == [rows |-> rows, tomb |-> NewTomb(s, n), cells |-> cells]
<1>1. Idle /\ Rewrite(img)
  BY DEF Insert
<1>2. ImageSound(image) /\ image.rows \in Seq(Row) /\ image.cells \in Nat
  BY DEF RewriteInv, ImageSound, Image
<1>3. q \in [1 .. k -> Id]
  BY DEF Fresh
<1>4. rows \in Seq(Row) /\ n = Len(image.rows) + k /\ Len(image.rows) \in Nat
  <2>. DEFINE old == image.rows
  <2>1. old \in Seq(Row) /\ s \in 0 .. Len(old) /\ k \in Nat
    BY <1>2
  <2>. HIDE DEF old
  <2>2. LET o == IF s = 0 THEN old ELSE [old EXCEPT ![s].vec = v]
        IN  /\ o \o RowsOf(q, v) \in Seq(Row)
            /\ Len(o \o RowsOf(q, v)) = Len(old) + k
            /\ Len(old) \in Nat
    BY <1>3, <2>1, InsertedRows
  <2>. QED  BY <2>2 DEF old
<1>. HIDE DEF over, rows, n
<1>5. n \in Nat /\ Len(image.rows) <= n
  BY <1>4
<1>6. /\ NewTomb(s, n) \in Seq(BOOLEAN) /\ Len(NewTomb(s, n)) \in {0, n}
      /\ image.tomb = <<>> => NewTomb(s, n) = <<>>
  BY <1>2, <1>5, InsertedBits
<1>7. cells \in Nat /\ cells <= n /\ (kind = "flat" => cells = 0)
  BY <1>2, <1>5 DEF DeltaWithinBound
<1>8. kind = "flat" => NewTomb(s, n) = <<>>
  BY <1>2, <1>6 DEF ImageSound
<1>. HIDE DEF cells
<1>9. img \in Image /\ img.rows = rows /\ img.tomb = NewTomb(s, n) /\ img.cells = cells
  BY <1>4, <1>6, <1>7 DEF Image
<1>. HIDE DEF img
<1>10. ImageSound(img)
  BY <1>6, <1>7, <1>8, <1>9 DEF ImageSound, n
<1>. QED  BY <1>1, <1>10, RewriteSound

-----------------------------------------------------------------------------
(* A VACUUM.                                                               *)

\* Marking rows dead begins a rewrite of the bitmap alone.
LEMMA VacuumTombstonesSound ==
  ASSUME RewriteInv, NEW D \in SUBSET DOMAIN image.rows, VacuumTombstones(D)
  PROVE  RewriteInv'
<1>. DEFINE n    == Len(image.rows)
            bits == [i \in 1 .. n |-> i \in D \/ (i \in DOMAIN image.tomb /\ image.tomb[i])]
            img  == [image EXCEPT !.tomb = bits]
            per  == PerPage["tomb"]
            q    == PagesNeeded(n, per)
            at   == ResetTombstones(meta.at, q)
            m    == MetaFor(img, at)
            writes == PageWrites(img, at, "tomb")
            blocks == at["tomb"].first + at["tomb"].count
<1>1. Idle /\ kind # "flat" /\ Begin(img, at, blocks, writes, <<>>, 0)
  BY DEF VacuumTombstones
<1>2. /\ ImageSound(image) /\ MetaSound(meta, image) /\ kind \in Kinds /\ PagesSound /\ MetaInFile
  BY DEF RewriteInv, FileSound
<1>3. n \in Nat
  BY <1>2, Lengths DEF ImageSound
<1>4. bits \in Seq(BOOLEAN) /\ Len(bits) = n
  <2>. DEFINE marked(i) == i \in D \/ (i \in DOMAIN image.tomb /\ image.tomb[i])
  <2>1. bits = [i \in 1 .. n |-> marked(i)]
    OBVIOUS
  <2>2. \A i \in 1 .. n : marked(i) \in BOOLEAN
    <3>1. image.tomb \in Seq(BOOLEAN)
      BY <1>2 DEF ImageSound, Image
    <3>2. \A i \in DOMAIN image.tomb : image.tomb[i] \in BOOLEAN
      BY <3>1
    <3>. QED  BY <3>2
  <2>. HIDE DEF marked, n, bits
  <2>. QED  BY <1>3, <2>1, <2>2
<1>. HIDE DEF bits
<1>5. /\ ImageSound(img) /\ MetaSound(m, img) /\ m.len["tomb"] = n
      /\ at["tomb"].count = q
      /\ \A c \in Chain \ {"tomb"} : /\ at[c] = meta.at[c] /\ m.len[c] = meta.len[c]
                                     /\ Content(img)[c] = Content(image)[c]
  BY <1>1, <1>2, <1>4, ResetMetaSound
<1>6. m.at = at /\ "tomb" \in Chain
  BY DEF MetaFor, Chain
<1>7. disk' = Extended(disk, blocks) /\ kind' = kind /\ meta' = meta /\ image' = image
  BY <1>1 DEF Begin
<1>. HIDE DEF img, m, at, writes, q, per, n
<1>8. at["tomb"].first \in Nat /\ at["tomb"].count \in Nat
  BY <1>5, <1>6, MetaType
<1>9. blocks \in Nat
  BY <1>8
<1>10. Reads(disk, meta, image)
  BY <1>1 DEF Idle
<1>11. /\ disk' \in Seq(Range(disk')) /\ Len(disk') \in Nat
       /\ Len(disk') >= Len(disk) /\ Len(disk') + 1 >= blocks
       /\ Reads(disk', meta, image)
  BY <1>2, <1>7, <1>9, <1>10, ExtendedReads
<1>12. m.at["tomb"].first + PagesNeeded(m.len["tomb"], PerPage["tomb"]) = blocks
  BY <1>5, <1>6 DEF q, per
<1>. HIDE DEF blocks
<1>13. FitsIn(m, Len(disk') + 1)
  <2>1. SUFFICES ASSUME NEW c \in Chain, m.len[c] > 0
                 PROVE  m.at[c].first + PagesNeeded(m.len[c], PerPage[c]) <= Len(disk') + 1
    BY DEF FitsIn
  <2>2. CASE c = "tomb"
    BY <1>11, <1>12, <2>2
  <2>3. CASE c # "tomb"
    <3>. DEFINE end == meta.at[c].first + PagesNeeded(meta.len[c], PerPage[c])
    <3>1. end <= Len(disk) + 1
      BY <1>2, <1>5, <2>1, <2>3 DEF MetaInFile, FitsIn
    <3>2. end \in Nat
      <4>1. meta.at[c].first \in Nat /\ PagesNeeded(meta.len[c], PerPage[c]) \in Nat
        BY <1>2, MetaType
      <4>. QED  BY <4>1
    <3>3. m.at[c].first + PagesNeeded(m.len[c], PerPage[c]) = end
      BY <1>5, <1>6, <2>3
    <3>4. Len(disk) \in Nat
      BY <1>2 DEF PagesSound
    <3>. HIDE DEF end
    <3>. QED  BY <1>11, <3>1, <3>2, <3>3, <3>4
  <2>. QED  BY <2>2, <2>3
<1>14. LET W == PageWrites(img, m.at, "tomb")
       IN  /\ W \in Seq(Range(W))
           /\ \A w \in Range(W) :
                /\ PageSound(w, m, img)
                /\ m.len["tomb"] > 0
                /\ w.block \in Nat \ {0}
                /\ w.block < m.at["tomb"].first + PagesNeeded(m.len["tomb"], PerPage["tomb"])
           /\ \A i \in 1 .. m.len["tomb"] :
                \E w \in Range(W) : w.block = BlockOf(m.at, "tomb", i)
  BY <1>5, <1>6, PageWritesSound
<1>15. /\ writes \in Seq(Range(writes))
       /\ \A w \in Range(writes) : PageSound(w, m, img) /\ w.block \in Nat \ {0} /\ w.block < blocks
       /\ \A i \in 1 .. m.len["tomb"] : \E w \in Range(writes) : w.block = BlockOf(m.at, "tomb", i)
  BY <1>6, <1>12, <1>14 DEF writes
<1>16. Range(writes) = {writes[k] : k \in DOMAIN writes}
  BY DEF Range
<1>17. WritesSound(writes, disk', m, img)
  <2>1. ASSUME NEW k \in DOMAIN writes
        PROVE  writes[k].block \in DOMAIN disk' /\ PageSound(writes[k], m, img)
    <3>1. writes[k] \in Range(writes)
      BY <1>16
    <3>2. writes[k].block \in Nat \ {0} /\ writes[k].block < Len(disk') + 1
      BY <1>9, <1>11, <1>15, <3>1
    <3>3. DOMAIN disk' = 1 .. Len(disk')
      BY <1>11
    <3>. QED  BY <1>11, <1>15, <3>1, <3>2, <3>3
  <2>2. ASSUME NEW c \in Chain, NEW i \in 1 .. m.len[c]
        PROVE  \/ HasItem(disk', m.at, c, i, Content(img)[c][i])
               \/ \E k \in DOMAIN writes : writes[k].block = BlockOf(m.at, c, i)
    <3>1. CASE c = "tomb"
      BY <1>15, <1>16, <3>1
    <3>2. CASE c # "tomb"
      <4>1. HasItem(disk', meta.at, c, i, Content(image)[c][i])
        BY <1>5, <1>11, <3>2 DEF Reads
      <4>2. m.at[c] = meta.at[c] /\ Content(img)[c] = Content(image)[c]
        BY <1>5, <1>6, <3>2
      <4>. QED  BY <4>1, <4>2 DEF HasItem, BlockOf
    <3>. QED  BY <3>1, <3>2
  <2>. QED  BY <2>1, <2>2 DEF WritesSound
<1>18. /\ job'.copies = <<>> /\ job'.writes = writes /\ job'.meta = m /\ job'.image = img
       /\ job'.risky = ~ OnlyAdds(img, at)
  BY <1>1 DEF Begin, m
<1>19. Underway'
  BY <1>6, <1>7, <1>17, <1>18, AssembledUnderway
<1>20. <<>> \in Seq(Range(<<>>)) /\ 0 \in Nat /\ ~ (0 > 0)
  OBVIOUS
<1>. QED  BY <1>1, <1>5, <1>9, <1>13, <1>15, <1>19, <1>20, BeginSound DEF m

\* A list in order is there for every set of slots.
LEMMA InOrderList ==
  ASSUME NEW n \in Nat, NEW D, D \subseteq 1 .. n
  PROVE  /\ Cardinality(D) \in Nat /\ Cardinality(D) <= n
         /\ D # {} => Cardinality(D) > 0
         /\ InOrder(D) \in [1 .. Cardinality(D) -> D]
         /\ \A j, k \in 1 .. Cardinality(D) : j < k => InOrder(D)[j] < InOrder(D)[k]
<1>. DEFINE m == Cardinality(D)
            P(q) == \A j, k \in DOMAIN q : j < k => q[j] < q[k]
<1>1. m \in Nat /\ \E q \in [1 .. m -> D] : P(q)
  BY AscendingList
<1>2. InOrder(D) = CHOOSE q \in [1 .. m -> D] : P(q)
  BY DEF InOrder
<1>3. InOrder(D) \in [1 .. m -> D] /\ P(InOrder(D))
  <2>. HIDE DEF P, m
  <2>. QED  BY <1>1, <1>2
<1>4. IsFiniteSet(1 .. n) /\ Cardinality(1 .. n) = n
  <2>1. 1 \in Int /\ n \in Int
    OBVIOUS
  <2>2. IsFiniteSet(1 .. n) /\ Cardinality(1 .. n) = IF 1 > n THEN 0 ELSE n - 1 + 1
    BY <2>1, FS_Interval
  <2>. QED  BY <2>2
<1>5. IsFiniteSet(D) /\ m <= n
  BY <1>4, FS_Subset
<1>6. D # {} => m > 0
  BY <1>1, <1>5, FS_EmptySet
<1>. QED  BY <1>1, <1>3, <1>5, <1>6

\* Taking rows out of a flat index begins the copying of slots.
LEMMA VacuumFlatSound ==
  ASSUME RewriteInv, NEW D \in SUBSET DOMAIN image.rows, VacuumFlat(D)
  PROVE  RewriteInv'
<1>. DEFINE n    == Len(image.rows)
            m    == Cardinality(D)
            dead == [k \in 1 .. m |-> InOrder(D)[m + 1 - k]]
            left == RowsLeft(image.rows, dead)[m]
            img  == [image EXCEPT !.rows = left]
            at   == ShrinkInPlace(meta.at, Len(left), PerPage)
            mt   == MetaFor(img, at)
            copies == Moves(n, dead)
            end  == IdsEnd(meta.at, Len(left), PerPage)
<1>1. Idle /\ kind = "flat" /\ D # {} /\ Begin(img, at, 0, <<>>, copies, end)
  BY DEF VacuumFlat
<1>2. /\ ImageSound(image) /\ MetaSound(meta, image) /\ PagesSound /\ MetaInFile
      /\ image.rows \in Seq(Row)
  BY DEF RewriteInv, FileSound, ImageSound, Image
<1>3. n \in Nat /\ DOMAIN image.rows = 1 .. n
  BY <1>2
<1>4. D \subseteq 1 .. n
  BY <1>3
<1>5. /\ m \in Nat /\ m <= n /\ m > 0
      /\ InOrder(D) \in [1 .. m -> D]
      /\ \A j, k \in 1 .. m : j < k => InOrder(D)[j] < InOrder(D)[k]
  <2>. HIDE DEF n
  <2>. QED  BY <1>1, <1>3, <1>4, InOrderList
<1>6. dead \in [1 .. m -> 1 .. n] /\ \A j, k \in 1 .. m : j < k => dead[j] > dead[k]
  <2>. DEFINE q == InOrder(D)
  <2>. HIDE DEF m, n, q
  <2>1. ASSUME NEW k \in 1 .. m PROVE m + 1 - k \in 1 .. m
    BY <1>5
  <2>2. \A k \in 1 .. m : q[k] \in 1 .. n
    BY <1>4, <1>5 DEF q
  <2>3. dead = [k \in 1 .. m |-> q[m + 1 - k]]
    BY DEF q
  <2>. HIDE DEF dead
  <2>4. dead \in [1 .. m -> 1 .. n]
    BY <2>1, <2>2, <2>3
  <2>5. ASSUME NEW j \in 1 .. m, NEW k \in 1 .. m, j < k PROVE dead[j] > dead[k]
    <3>1. m + 1 - k \in 1 .. m /\ m + 1 - j \in 1 .. m /\ m + 1 - k < m + 1 - j
      BY <1>5, <2>1, <2>5
    <3>2. q[m + 1 - k] < q[m + 1 - j]
      BY <1>5, <3>1 DEF q
    <3>3. q[m + 1 - k] \in 1 .. n /\ q[m + 1 - j] \in 1 .. n
      BY <2>2, <3>1
    <3>. QED  BY <2>3, <3>2, <3>3
  <2>. QED  BY <2>4, <2>5
<1>. HIDE DEF dead, m, n
<1>7. DOMAIN dead = 1 .. m /\ Len(dead) = m
  BY <1>5, <1>6
<1>8. left \in Seq(Row) /\ Len(left) = n - m
  <2>1. \A k \in 0 .. m : /\ RowsLeft(image.rows, dead)[k] \in Seq(Row)
                          /\ Len(RowsLeft(image.rows, dead)[k]) = Len(image.rows) - k
    <3>. DEFINE rows == image.rows
    <3>1. rows \in Seq(Row) /\ m <= Len(rows)
      BY <1>2, <1>5 DEF n
    <3>. HIDE DEF rows
    <3>2. \A k \in 0 .. m : /\ RowsLeft(rows, dead)[k] \in Seq(Row)
                            /\ Len(RowsLeft(rows, dead)[k]) = Len(rows) - k
      BY <1>5, <1>7, <3>1, RowsLeftType
    <3>. QED  BY <3>2 DEF rows
  <2>. QED  BY <1>5, <2>1 DEF n
<1>9. image.tomb = <<>> /\ image.cells = 0 /\ image \in Image
  BY <1>1, <1>2 DEF ImageSound
<1>. HIDE DEF left
<1>10. img \in Image /\ img.rows = left /\ img.tomb = <<>> /\ img.cells = 0
  BY <1>8, <1>9 DEF Image
<1>. HIDE DEF img
<1>11. n - m \in Nat /\ n - m <= n
  BY <1>3, <1>5
<1>12. ImageSound(img)
  <2>1. Len(<<>>) = 0
    OBVIOUS
  <2>. QED  BY <1>8, <1>10, <1>11, <2>1 DEF ImageSound
<1>13. /\ MetaSound(mt, img)
       /\ \A c \in Chain : at[c].first = meta.at[c].first
       /\ \A b \in Nat : FitsIn(meta, b) => FitsIn(mt, b)
       /\ FitsIn(mt, end) /\ end \in Nat /\ at["ids"].first <= end
  <2>1. Len(img.rows) <= Len(image.rows) /\ Len(img.rows) = Len(left)
    BY <1>8, <1>10, <1>11 DEF n
  <2>2. LET k == Len(img.rows)
            a == ShrinkInPlace(meta.at, k, PerPage)
            z == MetaFor(img, a)
        IN  /\ MetaSound(z, img)
            /\ \A c \in Chain : a[c].first = meta.at[c].first
            /\ \A b \in Nat : FitsIn(meta, b) => FitsIn(z, b)
            /\ FitsIn(z, IdsEnd(meta.at, k, PerPage))
            /\ IdsEnd(meta.at, k, PerPage) \in Nat
            /\ a["ids"].first <= IdsEnd(meta.at, k, PerPage)
    BY <1>1, <1>2, <1>12, <2>1, ShrinkMetaSound
  <2>. QED  BY <2>1, <2>2
<1>14. mt.at = at
  BY DEF MetaFor
<1>15. /\ disk' = Extended(disk, 0) /\ kind' = kind /\ meta' = meta /\ image' = image
  BY <1>1 DEF Begin
<1>16. /\ job'.copies = copies /\ job'.writes = <<>> /\ job'.meta = mt /\ job'.image = img
       /\ job'.risky = ~ (OnlyAdds(img, at) /\ copies = <<>>)
  BY <1>1 DEF Begin
<1>. HIDE DEF at, mt, end, copies
<1>17. Reads(disk, meta, image)
  BY <1>1 DEF Idle
<1>18. /\ Len(disk') \in Nat /\ Len(disk') >= Len(disk) /\ Reads(disk', meta, image)
       /\ Len(disk) \in Nat
  <2>1. Len(disk) \in Nat
    BY <1>2 DEF PagesSound
  <2>. QED  BY <1>2, <1>15, <1>17, <2>1, ExtendedReads
<1>19. FitsIn(mt, Len(disk') + 1)
  <2>1. FitsIn(meta, Len(disk) + 1)
    BY <1>2 DEF MetaInFile
  <2>2. FitsIn(mt, Len(disk) + 1)
    BY <1>13, <1>18, <2>1
  <2>. QED  BY <1>12, <1>13, <1>18, <2>2, FitsInMore
<1>20. /\ CopiesSound(copies, disk', meta.at, image.rows, dead)
       /\ copies \in Seq(Range(copies)) /\ copies # <<>>
  <2>1. m \in 1 .. Len(image.rows) /\ dead \in [1 .. m -> 1 .. Len(image.rows)]
    BY <1>3, <1>5, <1>6 DEF n
  <2>. QED  BY <1>1, <1>2, <1>6, <1>18, <2>1, CopiesBegin DEF copies, n
<1>21. Len(image.rows) - Len(job'.image.rows) = m
  <2>1. Len(job'.image.rows) = n - m
    BY <1>8, <1>10, <1>16
  <2>. QED  BY <1>3, <1>5, <2>1 DEF n
<1>22. Underway'
  <2>1. dead \in [1 .. Len(image.rows) - Len(job'.image.rows) -> 1 .. Len(image.rows)]
    BY <1>6, <1>21 DEF n
  <2>2. job'.image.rows = RowsLeft(image.rows, dead)[Len(image.rows) - Len(job'.image.rows)]
    BY <1>10, <1>16, <1>21 DEF left
  <2>3. CopiesSound(job'.copies, disk', meta.at, image.rows, dead)
    BY <1>16, <1>20
  <2>4. \A c \in Chain : job'.meta.at[c].first = meta.at[c].first
    BY <1>13, <1>14, <1>16
  <2>5. job'.copies # <<>> /\ job'.writes = <<>> /\ job'.risky = TRUE
    BY <1>16, <1>20
  <2>. QED  BY <1>1, <1>15, <2>1, <2>2, <2>3, <2>4, <2>5, AssembledCopies
<1>23. <<>> \in Seq(Range(<<>>)) /\ 0 \in Nat
  OBVIOUS
<1>. QED  BY <1>1, <1>12, <1>13, <1>19, <1>20, <1>22, <1>23, BeginSound DEF mt

-----------------------------------------------------------------------------
(* The steps of a rewrite.                                                 *)

\* A file of which one page changes is one as long.
LEMMA PagePut ==
  ASSUME NEW S, NEW d \in Seq(S), NEW b \in DOMAIN d, NEW v, NEW e, e = [d EXCEPT ![b] = v]
  PROVE  e \in Seq(Range(e)) /\ Len(e) = Len(d) /\ DOMAIN e = DOMAIN d
<1>1. Len(d) \in Nat /\ DOMAIN d = 1 .. Len(d)
  OBVIOUS
<1>2. DOMAIN e = 1 .. Len(d) /\ e = [k \in 1 .. Len(d) |-> e[k]]
  BY <1>1
<1>. DEFINE R == Range(e)
<1>3. \A k \in 1 .. Len(d) : e[k] \in R
  BY <1>2 DEF Range
<1>. DEFINE n == Len(d)
<1>. HIDE DEF R, n
<1>4. n \in Nat /\ e = [k \in 1 .. n |-> e[k]] /\ \A k \in 1 .. n : e[k] \in R
  BY <1>1, <1>2, <1>3 DEF n
<1>5. [k \in 1 .. n |-> e[k]] \in Seq(R)
  BY <1>4
<1>6. e \in Seq(R)
  BY <1>4, <1>5, Zenon
<1>. QED  BY <1>1, <1>2, <1>6 DEF R

\* Whether it was skipped or not, the page is in the file afterwards.
LEMMA WrittenFields ==
  ASSUME PagesSound, NEW w, w.block \in DOMAIN disk, DOMAIN w.page = {"chain", "data"}
  PROVE  LET e == Written(disk, w)
         IN  /\ e \in Seq(Range(e)) /\ Len(e) = Len(disk) /\ DOMAIN e = DOMAIN disk
             /\ \A b \in DOMAIN e : DOMAIN e[b] = {"chain", "data"}
             /\ \A b \in DOMAIN disk : b # w.block => e[b] = disk[b]
             /\ e[w.block].chain = w.page.chain /\ e[w.block].data = w.page.data
<1>. DEFINE e == Written(disk, w)
<1>1. /\ disk \in Seq(Range(disk)) /\ \A b \in DOMAIN disk : DOMAIN disk[b] = {"chain", "data"}
  BY DEF PagesSound
<1>2. CASE Unchanged(disk, w)
  <2>1. e = disk
    BY <1>2 DEF Written
  <2>2. disk[w.block].chain = w.page.chain /\ disk[w.block].data = w.page.data
    BY <1>2 DEF Unchanged
  <2>. HIDE DEF e
  <2>. QED  BY <1>1, <2>1, <2>2 DEF e
<1>3. CASE ~ Unchanged(disk, w)
  <2>1. e = [disk EXCEPT ![w.block] = w.page]
    BY <1>3 DEF Written
  <2>. HIDE DEF e
  <2>2. e \in Seq(Range(e)) /\ Len(e) = Len(disk) /\ DOMAIN e = DOMAIN disk
    <3>. DEFINE b == w.block
                v == w.page
                S == Range(disk)
    <3>1. disk \in Seq(S) /\ b \in DOMAIN disk /\ e = [disk EXCEPT ![b] = v]
      BY <1>1, <2>1
    <3>. HIDE DEF b, v, S
    <3>. QED  BY <3>1, PagePut
  <2>3. e[w.block] = w.page /\ \A b \in DOMAIN disk : b # w.block => e[b] = disk[b]
    BY <2>1
  <2>. QED  BY <1>1, <2>2, <2>3 DEF e
<1>. QED  BY <1>2, <1>3

\* Every item of an image that a sound page has room for is then in the file.
LEMMA WrittenItem ==
  ASSUME NEW e, NEW w, NEW m, NEW img, PageSound(w, m, img),
         w.block \in DOMAIN e, e[w.block].chain = w.page.chain, e[w.block].data = w.page.data,
         NEW c \in Chain, NEW i \in 1 .. m.len[c], BlockOf(m.at, c, i) = w.block
  PROVE  HasItem(e, m.at, c, i, Content(img)[c][i])
  BY DEF PageSound, HasItem

\* A step of a rewrite goes on with the rewrite.
LEMMA JobFields ==
  ASSUME JobSound, job.on
  PROVE  /\ DOMAIN job = DOMAIN NoJob
         /\ DOMAIN job = {"on", "writes", "copies", "meta", "image", "limit", "risky", "named"}
         /\ job.on = TRUE
<1>1. DOMAIN NoJob = {"on", "writes", "copies", "meta", "image", "limit", "risky", "named"}
  BY DEF NoJob
<1>2. DOMAIN job = DOMAIN NoJob /\ job.on \in BOOLEAN
  BY DEF JobSound
<1>. QED  BY <1>1, <1>2

\* Without a rewrite there is nothing to write or to copy.
LEMMA NothingToDo ==
  ASSUME JobSound, ~ job.on
  PROVE  job = NoJob /\ job.writes = <<>> /\ job.copies = <<>>
<1>1. job = NoJob
  BY DEF JobSound
<1>2. NoJob.writes = <<>> /\ NoJob.copies = <<>>
  BY DEF NoJob
<1>. HIDE DEF NoJob
<1>. QED  BY <1>1, <1>2

\* The rewrite behind a step that wrote or copied a page.
LEMMA JobGoesOn ==
  ASSUME RewriteInv, job.on, ~ job.named, kind' = kind, meta' = meta, image' = image,
         hurt' = hurt, jobs' = jobs,
         DOMAIN job' = DOMAIN job, \A f \in DOMAIN job \ {"writes", "copies"} : job'[f] = job[f],
         job'.writes \in Seq(Range(job'.writes)), job'.copies \in Seq(Range(job'.copies)),
         disk' \in Seq(Range(disk')), Len(disk') = Len(disk),
         \A b \in DOMAIN disk' : DOMAIN disk'[b] = {"chain", "data"},
         ~ (job.risky \/ hurt) => Reads(disk', meta, image),
         Underway'
  PROVE  RewriteInv'
<1>1. /\ ImageSound(image) /\ MetaSound(meta, image) /\ kind \in Kinds
      /\ TypeOK /\ MetaInFile /\ JobSound
  BY DEF RewriteInv, FileSound
<1>2. /\ job'.on = TRUE /\ job'.meta = job.meta /\ job'.image = job.image
      /\ job'.limit = job.limit /\ job'.risky = job.risky /\ job'.named = job.named
      /\ DOMAIN job' = DOMAIN NoJob
  BY <1>1, JobFields
<1>3. /\ ImageSound(job.image) /\ MetaSound(job.meta, job.image)
      /\ FitsIn(job.meta, Len(disk) + 1) /\ job.limit \in Nat
      /\ job.limit > 0 => FitsIn(job.meta, job.limit)
  BY <1>1 DEF JobSound
<1>4. job'.named = FALSE
  BY <1>2
<1>5. JobSound'
  BY <1>2, <1>3, <1>4, AssembledJob
<1>6. /\ hurt' \in BOOLEAN /\ jobs' \in 0 .. MaxJobs
      /\ job'.limit = 0 \/ job'.meta.at["ids"].first <= job'.limit
  <2>1. job.on => job.limit = 0 \/ job.meta.at["ids"].first <= job.limit
    BY <1>1 DEF TypeOK
  <2>2. hurt \in BOOLEAN /\ jobs \in 0 .. MaxJobs
    BY <1>1 DEF TypeOK
  <2>. QED  BY <1>2, <2>1, <2>2
<1>7. FitsIn(meta', Len(disk') + 1)
  BY <1>1 DEF MetaInFile
<1>8. (IF job'.on THEN job'.named \/ ~ (job'.risky \/ hurt') ELSE ~ hurt')
        => Reads(disk', meta', image')
  BY <1>2, <1>4
<1>. QED  BY <1>1, <1>5, <1>6, <1>7, <1>8, Assembled

\* write_chain_at, page by page: the item of a rewrite that only adds is that
\* of the image before, so that writing it leaves the old image readable.
LEMMA WritePageSound ==
  ASSUME RewriteInv, WritePage
  PROVE  RewriteInv'
<1>. DEFINE w == Head(job.writes)
            e == Written(disk, w)
            m == job.meta
            img == job.image
            rest == Tail(job.writes)
<1>1. /\ job.writes # <<>> /\ disk' = e /\ job' = [job EXCEPT !.writes = rest]
      /\ kind' = kind /\ meta' = meta /\ image' = image /\ hurt' = hurt /\ jobs' = jobs
  BY DEF WritePage
<1>2. /\ ImageSound(image) /\ MetaSound(meta, image) /\ PagesSound /\ JobSound /\ ImageReadable
  BY DEF RewriteInv, FileSound
<1>3. job.on
  BY <1>1, <1>2, NothingToDo
<1>4. ~ job.named /\ Underway
  BY <1>1, <1>2, <1>3 DEF JobSound, Named
<1>5. job.copies = <<>> /\ WritesSound(job.writes, disk, m, img)
  BY <1>1, <1>4 DEF Underway
<1>6. ~ job.risky => OnlyAdds(img, m.at)
  BY <1>4 DEF Underway
<1>7. /\ ImageSound(img) /\ MetaSound(m, img) /\ job.writes \in Seq(Range(job.writes))
  BY <1>2, <1>3 DEF JobSound
<1>8. /\ DOMAIN job = {"on", "writes", "copies", "meta", "image", "limit", "risky", "named"}
  BY <1>2, <1>3, JobFields
<1>. HIDE DEF e, rest
<1>9. /\ job'.writes = rest /\ DOMAIN job' = DOMAIN job
      /\ \A f \in DOMAIN job \ {"writes", "copies"} : job'[f] = job[f]
      /\ job'.copies = job.copies
  BY <1>1, <1>8
<1>10. /\ Len(job.writes) \in Nat \ {0} /\ DOMAIN job.writes = 1 .. Len(job.writes)
       /\ Len(rest) = Len(job.writes) - 1 /\ DOMAIN rest = 1 .. Len(rest)
       /\ \A k \in 1 .. Len(rest) : rest[k] = job.writes[k + 1]
       /\ w = job.writes[1] /\ 1 \in DOMAIN job.writes
  BY <1>1, <1>7 DEF rest
<1>11. w.block \in DOMAIN disk /\ PageSound(w, m, img) /\ DOMAIN w.page = {"chain", "data"}
  BY <1>5, <1>10, SMTT(30) DEF WritesSound, PageSound
<1>12. /\ e \in Seq(Range(e)) /\ Len(e) = Len(disk) /\ DOMAIN e = DOMAIN disk
       /\ \A b \in DOMAIN e : DOMAIN e[b] = {"chain", "data"}
       /\ \A b \in DOMAIN disk : b # w.block => e[b] = disk[b]
       /\ e[w.block].chain = w.page.chain /\ e[w.block].data = w.page.data
  BY <1>2, <1>11, WrittenFields DEF e
<1>13. rest \in Seq(Range(rest))
  <2>. DEFINE S == Range(job.writes)
              s == job.writes
  <2>1. s \in Seq(S) /\ s # <<>> /\ rest = Tail(s)
    BY <1>1, <1>7 DEF rest
  <2>. HIDE DEF S, s
  <2>2. rest \in Seq(S)
    BY <2>1, HeadTailProperties
  <2>. QED  BY <2>2, SeqOfRange
<1>. HIDE DEF w, m, img
<1>14. ASSUME NEW c \in Chain, NEW i \in 1 .. m.len[c], BlockOf(m.at, c, i) = w.block
       PROVE  HasItem(e, m.at, c, i, Content(img)[c][i])
  BY <1>11, <1>12, <1>14, WrittenItem
<1>15. WritesSound(rest, e, m, img)
  <2>1. ASSUME NEW k \in DOMAIN rest
        PROVE  rest[k].block \in DOMAIN e /\ PageSound(rest[k], m, img)
    <3>1. k + 1 \in DOMAIN job.writes /\ rest[k] = job.writes[k + 1]
      BY <1>10
    <3>. QED  BY <1>5, <1>12, <3>1 DEF WritesSound
  <2>2. ASSUME NEW c \in Chain, NEW i \in 1 .. m.len[c]
        PROVE  \/ HasItem(e, m.at, c, i, Content(img)[c][i])
               \/ \E k \in DOMAIN rest : rest[k].block = BlockOf(m.at, c, i)
    <3>1. CASE BlockOf(m.at, c, i) = w.block
      BY <1>14, <3>1
    <3>2. CASE BlockOf(m.at, c, i) # w.block
      <4>1. \/ HasItem(disk, m.at, c, i, Content(img)[c][i])
            \/ \E k \in DOMAIN job.writes : job.writes[k].block = BlockOf(m.at, c, i)
        BY <1>5 DEF WritesSound
      <4>2. CASE HasItem(disk, m.at, c, i, Content(img)[c][i])
        <5>1. BlockOf(m.at, c, i) \in DOMAIN disk
          BY <4>2 DEF HasItem
        <5>. QED  BY <1>12, <3>2, <4>2, <5>1, ItemKept
      <4>3. ASSUME NEW k \in DOMAIN job.writes, job.writes[k].block = BlockOf(m.at, c, i)
            PROVE  \E l \in DOMAIN rest : rest[l].block = BlockOf(m.at, c, i)
        <5>1. k # 1
          BY <1>10, <3>2, <4>3
        <5>2. k - 1 \in DOMAIN rest /\ rest[k - 1] = job.writes[k]
          BY <1>10, <5>1
        <5>. QED  BY <4>3, <5>2
      <4>. QED  BY <4>1, <4>2, <4>3
    <3>. QED  BY <3>1, <3>2
  <2>. QED  BY <2>1, <2>2 DEF WritesSound
<1>16. ~ (job.risky \/ hurt) => Reads(disk', meta, image)
  <2>1. HAVE ~ (job.risky \/ hurt)
  <2>2. Reads(disk, meta, image)
    BY <1>2, <1>3, <2>1 DEF ImageReadable
  <2>3. ASSUME NEW c \in Chain, NEW i \in 1 .. meta.len[c]
        PROVE  HasItem(e, meta.at, c, i, Content(image)[c][i])
    <3>1. HasItem(disk, meta.at, c, i, Content(image)[c][i])
      BY <2>2 DEF Reads
    <3>2. CASE BlockOf(meta.at, c, i) # w.block
      <4>1. BlockOf(meta.at, c, i) \in DOMAIN disk
        BY <3>1 DEF HasItem
      <4>. QED  BY <1>12, <3>1, <3>2, <4>1, ItemKept
    <3>3. CASE BlockOf(meta.at, c, i) = w.block
      <4>. DEFINE old == Content(image)[c]
                  new == Content(img)[c]
      <4>1. /\ meta.len[c] = Len(old) /\ meta.len[c] \in Nat
            /\ m.len[c] = Len(new) /\ m.len[c] \in Nat
        BY <1>2, <1>7, MetaType DEF m, img
      <4>2. m.at[c].first = meta.at[c].first /\ IsPrefix(old, new)
        BY <1>6, <2>1, <4>1 DEF OnlyAdds, m, img
      <4>3. old \in Seq(Item) /\ new \in Seq(Item)
        BY <1>2, <1>7, ContentType DEF ImageSound, img
      <4>. HIDE DEF old, new
      <4>4. Len(old) <= Len(new) /\ old[i] = new[i]
        <5>1. Len(old) <= Len(new) /\ SubSeq(old, 1, Len(old)) = SubSeq(new, 1, Len(old))
          BY <4>2 DEF IsPrefix
        <5>2. i \in 1 .. Len(old)
          BY <4>1
        <5>3. SubSeq(old, 1, Len(old))[i] = old[i]
          BY <4>1, <4>3, <5>2
        <5>4. SubSeq(new, 1, Len(old))[i] = new[i]
          BY <4>1, <4>3, <5>1, <5>2
        <5>. QED  BY <5>1, <5>3, <5>4
      <4>5. i \in 1 .. m.len[c] /\ BlockOf(m.at, c, i) = w.block
        BY <3>3, <4>1, <4>2, <4>4 DEF BlockOf
      <4>6. HasItem(e, m.at, c, i, new[i])
        BY <1>14, <4>5 DEF new
      <4>7. BlockOf(m.at, c, i) = BlockOf(meta.at, c, i)
        BY <3>3, <4>5
      <4>. QED  BY <4>4, <4>6, <4>7 DEF HasItem, old
    <3>. QED  BY <3>2, <3>3
  <2>. QED  BY <1>1, <2>2, <2>3 DEF Reads
<1>17. job'.copies = <<>> /\ <<>> \in Seq(Range(<<>>))
  BY <1>5, <1>9
<1>18. job'.meta = m /\ job'.image = img /\ job'.risky = job.risky
  BY <1>8, <1>9 DEF m, img
<1>19. Underway'
  <2>1. WritesSound(job'.writes, disk', job'.meta, job'.image)
    BY <1>1, <1>9, <1>15, <1>18
  <2>2. ~ job'.risky => OnlyAdds(job'.image, job'.meta.at)
    BY <1>6, <1>18
  <2>. QED  BY <1>1, <1>17, <2>1, <2>2, AssembledUnderway
<1>. QED  BY <1>1, <1>3, <1>4, <1>9, <1>12, <1>13, <1>16, <1>17, <1>19, JobGoesOn

\* copy_slot_in_chain: behind the last copy the rows that are left lie there as
\* the next meta page will say.
LEMMA CopySlotSound ==
  ASSUME RewriteInv, CopySlot
  PROVE  RewriteInv'
<1>. DEFINE e == Copied(disk, meta.at, Head(job.copies))
            rest == Tail(job.copies)
            n == Len(image.rows)
            m == n - Len(job.image.rows)
<1>1. /\ job.copies # <<>> /\ disk' = e /\ job' = [job EXCEPT !.copies = rest]
      /\ kind' = kind /\ meta' = meta /\ image' = image /\ hurt' = hurt /\ jobs' = jobs
  BY DEF CopySlot
<1>2. /\ ImageSound(image) /\ MetaSound(meta, image) /\ PagesSound /\ JobSound
  BY DEF RewriteInv, FileSound
<1>3. job.on
  BY <1>1, <1>2, NothingToDo
<1>4. ~ job.named /\ Underway
  BY <1>1, <1>2, <1>3 DEF JobSound, Named
<1>5. /\ ImageSound(job.image) /\ MetaSound(job.meta, job.image)
      /\ job.copies \in Seq(Range(job.copies))
  BY <1>2, <1>3 DEF JobSound
<1>6. /\ kind = "flat" /\ job.writes = <<>> /\ job.risky
      /\ \A c \in Chain : job.meta.at[c].first = meta.at[c].first
      /\ \E dead \in [1 .. m -> 1 .. n] :
           /\ job.image.rows = RowsLeft(image.rows, dead)[m]
           /\ CopiesSound(job.copies, disk, meta.at, image.rows, dead)
  BY <1>1, <1>4 DEF Underway
<1>7. PICK dead \in [1 .. m -> 1 .. n] :
        /\ job.image.rows = RowsLeft(image.rows, dead)[m]
        /\ CopiesSound(job.copies, disk, meta.at, image.rows, dead)
  BY <1>6
<1>8. n \in Nat /\ Len(job.image.rows) \in Nat /\ m \in Int /\ m <= n
  <2>1. n \in Nat /\ Len(job.image.rows) \in Nat
    BY <1>2, <1>5, Lengths DEF ImageSound
  <2>. DEFINE k == Len(job.image.rows)
  <2>2. n \in Nat /\ k \in Nat /\ m = n - k
    BY <2>1
  <2>. HIDE DEF k, m, n
  <2>3. m \in Int /\ m <= n
    BY <2>2
  <2>. QED  BY <2>1, <2>3
<1>9. DOMAIN job = {"on", "writes", "copies", "meta", "image", "limit", "risky", "named"}
  BY <1>2, <1>3, JobFields
<1>. HIDE DEF e, rest
<1>10. /\ job'.copies = rest /\ DOMAIN job' = DOMAIN job
       /\ \A f \in DOMAIN job \ {"writes", "copies"} : job'[f] = job[f]
       /\ job'.writes = job.writes
       /\ job'.meta = job.meta /\ job'.image = job.image /\ job'.risky = job.risky
  BY <1>1, <1>9
<1>. HIDE DEF m, n
<1>11. m \in Nat
  <2>1. ASSUME m < 0 PROVE FALSE
    <3>1. 1 .. m = 1 .. 0
      BY <1>8, <2>1
    <3>2. dead \in [1 .. 0 -> 1 .. n]
      BY <1>7, <3>1
    <3>3. Len(dead) = 0
      BY <3>2
    <3>4. Len(job.copies) <= 3 * Len(dead)
      BY <1>7 DEF CopiesSound
    <3>5. Len(job.copies) \in Nat /\ Len(job.copies) # 0
      <4>. DEFINE S == Range(job.copies)
                  s == job.copies
      <4>1. s \in Seq(S) /\ s # <<>>
        BY <1>1, <1>5
      <4>. HIDE DEF S, s
      <4>2. Len(s) \in Nat /\ Len(s) # 0
        BY <4>1
      <4>. QED  BY <4>2 DEF s
    <3>. QED  BY <3>3, <3>4, <3>5
  <2>. QED  BY <1>8, <2>1
<1>12. /\ CopiesSound(rest, e, meta.at, image.rows, dead)
       /\ DOMAIN e = DOMAIN disk
       /\ \A b \in DOMAIN e : DOMAIN e[b] = {"chain", "data"}
  <2>1. m \in 0 .. Len(image.rows) /\ dead \in [1 .. m -> 1 .. Len(image.rows)]
    BY <1>7, <1>8, <1>11 DEF n
  <2>2. \A b \in DOMAIN disk : DOMAIN disk[b] = {"chain", "data"}
    BY <1>2 DEF PagesSound
  <2>. DEFINE s == job.copies
  <2>3. /\ s \in Seq(Range(s)) /\ s # <<>> /\ CopiesSound(s, disk, meta.at, image.rows, dead)
        /\ e = Copied(disk, meta.at, Head(s)) /\ rest = Tail(s)
    BY <1>1, <1>5, <1>7 DEF e, rest
  <2>. HIDE DEF s
  <2>4. OneCopied(s, disk, meta.at, image.rows, dead)
    <3>1. ImageSound(image) /\ MetaSound(meta, image) /\ kind = "flat"
      BY <1>2, <1>6
    <3>2. s \in Seq(Range(s)) /\ s # <<>> /\ CopiesSound(s, disk, meta.at, image.rows, dead)
      BY <2>3
    <3>. QED  BY <2>1, <2>2, <3>1, <3>2, CopyOne
  <2>. QED  BY <2>3, <2>4 DEF OneCopied
<1>13. e \in Seq(Range(e)) /\ Len(e) = Len(disk)
  <2>1. disk \in Seq(Range(disk))
    BY <1>2 DEF PagesSound
  <2>2. Len(disk) \in Nat /\ DOMAIN disk = 1 .. Len(disk)
    BY <2>1
  <2>. DEFINE k == Len(disk)
              R == Range(e)
  <2>3. e = [b \in 1 .. k |-> e[b]]
    <3>1. e = [b \in DOMAIN disk |-> e[b]]
      BY DEF e, Copied
    <3>. QED  BY <2>2, <3>1
  <2>4. \A b \in 1 .. k : e[b] \in R
    BY <1>12, <2>2 DEF Range
  <2>. HIDE DEF k, R
  <2>5. k \in Nat
    BY <2>2 DEF k
  <2>6. [b \in 1 .. k |-> e[b]] \in Seq(R)
    BY <2>4, <2>5
  <2>7. e \in Seq(R)
    BY <2>3, <2>6, Zenon
  <2>8. Len(e) = k
    BY <2>3, <2>5
  <2>. QED  BY <2>7, <2>8 DEF R, k
<1>14. rest \in Seq(Range(job.copies))
  <2>. DEFINE S == Range(job.copies)
              s == job.copies
  <2>1. s \in Seq(S) /\ s # <<>> /\ rest = Tail(s)
    BY <1>1, <1>5 DEF rest
  <2>. HIDE DEF S, s
  <2>2. rest \in Seq(S)
    BY <2>1, HeadTailProperties
  <2>. QED  BY <2>2 DEF S
<1>15. rest \in Seq(Range(rest))
  BY <1>14, SeqOfRange
<1>16. Underway'
  <2>1. CASE rest # <<>>
    <3>1. dead \in [1 .. Len(image.rows) - Len(job'.image.rows) -> 1 .. Len(image.rows)]
      BY <1>7, <1>10 DEF m, n
    <3>2. job'.image.rows = RowsLeft(image.rows, dead)[Len(image.rows) - Len(job'.image.rows)]
      BY <1>7, <1>10 DEF m, n
    <3>3. CopiesSound(job'.copies, disk', meta.at, image.rows, dead)
      BY <1>1, <1>10, <1>12
    <3>4. \A c \in Chain : job'.meta.at[c].first = meta.at[c].first
      BY <1>6, <1>10
    <3>5. job'.copies # <<>> /\ job'.writes = <<>> /\ job'.risky = TRUE
      BY <1>6, <1>10, <2>1
    <3>. QED  BY <1>1, <1>6, <3>1, <3>2, <3>3, <3>4, <3>5, AssembledCopies
  <2>2. CASE rest = <<>>
    <3>1. CopiesSound(<<>>, e, meta.at, image.rows, dead)
      BY <1>12, <2>2
    <3>2. m \in 0 .. Len(image.rows) /\ dead \in [1 .. m -> 1 .. Len(image.rows)]
      BY <1>7, <1>8, <1>11 DEF n
    <3>3. WritesSound(<<>>, e, job.meta, job.image)
      BY <1>2, <1>5, <1>6, <1>7, <3>1, <3>2, CopiesEnd
    <3>4. WritesSound(job'.writes, disk', job'.meta, job'.image)
      BY <1>1, <1>6, <1>10, <3>3
    <3>5. job'.copies = <<>> /\ (~ job'.risky => OnlyAdds(job'.image, job'.meta.at))
      BY <1>6, <1>10, <2>2
    <3>. QED  BY <1>1, <3>4, <3>5, AssembledUnderway
  <2>. QED  BY <2>1, <2>2
<1>17. job'.writes \in Seq(Range(job'.writes)) /\ job'.copies \in Seq(Range(job'.copies))
  <2>1. <<>> \in Seq(Range(<<>>))
    OBVIOUS
  <2>. QED  BY <1>6, <1>10, <1>15, <2>1
<1>18. ~ (job.risky \/ hurt) => Reads(disk', meta, image)
  BY <1>6
<1>. QED  BY <1>1, <1>3, <1>4, <1>10, <1>12, <1>13, <1>16, <1>17, <1>18, JobGoesOn

\* write_meta: what the rewrite has written is what readers get from now on.
LEMMA WriteMetaSound ==
  ASSUME RewriteInv, WriteMeta
  PROVE  RewriteInv'
<1>1. /\ job.on /\ ~ job.named /\ job.writes = <<>> /\ job.copies = <<>>
      /\ meta' = job.meta /\ image' = job.image /\ job' = [job EXCEPT !.named = TRUE]
      /\ hurt' = FALSE /\ kind' = kind /\ disk' = disk /\ jobs' = jobs
  BY DEF WriteMeta, ChainsWritten
<1>2. JobSound /\ PagesSound /\ TypeOK /\ kind \in Kinds
  BY DEF RewriteInv, FileSound
<1>3. DOMAIN job = {"on", "writes", "copies", "meta", "image", "limit", "risky", "named"}
  BY <1>1, <1>2, JobFields
<1>4. /\ job'.on = TRUE /\ job'.named = TRUE /\ job'.meta = job.meta /\ job'.image = job.image
      /\ job'.writes = <<>> /\ job'.copies = <<>> /\ job'.limit = job.limit
      /\ DOMAIN job' = DOMAIN job
  <2>1. job.on = TRUE
    BY <1>1, <1>2, JobFields
  <2>. QED  BY <1>1, <1>3, <2>1
<1>5. /\ ImageSound(job.image) /\ MetaSound(job.meta, job.image)
      /\ FitsIn(job.meta, Len(disk) + 1) /\ job.limit \in Nat
      /\ job.limit > 0 => FitsIn(job.meta, job.limit)
      /\ DOMAIN job = DOMAIN NoJob /\ Underway
  BY <1>1, <1>2 DEF JobSound
<1>6. Reads(disk, job.meta, job.image)
  <2>1. WritesSound(<<>>, disk, job.meta, job.image)
    BY <1>1, <1>5 DEF Underway
  <2>2. DOMAIN <<>> = {}
    OBVIOUS
  <2>3. ASSUME NEW c \in Chain, NEW i \in 1 .. job.meta.len[c]
        PROVE  HasItem(disk, job.meta.at, c, i, Content(job.image)[c][i])
    BY <2>1, <2>2 DEF WritesSound
  <2>4. \A c \in Chain : job.meta.len[c] = Len(Content(job.image)[c])
    BY <1>5, MetaType
  <2>. QED  BY <2>3, <2>4 DEF Reads
<1>7. JobSound'
  <2>1. ImageSound(job.image)' /\ MetaSound(job.meta, job.image)'
    BY <1>1, <1>4, <1>5, SoundNext
  <2>2. FitsIn(job.meta, Len(disk) + 1)' /\ (job.limit > 0 => FitsIn(job.meta, job.limit))'
    BY <1>1, <1>4, <1>5 DEF FitsIn
  <2>3. DOMAIN NoJob' = DOMAIN NoJob
    BY DEF NoJob
  <2>4. Named'
    BY <1>1, <1>4 DEF Named
  <2>5. DOMAIN job' = DOMAIN NoJob'
    BY <1>4, <1>5, <2>3
  <2>6. <<>> \in Seq(Range(<<>>))
    OBVIOUS
  <2>7. job'.writes \in Seq(Range(job'.writes)) /\ job'.copies \in Seq(Range(job'.copies))
    BY <1>4, <2>6
  <2>8. job'.limit \in Nat
    BY <1>4, <1>5
  <2>. HIDE DEF NoJob
  <2>. QED  BY <1>4, <2>1, <2>2, <2>4, <2>5, <2>7, <2>8 DEF JobSound
<1>8. /\ disk' \in Seq(Range(disk')) /\ \A b \in DOMAIN disk' : DOMAIN disk'[b] = {"chain", "data"}
  BY <1>1, <1>2 DEF PagesSound
<1>9. /\ hurt' \in BOOLEAN /\ jobs' \in 0 .. MaxJobs
      /\ job'.limit = 0 \/ job'.meta.at["ids"].first <= job'.limit
  BY <1>1, <1>2, <1>4 DEF TypeOK
<1>10. ImageSound(image') /\ MetaSound(meta', image') /\ FitsIn(meta', Len(disk') + 1)
  BY <1>1, <1>5
<1>11. Reads(disk', meta', image')
  BY <1>1, <1>6
<1>. QED  BY <1>1, <1>2, <1>7, <1>8, <1>9, <1>10, <1>11, Assembled

-----------------------------------------------------------------------------
(* The end of a rewrite.                                                   *)

\* No rewrite is no rewrite, of whatever kind the index is.
LEMMA NoJobNext ==
  ASSUME kind' = kind
  PROVE  NoJob' = NoJob
<1>1. Content(NoImage)' = Content(NoImage)
  BY DEF Content, Only, OneBit, NoImage
<1>2. NoImage' = NoImage
  BY DEF NoImage
<1>3. MetaFor(NoImage, NoChains)' = MetaFor(NoImage, NoChains)
  BY <1>1 DEF MetaFor
<1>. QED  BY <1>2, <1>3 DEF NoJob

\* A file that nothing rewrites any more.
LEMMA JobEnds ==
  ASSUME RewriteInv, job' = NoJob, kind' = kind, meta' = meta, image' = image, jobs' = jobs,
         hurt' \in BOOLEAN,
         disk' \in Seq(Range(disk')),
         \A b \in DOMAIN disk' : DOMAIN disk'[b] = {"chain", "data"},
         FitsIn(meta, Len(disk') + 1), ~ hurt' => Reads(disk', meta, image)
  PROVE  RewriteInv'
<1>1. ImageSound(image) /\ MetaSound(meta, image) /\ TypeOK /\ kind \in Kinds
  BY DEF RewriteInv, FileSound
<1>2. job' = NoJob'
  BY NoJobNext
<1>3. job'.on = FALSE
  BY DEF NoJob
<1>4. JobSound'
  <2>. HIDE DEF NoJob
  <2>. QED  BY <1>2, <1>3 DEF JobSound
<1>5. jobs' \in 0 .. MaxJobs
  BY <1>1 DEF TypeOK
<1>. QED  BY <1>1, <1>3, <1>4, <1>5, Assembled

\* A stopped rewrite leaves the file as it is; one that might have spoilt the
\* rows is remembered.
LEMMA StopSound ==
  ASSUME RewriteInv, Stop
  PROVE  RewriteInv'
<1>1. /\ job.on /\ job' = NoJob /\ hurt' = (hurt \/ (job.risky /\ ~ job.named))
      /\ kind' = kind /\ meta' = meta /\ disk' = disk /\ image' = image /\ jobs' = jobs
  BY DEF Stop
<1>2. PagesSound /\ ImageReadable /\ MetaInFile /\ JobSound
  BY DEF RewriteInv, FileSound
<1>3. hurt' \in BOOLEAN
  BY <1>1
<1>4. ~ hurt' => Reads(disk, meta, image)
  BY <1>1, <1>2 DEF ImageReadable
<1>5. FitsIn(meta, Len(disk) + 1)
  BY <1>2 DEF MetaInFile
<1>. QED  BY <1>1, <1>2, <1>3, <1>4, <1>5, JobEnds DEF PagesSound

\* Truncating the file takes nothing away that the meta page names.
LEMMA FinishSound ==
  ASSUME RewriteInv, Finish
  PROVE  RewriteInv'
<1>. DEFINE cut == job.limit > 0 /\ Len(disk) + 1 > job.limit
<1>1. /\ job.on /\ job.named /\ job' = NoJob
      /\ disk' = IF cut THEN SubSeq(disk, 1, job.limit - 1) ELSE disk
      /\ kind' = kind /\ meta' = meta /\ image' = image /\ hurt' = hurt /\ jobs' = jobs
  BY DEF Finish
<1>2. /\ PagesSound /\ ImageReadable /\ MetaInFile /\ JobSound /\ TypeOK
      /\ ImageSound(image) /\ MetaSound(meta, image)
  BY DEF RewriteInv, FileSound
<1>3. job.limit \in Nat /\ (job.limit > 0 => FitsIn(meta, job.limit))
  BY <1>1, <1>2 DEF JobSound, Named
<1>4. Reads(disk, meta, image)
  BY <1>1, <1>2 DEF ImageReadable
<1>5. hurt' \in BOOLEAN
  BY <1>1, <1>2 DEF TypeOK
<1>6. CASE ~ cut
  <2>1. disk' = disk
    BY <1>1, <1>6
  <2>2. FitsIn(meta, Len(disk') + 1)
    BY <1>2, <2>1 DEF MetaInFile
  <2>. QED  BY <1>1, <1>2, <1>4, <1>5, <2>1, <2>2, JobEnds DEF PagesSound
<1>7. CASE cut
  <2>. DEFINE limit == job.limit
              k == limit - 1
              d == disk
              e == SubSeq(d, 1, k)
              S == Range(disk)
  <2>1. disk' = e /\ limit > 0 /\ limit \in Nat /\ Len(d) + 1 > limit /\ FitsIn(meta, limit)
    BY <1>1, <1>3, <1>7
  <2>2. d \in Seq(S) /\ \A b \in DOMAIN d : DOMAIN d[b] = {"chain", "data"}
    BY <1>2 DEF PagesSound
  <2>. HIDE DEF limit, S, d
  <2>3. /\ k \in Nat /\ k <= Len(d) /\ Len(d) \in Nat /\ DOMAIN d = 1 .. Len(d)
        /\ k + 1 = limit
    BY <2>1, <2>2
  <2>. HIDE DEF k
  <2>4. e \in Seq(S) /\ Len(e) = k /\ DOMAIN e = 1 .. k /\ \A b \in 1 .. k : e[b] = d[b]
    BY <2>2, <2>3
  <2>. HIDE DEF e
  <2>5. e \in Seq(Range(e))
    BY <2>4, SeqOfRange
  <2>6. \A b \in DOMAIN e : DOMAIN e[b] = {"chain", "data"}
    BY <2>2, <2>3, <2>4
  <2>7. FitsIn(meta, Len(e) + 1)
    BY <2>1, <2>3, <2>4
  <2>8. ASSUME NEW c \in Chain, NEW i \in 1 .. meta.len[c]
        PROVE  HasItem(e, meta.at, c, i, Content(image)[c][i])
    <3>. DEFINE b == BlockOf(meta.at, c, i)
                end == meta.at[c].first + PagesNeeded(meta.len[c], PerPage[c])
    <3>1. HasItem(d, meta.at, c, i, Content(image)[c][i])
      BY <1>4 DEF Reads, d
    <3>2. b \in DOMAIN d
      BY <3>1 DEF HasItem
    <3>3. b \in Nat /\ b < end /\ end \in Nat
      <4>1. /\ meta.at[c].first \in Nat /\ PagesNeeded(meta.len[c], PerPage[c]) \in Nat
        BY <1>2, MetaType
      <4>2. b \in Nat /\ b < end
        BY <1>2, BlockInChain
      <4>. QED  BY <4>1, <4>2
    <3>4. end <= limit
      <4>1. meta.len[c] \in Nat
        BY <1>2, MetaType
      <4>2. meta.len[c] > 0
        BY <4>1
      <4>. QED  BY <2>1, <4>2 DEF FitsIn
    <3>. HIDE DEF b, end
    <3>5. b \in 1 .. k
      BY <2>1, <2>3, <3>2, <3>3, <3>4
    <3>. QED  BY <2>4, <3>1, <3>5, ItemKept DEF b
  <2>9. Reads(e, meta, image)
    BY <1>4, <2>8 DEF Reads
  <2>. QED  BY <1>1, <1>5, <2>1, <2>5, <2>6, <2>7, <2>9, JobEnds
<1>. QED  BY <1>6, <1>7

-----------------------------------------------------------------------------
(* A new file.                                                             *)

\* REINDEX leaves what an index build leaves.
LEMMA ReindexSound ==
  ASSUME RewriteInv, Reindex
  PROVE  RewriteInv'
<1>. DEFINE n == Len(image.rows)
            live == {i \in DOMAIN image.rows : ~ (i \in DOMAIN image.tomb /\ image.tomb[i])}
            k == Cardinality(live)
            rows == [j \in 1 .. k |-> image.rows[InOrder(live)[j]]]
            img == Built(rows)
            m == MetaFor(img, LayoutOf(img))
            d == DiskOf(img)
<1>1. /\ ~ job.on /\ jobs < MaxJobs /\ image' = img /\ meta' = m /\ disk' = d
      /\ hurt' = FALSE /\ jobs' = jobs + 1 /\ kind' = kind /\ job' = job
  BY DEF Reindex
<1>2. /\ kind \in Kinds /\ JobSound /\ TypeOK /\ image.rows \in Seq(Row)
  BY DEF RewriteInv, FileSound, ImageSound, Image
<1>3. n \in Nat /\ DOMAIN image.rows = 1 .. n /\ \A i \in 1 .. n : image.rows[i] \in Row
  BY <1>2
<1>4. live \subseteq 1 .. n
  BY <1>3
<1>. HIDE DEF n, live
<1>5. k \in Nat /\ InOrder(live) \in [1 .. k -> live]
  BY <1>3, <1>4, InOrderList
<1>6. rows \in Seq(Row)
  <2>. DEFINE row(j) == image.rows[InOrder(live)[j]]
  <2>1. \A j \in 1 .. k : row(j) \in Row
    BY <1>3, <1>4, <1>5
  <2>2. rows = [j \in 1 .. k |-> row(j)]
    OBVIOUS
  <2>. HIDE DEF row, k, rows
  <2>3. [j \in 1 .. k |-> row(j)] \in Seq(Row)
    BY <1>5, <2>1
  <2>. QED  BY <2>2, <2>3, Zenon
<1>. HIDE DEF rows
<1>7. /\ ImageSound(img) /\ MetaSound(m, img)
      /\ d \in Seq(Range(d)) /\ \A b \in DOMAIN d : DOMAIN d[b] = {"chain", "data"}
      /\ FitsIn(m, Len(d) + 1) /\ Reads(d, m, img)
  BY <1>2, <1>6, BuiltFile
<1>. HIDE DEF img, m, d
<1>8. job = NoJob
  BY <1>1, <1>2, NothingToDo
<1>9. job'.on = FALSE
  BY <1>1, <1>8 DEF NoJob
<1>10. JobSound'
  <2>1. job' = NoJob'
    BY <1>1, <1>8, NoJobNext
  <2>. HIDE DEF NoJob
  <2>. QED  BY <1>9, <2>1 DEF JobSound
<1>11. jobs' \in 0 .. MaxJobs /\ hurt' \in BOOLEAN
  <2>1. jobs \in 0 .. MaxJobs /\ MaxJobs \in Nat
    BY <1>2, BoundsAssumption DEF TypeOK
  <2>2. jobs' = jobs + 1 /\ jobs < MaxJobs /\ hurt' = FALSE
    BY <1>1
  <2>3. jobs' \in 0 .. MaxJobs
    BY <2>1, <2>2
  <2>. QED  BY <2>2, <2>3
<1>. QED  BY <1>1, <1>2, <1>7, <1>9, <1>10, <1>11, Assembled

-----------------------------------------------------------------------------
(* Every step keeps the invariant.                                         *)

\* A step of none of the variables.
LEMMA StutterSound ==
  ASSUME RewriteInv, kind' = kind, meta' = meta, disk' = disk, image' = image, job' = job,
         hurt' = hurt, jobs' = jobs
  PROVE  RewriteInv'
<1>1. /\ kind \in Kinds /\ ImageSound(image) /\ MetaSound(meta, image)
      /\ PagesSound /\ JobSound /\ TypeOK /\ ImageReadable /\ MetaInFile
  BY DEF RewriteInv, FileSound
<1>2. disk \in Seq(Range(disk)) /\ \A b \in DOMAIN disk : DOMAIN disk[b] = {"chain", "data"}
  BY <1>1 DEF PagesSound
<1>3. FitsIn(meta, Len(disk) + 1)
  BY <1>1 DEF MetaInFile
<1>4. /\ hurt \in BOOLEAN /\ jobs \in 0 .. MaxJobs
      /\ job.on => job.limit = 0 \/ job.meta.at["ids"].first <= job.limit
  BY <1>1 DEF TypeOK
<1>5. (IF job.on THEN job.named \/ ~ (job.risky \/ hurt) ELSE ~ hurt) => Reads(disk, meta, image)
  BY <1>1 DEF ImageReadable
<1>6. CASE ~ job.on
  <2>1. job' = NoJob
    BY <1>1, <1>6, NothingToDo
  <2>. QED  BY <1>2, <1>3, <1>4, <1>5, <1>6, <2>1, JobEnds
<1>7. CASE job.on
  <2>1. /\ ImageSound(job.image) /\ MetaSound(job.meta, job.image)
        /\ FitsIn(job.meta, Len(disk) + 1)
        /\ job.limit \in Nat /\ (job.limit > 0 => FitsIn(job.meta, job.limit))
        /\ job.writes \in Seq(Range(job.writes)) /\ job.copies \in Seq(Range(job.copies))
        /\ IF job.named THEN Named ELSE Underway
        /\ job.on = TRUE /\ DOMAIN job = DOMAIN NoJob
    BY <1>1, <1>7 DEF JobSound
  <2>2. CASE ~ job.named
    <3>1. Underway
      BY <2>1, <2>2
    <3>2. Underway'
      <4>1. CASE job.copies = <<>>
        <5>1. /\ ~ job.risky => OnlyAdds(job.image, job.meta.at)
              /\ WritesSound(job.writes, disk, job.meta, job.image)
          BY <3>1, <4>1 DEF Underway
        <5>. QED  BY <4>1, <5>1, AssembledUnderway
      <4>2. CASE job.copies # <<>>
        <5>1. /\ kind = "flat" /\ job.writes = <<>> /\ job.risky
              /\ \A c \in Chain : job.meta.at[c].first = meta.at[c].first
              /\ \E dead \in [1 .. Len(image.rows) - Len(job.image.rows) -> 1 .. Len(image.rows)] :
                   /\ job.image.rows =
                        RowsLeft(image.rows, dead)[Len(image.rows) - Len(job.image.rows)]
                   /\ CopiesSound(job.copies, disk, meta.at, image.rows, dead)
          BY <3>1, <4>2 DEF Underway
        <5>. QED  BY <4>2, <5>1, AssembledCopies
      <4>. QED  BY <4>1, <4>2
    <3>3. ~ (job.risky \/ hurt) => Reads(disk, meta, image)
      BY <1>5, <1>7
    <3>. QED  BY <1>2, <1>7, <2>1, <2>2, <3>2, <3>3, JobGoesOn
  <2>3. CASE job.named
    <3>1. ImageSound(job.image)' /\ MetaSound(job.meta, job.image)'
      BY <2>1, SoundNext
    <3>2. FitsIn(job.meta, Len(disk) + 1)' /\ (job.limit > 0 => FitsIn(job.meta, job.limit))'
      BY <2>1 DEF FitsIn
    <3>3. Named'
      BY <2>1, <2>3 DEF Named
    <3>4. DOMAIN job' = DOMAIN NoJob'
      BY <2>1, NoJobNext
    <3>5. JobSound'
      BY <2>1, <2>3, <3>1, <3>2, <3>3, <3>4 DEF JobSound
    <3>. QED  BY <1>1, <1>2, <1>3, <1>4, <1>5, <3>5, Assembled
  <2>. QED  BY <2>2, <2>3
<1>. QED  BY <1>6, <1>7

\* Every step of the specification.
LEMMA NextRewriteInv == RewriteInv /\ [Next]_vars => RewriteInv'
<1>1. SUFFICES ASSUME RewriteInv, [Next]_vars PROVE RewriteInv'
  OBVIOUS
<1>2. CASE \E s \in 0 .. Len(image.rows), m \in 0 .. 2, v \in Vec :
             \E q \in [1 .. m -> Fresh] : Injective(q) /\ Insert(s, q, v)
  <2>1. PICK s \in 0 .. Len(image.rows), m \in 0 .. 2, v \in Vec :
          \E q \in [1 .. m -> Fresh] : Injective(q) /\ Insert(s, q, v)
    BY <1>2
  <2>2. PICK q \in [1 .. m -> Fresh] : Insert(s, q, v)
    BY <2>1
  <2>. QED  BY <1>1, <2>2, InsertSound
<1>3. CASE \E D \in SUBSET DOMAIN image.rows : VacuumTombstones(D)
  BY <1>1, <1>3, VacuumTombstonesSound
<1>4. CASE \E D \in SUBSET DOMAIN image.rows : VacuumFlat(D)
  BY <1>1, <1>4, VacuumFlatSound
<1>5. CASE WritePage
  BY <1>1, <1>5, WritePageSound
<1>6. CASE CopySlot
  BY <1>1, <1>6, CopySlotSound
<1>7. CASE WriteMeta
  BY <1>1, <1>7, WriteMetaSound
<1>8. CASE Finish
  BY <1>1, <1>8, FinishSound
<1>9. CASE Stop
  BY <1>1, <1>9, StopSound
<1>10. CASE Reindex
  BY <1>1, <1>10, ReindexSound
<1>11. CASE UNCHANGED vars
  <2>1. /\ kind' = kind /\ meta' = meta /\ disk' = disk /\ image' = image
        /\ job' = job /\ hurt' = hurt /\ jobs' = jobs
    BY <1>11 DEF vars
  <2>. QED  BY <1>1, <2>1, StutterSound
<1>. QED
  BY <1>1, <1>2, <1>3, <1>4, <1>5, <1>6, <1>7, <1>8, <1>9, <1>10, <1>11 DEF Next

\* What the pages, the writes still to be done and the copies still to be made
\* have to do with the images, in every state of a rewrite and between rewrites.
\* (write_full_inner, write_full_bq_parts, ambulkdelete, the tombstone paths.)
THEOREM RewriteInvariant == Spec => []RewriteInv
  BY InitRewriteInv, NextRewriteInv, PTL DEF Spec

\* The meta page never names a page past the end of the file, and what it names
\* reads back as the image it stands for, whatever rewrite was stopped at which
\* page: for every kind of index, any page capacities and any rows.
THEOREM FileAlwaysSound == Spec => []FileSound
<1>1. RewriteInv => FileSound
  BY DEF RewriteInv
<1>. QED  BY <1>1, RewriteInvariant, PTL

=============================================================================
