---------------------------- MODULE ChainLayout -----------------------------
(***************************************************************************)
(* Where the chains of a relfile lie.                                      *)
(*                                                                         *)
(* Block 0 is the meta page; every other block belongs to a chain.  The    *)
(* meta page names the first block of each chain and the blocks allocated  *)
(* to it.  No function plans a whole relfile: each places its own chains   *)
(* after those that are there, by a sum of its own over their counts.      *)
(*                                                                         *)
(* A layout maps a chain to its first block and its count; an absent chain *)
(* has 0 for both.  Sizes are in rows (codes, scales, ids, tombstones) or  *)
(* pages (the others).  The blocked chain, which nothing has written since *)
(* wire version 7, is left out.  Counts are not bounded by 2^32 here: a    *)
(* relation has fewer blocks.                                              *)
(***************************************************************************)
EXTENDS Integers

CONSTANT PadPages    \* PAD_PAGES: allocation unit of a long chain

ASSUME PadAssumption == PadPages \in Nat \ {0}

Chain == {"codes", "scales", "ids", "rotation", "mean", "coarse", "dir",
          "graph", "tomb"}

Layout == [Chain -> [first : Nat, count : Nat]]

Absent == [first |-> 0, count |-> 0]
NoChains == [c \in Chain |-> Absent]

\* A chain of n pages at block f; an absent chain has no first block.
Placed(f, n) == [first |-> IF n > 0 THEN f ELSE 0, count |-> n]

-----------------------------------------------------------------------------
PagesNeeded(n, perPage) ==
  IF n = 0 \/ perPage = 0 THEN 0 ELSE (n + perPage - 1) \div perPage

\* A chain as long as one unit is padded to a multiple of it, so that growth
\* seldom moves the chains behind.
PaddedPages(n, perPage) ==
  LET pages == PagesNeeded(n, perPage)
  IN  IF pages < PadPages THEN pages
      ELSE ((pages + PadPages - 1) \div PadPages) * PadPages

\* plan_with_blocked: codes, scales, ids, and the calibration in the chain
\* that once held the rotation.
PlanWithBlocked(n, perPage, rotation) ==
  LET codes  == PaddedPages(n, perPage.codes)
      scales == PaddedPages(n, perPage.scales)
      ids    == PaddedPages(n, perPage.ids)
  IN  [NoChains EXCEPT
         !["codes"]    = [first |-> 1, count |-> codes],
         !["scales"]   = [first |-> 1 + codes, count |-> scales],
         !["ids"]      = [first |-> 1 + codes + scales, count |-> ids],
         !["rotation"] = Placed(1 + codes + scales + ids, rotation)]

\* plan_bq: no scales; the corpus mean after the ids.
PlanBq(n, perPage, mean) ==
  LET codes == PaddedPages(n, perPage.codes)
      ids   == PaddedPages(n, perPage.ids)
  IN  [NoChains EXCEPT
         !["codes"] = [first |-> 1, count |-> codes],
         !["ids"]   = [first |-> 1 + codes, count |-> ids],
         !["mean"]  = Placed(1 + codes + ids, mean)]

\* Mutant: the corpus mean is forgotten, as in three places before 2.6.0.
AfterRotationNoMean(l) ==
  1 + l["codes"].count + l["scales"].count + l["ids"].count + l["rotation"].count

AfterRotation(l) ==
  1 + l["codes"].count + l["scales"].count + l["ids"].count
    + l["rotation"].count + l["mean"].count

SetIvfChains(l, coarse, dir) ==
  [l EXCEPT !["coarse"] = Placed(AfterRotation(l), coarse),
            !["dir"]    = Placed(AfterRotation(l) + coarse, dir)]

SetGraphChain(l, graph) ==
  [l EXCEPT !["graph"] =
     Placed(1 + l["codes"].count + l["scales"].count + l["ids"].count
              + l["rotation"].count + l["coarse"].count + l["dir"].count
              + l["tomb"].count + l["mean"].count, graph)]

\* Mutant: the graph is forgotten, as in 1.24.0.
AfterAllNoGraph(l) ==
  1 + l["codes"].count + l["scales"].count + l["ids"].count
    + l["rotation"].count + l["coarse"].count + l["dir"].count + l["mean"].count

\* The sum of write_full_inner, write_full_bq_parts and
\* write_tombstones_and_meta: the tombstones come last.
AfterAll(l) ==
  1 + l["codes"].count + l["scales"].count + l["ids"].count
    + l["rotation"].count + l["coarse"].count + l["dir"].count
    + l["graph"].count + l["mean"].count

SetTombstones(l, tomb) == [l EXCEPT !["tomb"] = Placed(AfterAll(l), tomb)]

\* write_tombstones_and_meta: a chain that is there stays where it is.
ResetTombstones(l, tomb) ==
  [l EXCEPT !["tomb"] =
     [first |-> IF l["tomb"].first # 0 THEN l["tomb"].first ELSE AfterAll(l),
      count |-> tomb]]

TotalBlocks(l) ==
  1 + l["codes"].count + l["scales"].count + l["ids"].count
    + l["rotation"].count + l["coarse"].count + l["dir"].count
    + l["tomb"].count + l["graph"].count + l["mean"].count

\* write_meta_shrink_in_place: counts shrink, no chain moves.
ShrinkInPlace(l, n, perPage) ==
  [l EXCEPT !["codes"].count  = PaddedPages(n, perPage.codes),
            !["scales"].count = PaddedPages(n, perPage.scales),
            !["ids"].count    = PaddedPages(n, perPage.ids)]

\* truncate_ids_tail: blocks left after a shrink.
IdsEnd(l, n, perPage) == l["ids"].first + PaddedPages(n, perPage.ids)

\* write_full_inner: a TurboQuant relfile.
FullLayout(n, perPage, rotation, coarse, dir, graph, tomb) ==
  SetTombstones(
    SetGraphChain(
      SetIvfChains(PlanWithBlocked(n, perPage, rotation), coarse, dir), graph),
    tomb)

\* write_full_bq_parts: a 1-bit relfile.
BqLayout(n, perPage, mean, coarse, dir, tomb) ==
  SetTombstones(SetIvfChains(PlanBq(n, perPage, mean), coarse, dir), tomb)

-----------------------------------------------------------------------------
\* No two chains share a block.
ChainsDisjoint(l) ==
  \A c, d \in Chain :
    c # d /\ l[c].count > 0 /\ l[d].count > 0 =>
      \/ l[c].first + l[c].count <= l[d].first
      \/ l[d].first + l[d].count <= l[c].first

\* No chain holds the meta page or runs past the blocks planned.
ChainsInside(l) ==
  \A c \in Chain : l[c].count > 0 =>
    l[c].first >= 1 /\ l[c].first + l[c].count <= TotalBlocks(l)

=============================================================================
