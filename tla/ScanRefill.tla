------------------------------ MODULE ScanRefill ----------------------------
(***************************************************************************)
(* One ordered index scan: amrescan, amgettuple and try_refill.  The first *)
(* call searches for k candidates; when the executor has drained a batch   *)
(* and iterative_scan is on, the search is repeated with more coarse cells *)
(* and a larger k, and what has been returned already is left out.         *)
(*                                                                         *)
(* The index does not change under the scan, which holds its cache handle. *)
(* The settings can change between two calls (SET between two FETCHes).    *)
(* Which candidates a search ranks first, and which cells are nearest, is  *)
(* left open: a search may return any k of the slots it looks at.          *)
(***************************************************************************)
EXTENDS Integers, Sequences, SequencesExt, FiniteSets, FiniteSetsExt

CONSTANTS
  Row,          \* heap TIDs
  NoAllow,      \* turbovec.allowlist is empty
  Arms,         \* the ScanHandle arms considered
  MaxLists,     \* coarse cells; 0 is a flat index
  MaxDups,      \* assign_dups
  Settings,     \* the values of the settings
  Widening,     \* factor of the unmasked search (8 in the code)
  MaxSets,      \* bound: changes of the settings
  MaxRescans    \* bound: rescans

ASSUME RowAssumption == IsFiniteSet(Row)
ASSUME ArmsAssumption == Arms \subseteq {"ReadOnly", "Bq", "Ooc", "Mutable", "Graph"}
ASSUME BoundsAssumption ==
  /\ MaxLists \in Nat /\ MaxDups \in Nat \ {0} /\ Widening \in Nat \ {0}
  /\ MaxSets \in Nat /\ MaxRescans \in Nat
ASSUME SettingsAssumption ==
  Settings \subseteq [iterative : BOOLEAN, k : Nat \ {0}, probes : Nat \ {0},
                      maxProbes : Nat \ {0}, maxScan : Nat \ {0},
                      allow : {NoAllow} \cup ((SUBSET Row) \ {{}})]

VARIABLES
  index,     \* the handle: its arm, its coarse cells, the cells in which each
             \* row has a slot, the tombstoned rows
  guc,       \* the session's settings, and how often they changed
  phase,     \* of the executor: "open", "inside" amgettuple, "returned", "ended"
  scan,      \* ScanOpaque
  rescans

vars == <<index, guc, phase, scan, rescans>>

-----------------------------------------------------------------------------
RowsOf(S) == {s.row : s \in S}
AtMost(a, b) == IF a < b THEN a ELSE b
AtLeast(a, b) == IF a < b THEN b ELSE a

Scan0 == [results |-> <<>>, cursor |-> 0, emitted |-> {}, k |-> 0, allow |-> NoAllow,
          ivf |-> FALSE, probes |-> 0, cells |-> {}]

\* build_permutation_soft, then inserts and vacuums: the cells in which a row
\* has a slot, 0 for the append region or a flat index.  Of an index with a
\* row in two cells no Mutable copy can be made, so nothing is appended to it.
Cells(lists) ==
  {f \in [Row -> {K \in SUBSET (0 .. lists) : Cardinality(K) <= MaxDups}] :
     (\E r \in Row : Cardinality(f[r]) > 1) => \A r \in Row : 0 \notin f[r]}

Index ==
  {i \in UNION {[arm : Arms, lists : {n}, cells : Cells(n), dead : SUBSET Row] :
                  n \in 0 .. MaxLists} :
     /\ \A r \in i.dead : i.cells[r] # {}
     /\ i.arm = "Ooc" => i.lists > 0
     /\ i.arm = "Graph" => i.lists = 0
     /\ i.arm = "Mutable" => \A r \in Row : Cardinality(i.cells[r]) <= 1}

Init ==
  /\ index \in Index
  /\ guc \in [set : Settings, changes : {0}]
  /\ phase = "open"
  /\ scan = Scan0
  /\ rescans = 0

Slots == UNION {{[row |-> r, cell |-> c] : c \in index.cells[r]} : r \in Row}
NLive == Cardinality(Slots)
Live == {s \in Slots : s.row \notin index.dead}
Dead == Slots \ Live
CellScoped == index.lists > 0 /\ index.arm \in {"ReadOnly", "Bq", "Ooc"}

-----------------------------------------------------------------------------
(* Searches: the sets of slots that may be returned.                       *)

\* A top k of S.
Top(S, k) == kSubset(AtMost(k, Cardinality(S)), S)

Allowed(S, allow) == IF allow = NoAllow THEN S ELSE {s \in S : s.row \in allow}

\* Search wide, keep the first k that are allowed.
Filtered(S, k, allow) ==
  IF allow = NoAllow THEN Top(S, k)
  ELSE LET wide == AtLeast(AtMost(k * Widening, NLive), k)
       IN  UNION {Top(Allowed(T, allow), k) : T \in Top(S, wide)}

\* BqIndex::search_slots over-fetches, then drops its dead slots.
OverFetched(S, k) ==
  LET want == IF Dead = {} THEN k ELSE AtMost(AtLeast(2 * k, k + 8), NLive)
  IN  UNION {Top(T \ Dead, k) : T \in Top(S, want)}

\* flat_search_live.  A Mutable copy is searched without the tombstones, a
\* graph by a beam that skips them.
FlatSearch(k, allow) ==
  CASE index.arm = "ReadOnly" -> Top(Allowed(Live, allow), k)
    [] index.arm = "Bq"       -> OverFetched(Allowed(Slots, allow), k)
    [] index.arm = "Mutable"  -> Filtered(Slots, k, allow)
    [] index.arm = "Graph"    -> Filtered(Live, k, allow)
    [] index.arm = "Ooc"      -> {{}}

\* probe_mask, apply_tombstones and apply_allowlist; search_ooc gathers the same.
Mask(cells, allow) == {s \in Allowed(Live, allow) : s.cell \in cells \cup {0}}

Search(cells, k, allow) == Top(Mask(cells, allow), k)

\* coarse_probe: p of the cells.
Probe(p) == kSubset(p, 1 .. index.lists)

\* Mutant: rows that were returned are not left out.
PopulateBatchAll(results, emitted, found) ==
  results \o [i \in 1 .. Cardinality(found) |-> SetToSeq(found)[i].row]

\* populate_batch: the rows of the slots found, save the ones returned before.
PopulateBatch(results, emitted, found) ==
  LET fresh == SetToSeq({s \in found : s.row \notin emitted})
  IN  results \o [i \in DOMAIN fresh |-> fresh[i].row]

-----------------------------------------------------------------------------
\* The first amgettuple: the graph takes no allowlist.
FirstCall ==
  LET k == AtMost(guc.set.k, NLive)
      p == AtMost(guc.set.probes, index.lists)
      allow == guc.set.allow
      Found(found, ivf, probes, cells) ==
        scan' = [scan EXCEPT !.results = PopulateBatch(<<>>, scan.emitted, found),
                             !.cursor = 0, !.k = k, !.allow = allow, !.ivf = ivf,
                             !.probes = probes, !.cells = cells]
  IN  /\ phase = "open" /\ NLive > 0
      /\ phase' = "inside"
      /\ CASE CellScoped -> \E cells \in Probe(p) :
                              \E T \in Search(cells, k, allow) : Found(T, TRUE, p, cells)
           [] index.arm = "Graph" -> \E T \in Top(Live, k) : Found(T, FALSE, 0, {})
           [] OTHER -> \E T \in FlatSearch(k, allow) : Found(T, FALSE, 0, {})
      /\ UNCHANGED <<index, guc, rescans>>

\* An empty index answers every query with no row.
FirstCallEmpty ==
  /\ phase = "open" /\ NLive = 0
  /\ phase' = "ended"
  /\ UNCHANGED <<index, guc, scan, rescans>>

\* The executor asks for the next tuple.
Call ==
  /\ phase = "returned"
  /\ phase' = "inside"
  /\ UNCHANGED <<index, guc, scan, rescans>>

\* amgettuple returns the candidate at the cursor.
Return ==
  /\ phase = "inside" /\ scan.cursor < Len(scan.results)
  /\ phase' = "returned"
  /\ scan' = [scan EXCEPT !.cursor = @ + 1,
                          !.emitted = @ \cup {scan.results[scan.cursor + 1]}]
  /\ UNCHANGED <<index, guc, rescans>>

Drained == phase = "inside" /\ scan.cursor = Len(scan.results)

Ceiling == AtMost(NLive, guc.set.maxScan)
ProbeCap == AtMost(guc.set.maxProbes, index.lists)

\* Mutant: half as much again, and no floor.
NextKSlow(k) == AtMost(k + k \div 2, Ceiling)

\* Twice as many, up to the ceiling, but at least one more.
NextK(k) == AtLeast(AtMost(2 * k, Ceiling), k + 1)
NextProbes(p) == AtLeast(AtMost(2 * p, ProbeCap), p + 1)

CanWiden(p) == scan.ivf /\ p < ProbeCap

CanGrow(k) == k < Ceiling

\* try_refill returns false: the scan is over.
Exhausted ==
  /\ Drained
  /\ ~ guc.set.iterative \/ (~ CanWiden(scan.probes) /\ ~ CanGrow(scan.k))
  /\ phase' = "ended"
  /\ UNCHANGED <<index, guc, scan, rescans>>

\* Mutant: a search with no new row ends the scan.
RefillGoesOnIfFound(grew, probes, k) == grew

\* Whether try_refill returns true.
RefillGoesOn(grew, probes, k) == grew \/ CanWiden(probes) \/ CanGrow(k)

\* The larger search.  A search of cells keeps its mask if it does not widen.
Refill ==
  LET k == NextK(scan.k)
      p == IF CanWiden(scan.probes) THEN NextProbes(scan.probes) ELSE scan.probes
      Found(found, cells) ==
        LET results == PopulateBatch(scan.results, scan.emitted, found)
            grew    == Len(results) > Len(scan.results)
        IN  /\ scan' = [scan EXCEPT !.results = results, !.k = k,
                                    !.probes = p, !.cells = cells]
            /\ phase' = IF RefillGoesOn(grew, p, k) THEN "inside" ELSE "ended"
  IN  /\ Drained /\ guc.set.iterative
      /\ CanWiden(scan.probes) \/ CanGrow(scan.k)
      /\ IF scan.ivf
         THEN \E cells \in IF p = scan.probes THEN {scan.cells} ELSE Probe(p) :
                \E T \in Search(cells, k, scan.allow) : Found(T, cells)
         ELSE \E T \in FlatSearch(k, scan.allow) : Found(T, scan.cells)
      /\ UNCHANGED <<index, guc, rescans>>

\* SET between two calls.
SetGuc ==
  /\ phase = "returned" /\ guc.changes < MaxSets
  /\ \E s \in Settings : guc' = [set |-> s, changes |-> guc.changes + 1]
  /\ UNCHANGED <<index, phase, scan, rescans>>

\* What amrescan leaves of ScanOpaque.
Rescanned == Scan0

\* amrescan: the inner side of a nested loop starts over.
Rescan ==
  /\ phase \in {"returned", "ended"} /\ rescans < MaxRescans
  /\ phase' = "open"
  /\ scan' = Rescanned
  /\ rescans' = rescans + 1
  /\ UNCHANGED <<index, guc>>

\* One step of an executor that wants every tuple.
Fetch == FirstCall \/ FirstCallEmpty \/ Call \/ Return \/ Exhausted \/ Refill

Next == Fetch \/ SetGuc \/ Rescan

Spec == Init /\ [][Next]_vars /\ WF_vars(Fetch)

-----------------------------------------------------------------------------
(* Properties.                                                             *)

Returned == SubSeq(scan.results, 1, scan.cursor)

TypeOK ==
  /\ index \in Index
  /\ guc \in [set : Settings, changes : 0 .. MaxSets]
  /\ phase \in {"open", "inside", "returned", "ended"}
  /\ scan \in [results : Seq(Row), cursor : Nat, emitted : SUBSET Row, k : Nat,
               allow : {NoAllow} \cup SUBSET Row, ivf : BOOLEAN,
               probes : 0 .. index.lists, cells : SUBSET (1 .. index.lists)]
  /\ rescans \in 0 .. MaxRescans

Times(s, r) == Cardinality({i \in DOMAIN s : s[i] = r})

\* What a search may bring: of a Mutable copy a dead row too, which the heap
\* fetch rejects; of a graph, whose first search ignores the allowlist, any row.
Candidate(r) ==
  /\ index.cells[r] # {} /\ (index.arm = "Mutable" \/ r \notin index.dead)
  /\ scan.allow # NoAllow /\ index.arm # "Graph" => r \in scan.allow

\* However many searches find it, a row is returned at most once per slot it
\* has (a repeat can only come from two cells of one search), and no search
\* brings a row that VACUUM has tombstoned, or one that is not in the allowlist
\* the scan started with.  (populate_batch and the emitted set; probe_mask,
\* apply_tombstones and apply_allowlist at every widening.)
RowsReturnedRight ==
  /\ \A r \in Row : Times(Returned, r) <= Cardinality(index.cells[r])
  /\ \A i \in DOMAIN Returned : Candidate(Returned[i])

\* If the settings at the end let the scan look at all cells and all slots,
\* every live row that is allowed has been returned, whatever the settings
\* were before.  (try_refill ends only when neither probes nor k can grow.)
ScanIsComplete ==
  /\ phase = "ended"
  /\ guc.set.iterative /\ guc.set.maxProbes >= index.lists /\ guc.set.maxScan >= NLive
  => RowsOf(Allowed(Live, scan.allow)) \subseteq ToSet(Returned)

\* The refills come to an end: an executor that goes on asking gets the end of
\* the scan, also if no row passes.  (The loop in amgettuple.)
ScanEnds == phase = "open" ~> phase = "ended"

-----------------------------------------------------------------------------
(* What every step keeps, for the proofs.                                  *)

\* emitted is what lies before the cursor; a scan that starts has nothing.
CursorRight ==
  /\ scan.cursor <= Len(scan.results)
  /\ scan.emitted = {scan.results[i] : i \in 1 .. scan.cursor}
  /\ phase = "open" => scan = Scan0
  /\ phase = "ended" => scan.cursor = Len(scan.results)

\* The rows behind the cursor are as good as the ones before it.
BatchRight ==
  /\ \A r \in Row : Times(scan.results, r) <= Cardinality(index.cells[r])
  /\ \A i \in DOMAIN scan.results : Candidate(scan.results[i])

\* What the last search could reach.
Reach == IF scan.ivf THEN Mask(scan.cells, scan.allow) ELSE Allowed(Live, scan.allow)

\* The last search went through cells if the handle has them, through as many
\* as it was told; if it asked for all slots, the batches have all it reached.
LastSearch ==
  /\ phase \in {"inside", "returned"} => NLive > 0
  /\ phase # "open" /\ NLive > 0 =>
       /\ scan.ivf = CellScoped /\ Cardinality(scan.cells) = scan.probes
       /\ scan.k >= NLive => RowsOf(Reach) \subseteq ToSet(scan.results)

\* A scan ends when no larger search is left.
EndIsExhausted ==
  phase = "ended" /\ NLive > 0 /\ guc.set.iterative =>
    ~ CanWiden(scan.probes) /\ ~ CanGrow(scan.k)

ScanInv == TypeOK /\ CursorRight /\ BatchRight /\ LastSearch /\ EndIsExhausted

=============================================================================
