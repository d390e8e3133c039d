------------------------- MODULE BackendCache_proofs ------------------------
(***************************************************************************)
(* The copies of a backend: what an open transaction has not flushed is in *)
(* a dirty entry, whatever is installed and evicted meanwhile; the cache   *)
(* stays within its cap.                                                   *)
(*                                                                         *)
(* The lemmas say of each operation on the cache which entries it leaves,  *)
(* as a set: that no two are of one index makes the order matter only to   *)
(* eviction.                                                               *)
(***************************************************************************)
EXTENDS BackendCache, DataInduction_proofs

\* The entries of a cache, and that there is one for an index at most.
Entries(c) == {c[i] : i \in DOMAIN c}
Queue(c) == c \in Seq(Entry) /\ Apart(c)

-----------------------------------------------------------------------------
(* Which entries an operation leaves.                                      *)

LEMMA QueueElements ==
  ASSUME NEW c, Queue(c)
  PROVE  /\ Len(c) \in Nat /\ DOMAIN c = 1 .. Len(c)
         /\ Entries(c) \subseteq Entry
         /\ \A e, f \in Entries(c) : e.key = f.key => e = f
BY DEF Queue, Apart, Entries

\* A filter keeps the entries of its positions.
LEMMA KeptEntries ==
  ASSUME NEW c, Queue(c), NEW D
  PROVE  /\ Queue(Kept(c, D))
         /\ Entries(Kept(c, D)) = {c[i] : i \in D \cap DOMAIN c}
<1>. DEFINE k == Kept(c, D)
<1>1. c \in Seq(Entry) /\ DOMAIN c = 1 .. Len(c) /\ Len(c) \in Nat
  BY DEF Queue
<1>2. k \in Seq(Entry) /\ PlacesOf(k, c, D) # {}
  BY <1>1, KeptIs
<1>. HIDE DEF k
<1>3. PICK at \in [1 .. Len(k) -> D \cap (1 .. Len(c))] :
              /\ \A i, j \in 1 .. Len(k) : i < j => at[i] < at[j]
              /\ \A i \in D \cap (1 .. Len(c)) : \E j \in 1 .. Len(k) : at[j] = i
              /\ \A j \in 1 .. Len(k) : k[j] = c[at[j]]
  BY <1>2 DEF PlacesOf
<1>4. Len(k) \in Nat /\ DOMAIN k = 1 .. Len(k)
  BY <1>2
<1>5. \A i, j \in 1 .. Len(k) : at[i] = at[j] => i = j
  <2>1. TAKE i, j \in 1 .. Len(k)
  <2>2. at[i] \in 1 .. Len(c) /\ at[j] \in 1 .. Len(c)
    BY <1>3
  <2>3. i \in Int /\ j \in Int /\ at[i] \in Int /\ at[j] \in Int
    BY <1>1, <1>4, <2>2
  <2>. QED  BY <1>3, <2>3
<1>6. Apart(k)
  <2>1. \A i, j \in 1 .. Len(k) : k[i].key = k[j].key => at[i] = at[j]
    BY <1>1, <1>3 DEF Queue, Apart
  <2>. QED  BY <1>4, <1>5, <2>1 DEF Apart
<1>7. Entries(k) = {c[i] : i \in D \cap DOMAIN c}
  <2>1. \A j \in 1 .. Len(k) : at[j] \in D \cap (1 .. Len(c)) /\ k[j] = c[at[j]]
    BY <1>3
  <2>2. \A i \in D \cap (1 .. Len(c)) : \E j \in 1 .. Len(k) : k[j] = c[i]
    BY <1>3
  <2>. DEFINE E == {c[i] : i \in D \cap DOMAIN c}
  <2>3. Entries(k) = {k[j] : j \in 1 .. Len(k)} /\ E = {c[i] : i \in D \cap (1 .. Len(c))}
    BY <1>1, <1>4 DEF Entries
  <2>4. \A j \in 1 .. Len(k) : k[j] \in {c[i] : i \in D \cap (1 .. Len(c))}
    BY <2>1
  <2>5. \A i \in D \cap (1 .. Len(c)) : c[i] \in {k[j] : j \in 1 .. Len(k)}
    BY <2>2
  <2>. QED  BY <2>3, <2>4, <2>5, Zenon
<1>. QED  BY <1>2, <1>6, <1>7 DEF k, Queue

LEMMA CleanEntries ==
  ASSUME NEW c, Queue(c)
  PROVE  Queue(Clean(c)) /\ Entries(Clean(c)) = {e \in Entries(c) : ~ e.dirty}
<1>. DEFINE D == {i \in DOMAIN c : ~ c[i].dirty}
<1>1. Queue(Kept(c, D)) /\ Entries(Kept(c, D)) = {c[i] : i \in D \cap DOMAIN c}
  BY KeptEntries
<1>2. {c[i] : i \in D \cap DOMAIN c} = {e \in Entries(c) : ~ e.dirty}
  BY DEF Entries
<1>. QED  BY <1>1, <1>2 DEF Clean

LEMMA DirtyEntries ==
  ASSUME NEW c, Queue(c)
  PROVE  Queue(Dirty(c)) /\ Entries(Dirty(c)) = {e \in Entries(c) : e.dirty}
<1>. DEFINE D == {i \in DOMAIN c : c[i].dirty}
<1>1. Queue(Kept(c, D)) /\ Entries(Kept(c, D)) = {c[i] : i \in D \cap DOMAIN c}
  BY KeptEntries
<1>2. {c[i] : i \in D \cap DOMAIN c} = {e \in Entries(c) : e.dirty}
  BY DEF Entries
<1>. QED  BY <1>1, <1>2 DEF Dirty

LEMMA WithoutEntries ==
  ASSUME NEW c, Queue(c), NEW K
  PROVE  Queue(Without(c, K)) /\ Entries(Without(c, K)) = {e \in Entries(c) : e.key \notin K}
<1>. DEFINE D == {i \in DOMAIN c : c[i].key \notin K}
<1>1. Queue(Kept(c, D)) /\ Entries(Kept(c, D)) = {c[i] : i \in D \cap DOMAIN c}
  BY KeptEntries
<1>2. {c[i] : i \in D \cap DOMAIN c} = {e \in Entries(c) : e.key \notin K}
  BY DEF Entries
<1>. QED  BY <1>1, <1>2 DEF Without

\* There is one entry of an index that is cached.
LEMMA EntryOfKey ==
  ASSUME NEW c, Queue(c), NEW k
  PROVE  /\ k \in Keys(c) <=> \E e \in Entries(c) : e.key = k
         /\ k \in Keys(c) => EntryOf(c, k) \in Entries(c) /\ EntryOf(c, k).key = k
         /\ \A e \in Entries(c) : e.key = k => e = EntryOf(c, k)
<1>1. k \in Keys(c) <=> \E e \in Entries(c) : e.key = k
  BY DEF Keys, Entries
<1>2. k \in Keys(c) => EntryOf(c, k) \in Entries(c) /\ EntryOf(c, k).key = k
  BY DEF Keys, Entries, EntryOf
<1>3. \A e \in Entries(c) : e.key = k => e = EntryOf(c, k)
  BY <1>1, <1>2, QueueElements
<1>. QED  BY <1>1, <1>2, <1>3

\* The entry that an install or a use puts last takes the place of the one of
\* its index.
LEMMA MostRecentEntries ==
  ASSUME NEW c, Queue(c), NEW e \in Entry
  PROVE  /\ Queue(MostRecent(c, e))
         /\ Entries(MostRecent(c, e)) = {f \in Entries(c) : f.key # e.key} \cup {e}
         /\ Len(MostRecent(c, e)) \in Nat \ {0}
         /\ MostRecent(c, e)[Len(MostRecent(c, e))] = e
<1>. DEFINE w == Without(c, {e.key})
            m == Append(w, e)
            n == Len(w)
<1>1. Queue(w) /\ Entries(w) = {f \in Entries(c) : f.key \notin {e.key}}
  BY WithoutEntries
<1>. HIDE DEF w
<1>2. w \in Seq(Entry) /\ n \in Nat /\ DOMAIN w = 1 .. n
  BY <1>1 DEF Queue
<1>3. /\ m \in Seq(Entry) /\ Len(m) = n + 1 /\ DOMAIN m = 1 .. n + 1
      /\ m[n + 1] = e /\ \A i \in 1 .. n : m[i] = w[i]
  BY <1>2
<1>. HIDE DEF m, n
<1>4. 1 .. n + 1 = (1 .. n) \cup {n + 1}
  BY <1>2
<1>5. Entries(m) = Entries(w) \cup {e}
  BY <1>2, <1>3, <1>4 DEF Entries
<1>6. \A i \in 1 .. n : w[i].key # e.key
  BY <1>1, <1>2 DEF Entries
<1>7. Apart(m)
  <2>1. \A i, j \in 1 .. n : m[i].key = m[j].key => i = j
    BY <1>1, <1>2, <1>3 DEF Queue, Apart
  <2>. QED  BY <1>3, <1>4, <1>6, <2>1 DEF Apart
<1>8. Len(m) \in Nat \ {0} /\ m[Len(m)] = e
  BY <1>2, <1>3
<1>9. MostRecent(c, e) = m
  BY DEF MostRecent, m, w
<1>. QED  BY <1>1, <1>3, <1>5, <1>7, <1>8, <1>9 DEF Queue

\* An entry is replaced in its place.
LEMMA UpdatedEntries ==
  ASSUME NEW c, Queue(c), NEW e \in Entry, e.key \in Keys(c)
  PROVE  /\ Queue(Updated(c, e)) /\ DOMAIN Updated(c, e) = DOMAIN c
         /\ Len(Updated(c, e)) = Len(c)
         /\ Entries(Updated(c, e)) = {f \in Entries(c) : f.key # e.key} \cup {e}
<1>. DEFINE u == Updated(c, e)
            n == Len(c)
<1>1. n \in Nat /\ DOMAIN c = 1 .. n /\ \A i \in 1 .. n : c[i] \in Entry
  BY DEF Queue
<1>2. u = [i \in 1 .. n |-> IF c[i].key = e.key THEN e ELSE c[i]]
  BY <1>1 DEF Updated
<1>. HIDE DEF u, n
<1>3. u \in Seq(Entry) /\ DOMAIN u = 1 .. n /\ Len(u) = n
  BY <1>1, <1>2
<1>4. \A i \in 1 .. n : u[i].key = c[i].key
  BY <1>2
<1>5. Apart(u)
  BY <1>1, <1>3, <1>4 DEF Queue, Apart
<1>6. PICK k \in 1 .. n : c[k].key = e.key
  BY <1>1 DEF Keys
<1>7. Entries(u) = {f \in Entries(c) : f.key # e.key} \cup {e}
  <2>1. u[k] = e
    BY <1>2, <1>6
  <2>2. \A i \in 1 .. n : u[i] = IF c[i].key = e.key THEN e ELSE c[i]
    BY <1>2
  <2>. QED  BY <1>1, <1>3, <1>6, <2>1, <2>2 DEF Entries
<1>. QED  BY <1>1, <1>3, <1>5, <1>7 DEF Queue, u, n

-----------------------------------------------------------------------------
(* Eviction.                                                               *)

\* What is left of c after n evictions, and whether the loop then ends.
Left(c, candidates, n) == Without(c, {candidates[i].key : i \in 1 .. n})
Done(c, candidates, fewest, n) ==
  \/ n = Len(candidates)
  \/ Total(Left(c, candidates, n)) <= cap
  \/ Len(Left(c, candidates, n)) <= fewest

\* The loop ends, and no sooner than its condition says.
LEMMA LoopEnds ==
  ASSUME NEW c, NEW candidates, Len(candidates) \in Nat, NEW fewest
  PROVE  \E n \in 0 .. Len(candidates) :
           /\ Evicted(c, candidates, fewest) = Left(c, candidates, n)
           /\ Done(c, candidates, fewest, n)
           /\ \A m \in 0 .. n - 1 : ~ Done(c, candidates, fewest, m)
<1>. DEFINE l == Len(candidates)
            S == {n \in 0 .. l : Done(c, candidates, fewest, n)}
            First(n) == /\ Done(c, candidates, fewest, n)
                        /\ \A m \in 0 .. n - 1 : ~ Done(c, candidates, fewest, m)
<1>1. l \in S /\ S \in SUBSET Nat
  BY DEF Done
<1>2. PICK n \in S : \A k \in S : n <= k
  <2>. HIDE DEF S
  <2>. QED  BY <1>1, LeastNat
<1>3. n \in 0 .. l /\ First(n)
  <2>1. \A m \in 0 .. n - 1 : m \in 0 .. l /\ m < n
    BY <1>1, <1>2
  <2>2. \A m \in 0 .. n - 1 : ~ (n <= m)
    BY <1>2
  <2>3. Done(c, candidates, fewest, n) /\ n \in 0 .. l
    BY <1>2
  <2>4. ASSUME NEW m \in 0 .. n - 1 PROVE ~ Done(c, candidates, fewest, m)
    BY <1>2, <2>1, <2>2
  <2>. QED  BY <2>3, <2>4
<1>. DEFINE e == CHOOSE n_1 \in 0 .. l : First(n_1)
<1>4. e \in 0 .. l /\ First(e)
  <2>. HIDE DEF First
  <2>. QED  BY <1>3
<1>5. Evicted(c, candidates, fewest) = Left(c, candidates, e)
  BY DEF Evicted, Left, Done
<1>. HIDE DEF e
<1>. QED  BY <1>4, <1>5

\* Nothing dirty is evicted.
LEMMA EnforcedEntries ==
  ASSUME NEW c, Queue(c)
  PROVE  /\ Queue(EnforceCap(c))
         /\ Entries(EnforceCap(c)) \subseteq Entries(c)
         /\ \A e \in Entries(c) : e.dirty => e \in Entries(EnforceCap(c))
<1>. DEFINE q == Clean(c)
<1>1. Queue(q) /\ Entries(q) = {e \in Entries(c) : ~ e.dirty}
  BY CleanEntries
<1>2. CASE cap = 0
  BY <1>2, DirtyEntries DEF EnforceCap
<1>3. CASE cap # 0
  <2>1. Len(q) \in Nat /\ \A i \in 1 .. Len(q) : q[i] \in Entries(q)
    BY <1>1, QueueElements DEF Entries
  <2>. HIDE DEF q
  <2>2. PICK n \in 0 .. Len(q) : Evicted(c, q, 1) = Left(c, q, n)
    BY <2>1, LoopEnds
  <2>. DEFINE K == {q[i].key : i \in 1 .. n}
  <2>3. \A e \in Entries(c) : e.dirty => e.key \notin K
    <3>1. \A i \in 1 .. n : i \in 1 .. Len(q)
      BY <2>1
    <3>2. \A i \in 1 .. n : q[i] \in Entries(c) /\ ~ q[i].dirty
      BY <1>1, <2>1, <3>1
    <3>3. \A e, f \in Entries(c) : e.key = f.key => e = f
      BY QueueElements
    <3>. QED  BY <3>2, <3>3
  <2>4. EnforceCap(c) = Without(c, K)
    BY <1>3, <2>2 DEF EnforceCap, Left, q
  <2>. HIDE DEF K
  <2>5. Queue(Without(c, K)) /\ Entries(Without(c, K)) = {e \in Entries(c) : e.key \notin K}
    BY WithoutEntries
  <2>. QED  BY <2>3, <2>4, <2>5
<1>. QED  BY <1>2, <1>3

\* A copy is loaded.
Loaded(k, bytes, mutable) ==
  [key |-> k, bytes |-> bytes, mutable |-> mutable, dirty |-> FALSE,
   match |-> "fresh", unflushed |-> {}]

LEMMA InstalledEntries ==
  ASSUME Queue(cache), NEW k \in Index, NEW bytes \in Bytes, NEW mutable \in BOOLEAN
  PROVE  /\ Queue(Installed(k, bytes, mutable))
         /\ Entries(Installed(k, bytes, mutable))
              \subseteq {e \in Entries(cache) : e.key # k} \cup {Loaded(k, bytes, mutable)}
         /\ \A e \in Entries(cache) : e.key # k /\ e.dirty =>
              e \in Entries(Installed(k, bytes, mutable))
<1>. DEFINE new == Loaded(k, bytes, mutable)
            m == MostRecent(cache, new)
<1>1. new \in Entry /\ new.key = k
  BY DEF Entry, Loaded
<1>2. Installed(k, bytes, mutable) = EnforceCap(m)
  BY DEF Installed, Loaded
<1>. HIDE DEF new
<1>3. Queue(m) /\ Entries(m) = {e \in Entries(cache) : e.key # k} \cup {new}
  BY <1>1, MostRecentEntries
<1>. HIDE DEF m
<1>4. /\ Queue(EnforceCap(m)) /\ Entries(EnforceCap(m)) \subseteq Entries(m)
      /\ \A e \in Entries(m) : e.dirty => e \in Entries(EnforceCap(m))
  BY <1>3, EnforcedEntries
<1>5. Entries(EnforceCap(m)) \subseteq {e \in Entries(cache) : e.key # k} \cup {new}
  BY <1>3, <1>4
<1>6. \A e \in Entries(cache) : e.key # k /\ e.dirty => e \in Entries(EnforceCap(m))
  BY <1>3, <1>4
<1>. QED  BY <1>2, <1>4, <1>5, <1>6 DEF new

-----------------------------------------------------------------------------
(* CopiesSound, of the entries.                                            *)

\* p are the levels of the unflushed rows of each index.
SoundEntries(R, p) ==
  /\ \A k \in Index : p[k] # {} => \E e \in R : e.key = k /\ e.dirty /\ e.unflushed = p[k]
  /\ \A e \in R : e.unflushed \subseteq p[e.key]
  /\ \A e \in R : e.dirty => e.mutable

LEMMA SoundAsEntries ==
  ASSUME NEW c, Queue(c), NEW p
  PROVE  SoundEntries(Entries(c), p)
           <=> /\ \A k \in Index : p[k] # {} =>
                    k \in Keys(Dirty(c)) /\ p[k] = EntryOf(c, k).unflushed
               /\ \A i \in DOMAIN c : c[i].unflushed \subseteq p[c[i].key]
               /\ \A i \in DOMAIN c : c[i].dirty => c[i].mutable
<1>. DEFINE R == Entries(c)
<1>1. \A k : k \in Keys(Dirty(c)) <=> \E e \in R : e.key = k /\ e.dirty
  <2>1. Queue(Dirty(c)) /\ Entries(Dirty(c)) = {e \in R : e.dirty}
    BY DirtyEntries
  <2>2. \A k : k \in Keys(Dirty(c)) <=> \E e \in Entries(Dirty(c)) : e.key = k
    BY <2>1, EntryOfKey
  <2>. QED  BY <2>1, <2>2
<1>2. \A k : \A e \in R : e.key = k => e = EntryOf(c, k)
  BY EntryOfKey
<1>3. ASSUME NEW k
      PROVE  (\E e \in R : e.key = k /\ e.dirty /\ e.unflushed = p[k])
               <=> k \in Keys(Dirty(c)) /\ p[k] = EntryOf(c, k).unflushed
  BY <1>1, <1>2
<1>4. (\A i \in DOMAIN c : c[i].unflushed \subseteq p[c[i].key])
        <=> \A e \in R : e.unflushed \subseteq p[e.key]
  BY DEF Entries
<1>5. (\A i \in DOMAIN c : c[i].dirty => c[i].mutable) <=> \A e \in R : e.dirty => e.mutable
  BY DEF Entries
<1>. HIDE DEF R
<1>. QED  BY <1>3, <1>4, <1>5 DEF SoundEntries, R

\* What CopiesSound says, for the steps.
Sound(c, p) == Queue(c) /\ SoundEntries(Entries(c), p)
Others == txn \in {"idle", "active", "savepoint", "flushing"} /\ vanished \in BOOLEAN /\ cap \in Caps

LEMMA CopiesSoundIs ==
  CopiesSound <=> Sound(cache, pending) /\ Others /\ pending \in [Index -> SUBSET Level]
<1>1. Queue(cache) => (SoundEntries(Entries(cache), pending)
                         <=> UnflushedKept /\ NothingRolledBack /\ DirtyIsMutable)
  BY SoundAsEntries DEF UnflushedKept, NothingRolledBack, DirtyIsMutable
<1>. QED  BY <1>1 DEF CopiesSound, TypeOK, Sound, Others, Queue

LEMMA CopiesSoundNext ==
  ASSUME Sound(cache', pending'), Others', pending' \in [Index -> SUBSET Level]
  PROVE  CopiesSound'
<1>1. (UnflushedKept /\ NothingRolledBack /\ DirtyIsMutable)'
  <2>1. Queue(cache') /\ SoundEntries(Entries(cache'), pending')
    BY DEF Sound
  <2>. QED  BY <2>1, SoundAsEntries DEF UnflushedKept, NothingRolledBack, DirtyIsMutable
<1>. QED  BY <1>1 DEF CopiesSound, TypeOK, Sound, Others, Queue

-----------------------------------------------------------------------------
(* The steps.                                                              *)

LEMMA CacheInitSound ==
  CacheInit => CopiesSound
<1>1. Queue(<<>>) /\ Entries(<<>>) = {}
  BY DEF Queue, Apart, Entries
<1>. QED  BY <1>1, CopiesSoundIs DEF CacheInit, Sound, SoundEntries, Others

\* A use.
LEMMA UsedSound ==
  ASSUME Sound(cache, pending), NEW k \in Keys(cache)
  PROVE  /\ Sound(MostRecent(cache, EntryOf(cache, k)), pending)
         /\ Entries(MostRecent(cache, EntryOf(cache, k))) = Entries(cache)
<1>. DEFINE e == EntryOf(cache, k)
<1>1. e \in Entries(cache) /\ e.key = k /\ \A f \in Entries(cache) : f.key = k => f = e
  BY EntryOfKey DEF Sound
<1>2. e \in Entry
  BY <1>1, QueueElements DEF Sound
<1>. HIDE DEF e
<1>3. /\ Queue(MostRecent(cache, e))
      /\ Entries(MostRecent(cache, e)) = {f \in Entries(cache) : f.key # e.key} \cup {e}
  BY <1>2, MostRecentEntries DEF Sound
<1>4. {f \in Entries(cache) : f.key # e.key} \cup {e} = Entries(cache)
  BY <1>1
<1>. QED  BY <1>3, <1>4 DEF Sound, e

\* An install, of an index that has no dirty entry.
LEMMA InstalledSound ==
  ASSUME Sound(cache, pending), NEW k \in Index, NEW bytes \in Bytes, NEW mutable \in BOOLEAN,
         \A e \in Entries(cache) : e.key = k => ~ e.dirty
  PROVE  Sound(Installed(k, bytes, mutable), pending) /\ pending[k] = {}
<1>. DEFINE R == Entries(cache)
            new == Loaded(k, bytes, mutable)
            Q == Entries(Installed(k, bytes, mutable))
<1>1. /\ Queue(Installed(k, bytes, mutable))
      /\ Q \subseteq {e \in R : e.key # k} \cup {new}
      /\ \A e \in R : e.key # k /\ e.dirty => e \in Q
  BY InstalledEntries DEF Sound
<1>2. SoundEntries(R, pending)
  BY DEF Sound
<1>3. new.unflushed = {} /\ new.dirty = FALSE
  BY DEF Loaded
<1>. HIDE DEF new, Q, R
<1>4. pending[k] = {}
  BY <1>2 DEF SoundEntries, R
<1>5. \A j \in Index : pending[j] # {} => \E e \in Q : e.key = j /\ e.dirty /\ e.unflushed = pending[j]
  <2>1. SUFFICES ASSUME NEW j \in Index, pending[j] # {}
                 PROVE  \E e \in Q : e.key = j /\ e.dirty /\ e.unflushed = pending[j]
    OBVIOUS
  <2>2. PICK e \in R : e.key = j /\ e.dirty /\ e.unflushed = pending[j]
    BY <1>2, <2>1 DEF SoundEntries
  <2>. QED  BY <1>1, <1>4, <2>1, <2>2
<1>6. \A e \in Q : e.unflushed \subseteq pending[e.key] /\ (e.dirty => e.mutable)
  BY <1>1, <1>2, <1>3 DEF SoundEntries
<1>7. SoundEntries(Q, pending)
  BY <1>5, <1>6 DEF SoundEntries
<1>. QED  BY <1>1, <1>4, <1>7 DEF Sound, Q

LEMMA ScanSound ==
  ASSUME CopiesSound, NEW k \in Index, NEW bytes \in Bytes, Scan(k, bytes)
  PROVE  CopiesSound'
<1>1. Sound(cache, pending) /\ Others /\ pending \in [Index -> SUBSET Level]
  BY CopiesSoundIs
<1>2. Sound(cache', pending)
  <2>1. CASE ScanHit(k)
    <3>1. k \in Keys(cache) /\ cache' = MostRecent(cache, EntryOf(cache, k))
      BY <2>1 DEF Scan, ScanHit
    <3>. QED  BY <1>1, <3>1, UsedSound
  <2>2. CASE ~ ScanHit(k)
    <3>1. \A e \in Entries(cache) : e.key = k => ~ e.dirty
      <4>1. SUFFICES ASSUME NEW e \in Entries(cache), e.key = k PROVE ~ e.dirty
        OBVIOUS
      <4>2. k \in Keys(cache) /\ e = EntryOf(cache, k)
        BY <1>1, <4>1, EntryOfKey DEF Sound
      <4>. QED  BY <2>2, <4>2 DEF ScanHit
    <3>2. cache' = Installed(k, bytes, FALSE)
      BY <2>2 DEF Scan
    <3>. QED  BY <1>1, <3>1, <3>2, InstalledSound
  <2>. QED  BY <2>1, <2>2
<1>3. pending' = pending /\ Others'
  BY <1>1 DEF Scan, Others
<1>. QED  BY <1>1, <1>2, <1>3, CopiesSoundNext

\* The copy an insert finds or loads: if it stays, it is one to be changed.
LEMMA CacheForInsertSound ==
  ASSUME Sound(cache, pending), NEW k \in Index, NEW bytes \in Bytes
  PROVE  /\ Sound(CacheForInsert(k, bytes), pending)
         /\ \A e \in Entries(CacheForInsert(k, bytes)) : e.key = k => e.mutable
<1>1. CASE UsableForInsert(k)
  <2>1. /\ k \in Keys(cache) /\ EntryOf(cache, k).mutable
        /\ CacheForInsert(k, bytes) = MostRecent(cache, EntryOf(cache, k))
    BY <1>1 DEF UsableForInsert, CacheForInsert
  <2>2. \A e \in Entries(cache) : e.key = k => e = EntryOf(cache, k)
    BY EntryOfKey DEF Sound
  <2>. QED  BY <2>1, <2>2, UsedSound
<1>2. CASE ~ UsableForInsert(k)
  <2>1. CacheForInsert(k, bytes) = Installed(k, bytes, TRUE)
    BY <1>2 DEF CacheForInsert
  <2>2. \A e \in Entries(cache) : e.key = k => ~ e.dirty
    <3>1. SUFFICES ASSUME NEW e \in Entries(cache), e.key = k, e.dirty PROVE FALSE
      OBVIOUS
    <3>2. k \in Keys(cache) /\ e = EntryOf(cache, k)
      BY <3>1, EntryOfKey DEF Sound
    <3>3. e.mutable
      BY <3>1 DEF Sound, SoundEntries
    <3>. QED  BY <1>2, <3>1, <3>2, <3>3 DEF UsableForInsert
  <2>3. Entries(Installed(k, bytes, TRUE))
          \subseteq {e \in Entries(cache) : e.key # k} \cup {Loaded(k, bytes, TRUE)}
    BY InstalledEntries DEF Sound
  <2>4. Loaded(k, bytes, TRUE).mutable
    BY DEF Loaded
  <2>5. \A e \in Entries(Installed(k, bytes, TRUE)) : e.key = k => e.mutable
    BY <2>3, <2>4
  <2>. QED  BY <2>1, <2>2, <2>5, InstalledSound
<1>. QED  BY <1>1, <1>2

LEMMA AmInsertSound ==
  ASSUME CopiesSound, NEW k \in InPlace, NEW bytes \in Bytes, AmInsert(k, bytes)
  PROVE  CopiesSound'
<1>. DEFINE c == CacheForInsert(k, bytes)
            e == EntryOf(c, k)
            new == [e EXCEPT !.dirty = TRUE, !.unflushed = @ \cup {LevelNow}]
            R == Entries(c)
            p == [pending EXCEPT ![k] = @ \cup {LevelNow}]
<1>1. Sound(cache, pending) /\ Others /\ pending \in [Index -> SUBSET Level]
  BY CopiesSoundIs
<1>2. k \in Index /\ LevelNow \in Level
  BY DEF Index, LevelNow, Level
<1>3. Sound(c, pending) /\ \A f \in R : f.key = k => f.mutable
  BY <1>1, <1>2, CacheForInsertSound
<1>4. k \in Keys(c) /\ cache' = Updated(c, new) /\ pending' = p
  BY DEF AmInsert, MarkDirty
<1>. HIDE DEF c
<1>5. e \in R /\ e.key = k /\ e \in Entry /\ \A f \in R : f.key = k => f = e
  BY <1>3, <1>4, EntryOfKey, QueueElements DEF Sound
<1>. HIDE DEF e
<1>6. /\ new \in Entry /\ new.key = k /\ new.dirty /\ new.mutable = e.mutable
      /\ new.unflushed = e.unflushed \cup {LevelNow}
  BY <1>2, <1>5 DEF Entry
<1>. HIDE DEF new
<1>7. Queue(Updated(c, new)) /\ Entries(Updated(c, new)) = {f \in R : f.key # k} \cup {new}
  BY <1>3, <1>4, <1>6, UpdatedEntries DEF Sound
<1>8. p[k] = pending[k] \cup {LevelNow} /\ \A j \in Index : j # k => p[j] = pending[j]
  BY <1>1, <1>2
<1>9. p \in [Index -> SUBSET Level]
  BY <1>1, <1>2
<1>. HIDE DEF p
<1>10. SoundEntries(R, pending)
  BY <1>3 DEF Sound
<1>11. p[k] = new.unflushed
  <2>1. e.unflushed = pending[k]
    <3>1. CASE pending[k] = {}
      BY <1>5, <1>10, <3>1 DEF SoundEntries
    <3>2. CASE pending[k] # {}
      BY <1>2, <1>5, <1>10, <3>2 DEF SoundEntries
    <3>. QED  BY <3>1, <3>2
  <2>. QED  BY <1>6, <1>8, <2>1
<1>. DEFINE Q == {f \in R : f.key # k} \cup {new}
<1>12. \A j \in Index : p[j] # {} => \E f \in Q : f.key = j /\ f.dirty /\ f.unflushed = p[j]
  <2>1. SUFFICES ASSUME NEW j \in Index, p[j] # {}
                 PROVE  \E f \in Q : f.key = j /\ f.dirty /\ f.unflushed = p[j]
    OBVIOUS
  <2>2. CASE j = k
    BY <1>6, <1>11, <2>2
  <2>3. CASE j # k
    <3>1. p[j] = pending[j]
      BY <1>8, <2>3
    <3>2. PICK f \in R : f.key = j /\ f.dirty /\ f.unflushed = p[j]
      BY <1>10, <2>1, <3>1 DEF SoundEntries
    <3>. QED  BY <2>3, <3>2
  <2>. QED  BY <2>2, <2>3
<1>13. \A f \in Q : f.unflushed \subseteq p[f.key] /\ (f.dirty => f.mutable)
  <2>1. \A f \in R : f.key # k => f.unflushed \subseteq p[f.key] /\ (f.dirty => f.mutable)
    <3>1. R \subseteq Entry
      BY <1>3, QueueElements DEF Sound
    <3>2. \A f \in R : f.key \in Index
      BY <3>1 DEF Entry
    <3>. QED  BY <1>8, <1>10, <3>2 DEF SoundEntries
  <2>2. new.unflushed \subseteq p[new.key] /\ new.mutable
    BY <1>3, <1>5, <1>6, <1>11
  <2>. QED  BY <2>1, <2>2
<1>14. Sound(cache', pending')
  BY <1>4, <1>7, <1>12, <1>13 DEF Sound, SoundEntries
<1>15. Others'
  BY <1>1 DEF AmInsert, Others, Begun
<1>. QED  BY <1>4, <1>9, <1>14, <1>15, CopiesSoundNext

\* No rows are unflushed.
NonePending == [k \in Index |-> {}]

\* What invalidate_dirty leaves has nothing that is not in the relfile.
LEMMA CleanSound ==
  ASSUME NEW c, NEW p, Sound(c, p)
  PROVE  Sound(Clean(c), NonePending) /\ \A e \in Entries(Clean(c)) : e.unflushed = {}
<1>1. /\ Queue(Clean(c)) /\ Entries(Clean(c)) = {e \in Entries(c) : ~ e.dirty}
      /\ Entries(c) \subseteq Entry /\ SoundEntries(Entries(c), p)
      /\ \A e, f \in Entries(c) : e.key = f.key => e = f
  BY CleanEntries, QueueElements DEF Sound
<1>2. ASSUME NEW e \in Entries(c), ~ e.dirty PROVE e.unflushed = {} /\ e.key \in Index
  <2>1. e.key \in Index
    BY <1>1 DEF Entry
  <2>2. p[e.key] = {}
    BY <1>1, <1>2, <2>1 DEF SoundEntries
  <2>. QED  BY <1>1, <2>1, <2>2 DEF SoundEntries
<1>3. SoundEntries(Entries(Clean(c)), NonePending)
  BY <1>1, <1>2 DEF SoundEntries, NonePending
<1>. QED  BY <1>1, <1>2, <1>3 DEF Sound

LEMMA InsertVanishedSound ==
  ASSUME CopiesSound, NEW k \in InPlace, NEW bytes \in Bytes, InsertVanished(k, bytes)
  PROVE  CopiesSound'
<1>. DEFINE c == CacheForInsert(k, bytes)
<1>1. Sound(cache, pending) /\ Others
  BY CopiesSoundIs
<1>2. Sound(c, pending)
  BY <1>1, CacheForInsertSound DEF Index
<1>3. cache' = Clean(c) /\ pending' = NonePending /\ Others'
  BY <1>1 DEF InsertVanished, NotDirty, NonePending, Others
<1>. HIDE DEF c
<1>4. pending' \in [Index -> SUBSET Level]
  BY <1>3 DEF NonePending
<1>. QED  BY <1>2, <1>3, <1>4, CleanSound, CopiesSoundNext

LEMMA InsertBqSound ==
  ASSUME CopiesSound, InsertBq
  PROVE  CopiesSound'
<1>1. Queue(<<>>) /\ Entries(<<>>) = {}
  BY DEF Queue, Apart, Entries
<1>2. cache' = <<>> /\ pending' = NonePending /\ pending' \in [Index -> SUBSET Level]
  BY DEF InsertBq, NonePending
<1>3. Sound(cache', pending')
  BY <1>1, <1>2 DEF Sound, SoundEntries, NonePending
<1>4. Others'
  BY CopiesSoundIs DEF InsertBq, Others, Begun
<1>. QED  BY <1>2, <1>3, <1>4, CopiesSoundNext

\* An entry is changed in its place, but for its index.
LEMMA ReplacedSound ==
  ASSUME Sound(cache, pending), pending \in [Index -> SUBSET Level], NEW new \in Entry,
         new.key \in Keys(cache), NEW p \in [Index -> SUBSET Level],
         \A j \in Index : j # new.key => p[j] = pending[j],
         p[new.key] = {} \/ (new.dirty /\ new.unflushed = p[new.key]),
         new.unflushed \subseteq p[new.key], new.dirty => new.mutable
  PROVE  Sound(Updated(cache, new), p)
<1>. DEFINE R == Entries(cache)
            Q == {f \in R : f.key # new.key} \cup {new}
<1>1. Queue(Updated(cache, new)) /\ Entries(Updated(cache, new)) = Q
  BY UpdatedEntries DEF Sound
<1>2. R \subseteq Entry /\ SoundEntries(R, pending)
  BY QueueElements DEF Sound
<1>3. \A f \in R : f.key \in Index
  BY <1>2 DEF Entry
<1>. HIDE DEF R
<1>4. \A j \in Index : p[j] # {} => \E f \in Q : f.key = j /\ f.dirty /\ f.unflushed = p[j]
  <2>1. SUFFICES ASSUME NEW j \in Index, p[j] # {}
                 PROVE  \E f \in Q : f.key = j /\ f.dirty /\ f.unflushed = p[j]
    OBVIOUS
  <2>2. CASE j = new.key
    BY <2>1, <2>2
  <2>3. CASE j # new.key
    <3>1. PICK f \in R : f.key = j /\ f.dirty /\ f.unflushed = p[j]
      BY <1>2, <2>1, <2>3 DEF SoundEntries
    <3>. QED  BY <2>3, <3>1
  <2>. QED  BY <2>2, <2>3
<1>5. \A f \in Q : f.unflushed \subseteq p[f.key] /\ (f.dirty => f.mutable)
  BY <1>2, <1>3 DEF SoundEntries
<1>. QED  BY <1>1, <1>4, <1>5 DEF Sound, SoundEntries

LEMMA FlushSound ==
  ASSUME CopiesSound, NEW k \in InPlace, Flush(k)
  PROVE  CopiesSound'
<1>. DEFINE e == EntryOf(cache, k)
            p == [pending EXCEPT ![k] = {}]
            Kd(match) == [e EXCEPT !.dirty = FALSE, !.match = match, !.unflushed = {}]
<1>1. Sound(cache, pending) /\ Others /\ pending \in [Index -> SUBSET Level] /\ k \in Index
  BY CopiesSoundIs DEF Index
<1>2. k \in Keys(cache)
  <2>1. Queue(Dirty(cache)) /\ Entries(Dirty(cache)) = {f \in Entries(cache) : f.dirty}
    BY <1>1, DirtyEntries DEF Sound
  <2>2. \E f \in Entries(Dirty(cache)) : f.key = k
    BY <2>1, EntryOfKey DEF Flush
  <2>. QED  BY <1>1, <2>1, <2>2, EntryOfKey DEF Sound
<1>3. e \in Entry /\ e.key = k
  BY <1>1, <1>2, EntryOfKey, QueueElements DEF Sound
<1>4. /\ cache' \in {Updated(cache, Kd("fresh")), Updated(cache, Kd("stale")), Without(cache, {k})}
      /\ pending' = p
  BY DEF Flush, ClearDirty
<1>. HIDE DEF e
<1>5. p \in [Index -> SUBSET Level] /\ p[k] = {} /\ \A j \in Index : j # k => p[j] = pending[j]
  BY <1>1
<1>. HIDE DEF p
<1>6. ASSUME NEW match \in {"fresh", "stale"} PROVE Sound(Updated(cache, Kd(match)), p)
  <2>1. Kd(match) \in Entry /\ Kd(match).key = k /\ Kd(match).unflushed = {} /\ Kd(match).dirty = FALSE
    BY <1>3 DEF Entry
  <2>. HIDE DEF Kd
  <2>. QED  BY <1>1, <1>2, <1>5, <2>1, ReplacedSound
<1>7. Sound(Without(cache, {k}), p)
  <2>1. /\ Queue(Without(cache, {k}))
        /\ Entries(Without(cache, {k})) = {f \in Entries(cache) : f.key \notin {k}}
    BY <1>1, WithoutEntries DEF Sound
  <2>2. SoundEntries(Entries(cache), pending) /\ \A f \in Entries(cache) : f.key \in Index
    BY <1>1, QueueElements DEF Sound, Entry
  <2>3. \A j \in Index : p[j] # {} =>
          \E f \in Entries(Without(cache, {k})) : f.key = j /\ f.dirty /\ f.unflushed = p[j]
    <3>1. SUFFICES ASSUME NEW j \in Index, p[j] # {}
                   PROVE  \E f \in Entries(Without(cache, {k})) :
                            f.key = j /\ f.dirty /\ f.unflushed = p[j]
      OBVIOUS
    <3>2. j # k /\ p[j] = pending[j]
      BY <1>5, <3>1
    <3>3. PICK f \in Entries(cache) : f.key = j /\ f.dirty /\ f.unflushed = p[j]
      BY <2>2, <3>1, <3>2 DEF SoundEntries
    <3>. QED  BY <2>1, <3>2, <3>3
  <2>4. \A f \in Entries(Without(cache, {k})) :
          f.unflushed \subseteq p[f.key] /\ (f.dirty => f.mutable)
    BY <1>5, <2>1, <2>2 DEF SoundEntries
  <2>. QED  BY <2>1, <2>3, <2>4 DEF Sound, SoundEntries
<1>. HIDE DEF Kd
<1>8. Sound(cache', p)
  BY <1>4, <1>6, <1>7
<1>9. Others'
  BY <1>1 DEF Flush, Others
<1>. QED  BY <1>4, <1>5, <1>8, <1>9, CopiesSoundNext

\* The callback has gone through every dirty entry: nothing is unflushed.
LEMMA CommitSound ==
  ASSUME CopiesSound, Commit
  PROVE  CopiesSound'
<1>1. Sound(cache, pending) /\ Others /\ pending \in [Index -> SUBSET Level]
  BY CopiesSoundIs
<1>2. cache' = cache /\ pending' = NonePending /\ Dirty(cache) = <<>>
  BY DEF Commit, NonePending
<1>3. \A e \in Entries(cache) : ~ e.dirty
  <2>1. Entries(Dirty(cache)) = {e \in Entries(cache) : e.dirty}
    BY <1>1, DirtyEntries DEF Sound
  <2>2. Entries(<<>>) = {}
    BY DEF Entries
  <2>. QED  BY <1>2, <2>1, <2>2
<1>4. /\ \A j \in Index : pending[j] = {}
      /\ \A e \in Entries(cache) : e.key \in Index /\ e.unflushed \subseteq pending[e.key]
  BY <1>1, <1>3, QueueElements DEF Sound, SoundEntries, Entry
<1>5. SoundEntries(Entries(cache), NonePending)
  BY <1>3, <1>4 DEF SoundEntries, NonePending
<1>6. pending' \in [Index -> SUBSET Level] /\ Others'
  BY <1>1, <1>2 DEF NonePending, Commit, Others
<1>. QED  BY <1>1, <1>2, <1>5, <1>6, CopiesSoundNext DEF Sound

LEMMA AbortSound ==
  ASSUME CopiesSound, Abort
  PROVE  CopiesSound'
<1>1. Sound(cache, pending) /\ Others
  BY CopiesSoundIs
<1>2. cache' = Clean(cache) /\ pending' = NonePending /\ Others'
  BY <1>1 DEF Abort, NotDirty, NonePending, Others
<1>3. pending' \in [Index -> SUBSET Level]
  BY <1>2 DEF NonePending
<1>. QED  BY <1>1, <1>2, <1>3, CleanSound, CopiesSoundNext

LEMMA RollbackToSavepointSound ==
  ASSUME CopiesSound, RollbackToSavepoint
  PROVE  CopiesSound'
<1>1. Sound(cache, pending) /\ Others
  BY CopiesSoundIs
<1>2. cache' = Clean(cache) /\ Others'
  BY <1>1 DEF RollbackToSavepoint, AbortSub, NotDirty, Others
<1>3. pending' = NonePending
  <2>1. \A k \in Index : pending[k] # {} => k \in Keys(Dirty(cache))
    BY DEF CopiesSound, UnflushedKept
  <2>2. \A k \in Index : (IF k \in Keys(Dirty(cache)) THEN {} ELSE pending[k] \ {"sub"}) = {}
    BY <2>1
  <2>. QED  BY <2>2 DEF RollbackToSavepoint, NonePending
<1>4. pending' \in [Index -> SUBSET Level]
  BY <1>3 DEF NonePending
<1>. QED  BY <1>1, <1>2, <1>3, <1>4, CleanSound, CopiesSoundNext

\* RELEASE SAVEPOINT: the rows of the savepoint are the transaction's.
LEMMA ReleaseSavepointSound ==
  ASSUME CopiesSound, ReleaseSavepoint
  PROVE  CopiesSound'
<1>. DEFINE n == Len(cache)
            Up(e) == [e EXCEPT !.unflushed = Outer(@)]
<1>1. Sound(cache, pending) /\ Others /\ pending \in [Index -> SUBSET Level]
  BY CopiesSoundIs
<1>2. /\ cache' = [i \in 1 .. n |-> Up(cache[i])] /\ n \in Nat /\ DOMAIN cache = 1 .. n
      /\ \A i \in 1 .. n : cache[i] \in Entry
      /\ pending' = [k \in Index |-> Outer(pending[k])]
  BY <1>1 DEF ReleaseSavepoint, Sound, Queue
<1>. HIDE DEF n
<1>3. ASSUME NEW e \in Entry
      PROVE  /\ Up(e) \in Entry /\ Up(e).key = e.key /\ Up(e).dirty = e.dirty
             /\ Up(e).mutable = e.mutable /\ Up(e).unflushed = Outer(e.unflushed)
  BY DEF Entry, Outer, Level
<1>. HIDE DEF Up
<1>4. cache' \in Seq(Entry) /\ DOMAIN cache' = 1 .. n /\ \A i \in 1 .. n : cache'[i] = Up(cache[i])
  BY <1>2, <1>3
<1>5. Queue(cache')
  <2>1. \A i \in 1 .. n : cache'[i].key = cache[i].key
    BY <1>2, <1>3, <1>4
  <2>. QED  BY <1>1, <1>2, <1>4, <2>1 DEF Sound, Queue, Apart
<1>6. Entries(cache') = {Up(e) : e \in Entries(cache)}
  BY <1>2, <1>4 DEF Entries
<1>7. \A L \in SUBSET Level : Outer(L) \in SUBSET Level /\ (Outer(L) # {} => L # {})
  BY DEF Outer, Level
<1>8. \A L, M \in SUBSET Level : L \subseteq M => Outer(L) \subseteq Outer(M)
  BY DEF Outer
<1>9. \A k \in Index : pending[k] \in SUBSET Level /\ pending'[k] = Outer(pending[k])
  BY <1>1, <1>2
<1>10. Entries(cache) \subseteq Entry /\ SoundEntries(Entries(cache), pending)
  BY <1>1, QueueElements DEF Sound
<1>11. \A k \in Index : pending'[k] # {} =>
         \E e \in Entries(cache') : e.key = k /\ e.dirty /\ e.unflushed = pending'[k]
  <2>1. SUFFICES ASSUME NEW k \in Index, pending'[k] # {}
                 PROVE  \E e \in Entries(cache') : e.key = k /\ e.dirty /\ e.unflushed = pending'[k]
    OBVIOUS
  <2>2. pending[k] # {}
    BY <1>7, <1>9, <2>1
  <2>3. PICK e \in Entries(cache) : e.key = k /\ e.dirty /\ e.unflushed = pending[k]
    BY <1>10, <2>2 DEF SoundEntries
  <2>4. /\ Up(e) \in Entries(cache') /\ Up(e).key = k /\ Up(e).dirty
        /\ Up(e).unflushed = pending'[k]
    BY <1>3, <1>6, <1>9, <1>10, <2>3
  <2>. QED  BY <2>4
<1>12. \A e \in Entries(cache') : e.unflushed \subseteq pending'[e.key] /\ (e.dirty => e.mutable)
  <2>1. SUFFICES ASSUME NEW e \in Entries(cache)
                 PROVE  /\ Up(e).unflushed \subseteq pending'[Up(e).key]
                        /\ Up(e).dirty => Up(e).mutable
    BY <1>6
  <2>2. e \in Entry /\ e.key \in Index /\ e.unflushed \in SUBSET Level
    BY <1>10 DEF Entry
  <2>3. e.unflushed \subseteq pending[e.key] /\ (e.dirty => e.mutable)
    BY <1>10 DEF SoundEntries
  <2>. QED  BY <1>3, <1>8, <1>9, <2>2, <2>3
<1>13. Sound(cache', pending')
  BY <1>5, <1>11, <1>12 DEF Sound, SoundEntries
<1>14. pending' \in [Index -> SUBSET Level] /\ Others'
  <2>1. Others'
    BY <1>1 DEF ReleaseSavepoint, Others
  <2>. QED  BY <1>2, <1>7, <1>9, <2>1
<1>. QED  BY <1>13, <1>14, CopiesSoundNext

\* Another session, or this transaction, changes what an entry matches.
LEMMA RematchedSound ==
  ASSUME CopiesSound, NEW k \in Index, ChangedElsewhere(k) \/ Rewritten(k)
  PROVE  CopiesSound'
<1>. DEFINE e == EntryOf(cache, k)
            Now(match) == [e EXCEPT !.match = match]
<1>1. Sound(cache, pending) /\ Others /\ pending \in [Index -> SUBSET Level]
  BY CopiesSoundIs
<1>2. PICK match \in {"stale", "rewritten"} :
        k \in Keys(cache) /\ cache' = Updated(cache, Now(match))
  BY DEF ChangedElsewhere, Rewritten
<1>3. /\ e \in Entries(cache) /\ e \in Entry /\ e.key = k
      /\ \A f \in Entries(cache) : f.key = k => f = e
  BY <1>1, <1>2, EntryOfKey, QueueElements DEF Sound
<1>. HIDE DEF e
<1>4. /\ Now(match) \in Entry /\ Now(match).key = k /\ Now(match).dirty = e.dirty
      /\ Now(match).mutable = e.mutable /\ Now(match).unflushed = e.unflushed
  BY <1>3 DEF Entry
<1>. HIDE DEF Now
<1>5. /\ pending[k] = {} \/ (e.dirty /\ e.unflushed = pending[k])
      /\ e.unflushed \subseteq pending[k] /\ (e.dirty => e.mutable)
  BY <1>1, <1>3 DEF Sound, SoundEntries
<1>6. Sound(Updated(cache, Now(match)), pending)
  BY <1>1, <1>2, <1>4, <1>5, ReplacedSound
<1>7. pending' = pending /\ Others'
  BY <1>1 DEF ChangedElsewhere, Rewritten, Others
<1>. QED  BY <1>1, <1>2, <1>6, <1>7, CopiesSoundNext

\* A step that leaves the entries and what is unflushed alone.
LEMMA EntriesLeftAlone ==
  ASSUME CopiesSound, UNCHANGED <<cache, pending>>, Others'
  PROVE  CopiesSound'
BY CopiesSoundIs, CopiesSoundNext

LEMMA CacheNextSound ==
  ASSUME CopiesSound, [CacheNext]_cacheVars
  PROVE  CopiesSound'
<1>1. Others
  BY CopiesSoundIs
<1>2. CASE UNCHANGED cacheVars
  BY <1>1, <1>2, EntriesLeftAlone DEF cacheVars, Others
<1>3. CASE \E k \in Index, bytes \in Bytes : Scan(k, bytes)
  BY <1>3, ScanSound
<1>4. CASE \E k \in InPlace, bytes \in Bytes : AmInsert(k, bytes)
  BY <1>4, AmInsertSound
<1>5. CASE \E k \in InPlace, bytes \in Bytes : InsertVanished(k, bytes)
  BY <1>5, InsertVanishedSound
<1>6. CASE InsertBq
  BY <1>6, InsertBqSound
<1>7. CASE PreCommit \/ Savepoint
  BY <1>1, <1>7, EntriesLeftAlone DEF PreCommit, Savepoint, Others
<1>8. CASE \E k \in InPlace : Flush(k)
  BY <1>8, FlushSound
<1>9. CASE Commit \/ Abort
  BY <1>9, CommitSound, AbortSound
<1>10. CASE ReleaseSavepoint \/ RollbackToSavepoint
  BY <1>10, ReleaseSavepointSound, RollbackToSavepointSound
<1>11. CASE \E k \in Index : ChangedElsewhere(k) \/ Rewritten(k)
  BY <1>11, RematchedSound
<1>12. CASE \E c \in Caps : SetCacheSize(c)
  BY <1>1, <1>12, EntriesLeftAlone DEF SetCacheSize, Others
<1>. QED  BY <1>2, <1>3, <1>4, <1>5, <1>6, <1>7, <1>8, <1>9, <1>10, <1>11, <1>12 DEF CacheNext

\* What a transaction has inserted and not flushed is in a dirty entry, which
\* PreCommit will flush, and in no copy are rows that were rolled back, over
\* any number of indexes of any size and with any cap.  (enforce_cap,
\* am_lookup_for_mutation, am_mark_dirty, clear_dirty, invalidate_dirty.)
THEOREM CacheHoldsUnflushed == CacheSpec => []CopiesSound
<1>1. CacheInit => CopiesSound
  BY CacheInitSound
<1>2. CopiesSound /\ [CacheNext]_cacheVars => CopiesSound'
  BY CacheNextSound
<1>. QED  BY <1>1, <1>2, PTL DEF CacheSpec

-----------------------------------------------------------------------------
(* Sizes.                                                                  *)

LEMMA EntryBytes ==
  \A e \in Entry : e.bytes \in Nat
BY BytesAssumption DEF Entry

\* The sums that Total stands for.
LEMMA TotalRecursion ==
  ASSUME NEW c \in Seq(Entry)
  PROVE  \E f \in [0 .. Len(c) -> Nat] :
           /\ Total(c) = f[Len(c)] /\ f[0] = 0
           /\ \A n \in 1 .. Len(c) : f[n] = f[n - 1] + c[n].bytes
<1>. DEFINE m == Len(c)
            F(f) == [n \in 0 .. m |-> IF n = 0 THEN 0 ELSE f[n - 1] + c[n].bytes]
            step == [p \in Nat \X Nat |-> IF p[2] \in 1 .. m THEN p[1] + c[p[2]].bytes ELSE p[1]]
<1>1. m \in Nat /\ \A n \in 1 .. m : c[n].bytes \in Nat
  BY EntryBytes
<1>2. PICK f \in [0 .. m -> Nat] : f[0] = 0 /\ \A n \in 1 .. m : f[n] = step[<<f[n - 1], n>>]
  <2>. DEFINE zero == 0
  <2>1. step \in StepOf(Nat) /\ zero \in Nat
    BY <1>1 DEF StepOf
  <2>. HIDE DEF step, m, zero
  <2>2. Recursions(Nat, zero, step, m) # {}
    BY <1>1, <2>1, Recursion
  <2>. QED  BY <2>2 DEF Recursions, zero
<1>3. ASSUME NEW n \in 1 .. m PROVE f[n] = f[n - 1] + c[n].bytes
  <2>1. n - 1 \in 0 .. m /\ n \in Nat
    BY <1>1
  <2>2. f[n - 1] \in Nat /\ <<f[n - 1], n>> \in Nat \X Nat
    BY <1>2, <2>1
  <2>3. f[n] = step[<<f[n - 1], n>>]
    BY <1>2
  <2>. QED  BY <2>2, <2>3
<1>. HIDE DEF step
<1>4. f = F(f)
  <2>1. \A n \in 0 .. m : n # 0 => n \in 1 .. m
    BY <1>1
  <2>2. \A n \in 0 .. m : f[n] = IF n = 0 THEN 0 ELSE f[n - 1] + c[n].bytes
    BY <1>2, <1>3, <2>1
  <2>. QED  BY <1>2, <2>2
<1>. DEFINE g == CHOOSE h : h = F(h)
<1>5. g = F(g)
  <2>. HIDE DEF F
  <2>. QED  BY <1>4
<1>6. Total(c) = g[m]
  BY DEF Total
<1>. HIDE DEF g
<1>7. \A n \in 0 .. m : g[n] = IF n = 0 THEN 0 ELSE g[n - 1] + c[n].bytes
  BY <1>5
<1>8. \A n \in 0 .. m : g[n] = f[n]
  <2>. DEFINE Same == {n \in Nat : n <= m => g[n] = f[n]}
  <2>1. 0 \in Same
    <3>1. 0 \in 0 .. m
      BY <1>1
    <3>. QED  BY <1>2, <1>7, <3>1
  <2>2. ASSUME NEW n \in Nat, n \in Same PROVE n + 1 \in Same
    <3>1. SUFFICES ASSUME n + 1 <= m PROVE g[n + 1] = f[n + 1]
      OBVIOUS
    <3>2. n + 1 \in 1 .. m /\ n + 1 \in 0 .. m /\ (n + 1) - 1 = n /\ n <= m /\ n + 1 # 0
      BY <1>1, <3>1
    <3>3. g[n] = f[n]
      BY <2>2, <3>2
    <3>. HIDE DEF m
    <3>. QED  BY <1>3, <1>7, <3>2, <3>3
  <2>3. \A n \in Nat : n \in Same
    <3>. HIDE DEF Same
    <3>. QED  BY <2>1, <2>2, SetInduction
  <2>. QED  BY <1>1, <2>3
<1>9. m \in 0 .. m /\ Total(c) = f[m]
  BY <1>1, <1>6, <1>8
<1>. QED  BY <1>2, <1>3, <1>9

\* Entries of the same sizes have the same total.
LEMMA TotalSame ==
  ASSUME NEW c \in Seq(Entry), NEW d \in Seq(Entry), Len(d) = Len(c),
         \A n \in 1 .. Len(c) : d[n].bytes = c[n].bytes
  PROVE  Total(d) = Total(c)
<1>. DEFINE m == Len(c)
<1>1. PICK f \in [0 .. m -> Nat] :
        /\ Total(c) = f[m] /\ f[0] = 0 /\ \A n \in 1 .. m : f[n] = f[n - 1] + c[n].bytes
  BY TotalRecursion
<1>2. PICK g \in [0 .. m -> Nat] :
        /\ Total(d) = g[m] /\ g[0] = 0 /\ \A n \in 1 .. m : g[n] = g[n - 1] + d[n].bytes
  BY TotalRecursion
<1>3. m \in Nat
  OBVIOUS
<1>. DEFINE Same == {n \in Nat : n <= m => g[n] = f[n]}
<1>4. 0 \in Same
  BY <1>1, <1>2
<1>5. ASSUME NEW n \in Nat, n \in Same PROVE n + 1 \in Same
  <2>1. SUFFICES ASSUME n + 1 <= m PROVE g[n + 1] = f[n + 1]
    OBVIOUS
  <2>2. n + 1 \in 1 .. m /\ (n + 1) - 1 = n /\ n <= m
    BY <1>3, <2>1
  <2>3. g[n] = f[n]
    BY <1>5, <2>2
  <2>4. d[n + 1].bytes = c[n + 1].bytes
    BY <2>2
  <2>. HIDE DEF m
  <2>. QED  BY <1>1, <1>2, <2>2, <2>3, <2>4
<1>6. \A n \in Nat : n \in Same
  <2>. HIDE DEF Same
  <2>. QED  BY <1>4, <1>5, SetInduction
<1>. QED  BY <1>1, <1>2, <1>3, <1>6

LEMMA TotalAppend ==
  ASSUME NEW c \in Seq(Entry), NEW e \in Entry
  PROVE  Total(c) \in Nat /\ Total(Append(c, e)) = Total(c) + e.bytes
<1>. DEFINE m == Len(c)
            d == Append(c, e)
<1>1. /\ m \in Nat /\ d \in Seq(Entry) /\ Len(d) = m + 1 /\ d[m + 1] = e
      /\ \A n \in 1 .. m : d[n] = c[n]
  OBVIOUS
<1>. HIDE DEF d
<1>2. PICK f \in [0 .. m -> Nat] :
        /\ Total(c) = f[m] /\ f[0] = 0 /\ \A n \in 1 .. m : f[n] = f[n - 1] + c[n].bytes
  BY TotalRecursion
<1>3. PICK g \in [0 .. m + 1 -> Nat] :
        /\ Total(d) = g[m + 1] /\ g[0] = 0
        /\ \A n \in 1 .. m + 1 : g[n] = g[n - 1] + d[n].bytes
  <2>1. d \in Seq(Entry) /\ Len(d) = m + 1
    BY <1>1
  <2>. HIDE DEF m
  <2>2. \E g \in [0 .. Len(d) -> Nat] :
          /\ Total(d) = g[Len(d)] /\ g[0] = 0
          /\ \A n \in 1 .. Len(d) : g[n] = g[n - 1] + d[n].bytes
    BY ONLY <2>1, TotalRecursion, Zenon
  <2>. QED  BY ONLY <2>1, <2>2, Zenon
<1>. DEFINE Same == {n \in Nat : n <= m => g[n] = f[n]}
<1>4. 0 \in Same
  BY <1>2, <1>3
<1>5. ASSUME NEW n \in Nat, n \in Same PROVE n + 1 \in Same
  <2>1. SUFFICES ASSUME n + 1 <= m PROVE g[n + 1] = f[n + 1]
    OBVIOUS
  <2>2. n + 1 \in 1 .. m /\ n + 1 \in 1 .. m + 1 /\ (n + 1) - 1 = n /\ n <= m
    BY <1>1, <2>1
  <2>3. g[n] = f[n]
    BY <1>5, <2>2
  <2>4. d[n + 1].bytes = c[n + 1].bytes
    BY <1>1, <2>2
  <2>. HIDE DEF m
  <2>. QED  BY <1>2, <1>3, <2>2, <2>3, <2>4
<1>6. \A n \in Nat : n \in Same
  <2>. HIDE DEF Same
  <2>. QED  BY <1>4, <1>5, SetInduction
<1>7. g[m] = f[m] /\ m \in 0 .. m /\ m + 1 \in 1 .. m + 1 /\ (m + 1) - 1 = m
  BY <1>1, <1>6
<1>. HIDE DEF m
<1>8. Total(d) = Total(c) + e.bytes
  BY <1>1, <1>2, <1>3, <1>7
<1>9. Total(c) \in Nat
  BY <1>2, <1>7
<1>. QED  BY <1>8, <1>9 DEF d

\* A filter that leaves out entry i saves its size at least.
LEMMA TotalKept ==
  ASSUME NEW c \in Seq(Entry), NEW D
  PROVE  /\ Total(Kept(c, D)) \in Nat /\ Total(c) \in Nat /\ Total(Kept(c, D)) <= Total(c)
         /\ \A i \in 1 .. Len(c) : i \notin D => Total(Kept(c, D)) + c[i].bytes <= Total(c)
<1>. DEFINE m == Len(c)
<1>1. PICK f \in [0 .. m -> Nat] :
        /\ Total(c) = f[m] /\ f[0] = 0 /\ \A n \in 1 .. m : f[n] = f[n - 1] + c[n].bytes
  BY TotalRecursion
<1>2. PICK k \in [0 .. m -> Seq(Entry)] :
           /\ Kept(c, D) = k[m] /\ k[0] = <<>>
           /\ \A n \in 1 .. m : k[n] = IF n \in D THEN Append(k[n - 1], c[n]) ELSE k[n - 1]
  BY KeptRecursion
<1>3. m \in Nat /\ \A n \in 1 .. m : c[n] \in Entry /\ c[n].bytes \in Nat
  BY EntryBytes
<1>. DEFINE Saves(n) == /\ Total(k[n]) \in Nat /\ Total(k[n]) <= f[n]
                        /\ \A i \in 1 .. n : i \notin D => Total(k[n]) + c[i].bytes <= f[n]
            Good == {n \in Nat : n <= m => Saves(n)}
<1>4. 0 \in Good
  <2>1. <<>> \in Seq(Entry) /\ Len(<<>>) = 0
    OBVIOUS
  <2>2. Total(<<>>) = 0
    BY <2>1, TotalRecursion
  <2>. QED  BY <1>1, <1>2, <2>2
<1>5. ASSUME NEW n \in Nat, n \in Good PROVE n + 1 \in Good
  <2>1. SUFFICES ASSUME n + 1 <= m PROVE Saves(n + 1)
    OBVIOUS
  <2>2. n + 1 \in 1 .. m /\ n \in 0 .. m /\ (n + 1) - 1 = n /\ n <= m
    <3>1. m \in Nat
      OBVIOUS
    <3>. HIDE DEF m
    <3>. QED  BY <2>1, <3>1
  <2>3. Saves(n) /\ k[n] \in Seq(Entry) /\ f[n] \in Nat
    BY <1>1, <1>2, <1>5, <2>2
  <2>4. c[n + 1] \in Entry /\ c[n + 1].bytes \in Nat
    BY <1>3, <2>2
  <2>5. f[n + 1] = f[n] + c[n + 1].bytes
    BY <1>1, <2>2
  <2>6. k[n + 1] = IF n + 1 \in D THEN Append(k[n], c[n + 1]) ELSE k[n]
    BY <1>2, <2>2
  <2>7. \A i \in 1 .. n + 1 : i = n + 1 \/ i \in 1 .. n
    OBVIOUS
  <2>8. \A i \in 1 .. n : c[i].bytes \in Nat
    BY <1>3, <2>2
  <2>. HIDE DEF m
  <2>9. CASE n + 1 \in D
    <3>1. Total(k[n + 1]) = Total(k[n]) + c[n + 1].bytes
      BY <2>3, <2>4, <2>6, <2>9, TotalAppend
    <3>2. c[n + 1].bytes \in Nat /\ f[n + 1] \in Nat /\ Total(k[n + 1]) \in Nat
      BY <2>3, <2>4, <2>5, <3>1
    <3>3. \A i \in 1 .. n : i \notin D => Total(k[n + 1]) + c[i].bytes <= f[n + 1]
      BY <2>3, <2>4, <2>5, <2>8, <3>1, SMTT(30)
    <3>4. Total(k[n + 1]) <= f[n + 1]
      BY <2>3, <2>4, <2>5, <3>1
    <3>. QED  BY <2>7, <2>9, <3>2, <3>3, <3>4
  <2>10. CASE n + 1 \notin D
    <3>1. Total(k[n + 1]) = Total(k[n])
      BY <2>6, <2>10
    <3>2. f[n + 1] \in Nat /\ Total(k[n + 1]) + c[n + 1].bytes <= f[n + 1]
      BY <2>3, <2>4, <2>5, <3>1
    <3>3. \A i \in 1 .. n : i \notin D => Total(k[n + 1]) + c[i].bytes <= f[n + 1]
      BY <2>3, <2>4, <2>5, <2>8, <3>1
    <3>4. Total(k[n + 1]) \in Nat /\ Total(k[n + 1]) <= f[n + 1]
      BY <2>3, <2>4, <2>5, <3>1
    <3>. QED  BY <2>7, <3>2, <3>3, <3>4
  <2>. QED  BY <2>9, <2>10
<1>6. \A n \in Nat : n \in Good
  <2>. HIDE DEF Good
  <2>. QED  BY <1>4, <1>5, SetInduction
<1>7. Saves(m) /\ f[m] \in Nat
  BY <1>1, <1>3, <1>6
<1>. HIDE DEF m
<1>. QED  BY <1>1, <1>2, <1>7 DEF m

\* A cache of copies of one index has one entry.
LEMMA OneEntry ==
  ASSUME NEW c, Queue(c), NEW e, Entries(c) \subseteq {e}
  PROVE  Len(c) <= 1
<1>1. Len(c) \in Nat /\ DOMAIN c = 1 .. Len(c) /\ Apart(c)
  BY DEF Queue
<1>2. \A i, j \in 1 .. Len(c) : i = j
  <2>1. TAKE i, j \in 1 .. Len(c)
  <2>2. c[i] = e /\ c[j] = e
    BY <1>1 DEF Entries
  <2>3. c[i].key = c[j].key
    BY <2>2
  <2>. QED  BY <1>1, <2>3 DEF Apart
<1>3. Len(c) > 1 => 1 \in 1 .. Len(c) /\ 2 \in 1 .. Len(c)
  BY <1>1
<1>. QED  BY <1>1, <1>2, <1>3

-----------------------------------------------------------------------------
(* The cap.                                                                *)

FitsIn(c) == Total(c) <= cap \/ Len(c) <= 1

LEMMA KeptFits ==
  ASSUME NEW c, Queue(c), FitsIn(c), cap \in Nat, NEW d, Queue(d),
         Entries(d) \subseteq Entries(c), Total(d) \in Nat, Total(d) <= Total(c)
  PROVE  FitsIn(d)
<1>1. CASE Total(c) <= cap
  <2>1. Total(c) \in Nat
    BY TotalKept DEF Queue
  <2>. QED  BY <1>1, <2>1 DEF FitsIn
<1>2. CASE Len(c) <= 1
  <2>1. CASE Len(c) = 0
    <3>1. Entries(c) \subseteq {0}
      BY <2>1, QueueElements DEF Entries
    <3>. QED  BY <3>1, OneEntry DEF FitsIn
  <2>2. CASE Len(c) # 0
    <3>1. DOMAIN c = {1}
      <4>1. Len(c) \in Nat /\ DOMAIN c = 1 .. Len(c)
        BY QueueElements
      <4>2. Len(c) = 1
        BY <1>2, <2>2, <4>1
      <4>. QED  BY <4>1, <4>2
    <3>2. Entries(c) \subseteq {c[1]}
      BY <3>1 DEF Entries
    <3>. QED  BY <3>2, OneEntry DEF FitsIn
  <2>. QED  BY <2>1, <2>2
<1>. QED  BY <1>1, <1>2 DEF FitsIn

LEMMA FilterFits ==
  ASSUME NEW c, Queue(c), FitsIn(c), cap \in Nat, NEW D
  PROVE  FitsIn(Kept(c, D))
<1>1. Queue(Kept(c, D)) /\ Entries(Kept(c, D)) = {c[i] : i \in D \cap DOMAIN c}
  BY KeptEntries
<1>2. Entries(Kept(c, D)) \subseteq Entries(c)
  BY <1>1 DEF Entries
<1>3. Total(Kept(c, D)) \in Nat /\ Total(Kept(c, D)) <= Total(c)
  BY TotalKept DEF Queue
<1>. QED  BY <1>1, <1>2, <1>3, KeptFits

\* A use makes nothing larger.
LEMMA UsedFits ==
  ASSUME Sound(cache, pending), FitsIn(cache), cap \in Nat, NEW k \in Keys(cache)
  PROVE  FitsIn(MostRecent(cache, EntryOf(cache, k)))
<1>. DEFINE e == EntryOf(cache, k)
            D == {i \in DOMAIN cache : cache[i].key \notin {e.key}}
            w == Kept(cache, D)
<1>1. Queue(cache) /\ cache \in Seq(Entry) /\ DOMAIN cache = 1 .. Len(cache)
  BY DEF Sound, Queue
<1>2. PICK i \in 1 .. Len(cache) : cache[i] = e
  BY <1>1, EntryOfKey DEF Entries
<1>3. e \in Entry
  BY <1>1, <1>2
<1>4. w \in Seq(Entry) /\ MostRecent(cache, e) = Append(w, e)
  BY <1>1, KeptIs DEF MostRecent, Without
<1>5. i \notin D
  BY <1>2
<1>. HIDE DEF e, D
<1>6. Total(w) + cache[i].bytes <= Total(cache)
  BY <1>1, <1>5, TotalKept
<1>7. Total(MostRecent(cache, e)) = Total(w) + e.bytes
  BY <1>3, <1>4, TotalAppend
<1>8. Total(MostRecent(cache, e)) \in Nat /\ Total(MostRecent(cache, e)) <= Total(cache)
  <2>1. Total(w) \in Nat /\ e.bytes \in Nat
    BY <1>3, <1>4, TotalAppend, EntryBytes
  <2>. QED  BY <1>2, <1>6, <1>7, <2>1
<1>9. Queue(MostRecent(cache, e)) /\ Entries(MostRecent(cache, e)) = Entries(cache)
  BY UsedSound DEF e, Sound
<1>. QED  BY <1>1, <1>8, <1>9, KeptFits DEF e

\* What is left when the copy just loaded is evicted as well, is of what was there.
LEMMA NewcomerGone ==
  ASSUME Sound(cache, pending), FitsIn(cache), cap \in Nat, NEW new \in Entry, NEW D,
         Len(MostRecent(cache, new)) \notin D
  PROVE  FitsIn(Kept(MostRecent(cache, new), D))
<1>. DEFINE w == Without(cache, {new.key})
            m == Append(w, new)
            d == Kept(m, D)
<1>1. Queue(cache) /\ Queue(w) /\ Entries(w) = {e \in Entries(cache) : e.key \notin {new.key}}
  BY WithoutEntries DEF Sound
<1>2. FitsIn(w)
  BY <1>1, FilterFits DEF Without
<1>3. MostRecent(cache, new) = m /\ Queue(m)
  BY <1>1, MostRecentEntries DEF MostRecent
<1>. HIDE DEF w
<1>4. /\ w \in Seq(Entry) /\ m \in Seq(Entry) /\ Len(m) = Len(w) + 1 /\ m[Len(w) + 1] = new
      /\ Len(w) \in Nat /\ \A i \in 1 .. Len(w) : m[i] = w[i]
  BY <1>1 DEF Queue
<1>5. Total(m) = Total(w) + new.bytes /\ Total(w) \in Nat /\ new.bytes \in Nat
  BY <1>4, TotalAppend, EntryBytes
<1>. HIDE DEF m
<1>6. Len(w) + 1 \in 1 .. Len(m) /\ Len(w) + 1 \notin D
  BY <1>3, <1>4
<1>7. Total(d) \in Nat /\ Total(d) + new.bytes <= Total(m)
  BY <1>4, <1>6, TotalKept
<1>8. Total(d) <= Total(w)
  BY <1>5, <1>7
<1>9. Queue(d) /\ Entries(d) = {m[i] : i \in D \cap DOMAIN m}
  BY <1>3, KeptEntries
<1>10. Entries(d) \subseteq Entries(w)
  <2>1. \A i \in D \cap DOMAIN m : i \in 1 .. Len(w)
    BY <1>4, <1>6
  <2>2. DOMAIN w = 1 .. Len(w)
    BY <1>4
  <2>. QED  BY <1>4, <1>9, <2>1, <2>2 DEF Entries
<1>. HIDE DEF d
<1>11. FitsIn(d)
  BY <1>1, <1>2, <1>7, <1>8, <1>9, <1>10, KeptFits
<1>. QED  BY <1>3, <1>11 DEF d

LEMMA InstalledFits ==
  ASSUME Sound(cache, pending), FitsIn(cache), cap \in Nat,
         NEW k \in Index, NEW bytes \in Bytes, NEW mutable \in BOOLEAN
  PROVE  FitsIn(Installed(k, bytes, mutable))
<1>. DEFINE new == Loaded(k, bytes, mutable)
            m == MostRecent(cache, new)
            q == Clean(m)
<1>1. new \in Entry /\ new.dirty = FALSE
  BY DEF Entry, Loaded
<1>2. Installed(k, bytes, mutable) = EnforceCap(m)
  BY DEF Installed, Loaded
<1>. HIDE DEF new
<1>3. Queue(m) /\ Len(m) \in Nat \ {0} /\ m[Len(m)] = new
  BY <1>1, MostRecentEntries DEF Sound
<1>4. CASE cap = 0
  <2>. DEFINE D == {i \in DOMAIN m : m[i].dirty}
  <2>1. Len(m) \notin D
    BY <1>1, <1>3
  <2>2. EnforceCap(m) = Kept(m, D)
    BY <1>4 DEF EnforceCap, Dirty
  <2>. HIDE DEF D
  <2>. QED  BY <1>1, <1>2, <2>1, <2>2, NewcomerGone
<1>5. CASE cap # 0
  <2>1. Queue(q) /\ Entries(q) = {e \in Entries(m) : ~ e.dirty}
    BY <1>3, CleanEntries
  <2>2. Len(q) \in Nat /\ DOMAIN q = 1 .. Len(q)
    BY <2>1, QueueElements
  <2>. HIDE DEF q
  <2>3. PICK n \in 0 .. Len(q) : Evicted(m, q, 1) = Left(m, q, n) /\ Done(m, q, 1, n)
    BY <2>2, LoopEnds
  <2>4. EnforceCap(m) = Left(m, q, n)
    BY <1>5, <2>3 DEF EnforceCap, q
  <2>5. CASE n = Len(q)
    <3>. DEFINE D == {i \in DOMAIN m : m[i].key \notin {q[j].key : j \in 1 .. n}}
    <3>1. Len(m) \notin D
      <4>1. new \in Entries(q)
        <5>1. Len(m) \in DOMAIN m
          BY <1>3, QueueElements
        <5>. QED  BY <1>1, <1>3, <2>1, <5>1 DEF Entries
      <4>2. \E j \in 1 .. n : q[j] = new
        BY <2>2, <2>5, <4>1 DEF Entries
      <4>. QED  BY <1>3, <4>2
    <3>2. Left(m, q, n) = Kept(m, D)
      BY DEF Left, Without
    <3>. HIDE DEF D, m
    <3>. QED  BY <1>1, <1>2, <2>4, <3>1, <3>2, NewcomerGone DEF m
  <2>6. CASE n # Len(q)
    BY <1>2, <2>3, <2>4, <2>6 DEF Done, FitsIn
  <2>. QED  BY <2>5, <2>6
<1>. QED  BY <1>4, <1>5

\* An entry of the same size is put in its place.
LEMMA UpdatedFits ==
  ASSUME NEW c, Queue(c), FitsIn(c), NEW new \in Entry, new.key \in Keys(c),
         new.bytes = EntryOf(c, new.key).bytes
  PROVE  FitsIn(Updated(c, new))
<1>. DEFINE u == Updated(c, new)
<1>1. Queue(u) /\ Len(u) = Len(c) /\ DOMAIN c = 1 .. Len(c) /\ u \in Seq(Entry) /\ c \in Seq(Entry)
  BY UpdatedEntries DEF Queue
<1>2. \A i \in 1 .. Len(c) : u[i].bytes = c[i].bytes
  <2>1. TAKE i \in 1 .. Len(c)
  <2>2. u[i] = IF c[i].key = new.key THEN new ELSE c[i]
    BY <1>1 DEF Updated
  <2>3. c[i].key = new.key => c[i] = EntryOf(c, new.key)
    BY <1>1, EntryOfKey DEF Entries
  <2>. QED  BY <2>2, <2>3
<1>. HIDE DEF u
<1>3. Total(u) = Total(c)
  BY <1>1, <1>2, TotalSame
<1>. QED  BY <1>1, <1>3 DEF FitsIn, u

\* A flush, or what another session does, puts an entry of the same size in its place.
LEMMA ReplacedFits ==
  ASSUME Sound(cache, pending), FitsIn(cache), NEW k \in Keys(cache), NEW new \in Entry,
         new.key = k, new.bytes = EntryOf(cache, k).bytes
  PROVE  FitsIn(Updated(cache, new))
BY UpdatedFits DEF Sound

LEMMA ScanFits ==
  ASSUME CopiesSound, FitsIn(cache), cap \in Nat, NEW k \in Index, NEW bytes \in Bytes,
         Scan(k, bytes)
  PROVE  FitsIn(cache')
<1>1. Sound(cache, pending)
  BY CopiesSoundIs
<1>2. CASE ScanHit(k)
  <2>1. k \in Keys(cache) /\ cache' = MostRecent(cache, EntryOf(cache, k))
    BY <1>2 DEF Scan, ScanHit
  <2>. QED  BY <1>1, <2>1, UsedFits
<1>3. CASE ~ ScanHit(k)
  <2>1. cache' = Installed(k, bytes, FALSE)
    BY <1>3 DEF Scan
  <2>. QED  BY <1>1, <2>1, InstalledFits
<1>. QED  BY <1>2, <1>3

LEMMA CacheForInsertFits ==
  ASSUME CopiesSound, FitsIn(cache), cap \in Nat, NEW k \in Index, NEW bytes \in Bytes
  PROVE  FitsIn(CacheForInsert(k, bytes)) /\ Queue(CacheForInsert(k, bytes))
<1>1. Sound(cache, pending)
  BY CopiesSoundIs
<1>2. Queue(CacheForInsert(k, bytes))
  BY <1>1, CacheForInsertSound DEF Sound
<1>3. CASE UsableForInsert(k)
  <2>1. k \in Keys(cache) /\ CacheForInsert(k, bytes) = MostRecent(cache, EntryOf(cache, k))
    BY <1>3 DEF UsableForInsert, CacheForInsert
  <2>. QED  BY <1>1, <1>2, <2>1, UsedFits
<1>4. CASE ~ UsableForInsert(k)
  <2>1. CacheForInsert(k, bytes) = Installed(k, bytes, TRUE)
    BY <1>4 DEF CacheForInsert
  <2>. QED  BY <1>1, <1>2, <2>1, InstalledFits
<1>. QED  BY <1>3, <1>4

LEMMA AmInsertFits ==
  ASSUME CopiesSound, FitsIn(cache), cap \in Nat, NEW k \in InPlace, NEW bytes \in Bytes,
         AmInsert(k, bytes)
  PROVE  FitsIn(cache')
<1>. DEFINE c == CacheForInsert(k, bytes)
            e == EntryOf(c, k)
            new == [e EXCEPT !.dirty = TRUE, !.unflushed = @ \cup {LevelNow}]
<1>1. k \in Keys(c) /\ cache' = Updated(c, new) /\ k \in Index
  BY DEF AmInsert, MarkDirty, Index
<1>2. FitsIn(c) /\ Queue(c)
  BY <1>1, CacheForInsertFits
<1>. HIDE DEF c
<1>3. e \in Entry /\ e.key = k
  BY <1>1, <1>2, EntryOfKey, QueueElements
<1>4. LevelNow \in Level
  BY DEF LevelNow, Level
<1>5. new \in Entry /\ new.key = k /\ new.bytes = EntryOf(c, new.key).bytes
  <2>1. \A x \in Entry : \A l \in Level :
          /\ [x EXCEPT !.dirty = TRUE, !.unflushed = @ \cup {l}] \in Entry
          /\ [x EXCEPT !.dirty = TRUE, !.unflushed = @ \cup {l}].key = x.key
          /\ [x EXCEPT !.dirty = TRUE, !.unflushed = @ \cup {l}].bytes = x.bytes
    BY DEF Entry
  <2>. HIDE DEF e
  <2>2. new \in Entry /\ new.key = k /\ new.bytes = e.bytes
    BY <1>3, <1>4, <2>1
  <2>. QED  BY <2>2 DEF e
<1>. HIDE DEF new
<1>. QED  BY <1>1, <1>2, <1>5, UpdatedFits

LEMMA FlushFits ==
  ASSUME CopiesSound, FitsIn(cache), cap \in Nat, NEW k \in InPlace, Flush(k)
  PROVE  FitsIn(cache')
<1>. DEFINE e == EntryOf(cache, k)
            Kd(match) == [e EXCEPT !.dirty = FALSE, !.match = match, !.unflushed = {}]
<1>1. Sound(cache, pending)
  BY CopiesSoundIs
<1>2. k \in Keys(cache)
  <2>1. Queue(Dirty(cache)) /\ Entries(Dirty(cache)) = {f \in Entries(cache) : f.dirty}
    BY <1>1, DirtyEntries DEF Sound
  <2>2. \E f \in Entries(Dirty(cache)) : f.key = k
    BY <2>1, EntryOfKey DEF Flush
  <2>. QED  BY <1>1, <2>1, <2>2, EntryOfKey DEF Sound
<1>3. e \in Entry /\ e.key = k
  BY <1>1, <1>2, EntryOfKey, QueueElements DEF Sound
<1>4. cache' \in {Updated(cache, Kd("fresh")), Updated(cache, Kd("stale")), Without(cache, {k})}
  BY DEF Flush, ClearDirty
<1>5. ASSUME NEW match \in {"fresh", "stale"} PROVE FitsIn(Updated(cache, Kd(match)))
  <2>1. Kd(match) \in Entry /\ Kd(match).key = k /\ Kd(match).bytes = EntryOf(cache, k).bytes
    <3>. HIDE DEF e
    <3>1. Kd(match) \in Entry /\ Kd(match).key = k /\ Kd(match).bytes = e.bytes
      BY <1>3 DEF Entry
    <3>. QED  BY <3>1 DEF e
  <2>. HIDE DEF Kd
  <2>. QED  BY <1>1, <1>2, <2>1, ReplacedFits
<1>6. FitsIn(Without(cache, {k}))
  BY <1>1, FilterFits DEF Sound, Without
<1>. HIDE DEF Kd
<1>. QED  BY <1>4, <1>5, <1>6

LEMMA RematchedFits ==
  ASSUME CopiesSound, FitsIn(cache), NEW k \in Index, ChangedElsewhere(k) \/ Rewritten(k)
  PROVE  FitsIn(cache')
<1>. DEFINE e == EntryOf(cache, k)
            Now(match) == [e EXCEPT !.match = match]
<1>1. Sound(cache, pending)
  BY CopiesSoundIs
<1>2. PICK match \in {"stale", "rewritten"} :
        k \in Keys(cache) /\ cache' = Updated(cache, Now(match))
  BY DEF ChangedElsewhere, Rewritten
<1>3. e \in Entry /\ e.key = k
  BY <1>1, <1>2, EntryOfKey, QueueElements DEF Sound
<1>4. Now(match) \in Entry /\ Now(match).key = k /\ Now(match).bytes = EntryOf(cache, k).bytes
  <2>. HIDE DEF e
  <2>1. Now(match) \in Entry /\ Now(match).key = k /\ Now(match).bytes = e.bytes
    BY <1>3 DEF Entry
  <2>. QED  BY <2>1 DEF e
<1>. HIDE DEF Now
<1>. QED  BY <1>1, <1>2, <1>4, ReplacedFits

LEMMA ReleaseSavepointFits ==
  ASSUME CopiesSound, FitsIn(cache), ReleaseSavepoint
  PROVE  FitsIn(cache')
<1>. DEFINE n == Len(cache)
            Up(e) == [e EXCEPT !.unflushed = Outer(@)]
<1>1. Sound(cache, pending)
  BY CopiesSoundIs
<1>2. /\ cache' = [i \in 1 .. n |-> Up(cache[i])] /\ n \in Nat /\ cache \in Seq(Entry)
      /\ \A i \in 1 .. n : cache[i] \in Entry
  BY <1>1 DEF ReleaseSavepoint, Sound, Queue
<1>3. ASSUME NEW e \in Entry PROVE Up(e) \in Entry /\ Up(e).bytes = e.bytes
  BY DEF Entry, Outer, Level
<1>. HIDE DEF Up
<1>. DEFINE d == [i \in 1 .. n |-> Up(cache[i])]
<1>4. d \in Seq(Entry) /\ Len(d) = n /\ \A i \in 1 .. n : d[i].bytes = cache[i].bytes
  BY <1>2, <1>3
<1>5. d = cache'
  BY <1>2
<1>. HIDE DEF d
<1>6. Total(d) = Total(cache)
  BY <1>2, <1>4, TotalSame
<1>. QED  BY <1>4, <1>5, <1>6 DEF FitsIn

LEMMA CacheNextFits ==
  ASSUME CopiesSound, [CacheNext]_cacheVars
  PROVE  StaysWithinCap
<1>1. SUFFICES ASSUME FitsIn(cache), cap' = cap PROVE FitsIn(cache')
  BY DEF StaysWithinCap, Fits, FitsIn
<1>2. cap \in Nat /\ Queue(cache)
  BY CopiesSoundIs, BytesAssumption DEF Others, Sound
<1>3. CASE UNCHANGED cache
  BY <1>1, <1>3
<1>4. CASE \E k \in Index, bytes \in Bytes : Scan(k, bytes)
  BY <1>1, <1>2, <1>4, ScanFits
<1>5. CASE \E k \in InPlace, bytes \in Bytes : AmInsert(k, bytes)
  BY <1>1, <1>2, <1>5, AmInsertFits
<1>6. CASE \E k \in InPlace, bytes \in Bytes : InsertVanished(k, bytes)
  <2>1. PICK k \in InPlace, bytes \in Bytes : cache' = Clean(CacheForInsert(k, bytes))
    BY <1>6 DEF InsertVanished, NotDirty
  <2>2. FitsIn(CacheForInsert(k, bytes)) /\ Queue(CacheForInsert(k, bytes))
    BY <1>1, <1>2, CacheForInsertFits DEF Index
  <2>. QED  BY <1>2, <2>1, <2>2, FilterFits DEF Clean
<1>7. CASE InsertBq
  BY <1>7 DEF InsertBq, FitsIn
<1>8. CASE \E k \in InPlace : Flush(k)
  BY <1>1, <1>2, <1>8, FlushFits
<1>9. CASE cache' = Clean(cache)
  BY <1>1, <1>2, <1>9, FilterFits DEF Clean
<1>10. CASE ReleaseSavepoint
  BY <1>1, <1>10, ReleaseSavepointFits
<1>11. CASE \E k \in Index : ChangedElsewhere(k) \/ Rewritten(k)
  BY <1>1, <1>11, RematchedFits
<1>12. [CacheNext]_cacheVars =>
          \/ UNCHANGED cache
          \/ \E k \in Index, bytes \in Bytes : Scan(k, bytes)
          \/ \E k \in InPlace, bytes \in Bytes : AmInsert(k, bytes)
          \/ \E k \in InPlace, bytes \in Bytes : InsertVanished(k, bytes)
          \/ InsertBq
          \/ \E k \in InPlace : Flush(k)
          \/ cache' = Clean(cache)
          \/ ReleaseSavepoint
          \/ \E k \in Index : ChangedElsewhere(k) \/ Rewritten(k)
  BY DEF CacheNext, cacheVars, PreCommit, Commit, Savepoint, SetCacheSize, Abort,
         RollbackToSavepoint, AbortSub, NotDirty
<1>. QED  BY <1>3, <1>4, <1>5, <1>6, <1>7, <1>8, <1>9, <1>10, <1>11, <1>12

\* A cache that fits the cap, or is one entry, does so after every step but a
\* change of the cap, whatever the sizes of the indexes and however many of the
\* entries are dirty and may not be evicted.  (enforce_cap.)
THEOREM CacheStaysWithinCap == CacheSpec => WithinCap
<1>1. CopiesSound /\ [CacheNext]_cacheVars => StaysWithinCap
  BY CacheNextFits
<1>2. [CacheNext]_cacheVars /\ CopiesSound => [StaysWithinCap]_cacheVars
  BY <1>1
<1>. QED  BY <1>2, CacheHoldsUnflushed, PTL DEF CacheSpec, WithinCap

-----------------------------------------------------------------------------
(* The newest entry.                                                       *)

\* Eviction gets to the copy just loaded only when all that is left is dirty.
LEMMA NewcomerKept ==
  ASSUME Sound(cache, pending), cap # 0, Dirty(cache) = <<>>,
         NEW k \in Index, NEW bytes \in Bytes, NEW mutable \in BOOLEAN
  PROVE  k \in Keys(Installed(k, bytes, mutable))
<1>. DEFINE new == Loaded(k, bytes, mutable)
            m == MostRecent(cache, new)
            q == Clean(m)
            K(n) == {q[i].key : i \in 1 .. n}
<1>1. new \in Entry /\ new.key = k /\ new.dirty = FALSE
  BY DEF Entry, Loaded
<1>2. Installed(k, bytes, mutable) = EnforceCap(m)
  BY DEF Installed, Loaded
<1>. HIDE DEF new
<1>3. /\ Queue(m) /\ Len(m) \in Nat \ {0} /\ m[Len(m)] = new
      /\ Entries(m) = {e \in Entries(cache) : e.key # k} \cup {new}
  BY <1>1, MostRecentEntries DEF Sound
<1>4. \A e \in Entries(cache) : ~ e.dirty
  <2>1. Queue(Dirty(cache)) /\ Entries(Dirty(cache)) = {e \in Entries(cache) : e.dirty}
    BY DirtyEntries DEF Sound
  <2>2. DOMAIN Dirty(cache) = {}
    OBVIOUS
  <2>. QED  BY <2>1, <2>2 DEF Entries
<1>. HIDE DEF m
<1>5. Queue(q) /\ Entries(q) = {e \in Entries(m) : ~ e.dirty}
  BY <1>3, CleanEntries
<1>6. Len(q) # 0 /\ q[Len(q)] = new
  <2>. DEFINE D == {i \in DOMAIN m : ~ m[i].dirty}
  <2>1. Len(m) \in D /\ m \in Seq(Entry)
    BY <1>1, <1>3, QueueElements DEF Queue
  <2>2. q = Kept(m, D)
    BY DEF Clean
  <2>. HIDE DEF D
  <2>. QED  BY <1>3, <2>1, <2>2, KeptLast
<1>7. Len(q) \in Nat /\ DOMAIN q = 1 .. Len(q) /\ Apart(q)
  BY <1>5, QueueElements DEF Queue
<1>. HIDE DEF q
<1>8. PICK n \in 0 .. Len(q) :
        /\ Evicted(m, q, 1) = Left(m, q, n)
        /\ \A j \in 0 .. n - 1 : ~ Done(m, q, 1, j)
  BY <1>7, LoopEnds
<1>9. EnforceCap(m) = Left(m, q, n)
  BY <1>8 DEF EnforceCap, q
<1>10. ASSUME NEW j
       PROVE  /\ Queue(Left(m, q, j))
              /\ Entries(Left(m, q, j)) = {e \in Entries(m) : e.key \notin K(j)}
  <2>1. Left(m, q, j) = Without(m, K(j))
    BY DEF Left
  <2>. HIDE DEF K
  <2>. QED  BY <1>3, <2>1, WithoutEntries
<1>11. ASSUME n = Len(q) PROVE FALSE
  <2>1. n - 1 \in 0 .. n - 1 /\ ~ Done(m, q, 1, n - 1)
    BY <1>6, <1>7, <1>8, <1>11
  <2>2. Entries(Left(m, q, n - 1)) \subseteq {new}
    <3>1. SUFFICES ASSUME NEW e \in Entries(m), e.key \notin K(n - 1), e # new PROVE FALSE
      BY <1>10
    <3>2. e \in Entries(q)
      BY <1>3, <1>4, <1>5, <3>1
    <3>3. PICK i \in 1 .. Len(q) : q[i] = e
      BY <1>7, <3>2 DEF Entries
    <3>4. i # n
      BY <1>6, <1>11, <3>1, <3>3
    <3>5. i \in 1 .. n - 1
      <4>1. n \in Nat /\ i \in 1 .. n
        BY <1>7, <1>11
      <4>. QED  BY <3>4, <4>1
    <3>. QED  BY <3>1, <3>3, <3>5
  <2>3. Len(Left(m, q, n - 1)) <= 1
    BY <1>10, <2>2, OneEntry
  <2>. QED  BY <2>1, <2>3 DEF Done
<1>12. k \notin K(n)
  <2>1. SUFFICES ASSUME NEW i \in 1 .. n, q[i].key = k PROVE FALSE
    OBVIOUS
  <2>2. i \in DOMAIN q /\ Len(q) \in DOMAIN q /\ i <= n /\ n <= Len(q)
    BY <1>6, <1>7, <1>8
  <2>3. i = Len(q)
    BY <1>1, <1>6, <1>7, <2>1, <2>2 DEF Apart
  <2>4. n \in Int /\ i \in Int /\ Len(q) \in Int
    BY <1>7
  <2>5. n = i
    BY <2>2, <2>3, <2>4
  <2>. QED  BY <1>11, <2>3, <2>5
<1>13. new \in Entries(Left(m, q, n))
  BY <1>1, <1>3, <1>10, <1>12
<1>. QED  BY <1>1, <1>2, <1>9, <1>10, <1>13, EntryOfKey

LEMMA InsertVanishedPinned ==
  ASSUME CopiesSound, NEW k \in InPlace, NEW bytes \in Bytes, InsertVanished(k, bytes)
  PROVE  cap = 0 \/ Dirty(cache) # <<>>
<1>1. Sound(cache, pending) /\ k \in Index
  BY CopiesSoundIs DEF Index
<1>2. k \notin Keys(CacheForInsert(k, bytes))
  BY DEF InsertVanished
<1>3. ~ UsableForInsert(k)
  <2>1. SUFFICES ASSUME UsableForInsert(k) PROVE FALSE
    OBVIOUS
  <2>2. k \in Keys(cache) /\ CacheForInsert(k, bytes) = MostRecent(cache, EntryOf(cache, k))
    BY <2>1 DEF UsableForInsert, CacheForInsert
  <2>3. /\ Queue(MostRecent(cache, EntryOf(cache, k))) /\ Queue(cache)
        /\ Entries(MostRecent(cache, EntryOf(cache, k))) = Entries(cache)
    BY <1>1, <2>2, UsedSound DEF Sound
  <2>. QED  BY <1>2, <2>2, <2>3, EntryOfKey
<1>4. CacheForInsert(k, bytes) = Installed(k, bytes, TRUE)
  BY <1>3 DEF CacheForInsert
<1>. QED  BY <1>1, <1>2, <1>4, NewcomerKept

\* An insert does not find the copy it has just loaded only if nothing may be
\* cached, or rows of another index pin it.  (enforce_cap, am_mark_dirty.)
THEOREM InsertsVanishOnlyWhenPinned == CacheSpec => VanishesOnlyWhenPinned
<1>1. ASSUME CopiesSound, [CacheNext]_cacheVars PROVE VanishesWhenPinned
  <2>1. CASE \E k \in InPlace, bytes \in Bytes : InsertVanished(k, bytes)
    BY <1>1, <2>1, InsertVanishedPinned DEF VanishesWhenPinned
  <2>2. CASE vanished' = vanished
    BY <2>2 DEF VanishesWhenPinned
  <2>. QED
    BY <1>1, <2>1, <2>2
    DEF CacheNext, cacheVars, Scan, AmInsert, InsertBq, PreCommit, Flush, Commit, Abort,
        Savepoint, ReleaseSavepoint, RollbackToSavepoint, ChangedElsewhere, Rewritten, SetCacheSize
<1>2. [CacheNext]_cacheVars /\ CopiesSound => [VanishesWhenPinned]_cacheVars
  BY <1>1
<1>. QED  BY <1>2, CacheHoldsUnflushed, PTL DEF CacheSpec, VanishesOnlyWhenPinned

=============================================================================
