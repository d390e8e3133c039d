------------------------ MODULE DataInduction_proofs ------------------------
(***************************************************************************)
(* Induction without operator parameters.                                  *)
(*                                                                         *)
(* The induction theorems of the library take the induction hypothesis as  *)
(* an operator, which the provers cannot instantiate.  Here it is a set:   *)
(* a set of naturals has a least element, so that one that holds 0 and the *)
(* successor of each of its elements is all of Nat.  To show P for every   *)
(* natural take the set {n \in Nat : P(n)}.                                *)
(***************************************************************************)
EXTENDS Sublists, FiniteSets, Functions, WellFoundedInduction, FiniteSetTheorems, TLAPS

\* The relation on the naturals is well founded, hence a set of them has a
\* least element.
LEMMA LeastNat ==
  ASSUME NEW S \in SUBSET Nat, S # {}
  PROVE  \E m \in S : \A k \in S : m <= k
<1>. DEFINE Less == {p \in Nat \X Nat : p[1] < p[2]}
<1>1. IsWellFoundedOn(Less, Nat)
  BY NatLessThanWellFounded DEF OpToRel
<1>2. PICK m \in S : \A k \in S : ~ (<<k, m>> \in Less)
  <2>. HIDE DEF Less
  <2>. QED  BY <1>1, WFMin
<1>3. \A k \in S : ~ (k < m)
  BY <1>2
<1>. QED  BY <1>3

\* Induction: 0 is in S, and with n so is n + 1.
LEMMA SetInduction ==
  ASSUME NEW S, 0 \in S, \A n \in Nat : n \in S => n + 1 \in S
  PROVE  \A n \in Nat : n \in S
<1>. DEFINE Missing == {n \in Nat : n \notin S}
<1>. SUFFICES ASSUME Missing # {} PROVE FALSE
  OBVIOUS
<1>1. PICK m \in Missing : \A k \in Missing : m <= k
  <2>1. Missing \in SUBSET Nat
    OBVIOUS
  <2>. HIDE DEF Missing
  <2>. QED  BY <2>1, LeastNat
<1>2. m \in Nat /\ m # 0 /\ m - 1 \in Nat
  BY <1>1
<1>3. m - 1 \in S
  BY <1>1, <1>2
<1>. QED  BY <1>1, <1>2, <1>3

\* The numbers of a finite set of them can be listed in ascending order.
LEMMA AscendingList ==
  ASSUME NEW S, NEW n \in Nat, S \subseteq 1 .. n
  PROVE  /\ Cardinality(S) \in Nat
         /\ \E q \in [1 .. Cardinality(S) -> S] :
              \A j, k \in DOMAIN q : j < k => q[j] < q[k]
<1>. DEFINE Listed(T) == \E q \in [1 .. Cardinality(T) -> T] :
                           \A j, k \in DOMAIN q : j < k => q[j] < q[k]
            Good == {b \in Nat : \A T \in SUBSET (1 .. b) : Listed(T)}
<1>1. \A b \in Nat : \A T \in SUBSET (1 .. b) : IsFiniteSet(T) /\ Cardinality(T) \in Nat
  <2>1. TAKE b \in Nat
  <2>2. IsFiniteSet(1 .. b)
    BY FS_Interval
  <2>3. \A T \in SUBSET (1 .. b) : IsFiniteSet(T)
    BY <2>2, FS_Subset
  <2>. QED  BY <2>3, FS_CardinalityType
<1>2. 0 \in Good
  <2>1. \A T \in SUBSET (1 .. 0) : T = {} /\ Cardinality(T) = 0
    <3>1. \A T \in SUBSET (1 .. 0) : T = {}
      OBVIOUS
    <3>. QED  BY <3>1, FS_EmptySet
  <2>2. [j \in {} |-> 0] \in [1 .. 0 -> {}]
    OBVIOUS
  <2>. QED  BY <2>1, <2>2
<1>3. ASSUME NEW b \in Nat, b \in Good PROVE b + 1 \in Good
  <2>. HIDE DEF Listed
  <2>0. b + 1 \in Nat /\ (b + 1 \in Good <=> \A T \in SUBSET (1 .. b + 1) : Listed(T))
    <3>1. b + 1 \in Nat
      OBVIOUS
    <3>. QED  BY <3>1, Zenon
  <2>1. SUFFICES ASSUME NEW T \in SUBSET (1 .. b + 1) PROVE Listed(T)
    BY <2>0, Zenon
  <2>. USE DEF Listed
  <2>2. CASE b + 1 \notin T
    <3>1. T \in SUBSET (1 .. b)
      BY <2>2
    <3>. QED  BY <1>3, <3>1
  <2>3. CASE b + 1 \in T
    <3>. DEFINE R == T \ {b + 1}
                c == Cardinality(R)
    <3>1. R \in SUBSET (1 .. b)
      OBVIOUS
    <3>2. PICK q \in [1 .. c -> R] : \A j, k \in DOMAIN q : j < k => q[j] < q[k]
      BY <1>3, <3>1
    <3>3. c \in Nat /\ IsFiniteSet(R)
      BY <1>1, <3>1
    <3>4. Cardinality(T) = c + 1
      <4>1. T = R \cup {b + 1} /\ b + 1 \notin R
        BY <2>3
      <4>. HIDE DEF R
      <4>. QED  BY <3>3, <4>1, FS_AddElement
    <3>. DEFINE p == [j \in 1 .. c + 1 |-> IF j = c + 1 THEN b + 1 ELSE q[j]]
    <3>5. p \in [1 .. c + 1 -> T]
      <4>1. \A j \in 1 .. c + 1 : j # c + 1 => j \in 1 .. c
        BY <3>3
      <4>. HIDE DEF c
      <4>2. \A j \in 1 .. c + 1 : j # c + 1 => q[j] \in T
        BY <3>2, <4>1
      <4>. QED  BY <2>3, <4>2
    <3>6. \A j \in 1 .. c : q[j] \in 1 .. b
      BY <3>1, <3>2
    <3>7. \A j, k \in 1 .. c + 1 : j < k => p[j] < p[k]
      <4>. HIDE DEF R, c
      <4>1. TAKE j, k \in 1 .. c + 1
      <4>2. HAVE j < k
      <4>3. j \in 1 .. c /\ p[j] = q[j]
        BY <3>3, <4>2
      <4>4. CASE k = c + 1
        BY <3>3, <3>6, <4>3, <4>4
      <4>5. CASE k # c + 1
        BY <3>2, <3>3, <4>2, <4>3, <4>5
      <4>. QED  BY <4>4, <4>5
    <3>. HIDE DEF p, c
    <3>. QED  BY <3>4, <3>5, <3>7
  <2>. QED  BY <2>2, <2>3
<1>4. n \in Good
  <2>. HIDE DEF Good
  <2>. QED  BY <1>2, <1>3, SetInduction
<1>. QED  BY <1>1, <1>4

\* What a recursion over X does at the k-th step with the value it has.
StepOf(X) == [X \X Nat -> X]

\* The functions on 0 .. n that it defines.
Recursions(X, base, step, n) ==
  {f \in [0 .. n -> X] : /\ f[0] = base
                         /\ \A k \in 1 .. n : f[k] = step[<<f[k - 1], k>>]}

\* A recursive function on 0 .. n exists: what a definition f[k \in 0 .. n] ==
\* IF k = 0 THEN base ELSE step[<<f[k - 1], k>>] chooses.
LEMMA Recursion ==
  ASSUME NEW X, NEW base \in X, NEW step \in StepOf(X), NEW n \in Nat
  PROVE  Recursions(X, base, step, n) # {}
<1>. DEFINE Runs(f, b) == /\ f \in [0 .. b -> X] /\ f[0] = base
                          /\ \A k \in 1 .. b : f[k] = step[<<f[k - 1], k>>]
            Good == {b \in Nat : \E f : Runs(f, b)}
<1>1. 0 \in Good
  <2>1. Runs([k \in 0 .. 0 |-> base], 0)
    OBVIOUS
  <2>. HIDE DEF Runs
  <2>. QED  BY <2>1
<1>2. ASSUME NEW b \in Nat, b \in Good PROVE b + 1 \in Good
  <2>1. PICK f : Runs(f, b)
    BY <1>2
  <2>. DEFINE g == [k \in 0 .. b + 1 |-> IF k = b + 1 THEN step[<<f[b], k>>] ELSE f[k]]
  <2>2. f[b] \in X /\ step[<<f[b], b + 1>>] \in X
    <3>1. b \in 0 .. b /\ b + 1 \in Nat
      OBVIOUS
    <3>. QED  BY <2>1, <3>1 DEF StepOf
  <2>3. \A k \in 0 .. b + 1 : k # b + 1 => k \in 0 .. b
    OBVIOUS
  <2>4. g \in [0 .. b + 1 -> X]
    BY <2>1, <2>2, <2>3
  <2>5. g[0] = base
    <3>1. 0 \in 0 .. b + 1 /\ 0 # b + 1
      OBVIOUS
    <3>. QED  BY <2>1, <3>1
  <2>6. ASSUME NEW k \in 1 .. b + 1 PROVE g[k] = step[<<g[k - 1], k>>]
    <3>1. k - 1 \in 0 .. b + 1 /\ k - 1 # b + 1 /\ k \in 0 .. b + 1
      OBVIOUS
    <3>2. g[k - 1] = f[k - 1]
      BY <3>1
    <3>3. CASE k = b + 1
      <4>1. k - 1 = b
        BY <3>3
      <4>. QED  BY <3>1, <3>2, <3>3, <4>1
    <3>4. CASE k # b + 1
      <4>1. k \in 1 .. b
        BY <3>4
      <4>2. g[k] = f[k]
        BY <3>1, <3>4
      <4>. HIDE DEF g
      <4>. QED  BY <2>1, <3>2, <4>1, <4>2
    <3>. QED  BY <3>3, <3>4
  <2>. HIDE DEF g
  <2>7. Runs(g, b + 1)
    BY <2>4, <2>5, <2>6
  <2>. HIDE DEF Runs
  <2>. QED  BY <2>7
<1>3. n \in Good
  <2>. HIDE DEF Good
  <2>. QED  BY <1>1, <1>2, SetInduction
<1>4. PICK f : Runs(f, n)
  BY <1>3
<1>5. f \in Recursions(X, base, step, n)
  BY <1>4 DEF Recursions
<1>. QED  BY <1>5

\* The recursion that Kept stands for.
LEMMA KeptRecursion ==
  ASSUME NEW S, NEW s \in Seq(S), NEW D
  PROVE  \E f \in [0 .. Len(s) -> Seq(S)] :
           /\ Kept(s, D) = f[Len(s)] /\ f[0] = <<>>
           /\ \A n \in 1 .. Len(s) :
                f[n] = IF n \in D THEN Append(f[n - 1], s[n]) ELSE f[n - 1]
<1>. DEFINE m == Len(s)
            F(f) == [n \in 0 .. m |-> IF n = 0 THEN <<>>
                                      ELSE IF n \in D THEN Append(f[n - 1], s[n]) ELSE f[n - 1]]
            step == [p \in Seq(S) \X Nat |->
                       IF p[2] \in D /\ p[2] \in 1 .. m THEN Append(p[1], s[p[2]]) ELSE p[1]]
<1>1. m \in Nat /\ \A n \in 1 .. m : s[n] \in S
  OBVIOUS
<1>2. step \in [Seq(S) \X Nat -> Seq(S)]
  BY <1>1
<1>3. PICK f \in [0 .. m -> Seq(S)] :
        f[0] = <<>> /\ \A n \in 1 .. m : f[n] = step[<<f[n - 1], n>>]
  <2>. DEFINE X == Seq(S)
              base == <<>>
  <2>1. base \in X /\ m \in Nat /\ step \in StepOf(X)
    BY <1>2 DEF StepOf
  <2>. HIDE DEF step, m, X, base
  <2>2. Recursions(X, base, step, m) # {}
    BY <2>1, Recursion
  <2>. QED  BY <2>2 DEF Recursions, X, base
<1>4. ASSUME NEW n \in 1 .. m
      PROVE  f[n] = IF n \in D THEN Append(f[n - 1], s[n]) ELSE f[n - 1]
  <2>1. n - 1 \in 0 .. m /\ n \in Nat
    BY <1>1
  <2>2. f[n - 1] \in Seq(S) /\ <<f[n - 1], n>> \in Seq(S) \X Nat
    BY <1>3, <2>1
  <2>3. f[n] = step[<<f[n - 1], n>>]
    BY <1>3
  <2>. QED  BY <2>2, <2>3
<1>. HIDE DEF step
<1>5. f = F(f)
  <2>1. \A n \in 0 .. m : n # 0 => n \in 1 .. m
    BY <1>1
  <2>2. \A n \in 0 .. m : f[n] = IF n = 0 THEN <<>>
                                  ELSE IF n \in D THEN Append(f[n - 1], s[n]) ELSE f[n - 1]
    BY <1>3, <1>4, <2>1
  <2>. QED  BY <1>3, <2>2
<1>. DEFINE g == CHOOSE h : h = F(h)
<1>6. g = F(g)
  <2>. HIDE DEF F
  <2>. QED  BY <1>5
<1>7. Kept(s, D) = g[m]
  BY DEF Kept
<1>. HIDE DEF g
<1>8. \A n \in 0 .. m : g[n] = IF n = 0 THEN <<>>
                               ELSE IF n \in D THEN Append(g[n - 1], s[n]) ELSE g[n - 1]
  BY <1>6
<1>9. \A n \in 0 .. m : g[n] = f[n]
  <2>. DEFINE Same == {n \in Nat : n <= m => g[n] = f[n]}
  <2>1. 0 \in Same
    <3>1. 0 \in 0 .. m
      BY <1>1
    <3>. QED  BY <1>3, <1>8, <3>1
  <2>2. ASSUME NEW n \in Nat, n \in Same PROVE n + 1 \in Same
    <3>1. SUFFICES ASSUME n + 1 <= m PROVE g[n + 1] = f[n + 1]
      OBVIOUS
    <3>2. n + 1 \in 1 .. m /\ n + 1 \in 0 .. m /\ (n + 1) - 1 = n /\ n <= m /\ n + 1 # 0
      BY <1>1, <3>1
    <3>3. g[n] = f[n]
      BY <2>2, <3>2
    <3>. HIDE DEF m
    <3>. QED  BY <1>4, <1>8, <3>2, <3>3
  <2>3. \A n \in Nat : n \in Same
    <3>. HIDE DEF Same
    <3>. QED  BY <2>1, <2>2, SetInduction
  <2>. QED  BY <1>1, <2>3
<1>10. m \in 0 .. m /\ Kept(s, D) = f[m]
  BY <1>1, <1>7, <1>9
<1>. QED  BY <1>3, <1>4, <1>10

\* The ways in which k is a list of the elements of s at the positions in D and
\* no others, in the order of their positions at[1] < at[2] < ...
PlacesOf(k, s, D) ==
  {at \in [1 .. Len(k) -> D \cap (1 .. Len(s))] :
     /\ \A i, j \in 1 .. Len(k) : i < j => at[i] < at[j]
     /\ \A i \in D \cap (1 .. Len(s)) : \E j \in 1 .. Len(k) : at[j] = i
     /\ \A j \in 1 .. Len(k) : k[j] = s[at[j]]}

\* What Kept returns.
LEMMA KeptIs ==
  ASSUME NEW S, NEW s \in Seq(S), NEW D
  PROVE  Kept(s, D) \in Seq(S) /\ PlacesOf(Kept(s, D), s, D) # {}
<1>. DEFINE m == Len(s)
            Places(k, n, at) ==
              /\ at \in [1 .. Len(k) -> D \cap (1 .. n)]
              /\ \A i, j \in 1 .. Len(k) : i < j => at[i] < at[j]
              /\ \A i \in D \cap (1 .. n) : \E j \in 1 .. Len(k) : at[j] = i
              /\ \A j \in 1 .. Len(k) : k[j] = s[at[j]]
<1>1. PICK f \in [0 .. m -> Seq(S)] :
           /\ Kept(s, D) = f[m] /\ f[0] = <<>>
           /\ \A n \in 1 .. m : f[n] = IF n \in D THEN Append(f[n - 1], s[n]) ELSE f[n - 1]
  BY KeptRecursion
<1>. DEFINE Good == {n \in Nat : n <= m => \E at : Places(f[n], n, at)}
<1>2. m \in Nat /\ \A n \in 1 .. m : s[n] \in S
  OBVIOUS
<1>3. 0 \in Good
  <2>1. Len(f[0]) = 0 /\ 1 .. 0 = {}
    BY <1>1
  <2>2. Places(f[0], 0, [j \in 1 .. 0 |-> 0])
    BY <2>1
  <2>. HIDE DEF Places
  <2>. QED  BY <2>2
<1>4. ASSUME NEW n \in Nat, n \in Good PROVE n + 1 \in Good
  <2>1. SUFFICES ASSUME n + 1 <= m PROVE \E at : Places(f[n + 1], n + 1, at)
    OBVIOUS
  <2>2. n + 1 \in 1 .. m /\ n \in 0 .. m /\ (n + 1) - 1 = n /\ n <= m
    BY <1>2, <2>1
  <2>3. PICK at : Places(f[n], n, at)
    BY <1>4, <2>2
  <2>. DEFINE k == f[n]
              l == Len(f[n])
  <2>4. k \in Seq(S) /\ l \in Nat
    BY <1>1, <2>2
  <2>5. f[n + 1] = IF n + 1 \in D THEN Append(k, s[n + 1]) ELSE k
    BY <1>1, <2>2
  <2>6. CASE n + 1 \notin D
    <3>1. D \cap (1 .. n + 1) = D \cap (1 .. n)
      BY <2>6
    <3>2. Places(k, n + 1, at)
      BY <2>3, <3>1
    <3>. HIDE DEF Places
    <3>. QED  BY <2>5, <2>6, <3>2
  <2>7. CASE n + 1 \in D
    <3>. DEFINE kk == Append(k, s[n + 1])
                b == [j \in 1 .. l + 1 |-> IF j = l + 1 THEN n + 1 ELSE at[j]]
    <3>1. Len(kk) = l + 1 /\ kk[l + 1] = s[n + 1] /\ \A j \in 1 .. l : kk[j] = k[j]
      BY <1>2, <2>2, <2>4
    <3>. HIDE DEF kk
    <3>2. \A j \in 1 .. l + 1 : j # l + 1 => j \in 1 .. l
      BY <2>4
    <3>3. l + 1 \in 1 .. l + 1 /\ b[l + 1] = n + 1
      BY <2>4
    <3>4. \A j \in 1 .. l : j \in 1 .. l + 1 /\ b[j] = at[j] /\ at[j] \in D /\ at[j] \in 1 .. n
      <4>1. \A j \in 1 .. l : j \in 1 .. l + 1 /\ j # l + 1
        BY <2>4
      <4>. QED  BY <2>3, <4>1
    <3>. HIDE DEF l, k
    <3>5. b \in [1 .. l + 1 -> D \cap (1 .. n + 1)]
      <4>1. \A j \in 1 .. l + 1 : b[j] \in D /\ b[j] \in 1 .. n + 1
        <5>1. \A j \in 1 .. l : b[j] \in D /\ b[j] \in 1 .. n
          BY <3>4
        <5>2. b[l + 1] \in D /\ b[l + 1] \in 1 .. n + 1
          BY <2>7, <3>3
        <5>3. 1 .. n \subseteq 1 .. n + 1
          OBVIOUS
        <5>. QED  BY <3>2, <5>1, <5>2, <5>3
      <4>2. DOMAIN b = 1 .. l + 1 /\ b = [j \in 1 .. l + 1 |-> b[j]]
        BY DEF b
      <4>. QED  BY <4>1, <4>2
    <3>. HIDE DEF b
    <3>6. \A i, j \in 1 .. l + 1 : i < j => b[i] < b[j]
      <4>1. TAKE i, j \in 1 .. l + 1
      <4>2. HAVE i < j
      <4>3. i \in 1 .. l
        BY <2>4, <4>2
      <4>4. CASE j = l + 1
        BY <3>3, <3>4, <4>3, <4>4
      <4>5. CASE j # l + 1
        BY <2>3, <3>2, <3>4, <4>2, <4>3, <4>5 DEF l, k
      <4>. QED  BY <4>4, <4>5
    <3>7. \A i \in D \cap (1 .. n + 1) : \E j \in 1 .. l + 1 : b[j] = i
      <4>1. TAKE i \in D \cap (1 .. n + 1)
      <4>2. CASE i = n + 1
        BY <3>3, <4>2
      <4>3. CASE i # n + 1
        <5>1. i \in D \cap (1 .. n)
          BY <4>3
        <5>2. PICK j \in 1 .. l : at[j] = i
          BY <2>3, <5>1 DEF l, k
        <5>. QED  BY <3>4, <5>2
      <4>. QED  BY <4>2, <4>3
    <3>8. \A j \in 1 .. l + 1 : kk[j] = s[b[j]]
      <4>1. \A j \in 1 .. l : kk[j] = s[b[j]]
        BY <2>3, <3>1, <3>4 DEF l, k
      <4>. QED  BY <3>1, <3>2, <3>3, <4>1
    <3>9. Places(kk, n + 1, b)
      BY <3>1, <3>5, <3>6, <3>7, <3>8
    <3>10. f[n + 1] = kk
      BY <2>5, <2>7 DEF kk
    <3>. HIDE DEF Places
    <3>. QED  BY <3>9, <3>10
  <2>. QED  BY <2>6, <2>7
<1>5. \A n \in Nat : n \in Good
  <2>. HIDE DEF Good
  <2>. QED  BY <1>3, <1>4, SetInduction
<1>6. m \in 0 .. m /\ m <= m
  BY <1>2
<1>7. f[m] \in Seq(S)
  BY <1>1, <1>6
<1>8. PICK at : Places(f[m], m, at)
  BY <1>2, <1>5, <1>6
<1>9. Kept(s, D) = f[m]
  BY <1>1
<1>10. Places(Kept(s, D), m, at) /\ Kept(s, D) \in Seq(S)
  <2>. HIDE DEF Places
  <2>. QED  BY <1>7, <1>8, <1>9
<1>11. at \in PlacesOf(Kept(s, D), s, D)
  BY <1>10 DEF PlacesOf
<1>. QED  BY <1>10, <1>11

\* The elements kept are those at the positions in D.
LEMMA KeptValues ==
  ASSUME NEW S, NEW s \in Seq(S), NEW D
  PROVE  /\ Kept(s, D) \in Seq(S)
         /\ \A j \in DOMAIN Kept(s, D) : \E i \in DOMAIN s : i \in D /\ Kept(s, D)[j] = s[i]
         /\ \A i \in DOMAIN s : i \in D => \E j \in DOMAIN Kept(s, D) : Kept(s, D)[j] = s[i]
<1>. DEFINE k == Kept(s, D)
<1>1. k \in Seq(S)
  BY KeptIs
<1>2. PICK at \in PlacesOf(k, s, D) : TRUE
  BY KeptIs
<1>3. /\ at \in [1 .. Len(k) -> D \cap (1 .. Len(s))]
      /\ \A i \in D \cap (1 .. Len(s)) : \E j \in 1 .. Len(k) : at[j] = i
      /\ \A j \in 1 .. Len(k) : k[j] = s[at[j]]
  BY <1>2 DEF PlacesOf
<1>. HIDE DEF k
<1>4. DOMAIN k = 1 .. Len(k) /\ DOMAIN s = 1 .. Len(s)
  BY <1>1
<1>5. \A j \in DOMAIN k : \E i \in DOMAIN s : i \in D /\ k[j] = s[i]
  BY <1>3, <1>4
<1>6. \A i \in DOMAIN s : i \in D => \E j \in DOMAIN k : k[j] = s[i]
  BY <1>3, <1>4
<1>. QED  BY <1>1, <1>5, <1>6 DEF k

\* The last element, if it is kept, is the last of those kept.
LEMMA KeptLast ==
  ASSUME NEW S, NEW s \in Seq(S), NEW D, Len(s) \in D, Len(s) # 0
  PROVE  Len(Kept(s, D)) # 0 /\ Kept(s, D)[Len(Kept(s, D))] = s[Len(s)]
<1>. DEFINE m == Len(s)
<1>1. PICK f \in [0 .. m -> Seq(S)] :
           /\ Kept(s, D) = f[m] /\ f[0] = <<>>
           /\ \A n \in 1 .. m : f[n] = IF n \in D THEN Append(f[n - 1], s[n]) ELSE f[n - 1]
  BY KeptRecursion
<1>2. m \in 1 .. m /\ m - 1 \in 0 .. m /\ s[m] \in S
  OBVIOUS
<1>3. f[m - 1] \in Seq(S) /\ f[m] = Append(f[m - 1], s[m])
  BY <1>1, <1>2
<1>. QED  BY <1>1, <1>2, <1>3

\* A sequence and the element behind it.
LEMMA Appended ==
  ASSUME NEW S, NEW s \in Seq(S), NEW x \in S
  PROVE  /\ Append(s, x) \in Seq(S) /\ Append(s, x) # <<>>
         /\ \A i \in DOMAIN s : i \in DOMAIN Append(s, x) /\ Append(s, x)[i] = s[i]
         /\ Len(s) + 1 \in DOMAIN Append(s, x) /\ Append(s, x)[Len(s) + 1] = x
         /\ \A i \in DOMAIN Append(s, x) : i \in DOMAIN s \/ Append(s, x)[i] = x
<1>. DEFINE c == Append(s, x)
            n == Len(s)
<1>1. c \in Seq(S) /\ Len(c) = n + 1 /\ n \in Nat /\ DOMAIN s = 1 .. n
  OBVIOUS
<1>2. \A i \in 1 .. n : c[i] = s[i]
  OBVIOUS
<1>3. c[n + 1] = x
  OBVIOUS
<1>4. DOMAIN c = 1 .. n + 1
  BY <1>1
<1>5. c # <<>>
  BY <1>1
<1>. HIDE DEF c, n
<1>6. \A i \in 1 .. n + 1 : i \in 1 .. n \/ i = n + 1
  BY <1>1
<1>7. (\A i \in 1 .. n : i \in 1 .. n + 1) /\ n + 1 \in 1 .. n + 1
  BY <1>1
<1>. QED  BY <1>1, <1>2, <1>3, <1>4, <1>5, <1>6, <1>7 DEF c, n

\* Where the elements of two sequences are in their concatenation.
LEMMA Concatenated ==
  ASSUME NEW S, NEW a \in Seq(S), NEW b \in Seq(S)
  PROVE  /\ a \o b \in Seq(S) /\ Len(a \o b) = Len(a) + Len(b)
         /\ Len(a) \in Nat /\ Len(b) \in Nat
         /\ \A i \in 1 .. Len(a) : i \in DOMAIN (a \o b) /\ (a \o b)[i] = a[i]
         /\ \A i \in 1 .. Len(b) : Len(a) + i \in DOMAIN (a \o b) /\ (a \o b)[Len(a) + i] = b[i]
         /\ \A j \in DOMAIN (a \o b) : j \notin 1 .. Len(a) =>
              j - Len(a) \in 1 .. Len(b) /\ (a \o b)[j] = b[j - Len(a)]
<1>. DEFINE c == a \o b
            m == Len(a)
            n == Len(b)
<1>1. c \in Seq(S) /\ Len(c) = m + n /\ m \in Nat /\ n \in Nat
  OBVIOUS
<1>2. \A i \in 1 .. m + n : c[i] = IF i <= m THEN a[i] ELSE b[i - m]
  OBVIOUS
<1>3. DOMAIN c = 1 .. m + n
  BY <1>1
<1>. HIDE DEF c, m, n
<1>4. \A i \in 1 .. m : i \in 1 .. m + n /\ i <= m
  BY <1>1
<1>5. \A i \in 1 .. n : m + i \in 1 .. m + n /\ ~ (m + i <= m) /\ (m + i) - m = i
  BY <1>1
<1>6. \A j \in 1 .. m + n : j \notin 1 .. m => j - m \in 1 .. n /\ ~ (j <= m)
  BY <1>1
<1>7. \A i \in 1 .. m : i \in DOMAIN c /\ c[i] = a[i]
  BY <1>2, <1>3, <1>4
<1>8. \A i \in 1 .. n : m + i \in DOMAIN c /\ c[m + i] = b[i]
  BY <1>2, <1>3, <1>5
<1>9. \A j \in DOMAIN c : j \notin 1 .. m => j - m \in 1 .. n /\ c[j] = b[j - m]
  BY <1>2, <1>3, <1>6
<1>. QED  BY <1>1, <1>7, <1>8, <1>9 DEF c, m, n

\* A function from 1 .. |S| to S that takes no value twice takes every value.
LEMMA InjectiveListing ==
  ASSUME NEW S, IsFiniteSet(S), NEW s \in [1 .. Cardinality(S) -> S],
         \A i, j \in 1 .. Cardinality(S) : s[i] = s[j] => i = j
  PROVE  /\ s \in Seq(S) /\ Len(s) = Cardinality(S) /\ DOMAIN s = 1 .. Cardinality(S)
         /\ \A x \in S : \E i \in DOMAIN s : s[i] = x
<1>. DEFINE n == Cardinality(S)
            D == 1 .. n
<1>1. n \in Nat
  BY FS_CardinalityType
<1>2. s \in [D -> S] /\ \A i, j \in D : s[i] = s[j] => i = j
  OBVIOUS
<1>3. IsFiniteSet(D) /\ Cardinality(D) = n
  <2>. HIDE DEF n
  <2>1. IsFiniteSet(1 .. n) /\ Cardinality(1 .. n) = IF 1 > n THEN 0 ELSE n - 1 + 1
    BY <1>1, FS_Interval
  <2>. QED  BY <1>1, <2>1
<1>4. s \in Seq(S) /\ Len(s) = n /\ DOMAIN s = D
  BY <1>1, <1>2
<1>. HIDE DEF n, D
<1>5. s \in Injection(D, S)
  BY <1>2 DEF Injection, IsInjective
<1>6. s \in Surjection(D, S)
  BY <1>3, <1>5, FS_Injection DEF n
<1>7. \A x \in S : \E i \in D : s[i] = x
  BY <1>6 DEF Surjection
<1>. QED  BY <1>4, <1>7 DEF n, D

\* A finite set has such a listing.
LEMMA ListingExists ==
  ASSUME NEW S, IsFiniteSet(S)
  PROVE  \E s \in [1 .. Cardinality(S) -> S] :
           \A i, j \in 1 .. Cardinality(S) : s[i] = s[j] => i = j
<1>1. PICK s \in Bijection(1 .. Cardinality(S), S) : TRUE
  BY FS_CardinalityType DEF ExistsBijection
<1>. QED  BY <1>1 DEF Bijection, Injection, IsInjective

=============================================================================
