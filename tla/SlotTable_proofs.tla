-------------------------- MODULE SlotTable_proofs --------------------------
(***************************************************************************)
(* The slots of a relfile: every live row keeps a slot with its vector,    *)
(* through splices, the inserts that write at once, swap-removes and       *)
(* bitmaps, and whatever stops a swap-remove.                              *)
(***************************************************************************)
EXTENDS SlotTable, DataInduction_proofs, SequenceTheorems

\* The rows of a column of slots.
RowsIn(s) == {s[i] : i \in DOMAIN s}

\* A backend's copy.
Copy == [on : BOOLEAN, rows : Seq(Row), touched : Seq(Id), current : BOOLEAN]

-----------------------------------------------------------------------------
(* The copy.                                                               *)

LEMMA RowsElements ==
  ASSUME NEW s \in Seq(Row)
  PROVE  /\ Len(s) \in Nat /\ DOMAIN s = 1 .. Len(s)
         /\ \A i \in 1 .. Len(s) : s[i] \in Row /\ s[i].id \in Id /\ s[i].vec \in Vec
         /\ RowsIn(s) \subseteq Row
<1>1. Len(s) \in Nat /\ DOMAIN s = 1 .. Len(s) /\ \A i \in 1 .. Len(s) : s[i] \in Row
  OBVIOUS
<1>2. \A r \in Row : r.id \in Id /\ r.vec \in Vec
  BY DEF Row
<1>. QED  BY <1>1, <1>2 DEF RowsIn

\* IdMapIndex::remove.
LEMMA SwapRemovedIs ==
  ASSUME NEW s \in Seq(Row), NEW i \in DOMAIN s
  PROVE  /\ SwapRemoved(s, i) \in Seq(Row) /\ Len(SwapRemoved(s, i)) = Len(s) - 1
         /\ \A j \in 1 .. Len(s) - 1 :
              SwapRemoved(s, i)[j] = IF j = i THEN s[Len(s)] ELSE s[j]
<1>. DEFINE e == [s EXCEPT ![i] = s[Len(s)]]
<1>1. /\ Len(s) \in Nat /\ Len(s) # 0 /\ i \in 1 .. Len(s) /\ Len(s) \in DOMAIN s
      /\ DOMAIN s = 1 .. Len(s)
  OBVIOUS
<1>2. /\ e \in Seq(Row) /\ Len(e) = Len(s)
      /\ \A j \in 1 .. Len(s) : e[j] = IF j = i THEN s[Len(s)] ELSE s[j]
  BY <1>1
<1>3. SwapRemoved(s, i) = SubSeq(e, 1, Len(s) - 1)
  BY DEF SwapRemoved, Last
<1>. HIDE DEF e
<1>4. \A j \in 1 .. Len(s) - 1 : e[j] \in Row
  BY <1>1, <1>2
<1>5. /\ SubSeq(e, 1, Len(s) - 1) \in Seq(Row)
      /\ Len(SubSeq(e, 1, Len(s) - 1)) = IF 1 <= Len(s) - 1 THEN Len(s) - 1 - 1 + 1 ELSE 0
      /\ \A j \in 1 .. Len(s) - 1 - 1 + 1 : SubSeq(e, 1, Len(s) - 1)[j] = e[1 + j - 1]
  BY <1>1, <1>4, SubSeqProperties
<1>6. \A j \in 1 .. Len(s) - 1 : SubSeq(e, 1, Len(s) - 1)[j] = e[j]
  BY <1>1, <1>5
<1>. QED  BY <1>1, <1>2, <1>3, <1>5, <1>6

\* add_with_ids: the row of an id is replaced, the others stay.
LEMMA UpsertedIs ==
  ASSUME NEW s \in Seq(Row), Bijective(s), NEW row \in Row
  PROVE  /\ Upserted(s, row) \in Seq(Row) /\ Bijective(Upserted(s, row))
         /\ row \in RowsIn(Upserted(s, row))
         /\ \A r \in RowsIn(s) : r.id # row.id => r \in RowsIn(Upserted(s, row))
<1>. DEFINE u == Upserted(s, row)
<1>0. PICK n \in Nat : n = Len(s)
  OBVIOUS
<1>1. n = Len(s) /\ DOMAIN s = 1 .. n /\ \A i, j \in 1 .. n : s[i].id = s[j].id => i = j
  BY <1>0 DEF Bijective
<1>2. CASE SlotsOf(s, {row.id}) = {}
  <2>1. u = Append(s, row) /\ \A i \in 1 .. n : s[i].id # row.id
    BY <1>1, <1>2 DEF Upserted, SlotsOf
  <2>. HIDE DEF u
  <2>2. u \in Seq(Row) /\ Len(u) = n + 1 /\ u[n + 1] = row /\ \A i \in 1 .. n : u[i] = s[i]
    BY <1>1, <2>1
  <2>3. DOMAIN u = 1 .. n + 1 /\ \A i \in 1 .. n + 1 : i \in 1 .. n \/ i = n + 1
    BY <1>1, <2>2
  <2>4. Bijective(u)
    BY <1>1, <2>1, <2>2, <2>3 DEF Bijective
  <2>5. row \in RowsIn(u) /\ \A r \in RowsIn(s) : r \in RowsIn(u)
    BY <1>1, <2>2, <2>3 DEF RowsIn
  <2>. QED  BY <2>2, <2>4, <2>5 DEF u
<1>3. CASE SlotsOf(s, {row.id}) # {}
  <2>. DEFINE x == CHOOSE i \in SlotsOf(s, {row.id}) : TRUE
              w == SwapRemoved(s, x)
  <2>1. x \in 1 .. n /\ s[x].id = row.id
    <3>1. x \in SlotsOf(s, {row.id})
      BY <1>3
    <3>. QED  BY <1>1, <3>1 DEF SlotsOf
  <2>2. u = Append(w, row)
    BY <1>3 DEF Upserted
  <2>. HIDE DEF x
  <2>3. /\ w \in Seq(Row) /\ Len(w) = n - 1
        /\ \A j \in 1 .. n - 1 : w[j] = IF j = x THEN s[n] ELSE s[j]
    <3>1. x \in DOMAIN s
      BY <1>1, <2>1
    <3>2. /\ SwapRemoved(s, x) \in Seq(Row) /\ Len(SwapRemoved(s, x)) = Len(s) - 1
          /\ \A j \in 1 .. Len(s) - 1 : SwapRemoved(s, x)[j] = IF j = x THEN s[Len(s)] ELSE s[j]
      BY <3>1, SwapRemovedIs, Zenon
    <3>3. w = SwapRemoved(s, x)
      OBVIOUS
    <3>. HIDE DEF w
    <3>. QED  BY ONLY <1>0, <3>2, <3>3, Zenon
  <2>. HIDE DEF w, u
  <2>4. /\ u \in Seq(Row) /\ Len(u) = n /\ u[n] = row /\ DOMAIN u = 1 .. n
        /\ \A j \in 1 .. n - 1 : u[j] = IF j = x THEN s[n] ELSE s[j]
    BY <1>1, <2>1, <2>2, <2>3
  <2>5. /\ \A j \in 1 .. n : j \in 1 .. n - 1 \/ j = n
        /\ \A j \in 1 .. n - 1 : j \in 1 .. n /\ j # n
        /\ n \in 1 .. n
    BY <1>1, <2>1
  <2>6. \A j \in 1 .. n - 1 : u[j].id # row.id
    BY <1>1, <2>1, <2>4, <2>5
  <2>7. \A i, j \in 1 .. n - 1 : u[i].id = u[j].id => i = j
    BY <1>1, <2>1, <2>4, <2>5
  <2>8. Bijective(u)
    BY <2>4, <2>5, <2>6, <2>7 DEF Bijective
  <2>9. ASSUME NEW r \in RowsIn(s), r.id # row.id PROVE r \in RowsIn(u)
    <3>1. PICK j \in 1 .. n : s[j] = r
      BY <1>1 DEF RowsIn
    <3>2. j # x
      BY <2>1, <2>9, <3>1
    <3>3. CASE j = n
      <4>1. x \in 1 .. n - 1
        BY <1>1, <2>1, <3>2, <3>3
      <4>. QED  BY <2>4, <2>5, <3>1, <3>3, <4>1 DEF RowsIn
    <3>4. CASE j # n
      BY <2>4, <2>5, <3>1, <3>2, <3>4 DEF RowsIn
    <3>. QED  BY <3>3, <3>4
  <2>. QED  BY <2>4, <2>5, <2>8, <2>9 DEF u, RowsIn
<1>. QED  BY <1>2, <1>3

-----------------------------------------------------------------------------
(* The flush.                                                              *)

\* d is disk with the row that s has of the TID t.
SplicedRow(d, disk, s, t) ==
  /\ d \in Seq(Row) /\ Len(disk) <= Len(d)
  /\ \A i \in 1 .. Len(disk) : d[i].id = disk[i].id
  /\ \E r \in RowsIn(s) :
       /\ r.id = t /\ r \in RowsIn(d)
       /\ \A i \in 1 .. Len(d) : d[i] = r \/ (i <= Len(disk) /\ d[i] = disk[i])
  /\ Bijective(disk) => Bijective(d)

LEMMA SplicedIs ==
  ASSUME NEW disk \in Seq(Row), NEW s \in Seq(Row), NEW t, SlotsOf(s, {t}) # {}
  PROVE  SplicedRow(Spliced(disk, s, t), disk, s, t)
<1>. DEFINE d == Spliced(disk, s, t)
            r == s[CHOOSE i \in SlotsOf(s, {t}) : TRUE]
            at == SlotsOf(disk, {t})
<1>0. PICK n \in Nat : n = Len(disk)
  OBVIOUS
<1>1. r \in RowsIn(s) /\ r.id = t /\ r \in Row
  <2>. DEFINE x == CHOOSE i \in SlotsOf(s, {t}) : TRUE
  <2>1. x \in SlotsOf(s, {t})
    OBVIOUS
  <2>. HIDE DEF x
  <2>2. x \in DOMAIN s /\ s[x].id = t /\ s[x] \in Row
    BY <2>1 DEF SlotsOf
  <2>. QED  BY <2>2 DEF RowsIn, x
<1>2. d = IF at = {} THEN Append(disk, r) ELSE [disk EXCEPT ![CHOOSE i \in at : TRUE] = r]
  BY DEF Spliced
<1>. HIDE DEF d, r
<1>3. /\ n = Len(disk) /\ DOMAIN disk = 1 .. n
      /\ Bijective(disk) => \A i, j \in 1 .. n : disk[i].id = disk[j].id => i = j
  BY <1>0 DEF Bijective
<1>4. CASE at = {}
  <2>1. d = Append(disk, r) /\ \A i \in 1 .. n : disk[i].id # t
    BY <1>2, <1>3, <1>4 DEF SlotsOf
  <2>2. /\ d \in Seq(Row) /\ Len(d) = n + 1 /\ DOMAIN d = 1 .. n + 1 /\ d[n + 1] = r
        /\ \A i \in 1 .. n : d[i] = disk[i]
    BY <1>1, <1>3, <2>1
  <2>3. \A i \in 1 .. n + 1 : i \in 1 .. n \/ i = n + 1
    OBVIOUS
  <2>4. Bijective(disk) => Bijective(d)
    BY <1>1, <1>3, <2>1, <2>2, <2>3 DEF Bijective
  <2>5. r \in RowsIn(d)
    <3>1. n + 1 \in DOMAIN d
      BY <2>2
    <3>. QED  BY <2>2, <3>1 DEF RowsIn
  <2>6. \A i \in 1 .. Len(d) : d[i] = r \/ (i <= Len(disk) /\ d[i] = disk[i])
    BY <1>3, <2>2, <2>3
  <2>. QED  BY <1>1, <1>3, <2>2, <2>4, <2>5, <2>6 DEF SplicedRow, d
<1>5. CASE at # {}
  <2>. DEFINE x == CHOOSE i \in at : TRUE
  <2>1. x \in 1 .. n /\ disk[x].id = t
    <3>1. x \in at
      BY <1>5
    <3>. QED  BY <1>3, <3>1 DEF SlotsOf
  <2>2. d = [disk EXCEPT ![x] = r]
    BY <1>2, <1>5
  <2>. HIDE DEF x, at
  <2>3. /\ d \in Seq(Row) /\ Len(d) = n /\ DOMAIN d = 1 .. n
        /\ \A i \in 1 .. n : d[i] = IF i = x THEN r ELSE disk[i]
    BY <1>1, <1>3, <2>1, <2>2
  <2>4. \A i \in 1 .. n : d[i].id = disk[i].id
    BY <1>1, <2>1, <2>3
  <2>5. Bijective(disk) => Bijective(d)
    BY <1>3, <2>3, <2>4 DEF Bijective
  <2>6. r \in RowsIn(d)
    BY <2>1, <2>3 DEF RowsIn
  <2>7. \A i \in 1 .. Len(d) : d[i] = r \/ (i <= Len(disk) /\ d[i] = disk[i])
    BY <1>3, <2>3
  <2>. QED  BY <1>1, <1>3, <2>3, <2>4, <2>5, <2>6, <2>7 DEF SplicedRow, d
<1>. QED  BY <1>4, <1>5

\* d is disk with the rows that s has of the TIDs in T: the slots keep their
\* TIDs, and what is in them is of s if it is touched, else of disk.
Reconciled(d, disk, s, T) ==
  /\ d \in Seq(Row) /\ Bijective(d) /\ Len(disk) <= Len(d)
  /\ \A i \in 1 .. Len(disk) : d[i].id = disk[i].id
  /\ \A i \in 1 .. Len(d) :
       \/ d[i] \in RowsIn(s) /\ d[i].id \in T
       \/ i <= Len(disk) /\ d[i] = disk[i] /\ disk[i].id \notin T
  /\ \A t \in T : \E i \in 1 .. Len(d) : d[i].id = t /\ d[i] \in RowsIn(s)

LEMMA ReconciledOne ==
  ASSUME NEW disk \in Seq(Row), NEW s \in Seq(Row), NEW T, NEW d, Reconciled(d, disk, s, T),
         NEW t, NEW e, SplicedRow(e, d, s, t)
  PROVE  Reconciled(e, disk, s, T \cup {t})
<1>1. PICK r \in RowsIn(s) :
        /\ r.id = t /\ r \in RowsIn(e)
        /\ \A i \in 1 .. Len(e) : e[i] = r \/ (i <= Len(d) /\ e[i] = d[i])
  BY DEF SplicedRow
<1>2. PICK l \in Nat, m \in Nat, n \in Nat : l = Len(disk) /\ m = Len(d) /\ n = Len(e)
  BY DEF Reconciled, SplicedRow
<1>3. e \in Seq(Row) /\ DOMAIN e = 1 .. n /\ Bijective(e) /\ l <= m /\ m <= n
  BY <1>2 DEF Reconciled, SplicedRow
<1>4. PICK x \in 1 .. n : e[x] = r
  BY <1>1, <1>3 DEF RowsIn
<1>5. \A i \in 1 .. n : e[i].id = t => e[i] = r
  BY <1>1, <1>3, <1>4 DEF Bijective
<1>6. \A i \in 1 .. l : i \in 1 .. m
  BY <1>3
<1>7. \A i \in 1 .. l : e[i].id = disk[i].id
  BY <1>2, <1>6 DEF Reconciled, SplicedRow
<1>8. ASSUME NEW i \in 1 .. n
      PROVE  \/ e[i] \in RowsIn(s) /\ e[i].id \in T \cup {t}
             \/ i <= l /\ e[i] = disk[i] /\ disk[i].id \notin T \cup {t}
  <2>1. CASE e[i] = r
    BY <1>1, <2>1
  <2>2. CASE e[i] # r
    <3>1. i \in 1 .. m /\ e[i] = d[i] /\ e[i].id # t
      BY <1>1, <1>2, <1>5, <2>2
    <3>. QED  BY <1>2, <3>1 DEF Reconciled
  <2>. QED  BY <2>1, <2>2
<1>9. ASSUME NEW u \in T \cup {t} PROVE \E i \in 1 .. n : e[i].id = u /\ e[i] \in RowsIn(s)
  <2>1. CASE u = t
    BY <1>1, <1>4, <2>1
  <2>2. CASE u # t
    <3>1. PICK i \in 1 .. m : d[i].id = u /\ d[i] \in RowsIn(s)
      BY <1>2, <2>2 DEF Reconciled
    <3>2. i \in 1 .. n /\ e[i].id = d[i].id
      BY <1>2, <1>3, <3>1 DEF SplicedRow
    <3>3. e[i] = r \/ e[i] = d[i]
      BY <1>1, <1>2, <3>2
    <3>. QED  BY <1>1, <3>1, <3>2, <3>3
  <2>. QED  BY <2>1, <2>2
<1>. QED  BY <1>2, <1>3, <1>7, <1>8, <1>9 DEF Reconciled

\* The touched ids one after the other, the last one first.
LEMMA SplicesAreReconciled ==
  ASSUME NEW disk \in Seq(Row), disk # <<>>, Bijective(disk), NEW s \in Seq(Row),
         NEW touched \in Seq(Id), \A t \in Range(touched) : SlotsOf(s, {t}) # {}
  PROVE  Reconciled(ReconcileFlushImage(disk, s, touched), disk, s, Range(touched))
<1>. DEFINE F(h, l) == [n \in 0 .. l |-> IF n = 0 THEN disk
                                         ELSE Spliced(h[n - 1], s, touched[l + 1 - n])]
<1>1. PICK l \in Nat : l = Len(touched)
  OBVIOUS
<1>. DEFINE X == Seq(Row)
            step == [p \in X \X Nat |->
                       IF p[2] \in 1 .. l THEN Spliced(p[1], s, touched[l + 1 - p[2]]) ELSE p[1]]
            LastOnes(n) == {touched[l + 1 - k] : k \in 1 .. n}
<1>2. DOMAIN touched = 1 .. l /\ \A n \in 1 .. l : l + 1 - n \in 1 .. l
  BY <1>1
<1>3. \A n \in 1 .. l : SlotsOf(s, {touched[l + 1 - n]}) # {}
  BY <1>2 DEF Range
<1>4. \A d \in X : \A n \in 1 .. l :
        SplicedRow(Spliced(d, s, touched[l + 1 - n]), d, s, touched[l + 1 - n])
  BY <1>3, SplicedIs
<1>5. \A d \in X : \A n \in 1 .. l : Spliced(d, s, touched[l + 1 - n]) \in X
  BY <1>4 DEF SplicedRow
<1>6. PICK f \in [0 .. l -> X] : f[0] = disk /\ \A n \in 1 .. l : f[n] = step[<<f[n - 1], n>>]
  <2>1. step \in StepOf(X) /\ disk \in X
    BY <1>5 DEF StepOf
  <2>. HIDE DEF step, X
  <2>2. Recursions(X, disk, step, l) # {}
    BY <2>1, Recursion
  <2>. QED  BY <2>2 DEF Recursions
<1>7. ASSUME NEW n \in 1 .. l PROVE f[n] = Spliced(f[n - 1], s, touched[l + 1 - n])
  <2>1. n - 1 \in 0 .. l /\ n \in Nat
    OBVIOUS
  <2>2. <<f[n - 1], n>> \in X \X Nat
    BY <1>6, <2>1
  <2>. QED  BY <1>6, <2>2
<1>. HIDE DEF step
<1>8. f = F(f, l)
  <2>1. \A n \in 0 .. l : n # 0 => n \in 1 .. l
    OBVIOUS
  <2>2. \A n \in 0 .. l : f[n] = IF n = 0 THEN disk ELSE Spliced(f[n - 1], s, touched[l + 1 - n])
    BY <1>6, <1>7, <2>1
  <2>. QED  BY <1>6, <2>2
<1>. DEFINE g == CHOOSE h : h = F(h, l)
<1>9. g = F(g, l)
  <2>. HIDE DEF F
  <2>. QED  BY <1>8
<1>10. ReconcileFlushImage(disk, s, touched) = g[l]
  BY <1>1 DEF ReconcileFlushImage
<1>. HIDE DEF g
<1>11. \A n \in 0 .. l : g[n] = IF n = 0 THEN disk ELSE Spliced(g[n - 1], s, touched[l + 1 - n])
  BY <1>9
<1>. DEFINE Good == {n \in Nat : n <= l => Reconciled(g[n], disk, s, LastOnes(n))}
<1>12. 0 \in Good
  <2>1. g[0] = disk /\ LastOnes(0) = {}
    BY <1>11
  <2>2. Reconciled(disk, disk, s, {})
    <3>1. Len(disk) \in Nat
      OBVIOUS
    <3>. QED  BY <3>1 DEF Reconciled
  <2>. QED  BY <2>1, <2>2
<1>13. ASSUME NEW n \in Nat, n \in Good PROVE n + 1 \in Good
  <2>1. SUFFICES ASSUME n + 1 <= l PROVE Reconciled(g[n + 1], disk, s, LastOnes(n + 1))
    OBVIOUS
  <2>2. n + 1 \in 0 .. l /\ n + 1 \in 1 .. l /\ (n + 1) - 1 = n /\ n + 1 # 0 /\ n <= l
    BY <2>1
  <2>. DEFINE t == touched[l + 1 - (n + 1)]
  <2>3. g[n + 1] = Spliced(g[n], s, t)
    BY <1>11, <2>2
  <2>4. Reconciled(g[n], disk, s, LastOnes(n))
    BY <1>13, <2>2
  <2>5. SplicedRow(g[n + 1], g[n], s, t)
    BY <1>4, <2>2, <2>3, <2>4 DEF Reconciled
  <2>6. LastOnes(n + 1) = LastOnes(n) \cup {t}
    <3>1. \A k : k \in 1 .. n + 1 <=> k \in 1 .. n \/ k = n + 1
      OBVIOUS
    <3>. QED  BY <3>1
  <2>. HIDE DEF t, LastOnes
  <2>. QED  BY <2>4, <2>5, <2>6, ReconciledOne
<1>14. \A n \in Nat : n \in Good
  <2>. HIDE DEF Good
  <2>. QED  BY <1>12, <1>13, SetInduction
<1>15. LastOnes(l) = Range(touched)
  <2>1. \A k \in 1 .. l : k = l + 1 - (l + 1 - k)
    OBVIOUS
  <2>2. \A k \in 1 .. l : touched[k] \in LastOnes(l)
    BY <1>2, <2>1
  <2>3. LastOnes(l) \subseteq Range(touched)
    BY <1>2 DEF Range
  <2>. QED  BY <1>2, <2>2, <2>3 DEF Range
<1>. HIDE DEF LastOnes
<1>. QED  BY <1>10, <1>14, <1>15

\* An empty relfile takes the touched rows of the copy as they lie there.
LEMMA FirstFlushIsReconciled ==
  ASSUME NEW s \in Seq(Row), Bijective(s), NEW touched \in Seq(Id),
         \A t \in Range(touched) : SlotsOf(s, {t}) # {}
  PROVE  Reconciled(ReconcileFlushImage(<<>>, s, touched), <<>>, s, Range(touched))
<1>. DEFINE T == Range(touched)
            D == SlotsOf(s, T)
            k == Kept(s, D)
<1>1. ReconcileFlushImage(<<>>, s, touched) = k
  BY DEF ReconcileFlushImage
<1>2. k \in Seq(Row) /\ PlacesOf(k, s, D) # {}
  <2>. HIDE DEF D
  <2>. QED  BY KeptIs
<1>3. PICK l \in Nat, n \in Nat : l = Len(k) /\ n = Len(s)
  BY <1>2
<1>4. PICK at \in [1 .. l -> D \cap (1 .. n)] :
        /\ \A i, j \in 1 .. l : i < j => at[i] < at[j]
        /\ \A i \in D \cap (1 .. n) : \E j \in 1 .. l : at[j] = i
        /\ \A j \in 1 .. l : k[j] = s[at[j]]
  BY <1>2, <1>3 DEF PlacesOf
<1>5. D = {i \in 1 .. n : s[i].id \in T} /\ DOMAIN s = 1 .. n
  BY <1>3 DEF SlotsOf
<1>6. \A t \in T : \E i \in 1 .. n : s[i].id = t
  BY <1>5 DEF SlotsOf
<1>. HIDE DEF T, D, k
<1>7. \A j \in 1 .. l : at[j] \in 1 .. n /\ k[j] = s[at[j]] /\ s[at[j]].id \in T
  BY <1>4, <1>5
<1>8. \A i, j \in 1 .. l : k[i].id = k[j].id => i = j
  <2>1. TAKE i, j \in 1 .. l
  <2>2. HAVE k[i].id = k[j].id
  <2>3. at[i] = at[j]
    BY <1>5, <1>7, <2>2 DEF Bijective
  <2>4. ~ (i < j) /\ ~ (j < i)
    BY <1>4, <1>7, <2>3
  <2>. QED  BY <2>4
<1>9. Bijective(k)
  BY <1>2, <1>3, <1>8 DEF Bijective
<1>10. \A j \in 1 .. l : k[j] \in RowsIn(s)
  BY <1>5, <1>7 DEF RowsIn
<1>11. \A t \in T : \E j \in 1 .. l : k[j].id = t
  <2>1. TAKE t \in T
  <2>2. PICK i \in 1 .. n : s[i].id = t
    BY <1>6
  <2>3. i \in D \cap (1 .. n)
    BY <1>5, <2>2
  <2>4. PICK j \in 1 .. l : at[j] = i
    BY <1>4, <2>3, Zenon
  <2>5. k[j] = s[i]
    BY <1>7, <2>4
  <2>. QED  BY <2>2, <2>4, <2>5
<1>12. Len(<<>>) = 0 /\ \A i \in 1 .. Len(<<>>) : FALSE
  OBVIOUS
<1>13. Len(<<>>) <= Len(k)
  BY <1>3, <1>12
<1>14. \A i \in 1 .. Len(k) : k[i] \in RowsIn(s) /\ k[i].id \in T
  BY <1>3, <1>7, <1>10
<1>15. \A t \in T : \E i \in 1 .. Len(k) : k[i].id = t /\ k[i] \in RowsIn(s)
  BY <1>3, <1>10, <1>11
<1>16. Reconciled(k, <<>>, s, T)
  BY <1>2, <1>9, <1>12, <1>13, <1>14, <1>15, Zenon DEF Reconciled
<1>. QED  BY <1>1, <1>16 DEF T

-----------------------------------------------------------------------------
(* The dead slots, and the rows cell by cell.                              *)

\* The slots of the TIDs in K, the last one first.
LEMMA DeadSlotsDescend ==
  ASSUME slots \in Seq(Row), NEW K
  PROVE  /\ DeadSlots(K) \in Seq(DOMAIN slots)
         /\ \A i, j \in DOMAIN DeadSlots(K) : i < j => DeadSlots(K)[j] < DeadSlots(K)[i]
         /\ Range(DeadSlots(K)) = SlotsOf(slots, K)
<1>. DEFINE s == [i \in DOMAIN slots |-> i]
            D == SlotsOf(slots, K)
            k == Kept(s, D)
            d == Reverse(k)
<1>1. PICK n \in Nat : n = Len(slots)
  OBVIOUS
<1>2. DOMAIN slots = 1 .. n
  BY <1>1
<1>3. s \in Seq(1 .. n) /\ Len(s) = n /\ \A i \in 1 .. n : s[i] = i
  BY <1>2
<1>4. D \subseteq 1 .. n
  BY <1>2 DEF SlotsOf
<1>. HIDE DEF s, D
<1>5. k \in Seq(1 .. n) /\ PlacesOf(k, s, D) # {}
  BY <1>3, KeptIs
<1>6. PICK l \in Nat : l = Len(k) /\ DOMAIN k = 1 .. l
  BY <1>5
<1>7. PICK at \in [1 .. l -> D \cap (1 .. n)] :
        /\ \A i, j \in 1 .. l : i < j => at[i] < at[j]
        /\ \A i \in D \cap (1 .. n) : \E j \in 1 .. l : at[j] = i
        /\ \A j \in 1 .. l : k[j] = s[at[j]]
  BY <1>3, <1>5, <1>6 DEF PlacesOf
<1>8. \A j \in 1 .. l : k[j] = at[j] /\ k[j] \in D
  BY <1>3, <1>7
<1>9. d = [i \in 1 .. l |-> k[(l - i) + 1]]
  BY <1>6 DEF Reverse
<1>. HIDE DEF k
<1>10. \A i \in 1 .. l : (l - i) + 1 \in 1 .. l
  OBVIOUS
<1>11. d \in Seq(1 .. n) /\ DOMAIN d = 1 .. l /\ \A i \in 1 .. l : d[i] = k[(l - i) + 1]
  <2>1. \A i \in 1 .. l : k[(l - i) + 1] \in 1 .. n
    BY <1>4, <1>8, <1>10
  <2>. QED  BY <1>9, <2>1
<1>12. DeadSlots(K) = d
  BY DEF DeadSlots, d, k, s, D
<1>. HIDE DEF d
<1>13. \A i, j \in 1 .. l : i < j => d[j] < d[i]
  <2>1. TAKE i, j \in 1 .. l
  <2>2. HAVE i < j
  <2>3. (l - j) + 1 \in 1 .. l /\ (l - i) + 1 \in 1 .. l /\ (l - j) + 1 < (l - i) + 1
    BY <2>2
  <2>4. k[(l - j) + 1] < k[(l - i) + 1]
    BY <1>7, <1>8, <2>3
  <2>. QED  BY <1>11, <2>4
<1>14. \A x \in D : \E i \in 1 .. l : d[i] = x
  <2>1. TAKE x \in D
  <2>2. PICK j \in 1 .. l : k[j] = x
    BY <1>4, <1>7, <1>8
  <2>3. (l - j) + 1 \in 1 .. l /\ (l - ((l - j) + 1)) + 1 = j
    OBVIOUS
  <2>. QED  BY <1>11, <2>2, <2>3
<1>15. \A i \in 1 .. l : d[i] \in D
  BY <1>8, <1>10, <1>11
<1>16. Range(d) = D
  BY <1>11, <1>14, <1>15 DEF Range
<1>. QED  BY <1>2, <1>11, <1>12, <1>13, <1>16 DEF D

\* The order of a scan of a finite set.
LEMMA ListingIs ==
  ASSUME NEW S, IsFiniteSet(S), NEW s \in SetToSeqs(S)
  PROVE  /\ s \in Seq(S)
         /\ \A i, j \in DOMAIN s : s[i] = s[j] => i = j
         /\ \A x \in S : \E i \in DOMAIN s : s[i] = x
<1>1. PICK n : n = Cardinality(S)
  OBVIOUS
<1>2. s \in [1 .. n -> S] /\ \A i, j \in 1 .. n : i # j => s[i] # s[j]
  BY <1>1 DEF SetToSeqs
<1>3. \A i, j \in 1 .. n : s[i] = s[j] => i = j
  BY <1>2
<1>4. s \in [1 .. Cardinality(S) -> S]
  BY <1>1, <1>2
<1>5. \A i, j \in 1 .. Cardinality(S) : s[i] = s[j] => i = j
  BY <1>1, <1>3
<1>6. s \in Seq(S) /\ DOMAIN s = 1 .. Cardinality(S) /\ \A x \in S : \E i \in DOMAIN s : s[i] = x
  BY <1>4, <1>5, InjectiveListing
<1>. QED  BY <1>5, <1>6

\* A slot of a relfile with cells: a row and the cell it is in.
Placed == [row : Row, cell : Vec]

\* The rows in the order of their cells are all of the rows and nothing else.
LEMMA LayoutIs ==
  ASSUME NEW rows \in Seq(Row), NEW order \in Seq(Vec), NEW soft \in BOOLEAN,
         \A c \in Vec : \E k \in DOMAIN order : order[k] = c
  PROVE  /\ Layout(rows, order, soft) \in Seq(Placed)
         /\ \A i \in DOMAIN Layout(rows, order, soft) :
              Layout(rows, order, soft)[i].row \in RowsIn(rows)
         /\ \A r \in RowsIn(rows) : \E i \in DOMAIN Layout(rows, order, soft) :
              Layout(rows, order, soft)[i].row = r
<1>. DEFINE InCell(c) == Kept(rows, {i \in DOMAIN rows : soft \/ rows[i].vec = c})
            Cell(c) == [i \in DOMAIN InCell(c) |-> [row |-> InCell(c)[i], cell |-> c]]
            F(h) == [n \in 0 .. Len(order) |-> IF n = 0 THEN <<>> ELSE h[n - 1] \o Cell(order[n])]
            X == Seq(Placed)
            R == RowsIn(rows)
<1>1. PICK l \in Nat : l = Len(order)
  OBVIOUS
<1>2. DOMAIN order = 1 .. l /\ \A n \in 1 .. l : order[n] \in Vec
  BY <1>1
<1>3. ASSUME NEW c \in Vec
      PROVE  /\ Cell(c) \in X
             /\ \A i \in DOMAIN Cell(c) : Cell(c)[i].row \in R
             /\ \A r \in R : r.vec = c => \E i \in DOMAIN Cell(c) : Cell(c)[i].row = r
  <2>. DEFINE D == {i \in DOMAIN rows : soft \/ rows[i].vec = c}
              k == Kept(rows, D)
              q == [i \in DOMAIN k |-> [row |-> k[i], cell |-> c]]
  <2>1. PICK m \in Nat : m = Len(rows) /\ DOMAIN rows = 1 .. m
    OBVIOUS
  <2>2. D = {i \in 1 .. m : soft \/ rows[i].vec = c}
    BY <2>1
  <2>. HIDE DEF D
  <2>3. k \in Seq(Row) /\ PlacesOf(k, rows, D) # {}
    BY KeptIs
  <2>4. PICK j \in Nat : j = Len(k) /\ DOMAIN k = 1 .. j
    BY <2>3
  <2>5. PICK at \in [1 .. j -> D \cap (1 .. m)] :
          /\ \A i \in D \cap (1 .. m) : \E x \in 1 .. j : at[x] = i
          /\ \A x \in 1 .. j : k[x] = rows[at[x]]
    <3>1. PICK at \in PlacesOf(k, rows, D) : TRUE
      BY <2>3
    <3>. HIDE DEF k
    <3>2. at \in [1 .. j -> D \cap (1 .. m)]
      BY ONLY <2>1, <2>4, <3>1 DEF PlacesOf
    <3>3. \A i \in D \cap (1 .. m) : \E x \in 1 .. j : at[x] = i
      BY ONLY <2>1, <2>4, <3>1 DEF PlacesOf
    <3>4. \A x \in 1 .. j : k[x] = rows[at[x]]
      BY ONLY <2>4, <3>1 DEF PlacesOf
    <3>. QED  BY ONLY <3>2, <3>3, <3>4, Zenon
  <2>6. \A x \in 1 .. j : k[x] \in Row /\ k[x] \in R
    BY <2>1, <2>3, <2>4, <2>5 DEF RowsIn
  <2>. HIDE DEF k
  <2>7. /\ q \in X /\ DOMAIN q = 1 .. j
        /\ \A x \in 1 .. j : q[x].row = k[x]
    <3>1. \A x \in 1 .. j : [row |-> k[x], cell |-> c] \in Placed
      BY <2>6 DEF Placed
    <3>2. DOMAIN q = 1 .. j /\ \A x \in 1 .. j : q[x] = [row |-> k[x], cell |-> c]
      BY <2>4
    <3>3. q = [x \in 1 .. j |-> [row |-> k[x], cell |-> c]]
      BY <2>4
    <3>4. q \in X
      BY <3>1, <3>3
    <3>. QED  BY <3>2, <3>4
  <2>8. Cell(c) = q
    BY DEF k, D
  <2>. HIDE DEF q
  <2>9. ASSUME NEW r \in R, r.vec = c PROVE \E x \in 1 .. j : q[x].row = r
    <3>1. PICK i \in 1 .. m : rows[i] = r
      BY <2>1 DEF RowsIn
    <3>2. i \in D \cap (1 .. m)
      BY <2>2, <2>9, <3>1
    <3>. QED  BY <2>5, <2>7, <3>1, <3>2
  <2>. QED  BY <2>6, <2>7, <2>8, <2>9
<1>. HIDE DEF Cell
<1>. DEFINE step == [p \in X \X Nat |-> IF p[2] \in 1 .. l THEN p[1] \o Cell(order[p[2]]) ELSE p[1]]
<1>4. \A d \in X : \A n \in 1 .. l : d \o Cell(order[n]) \in X
  BY <1>2, <1>3
<1>5. PICK f \in [0 .. l -> X] : f[0] = <<>> /\ \A n \in 1 .. l : f[n] = step[<<f[n - 1], n>>]
  <2>. DEFINE none == <<>>
  <2>1. step \in StepOf(X) /\ none \in X
    BY <1>4 DEF StepOf
  <2>. HIDE DEF step, X, none
  <2>2. Recursions(X, none, step, l) # {}
    BY <2>1, Recursion
  <2>. QED  BY <2>2 DEF Recursions, none
<1>6. ASSUME NEW n \in 1 .. l PROVE f[n] = f[n - 1] \o Cell(order[n])
  <2>1. n - 1 \in 0 .. l /\ n \in Nat
    OBVIOUS
  <2>2. <<f[n - 1], n>> \in X \X Nat
    BY <1>5, <2>1
  <2>. QED  BY <1>5, <2>2
<1>. HIDE DEF step
<1>7. f = F(f)
  <2>1. \A n \in 0 .. l : n # 0 => n \in 1 .. l
    OBVIOUS
  <2>2. \A n \in 0 .. l : f[n] = IF n = 0 THEN <<>> ELSE f[n - 1] \o Cell(order[n])
    BY <1>5, <1>6, <2>1
  <2>. QED  BY <1>1, <1>5, <2>2
<1>. DEFINE g == CHOOSE h : h = F(h)
<1>8. g = F(g)
  <2>. HIDE DEF F
  <2>. QED  BY <1>7
<1>9. Layout(rows, order, soft) = g[l]
  BY <1>1 DEF Layout, Cell
<1>. HIDE DEF g
<1>10. \A n \in 0 .. l : g[n] = IF n = 0 THEN <<>> ELSE g[n - 1] \o Cell(order[n])
  BY <1>1, <1>8
<1>. DEFINE All(d, n) ==
              /\ d \in X
              /\ \A i \in DOMAIN d : d[i].row \in R
              /\ \A k \in 1 .. n : \A r \in R : r.vec = order[k] => \E i \in DOMAIN d : d[i].row = r
            Good == {n \in Nat : n <= l => All(g[n], n)}
<1>11. 0 \in Good
  <2>1. g[0] = <<>>
    BY <1>10
  <2>2. All(<<>>, 0)
    <3>1. <<>> \in X /\ DOMAIN <<>> = {} /\ 1 .. 0 = {}
      OBVIOUS
    <3>. HIDE DEF X, R
    <3>2. \A i \in DOMAIN <<>> : FALSE
      BY <3>1, Zenon
    <3>3. \A k \in 1 .. 0 : FALSE
      BY <3>1, Zenon
    <3>. QED  BY <3>1, <3>2, <3>3, Zenon
  <2>. HIDE DEF All
  <2>. QED  BY <2>1, <2>2
<1>12. ASSUME NEW n \in Nat, n \in Good PROVE n + 1 \in Good
  <2>1. SUFFICES ASSUME n + 1 <= l PROVE All(g[n + 1], n + 1)
    OBVIOUS
  <2>2. n + 1 \in 0 .. l /\ n + 1 \in 1 .. l /\ (n + 1) - 1 = n /\ n + 1 # 0 /\ n <= l
    BY <2>1
  <2>. DEFINE c == Cell(order[n + 1])
              d == g[n]
              e == g[n + 1]
  <2>3. e = d \o c
    BY <1>10, <2>2
  <2>4. All(d, n)
    BY <1>12, <2>2
  <2>5. /\ c \in X /\ \A i \in DOMAIN c : c[i].row \in R
        /\ \A r \in R : r.vec = order[n + 1] => \E i \in DOMAIN c : c[i].row = r
    BY <1>2, <1>3, <2>2
  <2>. HIDE DEF c, d, e, X
  <2>6. PICK x \in Nat, y \in Nat :
          x = Len(d) /\ y = Len(c) /\ DOMAIN d = 1 .. x /\ DOMAIN c = 1 .. y
    BY <2>4, <2>5 DEF X
  <2>7. /\ e \in X /\ DOMAIN e = 1 .. x + y
        /\ \A i \in 1 .. x : e[i] = d[i]
        /\ \A i \in 1 .. y : e[x + i] = c[i]
    BY <2>3, <2>4, <2>5, <2>6 DEF X
  <2>8. /\ \A i \in 1 .. x + y : i \in 1 .. x \/ (i - x \in 1 .. y /\ i = x + (i - x))
        /\ \A i \in 1 .. x : i \in 1 .. x + y
        /\ \A i \in 1 .. y : x + i \in 1 .. x + y
    BY <2>6
  <2>9. \A i \in 1 .. x + y : e[i].row \in R
    <3>1. TAKE i \in 1 .. x + y
    <3>2. CASE i \in 1 .. x
      BY <2>4, <2>6, <2>7, <3>2
    <3>3. CASE i - x \in 1 .. y /\ i = x + (i - x)
      <4>1. e[i] = c[i - x]
        BY <2>7, <3>3
      <4>. QED  BY <2>5, <2>6, <3>3, <4>1
    <3>. QED  BY <2>8, <3>2, <3>3
  <2>10. ASSUME NEW k \in 1 .. n + 1, NEW r \in R, r.vec = order[k]
         PROVE  \E i \in 1 .. x + y : e[i].row = r
    <3>1. CASE k = n + 1
      <4>1. PICK i \in 1 .. y : c[i].row = r
        BY <2>5, <2>6, <2>10, <3>1
      <4>2. x + i \in 1 .. x + y /\ e[x + i] = c[i]
        BY <2>7, <2>8
      <4>. QED  BY <4>1, <4>2
    <3>2. CASE k # n + 1
      <4>1. k \in 1 .. n
        BY <3>2
      <4>2. PICK i \in 1 .. x : d[i].row = r
        BY <2>4, <2>6, <2>10, <4>1
      <4>. QED  BY <2>7, <2>8, <4>2
    <3>. QED  BY <3>1, <3>2
  <2>11. All(e, n + 1)
    BY <2>7, <2>9, <2>10
  <2>. QED  BY <2>11 DEF e
<1>13. \A n \in Nat : n \in Good
  <2>. HIDE DEF Good
  <2>. QED  BY <1>11, <1>12, SetInduction
<1>14. All(g[l], l)
  <2>. HIDE DEF All
  <2>1. l \in Good /\ l <= l
    BY <1>13
  <2>. QED  BY <2>1
<1>15. ASSUME NEW r \in R PROVE \E k \in 1 .. l : r.vec = order[k]
  <2>1. r.vec \in Vec
    BY RowsElements DEF Row
  <2>. QED  BY <1>2, <2>1
<1>. HIDE DEF R, X
<1>. QED  BY <1>9, <1>14, <1>15 DEF R, X

-----------------------------------------------------------------------------
(* Steps that leave the relfile alone.                                     *)

\* The slots of U hold the rows of the TIDs in W, whose tuples h has, and none of
\* a TID that is free.
Holding(s, U, W, h) == \A t \in W : \E i \in U : s[i].id = t /\ s[i].vec = h[t].vec
Owning(s, U, W, h) ==
  \A i \in U : h[s[i].id].st # "free" /\ (s[i].id \in W => s[i].vec = h[s[i].id].vec)
Single(s, U) == \A i, j \in U : s[i].id = s[j].id => i = j

LEMMA RelfilePart ==
  /\ WrittenKept <=> Holding(slots, Unmasked, Written, heap)
  /\ SlotsOwned <=> (~ torn => Owning(slots, Unmasked, Written, heap))
  /\ NoTwins <=> (~ torn /\ ((cells = <<>> /\ kind # "bq") \/ \E b \in Backend : snap[b].on)
                    => Single(slots, Used))
BY DEF WrittenKept, SlotsOwned, NoTwins, Holding, Owning, Single

\* The tuples change so that no row is added to those written, none of a TID in a
\* slot is freed, and what VACUUM has taken for dead stays so.
LEMMA HeapStep ==
  ASSUME SlotsInv, UNCHANGED <<kind, slots, cells, tomb, vac, torn>>,
         \A t \in Written' : t \in Written /\ heap'[t].vec = heap[t].vec,
         \A t \in Id : heap'[t].st = "free" => heap[t].st = "free" \/ SlotsOf(slots, {t}) = {},
         \A t \in vac.dead : heap'[t].st = "dead",
         (\E b \in Backend : snap'[b].on) => (\E b \in Backend : snap[b].on) \/ Single(slots, Used)
  PROVE  WrittenKept' /\ SlotsOwned' /\ NoTwins' /\ SwapRemoveSound'
<1>1. Used' = Used /\ Unmasked' = Unmasked
  BY DEF Used, Unmasked
<1>2. /\ Holding(slots, Unmasked, Written, heap)
      /\ ~ torn => Owning(slots, Unmasked, Written, heap)
      /\ ~ torn /\ ((cells = <<>> /\ kind # "bq") \/ \E b \in Backend : snap[b].on)
           => Single(slots, Used)
  BY RelfilePart DEF SlotsInv
<1>3. Used \subseteq DOMAIN slots /\ \A i \in DOMAIN slots : slots[i].id \in Id
  <2>1. slots \in Seq(Row) /\ vac.alive \in 0 .. Len(slots)
    BY DEF SlotsInv, TypeOK
  <2>. QED  BY <2>1, RowsElements DEF Used
<1>4. WrittenKept'
  <2>1. \A t \in Written' : \E i \in Unmasked : slots[i].id = t /\ slots[i].vec = heap'[t].vec
    BY <1>2 DEF Holding
  <2>. QED  BY <1>1, <2>1 DEF WrittenKept
<1>5. SlotsOwned'
  <2>1. SUFFICES ASSUME ~ torn, NEW i \in Unmasked
                 PROVE  /\ heap'[slots[i].id].st # "free"
                        /\ slots[i].id \in Written' => slots[i].vec = heap'[slots[i].id].vec
    BY <1>1 DEF SlotsOwned
  <2>2. i \in DOMAIN slots /\ slots[i].id \in Id /\ i \in SlotsOf(slots, {slots[i].id})
    BY <1>3 DEF Unmasked, SlotsOf
  <2>3. /\ heap[slots[i].id].st # "free"
        /\ slots[i].id \in Written => slots[i].vec = heap[slots[i].id].vec
    BY <1>2, <2>1 DEF Owning
  <2>. QED  BY <2>2, <2>3
<1>6. NoTwins'
  <2>1. ~ torn /\ ((cells = <<>> /\ kind # "bq") \/ \E b \in Backend : snap'[b].on)
          => Single(slots, Used)
    BY <1>2
  <2>. QED  BY <1>1, <2>1 DEF NoTwins, Single
<1>7. SwapRemoveSound'
  <2>1. SwapRemoveSound /\ vac.on \in BOOLEAN /\ vac.dead \subseteq Id
    BY DEF SlotsInv, TypeOK
  <2>2. vac.dead \subseteq {t \in Id : heap'[t].st = "dead"}
    BY <2>1
  <2>. QED  BY <2>1, <2>2 DEF SwapRemoveSound
<1>. QED  BY <1>4, <1>5, <1>6, <1>7

\* The copies change only in that they are no longer current, and the tuples of
\* transactions with a copy do not.
LEMMA CopiesStep ==
  ASSUME SlotsInv, kind' = kind, snap' = snap \/ snap' = Outdated(snap, Nobody),
         ~ WritesAtOnce => \A t \in Id : heap'[t].st = "pending" \/ heap[t].st = "pending"
                                          => heap'[t] = heap[t]
  PROVE  /\ CopiesOfOwners'
         /\ snap' \in [Backend -> Copy]
         /\ \A b \in Backend : snap'[b].on = snap[b].on
         /\ snap' = Outdated(snap, Nobody) => \A b \in Backend : ~ snap'[b].current
<1>1. snap \in [Backend -> Copy] /\ CopiesOfOwners
  BY DEF SlotsInv, TypeOK, Copy
<1>. DEFINE Stale(x) == [x EXCEPT !.current = FALSE]
<1>0. ASSUME NEW x \in Copy
      PROVE  /\ Stale(x) \in Copy /\ ~ Stale(x).current
             /\ Stale(x).on = x.on /\ Stale(x).rows = x.rows /\ Stale(x).touched = x.touched
  BY DEF Copy
<1>2. /\ snap' \in [Backend -> Copy]
      /\ \A b \in Backend : /\ snap'[b].on = snap[b].on /\ snap'[b].rows = snap[b].rows
                            /\ snap'[b].touched = snap[b].touched
                            /\ snap'[b].current => snap[b].current
                            /\ snap' = Outdated(snap, Nobody) => ~ snap'[b].current
  <2>1. Outdated(snap, Nobody) = [b \in Backend |-> Stale(snap[b])]
    BY NobodyAssumption DEF Outdated
  <2>. HIDE DEF Stale
  <2>2. CASE snap' = Outdated(snap, Nobody)
    BY <1>0, <1>1, <2>1, <2>2
  <2>3. CASE snap' = snap /\ snap' # Outdated(snap, Nobody)
    BY <1>1, <2>3
  <2>. QED  BY <2>2, <2>3
<1>3. WritesAtOnce' = WritesAtOnce
  BY DEF WritesAtOnce
<1>4. ASSUME NEW b \in Backend, ~ WritesAtOnce
      PROVE  /\ Pending(b)' = Pending(b)
             /\ \A t \in Pending(b) : heap'[t].vec = heap[t].vec
  <2>1. \A t \in Id : heap'[t].st = "pending" \/ heap[t].st = "pending" => heap'[t] = heap[t]
    BY <1>4
  <2>2. \A t \in Id : heap'[t].st = "pending" /\ heap'[t].own = b
                        <=> heap[t].st = "pending" /\ heap[t].own = b
    BY <2>1
  <2>3. Pending(b)' = {t \in Id : heap'[t].st = "pending" /\ heap'[t].own = b}
    BY DEF Pending
  <2>. QED  BY <2>1, <2>2, <2>3 DEF Pending
<1>5. ASSUME NEW b \in Backend
      PROVE  /\ ~ snap'[b].on => snap'[b].touched = <<>> /\ ~ snap'[b].current
             /\ WritesAtOnce' => ~ snap'[b].on
             /\ ~ WritesAtOnce' => Range(snap'[b].touched) = Pending(b)'
             /\ Bijective(snap'[b].rows)
             /\ ~ WritesAtOnce' => \A t \in Pending(b)' : \E i \in DOMAIN snap'[b].rows :
                                     snap'[b].rows[i] = [id |-> t, vec |-> heap'[t].vec]
  BY <1>1, <1>2, <1>3, <1>4 DEF CopiesOfOwners
<1>6. CopiesOfOwners'
  BY <1>5 DEF CopiesOfOwners
<1>. QED  BY <1>2, <1>6

\* A tuple stays, dies, or is freed when no slot has it.
LEMMA TuplesEnd ==
  ASSUME SlotsInv, kind' = kind, heap' \in [Id -> Tuple],
         \A t \in Id : \/ heap'[t] = heap[t]
                       \/ heap'[t] = DeadTuple
                       \/ heap'[t] = FreeTuple /\ SlotsOf(slots, {t}) = {} /\ ~ vac.on
  PROVE  /\ TuplesOwned'
         /\ \A t \in Written' : t \in Written /\ heap'[t].vec = heap[t].vec
         /\ \A t \in Id : heap'[t].st = "free" => heap[t].st = "free" \/ SlotsOf(slots, {t}) = {}
         /\ \A t \in vac.dead : heap'[t].st = "dead"
<1>1. DeadTuple.st = "dead" /\ FreeTuple.st = "free"
  BY DEF DeadTuple, FreeTuple
<1>2. TuplesOwned /\ SwapRemoveSound /\ WritesAtOnce' = WritesAtOnce
  BY DEF SlotsInv, WritesAtOnce
<1>3. TuplesOwned'
  BY <1>1, <1>2 DEF TuplesOwned
<1>4. \A t \in Written' : t \in Written /\ heap'[t].vec = heap[t].vec
  BY <1>1, <1>2 DEF Written
<1>5. \A t \in vac.dead : heap'[t].st = "dead"
  <2>1. CASE vac.on
    <3>1. \A t \in vac.dead : t \in Id /\ heap[t].st = "dead"
      BY <1>2, <2>1 DEF SwapRemoveSound
    <3>. QED  BY <1>1, <2>1, <3>1
  <2>2. CASE ~ vac.on
    <3>1. vac = NoVacuum
      BY <1>2, <2>2 DEF SwapRemoveSound
    <3>. QED  BY <3>1 DEF NoVacuum
  <2>. QED  BY <2>1, <2>2
<1>6. \A t \in Id : heap'[t].st = "free" => heap[t].st = "free" \/ SlotsOf(slots, {t}) = {}
  BY <1>1
<1>. QED  BY <1>3, <1>4, <1>5, <1>6

\* Nothing but tuples change.
LEMMA HeapOnly ==
  ASSUME SlotsInv, UNCHANGED <<kind, slots, cells, tomb, snap, vac, torn>>,
         heap' \in [Id -> Tuple], TuplesOwned',
         \A t \in Written' : t \in Written /\ heap'[t].vec = heap[t].vec,
         \A t \in Id : heap'[t].st = "free" => heap[t].st = "free" \/ SlotsOf(slots, {t}) = {},
         \A t \in vac.dead : heap'[t].st = "dead",
         ~ WritesAtOnce => \A t \in Id : heap'[t].st = "pending" \/ heap[t].st = "pending"
                                          => heap'[t] = heap[t]
  PROVE  SlotsInv'
<1>1. WrittenKept' /\ SlotsOwned' /\ NoTwins' /\ SwapRemoveSound'
  BY HeapStep
<1>2. CopiesOfOwners'
  BY CopiesStep
<1>3. TypeOK' /\ CurrentCopyIsRelfile'
  BY DEF SlotsInv, TypeOK, CurrentCopyIsRelfile
<1>. QED  BY <1>1, <1>2, <1>3 DEF SlotsInv

LEMMA DeleteStep ==
  ASSUME SlotsInv, kind' = kind, NEW t \in Id, Delete(t)
  PROVE  SlotsInv'
<1>1. heap \in [Id -> Tuple] /\ DeadTuple \in Tuple /\ DeadTuple.st = "dead"
  BY DEF SlotsInv, TypeOK, Tuple, DeadTuple
<1>2. /\ heap' = [heap EXCEPT ![t] = DeadTuple] /\ heap[t].st = "live"
      /\ UNCHANGED <<kind, slots, cells, tomb, snap, vac, torn>>
  BY DEF Delete
<1>3. heap' \in [Id -> Tuple] /\ \A u \in Id : heap'[u] = IF u = t THEN DeadTuple ELSE heap[u]
  BY <1>1, <1>2
<1>. QED  BY <1>1, <1>2, <1>3, TuplesEnd, HeapOnly

LEMMA VacuumNothingStep ==
  ASSUME SlotsInv, kind' = kind, NEW K \in SUBSET Dead, VacuumNothing(K)
  PROVE  SlotsInv'
<1>1. heap \in [Id -> Tuple] /\ FreeTuple \in Tuple /\ FreeTuple.st = "free"
  BY DEF SlotsInv, TypeOK, Tuple, FreeTuple
<1>2. /\ heap' = Freed(K) /\ ~ vac.on /\ SlotsOf(slots, K) = {}
      /\ UNCHANGED <<kind, slots, cells, tomb, snap, vac, torn>>
  BY DEF VacuumNothing
<1>3. heap' \in [Id -> Tuple] /\ \A u \in Id : heap'[u] = IF u \in K THEN FreeTuple ELSE heap[u]
  BY <1>1, <1>2 DEF Freed
<1>4. \A u \in K : heap[u].st = "dead" /\ SlotsOf(slots, {u}) = {}
  BY <1>2 DEF Dead, SlotsOf
<1>. QED  BY <1>1, <1>2, <1>3, <1>4, TuplesEnd, HeapOnly

LEMMA InsertRefusedStep ==
  ASSUME SlotsInv, kind' = kind, NEW b \in Backend, NEW t \in Id, InsertRefused(b, t)
  PROVE  SlotsInv'
<1>1. heap \in [Id -> Tuple] /\ DeadTuple \in Tuple /\ WritesAtOnce
  BY DEF SlotsInv, TypeOK, Tuple, DeadTuple, WritesAtOnce, InsertRefused
<1>2. /\ heap' = [Aborted(b) EXCEPT ![t] = DeadTuple]
      /\ UNCHANGED <<kind, slots, cells, tomb, snap, vac, torn>>
  BY DEF InsertRefused
<1>3. /\ heap' \in [Id -> Tuple]
      /\ \A u \in Id : heap'[u] = IF u = t \/ u \in Pending(b) THEN DeadTuple ELSE heap[u]
  BY <1>1, <1>2 DEF Aborted
<1>. QED  BY <1>1, <1>2, <1>3, TuplesEnd, HeapOnly

\* The tuples of a transaction that commits.
LEMMA CommittedIs ==
  ASSUME TypeOK, TuplesOwned, NEW b \in Backend
  PROVE  /\ Committed(Pending(b)) \in [Id -> Tuple]
         /\ \A t \in Id : t \notin Pending(b) => Committed(Pending(b))[t] = heap[t]
         /\ \A t \in Pending(b) : /\ Committed(Pending(b))[t].st = "live"
                                  /\ Committed(Pending(b))[t].vec = heap[t].vec
                                  /\ heap[t].st = "pending" /\ heap[t].vec \in Vec
<1>1. heap \in [Id -> Tuple]
  BY DEF TypeOK
<1>2. ASSUME NEW x \in Tuple
      PROVE  /\ [x EXCEPT !.st = "live", !.own = Nobody] \in Tuple
             /\ [x EXCEPT !.st = "live", !.own = Nobody].st = "live"
             /\ [x EXCEPT !.st = "live", !.own = Nobody].vec = x.vec
  BY DEF Tuple
<1>3. \A t \in Pending(b) : t \in Id /\ heap[t].st = "pending" /\ heap[t].vec \in Vec
  BY DEF Pending, TuplesOwned
<1>. QED  BY <1>1, <1>2, <1>3 DEF Committed

LEMMA CommitStep ==
  ASSUME SlotsInv, kind' = kind, NEW b \in Backend, Commit(b)
  PROVE  SlotsInv'
<1>1. WritesAtOnce /\ WritesAtOnce' /\ TuplesOwned /\ SwapRemoveSound
  BY DEF SlotsInv, Commit, WritesAtOnce
<1>2. heap' = Committed(Pending(b)) /\ UNCHANGED <<kind, slots, cells, tomb, snap, vac, torn>>
  BY DEF Commit
<1>3. /\ heap' \in [Id -> Tuple]
      /\ \A t \in Id : t \notin Pending(b) => heap'[t] = heap[t]
      /\ \A t \in Pending(b) : /\ heap'[t].st = "live" /\ heap'[t].vec = heap[t].vec
                               /\ heap[t].st = "pending" /\ heap[t].vec \in Vec
  BY <1>2, CommittedIs DEF SlotsInv
<1>4. TuplesOwned'
  BY <1>1, <1>3 DEF TuplesOwned
<1>5. \A t \in Written' : t \in Written /\ heap'[t].vec = heap[t].vec
  BY <1>1, <1>3 DEF Written
<1>6. \A t \in Id : heap'[t].st = "free" => heap[t].st = "free"
  BY <1>3
<1>7. \A t \in vac.dead : heap'[t].st = "dead"
  <2>1. ~ vac.on
    BY <1>1 DEF SwapRemoveSound, WritesAtOnce
  <2>. QED  BY <1>1, <2>1 DEF SwapRemoveSound, NoVacuum
<1>. QED  BY <1>1, <1>2, <1>3, <1>4, <1>5, <1>6, <1>7, HeapOnly

-----------------------------------------------------------------------------
(* Steps that change a copy.                                               *)

\* Backend b's copy changes, and its tuples; of the others, whether they are
\* current.
LEMMA OwnCopyStep ==
  ASSUME SlotsInv, kind' = kind, NEW b \in Backend, NEW c \in Copy,
         snap' = [snap EXCEPT ![b] = c] \/ snap' = Outdated([snap EXCEPT ![b] = c], b),
         \A t \in Id : \/ heap'[t].st = "pending" /\ heap'[t].own # b
                       \/ heap[t].st = "pending" /\ heap[t].own # b
                       => heap'[t] = heap[t],
         ~ c.on => c.touched = <<>> /\ ~ c.current,
         WritesAtOnce => ~ c.on,
         Bijective(c.rows),
         ~ WritesAtOnce => Range(c.touched) = Pending(b)',
         ~ WritesAtOnce =>
           \A t \in Pending(b)' : [id |-> t, vec |-> heap'[t].vec] \in RowsIn(c.rows)
  PROVE  /\ CopiesOfOwners'
         /\ snap' \in [Backend -> Copy] /\ snap'[b] = c
         /\ \A a \in Backend \ {b} : /\ snap'[a].on = snap[a].on
                                     /\ snap'[a].rows = snap[a].rows
                                     /\ snap'[a].touched = snap[a].touched
                                     /\ snap'[a].current => snap[a].current
         /\ snap' = Outdated([snap EXCEPT ![b] = c], b) =>
              \A a \in Backend \ {b} : ~ snap'[a].current
<1>1. snap \in [Backend -> Copy] /\ CopiesOfOwners
  BY DEF SlotsInv, TypeOK, Copy
<1>. DEFINE Stale(x) == [x EXCEPT !.current = FALSE]
<1>2. ASSUME NEW x \in Copy
      PROVE  /\ Stale(x) \in Copy
             /\ Stale(x).on = x.on /\ Stale(x).rows = x.rows /\ Stale(x).touched = x.touched
             /\ ~ Stale(x).current
  BY DEF Copy
<1>3. /\ snap' \in [Backend -> Copy] /\ snap'[b] = c
      /\ \A a \in Backend \ {b} : snap'[a] = snap[a] \/ snap'[a] = Stale(snap[a])
      /\ snap' = Outdated([snap EXCEPT ![b] = c], b) =>
           \A a \in Backend \ {b} : snap'[a] = Stale(snap[a])
  <2>. DEFINE f == [snap EXCEPT ![b] = c]
  <2>1. f \in [Backend -> Copy] /\ f[b] = c /\ \A a \in Backend \ {b} : f[a] = snap[a]
    BY <1>1
  <2>2. Outdated(f, b) = [a \in Backend |-> IF a = b THEN f[a] ELSE Stale(f[a])]
    BY DEF Outdated
  <2>3. snap' = f \/ snap' = Outdated(f, b)
    OBVIOUS
  <2>. HIDE DEF f, Stale
  <2>4. \A a \in Backend : Stale(f[a]) \in Copy
    BY <1>2, <2>1
  <2>5. Outdated(f, b) \in [Backend -> Copy]
    BY <2>1, <2>2, <2>4
  <2>6. /\ Outdated(f, b)[b] = c
        /\ \A a \in Backend \ {b} : Outdated(f, b)[a] = Stale(snap[a])
    BY <2>1, <2>2
  <2>7. snap' \in [Backend -> Copy] /\ snap'[b] = c
    BY <2>1, <2>3, <2>5, <2>6
  <2>8. \A a \in Backend \ {b} : snap'[a] = snap[a] \/ snap'[a] = Stale(snap[a])
    BY <2>1, <2>3, <2>6
  <2>. QED  BY <2>6, <2>7, <2>8 DEF f
<1>. HIDE DEF Stale
<1>4. \A a \in Backend \ {b} : /\ snap'[a].on = snap[a].on /\ snap'[a].rows = snap[a].rows
                               /\ snap'[a].touched = snap[a].touched
                               /\ snap'[a].current => snap[a].current
  BY <1>1, <1>2, <1>3
<1>0. snap' = Outdated([snap EXCEPT ![b] = c], b) => \A a \in Backend \ {b} : ~ snap'[a].current
  <2>1. SUFFICES ASSUME snap' = Outdated([snap EXCEPT ![b] = c], b), NEW a \in Backend \ {b}
                 PROVE  ~ snap'[a].current
    OBVIOUS
  <2>2. snap'[a] = Stale(snap[a])
    BY <1>3, <2>1, Zenon
  <2>3. snap[a] \in Copy
    BY <1>1
  <2>. QED  BY <1>2, <2>2, <2>3
<1>5. WritesAtOnce' = WritesAtOnce
  BY DEF WritesAtOnce
<1>. HIDE DEF Copy
<1>6. ASSUME NEW a \in Backend \ {b}
      PROVE  Pending(a)' = Pending(a) /\ \A t \in Pending(a) : heap'[t].vec = heap[t].vec
  <2>1. \A t \in Id : heap'[t].st = "pending" /\ heap'[t].own = a
                        <=> heap[t].st = "pending" /\ heap[t].own = a
    OBVIOUS
  <2>2. Pending(a)' = {t \in Id : heap'[t].st = "pending" /\ heap'[t].own = a}
    BY DEF Pending
  <2>3. \A t \in Pending(a) : heap'[t] = heap[t]
    BY DEF Pending
  <2>. QED  BY <2>1, <2>2, <2>3 DEF Pending
<1>7. ASSUME NEW a \in Backend
      PROVE  /\ ~ snap'[a].on => snap'[a].touched = <<>> /\ ~ snap'[a].current
             /\ WritesAtOnce' => ~ snap'[a].on
             /\ ~ WritesAtOnce' => Range(snap'[a].touched) = Pending(a)'
             /\ Bijective(snap'[a].rows)
             /\ ~ WritesAtOnce' => \A t \in Pending(a)' : \E i \in DOMAIN snap'[a].rows :
                                     snap'[a].rows[i] = [id |-> t, vec |-> heap'[t].vec]
  <2>1. CASE a = b
    <3>1. ~ WritesAtOnce => \A t \in Pending(b)' : \E i \in DOMAIN c.rows :
                              c.rows[i] = [id |-> t, vec |-> heap'[t].vec]
      BY DEF RowsIn
    <3>. QED  BY <1>3, <1>5, <2>1, <3>1
  <2>2. CASE a # b
    BY <1>1, <1>4, <1>5, <1>6, <2>2 DEF CopiesOfOwners
  <2>. QED  BY <2>1, <2>2
<1>8. CopiesOfOwners'
  BY <1>7 DEF CopiesOfOwners
<1>. QED  BY <1>0, <1>3, <1>4, <1>8

LEMMA NoSnapIs ==
  /\ NoSnap \in Copy /\ ~ NoSnap.on /\ ~ NoSnap.current
  /\ NoSnap.touched = <<>> /\ Range(NoSnap.touched) = {} /\ Bijective(NoSnap.rows)
BY DEF NoSnap, Copy, Range, Bijective

LEMMA AbortStep ==
  ASSUME SlotsInv, kind' = kind, NEW b \in Backend, Abort(b)
  PROVE  SlotsInv'
<1>1. heap \in [Id -> Tuple] /\ DeadTuple \in Tuple /\ DeadTuple.st = "dead"
  BY DEF SlotsInv, TypeOK, Tuple, DeadTuple
<1>2. /\ heap' = Aborted(b) /\ snap' = [snap EXCEPT ![b] = NoSnap]
      /\ UNCHANGED <<kind, slots, cells, tomb, vac, torn>>
  BY DEF Abort
<1>3. /\ heap' \in [Id -> Tuple]
      /\ \A u \in Id : heap'[u] = IF u \in Pending(b) THEN DeadTuple ELSE heap[u]
  <2>1. Aborted(b) = [u \in Id |-> IF u \in Pending(b) THEN DeadTuple ELSE heap[u]]
    BY Zenon DEF Aborted
  <2>2. \A u \in Id : (IF u \in Pending(b) THEN DeadTuple ELSE heap[u]) \in Tuple
    BY <1>1
  <2>3. heap' = [u \in Id |-> IF u \in Pending(b) THEN DeadTuple ELSE heap[u]]
    BY <1>2, <2>1, Zenon
  <2>. QED  BY <2>2, <2>3
<1>4. /\ TuplesOwned'
      /\ \A t \in Written' : t \in Written /\ heap'[t].vec = heap[t].vec
      /\ \A t \in Id : heap'[t].st = "free" => heap[t].st = "free" \/ SlotsOf(slots, {t}) = {}
      /\ \A t \in vac.dead : heap'[t].st = "dead"
  BY <1>2, <1>3, TuplesEnd
<1>5. Pending(b)' = {}
  <2>1. Pending(b)' = {t \in Id : heap'[t].st = "pending" /\ heap'[t].own = b}
    BY DEF Pending
  <2>. QED  BY <1>1, <1>3, <2>1 DEF Pending
<1>6. \A t \in Id : \/ heap'[t].st = "pending" /\ heap'[t].own # b
                    \/ heap[t].st = "pending" /\ heap[t].own # b
                    => heap'[t] = heap[t]
  BY <1>1, <1>3 DEF Pending
<1>7. /\ CopiesOfOwners' /\ snap' \in [Backend -> Copy] /\ snap'[b] = NoSnap
      /\ \A a \in Backend \ {b} : /\ snap'[a].on = snap[a].on
                                  /\ snap'[a].rows = snap[a].rows
                                  /\ snap'[a].touched = snap[a].touched
                                  /\ snap'[a].current => snap[a].current
  <2>1. Range(NoSnap.touched) = Pending(b)'
    BY <1>5, NoSnapIs
  <2>2. \A t \in Pending(b)' : [id |-> t, vec |-> heap'[t].vec] \in RowsIn(NoSnap.rows)
    BY <1>5
  <2>. QED  BY <1>2, <1>6, <2>1, <2>2, NoSnapIs, OwnCopyStep, Zenon
<1>8. WrittenKept' /\ SlotsOwned' /\ NoTwins' /\ SwapRemoveSound'
  <2>1. (\E a \in Backend : snap'[a].on) => (\E a \in Backend : snap[a].on)
    BY <1>7, NoSnapIs
  <2>. QED  BY <1>2, <1>4, <2>1, HeapStep
<1>9. TypeOK'
  BY <1>2, <1>3, <1>7 DEF SlotsInv, TypeOK, Copy
<1>10. CurrentCopyIsRelfile'
  BY <1>2, <1>7, NoSnapIs DEF SlotsInv, CurrentCopyIsRelfile
<1>. QED  BY <1>4, <1>7, <1>8, <1>9, <1>10 DEF SlotsInv

LEMMA EvictStep ==
  ASSUME SlotsInv, kind' = kind, NEW b \in Backend, Evict(b)
  PROVE  SlotsInv'
<1>1. /\ snap' = [snap EXCEPT ![b] = NoSnap] /\ snap[b].touched = <<>>
      /\ UNCHANGED <<kind, slots, cells, tomb, heap, vac, torn>>
  BY DEF Evict
<1>2. WritesAtOnce' = WritesAtOnce /\ Written' = Written /\ Pending(b)' = Pending(b)
  BY <1>1 DEF WritesAtOnce, Written, Pending
<1>3. ~ WritesAtOnce => Pending(b) = {}
  <2>1. ~ WritesAtOnce => Range(snap[b].touched) = Pending(b)
    BY DEF SlotsInv, CopiesOfOwners
  <2>2. Range(<<>>) = {}
    BY DEF Range
  <2>. QED  BY <1>1, <2>1, <2>2
<1>4. /\ CopiesOfOwners' /\ snap' \in [Backend -> Copy] /\ snap'[b] = NoSnap
      /\ \A a \in Backend \ {b} : /\ snap'[a].on = snap[a].on
                                  /\ snap'[a].rows = snap[a].rows
                                  /\ snap'[a].touched = snap[a].touched
                                  /\ snap'[a].current => snap[a].current
  BY <1>1, <1>2, <1>3, NoSnapIs, OwnCopyStep
<1>5. WrittenKept' /\ SlotsOwned' /\ NoTwins' /\ SwapRemoveSound'
  <2>1. (\E a \in Backend : snap'[a].on) => (\E a \in Backend : snap[a].on)
    BY <1>4, NoSnapIs
  <2>2. vac.dead \subseteq {t \in Id : heap[t].st = "dead"}
    BY DEF SlotsInv, SwapRemoveSound, NoVacuum
  <2>. QED  BY <1>1, <1>2, <2>1, <2>2, HeapStep
<1>6. TypeOK' /\ TuplesOwned'
  BY <1>1, <1>4 DEF SlotsInv, TypeOK, TuplesOwned, Copy
<1>7. CurrentCopyIsRelfile'
  BY <1>1, <1>4, NoSnapIs DEF SlotsInv, CurrentCopyIsRelfile
<1>. QED  BY <1>4, <1>5, <1>6, <1>7 DEF SlotsInv

LEMMA TouchedMore ==
  ASSUME NEW q \in Seq(Id), NEW t \in Id
  PROVE  /\ Append(q, t) \in Seq(Id) /\ Append(q, t) # <<>>
         /\ Range(Append(q, t)) = Range(q) \cup {t}
<1>1. PICK n \in Nat : n = Len(q)
  OBVIOUS
<1>. DEFINE a == Append(q, t)
<1>2. /\ a \in Seq(Id) /\ Len(a) = n + 1 /\ DOMAIN a = 1 .. n + 1 /\ DOMAIN q = 1 .. n
      /\ a[n + 1] = t /\ \A i \in 1 .. n : a[i] = q[i]
  BY <1>1
<1>. HIDE DEF a
<1>3. a # <<>>
  <2>1. n + 1 \in DOMAIN a /\ DOMAIN <<>> = {}
    BY <1>2
  <2>. QED  BY <2>1
<1>4. \A i : i \in 1 .. n + 1 <=> i \in 1 .. n \/ i = n + 1
  OBVIOUS
<1>5. Range(a) = Range(q) \cup {t}
  BY <1>2, <1>4 DEF Range
<1>. QED  BY <1>2, <1>3, <1>5 DEF a

LEMMA InsertStep ==
  ASSUME SlotsInv, kind' = kind, NEW b \in Backend, NEW t \in Id, NEW v \in Vec, Insert(b, t, v)
  PROVE  SlotsInv'
<1>. DEFINE loaded == [on |-> TRUE, rows |-> slots, touched |-> <<>>, current |-> TRUE]
            s == IF snap[b].on THEN snap[b] ELSE loaded
            row == [id |-> t, vec |-> v]
            rows == Upserted(s.rows, row)
            touched == Append(s.touched, t)
            c == [s EXCEPT !.rows = rows, !.touched = touched]
            tuple == [st |-> "pending", vec |-> v, own |-> b]
<1>1. /\ ~ WritesAtOnce /\ heap[t].st = "free"
      /\ snap[b].on \/ (~ vac.on /\ Bijective(slots))
      /\ heap' = [heap EXCEPT ![t] = tuple] /\ snap' = [snap EXCEPT ![b] = c]
      /\ UNCHANGED <<kind, slots, cells, tomb, vac, torn>>
  BY DEF Insert
<1>2. /\ heap \in [Id -> Tuple] /\ snap \in [Backend -> Copy] /\ slots \in Seq(Row)
      /\ TuplesOwned /\ CopiesOfOwners /\ SwapRemoveSound
  BY DEF SlotsInv, TypeOK, Copy
<1>3. tuple \in Tuple /\ tuple.st = "pending" /\ tuple.own = b /\ tuple.vec = v /\ row \in Row
      /\ row.id = t
  BY DEF Tuple, Row
<1>. HIDE DEF tuple, row
<1>4. heap' \in [Id -> Tuple] /\ \A u \in Id : heap'[u] = IF u = t THEN tuple ELSE heap[u]
  BY <1>1, <1>2, <1>3
<1>5. WritesAtOnce' = WritesAtOnce
  BY <1>1 DEF WritesAtOnce
<1>6. Pending(b)' = Pending(b) \cup {t} /\ t \notin Pending(b)
  <2>1. Pending(b)' = {u \in Id : heap'[u].st = "pending" /\ heap'[u].own = b}
    BY DEF Pending
  <2>2. \A u \in Id : heap'[u].st = "pending" /\ heap'[u].own = b
                        <=> u = t \/ (heap[u].st = "pending" /\ heap[u].own = b)
    BY <1>1, <1>3, <1>4
  <2>. QED  BY <1>1, <2>1, <2>2 DEF Pending
<1>7. /\ s \in Copy /\ s.on /\ Bijective(s.rows) /\ Range(s.touched) = Pending(b)
      /\ \A u \in Pending(b) : [id |-> u, vec |-> heap[u].vec] \in RowsIn(s.rows)
  <2>1. CASE snap[b].on
    <3>1. s = snap[b]
      BY <2>1
    <3>2. /\ Range(snap[b].touched) = Pending(b) /\ Bijective(snap[b].rows)
          /\ \A u \in Pending(b) : [id |-> u, vec |-> heap[u].vec] \in RowsIn(snap[b].rows)
      BY <1>1, <1>2 DEF CopiesOfOwners, RowsIn
    <3>. HIDE DEF s
    <3>. QED  BY <1>2, <2>1, <3>1, <3>2
  <2>2. CASE ~ snap[b].on
    <3>1. loaded \in Copy /\ loaded.on /\ loaded.rows = slots /\ loaded.touched = <<>>
      BY <1>2 DEF Copy
    <3>2. Pending(b) = Range(<<>>) /\ Range(<<>>) = {}
      BY <1>1, <1>2, <2>2 DEF CopiesOfOwners, Range
    <3>3. s = loaded
      BY <2>2
    <3>. HIDE DEF s, loaded
    <3>. QED  BY <1>1, <2>2, <3>1, <3>2, <3>3
  <2>. QED  BY <2>1, <2>2
<1>. HIDE DEF s
<1>8. s.rows \in Seq(Row) /\ s.touched \in Seq(Id)
  BY <1>7 DEF Copy
<1>9. /\ rows \in Seq(Row) /\ Bijective(rows) /\ row \in RowsIn(rows)
      /\ \A r \in RowsIn(s.rows) : r.id # row.id => r \in RowsIn(rows)
  BY <1>3, <1>7, <1>8, UpsertedIs
<1>10. touched \in Seq(Id) /\ touched # <<>> /\ Range(touched) = Range(s.touched) \cup {t}
  BY <1>8, TouchedMore
<1>. HIDE DEF rows, touched
<1>11. c \in Copy /\ c.on /\ c.rows = rows /\ c.touched = touched
  BY <1>7, <1>9, <1>10 DEF Copy
<1>. HIDE DEF c
<1>12. \A u \in Pending(b)' : [id |-> u, vec |-> heap'[u].vec] \in RowsIn(rows)
  <2>1. TAKE u \in Pending(b)'
  <2>2. CASE u = t
    BY <1>3, <1>4, <1>9, <2>2 DEF row
  <2>3. CASE u # t
    <3>1. u \in Pending(b) /\ u \in Id /\ heap'[u].vec = heap[u].vec
      BY <1>4, <1>6, <2>3 DEF Pending
    <3>2. /\ [id |-> u, vec |-> heap[u].vec] \in RowsIn(s.rows)
          /\ [id |-> u, vec |-> heap[u].vec].id # row.id
      BY <1>3, <1>7, <2>3, <3>1
    <3>. QED  BY <1>9, <3>1, <3>2
  <2>. QED  BY <2>2, <2>3
<1>13. \A u \in Id : \/ heap'[u].st = "pending" /\ heap'[u].own # b
                     \/ heap[u].st = "pending" /\ heap[u].own # b
                     => heap'[u] = heap[u]
  BY <1>1, <1>3, <1>4
<1>14. /\ CopiesOfOwners' /\ snap' \in [Backend -> Copy] /\ snap'[b] = c
       /\ \A a \in Backend \ {b} : /\ snap'[a].on = snap[a].on
                                   /\ snap'[a].rows = snap[a].rows
                                   /\ snap'[a].touched = snap[a].touched
                                   /\ snap'[a].current => snap[a].current
  <2>1. /\ Bijective(c.rows)
        /\ \A u \in Pending(b)' : [id |-> u, vec |-> heap'[u].vec] \in RowsIn(c.rows)
    BY <1>9, <1>11, <1>12
  <2>2. Range(c.touched) = Pending(b)'
    BY <1>6, <1>7, <1>10, <1>11
  <2>3. c \in Copy /\ Bijective(c.rows)
    BY <1>11, <2>1
  <2>4. snap' = [snap EXCEPT ![b] = c] \/ snap' = Outdated([snap EXCEPT ![b] = c], b)
    BY <1>1, <1>11, Zenon
  <2>5. ~ c.on => c.touched = <<>> /\ ~ c.current
    BY <1>1, <1>11
  <2>6. WritesAtOnce => ~ c.on
    BY <1>1, <1>11
  <2>7. ~ WritesAtOnce => Range(c.touched) = Pending(b)'
    BY <2>2
  <2>8. ~ WritesAtOnce => \A u \in Pending(b)' : [id |-> u, vec |-> heap'[u].vec] \in RowsIn(c.rows)
    BY <2>1
  <2>. QED  BY <1>13, <2>3, <2>4, <2>5, <2>6, <2>7, <2>8, OwnCopyStep, ZenonT(60)
<1>15. TuplesOwned'
  BY <1>2, <1>3, <1>4 DEF TuplesOwned
<1>16. WrittenKept' /\ SlotsOwned' /\ NoTwins' /\ SwapRemoveSound'
  <2>1. \A u \in Written' : u \in Written /\ heap'[u].vec = heap[u].vec
    BY <1>1, <1>3, <1>4, <1>5 DEF Written
  <2>2. \A u \in Id : heap'[u].st = "free" => heap[u].st = "free"
    BY <1>3, <1>4
  <2>3. \A u \in vac.dead : heap'[u].st = "dead"
    <3>1. vac.dead \subseteq {u \in Id : heap[u].st = "dead"}
      BY <1>2 DEF SwapRemoveSound, NoVacuum
    <3>. QED  BY <1>1, <1>4, <3>1
  <2>4. (\E a \in Backend : snap[a].on) \/ Single(slots, Used)
    BY <1>1 DEF Used, Single, Bijective
  <2>. QED  BY <1>1, <2>1, <2>2, <2>3, <2>4, HeapStep
<1>17. TypeOK'
  BY <1>1, <1>4, <1>14 DEF SlotsInv, TypeOK, Copy
<1>18. CurrentCopyIsRelfile'
  BY <1>1, <1>10, <1>11, <1>14 DEF SlotsInv, CurrentCopyIsRelfile
<1>. QED  BY <1>14, <1>15, <1>16, <1>17, <1>18 DEF SlotsInv

-----------------------------------------------------------------------------
(* The flush.                                                              *)

\* What a flush is given: a relfile in which each id is in one slot, and a copy
\* that has the unflushed rows, each once.
LEMMA FlushIsGiven ==
  ASSUME SlotsInv, NEW b \in Backend, Flush(b)
  PROVE  /\ ~ WritesAtOnce /\ ~ vac.on /\ snap[b].on
         /\ slots \in Seq(Row) /\ Bijective(slots)
         /\ snap[b].rows \in Seq(Row) /\ Bijective(snap[b].rows)
         /\ snap[b].touched \in Seq(Id) /\ Range(snap[b].touched) = Pending(b)
         /\ \A t \in Pending(b) : [id |-> t, vec |-> heap[t].vec] \in RowsIn(snap[b].rows)
<1>1. ~ vac.on /\ snap[b].touched # <<>> /\ (Ivf \/ Bijective(slots))
  BY DEF Flush
<1>2. TypeOK /\ NoTwins /\ CopiesOfOwners /\ SwapRemoveSound
  BY DEF SlotsInv
<1>3. snap[b].on /\ ~ WritesAtOnce
  BY <1>1, <1>2 DEF CopiesOfOwners
<1>4. slots \in Seq(Row) /\ snap[b].rows \in Seq(Row) /\ snap[b].touched \in Seq(Id)
  <2>1. snap[b] \in Copy /\ slots \in Seq(Row)
    BY <1>2 DEF TypeOK, Copy
  <2>. QED  BY <2>1 DEF Copy
<1>5. Bijective(slots)
  <2>1. CASE Ivf
    <3>1. ~ torn
      BY <1>2, <2>1 DEF SwapRemoveSound, Ivf
    <3>. QED  BY <1>1, <1>2, <1>3, <3>1 DEF NoTwins, Used, Bijective
  <2>. QED  BY <1>1, <2>1
<1>6. /\ Bijective(snap[b].rows) /\ Range(snap[b].touched) = Pending(b)
      /\ \A t \in Pending(b) : [id |-> t, vec |-> heap[t].vec] \in RowsIn(snap[b].rows)
  BY <1>2, <1>3 DEF CopiesOfOwners, RowsIn
<1>. QED  BY <1>1, <1>3, <1>4, <1>5, <1>6

\* The relfile after the flush.
LEMMA FlushIsReconciled ==
  ASSUME SlotsInv, NEW b \in Backend, Flush(b)
  PROVE  /\ Reconciled(slots', slots, snap[b].rows, Pending(b))
         /\ \A i \in DOMAIN slots' :
              slots'[i] \in RowsIn(snap[b].rows) /\ slots'[i].id \in Pending(b) =>
                slots'[i].vec = heap[slots'[i].id].vec
<1>. DEFINE s == snap[b].rows
            q == snap[b].touched
            T == Pending(b)
<1>1. /\ slots \in Seq(Row) /\ Bijective(slots) /\ s \in Seq(Row) /\ Bijective(s)
      /\ q \in Seq(Id) /\ Range(q) = T
      /\ \A t \in T : [id |-> t, vec |-> heap[t].vec] \in RowsIn(s)
  BY FlushIsGiven
<1>2. slots' = ReconcileFlushImage(slots, s, q)
  BY DEF Flush
<1>. HIDE DEF s, q, T
<1>3. \A t \in Range(q) : SlotsOf(s, {t}) # {}
  BY <1>1 DEF SlotsOf, RowsIn
<1>4. Reconciled(slots', slots, s, T)
  <2>1. CASE slots = <<>>
    BY <1>1, <1>2, <1>3, <2>1, FirstFlushIsReconciled
  <2>2. CASE slots # <<>>
    BY <1>1, <1>2, <1>3, <2>2, SplicesAreReconciled
  <2>. QED  BY <2>1, <2>2
<1>5. ASSUME NEW r \in RowsIn(s), r.id \in T PROVE r.vec = heap[r.id].vec
  <2>1. PICK i \in DOMAIN s : s[i] = r
    BY DEF RowsIn
  <2>2. PICK j \in DOMAIN s : s[j] = [id |-> r.id, vec |-> heap[r.id].vec]
    BY <1>1, <1>5 DEF RowsIn
  <2>3. i = j
    BY <1>1, <2>1, <2>2 DEF Bijective
  <2>. QED  BY <2>1, <2>2, <2>3
<1>. QED  BY <1>4, <1>5 DEF s, T

\* The rows of the flush, and the bits over the slots that are left.
LEMMA FlushKeepsRows ==
  ASSUME SlotsInv, kind' = kind, NEW b \in Backend, Flush(b)
  PROVE  /\ TuplesOwned' /\ WrittenKept' /\ SlotsOwned' /\ NoTwins' /\ SwapRemoveSound'
         /\ heap' \in [Id -> Tuple] /\ slots' \in Seq(Row)
         /\ cells' \in Seq(Vec) /\ Len(cells') <= Len(slots') /\ tomb' \subseteq DOMAIN slots'
<1>. DEFINE T == Pending(b)
            s == snap[b].rows
            d == slots'
            live == Committed(T)
<1>1. /\ ~ WritesAtOnce /\ ~ vac.on /\ slots \in Seq(Row)
      /\ Range(snap[b].touched) = T
  BY FlushIsGiven
<1>2. /\ Reconciled(d, slots, s, T)
      /\ \A i \in DOMAIN d : d[i] \in RowsIn(s) /\ d[i].id \in T => d[i].vec = heap[d[i].id].vec
  BY FlushIsReconciled
<1>3. /\ tomb' = tomb \ SlotsOf(slots, T) /\ heap' = live /\ cells' = CarriedCells(d)
      /\ UNCHANGED <<kind, vac, torn>>
  BY <1>1 DEF Flush, FlushedTomb
<1>4. TypeOK /\ TuplesOwned /\ WrittenKept /\ SlotsOwned /\ SwapRemoveSound
  BY DEF SlotsInv
<1>5. /\ live \in [Id -> Tuple]
      /\ \A t \in Id : t \notin T => live[t] = heap[t]
      /\ \A t \in T : /\ t \in Id /\ live[t].st = "live" /\ live[t].vec = heap[t].vec
                      /\ heap[t].st = "pending" /\ heap[t].vec \in Vec
  BY <1>4, CommittedIs DEF Pending
<1>6. PICK m \in Nat, n \in Nat :
        m = Len(slots) /\ n = Len(d) /\ DOMAIN slots = 1 .. m /\ DOMAIN d = 1 .. n
  BY <1>1, <1>2 DEF Reconciled
<1>7. /\ d \in Seq(Row) /\ m <= n /\ Bijective(d)
      /\ \A i \in 1 .. m : d[i].id = slots[i].id
      /\ \A i \in 1 .. n : \/ d[i] \in RowsIn(s) /\ d[i].id \in T
                           \/ i <= m /\ d[i] = slots[i] /\ slots[i].id \notin T
      /\ \A t \in T : \E i \in 1 .. n : d[i].id = t /\ d[i] \in RowsIn(s)
      /\ \A i \in 1 .. n : d[i] \in RowsIn(s) /\ d[i].id \in T => d[i].vec = heap[d[i].id].vec
  BY <1>2, <1>6 DEF Reconciled
<1>8. /\ cells \in Seq(Vec) /\ Len(cells) <= m /\ tomb \subseteq 1 .. m
      /\ \A i \in 1 .. n : d[i].id \in Id
  BY <1>4, <1>6, <1>7, RowsElements DEF TypeOK
<1>9. Used' = 1 .. n /\ Used = 1 .. m
  BY <1>1, <1>3, <1>6 DEF Used
<1>. HIDE DEF T, s, d, live
<1>10. \A i \in 1 .. m : i \in 1 .. n
  BY <1>7
<1>11. \A i \in SlotsOf(slots, T) : i \in 1 .. m /\ slots[i].id \in T
  BY <1>6 DEF SlotsOf
<1>12. \A i \in 1 .. m : slots[i].id \in T => i \notin tomb'
  BY <1>3, <1>6 DEF SlotsOf
<1>13. /\ Unmasked' = (1 .. n) \ tomb'
       /\ \A i \in 1 .. n : d[i].id \in T => i \in Unmasked'
       /\ \A i \in 1 .. m : slots[i].id \notin T => (i \in Unmasked' <=> i \in Unmasked)
  <2>1. Unmasked' = Used' \ tomb' /\ Unmasked = Used \ tomb
    BY DEF Unmasked
  <2>2. \A i \in 1 .. n : d[i].id \in T => i \notin tomb'
    BY <1>3, <1>7, <1>8, <1>12
  <2>3. \A i \in 1 .. m : slots[i].id \notin T => (i \in tomb' <=> i \in tomb)
    BY <1>3, <1>11
  <2>. QED  BY <1>9, <1>10, <2>1, <2>2, <2>3
<1>14. WritesAtOnce' = WritesAtOnce
  BY <1>3 DEF WritesAtOnce
<1>15. Written' = Written \cup T /\ Written \cap T = {}
  <2>1. /\ Written' = {t \in Id : heap'[t].st = "live"}
        /\ Written = {t \in Id : heap[t].st = "live"}
    BY <1>1, <1>14 DEF Written
  <2>. QED  BY <1>3, <1>5, <2>1
<1>16. TuplesOwned'
  BY <1>3, <1>4, <1>5 DEF TuplesOwned
<1>17. WrittenKept'
  <2>1. SUFFICES ASSUME NEW t \in Written'
                 PROVE  \E i \in Unmasked' : d[i].id = t /\ d[i].vec = heap'[t].vec
    BY DEF WrittenKept, d
  <2>2. CASE t \in T
    <3>1. PICK i \in 1 .. n : d[i].id = t /\ d[i] \in RowsIn(s)
      BY <1>7, <2>2
    <3>. QED  BY <1>3, <1>5, <1>7, <1>13, <2>2, <3>1
  <2>3. CASE t \notin T
    <3>1. t \in Written /\ t \in Id
      BY <1>15, <2>3 DEF Written
    <3>2. PICK i \in Unmasked : slots[i].id = t /\ slots[i].vec = heap[t].vec
      BY <1>4, <3>1 DEF WrittenKept
    <3>3. i \in 1 .. m
      BY <1>9 DEF Unmasked
    <3>4. d[i] = slots[i] /\ i \in Unmasked'
      BY <1>7, <1>10, <1>13, <2>3, <3>2, <3>3
    <3>. QED  BY <1>3, <1>5, <2>3, <3>1, <3>2, <3>4
  <2>. QED  BY <2>2, <2>3
<1>18. SlotsOwned'
  <2>1. SUFFICES ASSUME ~ torn, NEW i \in Unmasked'
                 PROVE  /\ heap'[d[i].id].st # "free"
                        /\ d[i].id \in Written' => d[i].vec = heap'[d[i].id].vec
    BY <1>3 DEF SlotsOwned, d
  <2>2. i \in 1 .. n
    BY <1>13
  <2>3. CASE d[i] \in RowsIn(s) /\ d[i].id \in T
    BY <1>3, <1>5, <1>7, <2>2, <2>3
  <2>4. CASE i <= m /\ d[i] = slots[i] /\ slots[i].id \notin T
    <3>1. i \in 1 .. m /\ i \in Unmasked
      BY <1>13, <2>2, <2>4
    <3>2. /\ heap[slots[i].id].st # "free"
          /\ slots[i].id \in Written => slots[i].vec = heap[slots[i].id].vec
      BY <1>4, <2>1, <3>1 DEF SlotsOwned
    <3>3. heap'[d[i].id] = heap[slots[i].id] /\ (d[i].id \in Written' => slots[i].id \in Written)
      BY <1>3, <1>5, <1>8, <1>15, <2>2, <2>4
    <3>. QED  BY <2>4, <3>2, <3>3
  <2>. QED  BY <1>7, <2>2, <2>3, <2>4
<1>19. NoTwins'
  BY <1>6, <1>7, <1>9 DEF NoTwins, Bijective, d
<1>20. cells' = cells \/ cells' = <<>>
  BY <1>3 DEF CarriedCells
<1>21. SwapRemoveSound'
  BY <1>1, <1>3, <1>4, <1>20 DEF SwapRemoveSound
<1>22. cells' \in Seq(Vec) /\ Len(cells') <= n
  <2>1. CASE cells' = cells
    <3>1. Len(cells) \in Nat
      BY <1>8
    <3>. QED  BY <1>7, <1>8, <2>1, <3>1
  <2>2. CASE cells' = <<>>
    BY <2>2
  <2>. QED  BY <1>20, <2>1, <2>2
<1>23. tomb' \subseteq 1 .. n
  BY <1>3, <1>8, <1>10
<1>. QED  BY <1>3, <1>5, <1>6, <1>7, <1>16, <1>17, <1>18, <1>19, <1>21, <1>22, <1>23 DEF d

LEMMA FlushStep ==
  ASSUME SlotsInv, kind' = kind, NEW b \in Backend, Flush(b)
  PROVE  SlotsInv'
<1>. DEFINE kept == [snap[b] EXCEPT !.touched = <<>>, !.current = (tomb = {})]
            c == IF SnapshotIsCurrent(snap[b].rows, slots') THEN kept ELSE NoSnap
<1>1. /\ TuplesOwned' /\ WrittenKept' /\ SlotsOwned' /\ NoTwins' /\ SwapRemoveSound'
      /\ heap' \in [Id -> Tuple] /\ slots' \in Seq(Row)
      /\ cells' \in Seq(Vec) /\ Len(cells') <= Len(slots') /\ tomb' \subseteq DOMAIN slots'
  BY FlushKeepsRows
<1>2. /\ snap' = Outdated([snap EXCEPT ![b] = c], b) /\ heap' = Committed(Pending(b))
      /\ UNCHANGED <<kind, vac, torn>>
  BY DEF Flush
<1>3. ~ WritesAtOnce /\ ~ vac.on /\ snap[b].on /\ Bijective(snap[b].rows)
  BY FlushIsGiven
<1>4. TypeOK /\ TuplesOwned /\ SwapRemoveSound /\ snap[b] \in Copy
  BY DEF SlotsInv, TypeOK, Copy
<1>5. /\ kept \in Copy /\ kept.on /\ kept.rows = snap[b].rows /\ kept.touched = <<>>
      /\ Range(<<>>) = {}
  <2>1. (tomb = {}) \in BOOLEAN /\ <<>> \in Seq(Id) /\ Range(<<>>) = {}
    BY DEF Range
  <2>2. ASSUME NEW x \in Copy, NEW y \in BOOLEAN
        PROVE  LET z == [x EXCEPT !.touched = <<>>, !.current = y]
               IN  z \in Copy /\ z.on = x.on /\ z.rows = x.rows /\ z.touched = <<>>
    BY <2>1 DEF Copy
  <2>. QED  BY <1>3, <1>4, <2>1, <2>2
<1>. HIDE DEF kept
<1>6. /\ c \in Copy /\ (~ c.on => c.touched = <<>> /\ ~ c.current) /\ Bijective(c.rows)
      /\ Range(c.touched) = {} /\ (c.current => c.rows = slots')
  <2>1. CASE SnapshotIsCurrent(snap[b].rows, slots')
    <3>1. c = kept
      BY <2>1
    <3>. QED  BY <1>3, <1>5, <2>1, <3>1 DEF SnapshotIsCurrent
  <2>2. CASE ~ SnapshotIsCurrent(snap[b].rows, slots')
    <3>1. c = NoSnap
      BY <2>2
    <3>. QED  BY <3>1, NoSnapIs
  <2>. QED  BY <2>1, <2>2
<1>. HIDE DEF c
<1>7. /\ \A t \in Id : t \notin Pending(b) => heap'[t] = heap[t]
      /\ \A t \in Pending(b) : heap'[t].st = "live"
  BY <1>2, <1>4, CommittedIs
<1>8. Pending(b)' = {}
  <2>1. Pending(b)' = {t \in Id : heap'[t].st = "pending" /\ heap'[t].own = b}
    BY DEF Pending
  <2>. QED  BY <1>7, <2>1 DEF Pending
<1>9. \A t \in Id : \/ heap'[t].st = "pending" /\ heap'[t].own # b
                    \/ heap[t].st = "pending" /\ heap[t].own # b
                    => heap'[t] = heap[t]
  BY <1>7 DEF Pending
<1>10. /\ CopiesOfOwners' /\ snap' \in [Backend -> Copy] /\ snap'[b] = c
       /\ \A a \in Backend \ {b} : ~ snap'[a].current
  <2>1. \A t \in Pending(b)' : [id |-> t, vec |-> heap'[t].vec] \in RowsIn(c.rows)
    BY <1>8
  <2>2. Range(c.touched) = Pending(b)'
    BY <1>6, <1>8
  <2>3. \A t \in Id : \/ heap'[t].st = "pending" /\ heap'[t].own # b
                      \/ heap[t].st = "pending" /\ heap[t].own # b
                      => heap'[t] = heap[t]
    BY <1>9
  <2>4. snap' = Outdated([snap EXCEPT ![b] = c], b) /\ kind' = kind /\ c \in Copy /\ ~ WritesAtOnce
    BY <1>2, <1>3, <1>6
  <2>5. (~ c.on => c.touched = <<>> /\ ~ c.current) /\ Bijective(c.rows)
    BY <1>6
  <2>. QED  BY ONLY <2>1, <2>2, <2>3, <2>4, <2>5, OwnCopyStep, SlotsInv
<1>11. CurrentCopyIsRelfile'
  BY <1>6, <1>10 DEF CurrentCopyIsRelfile
<1>12. TypeOK'
  <2>1. vac = NoVacuum
    BY <1>3, <1>4 DEF SwapRemoveSound
  <2>2. vac' \in [on : BOOLEAN, todo : Seq(DOMAIN slots'),
                  alive : 0 .. Len(slots'), dead : SUBSET Id]
    <3>1. 0 \in 0 .. Len(slots')
      BY <1>1
    <3>. QED  BY <1>2, <2>1, <3>1 DEF NoVacuum
  <2>. QED  BY <1>1, <1>2, <1>4, <1>10, <2>2 DEF TypeOK, Copy
<1>. QED  BY <1>1, <1>10, <1>11, <1>12 DEF SlotsInv

-----------------------------------------------------------------------------
(* Inserts that rewrite the relfile.                                       *)

\* insert_bq_row: every slot of the TID gets the new vector.
LEMMA OverwrittenIs ==
  ASSUME slots \in Seq(Row), NEW t \in Id, NEW v \in Vec
  PROVE  LET d == Overwritten(t, v)
         IN  /\ d \in Seq(Row) /\ Len(slots) <= Len(d)
             /\ \A i \in DOMAIN slots : d[i].id = slots[i].id
             /\ \A i \in DOMAIN d : \/ d[i].id = t /\ d[i].vec = v
                                    \/ i \in DOMAIN slots /\ d[i] = slots[i] /\ d[i].id # t
             /\ \E i \in DOMAIN d : d[i].id = t
             /\ Bijective(slots) /\ SlotsOf(slots, {t}) = {} => Bijective(d)
<1>. DEFINE d == Overwritten(t, v)
            row == [id |-> t, vec |-> v]
            at == SlotsOf(slots, {t})
<1>1. row \in Row /\ row.id = t /\ row.vec = v
  BY DEF Row
<1>2. PICK n \in Nat : n = Len(slots) /\ DOMAIN slots = 1 .. n
  OBVIOUS
<1>3. d = IF at = {} THEN Append(slots, row)
          ELSE [i \in DOMAIN slots |-> IF slots[i].id = t THEN row ELSE slots[i]]
  BY DEF Overwritten
<1>. HIDE DEF d, row
<1>4. CASE at = {}
  <2>1. d = Append(slots, row) /\ \A i \in 1 .. n : slots[i].id # t
    BY <1>2, <1>3, <1>4 DEF SlotsOf
  <2>2. /\ d \in Seq(Row) /\ Len(d) = n + 1 /\ DOMAIN d = 1 .. n + 1 /\ d[n + 1] = row
        /\ \A i \in 1 .. n : d[i] = slots[i]
    BY <1>1, <1>2, <2>1
  <2>3. (\A i \in 1 .. n + 1 : i \in 1 .. n \/ i = n + 1) /\ n + 1 \in 1 .. n + 1 /\ n <= n + 1
    OBVIOUS
  <2>4. Bijective(slots) => Bijective(d)
    BY <1>1, <1>2, <2>1, <2>2, <2>3 DEF Bijective
  <2>5. \A i \in 1 .. n + 1 : \/ d[i].id = t /\ d[i].vec = v
                              \/ i \in 1 .. n /\ d[i] = slots[i] /\ d[i].id # t
    BY <1>1, <2>1, <2>2, <2>3
  <2>. QED  BY <1>1, <1>2, <2>2, <2>3, <2>4, <2>5 DEF d
<1>5. CASE at # {}
  <2>1. PICK x \in 1 .. n : slots[x].id = t
    BY <1>2, <1>5 DEF SlotsOf
  <2>2. d = [i \in 1 .. n |-> IF slots[i].id = t THEN row ELSE slots[i]]
    BY <1>2, <1>3, <1>5
  <2>3. \A i \in 1 .. n : d[i] = (IF slots[i].id = t THEN row ELSE slots[i]) /\ d[i] \in Row
    BY <1>1, <1>2, <2>2
  <2>4. d \in Seq(Row) /\ Len(d) = n /\ DOMAIN d = 1 .. n
    BY <2>2, <2>3
  <2>5. \A i \in 1 .. n : /\ d[i].id = slots[i].id
                          /\ \/ d[i].id = t /\ d[i].vec = v
                             \/ d[i] = slots[i] /\ d[i].id # t
    BY <1>1, <2>3
  <2>6. \E i \in 1 .. n : d[i].id = t
    BY <2>1, <2>5
  <2>7. \A i \in DOMAIN d : \/ d[i].id = t /\ d[i].vec = v
                            \/ i \in DOMAIN slots /\ d[i] = slots[i] /\ d[i].id # t
    <3>1. TAKE i \in DOMAIN d
    <3>2. i \in 1 .. n /\ i \in DOMAIN slots
      BY <1>2, <2>4
    <3>. QED  BY <2>5, <3>2
  <2>8. Len(slots) <= Len(d) /\ (\E i \in DOMAIN d : d[i].id = t)
    BY <1>2, <2>4, <2>6
  <2>9. \A i \in DOMAIN slots : d[i].id = slots[i].id
    BY <1>2, <2>5
  <2>. QED  BY <1>5, <2>4, <2>7, <2>8, <2>9 DEF d
<1>. QED  BY <1>4, <1>5

LEMMA InsertAtOnceStep ==
  ASSUME SlotsInv, kind' = kind, NEW b \in Backend, NEW t \in Id, NEW v \in Vec,
         InsertAtOnce(b, t, v)
  PROVE  SlotsInv'
<1>. DEFINE d == slots'
            tuple == [st |-> "pending", vec |-> v, own |-> b]
<1>1. /\ WritesAtOnce /\ heap[t].st = "free" /\ (kind = "graph" => SlotsOf(slots, {t}) = {})
      /\ heap' = [heap EXCEPT ![t] = tuple] /\ d = Overwritten(t, v)
      /\ tomb' = tomb \ SlotsOf(slots, {t}) /\ cells' = <<>>
      /\ UNCHANGED <<kind, snap, vac, torn>>
  BY DEF InsertAtOnce
<1>2. /\ TypeOK /\ TuplesOwned /\ WrittenKept /\ SlotsOwned /\ NoTwins /\ SwapRemoveSound
      /\ CopiesOfOwners
  BY DEF SlotsInv
<1>3. /\ ~ vac.on /\ ~ torn /\ vac = NoVacuum /\ kind # "flat" /\ WritesAtOnce'
      /\ kind \in {"bq", "graph"}
  BY <1>1, <1>2 DEF SwapRemoveSound, WritesAtOnce
<1>4. tuple \in Tuple /\ tuple.st = "pending" /\ tuple.own = b /\ tuple.vec = v
  BY DEF Tuple
<1>. HIDE DEF tuple
<1>5. heap' \in [Id -> Tuple] /\ \A u \in Id : heap'[u] = IF u = t THEN tuple ELSE heap[u]
  BY <1>1, <1>2, <1>4 DEF TypeOK
<1>6. PICK m \in Nat, n \in Nat :
        m = Len(slots) /\ n = Len(d) /\ DOMAIN slots = 1 .. m /\ DOMAIN d = 1 .. n
  <2>1. slots \in Seq(Row)
    BY <1>2 DEF TypeOK
  <2>2. d \in Seq(Row)
    BY <1>1, <2>1, OverwrittenIs
  <2>. QED  BY <2>1, <2>2
<1>7. /\ slots \in Seq(Row) /\ d \in Seq(Row) /\ m <= n
      /\ \A i \in 1 .. m : d[i].id = slots[i].id
      /\ \A i \in 1 .. n : \/ d[i].id = t /\ d[i].vec = v
                           \/ i \in 1 .. m /\ d[i] = slots[i] /\ d[i].id # t
      /\ \E i \in 1 .. n : d[i].id = t
      /\ Bijective(slots) /\ SlotsOf(slots, {t}) = {} => Bijective(d)
  <2>1. slots \in Seq(Row)
    BY <1>2 DEF TypeOK
  <2>. DEFINE o == Overwritten(t, v)
  <2>2. /\ o \in Seq(Row) /\ Len(slots) <= Len(o)
        /\ \A i \in DOMAIN slots : o[i].id = slots[i].id
        /\ \A i \in DOMAIN o : \/ o[i].id = t /\ o[i].vec = v
                               \/ i \in DOMAIN slots /\ o[i] = slots[i] /\ o[i].id # t
        /\ \E i \in DOMAIN o : o[i].id = t
        /\ Bijective(slots) /\ SlotsOf(slots, {t}) = {} => Bijective(o)
    BY <2>1, OverwrittenIs
  <2>3. d = o
    BY <1>1
  <2>. HIDE DEF o
  <2>. QED  BY <1>6, <2>1, <2>2, <2>3
<1>8. tomb \subseteq 1 .. m /\ \A i \in 1 .. n : d[i].id \in Id
  BY <1>2, <1>6, <1>7, RowsElements DEF TypeOK
<1>9. Used' = 1 .. n /\ Used = 1 .. m
  BY <1>1, <1>3, <1>6 DEF Used
<1>. HIDE DEF d
<1>10. \A i \in 1 .. m : i \in 1 .. n
  BY <1>7
<1>11. /\ \A i \in 1 .. m : slots[i].id = t => i \notin tomb'
       /\ \A i \in 1 .. m : slots[i].id # t => (i \in tomb' <=> i \in tomb)
  BY <1>1, <1>6 DEF SlotsOf
<1>12. /\ \A i \in Unmasked' : i \in 1 .. n
       /\ \A i \in 1 .. n : d[i].id = t => i \in Unmasked'
       /\ \A i \in 1 .. m : slots[i].id # t => (i \in Unmasked' <=> i \in Unmasked)
  <2>1. Unmasked' = Used' \ tomb' /\ Unmasked = Used \ tomb
    BY DEF Unmasked
  <2>2. \A i \in 1 .. n : d[i].id = t => i \notin tomb'
    BY <1>1, <1>7, <1>8, <1>11
  <2>. QED  BY <1>9, <1>10, <1>11, <2>1, <2>2
<1>13. /\ Written' = {u \in Id : heap'[u].st \in {"live", "pending"}}
       /\ Written = {u \in Id : heap[u].st \in {"live", "pending"}}
  BY <1>1, <1>3 DEF Written
<1>14. Written' = Written \cup {t} /\ t \notin Written
  BY <1>1, <1>4, <1>5, <1>13
<1>15. TuplesOwned'
  BY <1>2, <1>4, <1>5 DEF TuplesOwned
<1>16. WrittenKept'
  <2>1. SUFFICES ASSUME NEW u \in Written'
                 PROVE  \E i \in Unmasked' : d[i].id = u /\ d[i].vec = heap'[u].vec
    BY DEF WrittenKept, d
  <2>2. CASE u = t
    <3>1. PICK i \in 1 .. n : d[i].id = t
      BY <1>7
    <3>2. d[i].vec = v
      BY <1>7, <3>1
    <3>. QED  BY <1>4, <1>5, <1>12, <2>2, <3>1, <3>2
  <2>3. CASE u # t
    <3>1. u \in Written /\ u \in Id
      BY <1>14, <2>3 DEF Written
    <3>2. PICK i \in Unmasked : slots[i].id = u /\ slots[i].vec = heap[u].vec
      BY <1>2, <3>1 DEF WrittenKept
    <3>3. i \in 1 .. m
      BY <1>9 DEF Unmasked
    <3>4. d[i] = slots[i] /\ i \in Unmasked'
      BY <1>7, <1>10, <1>12, <2>3, <3>2, <3>3
    <3>. QED  BY <1>5, <2>3, <3>1, <3>2, <3>4
  <2>. QED  BY <2>2, <2>3
<1>17. SlotsOwned'
  <2>1. SUFFICES ASSUME NEW i \in Unmasked'
                 PROVE  /\ heap'[d[i].id].st # "free"
                        /\ d[i].id \in Written' => d[i].vec = heap'[d[i].id].vec
    BY DEF SlotsOwned, d
  <2>2. i \in 1 .. n
    BY <1>12
  <2>3. CASE d[i].id = t
    <3>1. d[i].vec = v
      BY <1>7, <2>2, <2>3
    <3>. QED  BY <1>4, <1>5, <2>3, <3>1
  <2>4. CASE d[i].id # t
    <3>1. i \in 1 .. m /\ d[i] = slots[i]
      BY <1>7, <2>2, <2>4
    <3>2. i \in Unmasked
      BY <1>12, <2>4, <3>1
    <3>3. /\ heap[slots[i].id].st # "free"
          /\ slots[i].id \in Written => slots[i].vec = heap[slots[i].id].vec
      BY <1>2, <1>3, <3>2 DEF SlotsOwned
    <3>. QED  BY <1>5, <1>8, <1>14, <2>2, <2>4, <3>1, <3>3
  <2>. QED  BY <2>3, <2>4
<1>18. NoTwins'
  <2>1. \A a \in Backend : ~ snap[a].on
    BY <1>1, <1>2 DEF CopiesOfOwners
  <2>2. CASE kind = "graph"
    <3>1. Bijective(slots)
      BY <1>2, <1>3, <1>6, <1>9, <2>2 DEF NoTwins, SwapRemoveSound, Bijective
    <3>. QED  BY <1>1, <1>6, <1>7, <1>9, <2>2, <3>1 DEF NoTwins, Bijective, d
  <2>3. CASE kind = "bq"
    BY <1>1, <2>1, <2>3 DEF NoTwins
  <2>. QED  BY <1>3, <2>2, <2>3
<1>19. SwapRemoveSound'
  BY <1>1, <1>2, <1>3 DEF SwapRemoveSound
<1>20. CopiesOfOwners'
  BY <1>1, CopiesStep
<1>21. CurrentCopyIsRelfile'
  BY <1>1, <1>2 DEF CurrentCopyIsRelfile, CopiesOfOwners
<1>22. TypeOK'
  <2>1. tomb' \subseteq DOMAIN slots'
    BY <1>1, <1>6, <1>8, <1>10 DEF d
  <2>2. cells' \in Seq(Vec) /\ Len(cells') <= Len(slots')
    BY <1>1, <1>6 DEF d
  <2>3. vac' \in [on : BOOLEAN, todo : Seq(DOMAIN slots'),
                  alive : 0 .. Len(slots'), dead : SUBSET Id]
    <3>1. 0 \in 0 .. Len(slots')
      BY <1>6 DEF d
    <3>. QED  BY <1>1, <1>3, <3>1 DEF NoVacuum
  <2>. QED  BY <1>1, <1>2, <1>5, <1>7, <2>1, <2>2, <2>3 DEF TypeOK, d
<1>. QED  BY <1>15, <1>16, <1>17, <1>18, <1>19, <1>20, <1>21, <1>22 DEF SlotsInv

-----------------------------------------------------------------------------
(* VACUUM.                                                                 *)

\* The tuples of dead rows are freed.
LEMMA FreedIs ==
  ASSUME TypeOK, NEW K \in SUBSET Dead
  PROVE  /\ Freed(K) \in [Id -> Tuple]
         /\ \A t \in Id : Freed(K)[t] = IF t \in K THEN FreeTuple ELSE heap[t]
         /\ FreeTuple.st = "free" /\ \A t \in K : t \in Id /\ heap[t].st = "dead"
BY DEF TypeOK, Freed, FreeTuple, Tuple, Dead

LEMMA VacuumTombstoneStep ==
  ASSUME SlotsInv, kind' = kind, NEW K \in SUBSET Dead, VacuumTombstone(K)
  PROVE  SlotsInv'
<1>1. /\ kind # "flat" /\ tomb' = tomb \cup SlotsOf(slots, K) /\ heap' = Freed(K)
      /\ snap' = Outdated(snap, Nobody)
      /\ UNCHANGED <<kind, slots, cells, vac, torn>>
  BY DEF VacuumTombstone
<1>2. /\ TypeOK /\ TuplesOwned /\ WrittenKept /\ SlotsOwned /\ NoTwins /\ SwapRemoveSound
      /\ slots \in Seq(Row)
  BY DEF SlotsInv, TypeOK
<1>3. /\ heap' \in [Id -> Tuple] /\ \A t \in K : t \in Id /\ heap[t].st = "dead"
      /\ \A t \in Id : heap'[t] = IF t \in K THEN FreeTuple ELSE heap[t]
      /\ FreeTuple.st = "free"
  BY <1>1, <1>2, FreedIs
<1>4. ~ vac.on /\ vac = NoVacuum
  BY <1>1, <1>2 DEF SwapRemoveSound
<1>5. Used' = Used /\ Used = DOMAIN slots /\ Unmasked' = Unmasked \ SlotsOf(slots, K)
  BY <1>1, <1>4 DEF Used, Unmasked
<1>6. WritesAtOnce' = WritesAtOnce
  BY <1>1 DEF WritesAtOnce
<1>7. Written' = Written /\ \A t \in Written : t \notin K /\ t \in Id /\ heap'[t] = heap[t]
  BY <1>3, <1>6 DEF Written
<1>8. WrittenKept'
  <2>1. SUFFICES ASSUME NEW t \in Written
                 PROVE  \E i \in Unmasked' : slots[i].id = t /\ slots[i].vec = heap[t].vec
    BY <1>1, <1>7 DEF WrittenKept
  <2>2. PICK i \in Unmasked : slots[i].id = t /\ slots[i].vec = heap[t].vec
    BY <1>2 DEF WrittenKept
  <2>3. i \notin SlotsOf(slots, K)
    BY <1>7, <2>2 DEF SlotsOf
  <2>. QED  BY <1>5, <2>2, <2>3
<1>9. SlotsOwned'
  <2>1. SUFFICES ASSUME ~ torn, NEW i \in Unmasked'
                 PROVE  /\ heap'[slots[i].id].st # "free"
                        /\ slots[i].id \in Written => slots[i].vec = heap'[slots[i].id].vec
    BY <1>1, <1>7 DEF SlotsOwned
  <2>2. i \in Unmasked /\ i \in DOMAIN slots /\ slots[i].id \in Id
    BY <1>2, <1>5, RowsElements DEF Unmasked
  <2>3. slots[i].id \notin K
    BY <1>5, <2>2 DEF SlotsOf
  <2>4. /\ heap[slots[i].id].st # "free"
        /\ slots[i].id \in Written => slots[i].vec = heap[slots[i].id].vec
    BY <1>2, <2>1, <2>2 DEF SlotsOwned
  <2>. QED  BY <1>3, <2>2, <2>3, <2>4
<1>10. /\ CopiesOfOwners' /\ \A b \in Backend : snap'[b].on = snap[b].on /\ ~ snap'[b].current
       /\ snap' \in [Backend -> Copy]
  <2>1. \A t \in Id : heap'[t].st = "pending" \/ heap[t].st = "pending" => heap'[t] = heap[t]
    BY <1>3
  <2>. QED  BY <1>1, <2>1, CopiesStep
<1>11. NoTwins'
  BY <1>1, <1>2, <1>5, <1>10 DEF NoTwins
<1>12. CurrentCopyIsRelfile'
  BY <1>10 DEF CurrentCopyIsRelfile
<1>13. TuplesOwned'
  BY <1>2, <1>3 DEF TuplesOwned
<1>14. SwapRemoveSound'
  BY <1>1, <1>2, <1>4 DEF SwapRemoveSound
<1>15. TypeOK'
  <2>1. tomb' \subseteq DOMAIN slots
    BY <1>1, <1>2 DEF TypeOK, SlotsOf
  <2>. QED  BY <1>1, <1>2, <1>3, <1>10, <2>1 DEF TypeOK, Copy
<1>. QED  BY <1>8, <1>9, <1>10, <1>11, <1>12, <1>13, <1>14, <1>15 DEF SlotsInv

LEMMA VacuumBeginStep ==
  ASSUME SlotsInv, kind' = kind, NEW K \in SUBSET Dead, VacuumBegin(K)
  PROVE  SlotsInv'
<1>1. /\ kind = "flat" /\ ~ vac.on
      /\ vac' = [on |-> TRUE, todo |-> DeadSlots(K), alive |-> Len(slots), dead |-> K]
      /\ UNCHANGED <<kind, slots, cells, tomb, heap, snap, torn>>
  BY DEF VacuumBegin
<1>2. /\ TypeOK /\ TuplesOwned /\ WrittenKept /\ SlotsOwned /\ NoTwins /\ SwapRemoveSound
      /\ slots \in Seq(Row)
  BY DEF SlotsInv, TypeOK
<1>3. PICK n \in Nat : n = Len(slots) /\ DOMAIN slots = 1 .. n
  BY <1>2
<1>. DEFINE q == DeadSlots(K)
<1>4. /\ q \in Seq(DOMAIN slots)
      /\ \A i, j \in DOMAIN q : i < j => q[j] < q[i]
      /\ Range(q) = SlotsOf(slots, K)
  BY <1>2, DeadSlotsDescend
<1>. HIDE DEF q
<1>5. vac'.on /\ vac'.todo = q /\ vac'.alive = n /\ vac'.dead = K
  BY <1>1, <1>3 DEF q
<1>6. Used' = Used /\ Unmasked' = Unmasked /\ Written' = Written
  <2>1. Used' = 1 .. n /\ Used = 1 .. n
    BY <1>1, <1>3, <1>5 DEF Used
  <2>. QED  BY <1>1, <2>1 DEF Unmasked, Written, WritesAtOnce
<1>7. WrittenKept' /\ SlotsOwned' /\ NoTwins' /\ TuplesOwned'
  BY <1>1, <1>2, <1>6 DEF WrittenKept, SlotsOwned, NoTwins, TuplesOwned
<1>8. CopiesOfOwners'
  BY <1>1, CopiesStep
<1>9. CurrentCopyIsRelfile'
  BY <1>5 DEF CurrentCopyIsRelfile
<1>10. SwapRemoveSound'
  <2>1. \A i \in 1 .. n : slots[i].id \in K <=> i \in Range(q)
    BY <1>3, <1>4 DEF SlotsOf
  <2>2. \A x \in DOMAIN q : q[x] <= n
    BY <1>3, <1>4
  <2>3. K \subseteq {t \in Id : heap[t].st = "dead"}
    BY DEF Dead
  <2>. QED  BY <1>1, <1>2, <1>4, <1>5, <2>1, <2>2, <2>3 DEF SwapRemoveSound
<1>11. TypeOK'
  <2>1. vac' \in [on : BOOLEAN, todo : Seq(DOMAIN slots), alive : 0 .. Len(slots), dead : SUBSET Id]
    <3>1. n \in 0 .. n /\ K \subseteq Id
      BY DEF Dead
    <3>. QED  BY <1>1, <1>3, <1>4, <3>1 DEF q
  <2>. QED  BY <1>1, <1>2, <2>1 DEF TypeOK
<1>. QED  BY <1>7, <1>8, <1>9, <1>10, <1>11 DEF SlotsInv

\* What is to be moved next, and the rest.
LEMMA NextMove ==
  ASSUME SlotsInv, vac.on, vac.todo # <<>>
  PROVE  LET h == Head(vac.todo)  rest == Tail(vac.todo)
         IN  /\ vac.alive \in Nat /\ vac.alive <= Len(slots) /\ h \in 1 .. vac.alive
             /\ slots[h].id \in vac.dead
             /\ rest \in Seq(DOMAIN slots)
             /\ \A x, y \in DOMAIN rest : x < y => rest[y] < rest[x]
             /\ \A x \in DOMAIN rest : rest[x] < h
             /\ Range(vac.todo) = Range(rest) \cup {h}
<1>. DEFINE q == vac.todo
            h == Head(q)
            rest == Tail(q)
<1>1. /\ slots \in Seq(Row) /\ q \in Seq(DOMAIN slots) /\ vac.alive \in 0 .. Len(slots)
      /\ \A x, y \in DOMAIN q : x < y => q[y] < q[x]
      /\ \A x \in DOMAIN q : q[x] <= vac.alive
      /\ \A i \in 1 .. vac.alive : slots[i].id \in vac.dead <=> i \in Range(q)
      /\ q # <<>>
  BY DEF SlotsInv, TypeOK, SwapRemoveSound
<1>. HIDE DEF q
<1>2. PICK n \in Nat, l \in Nat :
        n = Len(slots) /\ DOMAIN slots = 1 .. n /\ l = Len(q) /\ DOMAIN q = 1 .. l
  BY <1>1
<1>3. l # 0
  BY <1>1, <1>2
<1>4. /\ h = q[1] /\ rest \in Seq(DOMAIN slots) /\ DOMAIN rest = 1 .. l - 1
      /\ \A x \in 1 .. l - 1 : rest[x] = q[x + 1]
  BY <1>1, <1>2, <1>3
<1>. HIDE DEF h, rest
<1>5. 1 \in 1 .. l /\ \A x \in 1 .. l - 1 : x + 1 \in 1 .. l /\ 1 < x + 1
  BY <1>3
<1>6. \A x, y \in 1 .. l - 1 : x < y => x + 1 < y + 1
  OBVIOUS
<1>7. vac.alive \in Nat /\ vac.alive <= n /\ h \in 1 .. vac.alive
  <2>1. q[1] \in 1 .. n /\ q[1] <= vac.alive
    BY <1>1, <1>2, <1>5
  <2>. QED  BY <1>1, <1>2, <1>4, <2>1
<1>8. slots[h].id \in vac.dead
  BY <1>1, <1>2, <1>4, <1>5, <1>7 DEF Range
<1>9. \A x, y \in 1 .. l - 1 : x < y => rest[y] < rest[x]
  BY <1>1, <1>2, <1>4, <1>5, <1>6
<1>10. \A x \in 1 .. l - 1 : rest[x] < h
  BY <1>1, <1>2, <1>4, <1>5
<1>11. Range(q) = Range(rest) \cup {h}
  <2>1. \A x \in 1 .. l : x = 1 \/ (x - 1 \in 1 .. l - 1 /\ x = (x - 1) + 1)
    OBVIOUS
  <2>2. ASSUME NEW x \in 1 .. l PROVE q[x] \in Range(rest) \cup {h}
    <3>1. CASE x = 1
      BY <1>4, <3>1
    <3>2. CASE x - 1 \in 1 .. l - 1 /\ x = (x - 1) + 1
      <4>1. rest[x - 1] = q[x]
        BY <1>4, <3>2
      <4>. QED  BY <1>4, <3>2, <4>1 DEF Range
    <3>. QED  BY <2>1, <3>1, <3>2
  <2>3. Range(q) \subseteq Range(rest) \cup {h}
    BY <1>2, <2>2 DEF Range
  <2>4. \A x \in 1 .. l - 1 : rest[x] \in Range(q)
    BY <1>2, <1>4, <1>5 DEF Range
  <2>5. h \in Range(q)
    BY <1>2, <1>4, <1>5 DEF Range
  <2>. QED  BY <1>4, <2>3, <2>4, <2>5 DEF Range
<1>. QED  BY <1>2, <1>4, <1>7, <1>8, <1>9, <1>10, <1>11 DEF q, h, rest

LEMMA VacuumMoveStep ==
  ASSUME SlotsInv, kind' = kind, VacuumMove
  PROVE  SlotsInv'
<1>. DEFINE h == Head(vac.todo)
            rest == Tail(vac.todo)
            d == slots'
<1>1. /\ vac.on /\ vac.todo # <<>> /\ d = [slots EXCEPT ![h] = slots[vac.alive]]
      /\ vac' = [vac EXCEPT !.todo = rest, !.alive = vac.alive - 1]
      /\ UNCHANGED <<kind, cells, tomb, heap, snap, torn>>
  BY DEF VacuumMove
<1>2. /\ TypeOK /\ TuplesOwned /\ WrittenKept /\ SlotsOwned /\ NoTwins /\ SwapRemoveSound
      /\ slots \in Seq(Row)
  BY DEF SlotsInv, TypeOK
<1>3. PICK n \in Nat, a \in Nat : n = Len(slots) /\ DOMAIN slots = 1 .. n /\ a = vac.alive
  BY <1>2 DEF TypeOK
<1>4. /\ a <= n /\ h \in 1 .. a /\ slots[h].id \in vac.dead
      /\ rest \in Seq(DOMAIN slots)
      /\ \A x, y \in DOMAIN rest : x < y => rest[y] < rest[x]
      /\ \A x \in DOMAIN rest : rest[x] < h
      /\ Range(vac.todo) = Range(rest) \cup {h}
  BY <1>1, <1>3, NextMove
<1>. HIDE DEF h, rest
<1>5. /\ kind = "flat" /\ tomb = {} /\ cells = <<>>
      /\ vac.dead \subseteq {t \in Id : heap[t].st = "dead"}
      /\ \A i \in 1 .. a : slots[i].id \in vac.dead <=> i \in Range(vac.todo)
  BY <1>1, <1>2, <1>3 DEF SwapRemoveSound
<1>6. /\ \A i \in 1 .. a - 1 : i \in 1 .. a /\ i \in 1 .. n /\ i # a
      /\ \A i \in 1 .. a : i \in 1 .. a - 1 \/ i = a
      /\ a \in 1 .. a /\ a \in 1 .. n /\ h \in 1 .. n
  BY <1>4
<1>7. /\ d \in Seq(Row) /\ Len(d) = n /\ DOMAIN d = 1 .. n
      /\ \A i \in 1 .. n : d[i] = IF i = h THEN slots[a] ELSE slots[i]
  <2>1. slots[a] \in Row
    BY <1>2, <1>3, <1>6
  <2>. QED  BY <1>1, <1>2, <1>3, <1>6, <2>1
<1>8. vac'.on /\ vac'.todo = rest /\ vac'.alive = a - 1 /\ vac'.dead = vac.dead
  BY <1>1, <1>2, <1>3 DEF TypeOK
<1>9. Used = 1 .. a /\ Unmasked = 1 .. a /\ Used' = 1 .. a - 1 /\ Unmasked' = 1 .. a - 1
  BY <1>1, <1>3, <1>5, <1>8 DEF Used, Unmasked
<1>10. Written' = Written /\ \A t \in Written : t \in Id /\ t \notin vac.dead
  <2>1. Written' = Written
    BY <1>1 DEF Written, WritesAtOnce
  <2>. QED  BY <1>5, <2>1 DEF Written
<1>. HIDE DEF d
<1>11. WrittenKept'
  <2>1. SUFFICES ASSUME NEW t \in Written
                 PROVE  \E i \in 1 .. a - 1 : d[i].id = t /\ d[i].vec = heap[t].vec
    BY <1>1, <1>9, <1>10 DEF WrittenKept, d
  <2>2. PICK i \in 1 .. a : slots[i].id = t /\ slots[i].vec = heap[t].vec
    BY <1>2, <1>9 DEF WrittenKept
  <2>3. i # h
    BY <1>4, <1>10, <2>2
  <2>4. CASE i = a
    <3>1. h \in 1 .. a - 1 /\ d[h] = slots[a]
      BY <1>4, <1>6, <1>7, <2>3, <2>4
    <3>. QED  BY <2>2, <2>4, <3>1
  <2>5. CASE i # a
    <3>1. i \in 1 .. a - 1 /\ d[i] = slots[i]
      BY <1>6, <1>7, <2>3, <2>5
    <3>. QED  BY <2>2, <3>1
  <2>. QED  BY <2>4, <2>5
<1>12. SlotsOwned'
  <2>1. SUFFICES ASSUME ~ torn, NEW i \in 1 .. a - 1
                 PROVE  /\ heap[d[i].id].st # "free"
                        /\ d[i].id \in Written => d[i].vec = heap[d[i].id].vec
    BY <1>1, <1>9, <1>10 DEF SlotsOwned, d
  <2>2. PICK j \in 1 .. a : d[i] = slots[j]
    BY <1>6, <1>7
  <2>. QED  BY <1>2, <1>9, <2>1, <2>2 DEF SlotsOwned
<1>13. NoTwins'
  <2>1. SUFFICES ASSUME ~ torn, NEW i \in 1 .. a - 1, NEW j \in 1 .. a - 1, d[i].id = d[j].id
                 PROVE  i = j
    BY <1>1, <1>9 DEF NoTwins, d
  <2>2. \A x, y \in 1 .. a : slots[x].id = slots[y].id => x = y
    BY <1>2, <1>5, <1>9, <2>1 DEF NoTwins
  <2>3. CASE i = h /\ j # h
    <3>1. d[i] = slots[a] /\ d[j] = slots[j]
      BY <1>6, <1>7, <2>3
    <3>. QED  BY <1>6, <2>1, <2>2, <3>1
  <2>4. CASE i # h /\ j = h
    <3>1. d[i] = slots[i] /\ d[j] = slots[a]
      BY <1>6, <1>7, <2>4
    <3>. QED  BY <1>6, <2>1, <2>2, <3>1
  <2>5. CASE i # h /\ j # h
    <3>1. d[i] = slots[i] /\ d[j] = slots[j]
      BY <1>6, <1>7, <2>5
    <3>. QED  BY <1>6, <2>1, <2>2, <3>1
  <2>. QED  BY <2>3, <2>4, <2>5
<1>14. SwapRemoveSound'
  <2>1. \A x \in DOMAIN rest : rest[x] \in 1 .. n
    BY <1>3, <1>4
  <2>2. \A x \in DOMAIN rest : rest[x] <= a - 1
    BY <1>4, <2>1
  <2>3. h \notin Range(rest) /\ (h # a => a \notin Range(vac.todo))
    <3>1. \A x \in DOMAIN rest : rest[x] # h /\ rest[x] # a
      BY <1>4, <2>1
    <3>. QED  BY <1>4, <3>1 DEF Range
  <2>4. ASSUME NEW i \in 1 .. a - 1 PROVE d[i].id \in vac.dead <=> i \in Range(rest)
    <3>1. CASE i = h
      BY <1>5, <1>6, <1>7, <2>3, <3>1
    <3>2. CASE i # h
      BY <1>4, <1>5, <1>6, <1>7, <3>2
    <3>. QED  BY <3>1, <3>2
  <2>. QED  BY <1>1, <1>4, <1>5, <1>8, <2>2, <2>4 DEF SwapRemoveSound, d
<1>15. CopiesOfOwners'
  BY <1>1, CopiesStep
<1>16. CurrentCopyIsRelfile'
  BY <1>8 DEF CurrentCopyIsRelfile
<1>17. TypeOK'
  <2>1. a - 1 \in 0 .. n
    BY <1>4
  <2>2. vac' \in [on : BOOLEAN, todo : Seq(DOMAIN d), alive : 0 .. Len(d), dead : SUBSET Id]
    <3>1. vac \in [on : BOOLEAN, todo : Seq(DOMAIN slots),
                   alive : 0 .. Len(slots), dead : SUBSET Id]
      BY <1>2 DEF TypeOK
    <3>. QED  BY <1>1, <1>3, <1>4, <1>7, <2>1, <3>1
  <2>. QED  BY <1>1, <1>2, <1>3, <1>7, <2>2 DEF TypeOK, d
<1>18. TuplesOwned'
  BY <1>1, <1>2 DEF TuplesOwned
<1>. QED  BY <1>11, <1>12, <1>13, <1>14, <1>15, <1>16, <1>17, <1>18 DEF SlotsInv

LEMMA VacuumShrinkStep ==
  ASSUME SlotsInv, kind' = kind, VacuumShrink
  PROVE  SlotsInv'
<1>. DEFINE d == slots'
<1>1. /\ vac.on /\ vac.todo = <<>> /\ d = SubSeq(slots, 1, vac.alive) /\ Bijective(d)
      /\ heap' = Freed(vac.dead) /\ vac' = NoVacuum /\ snap' = Outdated(snap, Nobody)
      /\ UNCHANGED <<kind, cells, tomb, torn>>
  BY DEF VacuumShrink
<1>2. /\ TypeOK /\ TuplesOwned /\ WrittenKept /\ SlotsOwned /\ NoTwins /\ SwapRemoveSound
      /\ slots \in Seq(Row)
  BY DEF SlotsInv, TypeOK
<1>3. PICK n \in Nat, a \in Nat : n = Len(slots) /\ DOMAIN slots = 1 .. n /\ a = vac.alive /\ a <= n
  BY <1>2 DEF TypeOK
<1>4. /\ kind = "flat" /\ tomb = {} /\ cells = <<>>
      /\ vac.dead \subseteq {t \in Id : heap[t].st = "dead"}
      /\ \A i \in 1 .. a : slots[i].id \notin vac.dead
  <2>1. Range(vac.todo) = {}
    BY <1>1 DEF Range
  <2>. QED  BY <1>1, <1>2, <1>3, <2>1 DEF SwapRemoveSound
<1>5. d \in Seq(Row) /\ Len(d) = a /\ DOMAIN d = 1 .. a /\ \A i \in 1 .. a : d[i] = slots[i]
  <2>1. \A i \in 1 .. a : i \in 1 .. n /\ slots[i] \in Row
    BY <1>2, <1>3
  <2>2. /\ SubSeq(slots, 1, a) \in Seq(Row)
        /\ Len(SubSeq(slots, 1, a)) = IF 1 <= a THEN a - 1 + 1 ELSE 0
        /\ \A i \in 1 .. a - 1 + 1 : SubSeq(slots, 1, a)[i] = slots[1 + i - 1]
    BY <1>3, <2>1, SubSeqProperties
  <2>3. d = SubSeq(slots, 1, a)
    BY <1>1, <1>3
  <2>. HIDE DEF d
  <2>. QED  BY <1>3, <2>2, <2>3
<1>6. Used = 1 .. a /\ Unmasked = 1 .. a /\ Used' = 1 .. a /\ Unmasked' = 1 .. a
  BY <1>1, <1>3, <1>4, <1>5 DEF Used, Unmasked, NoVacuum
<1>7. /\ heap' \in [Id -> Tuple] /\ \A t \in vac.dead : t \in Id /\ heap[t].st = "dead"
      /\ \A t \in Id : heap'[t] = IF t \in vac.dead THEN FreeTuple ELSE heap[t]
      /\ FreeTuple.st = "free"
  <2>1. vac.dead \in SUBSET Dead
    BY <1>4 DEF Dead
  <2>. QED  BY <1>1, <1>2, <2>1, FreedIs
<1>8. Written' = Written /\ \A t \in Written : t \notin vac.dead /\ t \in Id /\ heap'[t] = heap[t]
  <2>1. \A t \in Id : heap'[t].st \in {"live", "pending"} \/ heap[t].st \in {"live", "pending"}
                      => t \notin vac.dead /\ heap'[t] = heap[t]
    BY <1>7
  <2>2. WritesAtOnce' = WritesAtOnce
    BY <1>1 DEF WritesAtOnce
  <2>3. Written' = {t \in Id : heap'[t].st = "live" \/ (WritesAtOnce /\ heap'[t].st = "pending")}
    BY <2>2 DEF Written
  <2>. QED  BY <2>1, <2>3 DEF Written
<1>9. \A i \in 1 .. a : d[i].id \in Id /\ heap'[d[i].id] = heap[slots[i].id]
  <2>1. SUFFICES ASSUME NEW i \in 1 .. a
                 PROVE  d[i].id \in Id /\ heap'[d[i].id] = heap[slots[i].id]
    OBVIOUS
  <2>. HIDE DEF d
  <2>2. i \in 1 .. n
    BY <1>3
  <2>3. d[i] = slots[i] /\ slots[i].id \in Id /\ slots[i].id \notin vac.dead
    BY <1>2, <1>3, <1>4, <1>5, <2>2, RowsElements
  <2>. QED  BY <1>7, <2>3
<1>. HIDE DEF d
<1>10. WrittenKept'
  BY <1>2, <1>5, <1>6, <1>8 DEF WrittenKept, d
<1>11. SlotsOwned'
  <2>1. SUFFICES ASSUME ~ torn, NEW i \in 1 .. a
                 PROVE  /\ heap'[d[i].id].st # "free"
                        /\ d[i].id \in Written => d[i].vec = heap'[d[i].id].vec
    BY <1>1, <1>6, <1>8 DEF SlotsOwned, d
  <2>2. /\ heap[slots[i].id].st # "free"
        /\ slots[i].id \in Written => slots[i].vec = heap[slots[i].id].vec
    BY <1>2, <1>6, <2>1 DEF SlotsOwned
  <2>. QED  BY <1>5, <1>9, <2>2
<1>12. NoTwins'
  <2>1. \A i, j \in 1 .. a : d[i].id = d[j].id => i = j
    BY <1>1, <1>5, Zenon DEF Bijective
  <2>. QED  BY <1>6, <2>1, Zenon DEF NoTwins, d
<1>13. /\ CopiesOfOwners' /\ \A b \in Backend : snap'[b].on = snap[b].on /\ ~ snap'[b].current
       /\ snap' \in [Backend -> Copy]
  <2>1. \A t \in Id : heap'[t].st = "pending" \/ heap[t].st = "pending" => heap'[t] = heap[t]
    BY <1>7
  <2>. QED  BY <1>1, <2>1, CopiesStep
<1>14. CurrentCopyIsRelfile'
  BY <1>13 DEF CurrentCopyIsRelfile
<1>15. TuplesOwned'
  BY <1>2, <1>7 DEF TuplesOwned
<1>16. SwapRemoveSound'
  BY <1>1, <1>2 DEF SwapRemoveSound, NoVacuum
<1>17. TypeOK'
  <2>1. NoVacuum \in [on : BOOLEAN, todo : Seq(DOMAIN d), alive : 0 .. Len(d), dead : SUBSET Id]
    <3>1. 0 \in 0 .. Len(d)
      BY <1>5
    <3>. QED  BY <3>1 DEF NoVacuum
  <2>2. cells \in Seq(Vec) /\ Len(cells) <= Len(d)
    BY <1>2, <1>4, <1>5 DEF TypeOK
  <2>. QED  BY <1>1, <1>2, <1>4, <1>5, <1>7, <1>13, <2>1, <2>2 DEF TypeOK, Copy, d
<1>. QED  BY <1>10, <1>11, <1>12, <1>13, <1>14, <1>15, <1>16, <1>17 DEF SlotsInv

\* VACUUM is stopped half way: the rows written are still there.
LEMMA VacuumStops ==
  ASSUME SlotsInv, UNCHANGED <<kind, cells, tomb>>, vac.on, vac' = NoVacuum, torn',
         slots' \in Seq(Row), Len(slots') = Len(slots),
         \A i \in 1 .. vac.alive : slots[i].id \notin vac.dead => slots'[i] = slots[i],
         \A t \in Written' : t \in Written /\ heap'[t].vec = heap[t].vec
  PROVE  /\ WrittenKept' /\ SlotsOwned' /\ NoTwins' /\ SwapRemoveSound' /\ CurrentCopyIsRelfile'
         /\ tomb' \subseteq DOMAIN slots' /\ cells' \in Seq(Vec) /\ Len(cells') <= Len(slots')
         /\ vac' \in [on : BOOLEAN, todo : Seq(DOMAIN slots'),
                      alive : 0 .. Len(slots'), dead : SUBSET Id]
<1>1. TypeOK /\ WrittenKept /\ SwapRemoveSound /\ slots \in Seq(Row)
  BY DEF SlotsInv, TypeOK
<1>2. PICK n \in Nat, a \in Nat :
        /\ n = Len(slots) /\ DOMAIN slots = 1 .. n /\ a = vac.alive /\ a <= n
                                  /\ DOMAIN slots' = 1 .. n
  BY <1>1 DEF TypeOK
<1>3. kind = "flat" /\ tomb = {} /\ vac.dead \subseteq {t \in Id : heap[t].st = "dead"}
  BY <1>1 DEF SwapRemoveSound
<1>4. Unmasked = 1 .. a /\ Unmasked' = 1 .. n
  BY <1>2, <1>3 DEF Used, Unmasked, NoVacuum
<1>5. WrittenKept'
  <2>1. SUFFICES ASSUME NEW t \in Written'
                 PROVE  \E i \in 1 .. n : slots'[i].id = t /\ slots'[i].vec = heap'[t].vec
    BY <1>4 DEF WrittenKept
  <2>2. PICK i \in 1 .. a : slots[i].id = t /\ slots[i].vec = heap[t].vec
    BY <1>1, <1>4 DEF WrittenKept
  <2>3. t \notin vac.dead
    BY <1>3 DEF Written, WritesAtOnce
  <2>4. i \in 1 .. n /\ slots'[i] = slots[i]
    BY <1>2, <2>2, <2>3
  <2>. QED  BY <2>2, <2>4
<1>6. SlotsOwned' /\ NoTwins' /\ CurrentCopyIsRelfile'
  BY DEF SlotsOwned, NoTwins, CurrentCopyIsRelfile
<1>7. SwapRemoveSound'
  BY <1>1, <1>3 DEF SwapRemoveSound, NoVacuum
<1>8. tomb' \subseteq DOMAIN slots' /\ cells' \in Seq(Vec) /\ Len(cells') <= Len(slots')
  BY <1>1, <1>2 DEF TypeOK
<1>9. vac' \in [on : BOOLEAN, todo : Seq(DOMAIN slots'), alive : 0 .. Len(slots'), dead : SUBSET Id]
  <2>1. 0 \in 0 .. Len(slots')
    BY <1>2
  <2>. QED  BY <2>1 DEF NoVacuum
<1>. QED  BY <1>5, <1>6, <1>7, <1>8, <1>9

\* Only in a relfile torn before does a swap-remove find an id twice.
LEMMA RefusedIsTorn ==
  ASSUME SlotsInv, VacuumRefused
  PROVE  torn
<1>. DEFINE d == SubSeq(slots, 1, vac.alive)
<1>1. /\ NoTwins /\ SwapRemoveSound /\ slots \in Seq(Row) /\ vac.alive \in 0 .. Len(slots)
      /\ vac.on /\ ~ Bijective(d) /\ torn \in BOOLEAN
  BY DEF SlotsInv, TypeOK, VacuumRefused
<1>2. PICK n \in Nat, a \in Nat : n = Len(slots) /\ DOMAIN slots = 1 .. n /\ a = vac.alive /\ a <= n
  BY <1>1
<1>3. DOMAIN d = 1 .. a /\ \A i \in 1 .. a : d[i] = slots[i]
  <2>1. \A i \in 1 .. a : i \in 1 .. n /\ slots[i] \in Row
    BY <1>1, <1>2
  <2>2. /\ SubSeq(slots, 1, a) \in Seq(Row)
        /\ Len(SubSeq(slots, 1, a)) = IF 1 <= a THEN a - 1 + 1 ELSE 0
        /\ \A i \in 1 .. a - 1 + 1 : SubSeq(slots, 1, a)[i] = slots[1 + i - 1]
    BY <1>2, <2>1, SubSeqProperties
  <2>3. d = SubSeq(slots, 1, a)
    BY <1>2
  <2>. HIDE DEF d
  <2>. QED  BY <1>2, <2>2, <2>3
<1>. HIDE DEF d
<1>4. SUFFICES ASSUME ~ torn PROVE FALSE
  BY <1>1
<1>5. kind = "flat" /\ cells = <<>> /\ Used = 1 .. a
  BY <1>1, <1>2 DEF SwapRemoveSound, Used
<1>6. \A i, j \in 1 .. a : slots[i].id = slots[j].id => i = j
  BY <1>1, <1>4, <1>5 DEF NoTwins
<1>. QED  BY <1>1, <1>3, <1>6 DEF Bijective

\* A swap-remove that finds an id twice, or is cancelled.
LEMMA VacuumRefusedStep ==
  ASSUME SlotsInv, kind' = kind, VacuumRefused \/ VacuumCancel
  PROVE  SlotsInv'
<1>1. /\ vac.on /\ vac' = NoVacuum /\ UNCHANGED <<kind, slots, cells, tomb, heap, snap>>
      /\ torn' \in BOOLEAN
  BY DEF VacuumRefused, VacuumCancel, SlotsInv, TypeOK
<1>2. torn'
  <2>1. CASE VacuumCancel
    BY <2>1 DEF VacuumCancel
  <2>2. CASE VacuumRefused
    BY <2>2, RefusedIsTorn DEF VacuumRefused
  <2>. QED  BY <2>1, <2>2
<1>3. Written' = Written
  BY <1>1 DEF Written, WritesAtOnce
<1>4. slots \in Seq(Row)
  BY DEF SlotsInv, TypeOK
<1>5. /\ WrittenKept' /\ SlotsOwned' /\ NoTwins' /\ SwapRemoveSound' /\ CurrentCopyIsRelfile'
      /\ tomb' \subseteq DOMAIN slots' /\ cells' \in Seq(Vec) /\ Len(cells') <= Len(slots')
      /\ vac' \in [on : BOOLEAN, todo : Seq(DOMAIN slots'),
                   alive : 0 .. Len(slots'), dead : SUBSET Id]
  BY <1>1, <1>2, <1>3, <1>4, VacuumStops
<1>6. CopiesOfOwners'
  BY <1>1, CopiesStep
<1>7. TypeOK' /\ TuplesOwned'
  BY <1>1, <1>5 DEF SlotsInv, TypeOK, TuplesOwned
<1>. QED  BY <1>5, <1>6, <1>7 DEF SlotsInv

LEMMA CrashStep ==
  ASSUME SlotsInv, kind' = kind, Crash
  PROVE  SlotsInv'
<1>1. /\ slots' \in {slots} \cup
           (IF vac.todo = <<>> THEN {}
            ELSE {[slots EXCEPT ![Head(vac.todo)].vec = slots[vac.alive].vec]})
      /\ heap' = [t \in Id |-> IF heap[t].st = "pending" THEN DeadTuple ELSE heap[t]]
      /\ snap' = [b \in Backend |-> NoSnap] /\ vac' = NoVacuum /\ torn' = (torn \/ vac.on)
      /\ UNCHANGED <<kind, cells, tomb>>
  BY DEF Crash
<1>2. /\ TypeOK /\ SwapRemoveSound /\ slots \in Seq(Row)
      /\ heap \in [Id -> Tuple] /\ DeadTuple \in Tuple /\ DeadTuple.st = "dead"
  BY DEF SlotsInv, TypeOK, Tuple, DeadTuple
<1>3. /\ heap' \in [Id -> Tuple]
      /\ \A t \in Id : heap'[t] = IF heap[t].st = "pending" THEN DeadTuple ELSE heap[t]
  BY <1>1, <1>2
<1>4. /\ TuplesOwned'
      /\ \A t \in Written' : t \in Written /\ heap'[t].vec = heap[t].vec
      /\ \A t \in Id : heap'[t].st = "free" => heap[t].st = "free" \/ SlotsOf(slots, {t}) = {}
      /\ \A t \in vac.dead : heap'[t].st = "dead"
  BY <1>1, <1>3, TuplesEnd
<1>5. snap' \in [Backend -> Copy] /\ \A b \in Backend : snap'[b] = NoSnap
  BY <1>1, NoSnapIs
<1>6. CopiesOfOwners'
  <2>1. ASSUME NEW b \in Backend PROVE Pending(b)' = {}
    <3>1. Pending(b)' = {t \in Id : heap'[t].st = "pending" /\ heap'[t].own = b}
      BY DEF Pending
    <3>. QED  BY <1>2, <1>3, <3>1
  <2>. QED  BY <1>5, <2>1, NoSnapIs DEF CopiesOfOwners
<1>7. CASE vac.on
  <2>1. CASE slots' = slots
    BY <1>1, <1>2, <1>3, <1>4, <1>5, <1>6, <1>7, <2>1, VacuumStops DEF SlotsInv, TypeOK, Copy
  <2>2. CASE slots' # slots
    <3>. DEFINE h == Head(vac.todo)
                a == vac.alive
    <3>1. vac.todo # <<>> /\ slots' = [slots EXCEPT ![h].vec = slots[a].vec]
      BY <1>1, <2>2
    <3>2. a \in Nat /\ a <= Len(slots) /\ h \in 1 .. a /\ slots[h].id \in vac.dead
      BY <1>7, <3>1, NextMove
    <3>. HIDE DEF h, a
    <3>3. a \in DOMAIN slots /\ h \in DOMAIN slots /\ slots[a].vec \in Vec /\ slots[h] \in Row
      <4>1. Len(slots) \in Nat /\ DOMAIN slots = 1 .. Len(slots)
        BY <1>2
      <4>2. a \in DOMAIN slots /\ h \in DOMAIN slots
        BY <3>2, <4>1
      <4>. QED  BY <1>2, <4>1, <4>2, RowsElements
    <3>4. ASSUME NEW r \in Row, NEW v \in Vec PROVE [r EXCEPT !.vec = v] \in Row
      BY DEF Row
    <3>5. [slots[h] EXCEPT !.vec = slots[a].vec] \in Row
      BY <3>3, <3>4
    <3>6. slots' = [slots EXCEPT ![h] = [slots[h] EXCEPT !.vec = slots[a].vec]]
      BY <3>1
    <3>7. /\ slots' \in Seq(Row) /\ Len(slots') = Len(slots)
          /\ \A i \in DOMAIN slots : i # h => slots'[i] = slots[i]
      BY <1>2, <3>3, <3>5, <3>6
    <3>8. \A i \in 1 .. a : i \in DOMAIN slots
      BY <1>2, <3>2
    <3>9. \A i \in 1 .. a : slots[i].id \notin vac.dead => slots'[i] = slots[i]
      BY <3>2, <3>7, <3>8
    <3>10. torn' /\ vac' = NoVacuum /\ UNCHANGED <<kind, cells, tomb>>
      BY <1>1, <1>7
    <3>11. /\ WrittenKept' /\ SlotsOwned' /\ NoTwins' /\ SwapRemoveSound' /\ CurrentCopyIsRelfile'
           /\ tomb' \subseteq DOMAIN slots' /\ cells' \in Seq(Vec) /\ Len(cells') <= Len(slots')
           /\ vac' \in [on : BOOLEAN, todo : Seq(DOMAIN slots'),
                        alive : 0 .. Len(slots'), dead : SUBSET Id]
      BY <1>4, <1>7, <3>7, <3>9, <3>10, VacuumStops DEF a
    <3>12. TypeOK'
      BY <1>2, <1>3, <1>5, <3>7, <3>10, <3>11 DEF TypeOK, Copy
    <3>. QED  BY <1>4, <1>6, <3>11, <3>12 DEF SlotsInv
  <2>. QED  BY <2>1, <2>2
<1>8. CASE ~ vac.on
  <2>1. vac = NoVacuum /\ torn' = torn /\ torn \in BOOLEAN
    BY <1>1, <1>2, <1>8 DEF SwapRemoveSound, TypeOK
  <2>2. slots' = slots
    BY <1>1, <2>1 DEF NoVacuum
  <2>3. WrittenKept' /\ SlotsOwned' /\ NoTwins' /\ SwapRemoveSound'
    BY <1>1, <1>4, <1>5, <2>1, <2>2, NoSnapIs, HeapStep
  <2>4. CurrentCopyIsRelfile'
    BY <1>5, NoSnapIs DEF CurrentCopyIsRelfile
  <2>5. TypeOK'
    BY <1>1, <1>2, <1>3, <1>5, <2>1, <2>2 DEF TypeOK, Copy
  <2>. QED  BY <1>4, <1>6, <2>3, <2>4, <2>5 DEF SlotsInv
<1>. QED  BY <1>7, <1>8

-----------------------------------------------------------------------------
(* REINDEX.                                                                *)

\* The rows that a build scans.
LiveRow == {[id |-> t, vec |-> heap[t].vec] : t \in {u \in Id : heap[u].st = "live"}}

LEMMA LiveRowsAre ==
  ASSUME SlotsInv, NEW rows \in LiveRows
  PROVE  /\ rows \in Seq(Row) /\ RowsIn(rows) = LiveRow /\ Bijective(rows)
         /\ \A r \in LiveRow : r \in Row /\ heap[r.id].st = "live" /\ r.vec = heap[r.id].vec
         /\ \A t \in Id : heap[t].st = "live" => [id |-> t, vec |-> heap[t].vec] \in LiveRow
<1>. DEFINE L == {u \in Id : heap[u].st = "live"}
<1>1. IsFiniteSet(LiveRow)
  <2>1. IsFiniteSet(L)
    BY FiniteAssumption, FS_Subset
  <2>. DEFINE f(t) == [id |-> t, vec |-> heap[t].vec]
  <2>2. IsFiniteSet({f(t) : t \in L})
    <3>. HIDE DEF f, L
    <3>. DEFINE g == [t \in L |-> f(t)]
                S == {f(t) : t \in L}
    <3>1. g \in [L -> S] /\ \A y \in S : \E x \in L : g[x] = y
      OBVIOUS
    <3>2. g \in Surjection(L, S)
      BY <3>1 DEF Surjection
    <3>. QED  BY <2>1, <3>2, FS_Surjection
  <2>. QED  BY <2>2 DEF LiveRow
<1>2. rows \in SetToSeqs(LiveRow)
  BY DEF LiveRows, LiveRow
<1>3. \A t \in L : heap[t].vec \in Vec
  BY DEF SlotsInv, TuplesOwned
<1>4. \A r \in LiveRow : /\ r \in Row /\ heap[r.id].st = "live"
                         /\ r = [id |-> r.id, vec |-> heap[r.id].vec]
  BY <1>3 DEF LiveRow, Row
<1>5. /\ rows \in Seq(LiveRow) /\ \A i, j \in DOMAIN rows : rows[i] = rows[j] => i = j
      /\ \A x \in LiveRow : \E i \in DOMAIN rows : rows[i] = x
  <2>. HIDE DEF LiveRow
  <2>. QED  BY <1>1, <1>2, ListingIs
<1>6. \A t \in Id : heap[t].st = "live" => [id |-> t, vec |-> heap[t].vec] \in LiveRow
  BY DEF LiveRow
<1>. HIDE DEF LiveRow
<1>7. PICK n \in Nat : n = Len(rows) /\ DOMAIN rows = 1 .. n
  BY <1>5
<1>8. \A i \in 1 .. n : rows[i] \in LiveRow
  BY <1>5, <1>7
<1>9. rows \in Seq(Row)
  BY <1>4, <1>5, <1>7, <1>8
<1>10. RowsIn(rows) = LiveRow
  BY <1>5, <1>7, <1>8 DEF RowsIn
<1>11. Bijective(rows)
  <2>1. ASSUME NEW i \in 1 .. n, NEW j \in 1 .. n, rows[i].id = rows[j].id PROVE i = j
    <3>1. rows[i] = rows[j]
      BY <1>4, <1>8, <2>1
    <3>. QED  BY <1>5, <1>7, <3>1
  <2>. QED  BY <1>7, <2>1 DEF Bijective
<1>12. \A r \in LiveRow : r \in Row /\ heap[r.id].st = "live" /\ r.vec = heap[r.id].vec
  BY <1>4
<1>. QED  BY <1>6, <1>9, <1>10, <1>11, <1>12

\* A new relfile with the live rows and no others.
LEMMA RebuiltStep ==
  ASSUME SlotsInv, kind' = kind, NEW to \in Seq(Row), NEW directory \in Seq(Vec),
         Rebuilt(to, directory), Len(directory) <= Len(to),
         RowsIn(to) = LiveRow,
         \A r \in LiveRow : r \in Row /\ heap[r.id].st = "live" /\ r.vec = heap[r.id].vec,
         \A t \in Id : heap[t].st = "live" => [id |-> t, vec |-> heap[t].vec] \in LiveRow,
         directory = <<>> /\ kind # "bq" => Bijective(to),
         kind \in {"flat", "graph"} => directory = <<>>
  PROVE  SlotsInv'
<1>1. /\ \A b \in Backend : Pending(b) = {}
      /\ ~ vac.on /\ slots' = to /\ cells' = directory /\ tomb' = {}
      /\ snap' = [b \in Backend |-> NoSnap] /\ torn' = FALSE /\ UNCHANGED <<kind, heap, vac>>
  BY DEF Rebuilt
<1>2. TypeOK /\ TuplesOwned /\ SwapRemoveSound
  BY DEF SlotsInv
<1>3. vac = NoVacuum /\ ~ NoVacuum.on
  BY <1>1, <1>2 DEF SwapRemoveSound, NoVacuum
<1>4. Used' = DOMAIN to /\ Unmasked' = DOMAIN to
  BY <1>1, <1>3 DEF Used, Unmasked
<1>5. \A t \in Id : heap[t].st # "pending"
  BY <1>1, <1>2 DEF TuplesOwned, Pending
<1>6. Written' = {t \in Id : heap[t].st = "live"}
  <2>1. Written' = {t \in Id : heap'[t].st = "live" \/ (WritesAtOnce' /\ heap'[t].st = "pending")}
    BY DEF Written
  <2>. QED  BY <1>1, <1>5, <2>1
<1>7. snap' \in [Backend -> Copy] /\ \A b \in Backend : snap'[b] = NoSnap
  BY <1>1, NoSnapIs
<1>8. CopiesOfOwners'
  <2>1. \A b \in Backend : Pending(b)' = {}
    BY <1>1 DEF Pending
  <2>. QED  BY <1>7, <2>1, NoSnapIs DEF CopiesOfOwners
<1>9. WrittenKept'
  <2>1. SUFFICES ASSUME NEW t \in Id, heap[t].st = "live"
                 PROVE  \E i \in DOMAIN to : to[i].id = t /\ to[i].vec = heap[t].vec
    BY <1>1, <1>4, <1>6 DEF WrittenKept
  <2>2. PICK i \in DOMAIN to : to[i] = [id |-> t, vec |-> heap[t].vec]
    BY <2>1 DEF RowsIn
  <2>. QED  BY <2>2
<1>10. SlotsOwned'
  <2>1. \A i \in DOMAIN to : heap[to[i].id].st = "live" /\ to[i].vec = heap[to[i].id].vec
    BY DEF RowsIn
  <2>. QED  BY <1>1, <1>4, <2>1 DEF SlotsOwned
<1>11. NoTwins'
  BY <1>1, <1>4, <1>7, NoSnapIs DEF NoTwins, Bijective
<1>12. SwapRemoveSound'
  BY <1>1, <1>2, <1>3 DEF SwapRemoveSound
<1>13. CurrentCopyIsRelfile'
  BY <1>7, NoSnapIs DEF CurrentCopyIsRelfile
<1>14. TypeOK' /\ TuplesOwned'
  <2>1. NoVacuum \in [on : BOOLEAN, todo : Seq(DOMAIN to), alive : 0 .. Len(to), dead : SUBSET Id]
    <3>1. 0 \in 0 .. Len(to)
      OBVIOUS
    <3>. QED  BY <3>1 DEF NoVacuum
  <2>. QED  BY <1>1, <1>2, <1>3, <1>7, <2>1 DEF TypeOK, TuplesOwned, Copy
<1>. QED  BY <1>8, <1>9, <1>10, <1>11, <1>12, <1>13, <1>14 DEF SlotsInv

LEMMA ReindexStep ==
  ASSUME SlotsInv, kind' = kind, NEW rows \in LiveRows, Reindex(rows)
  PROVE  SlotsInv'
<1>1. Rebuilt(rows, <<>>)
  BY DEF Reindex
<1>2. <<>> \in Seq(Vec) /\ rows \in Seq(Row) /\ Len(<<>>) <= Len(rows)
  <2>1. rows \in Seq(Row)
    BY LiveRowsAre
  <2>. QED  BY <2>1
<1>. QED  BY <1>1, <1>2, LiveRowsAre, RebuiltStep

LEMMA ReindexCellsStep ==
  ASSUME SlotsInv, kind' = kind, NEW rows \in LiveRows, NEW order \in CellOrders,
         NEW soft \in BOOLEAN, ReindexCells(rows, order, soft)
  PROVE  SlotsInv'
<1>. DEFINE layout == Layout(rows, order, soft)
            to == [i \in DOMAIN layout |-> layout[i].row]
            directory == [i \in DOMAIN layout |-> layout[i].cell]
<1>1. kind \in {"ivf", "bq"} /\ Rebuilt(to, directory)
  BY DEF ReindexCells
<1>2. /\ rows \in Seq(Row) /\ RowsIn(rows) = LiveRow
      /\ \A r \in LiveRow : r \in Row /\ heap[r.id].st = "live" /\ r.vec = heap[r.id].vec
      /\ \A t \in Id : heap[t].st = "live" => [id |-> t, vec |-> heap[t].vec] \in LiveRow
  BY LiveRowsAre
<1>3. order \in Seq(Vec) /\ \A c \in Vec : \E k \in DOMAIN order : order[k] = c
  BY FiniteAssumption, ListingIs DEF CellOrders
<1>4. /\ layout \in Seq(Placed) /\ \A i \in DOMAIN layout : layout[i].row \in LiveRow
      /\ \A r \in LiveRow : \E i \in DOMAIN layout : layout[i].row = r
  BY <1>2, <1>3, LayoutIs
<1>. HIDE DEF layout
<1>5. PICK n \in Nat : n = Len(layout) /\ DOMAIN layout = 1 .. n
  BY <1>4
<1>6. \A i \in 1 .. n : layout[i].row \in Row /\ layout[i].cell \in Vec
  <2>1. \A i \in 1 .. n : layout[i] \in Placed
    BY <1>4, <1>5
  <2>. QED  BY <2>1 DEF Placed
<1>7. /\ to \in Seq(Row) /\ Len(to) = n /\ DOMAIN to = 1 .. n
      /\ directory \in Seq(Vec) /\ Len(directory) = n
      /\ \A i \in 1 .. n : to[i] = layout[i].row
  BY <1>5, <1>6
<1>. HIDE DEF to, directory
<1>8. RowsIn(to) = LiveRow
  BY <1>4, <1>5, <1>7 DEF RowsIn
<1>9. directory = <<>> => Bijective(to)
  <2>1. directory = <<>> => n = 0
    BY <1>7
  <2>2. n = 0 => 1 .. n = {}
    OBVIOUS
  <2>. QED  BY <1>7, <2>1, <2>2 DEF Bijective
<1>10. Len(directory) <= Len(to)
  BY <1>7
<1>. QED  BY <1>1, <1>2, <1>7, <1>8, <1>9, <1>10, RebuiltStep

-----------------------------------------------------------------------------
(* The invariant and what it promises.                                     *)

LEMMA SlotsInvInit == Init => SlotsInv
<1>. SUFFICES ASSUME Init PROVE SlotsInv
  OBVIOUS
<1>1. /\ kind \in Kinds /\ slots = <<>> /\ cells = <<>> /\ tomb = {}
      /\ heap = [t \in Id |-> FreeTuple] /\ snap = [b \in Backend |-> NoSnap]
      /\ vac = NoVacuum /\ torn = FALSE
  BY DEF Init
<1>2. FreeTuple \in Tuple /\ FreeTuple.st = "free"
  BY DEF FreeTuple, Tuple
<1>3. /\ ~ NoVacuum.on /\ DOMAIN <<>> = {} /\ Len(<<>>) = 0
      /\ NoVacuum \in [on : BOOLEAN, todo : Seq({}), alive : 0 .. 0, dead : SUBSET Id]
  BY DEF NoVacuum
<1>4. TypeOK
  <2>1. /\ slots \in Seq(Row) /\ cells \in Seq(Vec) /\ Len(cells) <= Len(slots)
        /\ tomb \subseteq DOMAIN slots
    BY <1>1, <1>3
  <2>2. heap \in [Id -> Tuple] /\ snap \in [Backend -> Copy]
    BY <1>1, <1>2, NoSnapIs
  <2>3. vac \in [on : BOOLEAN, todo : Seq(DOMAIN slots), alive : 0 .. Len(slots), dead : SUBSET Id]
    <3>1. DOMAIN slots = {} /\ Len(slots) = 0 /\ vac = NoVacuum
      BY <1>1, <1>3
    <3>. QED  BY <1>3, <3>1
  <2>. QED  BY <1>1, <2>1, <2>2, <2>3 DEF TypeOK, Copy
<1>5. TuplesOwned /\ Written = {} /\ \A b \in Backend : Pending(b) = {}
  BY <1>1, <1>2 DEF TuplesOwned, Written, Pending
<1>6. Used = {} /\ Unmasked = {}
  BY <1>1, <1>3 DEF Used, Unmasked
<1>7. WrittenKept /\ SlotsOwned /\ NoTwins
  BY <1>5, <1>6 DEF WrittenKept, SlotsOwned, NoTwins
<1>8. CopiesOfOwners
  BY <1>1, <1>5, NoSnapIs DEF CopiesOfOwners
<1>9. SwapRemoveSound
  BY <1>1, <1>3 DEF SwapRemoveSound
<1>10. CurrentCopyIsRelfile
  BY <1>1, NoSnapIs DEF CurrentCopyIsRelfile
<1>. QED  BY <1>4, <1>5, <1>7, <1>8, <1>9, <1>10 DEF SlotsInv

LEMMA SlotsInvStep == SlotsInv /\ [Next]_vars => SlotsInv'
<1>. SUFFICES ASSUME SlotsInv, [Next]_vars PROVE SlotsInv'
  OBVIOUS
<1>1. CASE UNCHANGED vars
  <2>1. UNCHANGED <<kind, slots, cells, tomb, heap, snap, vac, torn>>
    BY <1>1 DEF vars
  <2>2. \A t \in vac.dead : heap[t].st = "dead"
    BY DEF SlotsInv, SwapRemoveSound, NoVacuum
  <2>3. Written' = Written /\ heap \in [Id -> Tuple] /\ TuplesOwned'
    BY <2>1 DEF Written, WritesAtOnce, SlotsInv, TypeOK, TuplesOwned
  <2>. QED  BY <2>1, <2>2, <2>3, HeapOnly
<1>2. CASE Next
  <2>1. kind' = kind /\ Step
    BY <1>2 DEF Next
  <2>2. CASE \E b \in Backend, t \in Id, v \in Vec : Insert(b, t, v) \/ InsertAtOnce(b, t, v)
    BY <2>1, <2>2, InsertStep, InsertAtOnceStep
  <2>3. CASE \E b \in Backend, t \in Id : InsertRefused(b, t)
    BY <2>1, <2>3, InsertRefusedStep
  <2>4. CASE \E b \in Backend : Flush(b) \/ Commit(b) \/ Abort(b) \/ Evict(b)
    BY <2>1, <2>4, FlushStep, CommitStep, AbortStep, EvictStep
  <2>5. CASE \E t \in Id : Delete(t)
    BY <2>1, <2>5, DeleteStep
  <2>6. CASE \E K \in SUBSET Dead \ {{}} : VacuumNothing(K) \/ VacuumTombstone(K) \/ VacuumBegin(K)
    BY <2>1, <2>6, VacuumNothingStep, VacuumTombstoneStep, VacuumBeginStep
  <2>7. CASE VacuumMove \/ VacuumShrink \/ VacuumRefused \/ VacuumCancel
    BY <2>1, <2>7, VacuumMoveStep, VacuumShrinkStep, VacuumRefusedStep
  <2>8. CASE \E rows \in LiveRows : Reindex(rows)
    BY <2>1, <2>8, ReindexStep
  <2>9. CASE \E rows \in LiveRows, order \in CellOrders, soft \in BOOLEAN :
               ReindexCells(rows, order, soft)
    BY <2>1, <2>9, ReindexCellsStep
  <2>10. CASE Crash
    BY <2>1, <2>10, CrashStep
  <2>. QED  BY <2>1, <2>2, <2>3, <2>4, <2>5, <2>6, <2>7, <2>8, <2>9, <2>10 DEF Step
<1>. QED  BY <1>1, <1>2

\* Every row written keeps a slot that VACUUM leaves, no slot that is not masked
\* names a TID that is free, the rows in several slots are those of cells, the
\* swap-remove fills the dead slots and no others, and a copy that is current is
\* the relfile: what each step of the inserts, flushes, VACUUM and REINDEX keeps.
THEOREM SlotsInvariant == Spec => []SlotsInv
<1>. QED  BY SlotsInvInit, SlotsInvStep, PTL DEF Spec

\* No splice, swap-remove or bitmap loses a live row, gives it another's vector
\* or shows the row of a TID that is free; stopped half way, VACUUM has lost none
\* either.  (reconcile_flush_image, insert_bq_row, ambulkdelete.)
THEOREM SlotsAlwaysSound == Spec => []SlotsSound
<1>1. SlotsInv => SlotsSound
  <2>. SUFFICES ASSUME SlotsInv PROVE SlotsSound
    OBVIOUS
  <2>1. WrittenKept /\ SlotsOwned /\ NoTwins
    BY DEF SlotsInv
  <2>2. vac.alive \in 0 .. Len(slots) /\ slots \in Seq(Row)
    BY DEF SlotsInv, TypeOK
  <2>3. Unmasked \subseteq DOMAIN slots \ tomb /\ (~ vac.on => Unmasked = DOMAIN slots \ tomb)
    BY <2>2 DEF Unmasked, Used
  <2>4. ASSUME NEW t \in Id
        PROVE  /\ \A i : i \in Visible(t) <=> i \in DOMAIN slots \ tomb /\ slots[i].id = t
               /\ t \in Live => t \in Written
    BY DEF Visible, SlotsOf, Live, Written
  <2>5. LiveRowsKept
    <3>1. SUFFICES ASSUME NEW t \in Live
                   PROVE  \E i \in Visible(t) : slots[i].vec = heap[t].vec
      BY DEF LiveRowsKept
    <3>2. t \in Id /\ t \in Written
      BY <2>4 DEF Live
    <3>3. PICK i \in Unmasked : slots[i].id = t /\ slots[i].vec = heap[t].vec
      BY <2>1, <3>2 DEF WrittenKept
    <3>. QED  BY <2>3, <2>4, <3>2, <3>3
  <2>6. LiveRowsOnce
    <3>1. SUFFICES ASSUME ~ vac.on, ~ torn, NEW t \in Id
                   PROVE  /\ t \in Live => /\ Visible(t) # {}
                                           /\ \A i \in Visible(t) : slots[i].vec = heap[t].vec
                                           /\ cells = <<>> /\ kind # "bq" =>
                                                \A i, j \in Visible(t) : i = j
                          /\ heap[t].st = "free" => Visible(t) = {}
      BY DEF LiveRowsOnce
    <3>2. \A i \in Visible(t) : i \in Unmasked /\ i \in Used /\ slots[i].id = t
      BY <2>3, <2>4, <3>1 DEF Unmasked
    <3>3. \A i \in Visible(t) : heap[t].st # "free" /\ (t \in Written => slots[i].vec = heap[t].vec)
      BY <2>1, <3>1, <3>2 DEF SlotsOwned
    <3>4. cells = <<>> /\ kind # "bq" => \A i, j \in Visible(t) : i = j
      BY <2>1, <3>1, <3>2 DEF NoTwins
    <3>5. t \in Live => Visible(t) # {}
      BY <2>5 DEF LiveRowsKept
    <3>. QED  BY <2>4, <3>3, <3>4, <3>5
  <2>. QED  BY <2>5, <2>6 DEF SlotsSound
<1>. QED  BY <1>1, SlotsInvariant, PTL

\* VACUUM gives up a swap-remove because an id would be in two slots only if one
\* was stopped half way before.  (ambulkdelete, the check before the shrink.)
THEOREM OnlyTornIsRefused == Spec => [][VacuumRefused => torn]_vars
<1>1. SlotsInv /\ [Next]_vars => [VacuumRefused => torn]_vars
  BY RefusedIsTorn
<1>. QED  BY <1>1, SlotsInvariant, PTL DEF Spec

\* A copy that carries the relfile's version is the relfile, slot for slot.
\* (FlushOutcome.snapshot_is_current, clear_dirty.)
THEOREM CurrentCopies == Spec => []CurrentCopyIsRelfile
<1>1. SlotsInv => CurrentCopyIsRelfile
  BY DEF SlotsInv
<1>. QED  BY <1>1, SlotsInvariant, PTL

=============================================================================
