----------------------- MODULE RelfileReaders_proofs -----------------------
(***************************************************************************)
(* For any rows, vectors, page capacities and number of rewrites: no copy  *)
(* that mixes images is found again, and a scan that rewrites overlapped   *)
(* which only append or mark rows has every row that was live throughout.  *)
(***************************************************************************)
EXTENDS RelfileReaders, RelfilePages_proofs

-----------------------------------------------------------------------------
(* What the chains of an IVF index hold, and what a reader makes of them.  *)

\* The chains of an image of an IVF index.
LEMMA IvfContent ==
  ASSUME kind \in Kinds, NEW img, ImageSound(img)
  PROVE  LET n == Len(img.rows)
         IN  /\ n \in Nat /\ img.rows \in Seq(Row) /\ DOMAIN img.rows = 1 .. n
             /\ Content(img)["codes"] = [i \in 1 .. n |-> img.rows[i].vec]
             /\ Content(img)["scales"] = [i \in 1 .. n |-> img.rows[i].vec]
             /\ Content(img)["ids"] = [i \in 1 .. n |-> img.rows[i].id]
             /\ Content(img)["dir"] = Content(img)["coarse"]
             /\ Content(img)["coarse"] = Only(img.cells > 0, <<img.cells>>)
             /\ Content(img)["tomb"] = img.tomb
             /\ img.cells \in Nat /\ img.tomb \in Seq(BOOLEAN)
             /\ Len(img.tomb) \in {0, n}
<1>1. img \in Image /\ img.rows \in Seq(Row) /\ img.cells \in Nat /\ img.tomb \in Seq(BOOLEAN)
  BY DEF ImageSound, Image
<1>2. kind = "ivf"
  BY ReadersAssumption
<1>3. ~ OneBit
  BY <1>2 DEF OneBit
<1>4. \A s : Only(~ OneBit, s) = s
  BY <1>3 DEF Only
<1>. DEFINE n == Len(img.rows)
            vecs == [i \in 1 .. n |-> img.rows[i].vec]
<1>5. n \in Nat /\ DOMAIN img.rows = 1 .. n
  BY <1>1
<1>6. /\ Content(img)["codes"] = vecs
      /\ Content(img)["scales"] = Only(~ OneBit, vecs)
      /\ Content(img)["ids"] = [i \in 1 .. n |-> img.rows[i].id]
      /\ Content(img)["coarse"] = Only(img.cells > 0, <<img.cells>>)
      /\ Content(img)["dir"] = Only(img.cells > 0, <<img.cells>>)
      /\ Content(img)["tomb"] = img.tomb
  BY ContentFields
<1>7. Len(img.tomb) \in {0, n}
  BY DEF ImageSound
<1>8. Content(img)["scales"] = vecs
  <2>. HIDE DEF vecs
  <2>. QED  BY <1>4, <1>6
<1>. QED  BY <1>1, <1>5, <1>6, <1>7, <1>8

\* And their lengths.
LEMMA IvfMeta ==
  ASSUME kind \in Kinds, NEW m, NEW img, ImageSound(img), MetaSound(m, img)
  PROVE  /\ m.len \in [Chain -> Nat]
         /\ m.len["codes"] = Len(img.rows) /\ m.len["scales"] = Len(img.rows)
         /\ m.len["ids"] = Len(img.rows) /\ m.len["tomb"] = Len(img.tomb)
         /\ m.len["dir"] = m.len["coarse"]
         /\ m.len["coarse"] = IF img.cells > 0 THEN 1 ELSE 0
<1>1. /\ Len(img.rows) \in Nat
      /\ Content(img)["codes"] = [i \in 1 .. Len(img.rows) |-> img.rows[i].vec]
      /\ Content(img)["scales"] = [i \in 1 .. Len(img.rows) |-> img.rows[i].vec]
      /\ Content(img)["ids"] = [i \in 1 .. Len(img.rows) |-> img.rows[i].id]
      /\ Content(img)["dir"] = Content(img)["coarse"]
      /\ Content(img)["coarse"] = Only(img.cells > 0, <<img.cells>>)
      /\ Content(img)["tomb"] = img.tomb
  BY IvfContent
<1>2. \A c \in Chain : m.len[c] = Len(Content(img)[c]) /\ m.len[c] \in Nat
  BY MetaType
<1>3. m.len \in [Chain -> Nat]
  <2>1. m.len = [c \in Chain |-> Len(Content(img)[c])]
    BY DEF MetaSound, MetaFor
  <2>. QED  BY <1>2, <2>1
<1>4. Len(Content(img)["coarse"]) = IF img.cells > 0 THEN 1 ELSE 0
  BY <1>1 DEF Only
<1>5. /\ Len(Content(img)["codes"]) = Len(img.rows)
      /\ Len(Content(img)["scales"]) = Len(img.rows)
      /\ Len(Content(img)["ids"]) = Len(img.rows)
  BY <1>1
<1>. QED  BY <1>1, <1>2, <1>3, <1>4, <1>5 DEF Chain

\* An item that is there is what is read.
LEMMA ItemRead ==
  ASSUME NEW at, NEW c, NEW i, NEW v, HasItem(disk, at, c, i, v)
  PROVE  ItemAt(at, c, i) = v
  BY DEF HasItem, ItemAt

\* A chain all of which is there is read as a whole.
LEMMA ChunkRead ==
  ASSUME NEW m, NEW c, NEW s, s = [i \in 1 .. m.len[c] |-> s[i]],
         \A i \in 1 .. m.len[c] : HasItem(disk, m.at, c, i, s[i])
  PROVE  Chunk(m, c) = s
<1>1. \A i \in 1 .. m.len[c] : ItemAt(m.at, c, i) = s[i]
  BY ItemRead
<1>2. Chunk(m, c) = [i \in 1 .. m.len[c] |-> ItemAt(m.at, c, i)]
  BY DEF Chunk
<1>. QED  BY <1>1, <1>2

\* What is read of a column by the meta page of now.
LEMMA ColumnsRead ==
  ASSUME kind \in Kinds, ImageSound(image), MetaSound(meta, image),
         NEW c \in {"codes", "scales", "ids"},
         \A i \in 1 .. meta.len[c] : HasItem(disk, meta.at, c, i, Content(image)[c][i])
  PROVE  Chunk(meta, c) = Content(image)[c]
<1>1. /\ meta.len["codes"] = Len(image.rows) /\ meta.len["scales"] = Len(image.rows)
      /\ meta.len["ids"] = Len(image.rows)
  BY IvfMeta
<1>2. /\ Content(image)["codes"] = [i \in 1 .. Len(image.rows) |-> image.rows[i].vec]
      /\ Content(image)["scales"] = [i \in 1 .. Len(image.rows) |-> image.rows[i].vec]
      /\ Content(image)["ids"] = [i \in 1 .. Len(image.rows) |-> image.rows[i].id]
  BY IvfContent
<1>3. Content(image)[c] = [i \in 1 .. meta.len[c] |-> Content(image)[c][i]]
  <2>1. CASE c = "codes"
    BY <1>1, <1>2, <2>1
  <2>2. CASE c = "scales"
    BY <1>1, <1>2, <2>2
  <2>3. CASE c = "ids"
    BY <1>1, <1>2, <2>3
  <2>. QED  BY <2>1, <2>2, <2>3
<1>. QED  BY <1>3, ChunkRead

\* The directory of an index with cells, read by the meta page of now.
LEMMA DirectoryRead ==
  ASSUME kind \in Kinds, ImageSound(image), MetaSound(meta, image), meta.len["coarse"] > 0,
         \A i \in 1 .. meta.len["dir"] :
           HasItem(disk, meta.at, "dir", i, Content(image)["dir"][i]),
         NEW limit
  PROVE  DirectoryRows(meta, limit) = {image.cells} /\ image.cells \in 0 .. Len(image.rows)
<1>1. meta.len["dir"] = meta.len["coarse"] /\ meta.len["coarse"] = IF image.cells > 0 THEN 1 ELSE 0
  BY IvfMeta
<1>2. /\ Content(image)["dir"] = Only(image.cells > 0, <<image.cells>>)
      /\ image.cells \in Nat /\ Len(image.rows) \in Nat
  BY IvfContent
<1>3. meta.len["dir"] = 1 /\ image.cells > 0
  BY <1>1
<1>4. Content(image)["dir"][1] = image.cells
  BY <1>2, <1>3 DEF Only
<1>5. ItemAt(meta.at, "dir", 1) = image.cells
  BY <1>3, <1>4, ItemRead
<1>6. image.cells # Junk
  BY <1>2, ReadersAssumption
<1>7. image.cells <= Len(image.rows)
  BY DEF ImageSound
<1>. QED  BY <1>2, <1>5, <1>6, <1>7 DEF DirectoryRows

-----------------------------------------------------------------------------
(* The steps.                                                              *)

\* A scan writes nothing.
LEMMA ScanKeepsFile == ScanStep => UNCHANGED vars
<1>1. SUFFICES ASSUME ScanStep PROVE UNCHANGED vars
  OBVIOUS
<1>. HIDE DEF vars
<1>. QED
  BY <1>1 DEF ScanStep, BeginScan, BeginInstall, ReadCentroids, ReadDirectory, ReadScales,
              ReadIds, InstallWhole, ReadMetaAgain, ReadTombstones, Search

\* What the file is subject to is what RelfilePages allows.
LEMMA NextStep == ReadersNext => [Next]_vars
<1>1. CASE ScanStep
  BY <1>1, ScanKeepsFile
<1>2. CASE BeginRewrite
  <2>. HIDE DEF vars
  <2>. QED  BY <1>2 DEF BeginRewrite, Next
<1>3. CASE Rename \/ NewFile
  <2>. HIDE DEF vars
  <2>. QED  BY <1>3 DEF Rename, NewFile, Next
<1>4. CASE RewriteStep
  <2>. HIDE DEF vars
  <2>. QED  BY <1>4 DEF RewriteStep, Next
<1>. QED  BY <1>1, <1>2, <1>3, <1>4 DEF ReadersNext

\* The fields of a scan and of a copy.
LEMMA Fields ==
  /\ DOMAIN NoScan = {"pc", "hint", "dir", "scales", "mask", "stale", "calm", "wanted"}
  /\ DOMAIN NoCopy = {"on", "current", "whole", "at", "codes", "scales", "ids", "cells"}
  BY DEF NoScan, NoCopy

\* They stay those fields.
LEMMA FieldsNext ==
  /\ DOMAIN NoScan' = DOMAIN NoScan /\ DOMAIN NoCopy' = DOMAIN NoCopy
  BY DEF NoScan, NoCopy

\* A file that stays as it is.
LEMMA SameFile ==
  ASSUME UNCHANGED vars
  PROVE  /\ kind' = kind /\ meta' = meta /\ disk' = disk /\ image' = image
         /\ job' = job /\ hurt' = hurt
         /\ Content(image)' = Content(image) /\ Content(job.image)' = Content(job.image)
         /\ Clean' = Clean /\ CalmFile' = CalmFile
<1>1. /\ kind' = kind /\ meta' = meta /\ disk' = disk /\ image' = image
      /\ job' = job /\ hurt' = hurt
  BY DEF vars
<1>2. Content(image)' = Content(image) /\ Content(job.image)' = Content(job.image)
  BY <1>1, ContentNext
<1>3. Clean' = Clean
  BY <1>1 DEF Clean
<1>4. CalmFile' = CalmFile
  BY <1>1, <1>2 DEF CalmFile, HasItem, Within
<1>. QED  BY <1>1, <1>2, <1>3, <1>4

-----------------------------------------------------------------------------
(* The beginning of a rewrite.                                             *)

\* A rewrite that has begun.
LEMMA Begun ==
  ASSUME NEW img, NEW at, NEW blocks, NEW writes, NEW limit,
         Begin(img, at, blocks, writes, <<>>, limit)
  PROVE  /\ job'.on = TRUE /\ job'.named = FALSE /\ job'.image = img
         /\ job'.meta = MetaFor(img, at) /\ disk' = Extended(disk, blocks)
         /\ kind' = kind /\ meta' = meta /\ image' = image /\ hurt' = hurt
<1>. DEFINE m == MetaFor(img, at)
            risk == ~ (OnlyAdds(img, at) /\ <<>> = <<>>)
<1>1. /\ job' = [on |-> TRUE, writes |-> writes, copies |-> <<>>, meta |-> m, image |-> img,
                 limit |-> limit, risky |-> risk, named |-> FALSE]
      /\ disk' = Extended(disk, blocks)
      /\ kind' = kind /\ meta' = meta /\ image' = image /\ hurt' = hurt
  BY DEF Begin
<1>. HIDE DEF m, risk
<1>2. job'.on = TRUE /\ job'.named = FALSE /\ job'.image = img /\ job'.meta = m
  BY <1>1
<1>. QED  BY <1>1, <1>2 DEF m

\* Images and meta pages of the next state.
LEMMA JobNextSound ==
  ASSUME RewriteInv', kind' = kind
  PROVE  /\ ImageSound(image') /\ MetaSound(meta', image')
         /\ job'.on => ImageSound(job'.image) /\ MetaSound(job'.meta, job'.image)
<1>1. /\ ImageSound(image)' /\ MetaSound(meta, image)' /\ JobSound'
  BY DEF RewriteInv
<1>2. ASSUME job'.on PROVE ImageSound(job.image)' /\ MetaSound(job.meta, job.image)'
  BY <1>1, <1>2 DEF JobSound
<1>. QED  BY <1>1, <1>2, SoundNext

\* The ids of an insert are new, each of them once.
LEMMA InsertedApart ==
  ASSUME NEW old \in Seq(Row), NEW s \in 0 .. Len(old), NEW k \in Nat, NEW v \in Vec,
         NEW q \in [1 .. k -> Id], Injective(q),
         \A i \in 1 .. k : \A j \in DOMAIN old : old[j].id # q[i],
         \A i, j \in DOMAIN old : old[i].id = old[j].id => i = j,
         NEW img, img.rows = (IF s = 0 THEN old ELSE [old EXCEPT ![s].vec = v]) \o RowsOf(q, v)
  PROVE  IdsApart(img)
<1>. DEFINE over == IF s = 0 THEN old ELSE [old EXCEPT ![s].vec = v]
            n == Len(old)
            rows == over \o RowsOf(q, v)
<1>1. n \in Nat /\ DOMAIN old = 1 .. n /\ \A i \in 1 .. n : old[i] \in Row
  OBVIOUS
<1>2. \A r \in Row : DOMAIN r = {"id", "vec"}
  BY DEF Row
<1>3. DOMAIN over = 1 .. n /\ Len(over) = n /\ \A i \in 1 .. n : over[i].id = old[i].id
  <2>1. CASE s = 0
    BY <1>1, <2>1
  <2>2. CASE s # 0
    <3>. DEFINE r == [old[s] EXCEPT !.vec = v]
    <3>1. s \in 1 .. n
      BY <1>1, <2>2
    <3>2. r.id = old[s].id
      BY <1>1, <1>2, <3>1
    <3>3. over = [old EXCEPT ![s] = r]
      BY <2>2
    <3>. HIDE DEF r, over, n
    <3>4. DOMAIN over = 1 .. n /\ over[s] = r /\ \A i \in 1 .. n : i # s => over[i] = old[i]
      BY <1>1, <3>1, <3>3
    <3>5. Len(over) = n
      BY <1>1, <3>4
    <3>. QED  BY <3>2, <3>4, <3>5
  <2>. QED  BY <2>1, <2>2
<1>4. /\ DOMAIN RowsOf(q, v) = 1 .. k /\ Len(RowsOf(q, v)) = k
      /\ \A i \in 1 .. k : RowsOf(q, v)[i].id = q[i]
  BY DEF RowsOf
<1>. HIDE DEF over
<1>5. /\ DOMAIN rows = 1 .. n + k
      /\ \A i \in 1 .. n : rows[i].id = old[i].id
      /\ \A i \in n + 1 .. n + k : rows[i].id = q[i - n]
  <2>1. DOMAIN rows = 1 .. n + k
    <3>1. rows \in Seq(Row) /\ Len(rows) = n + k
      BY InsertedRows DEF over
    <3>. QED  BY <3>1
  <2>2. ASSUME NEW i \in 1 .. n PROVE rows[i].id = old[i].id
    <3>1. rows[i] = over[i]
      BY <1>1, <1>3, <1>4
    <3>. QED  BY <1>3, <3>1
  <2>3. ASSUME NEW i \in n + 1 .. n + k PROVE rows[i].id = q[i - n]
    <3>1. rows[i] = RowsOf(q, v)[i - n] /\ i - n \in 1 .. k
      BY <1>1, <1>3, <1>4
    <3>. QED  BY <1>4, <3>1
  <2>. QED  BY <2>1, <2>2, <2>3
<1>6. img.rows = rows
  BY DEF over
<1>. HIDE DEF n, rows
<1>7. ASSUME NEW i \in 1 .. n + k, NEW j \in 1 .. n + k, rows[i].id = rows[j].id
      PROVE  i = j
  <2>1. CASE i \in 1 .. n /\ j \in 1 .. n
    BY <1>1, <1>5, <1>7, <2>1
  <2>2. CASE i \in 1 .. n /\ j \in n + 1 .. n + k
    <3>1. j - n \in 1 .. k
      BY <1>1, <2>2
    <3>2. old[i].id = q[j - n]
      BY <1>5, <1>7, <2>2
    <3>. QED  BY <1>1, <2>2, <3>1, <3>2
  <2>3. CASE i \in n + 1 .. n + k /\ j \in 1 .. n
    <3>1. i - n \in 1 .. k
      BY <1>1, <2>3
    <3>2. old[j].id = q[i - n]
      BY <1>5, <1>7, <2>3
    <3>. QED  BY <1>1, <2>3, <3>1, <3>2
  <2>4. CASE i \in n + 1 .. n + k /\ j \in n + 1 .. n + k
    <3>1. i - n \in 1 .. k /\ j - n \in 1 .. k
      BY <1>1, <2>4
    <3>2. q[i - n] = q[j - n]
      BY <1>5, <1>7, <2>4
    <3>3. i - n = j - n
      BY <3>1, <3>2 DEF Injective
    <3>. QED  BY <1>1, <2>4, <3>3
  <2>. QED  BY <1>1, <2>1, <2>2, <2>3, <2>4
<1>. QED  BY <1>5, <1>6, <1>7 DEF IdsApart

\* What a rewrite that begins leaves alone, and what it is to write.
LEMMA BeginRewriteFacts ==
  ASSUME RewriteInv, RewriteInv', IdsApart(image), BeginRewrite
  PROVE  /\ Idle /\ kind' = kind /\ meta' = meta /\ image' = image /\ hurt' = hurt
         /\ job'.on = TRUE /\ job'.named = FALSE
         /\ \E blocks \in Nat : disk' = Extended(disk, blocks)
         /\ IdsApart(job'.image)
<1>1. kind \in Kinds /\ ImageSound(image) /\ image.rows \in Seq(Row)
  BY DEF RewriteInv, ImageSound, Image
<1>2. CASE \E s \in 0 .. Len(image.rows), k \in 0 .. 2, v \in Vec :
             \E q \in [1 .. k -> Fresh] : Injective(q) /\ Insert(s, q, v)
  <2>1. PICK s \in 0 .. Len(image.rows), k \in 0 .. 2, v \in Vec :
          \E q \in [1 .. k -> Fresh] : Injective(q) /\ Insert(s, q, v)
    BY <1>2
  <2>2. PICK q \in [1 .. k -> Fresh] : Injective(q) /\ Insert(s, q, v)
    BY <2>1
  <2>. DEFINE rows == (IF s = 0 THEN image.rows ELSE [image.rows EXCEPT ![s].vec = v])
                        \o RowsOf(q, v)
              cells == IF kind = "ivf" /\ DeltaWithinBound(image.cells, Len(rows))
                       THEN image.cells ELSE 0
              tomb == NewTomb(s, Len(rows))
              img == [rows |-> rows, tomb |-> tomb, cells |-> cells]
  <2>3. Idle /\ Rewrite(img)
    BY <2>2 DEF Insert
  <2>4. img.rows = rows
    <3>. HIDE DEF rows, cells, tomb
    <3>. QED  OBVIOUS
  <2>. HIDE DEF img
  <2>5. Begin(img, LayoutOf(img), TotalBlocks(LayoutOf(img)), AllWrites(img, LayoutOf(img)),
              <<>>, RewriteLimit(LayoutOf(img)))
    BY <2>3 DEF Rewrite
  <2>6. /\ job'.on = TRUE /\ job'.named = FALSE /\ job'.image = img
        /\ disk' = Extended(disk, TotalBlocks(LayoutOf(img)))
        /\ kind' = kind /\ meta' = meta /\ image' = image /\ hurt' = hurt
    BY <2>5, Begun
  <2>7. ImageSound(img)
    BY <2>6, JobNextSound
  <2>8. TotalBlocks(LayoutOf(img)) \in Nat
    BY <1>1, <2>7, LayoutOfSound
  <2>9. IdsApart(img)
    <3>. DEFINE old == image.rows
    <3>1. /\ q \in [1 .. k -> Id] /\ k \in Nat
          /\ \A i \in 1 .. k : \A j \in DOMAIN old : old[j].id # q[i]
      BY DEF Fresh
    <3>2. \A i, j \in DOMAIN old : old[i].id = old[j].id => i = j
      BY DEF IdsApart
    <3>3. /\ old \in Seq(Row) /\ s \in 0 .. Len(old)
          /\ img.rows = (IF s = 0 THEN old ELSE [old EXCEPT ![s].vec = v]) \o RowsOf(q, v)
      BY <1>1, <2>4
    <3>. HIDE DEF old, rows
    <3>. QED  BY <2>2, <3>1, <3>2, <3>3, InsertedApart
  <2>. QED  BY <2>3, <2>6, <2>8, <2>9
<1>3. CASE \E D \in SUBSET DOMAIN image.rows : VacuumTombstones(D)
  <2>1. PICK D \in SUBSET DOMAIN image.rows : VacuumTombstones(D)
    BY <1>3
  <2>. DEFINE n == Len(image.rows)
              bits == [i \in 1 .. n |-> i \in D \/ (i \in DOMAIN image.tomb /\ image.tomb[i])]
              img == [image EXCEPT !.tomb = bits]
              at == ResetTombstones(meta.at, PagesNeeded(n, PerPage["tomb"]))
              blocks == at["tomb"].first + at["tomb"].count
              writes == PageWrites(img, at, "tomb")
  <2>2. Idle /\ Begin(img, at, blocks, writes, <<>>, 0)
    BY <2>1 DEF VacuumTombstones
  <2>3. DOMAIN image = {"rows", "tomb", "cells"}
    BY <1>1 DEF ImageSound, Image
  <2>4. img.rows = image.rows
    <3>. HIDE DEF bits
    <3>. QED  BY <2>3
  <2>. HIDE DEF img, at, writes
  <2>5. /\ job'.on = TRUE /\ job'.named = FALSE /\ job'.image = img
        /\ job'.meta = MetaFor(img, at) /\ disk' = Extended(disk, blocks)
        /\ kind' = kind /\ meta' = meta /\ image' = image /\ hurt' = hurt
    BY <2>2, Begun
  <2>6. ImageSound(img) /\ MetaSound(MetaFor(img, at), img)
    BY <2>5, JobNextSound
  <2>7. MetaFor(img, at).at = at /\ "tomb" \in Chain
    BY DEF MetaFor, Chain
  <2>8. at["tomb"].first \in Nat /\ at["tomb"].count \in Nat
    BY <2>6, <2>7, MetaType
  <2>9. blocks \in Nat
    BY <2>8
  <2>10. IdsApart(img)
    BY <2>4 DEF IdsApart
  <2>. QED  BY <2>2, <2>5, <2>9, <2>10
<1>. QED  BY <1>2, <1>3 DEF BeginRewrite

-----------------------------------------------------------------------------
(* The copy of the index.                                                  *)

\* What is clean reads as the image.
LEMMA CleanReads ==
  ASSUME RewriteInv, Clean
  PROVE  Reads(disk, meta, image)
  BY DEF RewriteInv, FileSound, ImageReadable, Clean

\* A copy in the next state.
LEMMA CopyNext ==
  ASSUME kind' = kind,
         copy'.on /\ copy'.current /\ ~ hurt' =>
           /\ copy'.ids = Content(image')["ids"]
           /\ copy'.scales = Content(image')["scales"]
           /\ IF copy'.whole THEN copy'.codes = Content(image')["codes"]
              ELSE copy'.cells = image'.cells /\ copy'.at["codes"] = meta'.at["codes"]
  PROVE  CurrentCopyIsImage'
<1>1. Content(image)' = Content(image')
  BY ContentNext
<1>. QED  BY <1>1 DEF CurrentCopyIsImage

\* An install out of core in the next state.
LEMMA InstallNext ==
  ASSUME kind' = kind,
         scan'.pc \in Installing /\ ~ scan'.stale =>
           /\ scan'.hint = meta' /\ meta'.len["coarse"] > 0
           /\ Clean' /\ scan'.pc \in {"scales", "ids"} => scan'.dir = image'.cells
           /\ Clean' /\ scan'.pc = "ids" => scan'.scales = Content(image')["scales"]
  PROVE  InstallSound'
<1>1. Content(image)' = Content(image')
  BY ContentNext
<1>2. Installing' = Installing
  BY DEF Installing
<1>. QED  BY <1>1, <1>2 DEF InstallSound

\* The copy is of the image, and so is what an install has read.
CopiesKept ==
  /\ DOMAIN copy = DOMAIN NoCopy /\ DOMAIN scan = DOMAIN NoScan
  /\ CurrentCopyIsImage /\ InstallSound

\* They are left alone by what installs no copy and reads no chain.
LEMMA CopiesUntouched ==
  ASSUME CopiesKept, UNCHANGED vars, copy' = copy, DOMAIN scan' = DOMAIN NoScan,
         scan'.pc \in Installing /\ ~ scan'.stale =>
           /\ scan'.hint = meta /\ meta.len["coarse"] > 0
           /\ Clean /\ scan'.pc \in {"scales", "ids"} => scan'.dir = image.cells
           /\ Clean /\ scan'.pc = "ids" => scan'.scales = Content(image)["scales"]
  PROVE  CopiesKept'
<1>1. /\ kind' = kind /\ meta' = meta /\ image' = image /\ hurt' = hurt /\ Clean' = Clean
  BY SameFile
<1>2. CurrentCopyIsImage'
  BY <1>1, CopyNext DEF CopiesKept, CurrentCopyIsImage
<1>3. InstallSound'
  BY <1>1, InstallNext
<1>4. DOMAIN copy' = DOMAIN NoCopy' /\ DOMAIN scan' = DOMAIN NoScan'
  BY FieldsNext DEF CopiesKept
<1>. QED  BY <1>2, <1>3, <1>4 DEF CopiesKept

\* An ERROR ends the scan.
LEMMA FailKept ==
  ASSUME CopiesKept, UNCHANGED vars, Fail
  PROVE  CopiesKept'
<1>1. copy' = copy /\ scan' = NoScan
  BY DEF Fail
<1>2. scan'.pc \notin Installing /\ DOMAIN scan' = DOMAIN NoScan
  BY <1>1 DEF NoScan, Installing
<1>. QED  BY <1>1, <1>2, CopiesUntouched

\* The steps of a scan before it has a copy.
LEMMA InstallKept ==
  ASSUME RewriteInv, CopiesKept,
         BeginScan \/ BeginInstall \/ ReadCentroids \/ ReadDirectory \/ ReadScales
  PROVE  CopiesKept'
<1>1. UNCHANGED vars
  <2>1. ScanStep
    BY DEF ScanStep
  <2>. QED  BY <2>1, ScanKeepsFile
<1>2. /\ DOMAIN scan = {"pc", "hint", "dir", "scales", "mask", "stale", "calm", "wanted"}
      /\ DOMAIN scan = DOMAIN NoScan /\ InstallSound
  BY Fields DEF CopiesKept
<1>3. kind \in Kinds /\ ImageSound(image) /\ MetaSound(meta, image)
  BY DEF RewriteInv
<1>4. Clean => Reads(disk, meta, image)
  BY CleanReads
<1>5. CASE BeginScan
  <2>. DEFINE pc == IF copy.on /\ copy.current THEN "look" ELSE "install"
              calm == ~ hurt /\ (job.on => ~ job.risky \/ job.named)
              wanted == LiveRows(image) \cap
                          (IF job.on THEN LiveRows(job.image) ELSE LiveRows(image))
  <2>1. scan' = [NoScan EXCEPT !.pc = pc, !.calm = calm, !.wanted = wanted] /\ copy' = copy
    BY <1>5 DEF BeginScan
  <2>2. pc \in {"look", "install"}
    OBVIOUS
  <2>. HIDE DEF pc, calm, wanted
  <2>3. DOMAIN scan' = DOMAIN NoScan /\ scan'.pc = pc
    BY <2>1, Fields
  <2>4. scan'.pc \notin Installing
    BY <2>2, <2>3 DEF Installing
  <2>. QED  BY <1>1, <2>1, <2>3, <2>4, CopiesUntouched
<1>6. CASE BeginInstall
  <2>1. PICK pc \in {"coarse", "whole"} :
          /\ pc = "coarse" => meta.len["coarse"] > 0
          /\ scan' = [scan EXCEPT !.pc = pc, !.hint = meta]
    BY <1>6 DEF BeginInstall
  <2>2. copy' = copy
    BY <1>6 DEF BeginInstall
  <2>3. DOMAIN scan' = DOMAIN NoScan /\ scan'.pc = pc /\ scan'.hint = meta
    BY <1>2, <2>1
  <2>. QED  BY <1>1, <2>1, <2>2, <2>3, CopiesUntouched DEF Installing
<1>7. CASE ReadCentroids
  <2>1. CASE Fail
    BY <1>1, <2>1, FailKept
  <2>2. CASE ~ Fail
    <3>1. scan' = [scan EXCEPT !.pc = "dir"] /\ copy' = copy /\ scan.pc = "coarse"
      BY <1>7, <2>2 DEF ReadCentroids
    <3>2. /\ DOMAIN scan' = DOMAIN NoScan /\ scan'.pc = "dir"
          /\ scan'.hint = scan.hint /\ scan'.stale = scan.stale
      BY <1>2, <3>1
    <3>. QED  BY <1>1, <1>2, <3>1, <3>2, CopiesUntouched DEF Installing, InstallSound
  <2>. QED  BY <2>1, <2>2
<1>8. CASE ReadDirectory
  <2>1. CASE Fail
    BY <1>1, <2>1, FailKept
  <2>2. CASE ~ Fail
    <3>. DEFINE n == scan.hint.len["codes"]
    <3>1. PICK rows \in DirectoryRows(scan.hint, n + 1) :
            /\ scan' = [scan EXCEPT !.pc = IF rows > n THEN "whole" ELSE "scales",
                                    !.dir = rows]
            /\ copy' = copy /\ scan.pc = "dir"
      BY <1>8, <2>2 DEF ReadDirectory
    <3>2. /\ DOMAIN scan' = DOMAIN NoScan /\ scan'.pc \in {"whole", "scales"}
          /\ scan'.hint = scan.hint /\ scan'.stale = scan.stale /\ scan'.dir = rows
      BY <1>2, <3>1
    <3>3. ASSUME ~ scan.stale, Clean PROVE rows = image.cells
      <4>1. scan.hint = meta /\ meta.len["coarse"] > 0
        BY <1>2, <3>1, <3>3 DEF Installing, InstallSound
      <4>2. \A i \in 1 .. meta.len["dir"] :
              HasItem(disk, meta.at, "dir", i, Content(image)["dir"][i])
        BY <1>4, <3>3 DEF Reads, Chain
      <4>3. DirectoryRows(meta, n + 1) = {image.cells}
        BY <1>3, <4>1, <4>2, DirectoryRead
      <4>. QED  BY <3>1, <4>1, <4>3
    <3>4. scan.pc \in Installing
      BY <3>1 DEF Installing
    <3>. HIDE DEF n
    <3>. QED  BY <1>1, <1>2, <3>1, <3>2, <3>3, <3>4, CopiesUntouched DEF InstallSound
  <2>. QED  BY <2>1, <2>2
<1>9. CASE ReadScales
  <2>1. CASE Fail
    BY <1>1, <2>1, FailKept
  <2>2. CASE ~ Fail
    <3>. DEFINE scales == Chunk(scan.hint, "scales")
    <3>1. /\ scan' = [scan EXCEPT !.pc = "ids", !.scales = scales]
          /\ copy' = copy /\ scan.pc = "scales"
      BY <1>9, <2>2 DEF ReadScales
    <3>2. ASSUME ~ scan.stale, Clean PROVE scales = Content(image)["scales"]
      <4>1. scan.hint = meta
        BY <1>2, <3>1, <3>2 DEF Installing, InstallSound
      <4>2. \A i \in 1 .. meta.len["scales"] :
              HasItem(disk, meta.at, "scales", i, Content(image)["scales"][i])
        BY <1>4, <3>2 DEF Reads, Chain
      <4>. QED  BY <1>3, <4>1, <4>2, ColumnsRead
    <3>. HIDE DEF scales
    <3>3. /\ DOMAIN scan' = DOMAIN NoScan /\ scan'.pc = "ids" /\ scan'.scales = scales
          /\ scan'.hint = scan.hint /\ scan'.stale = scan.stale /\ scan'.dir = scan.dir
      BY <1>2, <3>1
    <3>4. scan.pc \in Installing /\ scan.pc \in {"scales", "ids"}
      BY <3>1 DEF Installing
    <3>. QED  BY <1>1, <1>2, <3>1, <3>2, <3>3, <3>4, CopiesUntouched DEF InstallSound
  <2>. QED  BY <2>1, <2>2
<1>. QED  BY <1>5, <1>6, <1>7, <1>8, <1>9

\* The installation: the lock keeps rewrites away, so that what is not hurt is
\* clean.
LEMMA InstalledKept ==
  ASSUME RewriteInv, CopiesKept, ReadIds \/ InstallWhole
  PROVE  CopiesKept'
<1>1. UNCHANGED vars
  <2>1. ScanStep
    BY DEF ScanStep
  <2>. QED  BY <2>1, ScanKeepsFile
<1>2. /\ DOMAIN scan = {"pc", "hint", "dir", "scales", "mask", "stale", "calm", "wanted"}
      /\ DOMAIN scan = DOMAIN NoScan /\ InstallSound /\ DOMAIN copy = DOMAIN NoCopy
  BY Fields DEF CopiesKept
<1>3. kind \in Kinds /\ ImageSound(image) /\ MetaSound(meta, image)
  BY DEF RewriteInv
<1>4. ~ job.on
  BY DEF ReadIds, InstallWhole, Unlocked
<1>5. ASSUME ~ hurt
      PROVE  /\ Clean
             /\ \A c \in {"codes", "scales", "ids"} : Chunk(meta, c) = Content(image)[c]
  <2>1. Clean
    BY <1>4, <1>5 DEF Clean
  <2>2. Reads(disk, meta, image)
    BY <2>1, CleanReads
  <2>3. \A c \in {"codes", "scales", "ids"} : \A i \in 1 .. meta.len[c] :
          HasItem(disk, meta.at, c, i, Content(image)[c][i])
    BY <2>2 DEF Reads, Chain
  <2>. QED  BY <1>3, <2>1, <2>3, ColumnsRead
<1>6. /\ kind' = kind /\ meta' = meta /\ image' = image /\ hurt' = hurt
  BY <1>1, SameFile
<1>7. CASE ReadIds /\ meta.len["ids"] # scan.hint.len["ids"]
  <2>1. scan' = [scan EXCEPT !.pc = "whole"] /\ copy' = copy
    BY <1>7 DEF ReadIds
  <2>2. scan'.pc = "whole" /\ DOMAIN scan' = DOMAIN NoScan
    BY <1>2, <2>1
  <2>. QED  BY <1>1, <2>1, <2>2, CopiesUntouched DEF Installing
<1>8. CASE ReadIds /\ meta.len["ids"] = scan.hint.len["ids"]
  <2>. DEFINE ids == Chunk(meta, "ids")
  <2>1. /\ copy' = [on |-> TRUE, current |-> KeyIsCurrent, whole |-> FALSE,
                    at |-> scan.hint.at, codes |-> <<>>, scales |-> scan.scales,
                    ids |-> ids, cells |-> scan.dir]
        /\ scan' = [scan EXCEPT !.pc = "look"] /\ scan.pc = "ids"
    BY <1>8 DEF ReadIds
  <2>2. scan'.pc = "look" /\ DOMAIN scan' = DOMAIN NoScan
    BY <1>2, <2>1
  <2>3. ASSUME ~ hurt PROVE ids = Content(image)["ids"]
    BY <1>5, <2>3
  <2>. HIDE DEF ids
  <2>4. /\ DOMAIN copy' = DOMAIN NoCopy
        /\ copy'.current = KeyIsCurrent /\ copy'.whole = FALSE /\ copy'.at = scan.hint.at
        /\ copy'.scales = scan.scales /\ copy'.ids = ids /\ copy'.cells = scan.dir
    <3>. HIDE DEF KeyIsCurrent
    <3>. QED  BY <2>1, Fields
  <2>5. ASSUME copy'.current, ~ hurt
        PROVE  /\ copy'.ids = Content(image)["ids"]
               /\ copy'.scales = Content(image)["scales"]
               /\ copy'.cells = image.cells /\ copy'.at["codes"] = meta.at["codes"]
    <3>1. ~ scan.stale
      BY <2>4, <2>5 DEF KeyIsCurrent
    <3>2. /\ scan.hint = meta /\ scan.dir = image.cells
          /\ scan.scales = Content(image)["scales"]
      BY <1>2, <1>5, <2>1, <2>5, <3>1 DEF InstallSound, Installing
    <3>. QED  BY <2>3, <2>4, <2>5, <3>2
  <2>6. CurrentCopyIsImage'
    BY <1>6, <2>4, <2>5, CopyNext
  <2>7. InstallSound'
    BY <1>6, <2>2, InstallNext DEF Installing
  <2>. QED  BY <2>2, <2>4, <2>6, <2>7, FieldsNext DEF CopiesKept
<1>9. CASE InstallWhole
  <2>. DEFINE ids == Chunk(meta, "ids")
              codes == Chunk(meta, "codes")
              scales == Chunk(meta, "scales")
              current == KeyIsCurrent
  <2>1. /\ copy' = [on |-> TRUE, current |-> current, whole |-> TRUE, at |-> meta.at,
                    codes |-> codes, scales |-> scales, ids |-> ids, cells |-> 0]
        /\ scan' = [scan EXCEPT !.pc = "look"]
    BY <1>9 DEF InstallWhole, FullCopy
  <2>2. scan'.pc = "look" /\ DOMAIN scan' = DOMAIN NoScan
    BY <1>2, <2>1
  <2>3. ~ hurt => /\ ids = Content(image)["ids"] /\ codes = Content(image)["codes"]
                  /\ scales = Content(image)["scales"]
    BY <1>5
  <2>. HIDE DEF ids, codes, scales, current
  <2>4. /\ DOMAIN copy' = DOMAIN NoCopy
        /\ copy'.whole = TRUE /\ copy'.codes = codes
        /\ copy'.scales = scales /\ copy'.ids = ids
    BY <2>1, Fields
  <2>5. CurrentCopyIsImage'
    BY <1>6, <2>3, <2>4, CopyNext
  <2>6. InstallSound'
    BY <1>6, <2>2, InstallNext DEF Installing
  <2>. QED  BY <2>2, <2>4, <2>5, <2>6, FieldsNext DEF CopiesKept
<1>. QED  BY <1>7, <1>8, <1>9

\* The search.
LEMMA SearchKept ==
  ASSUME CopiesKept, ReadMetaAgain \/ ReadTombstones \/ Search
  PROVE  CopiesKept'
<1>1. UNCHANGED vars
  <2>1. ScanStep
    BY DEF ScanStep
  <2>. QED  BY <2>1, ScanKeepsFile
<1>2. /\ DOMAIN scan = {"pc", "hint", "dir", "scales", "mask", "stale", "calm", "wanted"}
      /\ DOMAIN scan = DOMAIN NoScan
  BY Fields DEF CopiesKept
<1>3. ASSUME DOMAIN scan' = DOMAIN NoScan, scan'.pc \notin Installing, copy' = copy
      PROVE  CopiesKept'
  BY <1>1, <1>3, CopiesUntouched
<1>4. CASE ReadMetaAgain
  <2>1. scan' = [scan EXCEPT !.pc = "tomb", !.hint = meta] /\ copy' = copy
    BY <1>4 DEF ReadMetaAgain
  <2>2. scan'.pc = "tomb" /\ DOMAIN scan' = DOMAIN NoScan
    BY <1>2, <2>1
  <2>. QED  BY <1>3, <2>1, <2>2 DEF Installing
<1>5. CASE Fail
  BY <1>1, <1>5, FailKept
<1>6. CASE ReadTombstones /\ ~ Fail
  <2>1. copy' = copy /\ \E mask : scan' = [scan EXCEPT !.pc = "search", !.mask = mask]
    BY <1>6 DEF ReadTombstones
  <2>2. PICK mask : scan' = [scan EXCEPT !.pc = "search", !.mask = mask]
    BY <2>1
  <2>3. scan'.pc = "search" /\ DOMAIN scan' = DOMAIN NoScan
    BY <1>2, <2>2
  <2>. QED  BY <1>3, <2>1, <2>3 DEF Installing
<1>7. CASE Search /\ ~ Fail
  <2>1. copy' = copy /\ scan' = NoScan
    BY <1>7 DEF Search
  <2>2. scan'.pc = "none" /\ DOMAIN scan' = DOMAIN NoScan
    BY <2>1 DEF NoScan
  <2>. QED  BY <1>3, <2>1, <2>2 DEF Installing
<1>. QED  BY <1>4, <1>5, <1>6, <1>7

\* A step of a rewrite, before which the file was clean if it is afterwards; a
\* new meta page makes both stale.
LEMMA WriterKept ==
  ASSUME RewriteInv, RewriteInv', CopiesKept, IdsApart(image),
         BeginRewrite \/ Rename \/ NewFile \/ (RewriteStep /\ UNCHANGED rvars)
  PROVE  CopiesKept'
<1>1. /\ DOMAIN scan = {"pc", "hint", "dir", "scales", "mask", "stale", "calm", "wanted"}
      /\ DOMAIN copy = {"on", "current", "whole", "at", "codes", "scales", "ids", "cells"}
      /\ DOMAIN scan = DOMAIN NoScan /\ DOMAIN copy = DOMAIN NoCopy
      /\ CurrentCopyIsImage /\ InstallSound
  BY Fields DEF CopiesKept
<1>2. ASSUME kind' = kind, meta' = meta, image' = image, hurt' \/ hurt' = hurt, Clean' => Clean,
             copy' = copy, DOMAIN scan' = DOMAIN NoScan, scan'.pc = scan.pc,
             scan'.stale = scan.stale, scan'.hint = scan.hint, scan'.dir = scan.dir,
             scan'.scales = scan.scales
      PROVE  CopiesKept'
  <2>1. CurrentCopyIsImage'
    BY <1>1, <1>2, CopyNext DEF CurrentCopyIsImage
  <2>2. InstallSound'
    BY <1>1, <1>2, InstallNext DEF InstallSound
  <2>. QED  BY <1>1, <1>2, <2>1, <2>2, FieldsNext DEF CopiesKept
<1>3. JobSound /\ TypeOK
  BY DEF RewriteInv, FileSound
<1>4. CASE BeginRewrite
  <2>. DEFINE calm == scan.calm /\ ~ Disturbs
              wanted == scan.wanted \cap LiveRows(job'.image)
  <2>1. scan' = [scan EXCEPT !.calm = calm, !.wanted = wanted] /\ copy' = copy
    BY <1>4 DEF BeginRewrite
  <2>. HIDE DEF calm, wanted
  <2>2. /\ DOMAIN scan' = DOMAIN NoScan /\ scan'.pc = scan.pc
        /\ scan'.stale = scan.stale /\ scan'.hint = scan.hint /\ scan'.dir = scan.dir
        /\ scan'.scales = scan.scales
    BY <1>1, <2>1
  <2>3. /\ Idle /\ kind' = kind /\ meta' = meta /\ image' = image /\ hurt' = hurt
        /\ job'.on = TRUE /\ job'.named = FALSE
    BY <1>4, BeginRewriteFacts
  <2>4. Clean' => Clean
    BY <2>3 DEF Clean, Idle
  <2>. QED  BY <1>2, <2>1, <2>2, <2>3, <2>4
<1>5. CASE Rename
  <2>. DEFINE stale == scan.pc # "none"
  <2>1. /\ scan' = [scan EXCEPT !.stale = stale] /\ copy' = [copy EXCEPT !.current = FALSE]
        /\ kind' = kind
    BY <1>5 DEF Rename, WriteMeta
  <2>2. stale \/ scan.pc \notin Installing
    BY DEF Installing
  <2>. HIDE DEF stale
  <2>3. scan'.stale \/ scan'.pc \notin Installing
    BY <1>1, <2>1, <2>2
  <2>4. copy'.current = FALSE /\ DOMAIN copy' = DOMAIN NoCopy /\ DOMAIN scan' = DOMAIN NoScan
    BY <1>1, <2>1
  <2>5. CurrentCopyIsImage'
    BY <2>1, <2>4, CopyNext
  <2>6. InstallSound'
    BY <2>1, <2>3, InstallNext
  <2>. QED  BY <2>4, <2>5, <2>6, FieldsNext DEF CopiesKept
<1>6. CASE NewFile
  <2>1. /\ scan' = scan /\ copy' = [copy EXCEPT !.current = FALSE] /\ scan.pc = "none"
        /\ kind' = kind
    BY <1>6 DEF NewFile, Reindex
  <2>2. copy'.current = FALSE /\ DOMAIN copy' = DOMAIN NoCopy
    BY <1>1, <2>1
  <2>3. CurrentCopyIsImage'
    BY <2>1, <2>2, CopyNext
  <2>4. InstallSound'
    BY <2>1, InstallNext DEF Installing
  <2>. QED  BY <1>1, <2>1, <2>2, <2>3, <2>4, FieldsNext DEF CopiesKept
<1>7. CASE WritePage /\ UNCHANGED rvars
  <2>1. /\ kind' = kind /\ meta' = meta /\ image' = image /\ hurt' = hurt
        /\ job' = [job EXCEPT !.writes = Tail(job.writes)] /\ job.writes # <<>>
        /\ scan' = scan /\ copy' = copy
    BY <1>7 DEF WritePage, rvars
  <2>2. job.on
    BY <1>3, <2>1, NothingToDo
  <2>3. DOMAIN job = {"on", "writes", "copies", "meta", "image", "limit", "risky", "named"}
    BY <1>3, <2>2, JobFields
  <2>4. job'.on = job.on /\ job'.named = job.named /\ job'.risky = job.risky
    <3>. DEFINE rest == Tail(job.writes)
    <3>. HIDE DEF rest
    <3>1. job' = [job EXCEPT !.writes = rest]
      BY <2>1 DEF rest
    <3>. QED  BY <2>3, <3>1
  <2>5. Clean' => Clean
    BY <2>1, <2>4 DEF Clean
  <2>. QED  BY <1>1, <1>2, <2>1, <2>5
<1>8. CASE Finish /\ UNCHANGED rvars
  <2>1. /\ kind' = kind /\ meta' = meta /\ image' = image /\ hurt' = hurt
        /\ job.on /\ job.named /\ scan' = scan /\ copy' = copy
    BY <1>8 DEF Finish, rvars
  <2>2. Clean
    BY <2>1 DEF Clean
  <2>. QED  BY <1>1, <1>2, <2>1, <2>2
<1>9. CASE Stop /\ UNCHANGED rvars
  <2>1. /\ kind' = kind /\ meta' = meta /\ image' = image /\ job.on
        /\ hurt' = (hurt \/ (job.risky /\ ~ job.named)) /\ job' = NoJob
        /\ scan' = scan /\ copy' = copy
    BY <1>9 DEF Stop, rvars
  <2>2. job'.on = FALSE
    BY <2>1 DEF NoJob
  <2>3. Clean' => Clean
    BY <2>1, <2>2 DEF Clean
  <2>4. hurt' \/ hurt' = hurt
    BY <1>3, <2>1 DEF TypeOK
  <2>. QED  BY <1>1, <1>2, <2>1, <2>3, <2>4
<1>. QED  BY <1>4, <1>5, <1>6, <1>7, <1>8, <1>9 DEF RewriteStep

\* Every step.
LEMMA NextCopiesKept ==
  ASSUME RewriteInv, RewriteInv', CopiesKept, IdsApart(image), [ReadersNext]_allVars
  PROVE  CopiesKept'
<1>1. CASE UNCHANGED allVars
  <2>1. /\ kind' = kind /\ meta' = meta /\ disk' = disk /\ image' = image /\ job' = job
        /\ hurt' = hurt /\ jobs' = jobs /\ scan' = scan /\ copy' = copy
    BY <1>1 DEF allVars
  <2>2. UNCHANGED vars
    BY <2>1 DEF vars
  <2>. QED  BY <2>1, <2>2, CopiesUntouched DEF CopiesKept, InstallSound
<1>2. CASE ScanStep
  BY <1>2, InstallKept, InstalledKept, SearchKept DEF ScanStep
<1>. QED  BY <1>1, <1>2, WriterKept DEF ReadersNext

-----------------------------------------------------------------------------
(* The other steps of a rewrite.                                           *)

\* A page is written.
LEMMA PageWritten ==
  ASSUME RewriteInv, WritePage
  PROVE  /\ job.on = TRUE /\ ~ job.named /\ job'.on = TRUE /\ job'.named = job.named
         /\ job'.meta = job.meta /\ job'.image = job.image
         /\ kind' = kind /\ meta' = meta /\ image' = image /\ hurt' = hurt
         /\ ImageSound(job.image) /\ MetaSound(job.meta, job.image)
<1>. DEFINE rest == Tail(job.writes)
<1>1. /\ job.writes # <<>> /\ job' = [job EXCEPT !.writes = rest]
      /\ kind' = kind /\ meta' = meta /\ image' = image /\ hurt' = hurt
  BY DEF WritePage
<1>. HIDE DEF rest
<1>2. JobSound
  BY DEF RewriteInv
<1>3. job.on
  BY <1>1, <1>2, NothingToDo
<1>4. /\ DOMAIN job = {"on", "writes", "copies", "meta", "image", "limit", "risky", "named"}
      /\ job.on = TRUE
  BY <1>2, <1>3, JobFields
<1>5. /\ job'.on = job.on /\ job'.named = job.named
      /\ job'.meta = job.meta /\ job'.image = job.image
  BY <1>1, <1>4
<1>6. ~ job.named /\ ImageSound(job.image) /\ MetaSound(job.meta, job.image)
  BY <1>1, <1>2, <1>3 DEF JobSound, Named
<1>. QED  BY <1>1, <1>4, <1>5, <1>6

\* The meta page is written, when everything it names is.
LEMMA MetaWritten ==
  ASSUME RewriteInv, WriteMeta
  PROVE  /\ job.on /\ meta' = job.meta /\ image' = job.image
         /\ job'.on = TRUE /\ job'.meta = job.meta /\ job'.image = job.image
         /\ kind' = kind /\ disk' = disk
         /\ ImageSound(job.image) /\ MetaSound(job.meta, job.image)
         /\ \A c \in Chain : \A i \in 1 .. job.meta.len[c] :
              HasItem(disk, job.meta.at, c, i, Content(job.image)[c][i])
<1>1. /\ job.on /\ ~ job.named /\ job.writes = <<>> /\ job.copies = <<>>
      /\ meta' = job.meta /\ image' = job.image /\ job' = [job EXCEPT !.named = TRUE]
      /\ kind' = kind /\ disk' = disk
  BY DEF WriteMeta, ChainsWritten
<1>2. JobSound
  BY DEF RewriteInv
<1>3. /\ DOMAIN job = {"on", "writes", "copies", "meta", "image", "limit", "risky", "named"}
      /\ job.on = TRUE
  BY <1>1, <1>2, JobFields
<1>4. job'.on = TRUE /\ job'.meta = job.meta /\ job'.image = job.image
  BY <1>1, <1>3
<1>5. ImageSound(job.image) /\ MetaSound(job.meta, job.image) /\ Underway
  BY <1>1, <1>2 DEF JobSound
<1>6. WritesSound(<<>>, disk, job.meta, job.image)
  BY <1>1, <1>5 DEF Underway
<1>7. DOMAIN <<>> = {}
  OBVIOUS
<1>8. \A c \in Chain : \A i \in 1 .. job.meta.len[c] :
        HasItem(disk, job.meta.at, c, i, Content(job.image)[c][i])
  BY <1>6, <1>7 DEF WritesSound
<1>. QED  BY <1>1, <1>4, <1>5, <1>8

\* The rewrite ends.
LEMMA RewriteEnds ==
  ASSUME Finish \/ Stop
  PROVE  /\ job.on /\ job'.on = FALSE
         /\ kind' = kind /\ meta' = meta /\ image' = image
<1>1. job' = NoJob /\ job.on /\ kind' = kind /\ meta' = meta /\ image' = image
  BY DEF Finish, Stop
<1>. QED  BY <1>1 DEF NoJob

-----------------------------------------------------------------------------
(* A heap TID is in one row.                                               *)

\* In the image of now and in the one that is being written.
AllApart == IdsApart(image) /\ (job.on => IdsApart(job.image))

\* The rows of an index build are those of a list without repetition.
LEMMA BuiltApart ==
  ASSUME NEW n \in Nat, NEW rows, DOMAIN rows = 1 .. n,
         \A i, j \in 1 .. n : rows[i].id = rows[j].id => i = j
  PROVE  IdsApart(Built(rows))
<1>1. Built(rows).rows = rows
  BY DEF Built
<1>. QED  BY <1>1 DEF IdsApart

\* An index build takes every row once.
LEMMA InitApart == Init => AllApart
<1>1. SUFFICES ASSUME Init PROVE AllApart
  OBVIOUS
<1>2. PICK n \in {0, 2, 3}, v \in Vec : \E q \in [1 .. n -> Id] :
        Injective(q) /\ image = Built(RowsOf(q, v))
  BY <1>1 DEF Init
<1>3. PICK q \in [1 .. n -> Id] : Injective(q) /\ image = Built(RowsOf(q, v))
  BY <1>2
<1>4. DOMAIN RowsOf(q, v) = 1 .. n /\ \A i \in 1 .. n : RowsOf(q, v)[i].id = q[i]
  BY DEF RowsOf
<1>5. \A i, j \in 1 .. n : RowsOf(q, v)[i].id = RowsOf(q, v)[j].id => i = j
  BY <1>3, <1>4 DEF Injective
<1>6. IdsApart(image)
  BY <1>3, <1>4, <1>5, BuiltApart
<1>7. job.on = FALSE
  BY <1>1 DEF Init, NoJob
<1>. QED  BY <1>6, <1>7 DEF AllApart

\* REINDEX takes every live row once.
LEMMA ReindexApart ==
  ASSUME RewriteInv, AllApart, Reindex
  PROVE  AllApart'
<1>. DEFINE n == Len(image.rows)
            live == {i \in DOMAIN image.rows : ~ (i \in DOMAIN image.tomb /\ image.tomb[i])}
            k == Cardinality(live)
            q == InOrder(live)
            rows == [j \in 1 .. k |-> image.rows[q[j]]]
<1>1. ~ job.on /\ image' = Built(rows) /\ job' = job /\ kind' = kind
  BY DEF Reindex
<1>2. image.rows \in Seq(Row)
  BY DEF RewriteInv, ImageSound, Image
<1>3. n \in Nat /\ DOMAIN image.rows = 1 .. n /\ live \subseteq 1 .. n
  BY <1>2
<1>. HIDE DEF n, live
<1>4. /\ k \in Nat /\ q \in [1 .. k -> live]
      /\ \A i, j \in 1 .. k : i < j => q[i] < q[j]
  BY <1>3, InOrderList
<1>. HIDE DEF q, k
<1>5. \A i, j \in 1 .. k : q[i] = q[j] => i = j
  <2>1. ASSUME NEW i \in 1 .. k PROVE q[i] \in Nat
    <3>1. live \subseteq 1 .. n /\ n \in Nat
      BY <1>3
    <3>2. q[i] \in 1 .. n
      BY <1>4, <3>1, Zenon
    <3>. QED  BY <3>1, <3>2
  <2>2. ASSUME NEW i \in 1 .. k, NEW j \in 1 .. k, q[i] = q[j], i # j
        PROVE  FALSE
    <3>1. i < j \/ j < i
      BY <1>4, <2>2
    <3>2. q[i] < q[j] \/ q[j] < q[i]
      BY <1>4, <3>1
    <3>. QED  BY <2>1, <2>2, <3>2
  <2>. QED  BY <2>2
<1>6. \A i, j \in 1 .. k : rows[i].id = rows[j].id => i = j
  <2>1. \A i \in 1 .. k : q[i] \in DOMAIN image.rows
    BY <1>3, <1>4
  <2>. QED  BY <1>5, <2>1 DEF AllApart, IdsApart
<1>7. DOMAIN rows = 1 .. k
  OBVIOUS
<1>. HIDE DEF rows
<1>8. IdsApart(image')
  BY <1>1, <1>4, <1>6, <1>7, BuiltApart
<1>. QED  BY <1>1, <1>8 DEF AllApart, IdsApart

\* Every step.
LEMMA NextApart ==
  ASSUME RewriteInv, RewriteInv', AllApart, [ReadersNext]_allVars
  PROVE  AllApart'
<1>1. ASSUME image' = image, job'.on => (job.on /\ job'.image = job.image)
      PROVE  AllApart'
  BY <1>1 DEF AllApart, IdsApart
<1>2. CASE ScanStep \/ UNCHANGED allVars
  <2>1. image' = image /\ job' = job
    BY <1>2, ScanKeepsFile DEF allVars, vars
  <2>. QED  BY <1>1, <2>1
<1>3. CASE BeginRewrite
  <2>1. image' = image /\ IdsApart(job'.image)
    BY <1>3, BeginRewriteFacts DEF AllApart
  <2>. QED  BY <2>1 DEF AllApart, IdsApart
<1>4. CASE Rename
  <2>1. job.on /\ image' = job.image /\ job'.image = job.image
    BY <1>4, MetaWritten DEF Rename
  <2>. QED  BY <2>1 DEF AllApart, IdsApart
<1>5. CASE NewFile
  BY <1>5, ReindexApart DEF NewFile
<1>6. CASE WritePage
  BY <1>1, <1>6, PageWritten
<1>7. CASE Finish \/ Stop
  BY <1>1, <1>7, RewriteEnds
<1>. QED  BY <1>2, <1>3, <1>4, <1>5, <1>6, <1>7 DEF ReadersNext, RewriteStep

-----------------------------------------------------------------------------
(* What a calm scan reads, while rewrites go on.                           *)

\* An image and its meta page that have only grown by more rows or tombstones.
GrownTo(m, img) ==
  /\ Within(meta, m)
  /\ \A c \in Chain \ {"tomb"} : meta.len[c] > 0 =>
       IsPrefix(Content(image)[c], Content(img)[c])

\* What is in a prefix is in the whole.
LEMMA PrefixItems ==
  ASSUME NEW old \in Seq(Item), NEW new \in Seq(Item), IsPrefix(old, new)
  PROVE  Len(old) <= Len(new) /\ \A i \in 1 .. Len(old) : old[i] = new[i]
<1>1. /\ Len(old) <= Len(new) /\ SubSeq(old, 1, Len(old)) = SubSeq(new, 1, Len(old))
      /\ Len(old) \in Nat /\ Len(new) \in Nat
  BY DEF IsPrefix
<1>2. ASSUME NEW i \in 1 .. Len(old) PROVE old[i] = new[i]
  <2>1. SubSeq(old, 1, Len(old))[i] = old[i]
    BY <1>1
  <2>2. SubSeq(new, 1, Len(old))[i] = new[i]
    BY <1>1
  <2>. QED  BY <1>1, <2>1, <2>2
<1>. QED  BY <1>1, <1>2

\* An item keeps its place and its value.
LEMMA GrownItem ==
  ASSUME ImageSound(image), MetaSound(meta, image), NEW m, NEW img,
         ImageSound(img), MetaSound(m, img), GrownTo(m, img),
         NEW c \in Chain \ {"tomb"}, NEW i \in 1 .. meta.len[c]
  PROVE  /\ i \in 1 .. m.len[c] /\ m.at[c].first = meta.at[c].first
         /\ Content(img)[c][i] = Content(image)[c][i]
<1>1. /\ meta.len[c] = Len(Content(image)[c]) /\ meta.len[c] \in Nat
      /\ m.len[c] = Len(Content(img)[c]) /\ m.len[c] \in Nat
  BY MetaType
<1>2. meta.len[c] > 0
  BY <1>1
<1>3. m.at[c].first = meta.at[c].first /\ IsPrefix(Content(image)[c], Content(img)[c])
  BY <1>2 DEF GrownTo, Within
<1>4. Content(image)[c] \in Seq(Item) /\ Content(img)[c] \in Seq(Item)
  BY ContentType DEF ImageSound
<1>5. /\ Len(Content(image)[c]) <= Len(Content(img)[c])
      /\ \A j \in 1 .. Len(Content(image)[c]) : Content(image)[c][j] = Content(img)[c][j]
  BY <1>3, <1>4, PrefixItems
<1>. QED  BY <1>1, <1>3, <1>5

\* A row keeps its slot.
LEMMA GrownRows ==
  ASSUME kind \in Kinds, ImageSound(image), MetaSound(meta, image), NEW m, NEW img,
         ImageSound(img), MetaSound(m, img), GrownTo(m, img)
  PROVE  /\ Len(image.rows) \in Nat /\ Len(img.rows) \in Nat
         /\ Len(image.rows) <= Len(img.rows)
         /\ \A i \in DOMAIN image.rows : i \in DOMAIN img.rows /\ img.rows[i] = image.rows[i]
<1>. DEFINE n == Len(image.rows)
            k == Len(img.rows)
<1>1. /\ n \in Nat /\ image.rows \in Seq(Row) /\ DOMAIN image.rows = 1 .. n
      /\ Content(image)["codes"] = [i \in 1 .. n |-> image.rows[i].vec]
      /\ Content(image)["ids"] = [i \in 1 .. n |-> image.rows[i].id]
  BY IvfContent
<1>2. /\ k \in Nat /\ img.rows \in Seq(Row) /\ DOMAIN img.rows = 1 .. k
      /\ Content(img)["codes"] = [i \in 1 .. k |-> img.rows[i].vec]
      /\ Content(img)["ids"] = [i \in 1 .. k |-> img.rows[i].id]
  BY IvfContent
<1>3. /\ meta.len["codes"] = n /\ meta.len["ids"] = n /\ m.len["codes"] = k /\ m.len["ids"] = k
  BY IvfMeta
<1>. HIDE DEF n, k
<1>4. ASSUME NEW i \in 1 .. n PROVE i \in 1 .. k /\ img.rows[i] = image.rows[i]
  <2>1. /\ i \in 1 .. k
        /\ Content(img)["codes"][i] = Content(image)["codes"][i]
        /\ Content(img)["ids"][i] = Content(image)["ids"][i]
    BY <1>3, GrownItem DEF Chain
  <2>2. img.rows[i].vec = image.rows[i].vec /\ img.rows[i].id = image.rows[i].id
    BY <1>1, <1>2, <2>1
  <2>3. img.rows[i] \in Row /\ image.rows[i] \in Row
    BY <1>1, <1>2, <2>1
  <2>. QED  BY <2>1, <2>2, <2>3 DEF Row
<1>5. n <= k
  <2>1. CASE n = 0
    BY <1>2, <2>1
  <2>2. CASE n > 0
    <3>1. n \in 1 .. n
      BY <1>1, <2>2
    <3>. QED  BY <1>2, <1>4, <3>1
  <2>. QED  BY <1>1, <2>1, <2>2
<1>. QED  BY <1>1, <1>2, <1>4, <1>5 DEF n, k

\* What was within the old meta page is within the new one.
LEMMA WithinMore ==
  ASSUME NEW h, h.len \in [Chain -> Nat], Within(h, meta), Within(meta, meta'),
         \A c \in Chain : meta.len[c] \in Nat /\ meta'.len[c] \in Nat
  PROVE  Within(h, meta')
<1>1. SUFFICES ASSUME NEW c \in Chain, h.len[c] > 0
               PROVE  h.at[c].first = meta'.at[c].first /\ h.len[c] <= meta'.len[c]
  BY DEF Within
<1>2. h.at[c].first = meta.at[c].first /\ h.len[c] <= meta.len[c]
  BY <1>1 DEF Within
<1>3. h.len[c] \in Nat /\ meta.len[c] \in Nat /\ meta'.len[c] \in Nat
  OBVIOUS
<1>4. meta.len[c] > 0
  BY <1>1, <1>2, <1>3
<1>5. meta.at[c].first = meta'.at[c].first /\ meta.len[c] <= meta'.len[c]
  BY <1>4 DEF Within
<1>. QED  BY <1>2, <1>3, <1>5

\* What the scan has read stays right when the index grows.
LEMMA ReadSoFar ==
  ASSUME kind \in Kinds, kind' = kind, ImageSound(image), MetaSound(meta, image),
         ImageSound(image'), MetaSound(meta', image'), Within(meta, meta'),
         Len(image.rows) <= Len(image'.rows),
         \A i \in DOMAIN image.rows : image'.rows[i] = image.rows[i],
         scan'.pc = scan.pc, scan'.hint = scan.hint, scan'.dir = scan.dir,
         scan'.scales = scan.scales, scan'.mask = scan.mask,
         copy'.ids = copy.ids, copy'.scales = copy.scales, copy'.codes = copy.codes,
         copy'.whole = copy.whole, copy'.cells = copy.cells, copy'.at = copy.at,
         CalmHint, CalmInstall, CalmCopy
  PROVE  CalmHint' /\ CalmInstall' /\ CalmCopy' /\ \A i : SlotRead(i) => SlotRead(i)'
<1>1. /\ Len(image.rows) \in Nat /\ DOMAIN image.rows = 1 .. Len(image.rows)
      /\ Len(image'.rows) \in Nat /\ meta.len["codes"] = Len(image.rows)
  BY IvfContent, IvfMeta
<1>2. \A c \in Chain : meta.len[c] \in Nat /\ meta'.len[c] \in Nat
  BY MetaType
<1>3. Installing' = Installing /\ Searching' = Searching
  BY DEF Installing, Searching
<1>4. CalmHint'
  <2>1. Within(scan.hint, meta)' = Within(scan'.hint, meta')
    BY DEF Within
  <2>2. ASSUME scan.pc \in Installing \cup {"tomb"} PROVE Within(scan.hint, meta')
    BY <1>2, <2>2, WithinMore DEF CalmHint
  <2>. QED  BY <1>3, <2>1, <2>2 DEF CalmHint
<1>5. CalmInstall'
  <2>1. SUFFICES ASSUME scan.pc \in Installing PROVE CalmInstall'
    BY <1>3 DEF CalmInstall
  <2>. DEFINE n == scan.hint.len["codes"]
  <2>2. /\ scan.hint.len["coarse"] > 0
        /\ scan.pc \in {"scales", "ids"} => scan.dir \in 0 .. n
        /\ scan.pc = "ids" => scan.scales = [i \in 1 .. n |-> image.rows[i].vec]
    BY <2>1 DEF CalmInstall, ColumnOf
  <2>3. n \in Nat /\ (n > 0 => n <= Len(image.rows))
    BY <1>1, <2>1 DEF CalmHint, Within, Chain
  <2>. HIDE DEF n
  <2>4. \A i \in 1 .. n : image'.rows[i] = image.rows[i]
    BY <1>1, <2>3
  <2>5. [i \in 1 .. n |-> image'.rows[i].vec] = [i \in 1 .. n |-> image.rows[i].vec]
    BY <2>4
  <2>. QED  BY <2>2, <2>5 DEF CalmInstall, ColumnOf, n
<1>6. CalmCopy'
  <2>1. SUFFICES ASSUME scan.pc \in Searching PROVE CalmCopy'
    BY <1>3 DEF CalmCopy
  <2>. DEFINE n == Len(copy.ids)
  <2>2. /\ n \in 0 .. Len(image.rows) /\ copy.ids = [i \in 1 .. n |-> image.rows[i].id]
        /\ copy.scales = [i \in 1 .. n |-> image.rows[i].vec]
        /\ copy.whole => copy.codes = [i \in 1 .. n |-> image.rows[i].vec]
        /\ ~ copy.whole => copy.cells \in 0 .. n
        /\ ~ copy.whole /\ n > 0 => copy.at["codes"].first = meta.at["codes"].first
        /\ scan.pc = "search" => scan.mask \subseteq 1 .. n
    BY <2>1 DEF CalmCopy, ColumnOf
  <2>. HIDE DEF n
  <2>3. \A i \in 1 .. n : image'.rows[i] = image.rows[i]
    <3>1. Len(image.rows) \in Nat /\ n \in Nat /\ n <= Len(image.rows)
      BY <1>1, <2>2
    <3>2. \A i \in 1 .. n : i \in 1 .. Len(image.rows)
      BY <3>1
    <3>. QED  BY <1>1, <3>2
  <2>4. /\ [i \in 1 .. n |-> image'.rows[i].vec] = [i \in 1 .. n |-> image.rows[i].vec]
        /\ [i \in 1 .. n |-> image'.rows[i].id] = [i \in 1 .. n |-> image.rows[i].id]
    BY <2>3
  <2>5. n \in 0 .. Len(image'.rows)
    BY <1>1, <2>2
  <2>6. n > 0 => meta.at["codes"].first = meta'.at["codes"].first
    BY <1>1, <2>2 DEF Within, Chain
  <2>. QED  BY <2>2, <2>4, <2>5, <2>6 DEF CalmCopy, ColumnOf, n
<1>7. \A i : SlotRead(i) => SlotRead(i)'
  BY <1>3 DEF SlotRead
<1>. QED  BY <1>4, <1>5, <1>6, <1>7

-----------------------------------------------------------------------------
(* The file that a calm scan reads.                                        *)

\* The slot of a row in the next state.
LEMMA SlotKeptNext ==
  ASSUME NEW r, NEW i, i \in DOMAIN image'.rows, image'.rows[i] = r, Live(image', i),
         i <= meta'.len["tomb"] => HasItem(disk', meta'.at, "tomb", i, FALSE),
         job'.on => i \in DOMAIN job'.image.rows /\ job'.image.rows[i] = r /\ Live(job'.image, i)
  PROVE  SlotKept(r, i)'
  BY DEF SlotKept, Live, HasItem, BlockOf, PlaceOf

\* The file in the next state.
LEMMA CalmFileNext ==
  ASSUME kind' = kind,
         \A c \in Chain \ {"tomb"} : \A i \in 1 .. meta'.len[c] :
           HasItem(disk', meta'.at, c, i, Content(image')[c][i]),
         job'.on =>
           /\ Within(meta', job'.meta)
           /\ \A c \in Chain \ {"tomb"} : meta'.len[c] > 0 =>
                IsPrefix(Content(image')[c], Content(job'.image)[c])
  PROVE  CalmFile'
<1>1. Content(image)' = Content(image') /\ Content(job.image)' = Content(job'.image)
  BY ContentNext
<1>. QED  BY <1>1 DEF CalmFile, HasItem, BlockOf, PlaceOf, Within

\* A live slot has no tombstone.
LEMMA LiveBit ==
  ASSUME kind \in Kinds, NEW img, ImageSound(img), NEW m, MetaSound(m, img), NEW i, Live(img, i),
         i \in 1 .. m.len["tomb"]
  PROVE  Content(img)["tomb"][i] = FALSE
<1>1. Content(img)["tomb"] = img.tomb /\ img.tomb \in Seq(BOOLEAN)
  BY IvfContent
<1>2. m.len["tomb"] = Len(img.tomb)
  BY IvfMeta
<1>3. i \in DOMAIN img.tomb /\ img.tomb[i] \in BOOLEAN
  BY <1>1, <1>2
<1>4. ~ img.tomb[i]
  BY <1>3 DEF Live
<1>. QED  BY <1>1, <1>3, <1>4

\* A page written leaves an item there that is to be there.
LEMMA PageKeeps ==
  ASSUME RewriteInv, WritePage, NEW c \in Chain, NEW i \in 1 .. job.meta.len[c],
         job.meta.at[c].first = meta.at[c].first, NEW v, v = Content(job.image)[c][i],
         HasItem(disk, meta.at, c, i, v)
  PROVE  HasItem(disk', meta.at, c, i, v)
<1>. DEFINE w == Head(job.writes)
            e == Written(disk, w)
            m == job.meta
            img == job.image
<1>1. job.writes # <<>> /\ disk' = e
  BY DEF WritePage
<1>2. PagesSound /\ JobSound
  BY DEF RewriteInv
<1>3. job.on
  BY <1>1, <1>2, NothingToDo
<1>4. ~ job.named /\ Underway /\ job.writes \in Seq(Range(job.writes))
  BY <1>1, <1>2, <1>3 DEF JobSound, Named
<1>5. WritesSound(job.writes, disk, m, img)
  BY <1>1, <1>4 DEF Underway
<1>6. w = job.writes[1] /\ 1 \in DOMAIN job.writes
  BY <1>1, <1>4
<1>7. w.block \in DOMAIN disk /\ PageSound(w, m, img) /\ DOMAIN w.page = {"chain", "data"}
  BY <1>5, <1>6 DEF WritesSound, PageSound
<1>. HIDE DEF e, w, m, img
<1>8. /\ DOMAIN e = DOMAIN disk
      /\ \A b \in DOMAIN disk : b # w.block => e[b] = disk[b]
      /\ e[w.block].chain = w.page.chain /\ e[w.block].data = w.page.data
  BY <1>2, <1>7, WrittenFields DEF e
<1>9. BlockOf(m.at, c, i) = BlockOf(meta.at, c, i)
  BY DEF BlockOf, m
<1>10. CASE BlockOf(meta.at, c, i) = w.block
  <2>1. i \in 1 .. m.len[c]
    BY DEF m
  <2>2. HasItem(e, m.at, c, i, Content(img)[c][i])
    BY <1>7, <1>8, <1>9, <1>10, <2>1, WrittenItem
  <2>. QED  BY <1>1, <1>9, <2>2 DEF HasItem, img
<1>11. CASE BlockOf(meta.at, c, i) # w.block
  <2>1. BlockOf(meta.at, c, i) \in DOMAIN disk
    BY DEF HasItem
  <2>. QED  BY <1>1, <1>8, <1>11, <2>1, ItemKept
<1>. QED  BY <1>10, <1>11

\* A file that grows keeps its items.
LEMMA ExtensionKeeps ==
  ASSUME RewriteInv, NEW blocks \in Nat, disk' = Extended(disk, blocks),
         NEW at, NEW c, NEW i, NEW v, HasItem(disk, at, c, i, v)
  PROVE  HasItem(disk', at, c, i, v)
<1>1. disk \in Seq(Range(disk))
  BY DEF RewriteInv, PagesSound
<1>2. \A b \in DOMAIN disk : b \in DOMAIN disk' /\ disk'[b] = disk[b]
  BY <1>1, ExtendedKeeps
<1>3. BlockOf(at, c, i) \in DOMAIN disk
  BY DEF HasItem
<1>. QED  BY <1>2, <1>3, ItemKept

\* A file that is cut keeps what its meta page names.
LEMMA TruncationKeeps ==
  ASSUME RewriteInv, Finish \/ Stop, NEW c \in Chain, NEW i \in 1 .. meta.len[c], NEW v,
         HasItem(disk, meta.at, c, i, v)
  PROVE  HasItem(disk', meta.at, c, i, v)
<1>1. CASE disk' = disk
  BY <1>1
<1>2. CASE disk' # disk
  <2>. DEFINE limit == job.limit
              k == limit - 1
              b == BlockOf(meta.at, c, i)
              end == meta.at[c].first + PagesNeeded(meta.len[c], PerPage[c])
  <2>1. /\ job.on /\ job.named /\ job.limit > 0 /\ Len(disk) + 1 > job.limit
        /\ disk' = SubSeq(disk, 1, job.limit - 1)
    BY <1>2 DEF Finish, Stop
  <2>2. /\ JobSound /\ disk \in Seq(Range(disk)) /\ ImageSound(image) /\ MetaSound(meta, image)
    BY DEF RewriteInv, PagesSound
  <2>3. limit \in Nat /\ limit > 0 /\ FitsIn(meta, limit)
    BY <2>1, <2>2 DEF JobSound, Named
  <2>4. b \in DOMAIN disk
    BY DEF HasItem
  <2>5. b \in Nat /\ b < end /\ end \in Nat
    <3>1. meta.at[c].first \in Nat /\ PagesNeeded(meta.len[c], PerPage[c]) \in Nat
      BY <2>2, MetaType
    <3>2. b \in Nat /\ b < end
      BY <2>2, BlockInChain
    <3>. QED  BY <3>1, <3>2
  <2>6. end <= limit
    <3>1. meta.len[c] \in Nat
      BY <2>2, MetaType
    <3>2. meta.len[c] > 0
      BY <3>1
    <3>. QED  BY <2>3, <3>2 DEF FitsIn
  <2>7. disk' = SubSeq(disk, 1, k) /\ Len(disk) + 1 > limit
    BY <2>1
  <2>. HIDE DEF limit, b, end
  <2>8. /\ k \in Nat /\ k <= Len(disk) /\ Len(disk) \in Nat /\ DOMAIN disk = 1 .. Len(disk)
        /\ k + 1 = limit
    BY <2>2, <2>3, <2>7
  <2>. HIDE DEF k
  <2>9. DOMAIN disk' = 1 .. k /\ \A x \in 1 .. k : disk'[x] = disk[x]
    BY <2>2, <2>7, <2>8
  <2>10. b \in 1 .. k
    BY <2>4, <2>5, <2>6, <2>8
  <2>. QED  BY <2>9, <2>10, ItemKept DEF b
<1>. QED  BY <1>1, <1>2

\* A calm scan that is going on.
CalmState ==
  /\ CalmFile /\ CalmHint /\ CalmInstall /\ CalmCopy
  /\ \A r \in scan.wanted : \E i \in DOMAIN image.rows : SlotKept(r, i) /\ SlotRead(i)

\* A page is written.
LEMMA PageCalm ==
  ASSUME RewriteInv, RewriteInv', CalmState, WritePage, UNCHANGED rvars
  PROVE  CalmState'
<1>1. /\ job.on = TRUE /\ job'.on = TRUE /\ job'.meta = job.meta /\ job'.image = job.image
      /\ kind' = kind /\ meta' = meta /\ image' = image
      /\ ImageSound(job.image) /\ MetaSound(job.meta, job.image)
  BY PageWritten
<1>2. kind \in Kinds /\ ImageSound(image) /\ MetaSound(meta, image)
  BY DEF RewriteInv
<1>3. GrownTo(job.meta, job.image)
  BY <1>1 DEF CalmState, CalmFile, GrownTo
<1>4. CalmFile'
  <2>1. ASSUME NEW c \in Chain \ {"tomb"}, NEW i \in 1 .. meta.len[c]
        PROVE  HasItem(disk', meta.at, c, i, Content(image)[c][i])
    <3>1. HasItem(disk, meta.at, c, i, Content(image)[c][i])
      BY DEF CalmState, CalmFile
    <3>2. /\ i \in 1 .. job.meta.len[c] /\ job.meta.at[c].first = meta.at[c].first
          /\ Content(image)[c][i] = Content(job.image)[c][i]
      BY <1>1, <1>2, <1>3, GrownItem
    <3>. QED  BY <3>1, <3>2, PageKeeps
  <2>. QED  BY <1>1, <1>3, <2>1, CalmFileNext DEF GrownTo
<1>5. /\ scan' = scan /\ copy' = copy
  BY DEF rvars
<1>6. Within(meta, meta') /\ Len(image.rows) \in Nat
  <2>1. \A c \in Chain : meta.len[c] \in Nat
    BY <1>2, MetaType
  <2>. QED  BY <1>1, <1>2, <2>1, IvfContent DEF Within
<1>7. CalmHint' /\ CalmInstall' /\ CalmCopy' /\ \A i : SlotRead(i) => SlotRead(i)'
  <2>1. CalmHint /\ CalmInstall /\ CalmCopy /\ Len(image.rows) <= Len(image.rows)
    BY <1>6 DEF CalmState
  <2>. QED  BY <1>1, <1>2, <1>5, <1>6, <2>1, ReadSoFar
<1>8. ASSUME NEW r \in scan.wanted, NEW i \in DOMAIN image.rows, SlotKept(r, i)
      PROVE  SlotKept(r, i)'
  <2>1. /\ image.rows[i] = r /\ Live(image, i)
        /\ i <= meta.len["tomb"] => HasItem(disk, meta.at, "tomb", i, FALSE)
        /\ i \in DOMAIN job.image.rows /\ job.image.rows[i] = r /\ Live(job.image, i)
    BY <1>1, <1>8 DEF SlotKept
  <2>2. ASSUME i <= meta.len["tomb"] PROVE HasItem(disk', meta.at, "tomb", i, FALSE)
    <3>1. i \in 1 .. Len(image.rows) /\ Len(image.rows) \in Nat
      BY <1>2, IvfContent
    <3>2. "tomb" \in Chain
      BY DEF Chain
    <3>3. meta.len["tomb"] \in Nat /\ job.meta.len["tomb"] \in Nat
      BY <1>1, <1>2, <3>2, MetaType
    <3>4. /\ job.meta.at["tomb"].first = meta.at["tomb"].first
          /\ meta.len["tomb"] <= job.meta.len["tomb"]
      BY <1>3, <2>2, <3>1, <3>2, <3>3 DEF GrownTo, Within
    <3>5. i \in 1 .. job.meta.len["tomb"]
      BY <2>2, <3>1, <3>3, <3>4
    <3>6. Content(job.image)["tomb"][i] = FALSE
      BY <1>1, <1>2, <2>1, <3>5, LiveBit
    <3>. QED  BY <2>1, <2>2, <3>2, <3>4, <3>5, <3>6, PageKeeps
  <2>. QED  BY <1>1, <2>1, <2>2, SlotKeptNext
<1>9. \A r \in scan'.wanted : \E i \in DOMAIN image'.rows : SlotKept(r, i)' /\ SlotRead(i)'
  BY <1>1, <1>5, <1>7, <1>8 DEF CalmState
<1>. QED  BY <1>4, <1>7, <1>9 DEF CalmState

\* The rewrite ends.
LEMMA EndCalm ==
  ASSUME RewriteInv, RewriteInv', CalmState, Finish \/ Stop, UNCHANGED rvars
  PROVE  CalmState'
<1>1. /\ job'.on = FALSE /\ kind' = kind /\ meta' = meta /\ image' = image
  BY RewriteEnds
<1>2. kind \in Kinds /\ ImageSound(image) /\ MetaSound(meta, image)
  BY DEF RewriteInv
<1>3. CalmFile'
  <2>1. ASSUME NEW c \in Chain \ {"tomb"}, NEW i \in 1 .. meta.len[c]
        PROVE  HasItem(disk', meta.at, c, i, Content(image)[c][i])
    <3>1. HasItem(disk, meta.at, c, i, Content(image)[c][i])
      BY DEF CalmState, CalmFile
    <3>. QED  BY <3>1, TruncationKeeps
  <2>. QED  BY <1>1, <2>1, CalmFileNext
<1>4. /\ scan' = scan /\ copy' = copy
  BY DEF rvars
<1>5. Within(meta, meta') /\ Len(image.rows) \in Nat
  <2>1. \A c \in Chain : meta.len[c] \in Nat
    BY <1>2, MetaType
  <2>. QED  BY <1>1, <1>2, <2>1, IvfContent DEF Within
<1>6. CalmHint' /\ CalmInstall' /\ CalmCopy' /\ \A i : SlotRead(i) => SlotRead(i)'
  <2>1. CalmHint /\ CalmInstall /\ CalmCopy /\ Len(image.rows) <= Len(image.rows)
    BY <1>5 DEF CalmState
  <2>. QED  BY <1>1, <1>2, <1>4, <1>5, <2>1, ReadSoFar
<1>7. ASSUME NEW r \in scan.wanted, NEW i \in DOMAIN image.rows, SlotKept(r, i)
      PROVE  SlotKept(r, i)'
  <2>1. /\ image.rows[i] = r /\ Live(image, i)
        /\ i <= meta.len["tomb"] => HasItem(disk, meta.at, "tomb", i, FALSE)
    BY <1>7 DEF SlotKept
  <2>2. ASSUME i <= meta.len["tomb"] PROVE HasItem(disk', meta.at, "tomb", i, FALSE)
    <3>1. i \in 1 .. Len(image.rows) /\ Len(image.rows) \in Nat
      BY <1>2, IvfContent
    <3>2. "tomb" \in Chain
      BY DEF Chain
    <3>3. meta.len["tomb"] \in Nat
      BY <1>2, <3>2, MetaType
    <3>4. i \in 1 .. meta.len["tomb"]
      BY <2>2, <3>1, <3>3
    <3>. QED  BY <2>1, <2>2, <3>2, <3>4, TruncationKeeps
  <2>. QED  BY <1>1, <2>1, <2>2, SlotKeptNext
<1>8. \A r \in scan'.wanted : \E i \in DOMAIN image'.rows : SlotKept(r, i)' /\ SlotRead(i)'
  BY <1>1, <1>4, <1>6, <1>7 DEF CalmState
<1>. QED  BY <1>3, <1>6, <1>8 DEF CalmState

\* The meta page is written: readers go on in the image that grew.
LEMMA MetaCalm ==
  ASSUME RewriteInv, RewriteInv', CopiesKept, CalmState, Rename
  PROVE  CalmState'
<1>. DEFINE m == job.meta
            img == job.image
<1>1. /\ job.on /\ meta' = m /\ image' = img /\ job'.meta = m /\ job'.image = img
      /\ kind' = kind /\ disk' = disk /\ ImageSound(img) /\ MetaSound(m, img)
      /\ \A c \in Chain : \A i \in 1 .. m.len[c] : HasItem(disk, m.at, c, i, Content(img)[c][i])
  BY MetaWritten DEF Rename
<1>2. kind \in Kinds /\ ImageSound(image) /\ MetaSound(meta, image)
  BY DEF RewriteInv
<1>3. GrownTo(m, img)
  BY <1>1 DEF CalmState, CalmFile, GrownTo
<1>. HIDE DEF m, img
<1>4. CalmFile'
  <2>1. ASSUME NEW c \in Chain PROVE IsPrefix(Content(img)[c], Content(img)[c])
    <3>1. Len(Content(img)[c]) \in Nat
      BY <1>1, MetaType
    <3>. QED  BY <3>1 DEF IsPrefix
  <2>2. Within(m, m)
    <3>1. \A c \in Chain : m.len[c] \in Nat
      BY <1>1, MetaType
    <3>. QED  BY <3>1 DEF Within
  <2>. QED  BY <1>1, <2>1, <2>2, CalmFileNext
<1>5. /\ DOMAIN scan = {"pc", "hint", "dir", "scales", "mask", "stale", "calm", "wanted"}
      /\ DOMAIN copy = {"on", "current", "whole", "at", "codes", "scales", "ids", "cells"}
  BY Fields DEF CopiesKept
<1>6. /\ scan'.pc = scan.pc /\ scan'.hint = scan.hint /\ scan'.dir = scan.dir
      /\ scan'.scales = scan.scales /\ scan'.mask = scan.mask /\ scan'.wanted = scan.wanted
      /\ copy'.ids = copy.ids /\ copy'.scales = copy.scales /\ copy'.codes = copy.codes
      /\ copy'.whole = copy.whole /\ copy'.cells = copy.cells /\ copy'.at = copy.at
  <2>. DEFINE stale == scan.pc # "none"
  <2>1. scan' = [scan EXCEPT !.stale = stale] /\ copy' = [copy EXCEPT !.current = FALSE]
    BY DEF Rename
  <2>. HIDE DEF stale
  <2>. QED  BY <1>5, <2>1
<1>7. /\ Len(image.rows) <= Len(img.rows)
      /\ \A i \in DOMAIN image.rows : i \in DOMAIN img.rows /\ img.rows[i] = image.rows[i]
  BY <1>1, <1>2, <1>3, GrownRows
<1>8. CalmHint' /\ CalmInstall' /\ CalmCopy' /\ \A i : SlotRead(i) => SlotRead(i)'
  <2>1. CalmHint /\ CalmInstall /\ CalmCopy
    BY DEF CalmState
  <2>2. ImageSound(image') /\ MetaSound(meta', image') /\ Within(meta, meta')
    BY <1>1, <1>3 DEF GrownTo
  <2>. QED  BY <1>1, <1>2, <1>6, <1>7, <2>1, <2>2, ReadSoFar
<1>9. ASSUME NEW r \in scan.wanted, NEW i \in DOMAIN image.rows, SlotKept(r, i)
      PROVE  i \in DOMAIN image'.rows /\ SlotKept(r, i)'
  <2>1. i \in DOMAIN img.rows /\ img.rows[i] = r /\ Live(img, i)
    BY <1>1, <1>9 DEF SlotKept, img
  <2>2. ASSUME i <= m.len["tomb"] PROVE HasItem(disk, m.at, "tomb", i, FALSE)
    <3>1. i \in 1 .. Len(img.rows) /\ Len(img.rows) \in Nat
      BY <1>1, <1>2, <2>1, IvfContent
    <3>2. "tomb" \in Chain
      BY DEF Chain
    <3>3. m.len["tomb"] \in Nat
      BY <1>1, <3>2, MetaType
    <3>4. i \in 1 .. m.len["tomb"]
      BY <2>2, <3>1, <3>3
    <3>5. Content(img)["tomb"][i] = FALSE
      BY <1>1, <1>2, <2>1, <3>4, LiveBit
    <3>6. HasItem(disk, m.at, "tomb", i, Content(img)["tomb"][i])
      BY <1>1, <3>2, <3>4
    <3>. QED  BY <3>5, <3>6
  <2>. QED  BY <1>1, <2>1, <2>2, SlotKeptNext
<1>10. \A r \in scan'.wanted : \E i \in DOMAIN image'.rows : SlotKept(r, i)' /\ SlotRead(i)'
  BY <1>6, <1>8, <1>9 DEF CalmState
<1>. QED  BY <1>4, <1>8, <1>10 DEF CalmState

\* A rewrite begins that disturbs no chain: the rows that it leaves live keep
\* their slots.
LEMMA BeginCalm ==
  ASSUME RewriteInv, RewriteInv', AllApart, CopiesKept, BeginRewrite, scan'.calm,
         scan.calm => CalmState
  PROVE  CalmState' /\ scan'.pc = scan.pc
<1>. DEFINE m == job'.meta
            img == job'.image
            calm == scan.calm /\ ~ Disturbs
            wanted == scan.wanted \cap LiveRows(img)
<1>1. /\ kind' = kind /\ meta' = meta /\ image' = image
      /\ job'.on = TRUE /\ IdsApart(img)
  BY BeginRewriteFacts DEF AllApart
<1>2. PICK blocks \in Nat : disk' = Extended(disk, blocks)
  BY BeginRewriteFacts DEF AllApart
<1>3. kind \in Kinds /\ ImageSound(image) /\ MetaSound(meta, image)
  BY DEF RewriteInv
<1>4. ImageSound(img) /\ MetaSound(m, img)
  BY <1>1, JobNextSound
<1>5. /\ DOMAIN scan = {"pc", "hint", "dir", "scales", "mask", "stale", "calm", "wanted"}
  BY Fields DEF CopiesKept
<1>6. /\ scan'.pc = scan.pc /\ scan'.hint = scan.hint /\ scan'.dir = scan.dir
      /\ scan'.scales = scan.scales /\ scan'.mask = scan.mask
      /\ scan'.wanted = wanted /\ scan'.calm = calm /\ copy' = copy
  <2>1. scan' = [scan EXCEPT !.calm = calm, !.wanted = wanted] /\ copy' = copy
    BY DEF BeginRewrite
  <2>. HIDE DEF calm, wanted
  <2>. QED  BY <1>5, <2>1
<1>7. CalmState /\ ~ Disturbs
  BY <1>6
<1>8. GrownTo(m, img)
  <2>1. ASSUME NEW c \in Chain, meta.len[c] > 0
        PROVE  /\ m.at[c].first = meta.at[c].first /\ ~ (m.len[c] < meta.len[c])
               /\ c = "tomb" \/ IsPrefix(Content(image)[c], Content(img)[c])
    BY <1>7, <2>1 DEF Disturbs
  <2>2. \A c \in Chain : meta.len[c] \in Nat /\ m.len[c] \in Nat
    BY <1>3, <1>4, MetaType
  <2>3. ASSUME NEW c \in Chain, meta.len[c] > 0
        PROVE  m.at[c].first = meta.at[c].first /\ meta.len[c] <= m.len[c]
    <3>. DEFINE x == meta.len[c]
                y == m.len[c]
    <3>1. x \in Nat /\ y \in Nat /\ ~ (y < x)
      BY <2>1, <2>2, <2>3
    <3>. HIDE DEF x, y
    <3>2. x <= y
      BY <3>1
    <3>. QED  BY <2>1, <2>3, <3>2 DEF x, y
  <2>. QED  BY <2>1, <2>3 DEF GrownTo, Within
<1>. HIDE DEF m, img, wanted
<1>9. CalmFile'
  <2>1. ASSUME NEW c \in Chain \ {"tomb"}, NEW i \in 1 .. meta.len[c]
        PROVE  HasItem(disk', meta.at, c, i, Content(image)[c][i])
    <3>1. HasItem(disk, meta.at, c, i, Content(image)[c][i])
      BY <1>7 DEF CalmState, CalmFile
    <3>. QED  BY <1>2, <3>1, ExtensionKeeps
  <2>. QED  BY <1>1, <1>8, <2>1, CalmFileNext DEF GrownTo, m, img
<1>10. Within(meta, meta') /\ Len(image.rows) \in Nat
  <2>1. \A c \in Chain : meta.len[c] \in Nat
    BY <1>3, MetaType
  <2>. QED  BY <1>1, <1>3, <2>1, IvfContent DEF Within
<1>11. CalmHint' /\ CalmInstall' /\ CalmCopy' /\ \A i : SlotRead(i) => SlotRead(i)'
  <2>1. CalmHint /\ CalmInstall /\ CalmCopy /\ Len(image.rows) <= Len(image.rows)
    BY <1>7, <1>10 DEF CalmState
  <2>. QED  BY <1>1, <1>3, <1>6, <1>10, <2>1, ReadSoFar
<1>12. \A i \in DOMAIN image.rows : i \in DOMAIN img.rows /\ img.rows[i] = image.rows[i]
  BY <1>3, <1>4, <1>8, GrownRows
<1>13. ASSUME NEW r \in wanted, NEW i \in DOMAIN image.rows, SlotKept(r, i)
       PROVE  SlotKept(r, i)'
  <2>1. /\ image.rows[i] = r /\ Live(image, i)
        /\ i <= meta.len["tomb"] => HasItem(disk, meta.at, "tomb", i, FALSE)
    BY <1>13 DEF SlotKept
  <2>2. i <= meta.len["tomb"] => HasItem(disk', meta.at, "tomb", i, FALSE)
    BY <1>2, <2>1, ExtensionKeeps
  <2>3. i \in DOMAIN img.rows /\ img.rows[i] = r
    BY <1>12, <2>1
  <2>4. PICK j \in DOMAIN img.rows : img.rows[j] = r /\ Live(img, j)
    BY DEF wanted, LiveRows
  <2>5. j = i
    BY <1>1, <2>3, <2>4 DEF IdsApart, img
  <2>6. Live(img, i)
    BY <2>4, <2>5
  <2>. QED  BY <1>1, <2>1, <2>2, <2>3, <2>6, SlotKeptNext DEF img
<1>14. \A r \in scan'.wanted : \E i \in DOMAIN image'.rows : SlotKept(r, i)' /\ SlotRead(i)'
  <2>1. wanted \subseteq scan.wanted
    BY DEF wanted
  <2>. QED  BY <1>1, <1>6, <1>7, <1>11, <1>13, <2>1 DEF CalmState
<1>. QED  BY <1>6, <1>9, <1>11, <1>14 DEF CalmState

-----------------------------------------------------------------------------
(* The steps of a calm scan.                                               *)

\* An item that the meta page names is in the file.
LEMMA BlockInFile ==
  ASSUME RewriteInv, NEW c \in Chain, NEW i \in 1 .. meta.len[c]
  PROVE  BlockOf(meta.at, c, i) \in DOMAIN disk
<1>. DEFINE b == BlockOf(meta.at, c, i)
            end == meta.at[c].first + PagesNeeded(meta.len[c], PerPage[c])
<1>1. ImageSound(image) /\ MetaSound(meta, image) /\ PagesSound /\ MetaInFile
  BY DEF RewriteInv, FileSound
<1>2. meta.len[c] \in Nat /\ meta.at[c].first \in Nat /\ PagesNeeded(meta.len[c], PerPage[c]) \in Nat
  BY <1>1, MetaType
<1>3. b \in Nat /\ b < end /\ end \in Nat /\ b > 0
  BY <1>1, <1>2, BlockInChain
<1>4. meta.len[c] > 0
  BY <1>2
<1>5. end <= Len(disk) + 1
  BY <1>1, <1>4 DEF MetaInFile, FitsIn
<1>6. DOMAIN disk = 1 .. Len(disk) /\ Len(disk) \in Nat
  BY <1>1 DEF PagesSound
<1>. HIDE DEF b, end
<1>7. b \in DOMAIN disk
  BY <1>3, <1>5, <1>6
<1>. QED  BY <1>7 DEF b

\* And so is what an older meta page named.
LEMMA HintInFile ==
  ASSUME RewriteInv, CalmHint, scan.pc \in Installing \cup {"tomb"}, NEW c \in Chain
  PROVE  InFile(scan.hint.at, c, scan.hint.len[c])
<1>1. SUFFICES ASSUME scan.hint.len[c] > 0
               PROVE  BlockOf(scan.hint.at, c, scan.hint.len[c]) \in DOMAIN disk
  BY DEF InFile
<1>2. /\ scan.hint.len[c] \in Nat /\ scan.hint.at[c].first = meta.at[c].first
      /\ scan.hint.len[c] <= meta.len[c]
  BY <1>1 DEF CalmHint, Within
<1>3. meta.len[c] \in Nat
  BY MetaType DEF RewriteInv
<1>4. scan.hint.len[c] \in 1 .. meta.len[c]
  BY <1>1, <1>2, <1>3
<1>5. BlockOf(meta.at, c, scan.hint.len[c]) \in DOMAIN disk
  BY <1>4, BlockInFile
<1>. QED  BY <1>2, <1>5 DEF BlockOf

\* A chain that has not moved is read at its place.
LEMMA SamePlace ==
  ASSUME NEW at, NEW c, at[c].first = meta.at[c].first, NEW i, NEW v,
         HasItem(disk, meta.at, c, i, v)
  PROVE  ItemAt(at, c, i) = v
<1>1. BlockOf(at, c, i) = BlockOf(meta.at, c, i)
  BY DEF BlockOf
<1>. QED  BY <1>1 DEF HasItem, ItemAt

\* The directory that a calm scan reads.
LEMMA CalmDirectory ==
  ASSUME RewriteInv, CalmFile, CalmHint, scan.pc \in Installing \cup {"tomb"},
         scan.hint.len["dir"] > 0, NEW limit
  PROVE  DirectoryRows(scan.hint, limit) = {image.cells} /\ image.cells \in Nat
<1>1. kind \in Kinds /\ ImageSound(image) /\ MetaSound(meta, image)
  BY DEF RewriteInv
<1>2. /\ scan.hint.at["dir"].first = meta.at["dir"].first
      /\ scan.hint.len["dir"] <= meta.len["dir"] /\ scan.hint.len["dir"] \in Nat
  BY DEF CalmHint, Within, Chain
<1>3. /\ meta.len["dir"] = meta.len["coarse"]
      /\ meta.len["coarse"] = IF image.cells > 0 THEN 1 ELSE 0
  BY <1>1, IvfMeta
<1>4. image.cells > 0 /\ meta.len["dir"] = 1
  BY <1>2, <1>3
<1>5. /\ Content(image)["dir"] = Only(image.cells > 0, <<image.cells>>) /\ image.cells \in Nat
  <2>1. /\ Content(image)["dir"] = Content(image)["coarse"] /\ image.cells \in Nat
        /\ Content(image)["coarse"] = Only(image.cells > 0, <<image.cells>>)
    BY <1>1, IvfContent
  <2>. QED  BY <2>1
<1>6. Content(image)["dir"][1] = image.cells
  BY <1>4, <1>5 DEF Only
<1>7. HasItem(disk, meta.at, "dir", 1, image.cells)
  <2>1. 1 \in 1 .. meta.len["dir"] /\ "dir" \in Chain \ {"tomb"}
    BY <1>4 DEF Chain
  <2>. QED  BY <1>6, <2>1 DEF CalmFile
<1>8. ItemAt(scan.hint.at, "dir", 1) = image.cells
  BY <1>2, <1>7, SamePlace
<1>9. image.cells # Junk
  BY <1>5, ReadersAssumption
<1>. QED  BY <1>5, <1>8, <1>9 DEF DirectoryRows

\* What it reads of the scales or the codes.
LEMMA CalmColumn ==
  ASSUME RewriteInv, CalmFile, NEW c \in {"codes", "scales"}, NEW at, NEW n \in Nat,
         n <= Len(image.rows), n > 0 => at[c].first = meta.at[c].first
  PROVE  \A i \in 1 .. n : ItemAt(at, c, i) = image.rows[i].vec
<1>1. SUFFICES ASSUME NEW i \in 1 .. n PROVE ItemAt(at, c, i) = image.rows[i].vec
  OBVIOUS
<1>2. kind \in Kinds /\ ImageSound(image) /\ MetaSound(meta, image)
  BY DEF RewriteInv
<1>3. meta.len[c] = Len(image.rows) /\ Len(image.rows) \in Nat
  BY <1>2, IvfMeta, IvfContent
<1>4. i \in 1 .. Len(image.rows) /\ i \in 1 .. meta.len[c]
  BY <1>3
<1>5. Content(image)[c][i] = image.rows[i].vec
  <2>1. /\ Content(image)["codes"] = [j \in 1 .. Len(image.rows) |-> image.rows[j].vec]
        /\ Content(image)["scales"] = [j \in 1 .. Len(image.rows) |-> image.rows[j].vec]
    BY <1>2, IvfContent
  <2>2. Content(image)[c] = [j \in 1 .. Len(image.rows) |-> image.rows[j].vec]
    BY <2>1
  <2>. QED  BY <1>4, <2>2
<1>6. HasItem(disk, meta.at, c, i, image.rows[i].vec)
  <2>1. c \in Chain \ {"tomb"}
    BY DEF Chain
  <2>. QED  BY <1>4, <1>5, <2>1 DEF CalmFile
<1>7. at[c].first = meta.at[c].first
  OBVIOUS
<1>. QED  BY <1>6, <1>7, SamePlace

\* A step of the scan leaves the rows where they are.
LEMMA ScanCalmNext ==
  ASSUME UNCHANGED vars, CalmState, scan'.wanted = scan.wanted,
         CalmHint', CalmInstall', CalmCopy',
         \A r \in scan.wanted : \A i \in DOMAIN image.rows :
           SlotKept(r, i) /\ SlotRead(i) => SlotRead(i)'
  PROVE  CalmState'
<1>1. /\ kind' = kind /\ meta' = meta /\ disk' = disk /\ image' = image
      /\ job' = job /\ CalmFile' = CalmFile
  BY SameFile
<1>2. ASSUME NEW r, NEW i, i \in DOMAIN image.rows, SlotKept(r, i) PROVE SlotKept(r, i)'
  BY <1>1, <1>2, SlotKeptNext DEF SlotKept
<1>3. \A r \in scan'.wanted : \E i \in DOMAIN image'.rows : SlotKept(r, i)' /\ SlotRead(i)'
  BY <1>1, <1>2 DEF CalmState
<1>. QED  BY <1>1, <1>3 DEF CalmState

\* A scan finds a file that is clean, and a rewrite, if one is going on, that
\* only adds to it.
LEMMA CleanCalm ==
  ASSUME RewriteInv, ~ hurt, job.on => ~ job.risky \/ job.named
  PROVE  /\ CalmFile
         /\ job.on => /\ GrownTo(job.meta, job.image)
                      /\ ImageSound(job.image) /\ MetaSound(job.meta, job.image)
<1>1. kind \in Kinds /\ ImageSound(image) /\ MetaSound(meta, image) /\ JobSound
  BY DEF RewriteInv
<1>2. Clean
  BY DEF Clean
<1>3. \A c \in Chain \ {"tomb"} : \A i \in 1 .. meta.len[c] :
        HasItem(disk, meta.at, c, i, Content(image)[c][i])
  BY <1>2, CleanReads DEF Reads
<1>4. ASSUME job.on
      PROVE  /\ GrownTo(job.meta, job.image)
             /\ ImageSound(job.image) /\ MetaSound(job.meta, job.image)
  <2>. DEFINE m == job.meta
              img == job.image
  <2>1. ImageSound(img) /\ MetaSound(m, img)
    BY <1>1, <1>4 DEF JobSound
  <2>2. \A c \in Chain : /\ meta.len[c] = Len(Content(image)[c]) /\ meta.len[c] \in Nat
                         /\ m.len[c] = Len(Content(img)[c]) /\ m.len[c] \in Nat
    BY <1>1, <2>1, MetaType
  <2>3. ASSUME NEW c \in Chain, meta.len[c] > 0
        PROVE  m.at[c].first = meta.at[c].first /\ IsPrefix(Content(image)[c], Content(img)[c])
    <3>1. CASE job.named
      <4>1. m = meta /\ img = image
        BY <1>1, <1>4, <3>1 DEF JobSound, Named
      <4>2. IsPrefix(Content(image)[c], Content(image)[c])
        BY <2>2 DEF IsPrefix
      <4>. QED  BY <4>1, <4>2
    <3>2. CASE ~ job.named
      <4>1. OnlyAdds(img, m.at)
        BY <1>1, <1>4, <3>2 DEF JobSound, Underway
      <4>. QED  BY <2>3, <4>1 DEF OnlyAdds
    <3>. QED  BY <3>1, <3>2
  <2>4. ASSUME NEW c \in Chain, meta.len[c] > 0 PROVE meta.len[c] <= m.len[c]
    BY <2>2, <2>3, <2>4 DEF IsPrefix
  <2>. QED  BY <2>1, <2>3, <2>4 DEF GrownTo, Within
<1>. QED  BY <1>3, <1>4 DEF CalmFile, GrownTo

\* A scan begins.
LEMMA BeginScanCalm ==
  ASSUME RewriteInv, CopiesKept, AllApart, BeginScan, scan'.calm
  PROVE  CalmState'
<1>. DEFINE pc == IF copy.on /\ copy.current THEN "look" ELSE "install"
            calm == ~ hurt /\ (job.on => ~ job.risky \/ job.named)
            wanted == LiveRows(image) \cap
                        (IF job.on THEN LiveRows(job.image) ELSE LiveRows(image))
<1>1. /\ scan' = [NoScan EXCEPT !.pc = pc, !.calm = calm, !.wanted = wanted]
      /\ copy' = copy /\ UNCHANGED vars
  BY ScanKeepsFile DEF BeginScan, ScanStep
<1>2. pc \in {"look", "install"} /\ (pc = "look" => copy.on /\ copy.current)
  OBVIOUS
<1>. HIDE DEF pc, calm, wanted
<1>3. scan'.pc = pc /\ scan'.calm = calm /\ scan'.wanted = wanted
  BY <1>1, Fields
<1>4. ~ hurt /\ (job.on => ~ job.risky \/ job.named)
  BY <1>3 DEF calm
<1>5. /\ kind \in Kinds /\ ImageSound(image) /\ MetaSound(meta, image)
  BY DEF RewriteInv
<1>6. /\ CalmFile
      /\ job.on => /\ GrownTo(job.meta, job.image)
                   /\ ImageSound(job.image) /\ MetaSound(job.meta, job.image)
  BY <1>4, CleanCalm
<1>7. /\ kind' = kind /\ meta' = meta /\ disk' = disk /\ image' = image
      /\ job' = job /\ CalmFile'
  BY <1>1, <1>6, SameFile
<1>8. CalmHint' /\ CalmInstall'
  BY <1>2, <1>3 DEF CalmHint, CalmInstall, Installing
<1>9. ASSUME pc = "look"
      PROVE  /\ Len(copy.ids) = Len(image.rows) /\ Len(image.rows) \in Nat
             /\ copy.ids = [i \in 1 .. Len(image.rows) |-> image.rows[i].id]
             /\ copy.scales = [i \in 1 .. Len(image.rows) |-> image.rows[i].vec]
             /\ copy.whole => copy.codes = [i \in 1 .. Len(image.rows) |-> image.rows[i].vec]
             /\ ~ copy.whole => /\ copy.cells \in 0 .. Len(image.rows)
                                /\ copy.at["codes"] = meta.at["codes"]
  <2>1. /\ copy.ids = Content(image)["ids"] /\ copy.scales = Content(image)["scales"]
        /\ IF copy.whole THEN copy.codes = Content(image)["codes"]
           ELSE copy.cells = image.cells /\ copy.at["codes"] = meta.at["codes"]
    BY <1>2, <1>4, <1>9 DEF CopiesKept, CurrentCopyIsImage
  <2>2. /\ Len(image.rows) \in Nat /\ image.cells \in Nat
        /\ Content(image)["codes"] = [i \in 1 .. Len(image.rows) |-> image.rows[i].vec]
        /\ Content(image)["scales"] = [i \in 1 .. Len(image.rows) |-> image.rows[i].vec]
        /\ Content(image)["ids"] = [i \in 1 .. Len(image.rows) |-> image.rows[i].id]
    BY <1>5, IvfContent
  <2>3. image.cells <= Len(image.rows)
    BY <1>5 DEF ImageSound
  <2>4. Len(copy.ids) = Len(image.rows)
    BY <2>1, <2>2
  <2>5. image.cells \in 0 .. Len(image.rows)
    BY <2>2, <2>3
  <2>. QED  BY <2>1, <2>2, <2>4, <2>5
<1>10. CalmCopy'
  <2>1. scan'.pc \in Searching => pc = "look"
    BY <1>2, <1>3 DEF Searching
  <2>2. scan'.pc # "search"
    BY <1>2, <1>3
  <2>3. Searching' = Searching
    BY DEF Searching
  <2>4. ASSUME pc = "look" PROVE Len(copy.ids) \in 0 .. Len(image.rows)
    BY <1>9, <2>4
  <2>. QED  BY <1>1, <1>7, <1>9, <2>1, <2>2, <2>3, <2>4 DEF CalmCopy, ColumnOf
<1>11. ASSUME NEW r \in wanted
       PROVE  \E i \in DOMAIN image'.rows : SlotKept(r, i)' /\ SlotRead(i)'
  <2>1. PICK i \in DOMAIN image.rows : image.rows[i] = r /\ Live(image, i)
    BY DEF wanted, LiveRows
  <2>2. ASSUME i <= meta.len["tomb"] PROVE HasItem(disk, meta.at, "tomb", i, FALSE)
    <3>1. i \in 1 .. Len(image.rows) /\ Len(image.rows) \in Nat
      BY <1>5, <2>1, IvfContent
    <3>2. "tomb" \in Chain
      BY DEF Chain
    <3>3. meta.len["tomb"] \in Nat
      BY <1>5, <3>2, MetaType
    <3>4. i \in 1 .. meta.len["tomb"]
      BY <2>2, <3>1, <3>3
    <3>5. Content(image)["tomb"][i] = FALSE
      BY <1>5, <2>1, <3>4, LiveBit
    <3>6. Reads(disk, meta, image)
      BY <1>4, CleanReads DEF Clean
    <3>. QED  BY <3>2, <3>4, <3>5, <3>6 DEF Reads
  <2>3. ASSUME job.on
        PROVE  i \in DOMAIN job.image.rows /\ job.image.rows[i] = r /\ Live(job.image, i)
    <3>1. i \in DOMAIN job.image.rows /\ job.image.rows[i] = r
      BY <1>5, <1>6, <2>1, <2>3, GrownRows
    <3>2. PICK j \in DOMAIN job.image.rows : job.image.rows[j] = r /\ Live(job.image, j)
      BY <2>3 DEF wanted, LiveRows
    <3>3. j = i
      BY <2>3, <3>1, <3>2 DEF AllApart, IdsApart
    <3>. QED  BY <3>1, <3>2, <3>3
  <2>4. SlotKept(r, i)'
    BY <1>7, <2>1, <2>2, <2>3, SlotKeptNext
  <2>5. SlotRead(i)'
    <3>1. pc = "look" => i <= Len(copy.ids)
      <4>1. DOMAIN image.rows = 1 .. Len(image.rows)
        BY <1>5, IvfContent
      <4>. QED  BY <1>9, <2>1, <4>1
    <3>. QED  BY <1>1, <1>2, <1>3, <3>1 DEF SlotRead, Installing, Searching
  <2>. QED  BY <1>7, <2>1, <2>4, <2>5
<1>. QED  BY <1>3, <1>7, <1>8, <1>10, <1>11 DEF CalmState

\* The meta page that the scan goes by stays good for it.
LEMMA HintKept ==
  ASSUME UNCHANGED vars, CalmHint, scan.pc \in Installing \cup {"tomb"},
         scan'.hint = scan.hint
  PROVE  CalmHint'
<1>1. meta' = meta
  BY SameFile
<1>2. Within(scan.hint, meta)' = Within(scan'.hint, meta')
  BY DEF Within
<1>. QED  BY <1>1, <1>2 DEF CalmHint

\* The meta page of now is good for it.
LEMMA HintOfNow ==
  ASSUME RewriteInv, UNCHANGED vars, scan'.hint = meta
  PROVE  CalmHint'
<1>1. kind \in Kinds /\ ImageSound(image) /\ MetaSound(meta, image)
  BY DEF RewriteInv
<1>2. meta' = meta
  BY SameFile
<1>3. Within(scan.hint, meta)' = Within(scan'.hint, meta')
  BY DEF Within
<1>4. Within(meta, meta)
  <2>1. \A c \in Chain : meta.len[c] \in Nat
    BY <1>1, MetaType
  <2>. QED  BY <2>1 DEF Within
<1>5. /\ meta.len \in [Chain -> Nat] /\ meta.len["ids"] = meta.len["codes"]
      /\ meta.len["scales"] = meta.len["codes"] /\ meta.len["dir"] = meta.len["coarse"]
  BY <1>1, IvfMeta
<1>. QED  BY <1>2, <1>3, <1>4, <1>5 DEF CalmHint

\* The install begins.
LEMMA BeginInstallCalm ==
  ASSUME RewriteInv, CopiesKept, CalmState, BeginInstall
  PROVE  CalmState'
<1>1. PICK pc \in {"coarse", "whole"} :
        /\ pc = "coarse" => meta.len["coarse"] > 0
        /\ scan' = [scan EXCEPT !.pc = pc, !.hint = meta]
  BY DEF BeginInstall
<1>2. UNCHANGED vars
  BY ScanKeepsFile DEF ScanStep
<1>3. scan'.pc = pc /\ scan'.hint = meta /\ scan'.wanted = scan.wanted
  BY <1>1, Fields DEF CopiesKept
<1>4. /\ kind \in Kinds /\ ImageSound(image) /\ MetaSound(meta, image)
  BY DEF RewriteInv
<1>5. CalmHint'
  BY <1>2, <1>3, HintOfNow
<1>6. CalmInstall' /\ CalmCopy'
  BY <1>1, <1>3 DEF CalmInstall, CalmCopy, Installing, Searching
<1>7. ASSUME NEW i \in DOMAIN image.rows PROVE SlotRead(i)'
  <2>1. /\ meta.len["codes"] = Len(image.rows) /\ Len(image.rows) \in Nat
        /\ DOMAIN image.rows = 1 .. Len(image.rows)
    BY <1>4, IvfContent, IvfMeta
  <2>2. i <= meta.len["codes"]
    BY <2>1
  <2>. QED  BY <1>3, <2>2 DEF SlotRead, Searching
<1>. QED  BY <1>2, <1>3, <1>5, <1>6, <1>7, ScanCalmNext

\* It reads the centroids, the cells and the scales.
LEMMA InstallCalm ==
  ASSUME RewriteInv, CopiesKept, CalmState, ReadCentroids \/ ReadDirectory \/ ReadScales
  PROVE  CalmState' /\ answer' = answer
<1>. DEFINE n == scan.hint.len["codes"]
<1>1. UNCHANGED vars
  BY ScanKeepsFile DEF ScanStep
<1>2. /\ DOMAIN scan = {"pc", "hint", "dir", "scales", "mask", "stale", "calm", "wanted"}
      /\ CalmFile /\ CalmHint /\ CalmInstall
  BY Fields DEF CopiesKept, CalmState
<1>3. scan.pc \in Installing
  BY DEF ReadCentroids, ReadDirectory, ReadScales, Installing
<1>4. InFile(scan.hint.at, "coarse", scan.hint.len["coarse"])
  BY <1>2, <1>3, HintInFile DEF Chain
<1>5. InFile(scan.hint.at, "dir", scan.hint.len["dir"])
  BY <1>2, <1>3, HintInFile DEF Chain
<1>6. InFile(scan.hint.at, "scales", scan.hint.len["scales"])
  BY <1>2, <1>3, HintInFile DEF Chain
<1>7. image' = image
  BY <1>1, SameFile
<1>8. /\ n \in Nat /\ scan.hint.len["dir"] = scan.hint.len["coarse"]
      /\ scan.hint.len["scales"] = n /\ scan.hint.len["coarse"] > 0
  BY <1>2, <1>3 DEF CalmHint, CalmInstall, Chain
<1>9. ASSUME scan'.hint = scan.hint, scan'.wanted = scan.wanted, copy' = copy,
             scan'.pc \in {"dir", "whole", "scales", "ids"},
             scan'.pc \in {"scales", "ids"} => scan'.dir \in 0 .. n,
             scan'.pc = "ids" => scan'.scales = [i \in 1 .. n |-> image.rows[i].vec]
      PROVE  CalmState'
  <2>1. CalmHint'
    BY <1>1, <1>2, <1>3, <1>9, HintKept
  <2>2. CalmInstall'
    BY <1>7, <1>8, <1>9 DEF CalmInstall, ColumnOf
  <2>3. scan'.pc \notin Searching'
    BY <1>9 DEF Searching
  <2>4. CalmCopy'
    BY <2>3 DEF CalmCopy
  <2>5. ASSUME NEW i, SlotRead(i) PROVE SlotRead(i)'
    BY <1>3, <1>9, <2>3, <2>5 DEF SlotRead
  <2>. QED  BY <1>1, <1>9, <2>1, <2>2, <2>4, <2>5, ScanCalmNext
<1>10. CASE ReadCentroids
  <2>1. scan' = [scan EXCEPT !.pc = "dir"] /\ copy' = copy /\ answer' = answer
    BY <1>4, <1>10 DEF ReadCentroids
  <2>2. scan'.hint = scan.hint /\ scan'.wanted = scan.wanted /\ scan'.pc = "dir"
    BY <1>2, <2>1
  <2>. QED  BY <1>9, <2>1, <2>2
<1>11. CASE ReadDirectory
  <2>1. PICK rows \in DirectoryRows(scan.hint, n + 1) :
          /\ scan' = [scan EXCEPT !.pc = IF rows > n THEN "whole" ELSE "scales",
                                  !.dir = rows]
          /\ copy' = copy /\ answer' = answer
    BY <1>5, <1>11 DEF ReadDirectory
  <2>2. rows = image.cells /\ rows \in Nat
    BY <1>2, <1>3, <1>8, <2>1, CalmDirectory
  <2>. DEFINE pc == IF rows > n THEN "whole" ELSE "scales"
  <2>3. pc \in {"whole", "scales"} /\ (pc = "scales" => rows \in 0 .. n)
    BY <1>8, <2>2
  <2>4. scan' = [scan EXCEPT !.pc = pc, !.dir = rows]
    BY <2>1
  <2>. HIDE DEF pc
  <2>5. /\ scan'.hint = scan.hint /\ scan'.wanted = scan.wanted /\ scan'.pc = pc
        /\ scan'.dir = rows
    BY <1>2, <2>4
  <2>. HIDE DEF n
  <2>. QED  BY <1>9, <2>1, <2>3, <2>5
<1>12. CASE ReadScales
  <2>. DEFINE scales == Chunk(scan.hint, "scales")
  <2>1. /\ scan' = [scan EXCEPT !.pc = "ids", !.scales = scales]
        /\ copy' = copy /\ answer' = answer /\ scan.pc = "scales"
    BY <1>6, <1>12 DEF ReadScales
  <2>2. scales = [i \in 1 .. n |-> image.rows[i].vec]
    <3>1. scales = [i \in 1 .. n |-> ItemAt(scan.hint.at, "scales", i)]
      BY <1>8 DEF Chunk
    <3>2. n > 0 => /\ n <= meta.len["scales"]
                   /\ scan.hint.at["scales"].first = meta.at["scales"].first
      BY <1>2, <1>3, <1>8 DEF CalmHint, Within, Chain
    <3>3. meta.len["scales"] = Len(image.rows) /\ Len(image.rows) \in Nat
      BY IvfMeta, IvfContent DEF RewriteInv
    <3>4. n <= Len(image.rows)
      BY <1>8, <3>2, <3>3
    <3>5. \A i \in 1 .. n : ItemAt(scan.hint.at, "scales", i) = image.rows[i].vec
      BY <1>2, <1>8, <3>2, <3>4, CalmColumn
    <3>. HIDE DEF n, scales
    <3>. QED  BY <3>1, <3>5
  <2>3. scan.dir \in 0 .. n
    BY <1>2, <1>3, <2>1 DEF CalmInstall
  <2>. HIDE DEF scales, n
  <2>4. /\ scan'.hint = scan.hint /\ scan'.wanted = scan.wanted /\ scan'.pc = "ids"
        /\ scan'.dir = scan.dir /\ scan'.scales = scales
    BY <1>2, <2>1
  <2>. QED  BY <1>9, <2>1, <2>2, <2>3, <2>4
<1>. QED  BY <1>10, <1>11, <1>12

\* A copy is installed.
LEMMA InstalledCalm ==
  ASSUME RewriteInv, CopiesKept, CalmState, ReadIds \/ InstallWhole
  PROVE  CalmState' /\ answer' = answer
<1>. DEFINE n == Len(image.rows)
            ids == Chunk(meta, "ids")
            codes == Chunk(meta, "codes")
            scales == Chunk(meta, "scales")
            current == KeyIsCurrent
<1>1. UNCHANGED vars /\ answer' = answer
  BY ScanKeepsFile DEF ScanStep, ReadIds, InstallWhole
<1>2. /\ DOMAIN scan = {"pc", "hint", "dir", "scales", "mask", "stale", "calm", "wanted"}
      /\ CalmFile /\ CalmHint /\ CalmInstall
  BY Fields DEF CopiesKept, CalmState
<1>3. kind \in Kinds /\ ImageSound(image) /\ MetaSound(meta, image)
  BY DEF RewriteInv
<1>4. /\ n \in Nat /\ DOMAIN image.rows = 1 .. n
      /\ Content(image)["codes"] = [i \in 1 .. n |-> image.rows[i].vec]
      /\ Content(image)["scales"] = [i \in 1 .. n |-> image.rows[i].vec]
      /\ Content(image)["ids"] = [i \in 1 .. n |-> image.rows[i].id]
  BY <1>3, IvfContent
<1>5. \A c \in {"codes", "scales", "ids"} : Chunk(meta, c) = Content(image)[c]
  <2>1. ASSUME NEW c \in {"codes", "scales", "ids"}, NEW i \in 1 .. meta.len[c]
        PROVE  HasItem(disk, meta.at, c, i, Content(image)[c][i])
    <3>1. c \in Chain \ {"tomb"}
      BY DEF Chain
    <3>. QED  BY <1>2, <3>1 DEF CalmFile
  <2>. QED  BY <1>3, <2>1, ColumnsRead
<1>6. /\ ids = [i \in 1 .. n |-> image.rows[i].id]
      /\ codes = [i \in 1 .. n |-> image.rows[i].vec]
      /\ scales = [i \in 1 .. n |-> image.rows[i].vec]
  BY <1>4, <1>5
<1>7. Len(ids) = n
  BY <1>4, <1>6
<1>8. image' = image /\ meta' = meta
  BY <1>1, SameFile
<1>9. meta.len["ids"] = n
  BY <1>3, IvfMeta
<1>. HIDE DEF n, ids, codes, scales, current
<1>10. ASSUME scan'.pc = "look", scan'.wanted = scan.wanted, copy'.ids = ids,
              copy'.scales = [i \in 1 .. n |-> image.rows[i].vec],
              copy'.whole => copy'.codes = [i \in 1 .. n |-> image.rows[i].vec],
              ~ copy'.whole =>
                /\ copy'.cells \in 0 .. n
                /\ n > 0 => copy'.at["codes"].first = meta.at["codes"].first
       PROVE  CalmState'
  <2>1. scan'.pc \notin Installing' /\ scan'.pc # "search" /\ scan'.pc # "tomb"
    BY <1>10 DEF Installing
  <2>2. CalmHint' /\ CalmInstall'
    BY <2>1 DEF CalmHint, CalmInstall
  <2>3. CalmCopy'
    <3>1. n \in 0 .. n
      BY <1>4
    <3>2. Len(copy'.ids) = n /\ n = Len(image'.rows)
      BY <1>4, <1>6, <1>8, <1>10 DEF n
    <3>3. /\ copy'.ids = [i \in 1 .. n |-> image'.rows[i].id]
          /\ copy'.scales = [i \in 1 .. n |-> image'.rows[i].vec]
          /\ copy'.whole => copy'.codes = [i \in 1 .. n |-> image'.rows[i].vec]
      BY <1>6, <1>8, <1>10, Zenon
    <3>4. ~ copy'.whole => /\ copy'.cells \in 0 .. n
                           /\ n > 0 => copy'.at["codes"].first = meta'.at["codes"].first
      BY <1>8, <1>10
    <3>. HIDE DEF n
    <3>. QED  BY <2>1, <3>1, <3>2, <3>3, <3>4 DEF CalmCopy, ColumnOf
  <2>4. ASSUME NEW i \in DOMAIN image.rows PROVE SlotRead(i)'
    <3>1. i <= Len(copy'.ids)
      BY <1>4, <1>7, <1>10
    <3>. QED  BY <1>10, <2>1, <3>1 DEF SlotRead
  <2>. QED  BY <1>1, <1>10, <2>2, <2>3, <2>4, ScanCalmNext
<1>11. CASE ReadIds /\ meta.len["ids"] # scan.hint.len["ids"]
  <2>1. scan' = [scan EXCEPT !.pc = "whole"] /\ copy' = copy
    BY <1>11 DEF ReadIds
  <2>2. scan'.pc = "whole" /\ scan'.wanted = scan.wanted
    BY <1>2, <2>1
  <2>3. scan'.pc \notin Installing' /\ scan'.pc \notin Searching' /\ scan'.pc # "search"
        /\ scan'.pc # "tomb"
    BY <2>2 DEF Installing, Searching
  <2>4. CalmHint' /\ CalmInstall' /\ CalmCopy'
    BY <2>3 DEF CalmHint, CalmInstall, CalmCopy
  <2>5. \A i : SlotRead(i)'
    BY <2>3 DEF SlotRead
  <2>. QED  BY <1>1, <2>2, <2>4, <2>5, ScanCalmNext
<1>12. CASE ReadIds /\ meta.len["ids"] = scan.hint.len["ids"]
  <2>1. /\ copy' = [on |-> TRUE, current |-> current, whole |-> FALSE,
                    at |-> scan.hint.at, codes |-> <<>>, scales |-> scan.scales,
                    ids |-> ids, cells |-> scan.dir]
        /\ scan' = [scan EXCEPT !.pc = "look"] /\ scan.pc = "ids"
    BY <1>12 DEF ReadIds, current, ids
  <2>2. scan'.pc = "look" /\ scan'.wanted = scan.wanted
    BY <1>2, <2>1
  <2>3. /\ copy'.ids = ids /\ copy'.scales = scan.scales /\ copy'.whole = FALSE
        /\ copy'.cells = scan.dir /\ copy'.at = scan.hint.at
    BY <2>1
  <2>4. scan.hint.len["codes"] = n
    BY <1>2, <1>9, <1>12, <2>1 DEF CalmHint, Installing
  <2>5. scan.dir \in 0 .. n /\ scan.scales = [i \in 1 .. n |-> image.rows[i].vec]
    BY <1>2, <2>1, <2>4 DEF CalmInstall, ColumnOf, Installing
  <2>6. n > 0 => scan.hint.at["codes"].first = meta.at["codes"].first
    BY <1>2, <2>1, <2>4 DEF CalmHint, Installing, Within, Chain
  <2>. QED  BY <1>1, <1>10, <2>2, <2>3, <2>5, <2>6
<1>13. CASE InstallWhole
  <2>1. /\ copy' = [on |-> TRUE, current |-> current, whole |-> TRUE, at |-> meta.at,
                    codes |-> codes, scales |-> scales, ids |-> ids, cells |-> 0]
        /\ scan' = [scan EXCEPT !.pc = "look"]
    BY <1>13 DEF InstallWhole, FullCopy, current, codes, scales, ids
  <2>2. scan'.pc = "look" /\ scan'.wanted = scan.wanted
    BY <1>2, <2>1
  <2>3. copy'.ids = ids /\ copy'.scales = scales /\ copy'.codes = codes /\ copy'.whole = TRUE
    BY <2>1
  <2>. QED  BY <1>1, <1>6, <1>10, <2>2, <2>3
<1>. QED  BY <1>11, <1>12, <1>13

\* The meta page is read again before the tombstones.
LEMMA MetaAgainCalm ==
  ASSUME RewriteInv, CopiesKept, CalmState, ReadMetaAgain
  PROVE  CalmState'
<1>1. UNCHANGED vars
  BY ScanKeepsFile DEF ScanStep
<1>2. /\ scan' = [scan EXCEPT !.pc = "tomb", !.hint = meta] /\ copy' = copy /\ scan.pc = "look"
  BY DEF ReadMetaAgain
<1>3. scan'.pc = "tomb" /\ scan'.hint = meta /\ scan'.wanted = scan.wanted
  BY <1>2, Fields DEF CopiesKept
<1>4. image' = image /\ meta' = meta
  BY <1>1, SameFile
<1>5. CalmHint'
  BY <1>1, <1>3, HintOfNow
<1>6. scan'.pc \notin Installing'
  BY <1>3 DEF Installing
<1>7. scan.pc \in Searching /\ scan'.pc \in Searching' /\ scan'.pc # "search"
  BY <1>2, <1>3 DEF Searching
<1>8. CalmInstall'
  BY <1>6 DEF CalmInstall
<1>9. CalmCopy'
  BY <1>2, <1>4, <1>7 DEF CalmState, CalmCopy, ColumnOf
<1>10. \A i : SlotRead(i) => SlotRead(i)'
  BY <1>2, <1>6, <1>7 DEF SlotRead
<1>. QED  BY <1>1, <1>3, <1>5, <1>8, <1>9, <1>10, ScanCalmNext

\* The rows in cells, by the disk or by the copy, are not more than there are.
LEMMA CellRowsCalm ==
  ASSUME RewriteInv, CalmState, scan.pc = "tomb",
         NEW rows \in CellRows(scan.hint, Len(copy.ids))
  PROVE  rows \in 0 .. Len(copy.ids)
<1>. DEFINE n == Len(copy.ids)
<1>1. /\ CalmFile /\ CalmHint /\ scan.pc \in Installing \cup {"tomb"}
      /\ n \in 0 .. Len(image.rows) /\ (~ copy.whole => copy.cells \in 0 .. n)
  BY DEF CalmState, CalmCopy, Searching
<1>2. n \in Nat
  BY <1>1
<1>. HIDE DEF n
<1>3. CASE ~ copy.whole
  BY <1>1, <1>3 DEF CellRows, n
<1>4. CASE copy.whole /\ scan.hint.len["dir"] = 0
  <2>1. rows = n
    BY <1>4 DEF CellRows, n
  <2>. QED  BY <1>2, <2>1 DEF n
<1>5. CASE copy.whole /\ scan.hint.len["dir"] # 0
  <2>1. scan.hint.len["dir"] \in Nat
    BY <1>1 DEF CalmHint, Chain
  <2>2. scan.hint.len["dir"] > 0
    BY <1>5, <2>1
  <2>3. PICK k \in DirectoryRows(scan.hint, n) : rows = IF k > n THEN n ELSE k
    BY <1>5 DEF CellRows, n
  <2>4. DirectoryRows(scan.hint, n) = {image.cells} /\ image.cells \in Nat
    BY <1>1, <2>2, CalmDirectory
  <2>5. k \in Nat
    BY <2>3, <2>4
  <2>6. rows \in 0 .. n
    BY <1>2, <2>3, <2>5
  <2>. QED  BY <2>6 DEF n
<1>. QED  BY <1>3, <1>4, <1>5

\* The tombstones leave every wanted slot in the mask.
LEMMA TombstonesCalm ==
  ASSUME RewriteInv, CopiesKept, CalmState, ReadTombstones
  PROVE  CalmState' /\ answer' = answer
<1>. DEFINE m == scan.hint
            n == Len(copy.ids)
            bit == Chunk(m, "tomb")
            junk == {i \in DOMAIN bit : bit[i] = Junk}
            Set(i) == i \in DOMAIN bit /\ bit[i] \in {TRUE}
            Mask(rows, dead) == {i \in CellSlots(rows, n) : ~ Set(i) /\ i \notin dead}
<1>1. UNCHANGED vars /\ scan.pc = "tomb"
  BY ScanKeepsFile DEF ScanStep, ReadTombstones
<1>2. /\ CalmFile /\ CalmHint /\ scan.pc \in Installing \cup {"tomb"}
      /\ n \in 0 .. Len(image.rows)
  BY <1>1 DEF CalmState, CalmCopy, Searching
<1>3. \A c \in {"dir", "tomb"} : InFile(m.at, c, m.len[c])
  BY <1>2, HintInFile DEF Chain
<1>4. PICK dead \in SUBSET junk, rows \in CellRows(m, n) :
        scan' = [scan EXCEPT !.pc = "search", !.mask = Mask(rows, dead)]
        /\ copy' = copy /\ answer' = answer
  BY <1>3 DEF ReadTombstones
<1>. DEFINE mask == Mask(rows, dead)
<1>5. /\ scan' = [scan EXCEPT !.pc = "search", !.mask = mask]
      /\ copy' = copy /\ answer' = answer
  BY <1>4
<1>6. rows \in 0 .. n /\ n \in Nat
  BY <1>1, <1>2, <1>4, CellRowsCalm
<1>7. CellSlots(rows, n) = 1 .. n
  <2>. HIDE DEF n
  <2>. QED  BY <1>6 DEF CellSlots
<1>8. ASSUME NEW r, NEW i \in DOMAIN image.rows, SlotKept(r, i), SlotRead(i)
      PROVE  i \in mask
  <2>1. i \in 1 .. Len(image.rows) /\ Len(image.rows) \in Nat
    BY IvfContent DEF RewriteInv
  <2>2. i <= n
    BY <1>1, <1>8 DEF SlotRead, Searching
  <2>3. i \in 1 .. n
    <3>. HIDE DEF n
    <3>. QED  BY <1>6, <2>1, <2>2
  <2>4. DOMAIN bit = 1 .. m.len["tomb"]
    BY DEF Chunk
  <2>5. ASSUME i \in DOMAIN bit PROVE bit[i] = FALSE
    <3>1. m.len["tomb"] \in Nat
      BY <1>2 DEF CalmHint, Chain
    <3>2. i <= m.len["tomb"] /\ m.len["tomb"] > 0
      BY <2>1, <2>4, <2>5, <3>1
    <3>3. m.at["tomb"].first = meta.at["tomb"].first /\ m.len["tomb"] <= meta.len["tomb"]
      BY <1>2, <3>2 DEF CalmHint, Within, Chain
    <3>4. meta.len["tomb"] \in Nat
      BY IvfMeta DEF RewriteInv, Chain
    <3>5. i <= meta.len["tomb"]
      BY <2>1, <3>1, <3>2, <3>3, <3>4
    <3>6. HasItem(disk, meta.at, "tomb", i, FALSE)
      BY <1>8, <3>5 DEF SlotKept
    <3>7. ItemAt(m.at, "tomb", i) = FALSE
      BY <3>3, <3>6, SamePlace
    <3>. QED  BY <2>4, <2>5, <3>7 DEF Chunk
  <2>6. Junk # FALSE
    BY ReadersAssumption
  <2>7. i \notin junk
    <3>. HIDE DEF bit
    <3>. QED  BY <2>5, <2>6
  <2>8. ~ Set(i)
    <3>. HIDE DEF bit
    <3>. QED  BY <2>5
  <2>. HIDE DEF bit, n, Set, junk
  <2>. QED  BY <1>4, <1>7, <2>3, <2>7, <2>8
<1>9. mask \subseteq 1 .. n
  <2>. HIDE DEF n, Set
  <2>. QED  BY <1>7
<1>. HIDE DEF mask
<1>10. scan'.pc = "search" /\ scan'.mask = mask /\ scan'.wanted = scan.wanted
       /\ scan'.hint = scan.hint
  BY <1>5, Fields DEF CopiesKept
<1>11. image' = image /\ meta' = meta
  BY <1>1, SameFile
<1>12. CalmHint'
  BY <1>1, <1>2, <1>10, HintKept
<1>13. scan'.pc \notin Installing' /\ scan.pc \in Searching /\ scan'.pc \in Searching'
  BY <1>1, <1>10 DEF Installing, Searching
<1>14. CalmInstall'
  BY <1>13 DEF CalmInstall
<1>15. CalmCopy'
  BY <1>5, <1>9, <1>10, <1>11, <1>13 DEF CalmState, CalmCopy, ColumnOf
<1>16. \A r \in scan.wanted : \A i \in DOMAIN image.rows :
         SlotKept(r, i) /\ SlotRead(i) => SlotRead(i)'
  BY <1>5, <1>8, <1>10, <1>13 DEF SlotRead
<1>. QED  BY <1>1, <1>5, <1>10, <1>12, <1>14, <1>15, <1>16, ScanCalmNext

\* The search finds every row that is wanted.
LEMMA SearchCalm ==
  ASSUME RewriteInv, CopiesKept, CalmState, Search
  PROVE  /\ scan'.pc = "none" /\ ~ answer'.failed
         /\ answer'.wanted \subseteq answer'.found
<1>. DEFINE n == Len(copy.ids)
            Code(i) == IF copy.whole THEN copy.codes[i] ELSE ItemAt(copy.at, "codes", i)
            found == {[id |-> copy.ids[i], vec |-> Code(i)] :
                        i \in {s \in scan.mask : Code(s) = copy.scales[s]}}
<1>1. scan.pc = "search" /\ CalmFile
  BY DEF Search, CalmState
<1>2. /\ n \in 0 .. Len(image.rows) /\ copy.ids = [i \in 1 .. n |-> image.rows[i].id]
      /\ copy.scales = [i \in 1 .. n |-> image.rows[i].vec]
      /\ copy.whole => copy.codes = [i \in 1 .. n |-> image.rows[i].vec]
      /\ ~ copy.whole /\ n > 0 => copy.at["codes"].first = meta.at["codes"].first
      /\ scan.mask \subseteq 1 .. n
  BY <1>1 DEF CalmState, CalmCopy, ColumnOf, Searching
<1>3. /\ image.rows \in Seq(Row) /\ Len(image.rows) \in Nat
      /\ DOMAIN image.rows = 1 .. Len(image.rows) /\ meta.len["codes"] = Len(image.rows)
  BY IvfContent, IvfMeta DEF RewriteInv
<1>4. n \in Nat /\ n <= Len(image.rows)
  BY <1>2, <1>3
<1>. HIDE DEF n
<1>5. ASSUME ~ copy.whole, NEW i \in scan.mask PROVE InFile(copy.at, "codes", i)
  <2>1. i \in 1 .. n
    BY <1>2
  <2>2. i \in 1 .. meta.len["codes"] /\ copy.at["codes"].first = meta.at["codes"].first
    BY <1>2, <1>3, <1>4, <1>5, <2>1
  <2>3. BlockOf(meta.at, "codes", i) \in DOMAIN disk
    BY <2>2, BlockInFile DEF Chain
  <2>. QED  BY <2>2, <2>3 DEF InFile, BlockOf
<1>6. /\ answer' = [on |-> TRUE, calm |-> scan.calm, failed |-> FALSE,
                    found |-> found, wanted |-> scan.wanted]
      /\ scan' = NoScan
  BY <1>5 DEF Search
<1>7. ASSUME NEW i \in 1 .. n PROVE Code(i) = image.rows[i].vec
  <2>1. CASE copy.whole
    <3>1. copy.codes[i] = image.rows[i].vec
      BY <1>2, <1>7, <2>1
    <3>. QED  BY <2>1, <3>1
  <2>2. CASE ~ copy.whole
    <3>1. n > 0 => copy.at["codes"].first = meta.at["codes"].first
      BY <1>2, <2>2
    <3>2. \A j \in 1 .. n : ItemAt(copy.at, "codes", j) = image.rows[j].vec
      BY <1>1, <1>4, <3>1, CalmColumn
    <3>. QED  BY <1>7, <2>2, <3>2
  <2>. QED  BY <2>1, <2>2
<1>. HIDE DEF Code
<1>8. ASSUME NEW r \in scan.wanted PROVE r \in found
  <2>1. PICK i \in DOMAIN image.rows : SlotKept(r, i) /\ SlotRead(i)
    BY DEF CalmState
  <2>2. image.rows[i] = r /\ i \in scan.mask /\ r \in Row
    BY <1>1, <1>3, <2>1 DEF SlotKept, SlotRead
  <2>3. i \in 1 .. n
    BY <1>2, <2>2
  <2>4. copy.ids[i] = r.id /\ copy.scales[i] = r.vec /\ Code(i) = r.vec
    BY <1>2, <1>7, <2>2, <2>3
  <2>5. [id |-> copy.ids[i], vec |-> Code(i)] = r
    BY <2>2, <2>4 DEF Row
  <2>. QED  BY <2>2, <2>4, <2>5
<1>. HIDE DEF found
<1>9. scan'.pc = "none" /\ ~ answer'.failed
  BY <1>6 DEF NoScan
<1>. QED  BY <1>6, <1>8, <1>9

-----------------------------------------------------------------------------
(* The invariant and its theorems.                                         *)

\* The answer in the next state.
LEMMA AnswerNext ==
  ASSUME answer'.on /\ answer'.calm => ~ answer'.failed /\ answer'.wanted \subseteq answer'.found
  PROVE  CalmScanComplete'
  BY DEF CalmScanComplete

\* A scan is as calm as before its step, but for its first and last one.
LEMMA StepKeepsCalm ==
  ASSUME CopiesKept, ScanStep, ~ BeginScan, ~ Search
  PROVE  /\ scan.pc # "none"
         /\ scan'.pc # "none" => scan'.calm = scan.calm
         /\ answer' = answer \/ Fail
<1>1. DOMAIN scan = {"pc", "hint", "dir", "scales", "mask", "stale", "calm", "wanted"}
  BY Fields DEF CopiesKept
<1>2. CASE Fail
  <2>1. scan.pc # "none"
    BY DEF ScanStep, BeginInstall, ReadCentroids, ReadDirectory, ReadScales, ReadIds,
           InstallWhole, ReadMetaAgain, ReadTombstones
  <2>2. scan'.pc = "none"
    BY <1>2 DEF Fail, NoScan
  <2>. QED  BY <1>2, <2>1, <2>2
<1>3. CASE BeginInstall
  BY <1>1, <1>3 DEF BeginInstall
<1>4. CASE ReadCentroids /\ ~ Fail
  BY <1>1, <1>4 DEF ReadCentroids
<1>5. CASE ReadDirectory /\ ~ Fail
  BY <1>1, <1>5 DEF ReadDirectory
<1>6. CASE ReadScales /\ ~ Fail
  <2>. DEFINE scales == Chunk(scan.hint, "scales")
  <2>1. /\ scan' = [scan EXCEPT !.pc = "ids", !.scales = scales]
        /\ answer' = answer /\ scan.pc = "scales"
    BY <1>6 DEF ReadScales
  <2>. HIDE DEF scales
  <2>. QED  BY <1>1, <2>1
<1>7. CASE ReadIds
  BY <1>1, <1>7 DEF ReadIds
<1>8. CASE InstallWhole
  BY <1>1, <1>8 DEF InstallWhole
<1>9. CASE ReadMetaAgain
  BY <1>1, <1>9 DEF ReadMetaAgain
<1>10. CASE ReadTombstones /\ ~ Fail
  <2>1. /\ answer' = answer /\ scan.pc = "tomb"
        /\ \E mask : scan' = [scan EXCEPT !.pc = "search", !.mask = mask]
    BY <1>10 DEF ReadTombstones
  <2>2. PICK mask : scan' = [scan EXCEPT !.pc = "search", !.mask = mask]
    BY <2>1
  <2>. QED  BY <1>1, <2>1, <2>2
<1>. QED  BY <1>2, <1>3, <1>4, <1>5, <1>6, <1>7, <1>8, <1>9, <1>10 DEF ScanStep

\* The steps of a scan.
LEMMA ScanStepCalm ==
  ASSUME RewriteInv, ReadersInv, ScanStep
  PROVE  CalmScan' /\ CalmScanComplete'
<1>1. CopiesKept /\ AllApart /\ CalmScan /\ CalmScanComplete
  BY DEF ReadersInv, CopiesKept, AllApart
<1>2. scan.pc # "none" /\ scan.calm => CalmState
  BY <1>1 DEF CalmScan, CalmState
<1>3. (scan'.pc # "none" /\ scan'.calm => CalmState') => CalmScan'
  BY DEF CalmScan, CalmState
<1>4. ASSUME answer' = answer PROVE CalmScanComplete'
  BY <1>1, <1>4 DEF CalmScanComplete
<1>5. CASE BeginScan
  <2>1. answer'.on = FALSE
    BY <1>5 DEF BeginScan, NoAnswer
  <2>. QED  BY <1>1, <1>3, <1>5, <2>1, BeginScanCalm, AnswerNext
<1>6. CASE Search
  <2>1. scan.pc = "search" /\ scan' = NoScan
    BY <1>6 DEF Search, Fail
  <2>2. answer'.calm = scan.calm
    BY <1>6 DEF Search, Fail
  <2>3. scan'.pc = "none"
    BY <2>1 DEF NoScan
  <2>4. ASSUME scan.calm PROVE ~ answer'.failed /\ answer'.wanted \subseteq answer'.found
    BY <1>1, <1>2, <1>6, <2>1, <2>4, SearchCalm
  <2>. QED  BY <1>3, <2>2, <2>3, <2>4, AnswerNext
<1>7. CASE ~ BeginScan /\ ~ Search
  <2>1. /\ scan.pc # "none" /\ (scan'.pc # "none" => scan'.calm = scan.calm)
        /\ answer' = answer \/ Fail
    BY <1>1, <1>7, StepKeepsCalm
  <2>2. CASE scan.calm
    <3>1. CalmState
      BY <1>2, <2>1, <2>2
    <3>2. CalmState' /\ answer' = answer
      <4>1. CASE BeginInstall
        BY <1>1, <3>1, <4>1, BeginInstallCalm DEF BeginInstall
      <4>2. CASE ReadMetaAgain
        BY <1>1, <3>1, <4>2, MetaAgainCalm DEF ReadMetaAgain
      <4>. QED
        BY <1>1, <1>7, <3>1, <4>1, <4>2, InstallCalm, InstalledCalm, TombstonesCalm
        DEF ScanStep
    <3>. QED  BY <1>3, <1>4, <3>2
  <2>3. CASE ~ scan.calm
    <3>1. CalmScan'
      BY <1>3, <2>1, <2>3
    <3>2. ASSUME Fail PROVE CalmScanComplete'
      <4>1. answer'.calm = scan.calm
        BY <3>2 DEF Fail
      <4>. QED  BY <2>3, <4>1, AnswerNext
    <3>. QED  BY <1>4, <2>1, <3>1, <3>2
  <2>. QED  BY <2>2, <2>3
<1>. QED  BY <1>5, <1>6, <1>7

\* The steps of a rewrite.
LEMMA WriterCalm ==
  ASSUME RewriteInv, RewriteInv', ReadersInv,
         BeginRewrite \/ Rename \/ NewFile \/ (RewriteStep /\ UNCHANGED rvars)
  PROVE  CalmScan' /\ CalmScanComplete'
<1>1. /\ CopiesKept /\ AllApart /\ CalmScan /\ CalmScanComplete
      /\ DOMAIN scan = {"pc", "hint", "dir", "scales", "mask", "stale", "calm", "wanted"}
  BY Fields DEF ReadersInv, CopiesKept, AllApart
<1>2. scan.pc # "none" /\ scan.calm => CalmState
  BY <1>1 DEF CalmScan, CalmState
<1>3. (scan'.pc # "none" /\ scan'.calm => CalmState') => CalmScan'
  BY DEF CalmScan, CalmState
<1>4. CalmScanComplete'
  <2>1. answer' = answer
    BY DEF BeginRewrite, Rename, NewFile, rvars
  <2>. QED  BY <1>1, <2>1 DEF CalmScanComplete
<1>5. CASE BeginRewrite
  <2>. DEFINE calm == scan.calm /\ ~ Disturbs
              wanted == scan.wanted \cap LiveRows(job'.image)
  <2>1. scan' = [scan EXCEPT !.calm = calm, !.wanted = wanted]
    BY <1>5 DEF BeginRewrite
  <2>. HIDE DEF calm, wanted
  <2>2. scan'.pc = scan.pc
    BY <1>1, <2>1
  <2>3. CASE scan.pc # "none"
    BY <1>1, <1>2, <1>3, <1>4, <1>5, <2>3, BeginCalm
  <2>. QED  BY <1>3, <1>4, <2>2, <2>3
<1>6. CASE Rename
  <2>. DEFINE stale == scan.pc # "none"
  <2>1. scan' = [scan EXCEPT !.stale = stale]
    BY <1>6 DEF Rename
  <2>. HIDE DEF stale
  <2>2. scan'.pc = scan.pc /\ scan'.calm = scan.calm
    BY <1>1, <2>1
  <2>. QED  BY <1>1, <1>2, <1>3, <1>4, <1>6, <2>2, MetaCalm
<1>7. CASE NewFile
  BY <1>3, <1>4, <1>7 DEF NewFile
<1>8. CASE RewriteStep /\ UNCHANGED rvars
  <2>1. scan' = scan
    BY <1>8 DEF rvars
  <2>. QED  BY <1>2, <1>3, <1>4, <1>8, <2>1, PageCalm, EndCalm DEF RewriteStep
<1>. QED  BY <1>4, <1>5, <1>6, <1>7, <1>8

\* Every step keeps the invariant.
LEMMA NextReadersInv ==
  ASSUME RewriteInv, RewriteInv', ReadersInv, [ReadersNext]_allVars
  PROVE  ReadersInv'
<1>1. CopiesKept /\ AllApart /\ IdsApart(image) /\ CalmScan /\ CalmScanComplete
  BY DEF ReadersInv, CopiesKept, AllApart
<1>2. CopiesKept'
  BY <1>1, NextCopiesKept
<1>3. AllApart'
  BY <1>1, NextApart
<1>4. CASE UNCHANGED allVars
  <2>1. UNCHANGED vars /\ scan' = scan /\ copy' = copy /\ answer' = answer
    BY <1>4 DEF allVars, vars
  <2>2. CalmScanComplete'
    BY <1>1, <2>1 DEF CalmScanComplete
  <2>3. ASSUME CalmState PROVE CalmState'
    <3>1. image' = image /\ meta' = meta
      BY <2>1, SameFile
    <3>2. CalmHint' /\ CalmInstall' /\ CalmCopy'
      BY <2>1, <2>3, <3>1 DEF CalmState, CalmHint, CalmInstall, CalmCopy, Within, ColumnOf,
                              Installing, Searching
    <3>3. \A i : SlotRead(i) => SlotRead(i)'
      BY <2>1 DEF SlotRead, Installing, Searching
    <3>. QED  BY <2>1, <2>3, <3>2, <3>3, ScanCalmNext
  <2>4. CalmScan'
    BY <1>1, <2>1, <2>3 DEF CalmScan, CalmState
  <2>. QED  BY <1>2, <1>3, <2>2, <2>4 DEF ReadersInv, CopiesKept, AllApart
<1>5. CASE ReadersNext
  <2>1. CalmScan' /\ CalmScanComplete'
    BY <1>5, ScanStepCalm, WriterCalm DEF ReadersNext
  <2>. QED  BY <1>2, <1>3, <2>1 DEF ReadersInv, CopiesKept, AllApart
<1>. QED  BY <1>4, <1>5

\* No backend has a copy when the index has been built.
LEMMA InitReadersInv == ReadersInit => RewriteInv /\ ReadersInv
<1>1. SUFFICES ASSUME ReadersInit PROVE RewriteInv /\ ReadersInv
  OBVIOUS
<1>2. Init /\ copy = NoCopy /\ scan = NoScan /\ answer = NoAnswer
  BY <1>1 DEF ReadersInit
<1>3. RewriteInv /\ AllApart
  BY <1>2, InitRewriteInv, InitApart
<1>4. scan.pc = "none" /\ copy.on = FALSE /\ answer.on = FALSE
  BY <1>2 DEF NoScan, NoCopy, NoAnswer
<1>5. CurrentCopyIsImage /\ CalmScanComplete /\ InstallSound /\ CalmScan
  BY <1>4 DEF CurrentCopyIsImage, CalmScanComplete, InstallSound, CalmScan, Installing
<1>. QED  BY <1>2, <1>3, <1>5 DEF ReadersInv, AllApart

\* The file stays sound under the readers' steps, too: a scan writes nothing.
\* (try_install_ooc, ivf_setup_and_search.)
THEOREM ReadersInvariant == ReadersSpec => [](RewriteInv /\ ReadersInv)
<1>1. ReadersInit => RewriteInv /\ ReadersInv
  BY InitReadersInv
<1>2. RewriteInv /\ ReadersInv /\ [ReadersNext]_allVars => (RewriteInv /\ ReadersInv)'
  <2>1. SUFFICES ASSUME RewriteInv, ReadersInv, [ReadersNext]_allVars
                 PROVE  RewriteInv' /\ ReadersInv'
    OBVIOUS
  <2>2. [Next]_vars
    BY <2>1, NextStep DEF allVars, vars
  <2>3. RewriteInv'
    BY <2>1, <2>2, NextRewriteInv
  <2>. QED  BY <2>1, <2>3, NextReadersInv
<1>. QED  BY <1>1, <1>2, PTL DEF ReadersSpec

\* A copy that a later scan finds is of one image: of the rows, codes and cells
\* that the meta page of its version stands for, although an install out of
\* core reads each chain at another time and without the lock.
\* (try_install_ooc and install_whole_index, with the version as the key.)
THEOREM CopiesAreImages == ReadersSpec => []CurrentCopyIsImage
<1>1. RewriteInv /\ ReadersInv => CurrentCopyIsImage
  BY DEF ReadersInv
<1>. QED  BY <1>1, ReadersInvariant, PTL

\* A scan that only appends and new tombstones have overlapped ends without an
\* error and has every row that was live throughout, for any number of rewrites
\* at any of its steps.  (ivf_setup_and_search, ivf_setup_and_search_ooc.)
THEOREM CalmScansComplete == ReadersSpec => []CalmScanComplete
<1>1. RewriteInv /\ ReadersInv => CalmScanComplete
  BY DEF ReadersInv
<1>. QED  BY <1>1, ReadersInvariant, PTL

=============================================================================
