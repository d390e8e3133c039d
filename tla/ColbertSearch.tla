--------------------------- MODULE ColbertSearch ---------------------------
(***************************************************************************)
(* turbovec.colbert_search(): the documents of a table, each an array of   *)
(* token vectors, by late interaction with the token vectors of a query.   *)
(*                                                                         *)
(* Stage 1 finds candidates by their best single token.  It searches the   *)
(* persistent index on the token column, whose slots carry the TIDs of the *)
(* documents; without one, an index that the backend builds of the table   *)
(* and caches, with a map from slots to values of the id column beside it. *)
(* Stage 2 fetches the candidates' tokens, by TID or by id, and scores     *)
(* them exactly.  The stages are queries of their own: a transaction that  *)
(* has written takes a new snapshot for the second; with one snapshot for  *)
(* both the call is as if the stages followed each other.                  *)
(*                                                                         *)
(* Vectors are numbers: the dot product is the product, and normalising    *)
(* keeps the sign.  Quantization is left out of the scores of stage 1.     *)
(***************************************************************************)
EXTENDS Sublists, SequencesExt, FiniteSets, FiniteSetsExt, Functions

CONSTANTS
  Tid,          \* positions of tuples in the table: numbers
  DocId,        \* values of the id column: numbers
  Arrays,       \* arrays of token vectors
  Bad,          \* a token vector of another dimension than the query's
  NoDoc,        \* no row
  Query,        \* the token vectors of the query: at least one, none Bad
  PerTokenK,    \* slots found for a token of the query
  CandidateN,   \* documents that reach stage 2
  K,            \* documents that are returned
  Settings      \* of a call: the id column it names, and normalize_on_insert

ASSUME DocIdAssumption == DocId \subseteq Int /\ DocId # {} /\ IsFiniteSet(DocId)
ASSUME TokenAssumption ==
  /\ Bad \notin Int /\ Arrays \subseteq Seq(Int \cup {Bad})
  /\ Query \in Seq(Int) /\ Query # <<>>
ASSUME NoDocAssumption == NoDoc \notin [id : DocId, toks : Arrays]
ASSUME SettingsAssumption == Settings \subseteq [col : {"id", "other"}, norm : BOOLEAN]

VARIABLES
  documents, \* the rows that a new snapshot sees; the TIDs of deleted ones that
             \* VACUUM has not freed; as history, whether a row was changed or
             \* deleted since the table was last rewritten
  docIndex,  \* the persistent index: slots of TIDs and tokens, and tombstones;
             \* as history whether a document has moved since it was built
  docEntry,  \* the cached index: freshness pair and tokens; as history the
             \* setting and the id column it was built for
  slotDoc,   \* SLOT_DOC: the value of the id column for each slot
  docCall,   \* a call between its stages; as history whether the table is as
             \* it was and the index fit for it
  docAnswer  \* what the last step returned, if it ended a call

docVars == <<documents, docIndex, docEntry, slotDoc, docCall, docAnswer>>

-----------------------------------------------------------------------------
(* Rows, tokens and scores.                                                *)

Docs(rows) == {t \in Tid : rows[t] # NoDoc}

\* Each row has two columns that may serve as the id.
Value(row, col) == IF col = "id" THEN row.id ELSE Max(DocId) + Min(DocId) - row.id

SignOf(x) == IF x > 0 THEN 1 ELSE IF x < 0 THEN -1 ELSE 0
Normalised(toks, norm) == IF norm THEN [i \in DOMAIN toks |-> SignOf(toks[i])] ELSE toks

\* The tokens that match the query's dimension.
Matching(toks) == Kept(toks, {i \in DOMAIN toks : toks[i] # Bad})
Usable(toks) == toks # <<>> /\ Matching(toks) = toks

\* Mutant: a token that resembles none is counted as 0.
BestSimFloored(q, toks) == Max({q * toks[i] : i \in DOMAIN toks} \cup {0})

\* The similarity of the token most like q.
BestSim(q, toks) == Max({q * toks[i] : i \in DOMAIN toks})

\* max_sim_dot, and max_sim of the SQL surface.
MaxSim(query, toks) ==
  IF query = <<>> \/ toks = <<>> THEN 0
  ELSE SumFunction([i \in DOMAIN query |-> BestSim(query[i], toks)])

\* The n elements of S with the highest scores, by score and then by id.
Top(n, S) ==
  LET Before(a, b) == a.score > b.score \/ (a.score = b.score /\ a.id < b.id)
  IN  {a \in S : Cardinality({b \in S : Before(b, a)}) < n}

-----------------------------------------------------------------------------
NoDocEntry == [on |-> FALSE, node |-> 0, count |-> 0, codes |-> <<>>,
               col |-> "id", norm |-> FALSE]
NoDocIndex == [on |-> FALSE, codes |-> <<>>, tids |-> <<>>, tomb |-> {},
               norm |-> FALSE, moved |-> FALSE]
NoDocCall == [on |-> FALSE, byTid |-> FALSE, found |-> {},
              col |-> "id", norm |-> FALSE, sound |-> FALSE]
NoDocAnswer == [on |-> FALSE, docs |-> {}, col |-> "id", norm |-> FALSE, sound |-> FALSE]

NoDocs == [t \in Tid |-> NoDoc]
UniqueIds(rows) ==
  \A s, t \in Docs(rows) : rows[s].id = rows[t].id => s = t

ColbertInit ==
  /\ documents = [node |-> 1, rows |-> NoDocs, dead |-> {}, churned |-> FALSE]
  /\ docIndex = NoDocIndex
  /\ docEntry = NoDocEntry
  /\ slotDoc = <<>>
  /\ docCall = NoDocCall
  /\ docAnswer = NoDocAnswer

-----------------------------------------------------------------------------
(* The table, changed by any session.                                      *)

\* A position is free for reuse when no index names it.
Freed(t) == IF docIndex.on THEN documents.dead \cup {t} ELSE documents.dead

TableChanged ==
  /\ docCall' = [docCall EXCEPT !.sound = FALSE]
  /\ docAnswer' = NoDocAnswer

\* With no index on the table any free position is as good as the first.
InsertDoc(t, row) ==
  /\ ~ docIndex.on        \* aminsert takes the array for a vector and fails
  /\ t = Min(Tid \ Docs(documents.rows))
  /\ LET rows == [documents.rows EXCEPT ![t] = row]
     IN  UniqueIds(rows) /\ documents' = [documents EXCEPT !.rows = rows]
  /\ TableChanged
  /\ UNCHANGED <<docIndex, docEntry, slotDoc>>

DeleteDoc(t) ==
  /\ t \in Docs(documents.rows)
  /\ documents' = [documents EXCEPT !.rows[t] = NoDoc, !.dead = Freed(t), !.churned = TRUE]
  /\ TableChanged
  /\ UNCHANGED <<docIndex, docEntry, slotDoc>>

\* An UPDATE puts the new version of a row at another position.  A HOT one
\* changes no indexed column and makes no entry in any index.
Moved(t, u, row) ==
  /\ t \in Docs(documents.rows)
  /\ u \notin Docs(documents.rows) \cup documents.dead
  /\ documents' = [documents EXCEPT !.rows = [@ EXCEPT ![t] = NoDoc, ![u] = row],
                                    !.dead = Freed(t),
                                    !.churned = @ \/ row # documents.rows[t]]
  /\ TableChanged
  /\ UNCHANGED <<docEntry, slotDoc>>

HotUpdate(t, u) ==
  /\ docIndex.on          \* nothing else here depends on positions
  /\ Moved(t, u, documents.rows[t])
  /\ docIndex' = [docIndex EXCEPT !.moved = TRUE]

UpdateDoc(t, u, toks) ==
  /\ ~ docIndex.on
  /\ t \in Docs(documents.rows) /\ documents.rows[t].toks # toks
  /\ Moved(t, u, [documents.rows[t] EXCEPT !.toks = toks])
  /\ UNCHANGED docIndex

\* VACUUM sets the bits of all slots of a dead document.
Vacuum ==
  /\ documents.dead # {}
  /\ documents' = [documents EXCEPT !.dead = {}]
  /\ docIndex' = [docIndex EXCEPT !.tomb =
                    @ \cup {s \in DOMAIN docIndex.tids : docIndex.tids[s] \in documents.dead}]
  /\ docAnswer' = NoDocAnswer
  /\ UNCHANGED <<docEntry, slotDoc, docCall>>

\* The tokens of some documents, one slot for each, with the names of the
\* documents beside them.
Slots(docs, toks, name) ==
  LET order == SetToSeq(docs)
  IN  [codes |-> FlattenSeq([i \in DOMAIN order |-> toks[order[i]]]),
       names |-> FlattenSeq([i \in DOMAIN order |->
                               [j \in DOMAIN toks[order[i]] |-> name[order[i]]]])]

\* CREATE INDEX fails for a token of another dimension.  While the index
\* stands the cached one is not looked at; it is taken to be evicted.
CreateIndex(norm) ==
  LET rows == documents.rows
      built == Slots(Docs(rows),
                     [t \in Docs(rows) |-> Normalised(rows[t].toks, norm)],
                     [t \in Docs(rows) |-> t])
  IN  /\ ~ docIndex.on
      /\ \A t \in Docs(rows) : Matching(rows[t].toks) = rows[t].toks
      /\ docIndex' = [on |-> TRUE, codes |-> built.codes, tids |-> built.names,
                      tomb |-> {}, norm |-> norm, moved |-> FALSE]
      /\ docEntry' = NoDocEntry /\ slotDoc' = <<>>
      /\ docAnswer' = NoDocAnswer
      /\ UNCHANGED <<documents, docCall>>

DropIndex ==
  /\ docIndex.on /\ ~ docCall.on
  /\ docIndex' = NoDocIndex
  /\ documents' = [documents EXCEPT !.dead = {}]
  /\ docAnswer' = NoDocAnswer
  /\ UNCHANGED <<docEntry, slotDoc, docCall>>

\* TRUNCATE waits for the calls that read the table.
Truncate ==
  /\ ~ docCall.on /\ ~ docIndex.on
  /\ documents.node = 1
  /\ documents' = [node |-> 2, rows |-> NoDocs, dead |-> {}, churned |-> FALSE]
  /\ docAnswer' = NoDocAnswer
  /\ UNCHANGED <<docIndex, docEntry, slotDoc, docCall>>

-----------------------------------------------------------------------------
(* The cache.                                                              *)

\* Eviction takes the index and leaves the map; a search of another table, or
\* with another bit width, replaces the map and leaves the index.
EvictDocs ==
  /\ docEntry.on
  /\ docEntry' = NoDocEntry
  /\ docAnswer' = NoDocAnswer
  /\ UNCHANGED <<documents, docIndex, slotDoc, docCall>>

SearchElsewhere ==
  /\ slotDoc # <<>>
  /\ slotDoc' = <<>>
  /\ docAnswer' = NoDocAnswer
  /\ UNCHANGED <<documents, docIndex, docEntry, docCall>>

-----------------------------------------------------------------------------
(* Stage 1.                                                                *)

\* For each token of the query, slots of the mask with the highest scores.
Searches(codes, mask, query) ==
  {H \in [DOMAIN query -> SUBSET mask] :
     \A q \in DOMAIN query :
       /\ Cardinality(H[q]) = Min({PerTokenK, Cardinality(mask)})
       /\ \A s \in H[q], r \in mask \ H[q] : query[q] * codes[s] >= query[q] * codes[r]}

\* The documents of the slots found, at most CandidateN, by the best score any
\* of their slots has.
DocCandidates(H, codes, query, names) ==
  LET Found(d) == {f \in (DOMAIN query) \X (DOMAIN codes) :
                     f[2] \in H[f[1]] /\ names[f[2]] = d}
      found == {names[s] : s \in UNION Range(H)}
      scored == {[id |-> d, score |-> Max({query[f[1]] * codes[f[2]] : f \in Found(d)})] :
                   d \in found}
  IN  {c.id : c \in Top(CandidateN, scored)}

Begun(byTid, found, s, sound) ==
  docCall' = [on |-> TRUE, byTid |-> byTid, found |-> found,
              col |-> s.col, norm |-> s.norm, sound |-> sound]

\* Mutant: the tombstones are not looked at.
LiveSlotsAll == DOMAIN docIndex.codes

LiveSlots == DOMAIN docIndex.codes \ docIndex.tomb

\* load_persistent_colbert: a ColBERT index with rows.
Loaded == docIndex.codes # <<>>

\* colbert_search_persistent.  Nothing but VACUUM changes the relfile, and that
\* leaves the slots as they are: a cached copy has what the relfile has.
StageOneByIndex(s) ==
  LET query == Normalised(Query, s.norm)
  IN  /\ Loaded
      /\ ~ docCall.on
      /\ \E H \in Searches(docIndex.codes, LiveSlots, query) :
           Begun(TRUE, DocCandidates(H, docIndex.codes, query, docIndex.tids), s,
                 /\ docIndex.norm = s.norm /\ ~ docIndex.moved
                 /\ Range(docIndex.tids) \cap documents.dead \subseteq
                      {docIndex.tids[t] : t \in docIndex.tomb})
      /\ docAnswer' = NoDocAnswer
      /\ UNCHANGED <<documents, docIndex, docEntry, slotDoc>>

\* cache::lookup; a mismatch removes the entry.
Fresh ==
  /\ docEntry.on /\ docEntry.node = documents.node
  /\ docEntry.count = Cardinality(Docs(documents.rows))

Warm == Fresh /\ slotDoc # <<>>

\* build_token_index, without the documents that have a bad token.
TokenIndex(s) ==
  LET rows == documents.rows
      docs == {t \in Docs(rows) : Usable(rows[t].toks)}
  IN  Slots(docs, [t \in docs |-> Normalised(rows[t].toks, s.norm)],
            [t \in docs |-> Value(rows[t], s.col)])

\* stage1_candidates.  An index without rows is not usable and not used.
StageOneByCache(s) ==
  LET query == Normalised(Query, s.norm)
      built == TokenIndex(s)
      use == IF Warm THEN [codes |-> docEntry.codes, names |-> slotDoc] ELSE built
  IN  /\ ~ Loaded
      /\ ~ docCall.on
      /\ IF Warm THEN UNCHANGED <<docEntry, slotDoc>>
         ELSE IF built.codes = <<>>
              THEN /\ docEntry' = IF Fresh THEN docEntry ELSE NoDocEntry
                   /\ UNCHANGED slotDoc
              ELSE /\ docEntry' = [on |-> TRUE, node |-> documents.node,
                                   count |-> Cardinality(Docs(documents.rows)),
                                   codes |-> built.codes, col |-> s.col, norm |-> s.norm]
                   /\ slotDoc' = built.names
      /\ \E H \in Searches(use.codes, DOMAIN use.codes \cap DOMAIN use.names, query) :
           Begun(FALSE, DocCandidates(H, use.codes, query, use.names), s,
                 Warm => ~ documents.churned /\ docEntry.col = s.col /\ docEntry.norm = s.norm)
      /\ docAnswer' = NoDocAnswer
      /\ UNCHANGED <<documents, docIndex>>

-----------------------------------------------------------------------------
(* Stage 2.                                                                *)

\* fetch_doc_tokens_by_ctid leaves out a document with a bad token,
\* fetch_doc_tokens only that token.
FetchedDocs(rows) ==
  {t \in Docs(rows) :
     IF docCall.byTid THEN t \in docCall.found /\ Usable(rows[t].toks)
     ELSE Value(rows[t], docCall.col) \in docCall.found /\ Matching(rows[t].toks) # <<>>}

StageTwo ==
  LET query == Normalised(Query, docCall.norm)
      rows == documents.rows
      scored == {[id |-> Value(rows[t], docCall.col),
                  score |-> MaxSim(query, Matching(rows[t].toks))] : t \in FetchedDocs(rows)}
  IN  /\ docCall.on
      /\ docAnswer' = [on |-> TRUE, docs |-> Top(K, scored), col |-> docCall.col,
                       norm |-> docCall.norm, sound |-> docCall.sound]
      /\ docCall' = NoDocCall
      /\ UNCHANGED <<documents, docIndex, docEntry, slotDoc>>

ColbertNext ==
  \/ \E t \in Tid, i \in DocId, a \in Arrays : InsertDoc(t, [id |-> i, toks |-> a])
  \/ \E t \in Tid : DeleteDoc(t)
  \/ \E t, u \in Tid : HotUpdate(t, u)
  \/ \E t, u \in Tid, a \in Arrays : UpdateDoc(t, u, a)
  \/ Vacuum
  \/ \E s \in Settings : CreateIndex(s.norm)
  \/ DropIndex
  \/ Truncate
  \/ EvictDocs
  \/ SearchElsewhere
  \/ \E s \in Settings : StageOneByIndex(s) \/ StageOneByCache(s)
  \/ StageTwo

ColbertSpec == ColbertInit /\ [][ColbertNext]_docVars

-----------------------------------------------------------------------------
(* Properties.                                                             *)

\* Whatever became of the table since the index was built or cached, and
\* between the stages, an answer has the documents of the table by their ids,
\* none twice, each with the sum of its best similarities.  (Stage 2 of
\* colbert_search.)
AnswersAreCurrentDocs ==
  LET query == Normalised(Query, docAnswer.norm)
      Exact(toks, score) ==
        \E best \in [DOMAIN query -> Range(Matching(toks))] :
          /\ \A q \in DOMAIN query, i \in DOMAIN Matching(toks) :
               query[q] * best[q] >= query[q] * Matching(toks)[i]
          /\ score = SumFunction([q \in DOMAIN query |-> query[q] * best[q]])
  IN  /\ \A a \in docAnswer.docs : \E t \in Docs(documents.rows) :
           /\ Value(documents.rows[t], docAnswer.col) = a.id
           /\ Exact(documents.rows[t].toks, a.score)
      /\ \A a, b \in docAnswer.docs : a.id = b.id => a = b

\* The document with the token most like a token of the query is found, which
\* is what stage 1 is for; as long as the index is of this id column and
\* setting, no document of a persistent index has moved or awaits VACUUM, and
\* the cached one is of a table to which rows have only been added.
BestTokenDocFound ==
  LET query == Normalised(Query, docAnswer.norm)
      rows == documents.rows
      all == {t \in Docs(rows) : Usable(rows[t].toks)}
      Like(t, q) == BestSim(query[q], Normalised(rows[t].toks, docAnswer.norm))
  IN  docAnswer.on /\ docAnswer.sound /\ all # {} =>
        \A q \in DOMAIN query : \E t \in all :
          /\ \A u \in all : Like(t, q) >= Like(u, q)
          /\ \E a \in docAnswer.docs : a.id = Value(rows[t], docAnswer.col)

=============================================================================
