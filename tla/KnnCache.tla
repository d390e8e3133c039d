------------------------------ MODULE KnnCache ------------------------------
(***************************************************************************)
(* turbovec.knn(): a search of a table through an index of its rows that   *)
(* the backend built earlier and keeps.                                    *)
(*                                                                         *)
(* The cached index is taken for current while the table has the same      *)
(* relfilenode and the same row count, whatever id column it has the       *)
(* values of and whatever normalize_on_insert was when it was built: calls *)
(* of one id column under another setting, or of another id column, hit    *)
(* it all the same.  Its codes are quantised, and so is their ranking: it  *)
(* gives the candidates.  Their scores are then computed from the vectors  *)
(* the table holds, fetched by the values of the call's id column.         *)
(*                                                                         *)
(* A call runs several SQL queries: one that has not written keeps one     *)
(* snapshot throughout, one that has takes a new snapshot for each of      *)
(* them.  The count is the first to lock the table.                        *)
(*                                                                         *)
(* The query is one, without an allow list, for the best row; an id column *)
(* has no value twice.  A vector is its two exact scores with the query.   *)
(***************************************************************************)
EXTENDS Integers, FiniteSets, FiniteSetsExt

CONSTANTS
  Id,        \* the rows there may be
  Asked,     \* of a call: the id column it names, with the value each row has
             \* there, and what normalize_on_insert is
  Vec,       \* vectors: their cosine and their dot product with the query
  None,      \* no row
  Take,      \* candidates fetched: max(k, RERANK_CANDIDATE_FLOOR)
  CodeError, \* how much the codes may rank a row over one that scores better
  MaxNode    \* bound: the table is rewritten no further than this relfilenode

ASSUME IdAssumption == IsFiniteSet(Id) /\ None \notin Int
ASSUME AskedAssumption ==
  /\ Asked \subseteq [col : [Id -> Int], norm : BOOLEAN]
  /\ \A a \in Asked, i, j \in Id : a.col[i] = a.col[j] => i = j
ASSUME VecAssumption == Vec \subseteq [cosine : Int, dot : Int] /\ None \notin Vec
ASSUME BoundsAssumption == Take \in Nat \ {0} /\ CodeError \in Nat /\ MaxNode \in Nat \ {0}

VARIABLES
  table,    \* the committed table: its relfilenode and rows; and as history
            \* whether a row was changed or deleted since the last rewrite
  entry,    \* the cache entry: freshness pair and the rows it was built from;
            \* the id column and the setting of then, that no call compares
  call,     \* the call in progress: what it has read, and its snapshot
  answer    \* what the last step answered, if it ended a call: one row, of
            \* which call and view; the rows that no nearer one may be among,
            \* whether the index had more than were taken, and was fit

vars == <<table, entry, call, answer>>

-----------------------------------------------------------------------------
Rows == [Id -> Vec \cup {None}]
IdColumn == {a.col : a \in Asked}
Ids(r) == {i \in Id : r[i] # None}
NoRows == [i \in Id |-> None]
NoEntry == [on |-> FALSE, node |-> 0, count |-> 0, rows |-> NoRows, col |-> None, norm |-> FALSE]
NoCall == [pc |-> "idle", node |-> 0, count |-> 0, rows |-> NoRows, col |-> None, norm |-> FALSE]
NoAnswer == [on |-> FALSE, id |-> None, score |-> None, col |-> None, norm |-> FALSE,
             rows |-> NoRows, stood |-> {}, cut |-> FALSE, fit |-> FALSE]

Init ==
  /\ table \in [node : {1}, rows : Rows, churned : {FALSE}]
  /\ entry = NoEntry
  /\ call = NoCall
  /\ answer = NoAnswer

TypeOK ==
  /\ table \in [node : 1 .. MaxNode, rows : Rows, churned : BOOLEAN]
  /\ entry \in [on : BOOLEAN, node : 0 .. MaxNode, count : 0 .. Cardinality(Id),
                rows : Rows, col : IdColumn \cup {None}, norm : BOOLEAN]
  /\ call \in [pc : {"idle", "node", "count"}, node : 0 .. MaxNode,
               count : 0 .. Cardinality(Id),
               rows : Rows, col : IdColumn \cup {None}, norm : BOOLEAN]
  /\ answer \in [on : BOOLEAN, id : Int \cup {None}, score : Int \cup {None},
                 col : IdColumn \cup {None}, norm : BOOLEAN,
                 rows : Rows, stood : SUBSET Id, cut : BOOLEAN, fit : BOOLEAN]

-----------------------------------------------------------------------------
(* The table, changed by any session.                                      *)

Insert(i, v) ==
  /\ table.rows[i] = None
  /\ table' = [table EXCEPT !.rows[i] = v]
  /\ answer' = NoAnswer
  /\ UNCHANGED <<entry, call>>

Update(i, v) ==
  /\ table.rows[i] \notin {None, v}
  /\ table' = [table EXCEPT !.rows[i] = v, !.churned = TRUE]
  /\ answer' = NoAnswer
  /\ UNCHANGED <<entry, call>>

Delete(i) ==
  /\ table.rows[i] # None
  /\ table' = [table EXCEPT !.rows[i] = None, !.churned = TRUE]
  /\ answer' = NoAnswer
  /\ UNCHANGED <<entry, call>>

\* A rewrite waits for the calls that have locked the table.
Rewritten(rows) ==
  /\ call.pc # "count"
  /\ table.node < MaxNode
  /\ table' = [node |-> table.node + 1, rows |-> rows, churned |-> FALSE]
  /\ answer' = NoAnswer
  /\ UNCHANGED entry

\* CLUSTER and VACUUM FULL keep the rows, the ones of older snapshots too.
ClusterTable == Rewritten(table.rows) /\ UNCHANGED call

\* TRUNCATE takes them from every snapshot.
TruncateTable == Rewritten(NoRows) /\ call' = [call EXCEPT !.rows = NoRows]

-----------------------------------------------------------------------------
(* A call.                                                                 *)

\* The snapshots a query of the call may see.
Views == {call.rows, table.rows}

\* current_relfilenode.
ProbeNode(a) ==
  /\ call.pc = "idle"
  /\ call' = [pc |-> "node", node |-> table.node, count |-> 0, rows |-> table.rows,
              col |-> a.col, norm |-> a.norm]
  /\ answer' = NoAnswer
  /\ UNCHANGED <<table, entry>>

\* relation_row_count.
RowCount(rows) == Cardinality(Ids(rows))

ProbeCount ==
  /\ call.pc = "node"
  /\ \E view \in Views :
       call' = [call EXCEPT !.pc = "count", !.count = RowCount(view), !.rows = view]
  /\ answer' = NoAnswer
  /\ UNCHANGED <<table, entry>>

\* Mutant: the row count is not compared.
HitAnyCount == entry.on /\ entry.node = call.node

\* cache::lookup: neither the id column nor the setting is compared.
Hit == entry.on /\ entry.node = call.node /\ entry.count = call.count

\* exact_cosine: of a normalised vector the cosine, of another the product.
ExactScore(v, norm) == IF norm THEN v.cosine ELSE v.dot

\* What run_search may return of an index of these rows: Take of them, ranked
\* by their codes.  A code's score is off by half of CodeError at most.
Candidates(rows, norm) ==
  {C \in kSubset(Min({Take, Cardinality(Ids(rows))}), Ids(rows)) :
     \A i \in C, j \in Ids(rows) \ C :
       ExactScore(rows[j], norm) <= ExactScore(rows[i], norm) + CodeError}

\* fetch_vectors_by_id: the rows that have a candidate's id in the call's column.
Fetched(index, C, view) ==
  {j \in Ids(view) : \E i \in C : index.col[i] = call.col[j]}

\* Mutant: the score of the cached vector is returned.
ReranksCached(index, C, view) ==
  {[id |-> index.col[i], score |-> ExactScore(index.rows[i], index.norm)] : i \in C}

\* exact_rerank, exact_rerank_from_rows: the best of the rows fetched, by the
\* vectors they have there.
Reranks(index, C, view) ==
  LET left == Fetched(index, C, view)
      Scored(j) == ExactScore(view[j], call.norm)
  IN  {[id |-> call.col[i], score |-> Scored(i)] :
         i \in {i \in left : \A j \in left : Scored(j) <= Scored(i)}}

\* The index is the one a miss would build: of the call's id column under its
\* setting, from rows that were only added to since; and the relfilenode that
\* it was compared by is still the table's.
Fit ==
  /\ entry.col = call.col /\ entry.norm = call.norm
  /\ ~ table.churned /\ call.node = table.node

\* Rows of the view that were there when the rows were counted.
Stood(view) == {i \in Ids(view) : call.rows[i] = view[i]}

Answered(index, view, stood, fit) ==
  \E C \in Candidates(index.rows, index.norm) :
    LET best == Reranks(index, C, view)
        none == [NoAnswer EXCEPT !.on = TRUE, !.col = call.col, !.norm = call.norm,
                                 !.rows = view, !.stood = stood, !.fit = fit,
                                 !.cut = Take < Cardinality(Ids(index.rows))]
    IN  answer' \in IF best = {} THEN {none}
                    ELSE {[none EXCEPT !.id = b.id, !.score = b.score] : b \in best}

\* A miss builds an index of the rows it sees, under the pair of the probe.
BuiltOf(view) ==
  [on |-> TRUE, node |-> call.node, count |-> call.count, rows |-> view,
   col |-> call.col, norm |-> call.norm]

\* A hit searches the cached rows and reranks by the table's; a miss searches
\* what it builds and reranks by the same rows.  Of no rows it stores nothing.
Answer ==
  \E view \in Views :
    /\ call.pc = "count"
    /\ call' = NoCall
    /\ IF Hit
       THEN /\ Answered(entry, view, Stood(view), Fit)
            /\ UNCHANGED entry
       ELSE /\ Answered(BuiltOf(view), view, Ids(view), TRUE)
            /\ entry' = IF Ids(view) = {} THEN NoEntry ELSE BuiltOf(view)
    /\ UNCHANGED table

Evict ==
  /\ call.pc = "idle" /\ entry.on
  /\ entry' = NoEntry
  /\ answer' = NoAnswer
  /\ UNCHANGED <<table, call>>

Next ==
  \/ \E i \in Id, v \in Vec : Insert(i, v)
  \/ \E i \in Id, v \in Vec : Update(i, v)
  \/ \E i \in Id : Delete(i)
  \/ ClusterTable
  \/ TruncateTable
  \/ \E a \in Asked : ProbeNode(a)
  \/ ProbeCount
  \/ Answer
  \/ Evict

Spec == Init /\ [][Next]_vars

-----------------------------------------------------------------------------
(* Properties.                                                             *)

\* Whatever became of the rows since the index was cached, and whatever id
\* column and setting it is of, an answer is a row the table has under the
\* call's id column, and its score that row's own.  (exact_rerank.)
AnswerIsCurrentRow ==
  answer.on /\ answer.id # None =>
    \E i \in Ids(answer.rows) :
      /\ answer.id = answer.col[i]
      /\ answer.score = ExactScore(answer.rows[i], answer.norm)

\* No row scores better than the answer by more than the codes may err; none
\* at all if every row of the index was a candidate.  For a miss this is of
\* all rows it saw; for a hit, of those that stood since the count, and only
\* of an index that is Fit.  (RERANK_CANDIDATE_FLOOR, lookup's freshness pair.)
AnswerIsNearest ==
  answer.on /\ answer.fit =>
    \A i \in answer.stood :
      /\ answer.id # None
      /\ ExactScore(answer.rows[i], answer.norm)
           <= answer.score + (IF answer.cut THEN CodeError ELSE 0)

\* The row turbovec.knn() answers with is one of the table, its score that
\* row's own; and the best but for what the codes err, of the rows that stood
\* throughout the call, if the index it was found by is of the call's id column
\* and setting and rows have only been added to it since.
\* (lookup, run_search, exact_rerank.)
KnnAnswersRight == TypeOK /\ AnswerIsCurrentRow /\ AnswerIsNearest

=============================================================================
