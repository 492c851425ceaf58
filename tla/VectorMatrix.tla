---------------------------- MODULE VectorMatrix ----------------------------
(***************************************************************************)
(* The matrix of a vector index (cypher/vector/matrix.go) and the search   *)
(* db.index.vector.queryNodes makes in it (cypher/interp/vecindex.go).     *)
(*                                                                         *)
(* A matrix is [metric, ids, data, pos]: the id and the vector of each     *)
(* row, and the row of each id.  A vector is a number, its similarity to   *)
(* the query; 0 is the zero vector, which has no direction under cosine.   *)
(* A hit is [id, score].                                                   *)
(***************************************************************************)
EXTENDS Integers, Sequences, SequencesExt, FiniteSets, FiniteSetsExt, TLC

CONSTANT Slack          \* hits asked for beyond k (8 in the code)

NewMatrix(metric) == [metric |-> metric, ids |-> <<>>, data |-> <<>>, pos |-> <<>>]
Holds(m, id) == id \in DOMAIN m.pos

\* Mutant: the row that fills the gap keeps its old position.
RemoveRowUnmoved(m, id) ==
    IF ~Holds(m, id) THEN m
    ELSE LET last == Len(m.ids)
         IN  [m EXCEPT !.ids = SubSeq([m.ids EXCEPT ![m.pos[id]] = m.ids[last]], 1, last - 1),
                       !.data = SubSeq([m.data EXCEPT ![m.pos[id]] = m.data[last]], 1, last - 1),
                       !.pos = [x \in DOMAIN m.pos \ {id} |-> m.pos[x]]]

\* Remove: the last row takes the place of the removed one.
RemoveRow(m, id) ==
    IF ~Holds(m, id) THEN m
    ELSE LET last  == Len(m.ids)
             p     == m.pos[id]
             moved == [m.pos EXCEPT ![m.ids[last]] = p]
         IN  [m EXCEPT !.ids = SubSeq([m.ids EXCEPT ![p] = m.ids[last]], 1, last - 1),
                       !.data = SubSeq([m.data EXCEPT ![p] = m.data[last]], 1, last - 1),
                       !.pos = [x \in DOMAIN m.pos \ {id} |-> moved[x]]]

Upsert(m, id, v) ==
    IF m.metric = "cosine" /\ v = 0 THEN RemoveRow(m, id)
    ELSE IF Holds(m, id) THEN [m EXCEPT !.data[m.pos[id]] = v]
    ELSE [m EXCEPT !.ids = Append(@, id), !.data = Append(@, v), !.pos = [x \in DOMAIN @ \cup {id} |-> IF x = id THEN Len(m.ids) + 1 ELSE @[x]]]

\* Ids and rows are in step, one row for each id.
WellFormed(m) ==
    /\ m.ids \in Seq(DOMAIN m.pos) /\ m.data \in Seq(Int) /\ Len(m.ids) = Len(m.data)
    /\ \A x \in DOMAIN m.pos : m.pos[x] \in DOMAIN m.ids /\ m.ids[m.pos[x]] = x
    /\ \A i \in DOMAIN m.ids : m.pos[m.ids[i]] = i

\* What a matrix holds: the vector of each id.
Contents(m) == [x \in DOMAIN m.pos |-> m.data[m.pos[x]]]

-----------------------------------------------------------------------------
(* Building a matrix at once: workers fill builders of [id, vector] rows.  *)

MergeBuilders(bs) == FlattenSeq(bs)

\* Builder.Matrix
BuilderMatrix(metric, rows) ==
    LET kept == FlattenSeq([i \in DOMAIN rows |-> IF metric = "cosine" /\ rows[i][2] = 0 THEN <<>> ELSE <<rows[i]>>])
    IN  [metric |-> metric,
         ids  |-> [i \in DOMAIN kept |-> kept[i][1]],
         data |-> [i \in DOMAIN kept |-> kept[i][2]],
         pos  |-> [x \in {kept[i][1] : i \in DOMAIN kept} |-> CHOOSE i \in DOMAIN kept : kept[i][1] = x]]

-----------------------------------------------------------------------------
(* Search: each worker keeps the k best of its rows, then they are merged. *)

Worse(a, b) == a.score < b.score \/ (a.score = b.score /\ a.id > b.id)
Better(a, b) == Worse(b, a)

\* offer: the root of the heap is its worst hit, the one to evict.
Offer(heap, x, k) ==
    LET root == CHOOSE h \in heap : \A o \in heap \ {h} : Worse(h, o)
    IN  IF Cardinality(heap) < k THEN heap \cup {x}
        ELSE IF Worse(root, x) THEN (heap \ {root}) \cup {x} ELSE heap

Chunk(m, workers, w) ==
    LET n    == Len(m.ids)
        size == (n + workers - 1) \div workers
        hi   == IF (w + 1) * size > n THEN n ELSE (w + 1) * size
    IN  [i \in 1..(IF hi > w * size THEN hi - w * size ELSE 0) |->
            [id |-> m.ids[w * size + i], score |-> m.data[w * size + i]]]
\* Search
SearchMatrix(m, k, workers) ==
    LET offered(hits) == FoldLeft(LAMBDA heap, x : Offer(heap, x, k), {}, hits)
        results == [w \in 1..workers |-> SetToSeq(offered(Chunk(m, workers, w - 1)))]
    IN  SetToSortSeq(offered(FlattenSeq(results)), Better)

\* Mutant: no more hits are asked for than are wanted.
QueryWithoutSlack(m, k, workers, visible) == SelectSeq(SearchMatrix(m, k, workers), LAMBDA h : h.id \in visible)

\* queryVectorNodes: asks for Slack more, skips the nodes the statement does not
\* see (or sees without the label), and stops at k.
QueryVectorNodes(m, k, workers, visible) ==
    LET seen == SelectSeq(SearchMatrix(m, k + Slack, workers), LAMBDA h : h.id \in visible)
    IN  SubSeq(seen, 1, IF Len(seen) < k THEN Len(seen) ELSE k)
=============================================================================
