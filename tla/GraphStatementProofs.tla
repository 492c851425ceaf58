------------------------- MODULE GraphStatementProofs -------------------------
(***************************************************************************)
(* Theorems about GraphStatement for every set of nodes, relationships,    *)
(* labels, types and values, every set of scopes, and errors wherever the  *)
(* code can meet one; ending in the refinement of PropertyGraph.           *)
(***************************************************************************)
EXTENDS GraphStatement, FiniteSetTheorems, TLAPS

-----------------------------------------------------------------------------
(* The shape of the state.  TypeOK is not inductive: a write goes to the    *)
(* row of SQLite that the statement's own copy stands for, which must be    *)
(* there; so the cache is part of the invariant, and with it that an id     *)
(* not handed out yet has no row.                                           *)

Rows == [Entities -> Row \cup {NoRow}]
Lists == [Nodes -> {Unloaded} \cup SUBSET Rels]
Graph == [obj: Rows, out: Lists, in: Lists, created: SUBSET Entities, snap: Rows,
          deleted: SUBSET Entities]

RowsUsed(t) == \A e \in Entities : t.row[e] # NoRow => e \in t.used

Typed == TypeOK /\ g \in Graph /\ scope \in Scopes

Cached ==
    /\ \A e \in Entities : Bound(e) => g.obj[e] = tx.row[e]
    /\ \A n \in Nodes, side \in {"out", "in"} :
          g[side][n] # Unloaded =>
              /\ g[side][n] = Adjacent(n, side)
              /\ \A r \in Adjacent(n, side) : Bound(r)

Shape ==
    /\ Typed
    /\ RowsUsed(committed) /\ RowsUsed(tx)
    /\ pc = "running" => Cached

\* What the bounds of a behaviour contain.
LEMMA ScopeType ==
    ASSUME Typed
    PROVE  /\ scope.nodes \subseteq Nodes /\ scope.rels \subseteq Rels
           /\ scope.labels \subseteq Labels /\ scope.values \subseteq Values
           /\ scope.schema \subseteq Constraint
  BY StatementAssumption DEF Typed

\* A row as CREATE writes it.
LEMMA NewRow ==
    ASSUME NEW labels \in SUBSET (Labels \cup Types), NEW v \in Values \cup {Null}
    PROVE  [labels |-> labels, prop |-> v] \in Row /\ [labels |-> labels, prop |-> v] # NoRow
  BY StatementAssumption DEF Row

\* Empty tables and a new graph value have the shape.
LEMMA Empty ==
    /\ NoTables \in Tables /\ RowsUsed(NoTables)
    /\ NewGraph \in Graph
    /\ \A e \in Entities : NewGraph.obj[e] = NoRow /\ NewGraph.snap[e] = NoRow
    /\ \A n \in Nodes, side \in {"out", "in"} : NewGraph[side][n] = Unloaded
    /\ NewGraph.created = {} /\ NewGraph.deleted = {}
  BY DEF NoTables, Tables, RowsUsed, NewGraph, Graph, Rows, Lists

\* A statement starts with an empty graph value: it has nothing to disagree with.
LEMMA NewIsCached == g = NewGraph => Cached
  BY Empty DEF Cached, Bound

\* At first the database is empty and nothing runs.
LEMMA InitShape == Init => Shape
<1> SUFFICES ASSUME Init PROVE Shape
  OBVIOUS
<1>1. {committed, tx, before} \subseteq Tables /\ g \in Graph
  BY Empty DEF Init
<1>2. g.obj \in Rows /\ g.snap \in Rows /\ g.out \in Lists /\ g.in \in Lists
      /\ g.created \subseteq Entities /\ g.deleted \subseteq Entities
  BY <1>1 DEF Graph
<1> QED
  BY <1>1, <1>2, Empty DEF Init, Shape, Typed, TypeOK, Rows, Lists

\* A step within a statement keeps the shape if what it does to the tables and to
\* the graph value does.
LEMMA WithinStatement ==
    ASSUME Shape, pc \notin {"idle", "between"},
           UNCHANGED <<committed, mode, broken, before, scope>>,
           pc' \in {"running", "unlinked", "checking", "done", "failed"},
           DOMAIN counters' = DOMAIN NoCounters,
           tx' \in Tables, g' \in Graph, RowsUsed(tx'), pc' = "running" => Cached'
    PROVE  Shape'
<1>1. g'.obj \in Rows /\ g'.snap \in Rows /\ g'.out \in Lists /\ g'.in \in Lists
      /\ g'.created \subseteq Entities /\ g'.deleted \subseteq Entities
  BY DEF Graph
<1>2. TypeOK'
  BY <1>1 DEF Shape, Typed, TypeOK, Rows, Lists
<1> QED
  BY <1>2 DEF Shape, Typed, RowsUsed

\* Begin, Run, commit, rollback and return: whole tables move, and a graph value is
\* forgotten.
LEMMA TransactionShape ==
    ASSUME Shape, UNCHANGED scope, Transaction
    PROVE  Shape'
<1>1. CASE BeginAuto \/ BeginTx \/ Run
  <2>1. g' = NewGraph
    BY <1>1 DEF BeginAuto, BeginTx, Run, Shape, Typed, TypeOK
  <2>2. /\ {committed, tx, before}' \subseteq Tables
        /\ RowsUsed(committed') /\ RowsUsed(tx')
    BY <1>1 DEF BeginAuto, BeginTx, Run, Shape, Typed, TypeOK
  <2>3. Typed'
    BY <1>1, <2>1, <2>2 DEF BeginAuto, BeginTx, Run, Shape, Typed, TypeOK
  <2>4. Cached'
    BY <2>1, Empty DEF Cached, Bound
  <2> QED
    BY <2>2, <2>3, <2>4 DEF Shape
<1>2. CASE Commit \/ Rollback
  <2>1. /\ Close /\ committed' \in {committed, tx}
    BY <1>2 DEF Commit, Rollback
  <2>2. /\ {committed, tx, before}' \subseteq Tables
        /\ RowsUsed(committed') /\ RowsUsed(tx')
    BY <2>1, Empty DEF Close, Shape, Typed, TypeOK
  <2>3. /\ g' = NewGraph /\ g' \in Graph /\ pc' = "idle" /\ mode' = "none" /\ broken' = FALSE
        /\ counters' = NoCounters
    BY <2>1, Empty DEF Close
  <2>4. g'.obj \in Rows /\ g'.snap \in Rows /\ g'.out \in Lists /\ g'.in \in Lists
        /\ g'.created \subseteq Entities /\ g'.deleted \subseteq Entities
    BY <2>3 DEF Graph
  <2> QED
    BY <2>2, <2>3, <2>4 DEF Shape, Typed, TypeOK, Rows, Lists
<1>3. CASE Return
  <2>1. /\ {committed, tx, before}' \subseteq Tables
        /\ RowsUsed(committed') /\ RowsUsed(tx')
    BY <1>3, Empty DEF Return, Shape, Typed, TypeOK
  <2>2. /\ g' = NewGraph /\ g' \in Graph /\ pc' = "between" /\ mode' = "tx" /\ broken' \in BOOLEAN
        /\ counters' = NoCounters
    BY <1>3, Empty DEF Return
  <2>3. g'.obj \in Rows /\ g'.snap \in Rows /\ g'.out \in Lists /\ g'.in \in Lists
        /\ g'.created \subseteq Entities /\ g'.deleted \subseteq Entities
    BY <2>2 DEF Graph
  <2> QED
    BY <2>1, <2>2, <2>3 DEF Shape, Typed, TypeOK, Rows, Lists
<1>4. CASE Fail
  <2>1. tx' \in Tables /\ g' \in Graph /\ RowsUsed(tx') /\ DOMAIN counters' = DOMAIN NoCounters
    BY <1>4 DEF Fail, Shape, Typed, TypeOK
  <2> QED
    BY <1>4, <2>1, WithinStatement DEF Fail
<1> QED
  BY <1>1, <1>2, <1>3, <1>4 DEF Transaction

-----------------------------------------------------------------------------
(* What each operation of a statement does, component by component.        *)

\* The parts of the tables and of the graph value, and their types.
LEMMA Parts ==
    ASSUME Typed
    PROVE  /\ tx \in Tables /\ tx.row \in Rows /\ tx.index \subseteq Nodes \X Labels
           /\ tx.ends \in [Rels -> (Nodes \X Nodes) \cup {NoEnds}]
           /\ tx.cons \subseteq Constraint /\ tx.used \subseteq Entities
           /\ g \in Graph /\ g.obj \in Rows /\ g.snap \in Rows /\ g.out \in Lists /\ g.in \in Lists
           /\ g.created \subseteq Entities /\ g.deleted \subseteq Entities
           /\ g["out"] = g.out /\ g["in"] = g.in
  BY DEF Typed, TypeOK, Tables, Graph, Rows

\* A row that is bound is a row.
LEMMA BoundRow ==
    ASSUME Typed, Cached, NEW e \in Entities, Bound(e)
    PROVE  g.obj[e] \in Row /\ tx.row[e] \in Row /\ tx.row[e] # NoRow
  BY Parts DEF Cached, Bound, Rows

\* k is h with more read of the tables, and nothing else changed.
ReadsMore(h, k) ==
    /\ k \in Graph
    /\ k.created = h.created /\ k.snap = h.snap /\ k.deleted = h.deleted
    /\ \A e \in Entities : \/ k.obj[e] = h.obj[e]
                           \/ h.obj[e] = NoRow /\ k.obj[e] = tx.row[e]
    /\ \A m \in Nodes, s \in {"out", "in"} :
          \/ k[s][m] = h[s][m]
          \/ k[s][m] = Adjacent(m, s) /\ \A r \in Adjacent(m, s) : k.obj[r] # NoRow

\* scanNodes, node, internNode
LEMMA ReadEffect ==
    ASSUME Typed, NEW n \in Nodes, Read(n)
    PROVE  ReadsMore(g, g') /\ tx' = tx
<1>1. n \in Entities /\ [g.obj EXCEPT ![n] = tx.row[n]] \in Rows
  BY Parts DEF Rows, Entities
<1>2. /\ g' \in Graph /\ g'.obj = [g.obj EXCEPT ![n] = tx.row[n]]
      /\ g'.out = g.out /\ g'.in = g.in
      /\ g'.created = g.created /\ g'.snap = g.snap /\ g'.deleted = g.deleted
  BY <1>1, Parts DEF Read, Graph
<1>3. \A m \in Nodes, s \in {"out", "in"} : g'[s][m] = g[s][m]
  BY <1>2, Parts DEF Graph
<1>4. g.obj[n] = NoRow /\ tx' = tx
  BY DEF Read, Bound
<1> QED
  BY <1>1, <1>2, <1>3, <1>4, Parts DEF ReadsMore, Rows

\* k is h with that side of n read, if it was not.
Loads(h, k, n, side) ==
    /\ ReadsMore(h, k)
    /\ \/ k[side][n] = Adjacent(n, side) /\ \A r \in Adjacent(n, side) : k.obj[r] # NoRow
       \/ h[side][n] # Unloaded /\ k[side][n] = h[side][n]

\* loadAdj and prefetchAdj
LEMMA AdjacencyEffect ==
    ASSUME Typed, NEW h \in Graph, NEW n \in Nodes, NEW side \in {"out", "in"}
    PROVE  Loads(h, WithAdjacency(h, n, side), n, side)
<1> DEFINE k   == WithAdjacency(h, n, side)
           adj == Adjacent(n, side)
           obj == [e \in Entities |-> IF e \in adj /\ h.obj[e] = NoRow THEN tx.row[e] ELSE h.obj[e]]
<1>1. adj \subseteq Rels /\ obj \in Rows
  BY Parts DEF Adjacent, Graph, Rows
<1>2. CASE h[side][n] # Unloaded
  BY <1>2 DEF WithAdjacency, ReadsMore, Loads
<1>3. CASE h[side][n] = Unloaded
  <2>1. k = [h EXCEPT ![side][n] = adj, !.obj = obj]
    BY <1>3 DEF WithAdjacency
  <2> HIDE DEF k
  <2>2. /\ \A e \in Entities : obj[e] = h.obj[e] \/ (h.obj[e] = NoRow /\ obj[e] = tx.row[e])
        /\ \A r \in adj : obj[r] # NoRow
    BY DEF Adjacent, Entities
  <2> HIDE DEF adj, obj
  <2>3. CASE side = "out"
    <3>1. [h.out EXCEPT ![n] = adj] \in Lists
      BY <1>1 DEF Graph, Lists
    <3>2. /\ k \in Graph
          /\ k.out = [h.out EXCEPT ![n] = adj] /\ k.in = h.in
          /\ k.obj = obj /\ k.created = h.created /\ k.snap = h.snap /\ k.deleted = h.deleted
      BY <1>1, <2>1, <2>3, <3>1 DEF Graph
    <3>3. \A m \in Nodes, s \in {"out", "in"} :
              k[s][m] = IF m = n /\ s = side THEN adj ELSE h[s][m]
      BY <2>3, <3>2 DEF Graph, Lists
    <3> QED
      BY <2>2, <2>3, <3>2, <3>3 DEF adj, k, ReadsMore, Loads
  <2>4. CASE side = "in"
    <3>1. [h.in EXCEPT ![n] = adj] \in Lists
      BY <1>1 DEF Graph, Lists
    <3>2. /\ k \in Graph
          /\ k.in = [h.in EXCEPT ![n] = adj] /\ k.out = h.out
          /\ k.obj = obj /\ k.created = h.created /\ k.snap = h.snap /\ k.deleted = h.deleted
      BY <1>1, <2>1, <2>4, <3>1 DEF Graph
    <3>3. \A m \in Nodes, s \in {"out", "in"} :
              k[s][m] = IF m = n /\ s = side THEN adj ELSE h[s][m]
      BY <2>4, <3>2 DEF Graph, Lists
    <3> QED
      BY <2>2, <2>4, <3>2, <3>3 DEF adj, k, ReadsMore, Loads
  <2> QED
    BY <2>3, <2>4
<1> QED
  BY <1>2, <1>3

\* Entity e is created: the row new and the statement's copy of it.
Inserts(e, new) ==
    /\ new \in Row /\ new # NoRow /\ e \notin tx.used
    /\ tx' \in Tables /\ g' \in Graph
    /\ tx'.row = [tx.row EXCEPT ![e] = new] /\ g'.obj = [g.obj EXCEPT ![e] = new]
    /\ tx'.used = tx.used \cup {e} /\ tx'.cons = tx.cons
    /\ g'.created = g.created \cup {e} /\ g'.snap = g.snap /\ g'.deleted = g.deleted

\* createNode
LEMMA CreateNodeEffect ==
    ASSUME Typed, NEW n \in Nodes, NEW labels \in SUBSET Labels, NEW v \in Values \cup {Null},
           CreateNode(n, labels, v)
    PROVE  /\ Inserts(n, [labels |-> labels, prop |-> v])
           /\ tx'.index = tx.index \cup ({n} \X labels)
           /\ tx'.ends = tx.ends /\ g'.out = g.out /\ g'.in = g.in
<1> DEFINE new == [labels |-> labels, prop |-> v]
<1>1. n \in Entities /\ new \in Row /\ new # NoRow /\ n \notin tx.used
  BY NewRow DEF Entities, CreateNode
<1>2. tx.index \cup ({n} \X labels) \in SUBSET (Nodes \X Labels)
  BY Parts
<1>3. tx' = [tx EXCEPT !.row[n] = new, !.used = @ \cup {n}, !.index = @ \cup ({n} \X labels)]
  BY DEF CreateNode
<1>5. g' = [g EXCEPT !.obj[n] = new, !.created = @ \cup {n}]
  BY DEF CreateNode
<1> HIDE DEF new
<1>4. [tx.row EXCEPT ![n] = new] \in Rows /\ [g.obj EXCEPT ![n] = new] \in Rows
  BY <1>1, Parts DEF Rows
<1>6. /\ tx' \in Tables
      /\ tx'.row = [tx.row EXCEPT ![n] = new]
      /\ tx'.used = tx.used \cup {n} /\ tx'.index = tx.index \cup ({n} \X labels)
      /\ tx'.ends = tx.ends /\ tx'.cons = tx.cons
  BY <1>1, <1>2, <1>3, <1>4, Parts DEF Tables, Rows
<1>7. /\ g' \in Graph
      /\ g'.obj = [g.obj EXCEPT ![n] = new] /\ g'.created = g.created \cup {n}
      /\ g'.out = g.out /\ g'.in = g.in /\ g'.snap = g.snap /\ g'.deleted = g.deleted
  BY <1>1, <1>4, <1>5, Parts DEF Graph
<1>8. Inserts(n, new)
  BY <1>1, <1>6, <1>7 DEF Inserts
<1> QED
  BY <1>6, <1>7, <1>8 DEF new

\* createNode, when the insertion of the labels fails
LEMMA HalfCreateNodeEffect ==
    ASSUME Typed, NEW n \in Nodes, NEW labels \in SUBSET Labels, HalfCreateNode(n, labels)
    PROVE  /\ tx' \in Tables
           /\ \E new \in Row : new.labels = labels /\ tx'.row = [tx.row EXCEPT ![n] = new]
           /\ tx'.used = tx.used \cup {n} /\ tx'.index = tx.index
           /\ tx'.ends = tx.ends /\ tx'.cons = tx.cons
<1>0. PICK v \in Values \cup {Null} :
         tx' = [tx EXCEPT !.row[n] = [labels |-> labels, prop |-> v], !.used = @ \cup {n}]
  BY ScopeType DEF HalfCreateNode
<1> DEFINE new == [labels |-> labels, prop |-> v]
<1>1. n \in Entities /\ new \in Row /\ new.labels = labels
  BY NewRow DEF Entities
<1>2. tx' = [tx EXCEPT !.row[n] = new, !.used = @ \cup {n}]
  BY <1>0
<1> HIDE DEF new
<1>3. [tx.row EXCEPT ![n] = new] \in Rows
  BY <1>1, Parts DEF Rows
<1>4. /\ tx' \in Tables
      /\ tx'.row = [tx.row EXCEPT ![n] = new]
      /\ tx'.used = tx.used \cup {n} /\ tx'.index = tx.index
      /\ tx'.ends = tx.ends /\ tx'.cons = tx.cons
  BY <1>1, <1>2, <1>3, Parts DEF Tables, Rows
<1> QED
  BY <1>1, <1>4

\* What else the insertion of a relationship from s to t does.
Attaches(r, s, t) ==
    /\ tx'.ends = [tx.ends EXCEPT ![r] = <<s, t>>] /\ tx'.index = tx.index
    /\ \A n \in Nodes :
          /\ g'.out[n] = IF n = s /\ g.out[n] # Unloaded THEN g.out[n] \cup {r} ELSE g.out[n]
          /\ g'.in[n] = IF n = t /\ g.in[n] # Unloaded THEN g.in[n] \cup {r} ELSE g.in[n]

\* createRel
LEMMA CreateRelEffect ==
    ASSUME Typed, NEW r \in Rels, NEW type \in Types, NEW s \in Nodes, NEW t \in Nodes,
           NEW v \in Values \cup {Null}, CreateRel(r, type, s, t, v)
    PROVE  Inserts(r, [labels |-> {type}, prop |-> v]) /\ Attaches(r, s, t)
<1> DEFINE new == [labels |-> {type}, prop |-> v]
           out == [g.out EXCEPT ![s] = IF @ = Unloaded THEN @ ELSE @ \cup {r}]
           in  == [g.in EXCEPT ![t] = IF @ = Unloaded THEN @ ELSE @ \cup {r}]
<1>1. r \in Entities /\ new \in Row /\ new # NoRow /\ r \notin tx.used
  BY NewRow DEF Entities, CreateRel
<1>2. /\ tx' = [tx EXCEPT !.row[r] = new, !.ends[r] = <<s, t>>, !.used = @ \cup {r}]
      /\ g' = [AdjacencyWith(r, s, t) EXCEPT !.obj[r] = new, !.created = @ \cup {r}]
  BY DEF CreateRel
<1>3. out \in Lists /\ in \in Lists
  BY Parts DEF Lists
<1>4. AdjacencyWith(r, s, t) = [g EXCEPT !.out = out, !.in = in]
  BY Parts DEF AdjacencyWith, Graph
<1>5. \A n \in Nodes :
         /\ out[n] = IF n = s /\ g.out[n] # Unloaded THEN g.out[n] \cup {r} ELSE g.out[n]
         /\ in[n] = IF n = t /\ g.in[n] # Unloaded THEN g.in[n] \cup {r} ELSE g.in[n]
  BY Parts DEF Lists
<1> HIDE DEF new, out, in
<1>6. [tx.row EXCEPT ![r] = new] \in Rows /\ [g.obj EXCEPT ![r] = new] \in Rows
      /\ [tx.ends EXCEPT ![r] = <<s, t>>] \in [Rels -> (Nodes \X Nodes) \cup {NoEnds}]
  BY <1>1, Parts DEF Rows
<1>7. /\ tx' \in Tables
      /\ tx'.row = [tx.row EXCEPT ![r] = new] /\ tx'.ends = [tx.ends EXCEPT ![r] = <<s, t>>]
      /\ tx'.used = tx.used \cup {r} /\ tx'.index = tx.index /\ tx'.cons = tx.cons
  BY <1>1, <1>2, <1>6, Parts DEF Tables, Rows
<1>8. /\ g' \in Graph
      /\ g'.obj = [g.obj EXCEPT ![r] = new] /\ g'.created = g.created \cup {r}
      /\ g'.out = out /\ g'.in = in /\ g'.snap = g.snap /\ g'.deleted = g.deleted
  BY <1>1, <1>2, <1>3, <1>4, <1>6, Parts DEF Graph
<1>9. Inserts(r, new)
  BY <1>1, <1>7, <1>8 DEF Inserts
<1>10. Attaches(r, s, t)
  BY <1>5, <1>7, <1>8 DEF Attaches
<1> QED
  BY <1>9, <1>10 DEF new

\* A write to entity e: its row and the statement's copy both become new, and what
\* it was before the statement is remembered.
Rewrites(e, new) ==
    /\ new \in Row
    /\ tx' \in Tables /\ g' \in Graph
    /\ tx'.row = [tx.row EXCEPT ![e] = new] /\ g'.obj = [g.obj EXCEPT ![e] = new]
    /\ tx'.ends = tx.ends /\ tx'.cons = tx.cons /\ tx'.used = tx.used
    /\ g'.snap = Snapshot(e)
    /\ g'.out = g.out /\ g'.in = g.in /\ g'.created = g.created /\ g'.deleted = g.deleted

\* A snapshot keeps rows.
LEMMA SnapshotType == ASSUME Typed, NEW e \in Entities PROVE Snapshot(e) \in Rows
  BY Parts DEF Snapshot, Rows

\* setNodeProp, setRelProp
LEMMA SetPropEffect ==
    ASSUME Typed, Cached, NEW e \in Entities, NEW v \in Values \cup {Null}, SetProp(e, v)
    PROVE  /\ Rewrites(e, [g.obj[e] EXCEPT !.prop = v])
           /\ tx'.index = tx.index
<1> DEFINE new == [g.obj[e] EXCEPT !.prop = v]
<1>1. Bound(e) /\ g.obj[e] = tx.row[e] /\ tx.row[e] \in Row
  BY BoundRow DEF SetProp, Live, Cached
<1>2. new \in Row
  BY <1>1 DEF Row
<1>3. /\ tx' = [tx EXCEPT !.row[e] = new]
      /\ g' = [g EXCEPT !.snap = Snapshot(e), !.obj[e] = new]
  BY <1>1, Parts DEF SetProp, Tables, Graph, Rows
<1> HIDE DEF new
<1>4. [tx.row EXCEPT ![e] = new] \in Rows /\ [g.obj EXCEPT ![e] = new] \in Rows
  BY <1>2, Parts DEF Rows
<1>5. /\ tx' \in Tables
      /\ tx'.row = [tx.row EXCEPT ![e] = new] /\ tx'.index = tx.index
      /\ tx'.ends = tx.ends /\ tx'.cons = tx.cons /\ tx'.used = tx.used
  BY <1>3, <1>4, Parts DEF Tables, Rows
<1>6. /\ g' \in Graph /\ g'.obj = [g.obj EXCEPT ![e] = new] /\ g'.snap = Snapshot(e)
      /\ g'.out = g.out /\ g'.in = g.in /\ g'.created = g.created /\ g'.deleted = g.deleted
  BY <1>3, <1>4, SnapshotType, Parts DEF Graph
<1>7. Rewrites(e, new)
  BY <1>2, <1>5, <1>6 DEF Rewrites
<1> QED
  BY <1>5, <1>7 DEF new

\* addLabels, removeLabels
LEMMA SetLabelsEffect ==
    ASSUME Typed, Cached, NEW n \in Nodes, NEW labels \in SUBSET Labels, SetLabels(n, labels)
    PROVE  /\ Rewrites(n, [g.obj[n] EXCEPT !.labels = labels])
           /\ tx'.index = Indexed(n, labels)
<1> DEFINE new == [g.obj[n] EXCEPT !.labels = labels]
<1>0. n \in Entities
  BY DEF Entities
<1>1. Bound(n) /\ g.obj[n] = tx.row[n] /\ tx.row[n] \in Row
  BY <1>0, BoundRow DEF SetLabels, Relabel, Live, Cached
<1>2. new \in Row
  BY <1>1 DEF Row
<1>3. /\ tx' = [tx EXCEPT !.row[n] = new, !.index = Indexed(n, labels)]
      /\ g' = [g EXCEPT !.snap = Snapshot(n), !.obj[n] = new]
  BY <1>0, <1>1, Parts DEF SetLabels, Tables, Graph, Rows
<1> HIDE DEF new
<1>4. [tx.row EXCEPT ![n] = new] \in Rows /\ [g.obj EXCEPT ![n] = new] \in Rows
  BY <1>0, <1>2, Parts DEF Rows
<1>5. Indexed(n, labels) \in SUBSET (Nodes \X Labels)
  BY Parts DEF Indexed
<1>6. /\ tx' \in Tables
      /\ tx'.row = [tx.row EXCEPT ![n] = new] /\ tx'.index = Indexed(n, labels)
      /\ tx'.ends = tx.ends /\ tx'.cons = tx.cons /\ tx'.used = tx.used
  BY <1>3, <1>4, <1>5, Parts DEF Tables, Rows
<1>7. /\ g' \in Graph /\ g'.obj = [g.obj EXCEPT ![n] = new] /\ g'.snap = Snapshot(n)
      /\ g'.out = g.out /\ g'.in = g.in /\ g'.created = g.created /\ g'.deleted = g.deleted
  BY <1>0, <1>3, <1>4, SnapshotType, Parts DEF Graph
<1>8. Rewrites(n, new)
  BY <1>2, <1>6, <1>7 DEF Rewrites
<1> QED
  BY <1>6, <1>8 DEF new

\* persistLabels, when the insertion of the new rows fails
LEMMA HalfSetLabelsEffect ==
    ASSUME Typed, Cached, NEW n \in Nodes, NEW labels \in SUBSET Labels, HalfSetLabels(n, labels)
    PROVE  /\ tx' \in Tables
           /\ tx.row[n] # NoRow
           /\ \E new \in Row : new.labels = labels /\ tx'.row = [tx.row EXCEPT ![n] = new]
           /\ tx'.used = tx.used /\ tx'.ends = tx.ends /\ tx'.cons = tx.cons
<1> DEFINE new == [tx.row[n] EXCEPT !.labels = labels]
<1>1. n \in Entities /\ tx.row[n] \in Row /\ tx.row[n] # NoRow
  BY BoundRow DEF HalfSetLabels, Relabel, Live, Entities
<1>2. new \in Row /\ new.labels = labels
  BY <1>1 DEF Row
<1>3. PICK index \in SUBSET tx.index : tx' = [tx EXCEPT !.row[n] = new, !.index = index]
  <2>1. PICK index \in {tx.index, {p \in tx.index : p[1] # n}} :
           tx' = [tx EXCEPT !.row[n].labels = labels, !.index = index]
    BY DEF HalfSetLabels
  <2>2. index \in SUBSET tx.index
    BY <2>1
  <2> QED
    BY <1>1, <2>1, <2>2, Parts DEF Tables, Rows
<1> HIDE DEF new
<1>4. [tx.row EXCEPT ![n] = new] \in Rows
  BY <1>1, <1>2, Parts DEF Rows
<1>5. /\ tx' \in Tables /\ tx'.row = [tx.row EXCEPT ![n] = new]
      /\ tx'.ends = tx.ends /\ tx'.cons = tx.cons /\ tx'.used = tx.used
  BY <1>3, <1>4, Parts DEF Tables, Rows
<1> QED
  BY <1>1, <1>2, <1>5

\* Reading on from what was read on.
LEMMA ReadsMoreTwice ==
    ASSUME NEW h, NEW k, NEW l, ReadsMore(h, k), ReadsMore(k, l)
    PROVE  ReadsMore(h, l)
<1>1. \A e \in Entities : \/ l.obj[e] = h.obj[e]
                          \/ h.obj[e] = NoRow /\ l.obj[e] = tx.row[e]
  BY DEF ReadsMore
<1>2. \A m \in Nodes, s \in {"out", "in"} :
          \/ l[s][m] = h[s][m]
          \/ l[s][m] = Adjacent(m, s) /\ \A r \in Adjacent(m, s) : l.obj[r] # NoRow
  <2>1. \A m \in Nodes, s \in {"out", "in"} :
            (\A r \in Adjacent(m, s) : k.obj[r] # NoRow) => \A r \in Adjacent(m, s) : l.obj[r] # NoRow
    BY DEF ReadsMore, Adjacent, Entities
  <2> QED
    BY <2>1 DEF ReadsMore
<1> QED
  BY <1>1, <1>2 DEF ReadsMore

\* deleteRel, deleteNode: after more was read, entities are marked.
LEMMA DeleteEffect ==
    ASSUME Typed, Cached,
           \/ \E r \in Rels : DeleteRel(r)
           \/ \E n \in Nodes, detach \in BOOLEAN : DeleteNode(n, detach)
    PROVE  \E h \in Graph, marked \in SUBSET Entities :
              /\ ReadsMore(g, h)
              /\ \A e \in marked : tx.row[e] # NoRow /\ h.obj[e] # NoRow
              /\ g' = [h EXCEPT !.deleted = h.deleted \cup marked]
              /\ tx' = tx
<1>0. ReadsMore(g, g) /\ g \in Graph
  BY Parts DEF ReadsMore
<1>1. ASSUME NEW e \in Entities, Live(e), g' = [g EXCEPT !.deleted = g.deleted \cup {e}], tx' = tx
      PROVE  \E h \in Graph, marked \in SUBSET Entities :
                /\ ReadsMore(g, h)
                /\ \A f \in marked : tx.row[f] # NoRow /\ h.obj[f] # NoRow
                /\ g' = [h EXCEPT !.deleted = h.deleted \cup marked]
                /\ tx' = tx
  <2>1. tx.row[e] # NoRow /\ g.obj[e] # NoRow
    BY <1>1, BoundRow DEF Live, Bound
  <2> g \in Graph
    BY <1>0
  <2> WITNESS g \in Graph, {e} \in SUBSET Entities
  <2> QED
    BY <1>0, <1>1, <2>1
<1>2. CASE \E r \in Rels : DeleteRel(r)
  BY <1>1, <1>2 DEF DeleteRel, Entities
<1>3. ASSUME NEW n \in Nodes, DeleteNode(n, FALSE)
      PROVE  Live(n) /\ g' = [g EXCEPT !.deleted = g.deleted \cup {n}] /\ tx' = tx
  BY <1>3 DEF DeleteNode
<1>4. ASSUME NEW n \in Nodes, DeleteNode(n, TRUE)
      PROVE  \E h \in Graph, marked \in SUBSET Entities :
                /\ ReadsMore(g, h)
                /\ \A f \in marked : tx.row[f] # NoRow /\ h.obj[f] # NoRow
                /\ g' = [h EXCEPT !.deleted = h.deleted \cup marked]
                /\ tx' = tx
  <2> DEFINE k == WithAdjacency(g, n, "out")
             h == WithAdjacency(k, n, "in")
             marked == {n} \cup h.out[n] \cup h.in[n]
  <2>1. /\ ReadsMore(g, k) /\ k \in Graph
        /\ \/ k["out"][n] = Adjacent(n, "out") /\ \A r \in Adjacent(n, "out") : k.obj[r] # NoRow
           \/ g["out"][n] # Unloaded /\ k["out"][n] = g["out"][n]
    <3>1. Loads(g, k, n, "out")
      BY <1>0, AdjacencyEffect
    <3> QED
      BY <3>1 DEF Loads, ReadsMore
  <2> HIDE DEF k
  <2>2. /\ ReadsMore(k, h)
        /\ \/ h["in"][n] = Adjacent(n, "in") /\ \A r \in Adjacent(n, "in") : h.obj[r] # NoRow
           \/ k["in"][n] # Unloaded /\ h["in"][n] = k["in"][n]
    <3>1. Loads(k, h, n, "in")
      BY <2>1, AdjacencyEffect
    <3> QED
      BY <3>1 DEF Loads
  <2>3. /\ g' = [h EXCEPT !.deleted = h.deleted \cup marked]
        /\ Live(n) /\ tx' = tx
    BY <1>4 DEF DeleteNode, k
  <2> HIDE DEF h
  <2>4. ReadsMore(g, h)
    BY <2>1, <2>2, ReadsMoreTwice
  <2>5. \A side \in {"out", "in"} :
            h[side][n] = Adjacent(n, side) /\ \A r \in Adjacent(n, side) : h.obj[r] # NoRow
    <3>1. /\ \A e \in Entities : g.obj[e] # NoRow => h.obj[e] # NoRow
          /\ \A e \in Entities : k.obj[e] # NoRow => h.obj[e] # NoRow
      BY <2>2, <2>4 DEF ReadsMore
    <3>2. \A side \in {"out", "in"} : Adjacent(n, side) \subseteq Entities
      BY DEF Adjacent, Entities
    <3>3. \A side \in {"out", "in"} :
              g[side][n] # Unloaded =>
                  g[side][n] = Adjacent(n, side) /\ \A r \in Adjacent(n, side) : g.obj[r] # NoRow
      BY DEF Cached, Bound
    <3>4. \A side \in {"out", "in"} :
              k[side][n] # Unloaded =>
                  k[side][n] = Adjacent(n, side) /\ \A r \in Adjacent(n, side) : h.obj[r] # NoRow
      <4>1. \A side \in {"out", "in"} :
                \/ k[side][n] = g[side][n]
                \/ k[side][n] = Adjacent(n, side) /\ \A r \in Adjacent(n, side) : k.obj[r] # NoRow
        BY <2>1 DEF ReadsMore
      <4> QED
        BY <3>1, <3>2, <3>3, <4>1
    <3>5. h["in"][n] = Adjacent(n, "in") /\ \A r \in Adjacent(n, "in") : h.obj[r] # NoRow
      BY <2>2, <3>4
    <3>6. k["out"][n] = Adjacent(n, "out") /\ \A r \in Adjacent(n, "out") : h.obj[r] # NoRow
      BY <2>1, <3>1, <3>2, <3>3
    <3>7. h["out"][n] = k["out"][n] \/ h["out"][n] = Adjacent(n, "out")
      BY <2>2 DEF ReadsMore
    <3> QED
      BY <3>5, <3>6, <3>7
  <2>6. h.out[n] = Adjacent(n, "out") /\ h.in[n] = Adjacent(n, "in")
    BY <2>4, <2>5 DEF ReadsMore, Graph
  <2>7. \A f \in marked : f \in Entities /\ tx.row[f] # NoRow /\ h.obj[f] # NoRow
    BY <2>3, <2>4, <2>5, <2>6, BoundRow DEF ReadsMore, Adjacent, Entities, Live, Bound
  <2> h \in Graph /\ marked \in SUBSET Entities
    BY <2>4, <2>7 DEF ReadsMore
  <2> HIDE DEF marked
  <2> WITNESS h \in Graph, marked \in SUBSET Entities
  <2> QED
    BY <2>3, <2>4, <2>7
<1> QED
  BY <1>1, <1>2, <1>3, <1>4 DEF Entities

\* What DeleteEffect says of the graph value, component by component.
LEMMA MarkEffect ==
    ASSUME NEW h \in Graph, NEW marked \in SUBSET Entities,
           g' = [h EXCEPT !.deleted = h.deleted \cup marked]
    PROVE  /\ g' \in Graph /\ g'.deleted = h.deleted \cup marked
           /\ g'.obj = h.obj /\ g'.out = h.out /\ g'.in = h.in
           /\ g'.created = h.created /\ g'.snap = h.snap
           /\ g'["out"] = h["out"] /\ g'["in"] = h["in"]
  BY DEF Graph

\* Reading more, and marking, keeps the copy in step.
LEMMA ReadsMoreCached ==
    ASSUME Typed, Cached, tx' = tx, NEW h, ReadsMore(g, h),
           g'.obj = h.obj, g'["out"] = h["out"], g'["in"] = h["in"]
    PROVE  Cached'
<1>1. \A m \in Nodes, s \in {"out", "in"} : Adjacent(m, s)' = Adjacent(m, s)
  BY DEF Adjacent
<1>2. \A e \in Entities : g'.obj[e] # NoRow => g'.obj[e] = tx'.row[e]
  BY DEF ReadsMore, Cached, Bound
<1>3. \A e \in Entities : g.obj[e] # NoRow => g'.obj[e] # NoRow
  BY DEF ReadsMore
<1>4. ASSUME NEW m \in Nodes, NEW s \in {"out", "in"}, g'[s][m] # Unloaded
      PROVE  g'[s][m] = Adjacent(m, s) /\ \A r \in Adjacent(m, s) : g'.obj[r] # NoRow
  <2>1. g'[s] = h[s]
    OBVIOUS
  <2> QED
    BY <1>3, <1>4, <2>1 DEF ReadsMore, Cached, Bound, Adjacent, Entities
<1> QED
  BY <1>1, <1>2, <1>4 DEF Cached, Bound

\* Reads and deletions keep the shape.
LEMMA ReadShape ==
    ASSUME Shape, UNCHANGED scope,
           \/ \E n \in Nodes : Read(n)
           \/ \E n \in Nodes, side \in {"out", "in"} : LoadAdjacency(n, side)
           \/ \E r \in Rels : DeleteRel(r)
           \/ \E n \in Nodes, detach \in BOOLEAN : DeleteNode(n, detach)
    PROVE  Shape'
<1>1. Typed /\ Cached /\ Running /\ g \in Graph
  BY DEF Read, LoadAdjacency, DeleteRel, DeleteNode, Running, Shape, Typed
<1>2. tx' = tx /\ g' \in Graph /\ Cached'
  <2>1. ASSUME NEW n \in Nodes, Read(n) PROVE tx' = tx /\ g' \in Graph /\ Cached'
    BY <1>1, <2>1, ReadEffect, ReadsMoreCached DEF ReadsMore
  <2>2. ASSUME NEW n \in Nodes, NEW side \in {"out", "in"}, LoadAdjacency(n, side)
        PROVE  tx' = tx /\ g' \in Graph /\ Cached'
    <3>1. ReadsMore(g, g') /\ tx' = tx
      BY <1>1, <2>2, AdjacencyEffect DEF LoadAdjacency, Loads
    <3> QED
      BY <1>1, <3>1, ReadsMoreCached DEF ReadsMore
  <2>3. CASE \/ \E r \in Rels : DeleteRel(r)
             \/ \E n \in Nodes, detach \in BOOLEAN : DeleteNode(n, detach)
    <3>1. PICK h \in Graph, marked \in SUBSET Entities :
              ReadsMore(g, h) /\ g' = [h EXCEPT !.deleted = h.deleted \cup marked] /\ tx' = tx
      BY <1>1, <2>3, DeleteEffect
    <3> QED
      BY <1>1, <3>1, MarkEffect, ReadsMoreCached
  <2> QED
    BY <2>1, <2>2, <2>3
<1> QED
  BY <1>1, <1>2, WithinStatement DEF Running, Shape, Typed, TypeOK

\* A new row that nobody has read, or a row written through its copy, and the
\* adjacency lists as they are after it: the copy stays in step.
LEMMA CreateNodeShape ==
    ASSUME Shape, UNCHANGED scope, NEW n \in Nodes, NEW labels \in SUBSET Labels,
           NEW v \in Values \cup {Null}, CreateNode(n, labels, v)
    PROVE  Shape'
<1> DEFINE new == [labels |-> labels, prop |-> v]
<1>1. Typed /\ Cached /\ Running /\ n \notin tx.used /\ n \in Entities /\ tx.row[n] = NoRow
  BY DEF CreateNode, Running, Shape, RowsUsed, Entities
<1>2. Inserts(n, new) /\ tx'.ends = tx.ends /\ g'.out = g.out /\ g'.in = g.in
  BY <1>1, CreateNodeEffect
<1> HIDE DEF new
<1>4. RowsUsed(tx')
  BY <1>1, <1>2, Parts DEF Shape, RowsUsed, Rows, Inserts
<1>5. \A m \in Nodes, s \in {"out", "in"} : Adjacent(m, s)' = Adjacent(m, s)
  BY <1>1, <1>2, Parts, StatementAssumption DEF Adjacent, Rows, Inserts, Entities
<1>6. \A e \in Entities : /\ g'.obj[e] # NoRow => g'.obj[e] = tx'.row[e]
                          /\ g.obj[e] # NoRow => g'.obj[e] # NoRow
  BY <1>1, <1>2, Parts DEF Cached, Bound, Rows, Inserts
<1>7. \A m \in Nodes, s \in {"out", "in"} : g'[s][m] = g[s][m]
  BY <1>1, <1>2, Parts DEF Graph, Inserts
<1>8. Cached'
  BY <1>1, <1>5, <1>6, <1>7 DEF Cached, Bound, Adjacent, Entities
<1> QED
  BY <1>1, <1>2, <1>4, <1>8, WithinStatement DEF Inserts, Running, Shape, Typed, TypeOK

\* createRel adds the relationship to the lists that were read.
LEMMA CreateRelShape ==
    ASSUME Shape, UNCHANGED scope, NEW r \in Rels, NEW type \in Types, NEW s \in Nodes, NEW t \in Nodes,
           NEW v \in Values \cup {Null}, CreateRel(r, type, s, t, v)
    PROVE  Shape'
<1> DEFINE new == [labels |-> {type}, prop |-> v]
<1>1. Typed /\ Cached /\ Running /\ r \in Entities /\ tx.row[r] = NoRow
  BY DEF CreateRel, Running, Shape, RowsUsed, Entities
<1>2. /\ Inserts(r, new) /\ tx'.ends = [tx.ends EXCEPT ![r] = <<s, t>>]
      /\ \A n \in Nodes :
            /\ g'.out[n] = IF n = s /\ g.out[n] # Unloaded THEN g.out[n] \cup {r} ELSE g.out[n]
            /\ g'.in[n] = IF n = t /\ g.in[n] # Unloaded THEN g.in[n] \cup {r} ELSE g.in[n]
  <2>1. Inserts(r, new) /\ Attaches(r, s, t)
    BY <1>1, CreateRelEffect
  <2> QED
    BY <2>1 DEF Attaches
<1> HIDE DEF new
<1>4. RowsUsed(tx')
  BY <1>1, <1>2, Parts DEF Shape, RowsUsed, Rows, Inserts
<1>5. \A n \in Nodes :
         /\ Adjacent(n, "out")' = IF n = s THEN Adjacent(n, "out") \cup {r} ELSE Adjacent(n, "out")
         /\ Adjacent(n, "in")' = IF n = t THEN Adjacent(n, "in") \cup {r} ELSE Adjacent(n, "in")
  BY <1>1, <1>2, Parts DEF Adjacent, Side, Rows, Inserts, Entities
<1>6. \A e \in Entities : /\ g'.obj[e] # NoRow => g'.obj[e] = tx'.row[e]
                          /\ g.obj[e] # NoRow => g'.obj[e] # NoRow
  BY <1>1, <1>2, Parts DEF Cached, Bound, Rows, Inserts
<1>7. g'.obj[r] # NoRow
  BY <1>1, <1>2, Parts DEF Rows, Inserts
<1>8. g'["out"] = g'.out /\ g'["in"] = g'.in /\ g["out"] = g.out /\ g["in"] = g.in
  BY <1>1, <1>2, Parts DEF Graph, Inserts
<1>9. \A n \in Nodes :
         /\ g'.out[n] # Unloaded => g.out[n] # Unloaded
         /\ g'.in[n] # Unloaded => g.in[n] # Unloaded
  BY <1>2
<1>10. ASSUME NEW n \in Nodes, g'.out[n] # Unloaded
       PROVE  g'.out[n] = Adjacent(n, "out")' /\ \A q \in Adjacent(n, "out")' : g'.obj[q] # NoRow
  <2>1. g.out[n] # Unloaded /\ g.out[n] = Adjacent(n, "out") /\ \A q \in Adjacent(n, "out") : g.obj[q] # NoRow
    BY <1>1, <1>8, <1>9, <1>10 DEF Cached, Bound
  <2>2. Adjacent(n, "out") \subseteq Entities
    BY DEF Adjacent, Entities
  <2>3. CASE n = s
    <3>1. g'.out[n] = g.out[n] \cup {r} /\ Adjacent(n, "out")' = Adjacent(n, "out") \cup {r}
      BY <1>2, <1>5, <2>1, <2>3
    <3> QED
      BY <1>6, <1>7, <2>1, <2>2, <3>1
  <2>4. CASE n # s
    <3>1. g'.out[n] = g.out[n] /\ Adjacent(n, "out")' = Adjacent(n, "out")
      BY <1>2, <1>5, <2>1, <2>4
    <3> QED
      BY <1>6, <2>1, <2>2, <3>1
  <2> QED
    BY <2>3, <2>4
<1>11. ASSUME NEW n \in Nodes, g'.in[n] # Unloaded
       PROVE  g'.in[n] = Adjacent(n, "in")' /\ \A q \in Adjacent(n, "in")' : g'.obj[q] # NoRow
  <2>1. g.in[n] # Unloaded /\ g.in[n] = Adjacent(n, "in") /\ \A q \in Adjacent(n, "in") : g.obj[q] # NoRow
    BY <1>1, <1>8, <1>9, <1>11 DEF Cached, Bound
  <2>2. Adjacent(n, "in") \subseteq Entities
    BY DEF Adjacent, Entities
  <2>3. CASE n = t
    <3>1. g'.in[n] = g.in[n] \cup {r} /\ Adjacent(n, "in")' = Adjacent(n, "in") \cup {r}
      BY <1>2, <1>5, <2>1, <2>3
    <3> QED
      BY <1>6, <1>7, <2>1, <2>2, <3>1
  <2>4. CASE n # t
    <3>1. g'.in[n] = g.in[n] /\ Adjacent(n, "in")' = Adjacent(n, "in")
      BY <1>2, <1>5, <2>1, <2>4
    <3> QED
      BY <1>6, <2>1, <2>2, <3>1
  <2> QED
    BY <2>3, <2>4
<1>12. Cached'
  BY <1>6, <1>8, <1>10, <1>11 DEF Cached, Bound
<1> QED
  BY <1>1, <1>2, <1>4, <1>12, WithinStatement DEF Inserts, Running, Shape, Typed, TypeOK

\* A row written through its copy; no adjacency list depends on what it holds.
LEMMA RewriteShape ==
    ASSUME Shape, UNCHANGED scope, Running, NEW e \in Entities, Bound(e), NEW new, Rewrites(e, new)
    PROVE  Shape'
<1>1. Typed /\ Cached /\ tx.row[e] # NoRow /\ new # NoRow
  BY BoundRow, StatementAssumption DEF Running, Shape, Rewrites
<1>2. RowsUsed(tx')
  BY <1>1, Parts DEF Shape, RowsUsed, Rows, Rewrites
<1>3. \A m \in Nodes, s \in {"out", "in"} : Adjacent(m, s)' = Adjacent(m, s)
  BY <1>1, Parts DEF Adjacent, Rows, Rewrites, Entities
<1>4. \A f \in Entities : /\ g'.obj[f] # NoRow => g'.obj[f] = tx'.row[f]
                          /\ g.obj[f] # NoRow => g'.obj[f] # NoRow
  BY <1>1, Parts DEF Cached, Bound, Rows, Rewrites
<1>5. \A m \in Nodes, s \in {"out", "in"} : g'[s][m] = g[s][m]
  BY <1>1, Parts DEF Graph, Rewrites
<1>6. Cached'
  BY <1>1, <1>3, <1>4, <1>5 DEF Cached, Bound, Adjacent, Entities
<1> QED
  BY <1>1, <1>2, <1>6, WithinStatement DEF Rewrites, Running, Shape, Typed, TypeOK

\* The writes an error interrupts.
LEMMA HalfShape ==
    ASSUME Shape, UNCHANGED scope, NEW n \in Nodes, NEW labels \in SUBSET Labels,
           HalfCreateNode(n, labels) \/ HalfSetLabels(n, labels)
    PROVE  Shape'
<1>1. /\ Typed /\ Cached /\ g \in Graph /\ n \in Entities /\ pc = "running"
      /\ UNCHANGED <<committed, mode, broken, g, counters, before>> /\ pc' = "failed"
      /\ DOMAIN counters = DOMAIN NoCounters
  BY DEF HalfCreateNode, HalfSetLabels, Shape, Typed, TypeOK, Entities
<1>2. CASE HalfCreateNode(n, labels)
  <2>1. tx' \in Tables
    BY <1>1, <1>2, HalfCreateNodeEffect
  <2>2. PICK new \in Row : tx'.row = [tx.row EXCEPT ![n] = new]
    BY <1>1, <1>2, HalfCreateNodeEffect
  <2>3. tx'.used = tx.used \cup {n}
    BY <1>1, <1>2, HalfCreateNodeEffect
  <2>4. RowsUsed(tx')
    BY <1>1, <2>2, <2>3, Parts DEF Shape, RowsUsed, Rows
  <2> QED
    BY <1>1, <2>1, <2>4, WithinStatement
<1>3. CASE HalfSetLabels(n, labels)
  <2>1. tx' \in Tables /\ tx.row[n] # NoRow
    BY <1>1, <1>3, HalfSetLabelsEffect
  <2>2. PICK new \in Row : tx'.row = [tx.row EXCEPT ![n] = new]
    BY <1>1, <1>3, HalfSetLabelsEffect
  <2>3. tx'.used = tx.used
    BY <1>1, <1>3, HalfSetLabelsEffect
  <2>4. RowsUsed(tx')
    BY <1>1, <2>1, <2>2, <2>3, Parts DEF Shape, RowsUsed, Rows
  <2> QED
    BY <1>1, <2>1, <2>4, WithinStatement
<1> QED
  BY <1>2, <1>3

\* Relationships are deleted, and nodes are, with their rows of node_labels.
DropsRels(gone) ==
    /\ tx' \in Tables
    /\ \A e \in Entities : tx'.row[e] = IF e \in gone THEN NoRow ELSE tx.row[e]
    /\ \A r \in Rels : tx'.ends[r] = IF r \in gone THEN NoEnds ELSE tx.ends[r]
    /\ tx'.index = tx.index /\ tx'.cons = tx.cons /\ tx'.used = tx.used

DropsNodes(gone) ==
    /\ tx' \in Tables
    /\ \A e \in Entities : tx'.row[e] = IF e \in gone THEN NoRow ELSE tx.row[e]
    /\ tx'.index = {p \in tx.index : p[1] \notin gone}
    /\ tx'.ends = tx.ends /\ tx'.cons = tx.cons /\ tx'.used = tx.used

LEMMA DropsRelsEffect ==
    ASSUME Typed, NEW gone, tx' = WithoutRels(gone)
    PROVE  DropsRels(gone)
<1> DEFINE row  == [e \in Entities |-> IF e \in gone THEN NoRow ELSE tx.row[e]]
           ends == [r \in Rels |-> IF r \in gone THEN NoEnds ELSE tx.ends[r]]
<1>1. tx' = [tx EXCEPT !.row = row, !.ends = ends]
  BY DEF WithoutRels
<1>2. /\ row \in Rows /\ ends \in [Rels -> (Nodes \X Nodes) \cup {NoEnds}]
      /\ \A e \in Entities : row[e] = IF e \in gone THEN NoRow ELSE tx.row[e]
      /\ \A r \in Rels : ends[r] = IF r \in gone THEN NoEnds ELSE tx.ends[r]
  BY Parts DEF Rows
<1> HIDE DEF row, ends
<1>3. /\ tx' \in Tables /\ tx'.row = row /\ tx'.ends = ends
      /\ tx'.index = tx.index /\ tx'.cons = tx.cons /\ tx'.used = tx.used
  BY <1>1, <1>2, Parts DEF Tables, Rows
<1> QED
  BY <1>2, <1>3 DEF DropsRels

LEMMA DropsNodesEffect ==
    ASSUME Typed, NEW gone, tx' = WithoutNodes(gone)
    PROVE  DropsNodes(gone)
<1> DEFINE row   == [e \in Entities |-> IF e \in gone THEN NoRow ELSE tx.row[e]]
           index == {p \in tx.index : p[1] \notin gone}
<1>1. tx' = [tx EXCEPT !.row = row, !.index = index]
  BY DEF WithoutNodes
<1>2. /\ row \in Rows /\ index \in SUBSET (Nodes \X Labels)
      /\ \A e \in Entities : row[e] = IF e \in gone THEN NoRow ELSE tx.row[e]
  BY Parts DEF Rows
<1> HIDE DEF row
<1>3. /\ tx' \in Tables /\ tx'.row = row /\ tx'.index = index
      /\ tx'.ends = tx.ends /\ tx'.cons = tx.cons /\ tx'.used = tx.used
  BY <1>1, <1>2, Parts DEF Tables, Rows
<1> QED
  BY <1>2, <1>3 DEF DropsNodes

\* finish deletes marked relationships first, and marked nodes after them, all of
\* them unless it fails.
LEMMA FinishRelsEffect ==
    ASSUME Typed, FinishRels
    PROVE  DropsRels(DeletedRels)
  BY DropsRelsEffect DEF FinishRels

LEMMA FinishNodesEffect ==
    ASSUME Typed, FinishNodes
    PROVE  DropsNodes(DeletedNodes) /\ counters' = NetCounters(tx'.index)
  BY DropsNodesEffect DEF FinishNodes

LEMMA HalfFinishEffect ==
    ASSUME Typed, HalfFinish
    PROVE  \/ \E gone \in SUBSET DeletedRels : DropsRels(gone)
           \/ pc = "unlinked" /\ \E gone \in SUBSET DeletedNodes : DropsNodes(gone)
<1>1. ASSUME NEW gone \in SUBSET DeletedRels, tx' = WithoutRels(gone) PROVE DropsRels(gone)
  BY <1>1, DropsRelsEffect
<1>2. ASSUME NEW gone \in SUBSET DeletedNodes, tx' = WithoutNodes(gone) PROVE DropsNodes(gone)
  BY <1>2, DropsNodesEffect
<1> QED
  BY <1>1, <1>2 DEF HalfFinish

\* CREATE CONSTRAINT, DROP CONSTRAINT
LEMMA SchemaEffect ==
    ASSUME Typed, NEW c \in Constraint, CreateConstraint(c) \/ DropConstraint(c)
    PROVE  /\ tx' \in Tables /\ tx'.row = tx.row /\ tx'.ends = tx.ends
           /\ tx'.index = tx.index /\ tx'.used = tx.used
           /\ pc = "running" /\ pc' = "done" /\ g = NewGraph
           /\ UNCHANGED <<committed, mode, broken, g, counters, before>>
           /\ tx'.cons \subseteq tx.cons \cup {c}
           /\ c \in tx'.cons /\ c \notin tx.cons => Validates(c)
<1>1. PICK cons \in SUBSET Constraint :
         /\ SchemaCommand(cons) /\ cons \subseteq tx.cons \cup {c}
         /\ c \in cons /\ c \notin tx.cons => Validates(c)
  <2>1. CASE CreateConstraint(c)
    <3>1. tx.cons \cup {c} \in SUBSET Constraint
      BY Parts
    <3> QED
      BY <2>1, <3>1 DEF CreateConstraint
  <2>2. CASE DropConstraint(c)
    <3>1. tx.cons \ {c} \in SUBSET Constraint
      BY Parts
    <3> QED
      BY <2>2, <3>1 DEF DropConstraint
  <2> QED
    BY <2>1, <2>2
<1>2. /\ tx' \in Tables /\ tx'.row = tx.row /\ tx'.ends = tx.ends
      /\ tx'.index = tx.index /\ tx'.used = tx.used /\ tx'.cons = cons
  BY <1>1, Parts DEF SchemaCommand, Tables
<1> QED
  BY <1>1, <1>2 DEF SchemaCommand

\* The end of a statement, and schema commands, keep the shape.
LEMMA FinishShape ==
    ASSUME Shape, UNCHANGED scope,
           \/ FinishRels \/ FinishNodes \/ HalfFinish \/ CheckConstraints
           \/ \E c \in Constraint : CreateConstraint(c) \/ DropConstraint(c)
    PROVE  Shape'
<1>1. Typed /\ g \in Graph /\ tx \in Tables /\ DOMAIN counters = DOMAIN NoCounters
  BY Parts DEF Shape, Typed, TypeOK
<1>2. CASE FinishRels
  <2>1. tx' \in Tables /\ RowsUsed(tx')
    BY <1>1, <1>2, FinishRelsEffect DEF DropsRels, Shape, RowsUsed
  <2> QED
    BY <1>1, <1>2, <2>1, WithinStatement DEF FinishRels
<1>3. CASE FinishNodes
  <2>1. tx' \in Tables /\ RowsUsed(tx')
    BY <1>1, <1>3, FinishNodesEffect DEF DropsNodes, Shape, RowsUsed
  <2>2. DOMAIN counters' = DOMAIN NoCounters
    BY <1>3 DEF FinishNodes, NetCounters, NoCounters
  <2> QED
    BY <1>1, <1>3, <2>1, <2>2, WithinStatement DEF FinishNodes
<1>4. CASE CheckConstraints
  BY <1>1, <1>4, WithinStatement DEF CheckConstraints, Shape
<1>5. ASSUME NEW c \in Constraint, CreateConstraint(c) \/ DropConstraint(c)
      PROVE  Shape'
  <2>1. /\ tx' \in Tables /\ tx'.row = tx.row /\ tx'.used = tx.used
        /\ pc = "running" /\ pc' = "done"
        /\ UNCHANGED <<committed, mode, broken, g, counters, before>>
    BY <1>1, <1>5, SchemaEffect
  <2>2. RowsUsed(tx')
    BY <2>1 DEF Shape, RowsUsed
  <2> QED
    BY <1>1, <2>1, <2>2, WithinStatement
<1>6. CASE HalfFinish
  <2>1. tx' \in Tables /\ RowsUsed(tx')
    BY <1>1, <1>6, HalfFinishEffect DEF DropsRels, DropsNodes, Shape, RowsUsed
  <2> QED
    BY <1>1, <1>6, <2>1, WithinStatement DEF HalfFinish
<1> QED
  BY <1>2, <1>3, <1>4, <1>5, <1>6


\* The steps of Next, whatever the scope.
Looks ==
    \/ \E n \in Nodes : Read(n)
    \/ \E n \in Nodes, side \in {"out", "in"} : LoadAdjacency(n, side)
    \/ \E r \in Rels : DeleteRel(r)
    \/ \E n \in Nodes, detach \in BOOLEAN : DeleteNode(n, detach)

Writes ==
    \/ \E n \in Nodes, labels \in SUBSET Labels, v \in Values \cup {Null} : CreateNode(n, labels, v)
    \/ \E r \in Rels, type \in Types, s \in Nodes, t \in Nodes, v \in Values \cup {Null} :
          CreateRel(r, type, s, t, v)
    \/ \E e \in Entities, v \in Values \cup {Null} : SetProp(e, v)
    \/ \E n \in Nodes, labels \in SUBSET Labels : SetLabels(n, labels)
    \/ \E n \in Nodes, labels \in SUBSET Labels : HalfCreateNode(n, labels) \/ HalfSetLabels(n, labels)

Ends ==
    \/ FinishRels \/ FinishNodes \/ HalfFinish \/ CheckConstraints
    \/ \E c \in Constraint : CreateConstraint(c) \/ DropConstraint(c)

\* What no step of a statement touches: the committed tables and the transaction.
Framed == UNCHANGED <<committed, mode, broken, before>>

\* Reads and deletions leave the tables alone and the statement running.
LEMMA LooksFrame ==
    ASSUME Looks
    PROVE  Running /\ tx' = tx
<1>1. ASSUME NEW n \in Nodes, Read(n) PROVE Running /\ tx' = tx
  BY <1>1 DEF Read
<1>2. ASSUME NEW n \in Nodes, NEW side \in {"out", "in"}, LoadAdjacency(n, side) PROVE Running /\ tx' = tx
  BY <1>2 DEF LoadAdjacency
<1>3. ASSUME NEW r \in Rels, DeleteRel(r) PROVE Running /\ tx' = tx
  BY <1>3 DEF DeleteRel
<1>4. ASSUME NEW n \in Nodes, NEW detach \in BOOLEAN, DeleteNode(n, detach) PROVE Running /\ tx' = tx
  BY <1>4 DEF DeleteNode
<1> QED
  BY <1>1, <1>2, <1>3, <1>4 DEF Looks

\* A write leaves the statement running, or failed when it was interrupted.
LEMMA WritesFrame ==
    ASSUME Writes
    PROVE  /\ pc = "running" /\ Framed
           /\ Running \/ pc' = "failed"
<1> DEFINE Frame == pc = "running" /\ Framed /\ (Running \/ pc' = "failed")
<1>1. ASSUME NEW n, NEW labels, NEW v, CreateNode(n, labels, v) PROVE Frame
  BY <1>1 DEF CreateNode, Running, Framed
<1>2. ASSUME NEW r, NEW type, NEW s, NEW t, NEW v, CreateRel(r, type, s, t, v) PROVE Frame
  BY <1>2 DEF CreateRel, Running, Framed
<1>3. ASSUME NEW e, NEW v, SetProp(e, v) PROVE Frame
  BY <1>3 DEF SetProp, Running, Framed
<1>4. ASSUME NEW n, NEW labels, SetLabels(n, labels) PROVE Frame
  BY <1>4 DEF SetLabels, Running, Framed
<1>5. ASSUME NEW n, NEW labels, HalfCreateNode(n, labels) \/ HalfSetLabels(n, labels) PROVE Frame
  BY <1>5 DEF HalfCreateNode, HalfSetLabels, Framed
<1> HIDE DEF Frame
<1> Frame
  BY <1>1, <1>2, <1>3, <1>4, <1>5 DEF Writes
<1> QED
  BY DEF Frame

\* finish goes through its steps in order; a schema command is a statement of its own.
LEMMA EndsFrame ==
    ASSUME Ends
    PROVE  /\ Framed
           /\ \/ FinishRels /\ pc = "running" /\ pc' = "unlinked"
              \/ FinishNodes /\ pc = "unlinked" /\ pc' = "checking"
              \/ HalfFinish /\ pc \in {"running", "unlinked"} /\ pc' = "failed"
              \/ CheckConstraints /\ pc = "checking" /\ pc' \in {"done", "failed"}
              \/ /\ \E c \in Constraint : CreateConstraint(c) \/ DropConstraint(c)
                 /\ pc = "running" /\ pc' = "done"
<1>1. CASE FinishRels
  BY <1>1 DEF FinishRels, Framed
<1>2. CASE FinishNodes
  BY <1>2 DEF FinishNodes, Framed
<1>3. CASE CheckConstraints
  BY <1>3 DEF CheckConstraints, Framed
<1>4. CASE \E c \in Constraint : CreateConstraint(c) \/ DropConstraint(c)
  BY <1>4 DEF CreateConstraint, DropConstraint, SchemaCommand, Framed
<1>5. CASE HalfFinish
  BY <1>5 DEF HalfFinish, Framed
<1> QED
  BY <1>1, <1>2, <1>3, <1>4, <1>5 DEF Ends

\* Where a step of the transaction leaves it.
LEMMA TransactionFrame ==
    ASSUME Transaction
    PROVE  pc' \in {"idle", "between", "running", "failed"}
<1>1. CASE BeginAuto \/ BeginTx \/ Run \/ Return \/ Fail
  BY <1>1 DEF BeginAuto, BeginTx, Run, Return, Fail
<1>2. CASE Commit \/ Rollback
  BY <1>2 DEF Commit, Rollback, Close
<1> QED
  BY <1>1, <1>2 DEF Transaction

\* A step of Next is a transaction's, one that looks or deletes, one that writes, or
\* one that ends a statement; none changes the scope of the behaviour.
LEMMA NextCases ==
    ASSUME Typed, Next
    PROVE  UNCHANGED scope /\ (Transaction \/ Looks \/ Writes \/ Ends)
<1>1. UNCHANGED scope /\ Step
  BY DEF Next
<1>2. ASSUME NodeStep PROVE Looks \/ Writes
  <2>1. PICK n \in Nodes :
          \/ Read(n)
          \/ \E side \in {"out", "in"} : LoadAdjacency(n, side)
          \/ \E labels \in SUBSET scope.labels :
              \/ \E v \in scope.values \cup {Null} : CreateNode(n, labels, v)
              \/ HalfCreateNode(n, labels)
              \/ SetLabels(n, labels) \/ HalfSetLabels(n, labels)
          \/ \E detach \in BOOLEAN : DeleteNode(n, detach)
    BY <1>2, ScopeType DEF NodeStep
  <2>2. CASE Read(n) \/ (\E side \in {"out", "in"} : LoadAdjacency(n, side))
                     \/ (\E detach \in BOOLEAN : DeleteNode(n, detach))
    BY <2>2 DEF Looks
  <2>3. ASSUME NEW labels \in SUBSET scope.labels,
               \/ \E v \in scope.values \cup {Null} : CreateNode(n, labels, v)
               \/ HalfCreateNode(n, labels)
               \/ SetLabels(n, labels) \/ HalfSetLabels(n, labels)
        PROVE  Writes
    <3>1. labels \in SUBSET Labels /\ scope.values \cup {Null} \subseteq Values \cup {Null}
      BY ScopeType
    <3> QED
      BY <2>3, <3>1, Zenon DEF Writes
  <2> QED
    BY <2>1, <2>2, <2>3
<1>3. ASSUME RelStep PROVE Looks \/ Writes
  <2>1. PICK r \in Rels :
          \/ \E type \in Types, s, t \in Nodes, v \in scope.values \cup {Null} : CreateRel(r, type, s, t, v)
          \/ DeleteRel(r)
    BY <1>3, ScopeType DEF RelStep
  <2>2. scope.values \cup {Null} \subseteq Values \cup {Null}
    BY ScopeType
  <2> QED
    BY <2>1, <2>2 DEF Looks, Writes
<1>4. ASSUME NEW e \in Entities, NEW v \in scope.values \cup {Null}, SetProp(e, v) PROVE Writes
  <2>1. v \in Values \cup {Null}
    BY ScopeType
  <2> QED
    BY <1>4, <2>1 DEF Writes
<1>5. ASSUME NEW c \in scope.schema, CreateConstraint(c) \/ DropConstraint(c) PROVE Ends
  <2>1. c \in Constraint
    BY ScopeType
  <2> QED
    BY <1>5, <2>1 DEF Ends
<1> QED
  BY <1>1, <1>2, <1>3, <1>4, <1>5 DEF Step, Ends

\* The writes keep the shape.
LEMMA WritesShape ==
    ASSUME Shape, UNCHANGED scope, Writes
    PROVE  Shape'
<1>1. ASSUME NEW e \in Entities, NEW v \in Values \cup {Null}, SetProp(e, v) PROVE Shape'
  <2>1. Typed /\ Cached /\ Running /\ Bound(e)
    BY <1>1 DEF SetProp, Live, Running, Shape
  <2>2. Rewrites(e, [g.obj[e] EXCEPT !.prop = v])
    BY <1>1, <2>1, SetPropEffect
  <2> QED
    BY <2>1, <2>2, RewriteShape
<1>2. ASSUME NEW n \in Nodes, NEW labels \in SUBSET Labels, SetLabels(n, labels) PROVE Shape'
  <2>1. Typed /\ Cached /\ Running /\ Bound(n) /\ n \in Entities
    BY <1>2 DEF SetLabels, Relabel, Live, Running, Shape, Entities
  <2>2. Rewrites(n, [g.obj[n] EXCEPT !.labels = labels])
    BY <1>2, <2>1, SetLabelsEffect
  <2> QED
    BY <2>1, <2>2, RewriteShape
<1>3. CASE \E n \in Nodes, labels \in SUBSET Labels, v \in Values \cup {Null} : CreateNode(n, labels, v)
  BY <1>3, CreateNodeShape
<1>4. CASE \E r \in Rels, type \in Types, s \in Nodes, t \in Nodes, v \in Values \cup {Null} :
              CreateRel(r, type, s, t, v)
  BY <1>4, CreateRelShape
<1>5. CASE \E n \in Nodes, labels \in SUBSET Labels : HalfCreateNode(n, labels) \/ HalfSetLabels(n, labels)
  BY <1>5, HalfShape
<1> QED
  BY <1>1, <1>2, <1>3, <1>4, <1>5 DEF Writes

\* Every step keeps the shape.
LEMMA NextShape ==
    ASSUME Shape, [Next]_vars
    PROVE  Shape'
<1>1. CASE UNCHANGED vars
  <2>1. {committed, tx, before}' = {committed, tx, before} /\ Cached' = Cached
    BY <1>1 DEF vars, Cached, Bound, Adjacent
  <2>2. Typed'
    BY <1>1, <2>1 DEF vars, Shape, Typed, TypeOK
  <2> QED
    BY <1>1, <2>1, <2>2 DEF vars, Shape, RowsUsed
<1>2. CASE Next
  <2>1. UNCHANGED scope /\ (Transaction \/ Looks \/ Writes \/ Ends)
    BY <1>2, NextCases DEF Shape
  <2> QED
    BY <2>1, TransactionShape, ReadShape, WritesShape, FinishShape DEF Looks, Ends
<1> QED
  BY <1>1, <1>2

\* In every reachable state.
LEMMA ShapeHolds == Spec => []Shape
  BY InitShape, NextShape, PTL DEF Spec

\* The shape of the state, and that outside a statement its graph value is
\* forgotten (newGraph is called for each statement, and only a Tx outlives one).
THEOREM StateTyped == Spec => []TypeOK
<1>1. Shape => TypeOK
  BY DEF Shape, Typed
<1> QED
  BY <1>1, ShapeHolds, PTL

\* graph.go's cache: whatever a statement has read, written or marked, its copy of
\* an entity and its adjacency lists are what SQLite would return.
THEOREM CacheStaysInStep == Spec => []CacheInStep
<1>1. Shape => CacheInStep
  BY DEF Shape, Cached, CacheInStep
<1> QED
  BY <1>1, ShapeHolds, PTL


-----------------------------------------------------------------------------
(* node_labels.  Inside a transaction the index may be out of step, once a  *)
(* statement failed half way; the invariant is that only failed statements  *)
(* and broken transactions are, and those are not committed.  A statement  *)
(* with a transaction of its own never runs in a broken one.               *)

InStep(t) ==
    \A n \in Nodes, l \in Labels :
        <<n, l>> \in t.index <=> t.row[n] # NoRow /\ l \in t.row[n].labels

IndexKept ==
    /\ InStep(committed)
    /\ pc \notin {"idle", "failed"} /\ ~broken => InStep(tx)
    /\ mode # "tx" => ~broken

\* The rows of the nodes and the index decide.
LEMMA SameInStep ==
    ASSUME NEW t, NEW u, InStep(t), u.index = t.index, \A n \in Nodes : u.row[n] = t.row[n]
    PROVE  InStep(u)
  BY DEF InStep

\* What the writes of a statement do to the index.
LEMMA WritesInStep ==
    ASSUME Shape, InStep(tx), Writes, pc' # "failed"
    PROVE  InStep(tx')
<1>0. Typed /\ Cached /\ RowsUsed(tx)
  BY WritesFrame DEF Shape
<1>1. ASSUME NEW n \in Nodes, NEW labels \in SUBSET Labels, NEW v \in Values \cup {Null},
             CreateNode(n, labels, v)
      PROVE  InStep(tx')
  <2> DEFINE new == [labels |-> labels, prop |-> v]
  <2>1. Inserts(n, new) /\ tx'.index = tx.index \cup ({n} \X labels)
    BY <1>0, <1>1, CreateNodeEffect
  <2>2. new.labels = labels /\ n \in Entities
    BY DEF Entities
  <2> HIDE DEF new
  <2>3. tx.row[n] = NoRow
    BY <1>0, <2>1, <2>2 DEF Inserts, RowsUsed
  <2>4. \A m \in Nodes : tx'.row[m] = IF m = n THEN new ELSE tx.row[m]
    BY <1>0, <2>1, <2>2, Parts DEF Inserts, Rows, Entities
  <2>5. \A m \in Nodes, l \in Labels :
            <<m, l>> \in tx'.index <=> <<m, l>> \in tx.index \/ (m = n /\ l \in labels)
    BY <2>1
  <2>6. new # NoRow
    BY <2>1 DEF Inserts
  <2> QED
    BY <2>2, <2>3, <2>4, <2>5, <2>6 DEF InStep
<1>2. ASSUME NEW r \in Rels, NEW type \in Types, NEW s \in Nodes, NEW t \in Nodes,
             NEW v \in Values \cup {Null}, CreateRel(r, type, s, t, v)
      PROVE  InStep(tx')
  <2> DEFINE new == [labels |-> {type}, prop |-> v]
  <2>1. Inserts(r, new) /\ tx'.index = tx.index
    <3>1. Inserts(r, new) /\ Attaches(r, s, t)
      BY <1>0, <1>2, CreateRelEffect
    <3> QED
      BY <3>1 DEF Attaches
  <2>2. \A m \in Nodes : tx'.row[m] = tx.row[m]
    BY <1>0, <2>1, Parts, StatementAssumption DEF Inserts, Rows, Entities
  <2> QED
    BY <2>1, <2>2, SameInStep
<1>3. ASSUME NEW e \in Entities, NEW v \in Values \cup {Null}, SetProp(e, v)
      PROVE  InStep(tx')
  <2> DEFINE new == [g.obj[e] EXCEPT !.prop = v]
  <2>1. Rewrites(e, new) /\ tx'.index = tx.index
    BY <1>0, <1>3, SetPropEffect
  <2>2. Bound(e)
    BY <1>3 DEF SetProp, Live
  <2>3. tx.row[e] # NoRow /\ new.labels = tx.row[e].labels
    BY <1>0, <2>2, BoundRow DEF Cached, Row
  <2> HIDE DEF new
  <2>4. new # NoRow
    BY <2>1, StatementAssumption DEF Rewrites
  <2>5. \A m \in Nodes : tx'.row[m] = IF m = e THEN new ELSE tx.row[m]
    BY <1>0, <2>1, Parts DEF Rewrites, Rows, Entities
  <2> QED
    BY <2>1, <2>3, <2>4, <2>5 DEF InStep
<1>4. ASSUME NEW n \in Nodes, NEW labels \in SUBSET Labels, SetLabels(n, labels)
      PROVE  InStep(tx')
  <2> DEFINE new == [g.obj[n] EXCEPT !.labels = labels]
  <2>0. n \in Entities
    BY DEF Entities
  <2>1. Rewrites(n, new) /\ tx'.index = Indexed(n, labels)
    BY <1>0, <1>4, SetLabelsEffect
  <2>2. Bound(n)
    BY <1>4 DEF SetLabels, Relabel, Live
  <2>3. new.labels = labels
    BY <1>0, <2>0, <2>2, BoundRow DEF Row
  <2> HIDE DEF new
  <2>4. new # NoRow
    BY <2>1, StatementAssumption DEF Rewrites
  <2>5. \A m \in Nodes : tx'.row[m] = IF m = n THEN new ELSE tx.row[m]
    BY <1>0, <2>1, Parts DEF Rewrites, Rows, Entities
  <2>6. \A m \in Nodes, l \in Labels :
            <<m, l>> \in tx'.index <=> IF m = n THEN l \in labels ELSE <<m, l>> \in tx.index
    BY <2>1 DEF Indexed
  <2> QED
    BY <2>3, <2>4, <2>5, <2>6 DEF InStep
<1> QED
  BY <1>1, <1>2, <1>3, <1>4 DEF Writes, HalfCreateNode, HalfSetLabels

\* The end of a statement: the rows of node_labels cascade.
LEMMA EndsInStep ==
    ASSUME Shape, InStep(tx), Ends
    PROVE  InStep(tx')
<1>0. Typed
  BY DEF Shape
<1>1. ASSUME NEW gone \in SUBSET Rels, DropsRels(gone) PROVE InStep(tx')
  <2>1. \A n \in Nodes : tx'.row[n] = tx.row[n]
    BY <1>1, StatementAssumption DEF DropsRels, Entities
  <2> QED
    BY <1>1, <2>1, SameInStep DEF DropsRels
<1>2. ASSUME NEW gone \in SUBSET Nodes, DropsNodes(gone) PROVE InStep(tx')
  <2>1. \A n \in Nodes : tx'.row[n] = IF n \in gone THEN NoRow ELSE tx.row[n]
    BY <1>2 DEF DropsNodes, Entities
  <2>2. \A n \in Nodes, l \in Labels : <<n, l>> \in tx'.index <=> <<n, l>> \in tx.index /\ n \notin gone
    BY <1>2 DEF DropsNodes
  <2> QED
    BY <2>1, <2>2 DEF InStep
<1>3. CASE CheckConstraints
  BY <1>3 DEF CheckConstraints
<1>4. ASSUME NEW c \in Constraint, CreateConstraint(c) \/ DropConstraint(c)
      PROVE  InStep(tx')
  <2>1. tx'.row = tx.row /\ tx'.index = tx.index
    BY <1>0, <1>4, SchemaEffect
  <2> QED
    BY <2>1, SameInStep
<1>5. DeletedRels \subseteq Rels /\ DeletedNodes \subseteq Nodes
  BY DEF DeletedRels, DeletedNodes
<1>6. FinishRels \/ FinishNodes \/ HalfFinish => InStep(tx')
  BY <1>0, <1>1, <1>2, <1>5, FinishRelsEffect, FinishNodesEffect, HalfFinishEffect
<1> QED
  BY <1>3, <1>4, <1>6 DEF Ends

\* What the tables and the transaction do in the steps of a statement.
LEMMA StatementFrame ==
    ASSUME Looks \/ Writes \/ Ends
    PROVE  /\ UNCHANGED <<committed, mode, broken, before>>
           /\ pc \in {"running", "unlinked", "checking"}
           /\ pc' \in {"running", "unlinked", "checking", "done", "failed"}
           /\ Looks \/ Writes => pc = "running"
           /\ Looks => pc' = "running" /\ tx' = tx
<1>1. CASE Looks
  BY <1>1, LooksFrame DEF Running
<1>2. CASE Writes /\ ~Looks
  BY <1>2, WritesFrame DEF Running, Framed
<1>3. CASE Ends /\ ~Looks /\ ~Writes
  BY <1>3, EndsFrame DEF Framed
<1> QED
  BY <1>1, <1>2, <1>3

\* If no transaction is committed after an error, the index is kept.
LEMMA IndexStep ==
    ASSUME ~CommitAfterError, Shape, IndexKept, [Next]_vars
    PROVE  IndexKept'
<1>1. CASE UNCHANGED vars
  BY <1>1 DEF vars, IndexKept, InStep
<1>2. CASE Next
  <2>0. Transaction \/ Looks \/ Writes \/ Ends
    BY <1>2, NextCases DEF Shape
  <2>1. CASE Transaction
    <3>1. CASE BeginAuto \/ BeginTx \/ Run \/ Fail
      <4>1. pc = "idle" => mode # "tx"
        BY DEF Shape, Typed, TypeOK
      <4> QED
        BY <3>1, <4>1 DEF BeginAuto, BeginTx, Run, Fail, IndexKept
    <3>2. CASE Commit \/ Rollback
      BY <3>2 DEF Commit, Rollback, Close, IndexKept
    <3>3. CASE Return
      BY <3>3 DEF Return, IndexKept
    <3> QED
      BY <2>1, <3>1, <3>2, <3>3 DEF Transaction
  <2>2. CASE Looks \/ Writes \/ Ends
    <3>1. /\ committed' = committed /\ broken' = broken /\ mode' = mode
          /\ pc \notin {"idle", "failed"}
      BY <2>2, StatementFrame
    <3>2. CASE Looks
      BY <3>1, <3>2, StatementFrame DEF IndexKept
    <3>3. CASE Writes
      BY <3>1, <3>3, WritesInStep DEF IndexKept
    <3>4. CASE Ends
      BY <3>1, <3>4, EndsInStep DEF IndexKept
    <3> QED
      BY <2>2, <3>2, <3>3, <3>4
  <2> QED
    BY <2>0, <2>1, <2>2
<1> QED
  BY <1>1, <1>2

\* In every reachable state.
LEMMA IndexHolds == ~CommitAfterError /\ Spec => []IndexKept
<1> SUFFICES ASSUME ~CommitAfterError PROVE Spec => []IndexKept
  OBVIOUS
<1>1. Init => IndexKept
  BY DEF Init, NoTables, IndexKept, InStep, Entities
<1>2. Shape /\ IndexKept /\ [Next]_vars => IndexKept'
  BY IndexStep
<1> QED
  BY <1>1, <1>2, ShapeHolds, PTL DEF Spec

\* writeNodeLabels: "every write of nodes.labels must keep it in step".  If the
\* application rolls a transaction back after a failed Run, then, wherever an
\* error struck, the committed node_labels are the labels of the committed nodes.
THEOREM LabelsStayIndexed == ~CommitAfterError /\ Spec => []LabelsIndexed
<1>1. Shape /\ IndexKept => LabelsIndexed
  <2> SUFFICES ASSUME Shape, IndexKept PROVE LabelsIndexed
    OBVIOUS
  <2>1. committed.index \subseteq Nodes \X Labels
    BY DEF Shape, Typed, TypeOK, Tables
  <2> QED
    BY <2>1 DEF IndexKept, InStep, LabelsIndexed
<1> QED
  BY <1>1, IndexHolds, ShapeHolds, PTL


-----------------------------------------------------------------------------
(* The structure of the graph: relationships have both their ends, kinds of *)
(* labels do not mix, and from the committed tables to those of the open    *)
(* transaction no id is reused and no relationship moved or retyped.        *)

Linked(t) ==
    \A r \in Rels :
        IF t.row[r] = NoRow THEN t.ends[r] = NoEnds
        ELSE \A i \in {1, 2} : t.ends[r][i] \in Nodes /\ t.row[t.ends[r][i]] # NoRow

Sorted(t) ==
    /\ \A n \in Nodes : t.row[n] # NoRow => t.row[n].labels \subseteq Labels
    /\ \A r \in Rels : t.row[r] # NoRow => t.row[r].labels \subseteq Types

Grown(b, t) ==
    /\ b.used \subseteq t.used
    /\ \A e \in Entities : e \in b.used /\ b.row[e] = NoRow => t.row[e] = NoRow
    /\ \A r \in Rels : b.row[r] # NoRow /\ t.row[r] # NoRow =>
          t.ends[r] = b.ends[r] /\ t.row[r].labels = b.row[r].labels

\* What Detached has established, and deleting the nodes relies on.
Cut == \A r \in Rels, i \in {1, 2} : tx.row[r] # NoRow => tx.ends[r][i] \notin g.deleted

Structured ==
    /\ Linked(committed) /\ Linked(tx)
    /\ Sorted(committed) /\ Sorted(tx) /\ Sorted(before)
    /\ pc = "unlinked" => Cut
    /\ pc # "idle" => Grown(committed, tx)

\* The three things a write does to the tables.
AddsNode(n, new) ==
    /\ n \notin tx.used /\ new.labels \subseteq Labels
    /\ tx'.row = [tx.row EXCEPT ![n] = new]
    /\ tx'.used = tx.used \cup {n} /\ tx'.ends = tx.ends

AddsRel(r, new, s, t) ==
    /\ r \notin tx.used /\ new.labels \subseteq Types
    /\ tx.row[s] # NoRow /\ tx.row[t] # NoRow
    /\ tx'.row = [tx.row EXCEPT ![r] = new]
    /\ tx'.used = tx.used \cup {r} /\ tx'.ends = [tx.ends EXCEPT ![r] = <<s, t>>]

Updates(e, new) ==
    /\ tx.row[e] # NoRow
    /\ \/ new.labels = tx.row[e].labels
       \/ e \in Nodes /\ new.labels \subseteq Labels
    /\ tx'.row = [tx.row EXCEPT ![e] = new]
    /\ tx'.used = tx.used /\ tx'.ends = tx.ends

\* Every write is one of them, the interrupted ones too.
LEMMA WritesRow ==
    ASSUME Shape, Writes
    PROVE  \/ \E n \in Nodes, new \in Row : AddsNode(n, new)
           \/ \E r \in Rels, new \in Row, s \in Nodes, t \in Nodes : AddsRel(r, new, s, t)
           \/ \E e \in Entities, new \in Row : Updates(e, new)
<1>0. Typed /\ Cached /\ RowsUsed(tx)
  BY WritesFrame DEF Shape
<1>1. ASSUME NEW n \in Nodes, NEW labels \in SUBSET Labels, NEW v \in Values \cup {Null},
             CreateNode(n, labels, v)
      PROVE  \E new \in Row : AddsNode(n, new)
  <2> DEFINE new == [labels |-> labels, prop |-> v]
  <2>1. Inserts(n, new) /\ tx'.ends = tx.ends
    BY <1>0, <1>1, CreateNodeEffect
  <2>2. new.labels \subseteq Labels
    OBVIOUS
  <2> HIDE DEF new
  <2>3. AddsNode(n, new) /\ new \in Row
    BY <2>1, <2>2 DEF Inserts, AddsNode
  <2> QED
    BY <2>3
<1>2. ASSUME NEW r \in Rels, NEW type \in Types, NEW s \in Nodes, NEW t \in Nodes,
             NEW v \in Values \cup {Null}, CreateRel(r, type, s, t, v)
      PROVE  \E new \in Row : AddsRel(r, new, s, t)
  <2> DEFINE new == [labels |-> {type}, prop |-> v]
  <2>1. Inserts(r, new) /\ tx'.ends = [tx.ends EXCEPT ![r] = <<s, t>>]
    <3>1. Inserts(r, new) /\ Attaches(r, s, t)
      BY <1>0, <1>2, CreateRelEffect
    <3> QED
      BY <3>1 DEF Attaches
  <2>2. new.labels \subseteq Types /\ tx.row[s] # NoRow /\ tx.row[t] # NoRow
    BY <1>0, <1>2, BoundRow DEF CreateRel, Entities
  <2> HIDE DEF new
  <2>3. AddsRel(r, new, s, t) /\ new \in Row
    BY <2>1, <2>2 DEF Inserts, AddsRel
  <2> QED
    BY <2>3
<1>3. ASSUME NEW e \in Entities, NEW v \in Values \cup {Null}, SetProp(e, v)
      PROVE  \E new \in Row : Updates(e, new)
  <2> DEFINE new == [g.obj[e] EXCEPT !.prop = v]
  <2>1. Rewrites(e, new)
    BY <1>0, <1>3, SetPropEffect
  <2>2. Bound(e)
    BY <1>3 DEF SetProp, Live
  <2>3. tx.row[e] # NoRow /\ new.labels = tx.row[e].labels
    BY <1>0, <2>2, BoundRow DEF Cached, Row
  <2> HIDE DEF new
  <2>4. Updates(e, new) /\ new \in Row
    BY <2>1, <2>3 DEF Rewrites, Updates
  <2> QED
    BY <2>4
<1>4. ASSUME NEW n \in Nodes, NEW labels \in SUBSET Labels, SetLabels(n, labels)
      PROVE  \E new \in Row : Updates(n, new)
  <2> DEFINE new == [g.obj[n] EXCEPT !.labels = labels]
  <2>0. n \in Entities
    BY DEF Entities
  <2>1. Rewrites(n, new)
    BY <1>0, <1>4, SetLabelsEffect
  <2>2. Bound(n)
    BY <1>4 DEF SetLabels, Relabel, Live
  <2>3. tx.row[n] # NoRow /\ new.labels = labels
    BY <1>0, <2>0, <2>2, BoundRow DEF Row
  <2> HIDE DEF new
  <2>4. Updates(n, new) /\ new \in Row
    BY <2>1, <2>3 DEF Rewrites, Updates
  <2> QED
    BY <2>4
<1>5. ASSUME NEW n \in Nodes, NEW labels \in SUBSET Labels, HalfCreateNode(n, labels)
      PROVE  \E new \in Row : AddsNode(n, new)
  <2>1. PICK new \in Row : new.labels = labels /\ tx'.row = [tx.row EXCEPT ![n] = new]
    BY <1>0, <1>5, HalfCreateNodeEffect
  <2>2. tx'.used = tx.used \cup {n} /\ tx'.ends = tx.ends
    BY <1>0, <1>5, HalfCreateNodeEffect
  <2>3. AddsNode(n, new)
    BY <1>5, <2>1, <2>2 DEF AddsNode, HalfCreateNode
  <2> QED
    BY <2>3
<1>6. ASSUME NEW n \in Nodes, NEW labels \in SUBSET Labels, HalfSetLabels(n, labels)
      PROVE  \E new \in Row : Updates(n, new)
  <2>1. PICK new \in Row : new.labels = labels /\ tx'.row = [tx.row EXCEPT ![n] = new]
    BY <1>0, <1>6, HalfSetLabelsEffect
  <2>2. tx.row[n] # NoRow /\ tx'.used = tx.used /\ tx'.ends = tx.ends
    BY <1>0, <1>6, HalfSetLabelsEffect
  <2>3. Updates(n, new)
    BY <2>1, <2>2 DEF Updates
  <2> QED
    BY <2>3
<1> QED
  BY <1>1, <1>2, <1>3, <1>4, <1>5, <1>6 DEF Writes, Entities

\* They keep the structure.
LEMMA WritesStructure ==
    ASSUME Shape, Linked(tx), Sorted(tx), Writes
    PROVE  Linked(tx') /\ Sorted(tx') /\ Grown(tx, tx')
<1>0. /\ Typed /\ tx.row \in Rows /\ tx.ends \in [Rels -> (Nodes \X Nodes) \cup {NoEnds}]
      /\ \A e \in Entities : tx.row[e] # NoRow => e \in tx.used
      /\ NoRow \notin Row /\ Nodes \cap Rels = {}
  BY Parts, StatementAssumption DEF Shape, RowsUsed
<1>1. ASSUME NEW n \in Nodes, NEW new \in Row, AddsNode(n, new)
      PROVE  Linked(tx') /\ Sorted(tx') /\ Grown(tx, tx')
  <2>1. \A e \in Entities : tx'.row[e] = IF e = n THEN new ELSE tx.row[e]
    BY <1>0, <1>1 DEF AddsNode, Rows
  <2>2. n \in Entities /\ tx.row[n] = NoRow /\ tx'.ends = tx.ends /\ new.labels \subseteq Labels
        /\ tx'.used = tx.used \cup {n}
    BY <1>0, <1>1 DEF AddsNode, Entities
  <2>3. Linked(tx')
    BY <1>0, <2>1, <2>2 DEF Linked, Entities
  <2>4. Sorted(tx')
    BY <1>0, <2>1, <2>2 DEF Sorted, Entities
  <2>5. Grown(tx, tx')
    BY <1>0, <1>1, <2>1, <2>2 DEF Grown, Entities, AddsNode
  <2> QED
    BY <2>3, <2>4, <2>5
<1>2. ASSUME NEW r \in Rels, NEW new \in Row, NEW s \in Nodes, NEW t \in Nodes, AddsRel(r, new, s, t)
      PROVE  Linked(tx') /\ Sorted(tx') /\ Grown(tx, tx')
  <2>1. \A e \in Entities : tx'.row[e] = IF e = r THEN new ELSE tx.row[e]
    BY <1>0, <1>2 DEF AddsRel, Rows
  <2>2. r \in Entities /\ tx.row[r] = NoRow /\ new.labels \subseteq Types
        /\ tx'.used = tx.used \cup {r} /\ tx.row[s] # NoRow /\ tx.row[t] # NoRow
    BY <1>0, <1>2 DEF AddsRel, Entities
  <2>3. \A q \in Rels : tx'.ends[q] = IF q = r THEN <<s, t>> ELSE tx.ends[q]
    BY <1>0, <1>2 DEF AddsRel
  <2>4. Linked(tx')
    BY <1>0, <2>1, <2>2, <2>3 DEF Linked, Entities
  <2>5. Sorted(tx')
    BY <1>0, <2>1, <2>2 DEF Sorted, Entities
  <2>6. Grown(tx, tx')
    BY <1>0, <1>2, <2>1, <2>2, <2>3 DEF Grown, Entities, AddsRel
  <2> QED
    BY <2>4, <2>5, <2>6
<1>3. ASSUME NEW e \in Entities, NEW new \in Row, Updates(e, new)
      PROVE  Linked(tx') /\ Sorted(tx') /\ Grown(tx, tx')
  <2>1. \A f \in Entities : tx'.row[f] = IF f = e THEN new ELSE tx.row[f]
    BY <1>0, <1>3 DEF Updates, Rows
  <2>2. tx.row[e] # NoRow /\ tx'.ends = tx.ends /\ tx'.used = tx.used
    BY <1>3 DEF Updates
  <2>3. new.labels = tx.row[e].labels \/ (e \in Nodes /\ new.labels \subseteq Labels)
    BY <1>3 DEF Updates
  <2>4. Linked(tx')
    BY <1>0, <2>1, <2>2 DEF Linked, Entities
  <2>5. Sorted(tx')
    BY <1>0, <2>1, <2>2, <2>3 DEF Sorted, Entities
  <2>6. Grown(tx, tx')
    BY <1>0, <2>1, <2>2, <2>3 DEF Grown, Entities
  <2> QED
    BY <2>4, <2>5, <2>6
<1> QED
  BY <1>1, <1>2, <1>3, WritesRow


\* outRels and inRels return all relationships of a node, read before or not.
LEMMA AllRelationships ==
    ASSUME Typed, Cached, NEW n \in Nodes
    PROVE  Relationships(n) = Adjacent(n, "out") \cup Adjacent(n, "in")
<1>0. g \in Graph /\ g["out"] = g.out /\ g["in"] = g.in
  BY Parts
<1>1. \A side \in {"out", "in"} :
         /\ WithAdjacency(g, n, side) \in Graph
         /\ WithAdjacency(g, n, side)[side][n] = Adjacent(n, side)
  <2> SUFFICES ASSUME NEW side \in {"out", "in"}
               PROVE  /\ WithAdjacency(g, n, side) \in Graph
                      /\ WithAdjacency(g, n, side)[side][n] = Adjacent(n, side)
    OBVIOUS
  <2>1. /\ ReadsMore(g, WithAdjacency(g, n, side))
        /\ \/ WithAdjacency(g, n, side)[side][n] = Adjacent(n, side)
           \/ g[side][n] # Unloaded /\ WithAdjacency(g, n, side)[side][n] = g[side][n]
    BY <1>0, AdjacencyEffect DEF Loads
  <2>2. g[side][n] # Unloaded => g[side][n] = Adjacent(n, side)
    BY DEF Cached
  <2> QED
    BY <2>1, <2>2 DEF ReadsMore
<1>2. \A h \in Graph : h["out"] = h.out /\ h["in"] = h.in
  BY DEF Graph
<1> QED
  BY <1>1, <1>2 DEF Relationships

\* Deletions keep the structure: of any relationships, and of marked nodes once no
\* relationship reaches them.
LEMMA DropsRelsStructure ==
    ASSUME Typed, Linked(tx), Sorted(tx), NEW gone \in SUBSET Rels, DropsRels(gone)
    PROVE  Linked(tx') /\ Sorted(tx') /\ Grown(tx, tx')
<1>0. Nodes \cap Rels = {}
  BY StatementAssumption
<1>1. /\ \A e \in Entities : tx'.row[e] = IF e \in gone THEN NoRow ELSE tx.row[e]
      /\ \A r \in Rels : tx'.ends[r] = IF r \in gone THEN NoEnds ELSE tx.ends[r]
      /\ tx'.used = tx.used
  BY DEF DropsRels
<1>2. \A n \in Nodes : tx'.row[n] = tx.row[n]
  BY <1>0, <1>1 DEF Entities
<1>3. \A r \in Rels : tx'.row[r] # NoRow => tx'.row[r] = tx.row[r] /\ tx'.ends[r] = tx.ends[r]
  BY <1>1 DEF Entities
<1>4. \A e \in Entities : tx.row[e] = NoRow => tx'.row[e] = NoRow
  BY <1>1
<1>5. \A r \in Rels : tx'.row[r] = NoRow => tx'.ends[r] = NoEnds
  BY <1>1 DEF Linked, Entities
<1>6. Linked(tx')
  BY <1>2, <1>3, <1>5 DEF Linked
<1>7. Sorted(tx')
  BY <1>2, <1>3 DEF Sorted
<1> QED
  BY <1>1, <1>3, <1>4, <1>6, <1>7 DEF Grown

LEMMA DropsNodesStructure ==
    ASSUME Typed, Linked(tx), Sorted(tx), Cut, NEW gone \in SUBSET DeletedNodes, DropsNodes(gone)
    PROVE  Linked(tx') /\ Sorted(tx') /\ Grown(tx, tx')
<1>0. Nodes \cap Rels = {}
  BY StatementAssumption
<1>1. /\ \A e \in Entities : tx'.row[e] = IF e \in gone THEN NoRow ELSE tx.row[e]
      /\ tx'.ends = tx.ends /\ tx'.used = tx.used
  BY DEF DropsNodes
<1>2. gone \subseteq Nodes /\ gone \subseteq g.deleted
  BY DEF DeletedNodes
<1>3. \A r \in Rels : tx'.row[r] = tx.row[r]
  BY <1>0, <1>1, <1>2 DEF Entities
<1>4. \A n \in Nodes : n \notin g.deleted => tx'.row[n] = tx.row[n]
  BY <1>1, <1>2 DEF Entities
<1>5. \A r \in Rels, i \in {1, 2} :
          tx.row[r] # NoRow => tx.ends[r][i] \in Nodes /\ tx'.row[tx.ends[r][i]] # NoRow
  BY <1>4 DEF Linked, Cut
<1>6. Linked(tx')
  BY <1>1, <1>3, <1>5 DEF Linked
<1>7. Sorted(tx')
  BY <1>1 DEF Sorted, Entities
<1>8. Grown(tx, tx')
  BY <1>1, <1>3 DEF Grown, Entities
<1> QED
  BY <1>6, <1>7, <1>8

\* finish: a node goes only after its relationships.
LEMMA EndsStructure ==
    ASSUME Shape, Linked(tx), Sorted(tx), pc = "unlinked" => Cut, Ends
    PROVE  Linked(tx') /\ Sorted(tx') /\ Grown(tx, tx') /\ (pc' = "unlinked" => Cut')
<1>0. Typed /\ DeletedRels \subseteq Rels
  BY DEF Shape, DeletedRels
<1>1. CASE FinishRels
  <2>1. DropsRels(DeletedRels)
    BY <1>0, <1>1, FinishRelsEffect
  <2>2. Linked(tx') /\ Sorted(tx') /\ Grown(tx, tx')
    BY <1>0, <2>1, DropsRelsStructure
  <2>3. Cut'
    <3> SUFFICES ASSUME NEW r \in Rels, NEW i \in {1, 2}, tx'.row[r] # NoRow, tx'.ends[r][i] \in g.deleted
                 PROVE  FALSE
      BY <1>1 DEF Cut, FinishRels
    <3>1. tx.row[r] # NoRow /\ r \notin g.deleted /\ tx.ends[r][i] \in g.deleted
      BY <2>1 DEF DropsRels, DeletedRels, Entities
    <3>2. tx.ends[r][i] \in Nodes
      BY <3>1 DEF Linked
    <3>3. PICK side \in {"out", "in"} : Side(side) = i
      <4>1. Side("out") = 1 /\ Side("in") = 2
        BY DEF Side
      <4> QED
        BY <4>1
    <3>4. r \in Adjacent(tx.ends[r][i], side)
      BY <3>1, <3>3 DEF Adjacent
    <3>5. r \in Relationships(tx.ends[r][i])
      BY <1>0, <1>1, <3>2, <3>4, AllRelationships DEF FinishRels, Shape
    <3>6. Relationships(tx.ends[r][i]) \subseteq g.deleted
      BY <1>1, <3>1, <3>2 DEF FinishRels, Detached, DeletedNodes
    <3> QED
      BY <3>1, <3>5, <3>6
  <2> QED
    BY <2>2, <2>3
<1>2. CASE FinishNodes
  <2>1. Cut /\ pc' = "checking"
    BY <1>2 DEF FinishNodes
  <2>2. DropsNodes(DeletedNodes)
    BY <1>0, <1>2, FinishNodesEffect
  <2> QED
    BY <1>0, <2>1, <2>2, DropsNodesStructure
<1>3. CASE HalfFinish
  <2>1. pc' = "failed"
    BY <1>3 DEF HalfFinish
  <2>2. ASSUME NEW gone \in SUBSET DeletedRels, DropsRels(gone)
        PROVE  Linked(tx') /\ Sorted(tx') /\ Grown(tx, tx')
    BY <1>0, <2>2, DropsRelsStructure
  <2>3. ASSUME pc = "unlinked", NEW gone \in SUBSET DeletedNodes, DropsNodes(gone)
        PROVE  Linked(tx') /\ Sorted(tx') /\ Grown(tx, tx')
    BY <1>0, <2>3, DropsNodesStructure
  <2> QED
    BY <1>0, <1>3, <2>1, <2>2, <2>3, HalfFinishEffect
<1>4. CASE CheckConstraints
  BY <1>4 DEF CheckConstraints, Grown
<1>5. ASSUME NEW c \in Constraint, CreateConstraint(c) \/ DropConstraint(c)
      PROVE  Linked(tx') /\ Sorted(tx') /\ Grown(tx, tx') /\ pc' = "done"
  <2>1. tx'.row = tx.row /\ tx'.ends = tx.ends /\ tx'.used = tx.used /\ pc' = "done"
    BY <1>0, <1>5, SchemaEffect
  <2> QED
    BY <2>1 DEF Linked, Sorted, Grown
<1> QED
  BY <1>1, <1>2, <1>3, <1>4, <1>5 DEF Ends

\* The steps of a transaction add up.
LEMMA GrownTwice ==
    ASSUME NEW b, NEW t, NEW u, RowsUsed(b), Grown(b, t), Grown(t, u)
    PROVE  Grown(b, u)
<1>1. \A r \in Rels : b.row[r] # NoRow /\ u.row[r] # NoRow => t.row[r] # NoRow
  BY DEF RowsUsed, Grown, Entities
<1> QED
  BY <1>1 DEF Grown

\* Every step keeps the structure.
LEMMA StructureStep ==
    ASSUME Shape, Structured, [Next]_vars
    PROVE  Structured'
<1>0. Linked(NoTables) /\ Sorted(NoTables)
  BY DEF NoTables, Linked, Sorted, Entities
<1>1. CASE UNCHANGED vars
  BY <1>1 DEF vars, Structured, Linked, Sorted, Grown, Cut
<1>2. CASE Next
  <2>0. Transaction \/ Looks \/ Writes \/ Ends
    BY <1>2, NextCases DEF Shape
  <2>1. CASE Transaction
    <3>0. Grown(committed, committed)
      BY DEF Grown
    <3>1. CASE BeginAuto \/ BeginTx \/ Run \/ Fail
      BY <3>0, <3>1 DEF BeginAuto, BeginTx, Run, Fail, Structured
    <3>2. CASE Commit \/ Rollback
      BY <1>0, <3>2 DEF Commit, Rollback, Close, Structured
    <3>3. CASE Return
      BY <1>0, <3>3 DEF Return, Structured
    <3> QED
      BY <2>1, <3>1, <3>2, <3>3 DEF Transaction
  <2>2. CASE Looks \/ Writes \/ Ends
    <3>1. /\ committed' = committed /\ before' = before /\ pc # "idle"
          /\ Looks \/ Writes => pc = "running"
          /\ Looks => pc' = "running" /\ tx' = tx
      BY <2>2, StatementFrame
    <3>2. CASE Looks
      BY <3>1, <3>2 DEF Structured
    <3>3. CASE Writes
      <4>1. Linked(tx') /\ Sorted(tx') /\ Grown(tx, tx')
        BY <3>3, WritesStructure DEF Structured
      <4>2. Grown(committed, tx')
        BY <3>1, <4>1, GrownTwice DEF Structured, Shape
      <4>3. pc' # "unlinked"
        BY <3>3, WritesFrame DEF Running
      <4> QED
        BY <3>1, <4>1, <4>2, <4>3 DEF Structured
    <3>4. CASE Ends
      <4>1. Linked(tx') /\ Sorted(tx') /\ Grown(tx, tx') /\ (pc' = "unlinked" => Cut')
        BY <3>4, EndsStructure DEF Structured
      <4>2. Grown(committed, tx')
        BY <3>1, <4>1, GrownTwice DEF Structured, Shape
      <4> QED
        BY <3>1, <4>1, <4>2 DEF Structured
    <3> QED
      BY <2>2, <3>2, <3>3, <3>4
  <2> QED
    BY <2>0, <2>1, <2>2
<1> QED
  BY <1>1, <1>2

\* In every reachable state, whatever is committed after an error.
LEMMA StructureHolds == Spec => []Structured
<1>1. Init => Structured
  BY DEF Init, NoTables, Structured, Linked, Sorted, Entities
<1> QED
  BY <1>1, StructureStep, ShapeHolds, PTL DEF Spec


-----------------------------------------------------------------------------
(* What a statement knows of its own effect.  Its graph value, laid over    *)
(* the tables it began with, gives the rows of the transaction; and the     *)
(* snapshots are rows of the tables it began with.  This is what lets the   *)
(* end of a statement look only at what it touched.                         *)

\* finish has deleted e.
Gone(e) == e \in g.deleted /\ (pc = "checking" \/ (pc = "unlinked" /\ e \in Rels))

Tracked ==
    /\ before.cons = tx.cons
    /\ \A e \in Entities :
          /\ e \in g.created => Bound(e) /\ before.row[e] = NoRow /\ g.snap[e] = NoRow
          /\ g.snap[e] # NoRow => Bound(e) /\ g.snap[e] = before.row[e]
          /\ e \notin g.created /\ g.snap[e] = NoRow /\ Bound(e) => g.obj[e] = before.row[e]
          /\ e \in g.deleted => Bound(e)
          /\ before.row[e] # NoRow => e \in tx.used
          /\ tx.row[e] = IF Gone(e) THEN NoRow ELSE IF Bound(e) THEN g.obj[e] ELSE before.row[e]

Tracking == pc \in {"running", "unlinked", "checking"} => Tracked

\* Reads and deletions add copies and marks.
LEMMA LooksEffect ==
    ASSUME Shape, Looks
    PROVE  \E h \in Graph, marked \in SUBSET Entities :
              /\ ReadsMore(g, h)
              /\ \A e \in marked : h.obj[e] # NoRow
              /\ g'.obj = h.obj /\ g'.created = h.created /\ g'.snap = h.snap
              /\ g'.deleted = h.deleted \cup marked
<1>0. Typed /\ Cached /\ g \in Graph
  BY Parts DEF Looks, Read, LoadAdjacency, DeleteRel, DeleteNode, Running, Shape
<1>1. ASSUME ReadsMore(g, g')
      PROVE  \E h \in Graph, marked \in SUBSET Entities :
              /\ ReadsMore(g, h)
              /\ \A e \in marked : h.obj[e] # NoRow
              /\ g'.obj = h.obj /\ g'.created = h.created /\ g'.snap = h.snap
              /\ g'.deleted = h.deleted \cup marked
  <2> g' \in Graph
    BY <1>1 DEF ReadsMore
  <2> {} \in SUBSET Entities
    OBVIOUS
  <2> WITNESS g' \in Graph, {} \in SUBSET Entities
  <2> QED
    BY <1>1
<1>2. ASSUME NEW n \in Nodes, Read(n) PROVE ReadsMore(g, g')
  BY <1>0, <1>2, ReadEffect
<1>3. ASSUME NEW n \in Nodes, NEW side \in {"out", "in"}, LoadAdjacency(n, side) PROVE ReadsMore(g, g')
  BY <1>0, <1>3, AdjacencyEffect DEF LoadAdjacency, Loads
<1>4. CASE \/ \E r \in Rels : DeleteRel(r)
           \/ \E n \in Nodes, detach \in BOOLEAN : DeleteNode(n, detach)
  <2>1. PICK h \in Graph, marked \in SUBSET Entities :
           /\ ReadsMore(g, h)
           /\ \A e \in marked : tx.row[e] # NoRow /\ h.obj[e] # NoRow
           /\ g' = [h EXCEPT !.deleted = h.deleted \cup marked]
    BY <1>0, <1>4, DeleteEffect
  <2>2. /\ g'.obj = h.obj /\ g'.created = h.created /\ g'.snap = h.snap
        /\ g'.deleted = h.deleted \cup marked
    BY <2>1, MarkEffect
  <2> QED
    BY <2>1, <2>2
<1> QED
  BY <1>1, <1>2, <1>3, <1>4 DEF Looks

\* A write that is not interrupted creates an entity or rewrites one it has read.
LEMMA WritesCopy ==
    ASSUME Shape, Writes, pc' # "failed"
    PROVE  /\ Running
           /\ \E e \in Entities, new \in Row : Inserts(e, new) \/ (Bound(e) /\ Rewrites(e, new))
<1>0. Typed /\ Cached
  BY WritesFrame DEF Shape
<1>1. ASSUME NEW n \in Nodes, NEW labels \in SUBSET Labels, NEW v \in Values \cup {Null},
             CreateNode(n, labels, v)
      PROVE  Inserts(n, [labels |-> labels, prop |-> v])
  BY <1>0, <1>1, CreateNodeEffect
<1>2. ASSUME NEW r \in Rels, NEW type \in Types, NEW s \in Nodes, NEW t \in Nodes,
             NEW v \in Values \cup {Null}, CreateRel(r, type, s, t, v)
      PROVE  Inserts(r, [labels |-> {type}, prop |-> v])
  BY <1>0, <1>2, CreateRelEffect
<1>3. ASSUME NEW e \in Entities, NEW v \in Values \cup {Null}, SetProp(e, v)
      PROVE  Bound(e) /\ Rewrites(e, [g.obj[e] EXCEPT !.prop = v])
  BY <1>0, <1>3, SetPropEffect DEF SetProp, Live
<1>4. ASSUME NEW n \in Nodes, NEW labels \in SUBSET Labels, SetLabels(n, labels)
      PROVE  Bound(n) /\ Rewrites(n, [g.obj[n] EXCEPT !.labels = labels])
  BY <1>0, <1>4, SetLabelsEffect DEF SetLabels, Relabel, Live
<1>5. ASSUME NEW e \in Entities, NEW new, Inserts(e, new) \/ (Bound(e) /\ Rewrites(e, new))
      PROVE  \E new1 \in Row : Inserts(e, new1) \/ (Bound(e) /\ Rewrites(e, new1))
  BY <1>5 DEF Inserts, Rewrites
<1>6. Running
  BY WritesFrame
<1>7. Nodes \subseteq Entities /\ Rels \subseteq Entities
  BY DEF Entities
<1>8. CASE \E n \in Nodes, labels \in SUBSET Labels, v \in Values \cup {Null} : CreateNode(n, labels, v)
  BY <1>1, <1>5, <1>6, <1>7, <1>8
<1>9. CASE \E r \in Rels, type \in Types, s \in Nodes, t \in Nodes, v \in Values \cup {Null} :
              CreateRel(r, type, s, t, v)
  BY <1>2, <1>5, <1>6, <1>7, <1>9
<1>10. CASE \E e \in Entities, v \in Values \cup {Null} : SetProp(e, v)
  BY <1>3, <1>5, <1>6, <1>10
<1>11. CASE \E n \in Nodes, labels \in SUBSET Labels : SetLabels(n, labels)
  BY <1>4, <1>5, <1>6, <1>7, <1>11
<1> QED
  BY <1>8, <1>9, <1>10, <1>11 DEF Writes, HalfCreateNode, HalfSetLabels

\* A statement begins with nothing read and ends with its deletions done.
LEMMA TrackingStep ==
    ASSUME Shape, Tracking, [Next]_vars
    PROVE  Tracking'
<1>0. /\ Typed /\ tx.row \in Rows /\ g.obj \in Rows /\ g.snap \in Rows
      /\ \A e \in Entities : tx.row[e] # NoRow => e \in tx.used
      /\ NoRow \notin Row
  BY Parts, StatementAssumption DEF Shape, RowsUsed
<1>1. CASE UNCHANGED vars
  BY <1>1 DEF vars, Tracking, Tracked, Bound, Gone
<1>2. CASE Transaction
  <2>1. CASE BeginAuto \/ Run
    <3>1. g' = NewGraph /\ before' = tx' /\ pc' = "running"
      BY <2>1 DEF BeginAuto, Run, Shape, Typed, TypeOK
    <3>2. \A e \in Entities : tx'.row[e] # NoRow => e \in tx'.used
      BY <2>1 DEF BeginAuto, Run, Shape, RowsUsed
    <3>3. \A e \in Entities : ~Gone(e)' /\ ~Bound(e)'
      BY <3>1, Empty DEF Gone, Bound
    <3> QED
      BY <3>1, <3>2, <3>3, Empty DEF Tracking, Tracked
  <2>2. CASE BeginTx \/ Commit \/ Rollback \/ Return \/ Fail
    BY <2>2 DEF BeginTx, Commit, Rollback, Return, Fail, Close, Tracking
  <2> QED
    BY <1>2, <2>1, <2>2 DEF Transaction
<1>3. CASE Looks
  <2>1. pc = "running" /\ pc' = "running" /\ tx' = tx /\ before' = before
    BY <1>3, StatementFrame
  <2>2. PICK h \in Graph, marked \in SUBSET Entities :
           /\ ReadsMore(g, h)
           /\ \A e \in marked : h.obj[e] # NoRow
           /\ g'.obj = h.obj /\ g'.created = h.created /\ g'.snap = h.snap
           /\ g'.deleted = h.deleted \cup marked
    BY <1>3, LooksEffect
  <2>3. \A e \in Entities : ~Gone(e) /\ ~Gone(e)'
    BY <2>1 DEF Gone
  <2>4. \A e \in Entities : \/ g'.obj[e] = g.obj[e]
                            \/ g.obj[e] = NoRow /\ g'.obj[e] = tx.row[e]
    BY <2>2 DEF ReadsMore
  <2>5. g'.created = g.created /\ g'.snap = g.snap /\ g'.deleted = g.deleted \cup marked
    BY <2>2 DEF ReadsMore
  <2>6. \A e \in marked : g'.obj[e] # NoRow
    BY <2>2
  <2> QED
    BY <2>1, <2>3, <2>4, <2>5, <2>6 DEF Tracking, Tracked, Bound
<1>4. CASE Writes /\ pc' # "failed"
  <2>1. Running
    BY <1>4, WritesCopy
  <2>2. PICK e \in Entities, new \in Row : Inserts(e, new) \/ (Bound(e) /\ Rewrites(e, new))
    BY <1>4, WritesCopy
  <2>3. pc = "running" /\ pc' = "running" /\ before' = before /\ Tracked
    BY <2>1 DEF Running, Tracking
  <2>4. \A f \in Entities : ~Gone(f) /\ ~Gone(f)'
    BY <2>3 DEF Gone
  <2>5. CASE Inserts(e, new)
    <3>1. \A f \in Entities : /\ tx'.row[f] = IF f = e THEN new ELSE tx.row[f]
                              /\ g'.obj[f] = IF f = e THEN new ELSE g.obj[f]
      BY <1>0, <2>5 DEF Inserts, Rows
    <3>2. /\ g'.created = g.created \cup {e} /\ g'.snap = g.snap /\ g'.deleted = g.deleted
          /\ tx'.used = tx.used \cup {e} /\ tx'.cons = tx.cons /\ new # NoRow
      BY <2>5 DEF Inserts
    <3>3. tx.row[e] = NoRow /\ g.obj[e] = NoRow /\ before.row[e] = NoRow
      BY <1>0, <2>3, <2>4, <2>5 DEF Inserts, Tracked, Bound
    <3>4. g.snap[e] = NoRow
      BY <2>3, <3>3 DEF Tracked, Bound
    <3>5. Tracked'
      BY <2>3, <2>4, <3>1, <3>2, <3>3, <3>4 DEF Tracked, Bound
    <3> QED
      BY <3>5 DEF Tracking
  <2>6. CASE Bound(e) /\ Rewrites(e, new)
    <3>1. \A f \in Entities : /\ tx'.row[f] = IF f = e THEN new ELSE tx.row[f]
                              /\ g'.obj[f] = IF f = e THEN new ELSE g.obj[f]
      BY <1>0, <2>6 DEF Rewrites, Rows
    <3>2. /\ g'.created = g.created /\ g'.deleted = g.deleted
          /\ tx'.used = tx.used /\ tx'.cons = tx.cons /\ new # NoRow
      BY <1>0, <2>6 DEF Rewrites
    <3>3. \A f \in Entities :
             g'.snap[f] = IF f = e /\ e \notin g.created /\ g.snap[e] = NoRow THEN g.obj[e] ELSE g.snap[f]
      BY <1>0, <2>6 DEF Rewrites, Snapshot, Rows
    <3>4. Tracked'
      BY <2>3, <2>4, <2>6, <3>1, <3>2, <3>3 DEF Tracked, Bound
    <3> QED
      BY <3>4 DEF Tracking
  <2> QED
    BY <2>2, <2>5, <2>6
<1>5. CASE FinishRels
  <2>1. /\ \A e \in Entities : tx'.row[e] = IF e \in DeletedRels THEN NoRow ELSE tx.row[e]
        /\ tx'.cons = tx.cons /\ tx'.used = tx.used
    BY <1>0, <1>5, FinishRelsEffect DEF DropsRels
  <2>2. pc = "running" /\ pc' = "unlinked" /\ before' = before /\ g' = g /\ Tracked
    BY <1>5 DEF FinishRels, Tracking
  <2>3. \A e \in Entities : ~Gone(e) /\ (Gone(e)' <=> e \in DeletedRels)
    BY <2>2 DEF Gone, DeletedRels
  <2> QED
    BY <2>1, <2>2, <2>3 DEF Tracking, Tracked, Bound
<1>6. CASE FinishNodes
  <2>1. /\ \A e \in Entities : tx'.row[e] = IF e \in DeletedNodes THEN NoRow ELSE tx.row[e]
        /\ tx'.cons = tx.cons /\ tx'.used = tx.used
    BY <1>0, <1>6, FinishNodesEffect DEF DropsNodes
  <2>2. pc = "unlinked" /\ pc' = "checking" /\ before' = before /\ g' = g /\ Tracked
    BY <1>6 DEF FinishNodes, Tracking
  <2>3. \A e \in Entities : Gone(e)' <=> Gone(e) \/ e \in DeletedNodes
    BY <2>2 DEF Gone, DeletedNodes, Entities
  <2> QED
    BY <2>1, <2>2, <2>3 DEF Tracking, Tracked, Bound
<1>7. CASE pc' \in {"done", "failed"}
  BY <1>7 DEF Tracking
<1>8. CASE Next
  <2>1. Transaction \/ Looks \/ Writes \/ Ends
    BY <1>8, NextCases DEF Shape
  <2>2. CheckConstraints \/ HalfFinish => pc' \in {"done", "failed"}
    BY DEF CheckConstraints, HalfFinish
  <2>3. \A c \in Constraint : CreateConstraint(c) \/ DropConstraint(c) => pc' \in {"done", "failed"}
    BY DEF CreateConstraint, DropConstraint, SchemaCommand
  <2>4. CASE Ends
    BY <1>5, <1>6, <1>7, <2>2, <2>3, <2>4 DEF Ends
  <2> QED
    BY <1>2, <1>3, <1>4, <1>7, <2>1, <2>4
<1> QED
  BY <1>1, <1>8

\* In every reachable state.
LEMMA TrackingHolds == Spec => []Tracking
<1>1. Init => Tracking
  BY DEF Init, Tracking
<1> QED
  BY <1>1, TrackingStep, ShapeHolds, PTL DEF Spec


-----------------------------------------------------------------------------
(* Constraints.  A statement checks only what it touched, so the argument   *)
(* needs that the constraints held when it began, that Tracked says what it *)
(* touched, that node_labels are in step (a lookup by label misses nobody)  *)
(* and that SQLite finds a number or a string equal to itself.              *)

Covers(c, t, e) == t.row[e] # NoRow /\ c.target \in t.row[e].labels

Fits(c, t) ==
    /\ \A e \in Entities : Covers(c, t, e) => ChecksAlone(c, t.row[e])
    /\ Unique(c) => \A e \in Entities, f \in Entities :
          Covers(c, t, e) /\ Covers(c, t, f) /\ t.row[e].prop = t.row[f].prop /\ t.row[e].prop # Null
              => e = f

Obeyed(t) == \A c \in t.cons : Fits(c, t)

Constrained ==
    /\ Obeyed(committed)
    /\ pc \in {"between", "done"} /\ ~broken => Obeyed(tx)
    /\ pc \in {"running", "unlinked", "checking"} /\ ~broken => Obeyed(before)

\* A lookup by label or type finds every entity a constraint covers.
LEMMA CoveredIsFound ==
    ASSUME Typed, InStep(tx), Sorted(tx), NEW c \in Constraint, NEW e \in Entities, Covers(c, tx, e)
    PROVE  Carries(e, c.target)
<1>1. CASE e \in Nodes
  <2>1. c.target \in Labels
    BY <1>1 DEF Covers, Sorted
  <2> QED
    BY <1>1, <2>1 DEF Covers, InStep, Carries
<1>2. CASE e \notin Nodes
  BY <1>2 DEF Covers, Carries
<1> QED
  BY <1>1, <1>2

\* Two entities under one constraint are of one kind.
LEMMA SameKind ==
    ASSUME Typed, Sorted(tx), NEW c \in Constraint, NEW e \in Entities, NEW f \in Entities,
           Covers(c, tx, e), Covers(c, tx, f)
    PROVE  f \in Nodes <=> e \in Nodes
<1>1. \A x \in {e, f} : (x \in Nodes => c.target \in Labels) /\ (x \in Rels => c.target \in Types)
  BY DEF Covers, Sorted
<1> QED
  BY <1>1, StatementAssumption DEF Entities

\* checkConstraints: another entity with the value of a touched one is found.
LEMMA TouchedIsAlone ==
    ASSUME Typed, InStep(tx), Sorted(tx), NEW c \in Constraint, NEW e \in Entities, NEW f \in Entities,
           Covers(c, tx, e), Covers(c, tx, f), g.obj[e] = tx.row[e],
           Unique(c), Conforms(c, e),
           tx.row[e].prop = tx.row[f].prop, tx.row[e].prop # Null
    PROVE  e = f
<1>1. Duplicates(c, e) = {}
  BY DEF Conforms, Covers
<1> SUFFICES ASSUME e # f PROVE f \in Duplicates(c, e)
  BY <1>1
<1>2. Carries(f, c.target) /\ (f \in Nodes <=> e \in Nodes)
  BY CoveredIsFound, SameKind
<1>3. g.obj[e].prop \in Scalars => SqlForm[tx.row[f].prop] = g.obj[e].prop
  BY StatementAssumption
<1> QED
  BY <1>2, <1>3 DEF Duplicates

\* A statement that passes checkConstraints obeys the constraints.
LEMMA ChecksSuffice ==
    ASSUME Typed, InStep(tx), Sorted(tx), Tracked, Obeyed(before), pc = "checking",
           \A c \in tx.cons, e \in Touched : Conforms(c, e)
    PROVE  Obeyed(tx)
<1>0. tx.cons \subseteq Constraint /\ before.cons = tx.cons
  BY Parts DEF Tracked
<1>1. \A e \in Entities : e \in g.deleted => tx.row[e] = NoRow
  BY DEF Tracked, Gone
<1>2. ASSUME NEW e \in Entities, tx.row[e] # NoRow
      PROVE  \/ e \in Touched /\ g.obj[e] = tx.row[e]
             \/ tx.row[e] = before.row[e]
  <2>1. e \notin g.deleted
    BY <1>1, <1>2
  <2>2. tx.row[e] = IF Bound(e) THEN g.obj[e] ELSE before.row[e]
    BY <2>1 DEF Tracked, Gone
  <2>3. CASE e \in g.created \/ g.snap[e] # NoRow
    BY <2>1, <2>2, <2>3 DEF Tracked, Touched, Remaining, Changed
  <2>4. CASE e \notin g.created /\ g.snap[e] = NoRow
    BY <2>2, <2>4 DEF Tracked
  <2> QED
    BY <2>3, <2>4
<1> SUFFICES ASSUME NEW c \in tx.cons PROVE Fits(c, tx)
  BY DEF Obeyed
<1>3. Fits(c, before) /\ c \in Constraint
  BY <1>0 DEF Obeyed
<1>4. ASSUME NEW e \in Entities, Covers(c, tx, e) PROVE ChecksAlone(c, tx.row[e])
  <2>1. CASE e \in Touched /\ g.obj[e] = tx.row[e]
    BY <1>4, <2>1 DEF Conforms, Covers
  <2>2. CASE tx.row[e] = before.row[e]
    BY <1>3, <1>4, <2>2 DEF Fits, Covers
  <2> QED
    BY <1>2, <1>4, <2>1, <2>2 DEF Covers
<1>5. ASSUME NEW e \in Entities, NEW f \in Entities, Unique(c), Covers(c, tx, e), Covers(c, tx, f),
             tx.row[e].prop = tx.row[f].prop, tx.row[e].prop # Null
      PROVE  e = f
  <2>1. CASE e \in Touched /\ g.obj[e] = tx.row[e]
    <3>1. Conforms(c, e)
      BY <2>1
    <3> QED
      BY <1>3, <1>5, <2>1, <3>1, TouchedIsAlone
  <2>2. CASE f \in Touched /\ g.obj[f] = tx.row[f]
    <3>1. Conforms(c, f)
      BY <2>2
    <3>2. f = e
      BY <1>3, <1>5, <2>2, <3>1, TouchedIsAlone
    <3> QED
      BY <3>2
  <2>3. CASE tx.row[e] = before.row[e] /\ tx.row[f] = before.row[f]
    BY <1>3, <1>5, <2>3 DEF Fits, Covers
  <2> QED
    BY <1>2, <1>5, <2>1, <2>2, <2>3 DEF Covers
<1> QED
  BY <1>4, <1>5 DEF Fits

\* validateExisting: a new constraint holds for the rows there are.
LEMMA ValidatesSuffices ==
    ASSUME Typed, InStep(tx), Sorted(tx), NEW c \in Constraint, Validates(c)
    PROVE  Fits(c, tx)
<1>1. \A e \in Entities : Covers(c, tx, e) => Carries(e, c.target)
  BY CoveredIsFound
<1>2. \A e \in Entities : Carries(e, c.target) => ChecksAlone(c, tx.row[e])
  BY DEF Validates
<1>3. Unique(c) => \A e, f \in {x \in Entities : Carries(x, c.target)} :
          e # f /\ tx.row[e].prop = tx.row[f].prop => tx.row[e].prop = Null
  BY DEF Validates
<1> QED
  BY <1>1, <1>2, <1>3 DEF Fits

\* Every step keeps the constraints, if nothing is committed after an error.
LEMMA ConstrainedStep ==
    ASSUME ~CommitAfterError, Shape, IndexKept, Structured, Tracking, Constrained, [Next]_vars
    PROVE  Constrained'
<1>0. Typed
  BY DEF Shape
<1>1. CASE UNCHANGED vars
  BY <1>1 DEF vars, Constrained
<1>2. CASE Transaction
  <2>1. CASE BeginAuto \/ BeginTx \/ Run \/ Fail
    BY <2>1 DEF BeginAuto, BeginTx, Run, Fail, Constrained
  <2>2. CASE Commit
    <3>1. ~broken
      BY <2>2 DEF Commit, IndexKept
    <3> QED
      BY <2>2, <3>1 DEF Commit, Close, Constrained
  <2>3. CASE Rollback
    BY <2>3 DEF Rollback, Close, Constrained
  <2>4. CASE Return
    BY <2>4 DEF Return, Constrained
  <2> QED
    BY <1>2, <2>1, <2>2, <2>3, <2>4 DEF Transaction
<1>3. CASE (Looks \/ Writes \/ FinishRels \/ FinishNodes \/ HalfFinish) /\ pc' # "done"
  <2>1. /\ UNCHANGED <<committed, broken, before>> /\ pc \in {"running", "unlinked", "checking"}
        /\ pc' \in {"running", "unlinked", "checking", "failed"}
    BY <1>3, StatementFrame DEF Ends
  <2> QED
    BY <2>1 DEF Constrained
<1>4. CASE CheckConstraints
  <2>1. /\ UNCHANGED <<committed, tx, broken, before, g>> /\ pc = "checking" /\ pc' \in {"done", "failed"}
    BY <1>4 DEF CheckConstraints
  <2>2. CASE pc' = "done" /\ ~broken
    <3>1. \A c \in tx.cons, e \in Touched : Conforms(c, e)
      BY <1>4, <2>2 DEF CheckConstraints
    <3>2. InStep(tx) /\ Sorted(tx) /\ Tracked /\ Obeyed(before)
      BY <2>1, <2>2 DEF IndexKept, Structured, Tracking, Constrained
    <3>3. Obeyed(tx)
      BY <1>0, <2>1, <3>1, <3>2, ChecksSuffice
    <3> QED
      BY <2>1, <3>3 DEF Constrained
  <2>3. CASE pc' = "failed" \/ broken
    BY <2>1, <2>3 DEF Constrained
  <2> QED
    BY <2>1, <2>2, <2>3
<1>5. ASSUME NEW c \in Constraint, CreateConstraint(c) \/ DropConstraint(c)
      PROVE  Constrained'
  <2>1. /\ tx'.row = tx.row /\ g = NewGraph /\ pc = "running" /\ pc' = "done"
        /\ UNCHANGED <<committed, broken, before>>
    BY <1>0, <1>5, SchemaEffect
  <2>2. tx'.cons \subseteq tx.cons \cup {c} /\ (c \in tx'.cons /\ c \notin tx.cons => Validates(c))
    BY <1>0, <1>5, SchemaEffect
  <2>3. CASE ~broken
    <3>1. InStep(tx) /\ Sorted(tx) /\ Tracked /\ Obeyed(before)
      BY <2>1, <2>3 DEF IndexKept, Structured, Tracking, Constrained
    <3>2. \A e \in Entities : tx.row[e] = before.row[e]
      BY <2>1, <3>1, Empty DEF Tracked, Gone, Bound
    <3>3. \A d \in tx.cons : Fits(d, before)
      BY <3>1 DEF Obeyed, Tracked
    <3>4. \A d \in tx.cons : Fits(d, tx')
      BY <2>1, <3>2, <3>3 DEF Fits, Covers
    <3>5. c \in tx'.cons /\ c \notin tx.cons => Fits(c, tx)
      BY <1>0, <2>2, <3>1, ValidatesSuffices
    <3>6. c \in tx'.cons /\ c \notin tx.cons => Fits(c, tx')
      BY <2>1, <3>5 DEF Fits, Covers
    <3>7. Obeyed(tx')
      BY <2>2, <3>4, <3>6 DEF Obeyed
    <3> QED
      BY <2>1, <3>7 DEF Constrained
  <2>4. CASE broken
    BY <2>1, <2>4 DEF Constrained
  <2> QED
    BY <2>3, <2>4
<1>6. CASE Next
  <2>1. Transaction \/ Looks \/ Writes \/ Ends
    BY <1>6, NextCases DEF Shape
  <2>2. Looks \/ Writes \/ FinishRels \/ FinishNodes \/ HalfFinish => pc' # "done"
    BY LooksFrame, WritesFrame DEF FinishRels, FinishNodes, HalfFinish, Running
  <2> QED
    BY <1>2, <1>3, <1>4, <1>5, <2>1, <2>2 DEF Ends
<1> QED
  BY <1>1, <1>6

\* In every reachable state.
LEMMA ConstrainedHolds == ~CommitAfterError /\ Spec => []Constrained
<1> SUFFICES ASSUME ~CommitAfterError PROVE Spec => []Constrained
  OBVIOUS
<1>1. Init => Constrained
  BY DEF Init, NoTables, Constrained, Obeyed
<1>2. Shape /\ IndexKept /\ Structured /\ Tracking /\ Constrained /\ [Next]_vars => Constrained'
  BY ConstrainedStep
<1>3. Spec => []IndexKept
  BY IndexHolds
<1> QED
  BY <1>1, <1>2, <1>3, ShapeHolds, StructureHolds, TrackingHolds, PTL DEF Spec


\* Fits is PropertyGraph's notion of a satisfied constraint.
LEMMA FitsSatisfies ==
    ASSUME NEW c \in Constraint, NEW t, Fits(c, t)
    PROVE  PG!Satisfies(c, t.row)
<1> DEFINE props == [e \in PG!Covered(c, t.row) |-> t.row[e].prop]
<1>1. PG!Covered(c, t.row) = {e \in Entities : Covers(c, t, e)}
  BY DEF PG!Covered, PG!Entities, Entities, Covers
<1>2. \A e \in PG!Covered(c, t.row) : e \in Entities /\ Covers(c, t, e) /\ props[e] = t.row[e].prop
  BY <1>1
<1>3. DOMAIN props = PG!Covered(c, t.row)
  OBVIOUS
<1> HIDE DEF props
<1>4. c.kind \in {"EXISTENCE", "KEY"} => \A e \in DOMAIN props : props[e] # Null
  BY <1>2, <1>3 DEF Fits, ChecksAlone
<1>5. c.kind = "TYPE" => \A e \in DOMAIN props : props[e] \in WellTyped \cup {Null}
  BY <1>2, <1>3 DEF Fits, ChecksAlone
<1>6. c.kind \in {"UNIQUENESS", "KEY"} =>
         \A e, f \in DOMAIN props : props[e] = props[f] /\ props[e] # Null => e = f
  BY <1>2, <1>3 DEF Fits, Unique
<1> QED
  BY <1>4, <1>5, <1>6 DEF PG!Satisfies, props

\* A commit is a step of the abstract property graph, and no other step is seen
\* there.
LEMMA CommitRefines ==
    ASSUME ~CommitAfterError, Shape, IndexKept, Structured, Constrained, [Next]_vars
    PROVE  [PG!Next]_(PG!vars)
<1>1. CASE committed' = committed
  BY <1>1 DEF PG!vars
<1>2. CASE Commit
  <2>1. committed' = tx /\ pc # "idle" /\ Obeyed(tx)
    BY <1>2 DEF Commit, IndexKept, Constrained
  <2>2. tx.cons \subseteq Constraint /\ RowsUsed(tx)
    BY Parts DEF Shape
  <2>3. \A c \in tx.cons : PG!Satisfies(c, tx.row)
    BY <2>1, <2>2, FitsSatisfies DEF Obeyed
  <2>4. PG!Connected(tx.row, tx.ends)
    BY DEF Structured, Linked, PG!Connected
  <2>5. Grown(committed, tx)
    BY <2>1 DEF Structured
  <2>6. PG!Next
    BY <2>1, <2>2, <2>3, <2>4, <2>5
       DEF PG!Next, PG!Valid, Grown, RowsUsed, PG!Entities, Entities
  <2> QED
    BY <2>6
<1>3. CASE Next /\ ~Commit
  <2>1. Transaction \/ Looks \/ Writes \/ Ends
    BY <1>3, NextCases DEF Shape
  <2>2. CASE Transaction
    BY <1>1, <1>3, <2>2 DEF Transaction, BeginAuto, BeginTx, Run, Rollback, Return, Fail
  <2>3. CASE Looks \/ Writes \/ Ends
    BY <1>1, <2>3, StatementFrame
  <2> QED
    BY <2>1, <2>2, <2>3
<1> QED
  BY <1>1, <1>2, <1>3 DEF vars

\* The abstract specification.  If the application rolls a transaction back after
\* a failed Run, then no interleaving of statements, errors and schema commands
\* commits a dangling relationship or a violated constraint, moves or retypes a
\* relationship, or reuses an id.
THEOREM StatementsImplementGraph == ~CommitAfterError /\ Spec => ImplementsPropertyGraph
<1> SUFFICES ASSUME ~CommitAfterError PROVE Spec => ImplementsPropertyGraph
  OBVIOUS
<1>1. Init => PG!Init
  BY DEF Init, NoTables, PG!Init, PG!Entities, Entities
<1>2. Shape /\ IndexKept /\ Structured /\ Constrained /\ [Next]_vars => [PG!Next]_(PG!vars)
  BY CommitRefines
<1>3. Spec => []IndexKept
  BY IndexHolds
<1>4. Spec => []Constrained
  BY ConstrainedHolds
<1> QED
  BY <1>1, <1>2, <1>3, <1>4, ShapeHolds, StructureHolds, PTL DEF Spec, ImplementsPropertyGraph, PG!Spec


\* README: "a violation rolls the whole statement back".  Where nothing is committed
\* after an error, the committed rows satisfy every constraint in force; with
\* CommitAfterError that is what fails.
THEOREM ConstraintsStayHeld == ~CommitAfterError /\ Spec => []ConstraintsHold
<1> SUFFICES ASSUME ~CommitAfterError PROVE Spec => []ConstraintsHold
  OBVIOUS
<1>1. Shape /\ Constrained => ConstraintsHold
  <2>1. Shape => committed.cons \subseteq Constraint
    BY DEF Shape, Typed, TypeOK, Tables
  <2> QED
    BY <2>1, FitsSatisfies DEF Constrained, Obeyed, ConstraintsHold
<1>2. Spec => []Constrained
  BY ConstrainedHolds
<1> QED
  BY <1>1, <1>2, ShapeHolds, PTL

\* Foreign keys and AUTOINCREMENT do not depend on what the application commits:
\* even after an error, a committed relationship has both its ends...
THEOREM NothingDangles == Spec => []PG!Connected(committed.row, committed.ends)
<1>1. Structured => PG!Connected(committed.row, committed.ends)
  BY DEF Structured, Linked, PG!Connected
<1> QED
  BY <1>1, StructureHolds, PTL

\* ... and no step commits the reuse of an id, or moves or retypes a relationship.
THEOREM IdentityKept == Spec => [][Grown(committed, committed')]_vars
<1>1. ASSUME Shape, Structured, [Next]_vars PROVE [Grown(committed, committed')]_vars
  <2>0. Grown(committed, committed)
    BY DEF Grown
  <2>1. CASE UNCHANGED vars
    BY <2>1
  <2>2. CASE Next
    <3>1. Transaction \/ Looks \/ Writes \/ Ends
      BY <1>1, <2>2, NextCases DEF Shape
    <3>2. CASE Transaction
      BY <1>1, <2>0, <3>2 DEF Transaction, BeginAuto, BeginTx, Run, Commit, Rollback, Return, Fail, Structured
    <3>3. CASE Looks \/ Writes \/ Ends
      BY <2>0, <3>3, StatementFrame
    <3> QED
      BY <3>1, <3>2, <3>3
  <2> QED
    BY <1>1, <2>1, <2>2
<1> QED
  BY <1>1, ShapeHolds, StructureHolds, PTL DEF Spec


-----------------------------------------------------------------------------
(* Counters.  netCounters works from the statement's marks and snapshots    *)
(* and from the node_labels rows that are left; that this is the difference *)
(* between two states of the tables rests on Tracked, on the index being in *)
(* step, and on counting, hence on only finitely many ids having been used. *)

FiniteUse == IsFiniteSet(committed.used) /\ IsFiniteSet(tx.used)

\* Each step uses at most one more id.
LEMMA FiniteStep ==
    ASSUME Shape, FiniteUse, [Next]_vars
    PROVE  FiniteUse'
<1>0. Typed /\ IsFiniteSet(NoTables.used)
  BY FS_EmptySet DEF Shape, NoTables
<1>1. CASE UNCHANGED vars
  BY <1>1 DEF vars, FiniteUse
<1>2. CASE Transaction
  BY <1>0, <1>2
     DEF Transaction, BeginAuto, BeginTx, Run, Commit, Rollback, Return, Fail, Close, FiniteUse
<1>3. CASE Looks
  BY <1>3, StatementFrame DEF FiniteUse
<1>4. CASE Writes
  <2>1. committed' = committed
    BY <1>4, StatementFrame
  <2>2. tx'.used = tx.used \/ \E e \in Entities : tx'.used = tx.used \cup {e}
    BY <1>4, WritesRow DEF AddsNode, AddsRel, Updates, Entities
  <2>3. \A e \in Entities : IsFiniteSet(tx.used \cup {e})
    BY FS_AddElement DEF FiniteUse
  <2> QED
    BY <2>1, <2>2, <2>3 DEF FiniteUse
<1>5. CASE Ends
  <2>1. committed' = committed
    BY <1>5, StatementFrame
  <2>2. FinishRels => tx'.used = tx.used
    BY <1>0, FinishRelsEffect DEF DropsRels
  <2>3. FinishNodes \/ HalfFinish => tx'.used = tx.used
    BY <1>0, FinishNodesEffect, HalfFinishEffect DEF DropsRels, DropsNodes
  <2>4. CheckConstraints => tx'.used = tx.used
    BY DEF CheckConstraints
  <2>5. \A c \in Constraint : CreateConstraint(c) \/ DropConstraint(c) => tx'.used = tx.used
    BY <1>0, SchemaEffect
  <2> QED
    BY <1>5, <2>1, <2>2, <2>3, <2>4, <2>5 DEF Ends, FiniteUse
<1> QED
  BY <1>1, <1>2, <1>3, <1>4, <1>5, NextCases DEF Shape

\* In every reachable state.
LEMMA FiniteHolds == Spec => []FiniteUse
<1>1. Init => FiniteUse
  BY FS_EmptySet DEF Init, NoTables, FiniteUse
<1> QED
  BY <1>1, FiniteStep, ShapeHolds, PTL DEF Spec

\* From one finite set to another: what was there is what is there, with what went
\* and without what came.
LEMMA CountBack ==
    ASSUME NEW A, NEW B, IsFiniteSet(A), IsFiniteSet(B)
    PROVE  /\ Cardinality(A) \in Nat /\ Cardinality(B) \in Nat
           /\ Cardinality(A) + Cardinality(B \ A) - Cardinality(A \ B) = Cardinality(B)
<1>1. B \ A \in SUBSET B /\ A \ B \in SUBSET A
  OBVIOUS
<1>2. IsFiniteSet(B \ A) /\ IsFiniteSet(A \ B)
  BY <1>1, FS_Subset
<1>3. /\ Cardinality(A) \in Nat /\ Cardinality(B) \in Nat
      /\ Cardinality(A \ B) \in Nat /\ Cardinality(B \ A) \in Nat
  BY <1>2, FS_CardinalityType
<1>4. A \cap (B \ A) = {} /\ B \cap (A \ B) = {} /\ A \cup (B \ A) = A \cup B /\ B \cup (A \ B) = A \cup B
  OBVIOUS
<1>5. Cardinality(A \cup (B \ A)) = Cardinality(A) + Cardinality(B \ A) - Cardinality(A \cap (B \ A))
  BY <1>2, FS_Union
<1>6. Cardinality(B \cup (A \ B)) = Cardinality(B) + Cardinality(A \ B) - Cardinality(B \cap (A \ B))
  BY <1>2, FS_Union
<1> DEFINE a == Cardinality(A)      b == Cardinality(B)      u == Cardinality(A \cup B)
           p == Cardinality(A \ B)  q == Cardinality(B \ A)
<1>7. Cardinality({}) = 0
  BY FS_EmptySet
<1>8. u = a + q - 0 /\ u = b + p - 0
  BY <1>4, <1>5, <1>6, <1>7, Zenon
<1>9. a \in Nat /\ b \in Nat /\ p \in Nat /\ q \in Nat
  BY <1>3
<1> HIDE DEF a, b, p, q, u
<1>10. a + q - p = b
  BY <1>8, <1>9
<1> QED
  BY <1>3, <1>10 DEF a, b, p, q

\* The rows of node_labels for one label are as many as the nodes.
LEMMA CountLabel ==
    ASSUME NEW A, IsFiniteSet(A), NEW l
    PROVE  Cardinality({<<n, l>> : n \in A}) = Cardinality(A)
<1> DEFINE P == {<<n, l>> : n \in A}
           f == [n \in A |-> <<n, l>>]
<1>1. f \in [A -> P]
  OBVIOUS
<1>2. \A a, b \in A : f[a] = f[b] => a = b
  OBVIOUS
<1>3. \A t \in P : \E a \in A : f[a] = t
  OBVIOUS
<1>4. f \in Bijection(A, P)
  BY <1>1, <1>2, <1>3 DEF Bijection, Injection, Surjection, IsInjective
<1>5. ExistsBijection(A, P)
  BY <1>4 DEF ExistsBijection
<1> QED
  BY <1>5, FS_Bijection


\* The nodes that carry label l in some rows.
Holding(rows, l) == {n \in Nodes : rows[n] # NoRow /\ l \in rows[n].labels}

\* What a statement remembers, as it deletes its nodes, of the rows before and
\* after it.
Remembered(old, new) ==
    /\ Remaining = {e \in Entities : new[e] # NoRow /\ old[e] = NoRow}
    /\ Removed = {e \in Entities : old[e] # NoRow /\ new[e] = NoRow}
    /\ \A e \in Remaining : g.obj[e] = new[e]
    /\ \A e \in Removed : Old(e) = old[e]
    /\ \A e \in Changed : /\ e \in Entities /\ new[e] # NoRow /\ old[e] # NoRow
                          /\ g.obj[e] = new[e] /\ g.snap[e] = old[e]
    /\ \A e \in Entities : e \in Changed \/ old[e] = NoRow \/ new[e] = NoRow \/ new[e] = old[e]

\* After FinishNodes, Remembered holds of the rows before the statement and those it
\* leaves.
LEMMA FinishRemembers ==
    ASSUME Shape, Tracking, FinishNodes
    PROVE  Remembered(before.row, tx'.row)
<1> DEFINE old == before.row
           new == tx'.row
<1>0. Typed /\ pc = "unlinked" /\ g.created \subseteq Entities /\ g.deleted \subseteq Entities
  BY Parts DEF Shape, FinishNodes
<1>1. Tracked
  BY <1>0 DEF Tracking
<1>2. \A e \in Entities : new[e] = IF e \in DeletedNodes THEN NoRow ELSE tx.row[e]
  BY <1>0, FinishNodesEffect DEF DropsNodes
<1>3. \A e \in Entities : Gone(e) <=> e \in g.deleted /\ e \in Rels
  BY <1>0 DEF Gone
<1>4. \A e \in Entities :
         new[e] = IF e \in g.deleted THEN NoRow ELSE IF Bound(e) THEN g.obj[e] ELSE old[e]
  BY <1>1, <1>2, <1>3 DEF Tracked, DeletedNodes, Entities
<1>5. \A e \in Entities :
         /\ e \in g.created => Bound(e) /\ old[e] = NoRow /\ g.snap[e] = NoRow
         /\ g.snap[e] # NoRow => Bound(e) /\ g.snap[e] = old[e]
         /\ e \notin g.created /\ g.snap[e] = NoRow /\ Bound(e) => g.obj[e] = old[e]
         /\ e \in g.deleted => Bound(e)
  BY <1>1 DEF Tracked
<1> HIDE DEF old, new
<1>6. Remaining = {e \in Entities : new[e] # NoRow /\ old[e] = NoRow}
  <2>1. \A e \in Entities : e \in Remaining <=> new[e] # NoRow /\ old[e] = NoRow
    BY <1>4, <1>5 DEF Remaining, Bound
  <2>2. Remaining \subseteq Entities
    BY <1>0 DEF Remaining
  <2> QED
    BY <2>1, <2>2
<1>7. Removed = {e \in Entities : old[e] # NoRow /\ new[e] = NoRow}
  <2>1. \A e \in Entities : e \in Removed <=> old[e] # NoRow /\ new[e] = NoRow
    BY <1>4, <1>5 DEF Removed, Bound
  <2>2. Removed \subseteq Entities
    BY <1>0 DEF Removed
  <2> QED
    BY <2>1, <2>2
<1>8. \A e \in Remaining : g.obj[e] = new[e]
  BY <1>0, <1>4, <1>5 DEF Remaining
<1>9. \A e \in Removed : Old(e) = old[e]
  BY <1>0, <1>5 DEF Removed, Old
<1>10. \A e \in Changed : /\ e \in Entities /\ new[e] # NoRow /\ old[e] # NoRow
                          /\ g.obj[e] = new[e] /\ g.snap[e] = old[e]
  BY <1>4, <1>5 DEF Changed, Bound
<1>11. \A e \in Entities : e \in Changed \/ old[e] = NoRow \/ new[e] = NoRow \/ new[e] = old[e]
  BY <1>4, <1>5 DEF Changed, Bound
<1> QED
  BY <1>6, <1>7, <1>8, <1>9, <1>10, <1>11 DEF Remembered, old, new

\* The counters of nodes, relationships and properties are the differences.
EntitiesCounted(old, new) ==
    /\ Remaining \cap Nodes = {e \in Nodes : new[e] # NoRow} \ {e \in Nodes : old[e] # NoRow}
    /\ Removed \cap Nodes = {e \in Nodes : old[e] # NoRow} \ {e \in Nodes : new[e] # NoRow}
    /\ Remaining \cap Rels = {e \in Rels : new[e] # NoRow} \ {e \in Rels : old[e] # NoRow}
    /\ Removed \cap Rels = {e \in Rels : old[e] # NoRow} \ {e \in Rels : new[e] # NoRow}
    /\ {e \in Remaining : g.obj[e].prop # Null}
           \cup {e \in Changed : g.obj[e].prop \notin {Null, g.snap[e].prop}}
       = {e \in {f \in Entities : new[f] # NoRow} :
             new[e].prop # Null /\ (old[e] = NoRow \/ old[e].prop # new[e].prop)}
    /\ {e \in Changed : g.snap[e].prop \notin {Null, g.obj[e].prop}}
           \cup {e \in Removed : Old(e).prop # Null}
       = {e \in {f \in Entities : old[f] # NoRow} :
             old[e].prop # Null /\ (new[e] = NoRow \/ new[e].prop # old[e].prop)}

\* They are what FinishNodes counts.
LEMMA CountedEntities ==
    ASSUME NEW old, NEW new, Remembered(old, new)
    PROVE  EntitiesCounted(old, new)
<1>1. /\ Remaining \cap Nodes = {e \in Nodes : new[e] # NoRow} \ {e \in Nodes : old[e] # NoRow}
      /\ Removed \cap Nodes = {e \in Nodes : old[e] # NoRow} \ {e \in Nodes : new[e] # NoRow}
  BY DEF Remembered, Entities
<1>2. /\ Remaining \cap Rels = {e \in Rels : new[e] # NoRow} \ {e \in Rels : old[e] # NoRow}
      /\ Removed \cap Rels = {e \in Rels : old[e] # NoRow} \ {e \in Rels : new[e] # NoRow}
  BY DEF Remembered, Entities
<1>3. {e \in Remaining : g.obj[e].prop # Null}
          \cup {e \in Changed : g.obj[e].prop \notin {Null, g.snap[e].prop}}
      = {e \in {f \in Entities : new[f] # NoRow} :
            new[e].prop # Null /\ (old[e] = NoRow \/ old[e].prop # new[e].prop)}
  BY DEF Remembered
<1>4. {e \in Changed : g.snap[e].prop \notin {Null, g.obj[e].prop}}
          \cup {e \in Removed : Old(e).prop # Null}
      = {e \in {f \in Entities : old[f] # NoRow} :
            old[e].prop # Null /\ (new[e] = NoRow \/ new[e].prop # old[e].prop)}
  BY DEF Remembered
<1> QED
  BY <1>1, <1>2, <1>3, <1>4, Zenon DEF EntitiesCounted

\* The counters of labels: the nodes that carried a label before are counted back
\* from those that carry it now.
LEMMA CountedLabels ==
    ASSUME NEW old, NEW new, Remembered(old, new), NEW l,
           IsFiniteSet(Holding(old, l)), IsFiniteSet(Holding(new, l))
    PROVE  /\ Cardinality(Holding(new, l)) \in Nat /\ Cardinality(Holding(old, l)) \in Nat
           /\ Cardinality(Holding(new, l)) + Lost(l) - Gained(l) = Cardinality(Holding(old, l))
<1>1. {n \in Nodes \cap Remaining : l \in g.obj[n].labels}
          \cup {n \in Nodes \cap Changed : l \in g.obj[n].labels \ g.snap[n].labels}
      = Holding(new, l) \ Holding(old, l)
  BY DEF Remembered, Holding, Entities
<1>2. {n \in Nodes \cap Changed : l \in g.snap[n].labels \ g.obj[n].labels}
          \cup {n \in Nodes \cap Removed : l \in Old(n).labels}
      = Holding(old, l) \ Holding(new, l)
  BY DEF Remembered, Holding, Entities
<1>3. Gained(l) = Cardinality(Holding(new, l) \ Holding(old, l))
  BY <1>1 DEF Gained
<1>4. Lost(l) = Cardinality(Holding(old, l) \ Holding(new, l))
  BY <1>2 DEF Lost
<1> QED
  BY <1>3, <1>4, CountBack


\* The difference between two states of the rows, as CountersAreNet has it.
Held(rows) == UNION {rows[n].labels : n \in {m \in Nodes : rows[m] # NoRow}}

Net(old, new) ==
    [nodesCreated  |-> Cardinality({e \in Nodes : new[e] # NoRow} \ {e \in Nodes : old[e] # NoRow}),
     nodesDeleted  |-> Cardinality({e \in Nodes : old[e] # NoRow} \ {e \in Nodes : new[e] # NoRow}),
     relsCreated   |-> Cardinality({e \in Rels : new[e] # NoRow} \ {e \in Rels : old[e] # NoRow}),
     relsDeleted   |-> Cardinality({e \in Rels : old[e] # NoRow} \ {e \in Rels : new[e] # NoRow}),
     propsSet      |-> Cardinality({e \in {f \in Entities : new[f] # NoRow} :
                           new[e].prop # Null /\ (old[e] = NoRow \/ old[e].prop # new[e].prop)}),
     propsRemoved  |-> Cardinality({e \in {f \in Entities : old[f] # NoRow} :
                           old[e].prop # Null /\ (new[e] = NoRow \/ new[e].prop # old[e].prop)}),
     labelsAdded   |-> Cardinality(Held(new) \ Held(old)),
     labelsRemoved |-> Cardinality(Held(old) \ Held(new))]

\* The labels in use are those some node holds.
LEMMA HeldByNode ==
    ASSUME NEW rows, \A n \in Nodes : rows[n] # NoRow => rows[n].labels \subseteq Labels
    PROVE  Held(rows) = {l \in Labels : Holding(rows, l) # {}}
  BY DEF Held, Holding

\* netCounters computes the difference.
LEMMA NetCountersAreNet ==
    ASSUME NEW old, NEW new, Remembered(old, new), NEW index \in SUBSET (Nodes \X Labels),
           \A n \in Nodes, l \in Labels : <<n, l>> \in index <=> n \in Holding(new, l),
           \A l \in Labels : IsFiniteSet(Holding(old, l)) /\ IsFiniteSet(Holding(new, l)),
           \A n \in Nodes : old[n] # NoRow => old[n].labels \subseteq Labels,
           \A n \in Nodes : new[n] # NoRow => new[n].labels \subseteq Labels
    PROVE  NetCounters(index) = Net(old, new)
<1> DEFINE after(l) == Cardinality({p \in index : p[2] = l})
           prior(l) == after(l) + Lost(l) - Gained(l)
<1>1. ASSUME NEW l \in Labels
      PROVE  /\ after(l) = Cardinality(Holding(new, l)) /\ prior(l) = Cardinality(Holding(old, l))
             /\ after(l) \in Nat /\ prior(l) \in Nat
             /\ after(l) = 0 <=> Holding(new, l) = {}
             /\ prior(l) = 0 <=> Holding(old, l) = {}
  <2>1. {p \in index : p[2] = l} = {<<n, l>> : n \in Holding(new, l)}
    BY DEF Holding
  <2>2. after(l) = Cardinality(Holding(new, l))
    BY <2>1, CountLabel
  <2>3. /\ Cardinality(Holding(new, l)) \in Nat /\ Cardinality(Holding(old, l)) \in Nat
        /\ Cardinality(Holding(new, l)) + Lost(l) - Gained(l) = Cardinality(Holding(old, l))
    BY CountedLabels
  <2>4. prior(l) = Cardinality(Holding(old, l))
    BY <2>2, <2>3, Zenon
  <2> QED
    BY <2>2, <2>3, <2>4, FS_EmptySet
<1>2. \A l \in Labels : /\ prior(l) <= 0 /\ after(l) > 0 <=> Holding(old, l) = {} /\ Holding(new, l) # {}
                        /\ prior(l) > 0 /\ after(l) = 0 <=> Holding(old, l) # {} /\ Holding(new, l) = {}
  <2> SUFFICES ASSUME NEW l \in Labels
               PROVE  /\ prior(l) <= 0 /\ after(l) > 0 <=> Holding(old, l) = {} /\ Holding(new, l) # {}
                      /\ prior(l) > 0 /\ after(l) = 0 <=> Holding(old, l) # {} /\ Holding(new, l) = {}
    OBVIOUS
  <2> DEFINE a == after(l)  b == prior(l)
  <2>1. /\ a \in Nat /\ b \in Nat
        /\ a = 0 <=> Holding(new, l) = {}
        /\ b = 0 <=> Holding(old, l) = {}
    BY <1>1
  <2> HIDE DEF a, b
  <2>2. /\ b <= 0 /\ a > 0 <=> Holding(old, l) = {} /\ Holding(new, l) # {}
        /\ b > 0 /\ a = 0 <=> Holding(old, l) # {} /\ Holding(new, l) = {}
    BY <2>1
  <2> QED
    BY <2>2 DEF a, b
<1> HIDE DEF after, prior
<1>3. /\ Held(old) = {l \in Labels : Holding(old, l) # {}}
      /\ Held(new) = {l \in Labels : Holding(new, l) # {}}
  BY HeldByNode
<1>4. {l \in Labels : prior(l) <= 0 /\ after(l) > 0} = Held(new) \ Held(old)
  BY <1>2, <1>3
<1>5. {l \in Labels : prior(l) > 0 /\ after(l) = 0} = Held(old) \ Held(new)
  BY <1>2, <1>3
<1>6. NetCounters(index) =
        [nodesCreated  |-> Cardinality(Remaining \cap Nodes),
         nodesDeleted  |-> Cardinality(Removed \cap Nodes),
         relsCreated   |-> Cardinality(Remaining \cap Rels),
         relsDeleted   |-> Cardinality(Removed \cap Rels),
         propsSet      |-> Cardinality({e \in Remaining : g.obj[e].prop # Null}
                              \cup {e \in Changed : g.obj[e].prop \notin {Null, g.snap[e].prop}}),
         propsRemoved  |-> Cardinality({e \in Changed : g.snap[e].prop \notin {Null, g.obj[e].prop}}
                              \cup {e \in Removed : Old(e).prop # Null}),
         labelsAdded   |-> Cardinality({l \in Labels : prior(l) <= 0 /\ after(l) > 0}),
         labelsRemoved |-> Cardinality({l \in Labels : prior(l) > 0 /\ after(l) = 0})]
  BY Zenon DEF NetCounters, prior, after
<1>7. EntitiesCounted(old, new)
  BY CountedEntities
<1> QED
  BY <1>4, <1>5, <1>6, <1>7, Zenon DEF Net, EntitiesCounted


\* Deleting the nodes, a statement sets its counters to the difference.
LEMMA FinishCounts ==
    ASSUME Shape, IndexKept, Structured, Tracking, FiniteUse, FinishNodes, ~broken
    PROVE  counters' = Net(before.row, tx'.row)
<1>0. Typed /\ pc = "unlinked" /\ Ends
  BY DEF Shape, FinishNodes, Ends
<1>1. /\ tx' \in Tables /\ tx'.used = tx.used
      /\ counters' = NetCounters(tx'.index)
  BY <1>0, FinishNodesEffect DEF DropsNodes
<1>2. Remembered(before.row, tx'.row)
  BY FinishRemembers
<1>3. tx'.index \in SUBSET (Nodes \X Labels)
  BY <1>1 DEF Tables
<1>4. InStep(tx')
  BY <1>0, EndsInStep DEF IndexKept
<1>5. \A n \in Nodes, l \in Labels : <<n, l>> \in tx'.index <=> n \in Holding(tx'.row, l)
  BY <1>4 DEF InStep, Holding
<1>6. /\ \A n \in Nodes : before.row[n] # NoRow => before.row[n].labels \subseteq Labels
      /\ \A n \in Nodes : tx'.row[n] # NoRow => tx'.row[n].labels \subseteq Labels
  <2>1. Sorted(tx') /\ Sorted(before)
    BY <1>0, EndsStructure DEF Structured
  <2> QED
    BY <2>1 DEF Sorted
<1>7. ASSUME NEW l \in Labels
      PROVE  IsFiniteSet(Holding(before.row, l)) /\ IsFiniteSet(Holding(tx'.row, l))
  <2>1. Tracked
    BY <1>0 DEF Tracking
  <2>2. \A e \in Entities : before.row[e] # NoRow => e \in tx.used
    BY <2>1 DEF Tracked
  <2>3. RowsUsed(tx')
    BY <1>0, <1>1, FinishNodesEffect DEF DropsNodes, Shape, RowsUsed
  <2>4. Holding(before.row, l) \in SUBSET tx.used /\ Holding(tx'.row, l) \in SUBSET tx.used
    BY <1>1, <2>2, <2>3 DEF Holding, RowsUsed, Entities
  <2> QED
    BY <2>4, FS_Subset DEF FiniteUse
<1>8. NetCounters(tx'.index) = Net(before.row, tx'.row)
  BY <1>2, <1>3, <1>5, <1>6, <1>7, NetCountersAreNet
<1> QED
  BY <1>1, <1>8

\* Result.Counters.  However a statement got there - creating and deleting the same
\* entity, setting a property back, relabelling - the counters it reports are the
\* difference between the tables it found and the tables it leaves.
THEOREM CountersStayNet == ~CommitAfterError /\ Spec => []CountersAreNet
<1> SUFFICES ASSUME ~CommitAfterError PROVE Spec => []CountersAreNet
  OBVIOUS
<1> DEFINE Counted == pc = "checking" /\ ~broken => counters = Net(before.row, tx.row)
<1>1. Init => Counted
  BY DEF Init
<1>2. ASSUME Shape, IndexKept, Structured, Tracking, FiniteUse, Counted, [Next]_vars PROVE Counted'
  <2>1. CASE UNCHANGED vars
    BY <1>2, <2>1 DEF vars, Net, Held
  <2>2. CASE FinishNodes
    <3>1. broken' = broken /\ before' = before
      BY <2>2 DEF FinishNodes
    <3>2. ~broken => counters' = Net(before.row, tx'.row)
      BY <1>2, <2>2, FinishCounts
    <3> QED
      BY <3>1, <3>2
  <2>3. CASE Next /\ ~FinishNodes
    <3>1. Transaction \/ Looks \/ Writes \/ Ends
      BY <1>2, <2>3, NextCases DEF Shape
    <3>2. pc' # "checking"
      BY <2>3, <3>1, TransactionFrame, LooksFrame, WritesFrame, EndsFrame DEF Running
    <3> QED
      BY <3>2
  <2> QED
    BY <1>2, <2>1, <2>2, <2>3
<1>3. Counted => CountersAreNet
  BY Zenon DEF CountersAreNet, Net, Held
<1>4. Spec => []IndexKept
  BY IndexHolds
<1> HIDE DEF Counted
<1> QED
  BY <1>1, <1>2, <1>3, <1>4, ShapeHolds, StructureHolds, TrackingHolds, FiniteHolds, PTL DEF Spec

=============================================================================
