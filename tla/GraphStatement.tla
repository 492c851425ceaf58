---------------------------- MODULE GraphStatement ----------------------------
(***************************************************************************)
(* One updating statement after the other on the write connection: the     *)
(* per-statement view of the database (cypher/interp/graph.go), the        *)
(* updates the clauses of a statement make through it (write.go), what     *)
(* happens when the statement finishes, the constraints (schema.go), and   *)
(* the transaction around it, its own (engine.go) or an explicit one       *)
(* (tx.go).                                                                *)
(*                                                                         *)
(* A statement writes to SQLite as it goes, keeps its own copy of every    *)
(* entity and adjacency list it has read, and delays deletions to its end, *)
(* where it also derives its counters and checks the constraints.  It may  *)
(* fail at any point, and in an explicit transaction nothing undoes what   *)
(* it has already written.                                                 *)
(*                                                                         *)
(* What is abstracted: one property key stands for them all; labels are a  *)
(* set and a relationship's type is its only label; a clause is the        *)
(* sequence of reads and writes it makes, so MATCH, CREATE, MERGE, SET,    *)
(* REMOVE, DELETE and FOREACH are interleavings of the actions below.      *)
(* Nodes and Rels bound how many ids are ever handed out; a scope bounds    *)
(* what one behaviour may use of everything.                               *)
(***************************************************************************)
EXTENDS Naturals, FiniteSets

CONSTANTS Nodes, Rels, Labels, Types, Values, Null, NoRow, NoEnds, WellTyped,
    Unloaded,           \* an adjacency list that was not read yet
    Scalars,            \* the numbers and strings among Values
    SqlForm,            \* SqlForm[v]: what json_extract makes of a stored v
    Scopes,             \* bounds of a behaviour: transactions of RunQuery ("auto") or
                        \* BeginTx ("tx"), ids, labels, values and constraints
    CommitAfterError    \* may the application commit a Tx after a failed Run?

Entities == Nodes \cup Rels
Row == [labels: SUBSET (Labels \cup Types), prop: Values \cup {Null}]
Constraint == [kind: {"UNIQUENESS", "KEY", "EXISTENCE", "TYPE"}, target: Labels \cup Types]

ASSUME StatementAssumption ==
    /\ Nodes \cap Rels = {} /\ Labels \cap Types = {}
    /\ Null \notin Values /\ NoRow \notin Row
    /\ NoEnds \notin Nodes \X Nodes
    /\ Scopes \subseteq [mode: {"auto", "tx"}, nodes: SUBSET Nodes, rels: SUBSET Rels,
                          labels: SUBSET Labels, values: SUBSET Values, schema: SUBSET Constraint]
    /\ Scalars \subseteq Values /\ WellTyped \subseteq Values
    /\ SqlForm \in [Values -> Values] /\ \A v \in Scalars : SqlForm[v] = v
    /\ CommitAfterError \in BOOLEAN

VARIABLES
    committed,  \* the committed tables
    tx,         \* the tables as the open transaction sees them
    mode,       \* whose transaction it is: a statement's own or a Tx
    pc,         \* how far the statement, or the transaction, is
    broken,     \* a Run of this Tx returned an error
    g,          \* the statement's graph value
    counters,   \* Result.Counters
    before,     \* history: the tables when the statement began
    scope       \* which of Scopes this behaviour stays in

vars == <<committed, tx, mode, pc, broken, g, counters, before, scope>>

Tables == [row: [Entities -> Row \cup {NoRow}],
           ends: [Rels -> (Nodes \X Nodes) \cup {NoEnds}],
           index: SUBSET (Nodes \X Labels),             \* node_labels
           cons: SUBSET Constraint,
           used: SUBSET Entities]                       \* AUTOINCREMENT

NoTables == [row |-> [e \in Entities |-> NoRow], ends |-> [r \in Rels |-> NoEnds],
             index |-> {}, cons |-> {}, used |-> {}]

\* newGraph: nothing read, nothing changed.
NewGraph == [obj     |-> [e \in Entities |-> NoRow],
             out     |-> [n \in Nodes |-> Unloaded],
             in      |-> [n \in Nodes |-> Unloaded],
             created |-> {},
             snap    |-> [e \in Entities |-> NoRow],
             deleted |-> {}]

NoCounters == [nodesCreated |-> 0, nodesDeleted |-> 0, relsCreated |-> 0, relsDeleted |-> 0,
               propsSet |-> 0, propsRemoved |-> 0, labelsAdded |-> 0, labelsRemoved |-> 0]

Init ==
    /\ committed = NoTables /\ tx = NoTables /\ before = NoTables
    /\ mode = "none" /\ pc = "idle" /\ broken = FALSE
    /\ g = NewGraph /\ counters = NoCounters
    /\ scope \in Scopes

-----------------------------------------------------------------------------
(* Transactions and statements.                                            *)

\* runInterp with a transaction of its own.
BeginAuto ==
    /\ pc = "idle" /\ scope.mode = "auto"
    /\ pc' = "running" /\ mode' = "auto"
    /\ tx' = committed /\ before' = committed
    /\ UNCHANGED <<committed, broken, g, counters>>

\* BeginTx
BeginTx ==
    /\ pc = "idle" /\ scope.mode = "tx"
    /\ pc' = "between" /\ mode' = "tx"
    /\ tx' = committed
    /\ UNCHANGED <<committed, broken, g, counters, before>>

\* Tx.Run
Run ==
    /\ pc = "between"
    /\ pc' = "running"
    /\ before' = tx
    /\ UNCHANGED <<committed, tx, mode, broken, g, counters>>

\* Mutant: the graph value outlives its statement.
CloseKeepingGraph ==
    /\ pc' = "idle" /\ mode' = "none" /\ broken' = FALSE
    /\ tx' = NoTables /\ before' = NoTables
    /\ counters' = NoCounters
    /\ UNCHANGED g

Close ==
    /\ pc' = "idle" /\ mode' = "none" /\ broken' = FALSE
    /\ tx' = NoTables /\ before' = NoTables
    /\ g' = NewGraph /\ counters' = NoCounters

\* The commit of a finished statement, or Tx.Commit.
Commit ==
    /\ \/ pc = "done" /\ mode = "auto"
       \/ pc = "between" /\ (CommitAfterError \/ ~broken)
    /\ committed' = tx
    /\ Close

\* The rollback of a failed statement (or commit), or Tx.Rollback.
Rollback ==
    /\ \/ pc \in {"done", "failed"} /\ mode = "auto"
       \/ pc = "between"
    /\ UNCHANGED committed
    /\ Close

\* Run returns to the owner of the Tx, with a result or with an error. There is
\* no savepoint: what the statement wrote stays written.
Return ==
    /\ pc \in {"done", "failed"} /\ mode = "tx"
    /\ pc' = "between"
    /\ broken' = (broken \/ pc = "failed")
    /\ g' = NewGraph /\ counters' = NoCounters /\ before' = NoTables
    /\ UNCHANGED <<committed, tx, mode>>

\* An evaluation or SQL error, a cancelled context, a deleted entity written to.
Fail ==
    /\ pc \in {"running", "unlinked", "checking"}
    /\ pc' = "failed"
    /\ UNCHANGED <<committed, tx, mode, broken, g, counters, before>>

-----------------------------------------------------------------------------
(* Reads.                                                                  *)

Bound(e) == g.obj[e] # NoRow
Live(e) == Bound(e) /\ e \notin g.deleted
Running == pc = "running" /\ UNCHANGED <<committed, mode, pc, broken, counters, before>>

\* scanNodes, node, internNode: the entity is read once and remembered.
Read(n) ==
    /\ Running
    /\ tx.row[n] # NoRow /\ ~Bound(n)
    /\ g' = [g EXCEPT !.obj[n] = tx.row[n]]
    /\ UNCHANGED tx

Side(side) == IF side = "out" THEN 1 ELSE 2

Adjacent(n, side) == {r \in Rels : tx.row[r] # NoRow /\ tx.ends[r][Side(side)] = n}

\* loadAdj, prefetchAdj and internRel.
WithAdjacency(h, n, side) ==
    IF h[side][n] # Unloaded THEN h
    ELSE [h EXCEPT ![side][n] = Adjacent(n, side),
                   !.obj = [e \in Entities |-> IF e \in Adjacent(n, side) /\ h.obj[e] = NoRow
                                               THEN tx.row[e] ELSE h.obj[e]]]

LoadAdjacency(n, side) ==
    /\ Running
    /\ Bound(n) /\ g[side][n] = Unloaded
    /\ g' = WithAdjacency(g, n, side)
    /\ UNCHANGED tx

-----------------------------------------------------------------------------
(* Writes.                                                                 *)

CreateNode(n, labels, v) ==
    /\ Running
    /\ n \notin tx.used
    /\ LET new == [labels |-> labels, prop |-> v]
       IN  /\ tx' = [tx EXCEPT !.row[n] = new, !.used = @ \cup {n}, !.index = @ \cup ({n} \X labels)]
           /\ g' = [g EXCEPT !.obj[n] = new, !.created = @ \cup {n}]

\* The node is inserted and the insertion of its labels fails.
HalfCreateNode(n, labels) ==
    /\ pc = "running"
    /\ n \notin tx.used /\ labels # {}
    /\ \E v \in scope.values \cup {Null} :
           tx' = [tx EXCEPT !.row[n] = [labels |-> labels, prop |-> v], !.used = @ \cup {n}]
    /\ pc' = "failed"
    /\ UNCHANGED <<committed, mode, broken, g, counters, before>>

\* Mutant: the list of incoming relationships is not kept current.
AdjacencyWithOut(r, s, t) == [g EXCEPT !.out[s] = IF @ = Unloaded THEN @ ELSE @ \cup {r}]

\* A new relationship joins the adjacency lists that were loaded.
AdjacencyWith(r, s, t) ==
    [g EXCEPT !.out[s] = IF @ = Unloaded THEN @ ELSE @ \cup {r},
              !.in[t]  = IF @ = Unloaded THEN @ ELSE @ \cup {r}]

CreateRel(r, type, s, t, v) ==
    /\ Running
    /\ r \notin tx.used /\ Bound(s) /\ Bound(t)
    /\ LET new == [labels |-> {type}, prop |-> v]
       IN  /\ tx' = [tx EXCEPT !.row[r] = new, !.ends[r] = <<s, t>>, !.used = @ \cup {r}]
           /\ g' = [AdjacencyWith(r, s, t) EXCEPT !.obj[r] = new, !.created = @ \cup {r}]

\* Mutant: every change takes a snapshot.
SnapshotAlways(e) == [g.snap EXCEPT ![e] = g.obj[e]]

\* snapNode, snapRel: only the state before the first change, and not of an
\* entity the statement created.
Snapshot(e) ==
    IF e \in g.created \/ g.snap[e] # NoRow THEN g.snap ELSE [g.snap EXCEPT ![e] = g.obj[e]]

\* setNodeProp, setRelProp; Null removes the property.
SetProp(e, v) ==
    /\ Running
    /\ Live(e) /\ (v # Null \/ g.obj[e].prop # Null)
    /\ g' = [g EXCEPT !.snap = Snapshot(e), !.obj[e].prop = v]
    /\ tx' = [tx EXCEPT !.row[e].prop = v]

\* Mutant: labels are added to node_labels and never taken out.
IndexedMore(n, labels) == tx.index \cup ({n} \X labels)

\* persistLabels rewrites n's rows of node_labels.
Indexed(n, labels) == {p \in tx.index : p[1] # n} \cup ({n} \X labels)

Relabel(n, labels) ==
    /\ Live(n) /\ labels # g.obj[n].labels
    /\ \E ls \in SUBSET Labels : labels = g.obj[n].labels \cup ls \/ labels = g.obj[n].labels \ ls

\* addLabels, removeLabels
SetLabels(n, labels) ==
    /\ Running
    /\ Relabel(n, labels)
    /\ g' = [g EXCEPT !.snap = Snapshot(n), !.obj[n].labels = labels]
    /\ tx' = [tx EXCEPT !.row[n].labels = labels, !.index = Indexed(n, labels)]

\* The labels column is written, and then the deletion of the old rows of
\* node_labels fails, or the insertion of the new ones.
HalfSetLabels(n, labels) ==
    /\ pc = "running"
    /\ Relabel(n, labels)
    /\ \E index \in {tx.index, {p \in tx.index : p[1] # n}} :
           tx' = [tx EXCEPT !.row[n].labels = labels, !.index = index]
    /\ pc' = "failed"
    /\ UNCHANGED <<committed, mode, broken, g, counters, before>>

\* deleteRel: only marked.
DeleteRel(r) ==
    /\ Running
    /\ Live(r)
    /\ g' = [g EXCEPT !.deleted = @ \cup {r}]
    /\ UNCHANGED tx

\* deleteNode: only marked, with its relationships if detach.
DeleteNode(n, detach) ==
    /\ Running
    /\ Live(n)
    /\ LET h == WithAdjacency(WithAdjacency(g, n, "out"), n, "in")
       IN  g' = IF detach THEN [h EXCEPT !.deleted = @ \cup {n} \cup h.out[n] \cup h.in[n]]
                ELSE [g EXCEPT !.deleted = @ \cup {n}]
    /\ UNCHANGED tx

-----------------------------------------------------------------------------
(* finish.                                                                 *)

DeletedNodes == g.deleted \cap Nodes
DeletedRels == g.deleted \cap Rels

\* outRels and inRels at the end of the statement.
Relationships(n) == WithAdjacency(g, n, "out").out[n] \cup WithAdjacency(g, n, "in").in[n]

Detached == \A n \in DeletedNodes : Relationships(n) \subseteq g.deleted

\* DELETE FROM edges, and DELETE FROM nodes, which cascades to node_labels.
WithoutRels(gone) ==
    [tx EXCEPT !.row  = [e \in Entities |-> IF e \in gone THEN NoRow ELSE @[e]],
               !.ends = [r \in Rels |-> IF r \in gone THEN NoEnds ELSE @[r]]]

WithoutNodes(gone) ==
    [tx EXCEPT !.row   = [e \in Entities |-> IF e \in gone THEN NoRow ELSE @[e]],
               !.index = {p \in @ : p[1] \notin gone}]

\* A node with a live relationship cannot be deleted; then the relationships go.
FinishRels ==
    /\ pc = "running"
    /\ Detached
    /\ tx' = WithoutRels(DeletedRels)
    /\ pc' = "unlinked"
    /\ UNCHANGED <<committed, mode, broken, g, counters, before>>

Remaining == g.created \ g.deleted
Changed == {e \in Entities : g.snap[e] # NoRow} \ g.deleted
Removed == g.deleted \ g.created
Old(e) == IF g.snap[e] # NoRow THEN g.snap[e] ELSE g.obj[e]

\* How many nodes came to carry label l, and how many ceased to.
Gained(l) == Cardinality({n \in Nodes \cap Remaining : l \in g.obj[n].labels}
                         \cup {n \in Nodes \cap Changed : l \in g.obj[n].labels \ g.snap[n].labels})
Lost(l) == Cardinality({n \in Nodes \cap Changed : l \in g.snap[n].labels \ g.obj[n].labels}
                       \cup {n \in Nodes \cap Removed : l \in Old(n).labels})

\* netCounters, over the node_labels rows left; and the counters finish kept.
NetCounters(index) ==
    LET after(l) == Cardinality({p \in index : p[2] = l})
        prior(l) == after(l) + Lost(l) - Gained(l)
        count(S) == Cardinality(S)
    IN  [nodesCreated  |-> count(Remaining \cap Nodes), nodesDeleted |-> count(Removed \cap Nodes),
         relsCreated   |-> count(Remaining \cap Rels),  relsDeleted  |-> count(Removed \cap Rels),
         propsSet      |-> count({e \in Remaining : g.obj[e].prop # Null}
                                 \cup {e \in Changed : g.obj[e].prop \notin {Null, g.snap[e].prop}}),
         propsRemoved  |-> count({e \in Changed : g.snap[e].prop \notin {Null, g.obj[e].prop}}
                                 \cup {e \in Removed : Old(e).prop # Null}),
         labelsAdded   |-> count({l \in Labels : prior(l) <= 0 /\ after(l) > 0}),
         labelsRemoved |-> count({l \in Labels : prior(l) > 0 /\ after(l) = 0})]

\* The nodes go, and the counters are derived.
FinishNodes ==
    /\ pc = "unlinked"
    /\ tx' = WithoutNodes(DeletedNodes)
    /\ counters' = NetCounters(WithoutNodes(DeletedNodes).index)
    /\ pc' = "checking"
    /\ UNCHANGED <<committed, mode, broken, g, before>>

\* One of the deletions fails: some of the others were made before it.
HalfFinish ==
    /\ \/ /\ pc = "running" /\ Detached
          /\ \E gone \in SUBSET DeletedRels : gone # DeletedRels /\ tx' = WithoutRels(gone)
       \/ /\ pc = "unlinked"
          /\ \E gone \in SUBSET DeletedNodes : gone # DeletedNodes /\ tx' = WithoutNodes(gone)
    /\ pc' = "failed"
    /\ UNCHANGED <<committed, mode, broken, g, counters, before>>

\* What a label lookup finds: nodes through node_labels, relationships by type.
Carries(e, target) ==
    tx.row[e] # NoRow /\ (IF e \in Nodes THEN <<e, target>> \in tx.index ELSE target \in tx.row[e].labels)

\* checkOne
ChecksAlone(c, r) ==
    /\ c.kind \in {"EXISTENCE", "KEY"} => r.prop # Null
    /\ c.kind = "TYPE" => r.prop \in WellTyped \cup {Null}

Unique(c) == c.kind \in {"UNIQUENESS", "KEY"}

\* findDuplicate: a number or a string is compared by SQLite, any other value in
\* Go.
Duplicates(c, e) ==
    LET v == g.obj[e].prop
    IN  {f \in Entities \ {e} :
            /\ v # Null /\ (f \in Nodes <=> e \in Nodes) /\ Carries(f, c.target)
            /\ tx.row[f].prop # Null
            /\ IF v \in Scalars THEN SqlForm[tx.row[f].prop] = v ELSE tx.row[f].prop = v}

\* Mutant: only entities the statement created are checked.
TouchedCreated == Remaining

\* The entities the statement created or changed.
Touched == Remaining \cup Changed

Conforms(c, e) ==
    c.target \in g.obj[e].labels =>
        ChecksAlone(c, g.obj[e]) /\ (Unique(c) => Duplicates(c, e) = {})

\* checkConstraints; checkVectorIndexes is another check of the same kind.
CheckConstraints ==
    /\ pc = "checking"
    /\ pc' = IF \A c \in tx.cons, e \in Touched : Conforms(c, e) THEN "done" ELSE "failed"
    /\ UNCHANGED <<committed, tx, mode, broken, g, counters, before>>

-----------------------------------------------------------------------------
(* Schema commands, each a statement of its own.                           *)

\* validateExisting
Validates(c) ==
    LET found == {e \in Entities : Carries(e, c.target)}
    IN  /\ \A e \in found : ChecksAlone(c, tx.row[e])
        /\ Unique(c) => \A e, f \in found :
              e # f /\ tx.row[e].prop = tx.row[f].prop => tx.row[e].prop = Null

SchemaCommand(cons) ==
    /\ pc = "running" /\ g = NewGraph
    /\ tx' = [tx EXCEPT !.cons = cons]
    /\ pc' = "done"
    /\ UNCHANGED <<committed, mode, broken, g, counters, before>>

\* execCreateConstraint, addSchema
CreateConstraint(c) ==
    /\ c \notin tx.cons /\ Validates(c)
    /\ SchemaCommand(tx.cons \cup {c})

\* execDropSchema
DropConstraint(c) ==
    /\ c \in tx.cons
    /\ SchemaCommand(tx.cons \ {c})

-----------------------------------------------------------------------------
Transaction == BeginAuto \/ BeginTx \/ Run \/ Commit \/ Rollback \/ Return \/ Fail

NodeStep == \E n \in scope.nodes :
    \/ Read(n)
    \/ \E side \in {"out", "in"} : LoadAdjacency(n, side)
    \/ \E labels \in SUBSET scope.labels :
        \/ \E v \in scope.values \cup {Null} : CreateNode(n, labels, v)
        \/ HalfCreateNode(n, labels)
        \/ SetLabels(n, labels) \/ HalfSetLabels(n, labels)
    \/ \E detach \in BOOLEAN : DeleteNode(n, detach)

RelStep == \E r \in scope.rels :
    \/ \E type \in Types, s, t \in Nodes, v \in scope.values \cup {Null} : CreateRel(r, type, s, t, v)
    \/ DeleteRel(r)

Step ==
    \/ Transaction
    \/ NodeStep \/ RelStep
    \/ \E e \in Entities, v \in scope.values \cup {Null} : SetProp(e, v)
    \/ FinishRels \/ FinishNodes \/ HalfFinish \/ CheckConstraints
    \/ \E c \in scope.schema : CreateConstraint(c) \/ DropConstraint(c)

Next == Step /\ UNCHANGED scope

Spec == Init /\ [][Next]_vars

-----------------------------------------------------------------------------
(* Properties.                                                             *)

\* The shape of the state; outside a statement its graph value is forgotten, and
\* only a Tx outlives its statements.
TypeOK ==
    /\ {committed, tx, before} \subseteq Tables
    /\ mode \in {"none", "auto", "tx"}
    /\ pc \in {"idle", "between", "running", "unlinked", "checking", "done", "failed"}
    /\ broken \in BOOLEAN
    /\ g.obj \in [Entities -> Row \cup {NoRow}] /\ g.snap \in [Entities -> Row \cup {NoRow}]
    /\ g.out \in [Nodes -> {Unloaded} \cup SUBSET Rels] /\ g.in \in [Nodes -> {Unloaded} \cup SUBSET Rels]
    /\ g.created \subseteq Entities /\ g.deleted \subseteq Entities
    /\ DOMAIN counters = DOMAIN NoCounters
    /\ pc = "idle" <=> mode = "none"
    /\ pc \in {"idle", "between"} => g = NewGraph /\ (mode = "tx" <=> pc = "between")

\* "Nodes and relationships are cached by id so every reference shares one
\* value; writes go to SQLite immediately": while a statement runs, its copy of
\* an entity and every adjacency list it loaded are what SQLite would return, so
\* that a clause sees the writes of the clauses before it.
CacheInStep ==
    pc = "running" =>
        /\ \A e \in Entities : Bound(e) => g.obj[e] = tx.row[e]
        /\ \A n \in Nodes, side \in {"out", "in"} :
              g[side][n] # Unloaded => g[side][n] = Adjacent(n, side)

\* writeNodeLabels: "every write of nodes.labels must keep it in step". In every
\* committed state a label lookup finds exactly the nodes carrying the label.
LabelsIndexed ==
    committed.index = {p \in Nodes \X Labels :
                          committed.row[p[1]] # NoRow /\ p[2] \in committed.row[p[1]].labels}

\* Result.Counters: "created and deleted within the statement leaves no trace",
\* labels "that came into or went out of use". However a statement got there, its
\* counters are the difference between the tables before and after it (unless an
\* earlier error left the labels of the transaction half written).
CountersAreNet ==
    LET old == before.row
        new == tx.row
        in(rows, S) == {e \in S : rows[e] # NoRow}
        held(rows) == UNION {rows[n].labels : n \in in(rows, Nodes)}
        set(a, b) == {e \in in(b, Entities) : b[e].prop # Null
                                              /\ (a[e] = NoRow \/ a[e].prop # b[e].prop)}
        count(S) == Cardinality(S)
    IN  pc = "checking" /\ ~broken => counters =
            [nodesCreated  |-> count(in(new, Nodes) \ in(old, Nodes)),
             nodesDeleted  |-> count(in(old, Nodes) \ in(new, Nodes)),
             relsCreated   |-> count(in(new, Rels) \ in(old, Rels)),
             relsDeleted   |-> count(in(old, Rels) \ in(new, Rels)),
             propsSet      |-> count(set(old, new)),
             propsRemoved  |-> count(set(new, old)),
             labelsAdded   |-> count(held(new) \ held(old)),
             labelsRemoved |-> count(held(old) \ held(new))]

PG == INSTANCE PropertyGraph WITH
        row <- committed.row, ends <- committed.ends, cons <- committed.cons, used <- committed.used

\* The committed database is the abstract property graph: no statement or schema
\* command, whatever fails, commits a dangling relationship or a violated
\* constraint, moves or retypes a relationship, or reuses an id.
ImplementsPropertyGraph == PG!Spec

\* README: "a violation rolls the whole statement back". Every constraint in
\* force holds for the committed data.
ConstraintsHold == \A c \in committed.cons : PG!Satisfies(c, committed.row)

\* findDuplicate "looks for another entity with the same constrained values":
\* what it finds really has the same value.
DuplicatesAreEqual ==
    pc = "checking" => \A c \in tx.cons, e \in Touched :
        Unique(c) /\ c.target \in g.obj[e].labels =>
            \A f \in Duplicates(c, e) : tx.row[f].prop = g.obj[e].prop
=============================================================================
