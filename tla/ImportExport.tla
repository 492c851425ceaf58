---------------------------- MODULE ImportExport ----------------------------
(***************************************************************************)
(* Bulk export and import (importer.go, cypher/interp/importcheck.go)      *)
(* between a database that goes on running statements and a copy that is   *)
(* filled from documents.                                                  *)
(*                                                                         *)
(* An export is three reads (nodes, edges, definitions) with nothing to    *)
(* hold the database still between them.  An import goes through its rows  *)
(* in one transaction: to others it happens at once or not at all.         *)
(***************************************************************************)
EXTENDS SchemaCatalog

CONSTANTS
    LabelLists,     \* the label lists of new nodes
    Vals,           \* property values (Null is one)
    Commands,       \* CREATE: [name, ifNotExists, def]
    Drops,          \* DROP: [name, constraint, ifExists]
    Documents,      \* documents other programs wrote
    MaxNodes, MaxEdges, MaxDefs,    \* ids handed out in the database
    MaxStatements,  \* statements committed on it
    MaxImports,     \* imports committed into the copy
    Exact           \* the largest integer below which float64 is exact

\* What a CREATE command carries is a definition.
ASSUME CommandAssumption == \A c \in Commands : IsDefinition(c.def)

IsSequence(s) == Len(s) \in Nat /\ s = [i \in 1..Len(s) |-> s[i]]

\* What a document holds are lists, and what its schema statements carry, definitions.
ASSUME DocumentAssumption == \A doc \in Documents :
    /\ IsSequence(doc.nodes) /\ IsSequence(doc.edges) /\ IsSequence(doc.schema)
    /\ \A i \in DOMAIN doc.schema : IsDefinition(doc.schema[i])

VARIABLES
    db,         \* the database
    copy,       \* the database that is imported into
    export,     \* the export under way or finished: [phase, format, doc,
                \* origin, torn]; origin and torn (a commit came in between) are history
    run,        \* statements committed so far
    imports     \* imports committed so far

vars == <<db, copy, export, run, imports>>

NoDoc == [nodes |-> <<>>, edges |-> <<>>, schema |-> <<>>]
NoExport == [phase |-> "none", format |-> "none", doc |-> NoDoc, origin |-> NoFile, torn |-> FALSE]

Init ==
    /\ db = NoFile /\ copy = NoFile
    /\ export = NoExport
    /\ run = 0 /\ imports = 0

-----------------------------------------------------------------------------
(* What a number or a value becomes in a file.                             *)

ToFloat(n) == IF n \in (-Exact)..Exact \/ n % 2 = 0 THEN n ELSE IF n % 4 = 1 THEN n - 1 ELSE n + 1

\* unmarshalProps and marshalProps: a number is a float64 in between, and an
\* integral one is written without a fraction.
Reencoded(v) ==
    IF v = Null THEN v
    ELSE CASE v[1] = "int"   -> <<"int", ToFloat(v[2])>>
           [] v[1] = "float" -> IF v[2] % 2 = 0 THEN <<"int", v[2] \div 2>> ELSE v
           [] OTHER          -> v

\* anyToString: CSV holds text, which comes back as a string.
Texted(v) ==
    IF v = Null THEN v
    ELSE CASE v[1] = "int"   -> <<"string", <<"number", 2 * ToFloat(v[2])>>>>
           [] v[1] = "float" -> <<"string", <<"number", v[2]>>>>
           [] OTHER          -> v

-----------------------------------------------------------------------------
(* Statements on the database; each is a transaction.                      *)

Node(labels, val) == [text |-> Reread(labels), indexed |-> Range(labels), val |-> val]
InsertNode(d, node) == [d EXCEPT !.nodes = Put(@, d.last.nodes + 1, node), !.last.nodes = @ + 1]
InsertEdge(d, edge) == [d EXCEPT !.edges = Put(@, d.last.edges + 1, edge), !.last.edges = @ + 1]

DetachDelete(d, id) ==
    [d EXCEPT !.nodes = Drop(@, {id}), !.edges = Drop(@, {e \in DOMAIN @ : id \in {@[e].s, @[e].t}})]

\* A statement that fails leaves everything as it was, and so does an import.
Ran(r) ==
    /\ run < MaxStatements
    /\ r.ok
    /\ db' = r.db
    /\ run' = run + 1
    /\ export' = [export EXCEPT !.torn = @ \/ (export.phase \in {"nodes", "edges"} /\ r.db # db)]
    /\ UNCHANGED <<copy, imports>>

\* createNode checks under the labels it was given.
CreateNode ==
    /\ db.last.nodes < MaxNodes
    /\ \E labels \in LabelLists, v \in Vals :
           LET new == InsertNode(db, Node(labels, v))
           IN  Ran([ok |-> Conforms(new, new.last.nodes, Range(labels)), db |-> new])

\* SET loads the node: its labels are the decoded ones.
SetVal ==
    \E id \in DOMAIN db.nodes, v \in Vals :
        LET new == [db EXCEPT !.nodes[id].val = v]
        IN  Ran([ok |-> Conforms(new, id, Range(db.nodes[id].text)), db |-> new])

CreateRel ==
    /\ db.last.edges < MaxEdges
    /\ \E s, t \in DOMAIN db.nodes : Ran(Done(InsertEdge(db, [type |-> "R", s |-> s, t |-> t])))

\* DETACH DELETE
DeleteNode == \E id \in DOMAIN db.nodes : Ran(Done(DetachDelete(db, id)))

Create ==
    /\ db.last.defs < MaxDefs
    /\ \E c \in Commands : Ran(CreateSchema(db, c.name, c.ifNotExists, c.def))
DropDef == \E c \in Drops : Ran(DropSchema(db, c.name, c.constraint, c.ifExists))

-----------------------------------------------------------------------------
(* Export.                                                                 *)

Listed(f) == LET ids == InOrder(DOMAIN f) IN [i \in DOMAIN ids |-> f[ids[i]]]

\* ListNodes; CSV writes the labels encoded and every value as text.
BeginExport ==
    /\ export.phase = "none"
    /\ \E format \in {"json", "csv"} :
        LET ids == InOrder(DOMAIN db.nodes)
            conv(v) == IF format = "json" THEN Reencoded(v) ELSE Texted(v)
            nodes == [i \in DOMAIN ids |-> [id |-> ids[i], labels |-> db.nodes[ids[i]].text, val |-> conv(db.nodes[ids[i]].val)]]
        IN  export' = [phase |-> "nodes", format |-> format, doc |-> [NoDoc EXCEPT !.nodes = nodes], origin |-> db, torn |-> FALSE]
    /\ UNCHANGED <<db, copy, run, imports>>

\* ListEdges
ExportEdges ==
    /\ export.phase = "nodes"
    /\ export' = [export EXCEPT !.phase = IF export.format = "json" THEN "edges" ELSE "done",
                                !.doc.edges = Listed(db.edges)]
    /\ UNCHANGED <<db, copy, run, imports>>

ExportSchema ==
    /\ export.phase = "edges"
    /\ export' = [export EXCEPT !.phase = "done", !.doc.schema = SchemaStatements(db)]
    /\ UNCHANGED <<db, copy, run, imports>>

-----------------------------------------------------------------------------
(* Import.                                                                 *)

\* An import works through its rows in one transaction, and then through the rest:
\* [do, row] each.  What it has so far is [ok, db, ids], where ids gives the id each
\* id of the file got.
Begun(d) == [ok |-> TRUE, db |-> d, ids |-> <<>>]

\* 0 is no id (""), and no other may come twice.
TakeNode(acc, n) ==
    LET new == InsertNode(acc.db, Node(n.labels, n.val))
    IN  [ok |-> n.id = 0 \/ n.id \notin DOMAIN acc.ids, db |-> new,
         ids |-> IF n.id = 0 THEN acc.ids ELSE Put(acc.ids, n.id, new.last.nodes)]

\* Mutant: an edge's ends are taken for ids of the database.
EndsAsWritten(ids, e) == e

\* An edge of a document names its ends by their ids in the file.
EndsOf(ids, e) == [type |-> e.type, s |-> ids[e.s], t |-> ids[e.t]]

TakeEdge(acc, e) ==
    IF e.type # "" /\ e.s \in DOMAIN acc.ids /\ e.t \in DOMAIN acc.ids
    THEN [acc EXCEPT !.db = InsertEdge(@, EndsOf(acc.ids, e))]
    ELSE [acc EXCEPT !.ok = FALSE]

\* An edge of a CSV file names them by their ids in the database, which SQLite checks.
TakeLink(acc, e) ==
    IF e.type # "" /\ e.s \in DOMAIN acc.db.nodes /\ e.t \in DOMAIN acc.db.nodes
    THEN [acc EXCEPT !.db = InsertEdge(@, [type |-> e.type, s |-> e.s, t |-> e.t])]
    ELSE [acc EXCEPT !.ok = FALSE]

\* Mutant: nothing is validated after the rows are in.
ValidateNothing(before, d) == TRUE

\* ValidateImported: the new rows, as they read back
ValidateImported(before, d) ==
    \A id \in DOMAIN d.nodes \ DOMAIN before.nodes : Conforms(d, id, Range(d.nodes[id].text))

\* Mutant: the statements of a schema come without IF NOT EXISTS.
ReplayStrictly(acc, s) ==
    LET r == CreateSchema(acc.db, s.name, FALSE, s) IN [ok |-> r.ok, db |-> r.db, ids |-> acc.ids]

\* applyImportSchema, one statement
Replay(acc, s) ==
    LET r == CreateSchema(acc.db, s.name, TRUE, s) IN [ok |-> r.ok, db |-> r.db, ids |-> acc.ids]

\* One piece of the work on a database that was d; nothing is done after an error.
Perform(d, acc, w) ==
    IF ~acc.ok THEN acc
    ELSE CASE w.do = "node"   -> TakeNode(acc, w.row)
           [] w.do = "edge"   -> TakeEdge(acc, w.row)
           [] w.do = "link"   -> TakeLink(acc, w.row)
           [] w.do = "check"  -> [acc EXCEPT !.ok = ValidateImported(d, acc.db)]
           [] w.do = "define" -> Replay(acc, w.row)

\* What an import into d has after each piece of its work.
Progress(d, work) ==
    LET after[i \in 0..Len(work)] == IF i = 0 THEN Begun(d) ELSE Perform(d, after[i - 1], work[i])
    IN  after

Each(do, rows) == [i \in DOMAIN rows |-> [do |-> do, row |-> rows[i]]]
Check == <<[do |-> "check", row |-> 0]>>

\* All of the work is committed, or none.
Imported(d, work) ==
    LET r == Progress(d, work)[Len(work)] IN IF r.ok THEN Done(r.db) ELSE Refused(d)

\* importJSON: nodes, edges, the check, the schema.
JSONWork(doc) ==
    LET read == [i \in DOMAIN doc.nodes |-> [id |-> doc.nodes[i].id, labels |-> doc.nodes[i].labels,
                                             val |-> Reencoded(doc.nodes[i].val)]]
    IN  Each("node", read) \o Each("edge", doc.edges) \o Check \o Each("define", doc.schema)

\* importCSVNodes: the ids of the file are not kept, and every value is text already.
CSVNodeWork(doc) ==
    LET read == [i \in DOMAIN doc.nodes |-> [id |-> 0, labels |-> Reread(doc.nodes[i].labels), val |-> doc.nodes[i].val]]
    IN  Each("node", read) \o Check

\* importCSVEdges
CSVEdgeWork(doc) == Each("link", doc.edges) \o Check

ImportJSON(d, doc) == Imported(d, JSONWork(doc))
ImportCSVNodes(d, doc) == Imported(d, CSVNodeWork(doc))
ImportCSVEdges(d, doc) == Imported(d, CSVEdgeWork(doc))

Took(r) ==
    /\ imports < MaxImports
    /\ r.ok
    /\ copy' = r.db
    /\ imports' = imports + 1
    /\ UNCHANGED <<db, export, run>>

ImportExported == export.phase = "done" /\ export.format = "json" /\ Took(ImportJSON(copy, export.doc))
ImportNodeFile == export.phase = "done" /\ export.format = "csv" /\ Took(ImportCSVNodes(copy, export.doc))
ImportEdgeFile == export.phase = "done" /\ export.format = "csv" /\ Took(ImportCSVEdges(copy, export.doc))
ImportDocument == \E doc \in Documents : Took(ImportJSON(copy, doc))

Next ==
    \/ CreateNode \/ SetVal \/ CreateRel \/ DeleteNode
    \/ Create \/ DropDef
    \/ BeginExport \/ ExportEdges \/ ExportSchema
    \/ ImportExported \/ ImportNodeFile \/ ImportEdgeFile \/ ImportDocument

Spec == Init /\ [][Next]_vars

-----------------------------------------------------------------------------
(* What the two databases are held to.                                     *)

Obeys(d) == \A i \in DOMAIN d.defs : d.defs[i].constraint => Validates(d, d.defs[i])

Catalogued(d) ==
    /\ d.backing = {i \in DOMAIN d.defs : Backed(d.defs[i])}
    /\ \A i, j \in DOMAIN d.defs : d.defs[i].name = d.defs[j].name => i = j
    /\ \A i, j \in DOMAIN d.defs : SameRule(d.defs[i], d.defs[j]) => i = j
    /\ {r.name : r \in ShowIndexes(d)} \cup {r.name : r \in ShowConstraints(d)} = {d.defs[i].name : i \in DOMAIN d.defs}

\* Every constraint of either database holds of the nodes its label finds, however
\* the data and the constraint came in: by statement, by import, one before the
\* other.
SchemaHolds == Obeys(db) /\ Obeys(copy)

\* A SQLite index exists for exactly the definitions that need one, names are never
\* shared, and SHOW lists one index for each of them.
CatalogInStep == Catalogued(db) /\ Catalogued(copy)

\* Replaying the schema statements of a database on itself succeeds and changes
\* nothing: what "IF NOT EXISTS" in SchemaStatements is for.
ReplayHarmless == \A d \in {db, copy} : Imported(d, Each("define", SchemaStatements(d))) = Done(d)

\* d is a with nodes renumbered in order.
Rank(a, id) == Cardinality({x \in DOMAIN a.nodes : x <= id})
SameGraph(a, d) ==
    /\ Listed(a.nodes) = Listed(d.nodes)
    /\ Listed(d.edges) = LET es == Listed(a.edges)
                         IN  [i \in DOMAIN es |-> [es[i] EXCEPT !.s = Rank(a, es[i].s), !.t = Rank(a, es[i].t)]]
SameSchema(a, d) == SchemaStatements(a) = SchemaStatements(d)

\* Nothing in a is changed by being written and read.
Lossless(a) ==
    \A id \in DOMAIN a.nodes :
        LET n == a.nodes[id] IN Reencoded(n.val) = n.val /\ Range(n.text) = n.indexed

\* A finished JSON export that no commit came in between, of data that survives the
\* file, imports into an empty database and gives the same graph and schema; a CSV
\* export gives the same edges if the nodes had consecutive ids.
RoundTrip ==
    export.phase = "done" /\ ~export.torn /\ Lossless(export.origin) =>
        LET a == export.origin
            j == ImportJSON(NoFile, export.doc)
            n == ImportCSVNodes(NoFile, export.doc)
        IN  IF export.format = "json" THEN j.ok /\ SameGraph(a, j.db) /\ SameSchema(a, j.db)
            ELSE /\ n.ok
                 /\ DOMAIN a.nodes = 1..Cardinality(DOMAIN a.nodes) =>
                        ImportCSVEdges(n.db, export.doc).ok /\ Listed(ImportCSVEdges(n.db, export.doc).db.edges) = Listed(a.edges)

\* "ExportFormatJSON exports the full graph as a JSON document compatible with
\* FormatJSON import": whatever was exported can be imported into an empty database.
ExportImportable ==
    export.phase = "done" /\ export.format = "json" => ImportJSON(NoFile, export.doc).ok
=============================================================================
