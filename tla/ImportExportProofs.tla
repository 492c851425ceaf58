------------------------- MODULE ImportExportProofs -------------------------
(***************************************************************************)
(* Proofs about the database that statements run on beside exports: its    *)
(* catalog stays in step with its indexes, its edges keep both ends, and   *)
(* its data keeps to its constraints.  The lemmas about the catalog are    *)
(* for any database; ImportProofs takes them to the copy, whose imports    *)
(* need an induction over their documents.                                 *)
(***************************************************************************)
EXTENDS ImportExport, TLAPS

IsFunction(f) == f = [x \in DOMAIN f |-> f[x]]

\* The fields of a database, and of the record of the last ids it gave.
Fields(d) ==
    /\ d = [x \in {"nodes", "edges", "defs", "backing", "last"} |-> d[x]]
    /\ d.last = [x \in {"nodes", "edges", "defs"} |-> d.last[x]]

\* The shape of a database, and the ids it has handed out: none above the last.
IsFile(d) ==
    /\ Fields(d)
    /\ d.last.nodes \in Nat /\ d.last.edges \in Nat /\ d.last.defs \in Nat
    /\ IsFunction(d.nodes) /\ IsFunction(d.edges) /\ IsFunction(d.defs)
    /\ DOMAIN d.nodes \subseteq 1..d.last.nodes
    /\ DOMAIN d.edges \subseteq 1..d.last.edges
    /\ DOMAIN d.defs \subseteq 1..d.last.defs
    /\ \A id \in DOMAIN d.nodes :
          d.nodes[id] = [x \in {"text", "indexed", "val"} |-> d.nodes[id][x]]
    /\ \A i \in DOMAIN d.defs : IsDefinition(d.defs[i])

\* Every edge has both its nodes.
Attached(d) == \A e \in DOMAIN d.edges : d.edges[e].s \in DOMAIN d.nodes /\ d.edges[e].t \in DOMAIN d.nodes

-----------------------------------------------------------------------------
(* The catalog.                                                            *)

\* Between them SHOW INDEXES and SHOW CONSTRAINTS list every definition.
LEMMA ShowsAll ==
    ASSUME NEW d, \A i \in DOMAIN d.defs : d.defs[i].constraint \in BOOLEAN
    PROVE  {r.name : r \in ShowIndexes(d)} \cup {r.name : r \in ShowConstraints(d)} = {d.defs[i].name : i \in DOMAIN d.defs}
<1> DEFINE owners == {j \in DOMAIN d.defs : ~d.defs[j].constraint \/ Unique(d.defs[j])}
           rules  == {j \in DOMAIN d.defs : d.defs[j].constraint}
           index(i) == [name |-> d.defs[i].name, kind |-> IF d.defs[i].constraint THEN "RANGE" ELSE d.defs[i].kind,
                        owner |-> IF d.defs[i].constraint THEN d.defs[i].name ELSE NoName]
           rule(i) == [name |-> d.defs[i].name, kind |-> d.defs[i].kind,
                       owned |-> IF Unique(d.defs[i]) THEN d.defs[i].name ELSE NoName]
<1>0. /\ ShowIndexes(d) = {index(i) : i \in owners} /\ ShowConstraints(d) = {rule(i) : i \in rules}
      /\ \A i \in DOMAIN d.defs : index(i).name = d.defs[i].name /\ rule(i).name = d.defs[i].name
  BY DEF ShowIndexes, ShowConstraints
<1> HIDE DEF index, rule
<1>1. {r.name : r \in ShowIndexes(d)} = {d.defs[i].name : i \in owners}
  BY <1>0
<1>2. {r.name : r \in ShowConstraints(d)} = {d.defs[i].name : i \in rules}
  BY <1>0
<1>3. owners \cup rules = DOMAIN d.defs
  OBVIOUS
<1> QED
  BY <1>1, <1>2, <1>3

\* The catalog is a matter of the definitions and the SQLite indexes alone.
LEMMA CatalogKept ==
    ASSUME NEW d, NEW e, e.defs = d.defs, e.backing = d.backing, Catalogued(d)
    PROVE  Catalogued(e)
  BY DEF Catalogued, ShowIndexes, ShowConstraints

\* What e has of d and, if it is not d, of a definition more.
Defines(d, e, name, def) ==
    /\ IsFile(e) /\ Catalogued(e)
    /\ e.nodes = d.nodes /\ e.edges = d.edges
    /\ \/ e.defs = d.defs
       \/ /\ def.constraint => Validates(d, def)
          /\ \E id : /\ id \notin DOMAIN d.defs
                    /\ e.defs = Put(d.defs, id, [def EXCEPT !.name = NameFor(name, def, id)])

\* CREATE INDEX and CREATE CONSTRAINT keep any database whole: a definition gets an
\* id of its own, a name no other has and, where it needs one, a SQLite index.
LEMMA CreateKeeps ==
    ASSUME NEW d, IsFile(d), Catalogued(d), NEW name, NEW ifNotExists, NEW def, IsDefinition(def)
    PROVE  Defines(d, CreateSchema(d, name, ifNotExists, def).db, name, def)
<1> DEFINE r == CreateSchema(d, name, ifNotExists, def)
           id == d.last.defs + 1
           named == [def EXCEPT !.name = NameFor(name, def, id)]
           new == [d EXCEPT !.defs = Put(@, id, named), !.last.defs = id,
                            !.backing = IF Backed(def) THEN @ \cup {id} ELSE @]
<1>1. CASE r.db = d
  BY <1>1 DEF Defines
<1>2. CASE r.db # d
  <2>1. /\ r.db = new
        /\ def.constraint => Validates(d, def)
        /\ \A i \in DOMAIN d.defs : d.defs[i].name # named.name /\ ~SameRule(d.defs[i], def)
    BY <1>2 DEF CreateSchema, AddSchema, Done, Refused
  <2>2. /\ named.constraint = def.constraint /\ named.kind = def.kind /\ named.target = def.target
        /\ IsDefinition(named)
    BY DEF IsDefinition
  <2> HIDE DEF named
  <2>3. /\ new.nodes = d.nodes /\ new.edges = d.edges /\ new.defs = Put(d.defs, id, named)
        /\ new.backing = IF Backed(def) THEN d.backing \cup {id} ELSE d.backing
        /\ new = [x \in {"nodes", "edges", "defs", "backing", "last"} |-> new[x]]
        /\ new.last = [x \in {"nodes", "edges", "defs"} |-> new.last[x]]
        /\ new.last.nodes = d.last.nodes /\ new.last.edges = d.last.edges /\ new.last.defs = id
    <3> DEFINE defs == Put(d.defs, id, named)
               backing == IF Backed(def) THEN d.backing \cup {id} ELSE d.backing
    <3>1. new = [d EXCEPT !.defs = defs, !.last.defs = id, !.backing = backing]
      OBVIOUS
    <3> HIDE DEF defs, backing, id, new
    <3>2. /\ new.nodes = d.nodes /\ new.edges = d.edges /\ new.defs = defs /\ new.backing = backing
          /\ new.last.nodes = d.last.nodes /\ new.last.edges = d.last.edges /\ new.last.defs = id
      BY <3>1 DEF IsFile, Fields
    <3>3. new = [x \in {"nodes", "edges", "defs", "backing", "last"} |-> new[x]]
      BY <3>1 DEF IsFile, Fields
    <3>4. new.last = [x \in {"nodes", "edges", "defs"} |-> new.last[x]]
      BY <3>1 DEF IsFile, Fields
    <3> QED
      BY <3>2, <3>3, <3>4 DEF defs, backing
  <2> HIDE DEF new
  <2>4. id \in Nat /\ id \notin DOMAIN d.defs
    BY DEF IsFile, Fields
  <2>5. /\ DOMAIN new.defs = DOMAIN d.defs \cup {id} /\ new.defs[id] = named /\ IsFunction(new.defs)
        /\ \A i \in DOMAIN d.defs : new.defs[i] = d.defs[i]
    <3> HIDE DEF id
    <3>1. new.defs = Put(d.defs, id, named)
      BY <2>3
    <3> QED
      BY <2>4, <3>1 DEF Put, IsFunction
  <2>6. IsFile(new)
    <3>1. DOMAIN new.defs \subseteq 1..new.last.defs
      BY <2>3, <2>5 DEF IsFile, Fields
    <3>2. \A i \in DOMAIN new.defs : IsDefinition(new.defs[i])
      BY <2>2, <2>5 DEF IsFile, Fields
    <3> QED
      BY <2>3, <2>4, <2>5, <3>1, <3>2 DEF IsFile, Fields
  <2>7. Catalogued(new)
    <3>1. new.backing = {i \in DOMAIN new.defs : Backed(new.defs[i])}
      <4>1. Backed(named) = Backed(def)
        BY <2>2 DEF Backed
      <4>2. d.backing = {i \in DOMAIN d.defs : Backed(d.defs[i])}
        BY DEF Catalogued
      <4> QED
        BY <2>3, <2>4, <2>5, <4>1, <4>2
    <3>2. \A i, j \in DOMAIN new.defs : new.defs[i].name = new.defs[j].name => i = j
      BY <2>1, <2>5 DEF Catalogued
    <3>3. \A i, j \in DOMAIN new.defs : SameRule(new.defs[i], new.defs[j]) => i = j
      <4>1. \A i \in DOMAIN d.defs : ~SameRule(d.defs[i], named) /\ ~SameRule(named, d.defs[i])
        BY <2>1, <2>2 DEF SameRule
      <4> QED
        BY <2>5, <4>1 DEF Catalogued
    <3>4. \A i \in DOMAIN new.defs : new.defs[i].constraint \in BOOLEAN
      BY <2>6 DEF IsFile, Fields, IsDefinition
    <3> QED
      BY <3>1, <3>2, <3>3, <3>4, ShowsAll DEF Catalogued
  <2> QED
    BY <2>1, <2>3, <2>4, <2>6, <2>7 DEF named, Defines
<1> QED
  BY <1>1, <1>2

\* DROP takes the definition and its SQLite index together.
LEMMA DropKeeps ==
    ASSUME NEW d, IsFile(d), Catalogued(d), NEW name, NEW constraint, NEW ifExists,
           NEW r, r = DropSchema(d, name, constraint, ifExists)
    PROVE  /\ IsFile(r.db) /\ Catalogued(r.db)
           /\ r.db.nodes = d.nodes /\ r.db.edges = d.edges
           /\ DOMAIN r.db.defs \subseteq DOMAIN d.defs
           /\ \A i \in DOMAIN r.db.defs : r.db.defs[i] = d.defs[i]
<1> DEFINE hit == {i \in DOMAIN d.defs : d.defs[i].name = name}
           new == [d EXCEPT !.defs = Drop(@, hit), !.backing = @ \ hit]
<1>1. r.db = d \/ r.db = new
  BY DEF DropSchema, Done, Refused
<1> HIDE DEF hit
<1>2. /\ new.nodes = d.nodes /\ new.edges = d.edges /\ new.defs = Drop(d.defs, hit)
      /\ new.backing = d.backing \ hit /\ new.last = d.last
      /\ new = [x \in {"nodes", "edges", "defs", "backing", "last"} |-> new[x]]
  BY DEF IsFile, Fields
<1> HIDE DEF new
<1>3. /\ IsFunction(new.defs) /\ DOMAIN new.defs = DOMAIN d.defs \ hit
      /\ \A i \in DOMAIN new.defs : new.defs[i] = d.defs[i]
  BY <1>2 DEF Drop, IsFunction
<1>4. IsFile(new)
  BY <1>2, <1>3 DEF IsFile, Fields
<1>5. Catalogued(new)
  <2>1. new.backing = {i \in DOMAIN new.defs : Backed(new.defs[i])}
    <3>1. d.backing = {i \in DOMAIN d.defs : Backed(d.defs[i])}
      BY DEF Catalogued
    <3> QED
      BY <1>2, <1>3, <3>1
  <2>2. \A i, j \in DOMAIN new.defs : new.defs[i].name = new.defs[j].name => i = j
    BY <1>3 DEF Catalogued
  <2>3. \A i, j \in DOMAIN new.defs : SameRule(new.defs[i], new.defs[j]) => i = j
    BY <1>3 DEF Catalogued
  <2>4. \A i \in DOMAIN new.defs : new.defs[i].constraint \in BOOLEAN
    BY <1>4 DEF IsFile, Fields, IsDefinition
  <2> QED
    BY <2>1, <2>2, <2>3, <2>4, ShowsAll DEF Catalogued
<1> QED
  BY <1>1, <1>2, <1>3, <1>4, <1>5

-----------------------------------------------------------------------------
(* The rows.                                                               *)

\* A new node gets an id that was never given out.
LEMMA InsertNodeGives ==
    ASSUME NEW d, IsFile(d), NEW labels, NEW v, NEW new, new = InsertNode(d, Node(labels, v))
    PROVE  /\ IsFile(new)
           /\ new.edges = d.edges /\ new.defs = d.defs /\ new.backing = d.backing
           /\ new.last.nodes \notin DOMAIN d.nodes
           /\ DOMAIN new.nodes = DOMAIN d.nodes \cup {new.last.nodes}
           /\ new.nodes[new.last.nodes] = Node(labels, v)
           /\ \A id \in DOMAIN d.nodes : new.nodes[id] = d.nodes[id]
<1> DEFINE id == d.last.nodes + 1
           node == Node(labels, v)
           nodes == Put(d.nodes, id, node)
           last == [d.last EXCEPT !.nodes = id]
<1>1. id \in Nat /\ id \notin DOMAIN d.nodes /\ DOMAIN d.nodes \cup {id} \subseteq 1..id
  BY DEF IsFile, Fields
<1>2. node = [x \in {"text", "indexed", "val"} |-> node[x]]
  BY DEF Node
<1>3. Fields(d)
  BY DEF IsFile
<1>4. new = [d EXCEPT !.nodes = nodes, !.last = last]
  BY <1>3 DEF InsertNode, Fields
<1>5. /\ last = [x \in {"nodes", "edges", "defs"} |-> last[x]]
      /\ last.nodes = id /\ last.edges = d.last.edges /\ last.defs = d.last.defs
  BY <1>3 DEF Fields
<1> HIDE DEF id, node, last
<1>6. /\ IsFunction(nodes) /\ DOMAIN nodes = DOMAIN d.nodes \cup {id} /\ nodes[id] = node
      /\ \A x \in DOMAIN d.nodes : nodes[x] = d.nodes[x]
  BY <1>1 DEF Put, IsFunction
<1> HIDE DEF nodes
<1>7. /\ new.nodes = nodes /\ new.edges = d.edges /\ new.defs = d.defs /\ new.backing = d.backing
      /\ new.last.nodes = id /\ new.last.edges = d.last.edges /\ new.last.defs = d.last.defs
      /\ Fields(new)
  <2>1. /\ new.nodes = nodes /\ new.edges = d.edges /\ new.defs = d.defs /\ new.backing = d.backing
        /\ new.last = last /\ new = [x \in {"nodes", "edges", "defs", "backing", "last"} |-> new[x]]
    BY <1>3, <1>4 DEF Fields
  <2> QED
    BY <2>1, <1>5 DEF Fields
<1>8. /\ IsFunction(nodes) /\ DOMAIN nodes \subseteq 1..id
      /\ \A x \in DOMAIN nodes : nodes[x] = [y \in {"text", "indexed", "val"} |-> nodes[x][y]]
  BY <1>1, <1>2, <1>6 DEF IsFile, Fields
<1>9. /\ d.last.edges \in Nat /\ d.last.defs \in Nat
      /\ IsFunction(d.edges) /\ DOMAIN d.edges \subseteq 1..d.last.edges
      /\ IsFunction(d.defs) /\ DOMAIN d.defs \subseteq 1..d.last.defs
      /\ \A i \in DOMAIN d.defs : IsDefinition(d.defs[i])
  BY DEF IsFile, Fields
<1>10. IsFile(new)
  BY <1>1, <1>7, <1>8, <1>9 DEF IsFile
<1> QED
  BY <1>1, <1>6, <1>7, <1>10 DEF node

\* A new edge gets an id that was never given out.
LEMMA InsertEdgeGives ==
    ASSUME NEW d, IsFile(d), NEW edge, NEW new, new = InsertEdge(d, edge)
    PROVE  /\ IsFile(new)
           /\ new.nodes = d.nodes /\ new.defs = d.defs /\ new.backing = d.backing
           /\ DOMAIN new.edges = DOMAIN d.edges \cup {new.last.edges}
           /\ new.edges[new.last.edges] = edge
           /\ \A id \in DOMAIN d.edges : new.edges[id] = d.edges[id]
<1> DEFINE id == d.last.edges + 1
           edges == Put(d.edges, id, edge)
           last == [d.last EXCEPT !.edges = id]
<1>1. id \in Nat /\ id \notin DOMAIN d.edges /\ DOMAIN d.edges \cup {id} \subseteq 1..id
  BY DEF IsFile, Fields
<1>2. Fields(d)
  BY DEF IsFile
<1>3. new = [d EXCEPT !.edges = edges, !.last = last]
  BY <1>2 DEF InsertEdge, Fields
<1>4. /\ last = [x \in {"nodes", "edges", "defs"} |-> last[x]]
      /\ last.edges = id /\ last.nodes = d.last.nodes /\ last.defs = d.last.defs
  BY <1>2 DEF Fields
<1> HIDE DEF id, last
<1>5. /\ IsFunction(edges) /\ DOMAIN edges = DOMAIN d.edges \cup {id} /\ edges[id] = edge
      /\ \A x \in DOMAIN d.edges : edges[x] = d.edges[x]
  BY <1>1 DEF Put, IsFunction
<1> HIDE DEF edges
<1>6. /\ new.nodes = d.nodes /\ new.edges = edges /\ new.defs = d.defs /\ new.backing = d.backing
      /\ new.last.nodes = d.last.nodes /\ new.last.edges = id /\ new.last.defs = d.last.defs
      /\ Fields(new)
  <2>1. /\ new.nodes = d.nodes /\ new.edges = edges /\ new.defs = d.defs /\ new.backing = d.backing
        /\ new.last = last /\ new = [x \in {"nodes", "edges", "defs", "backing", "last"} |-> new[x]]
    BY <1>2, <1>3 DEF Fields
  <2> QED
    BY <2>1, <1>4 DEF Fields
<1>7. IsFunction(edges) /\ DOMAIN edges \subseteq 1..id
  BY <1>1, <1>5
<1>8. /\ d.last.nodes \in Nat /\ d.last.defs \in Nat
      /\ IsFunction(d.nodes) /\ DOMAIN d.nodes \subseteq 1..d.last.nodes
      /\ \A x \in DOMAIN d.nodes : d.nodes[x] = [y \in {"text", "indexed", "val"} |-> d.nodes[x][y]]
      /\ IsFunction(d.defs) /\ DOMAIN d.defs \subseteq 1..d.last.defs
      /\ \A i \in DOMAIN d.defs : IsDefinition(d.defs[i])
  BY DEF IsFile, Fields
<1>9. IsFile(new)
  BY <1>1, <1>6, <1>7, <1>8 DEF IsFile
<1> QED
  BY <1>5, <1>6, <1>9

\* SET changes one value and nothing else.
LEMMA SetGives ==
    ASSUME NEW d, IsFile(d), NEW id \in DOMAIN d.nodes, NEW v, NEW new, new = [d EXCEPT !.nodes[id].val = v]
    PROVE  /\ IsFile(new)
           /\ new.edges = d.edges /\ new.defs = d.defs /\ new.backing = d.backing
           /\ DOMAIN new.nodes = DOMAIN d.nodes
           /\ new.nodes[id].val = v /\ new.nodes[id].text = d.nodes[id].text /\ new.nodes[id].indexed = d.nodes[id].indexed
           /\ \A x \in DOMAIN d.nodes : x # id => new.nodes[x] = d.nodes[x]
<1> DEFINE node == [d.nodes[id] EXCEPT !.val = v]
           nodes == [d.nodes EXCEPT ![id] = node]
<1>1. /\ node.val = v /\ node.text = d.nodes[id].text /\ node.indexed = d.nodes[id].indexed
      /\ node = [x \in {"text", "indexed", "val"} |-> node[x]]
  BY DEF IsFile, Fields
<1>2. Fields(d) /\ new = [d EXCEPT !.nodes = nodes]
  BY DEF IsFile, Fields
<1> HIDE DEF node
<1>3. /\ IsFunction(nodes) /\ DOMAIN nodes = DOMAIN d.nodes /\ nodes[id] = node
      /\ \A x \in DOMAIN d.nodes : x # id => nodes[x] = d.nodes[x]
  BY DEF IsFunction, IsFile, Fields
<1> HIDE DEF nodes
<1>4. /\ new.nodes = nodes /\ new.edges = d.edges /\ new.defs = d.defs /\ new.backing = d.backing /\ new.last = d.last
      /\ Fields(new)
  BY <1>2 DEF Fields
<1>5. IsFile(new)
  <2>1. /\ d.last.nodes \in Nat /\ d.last.edges \in Nat /\ d.last.defs \in Nat
        /\ IsFunction(d.edges) /\ DOMAIN d.edges \subseteq 1..d.last.edges
        /\ IsFunction(d.defs) /\ DOMAIN d.defs \subseteq 1..d.last.defs
        /\ \A i \in DOMAIN d.defs : IsDefinition(d.defs[i])
    BY DEF IsFile, Fields
  <2>2. /\ IsFunction(nodes) /\ DOMAIN nodes \subseteq 1..d.last.nodes
        /\ \A x \in DOMAIN nodes : nodes[x] = [y \in {"text", "indexed", "val"} |-> nodes[x][y]]
    BY <1>1, <1>3 DEF IsFile, Fields
  <2> QED
    BY <1>4, <2>1, <2>2 DEF IsFile
<1> QED
  BY <1>1, <1>3, <1>4, <1>5

\* DETACH DELETE takes the node and every edge that has it as an end.
LEMMA DeleteGives ==
    ASSUME NEW d, IsFile(d), NEW id, NEW new, new = DetachDelete(d, id)
    PROVE  /\ IsFile(new)
           /\ new.defs = d.defs /\ new.backing = d.backing
           /\ DOMAIN new.nodes = DOMAIN d.nodes \ {id}
           /\ \A x \in DOMAIN new.nodes : new.nodes[x] = d.nodes[x]
           /\ DOMAIN new.edges = {e \in DOMAIN d.edges : d.edges[e].s # id /\ d.edges[e].t # id}
           /\ \A e \in DOMAIN new.edges : new.edges[e] = d.edges[e]
<1> DEFINE nodes == Drop(d.nodes, {id})
           gone == {e \in DOMAIN d.edges : id \in {d.edges[e].s, d.edges[e].t}}
           edges == Drop(d.edges, gone)
<1>1. /\ IsFunction(nodes) /\ DOMAIN nodes = DOMAIN d.nodes \ {id}
      /\ \A x \in DOMAIN nodes : nodes[x] = d.nodes[x]
  BY DEF Drop, IsFunction
<1>2. /\ IsFunction(edges) /\ DOMAIN edges = DOMAIN d.edges \ gone
      /\ \A e \in DOMAIN edges : edges[e] = d.edges[e]
  BY DEF Drop, IsFunction
<1>3. new = [d EXCEPT !.nodes = nodes, !.edges = edges]
  BY DEF DetachDelete
<1> HIDE DEF nodes, edges
<1>4. /\ new.nodes = nodes /\ new.edges = edges /\ new.defs = d.defs /\ new.backing = d.backing /\ new.last = d.last
      /\ new = [x \in {"nodes", "edges", "defs", "backing", "last"} |-> new[x]]
  BY <1>3 DEF IsFile, Fields
<1>5. IsFile(new)
  <2>1. DOMAIN new.nodes \subseteq 1..new.last.nodes /\ DOMAIN new.edges \subseteq 1..new.last.edges
    BY <1>1, <1>2, <1>4 DEF IsFile, Fields
  <2>2. \A x \in DOMAIN new.nodes : new.nodes[x] = [y \in {"text", "indexed", "val"} |-> new.nodes[x][y]]
    <3>1. \A x \in DOMAIN new.nodes : x \in DOMAIN d.nodes /\ new.nodes[x] = d.nodes[x]
      BY <1>1, <1>4
    <3>2. \A x \in DOMAIN d.nodes : d.nodes[x] = [y \in {"text", "indexed", "val"} |-> d.nodes[x][y]]
      BY DEF IsFile, Fields
    <3> QED
      BY <3>1, <3>2
  <2>3. IsFunction(new.nodes) /\ IsFunction(new.edges)
    BY <1>1, <1>2, <1>4
  <2> QED
    BY <1>4, <2>1, <2>2, <2>3 DEF IsFile, Fields
<1> QED
  BY <1>1, <1>2, <1>4, <1>5

-----------------------------------------------------------------------------
(* The steps of the database.                                              *)

\* A step leaves the database alone or runs one statement on it.
LEMMA StatementCases ==
    ASSUME [Next]_vars
    PROVE  \/ db' = db
           \/ \E labels \in LabelLists, v \in Vals :
                 LET new == InsertNode(db, Node(labels, v))
                 IN  db' = new /\ Conforms(new, new.last.nodes, Range(labels))
           \/ \E id \in DOMAIN db.nodes, v \in Vals :
                 LET new == [db EXCEPT !.nodes[id].val = v]
                 IN  db' = new /\ Conforms(new, id, Range(db.nodes[id].text))
           \/ \E s, t \in DOMAIN db.nodes : db' = InsertEdge(db, [type |-> "R", s |-> s, t |-> t])
           \/ \E id \in DOMAIN db.nodes : db' = DetachDelete(db, id)
           \/ \E c \in Commands : db' = CreateSchema(db, c.name, c.ifNotExists, c.def).db
           \/ \E c \in Drops : db' = DropSchema(db, c.name, c.constraint, c.ifExists).db
<1>1. CASE CreateNode
  BY <1>1 DEF CreateNode, Ran
<1>2. CASE SetVal
  BY <1>2 DEF SetVal, Ran
<1>3. CASE CreateRel
  BY <1>3 DEF CreateRel, Ran, Done
<1>4. CASE DeleteNode
  BY <1>4 DEF DeleteNode, Ran, Done
<1>5. CASE Create
  BY <1>5 DEF Create, Ran
<1>6. CASE DropDef
  BY <1>6 DEF DropDef, Ran
<1>7. CASE BeginExport \/ ExportEdges \/ ExportSchema
  BY <1>7 DEF BeginExport, ExportEdges, ExportSchema
<1>8. CASE ImportExported \/ ImportNodeFile \/ ImportEdgeFile \/ ImportDocument
  BY <1>8 DEF ImportExported, ImportNodeFile, ImportEdgeFile, ImportDocument, Took
<1>9. CASE UNCHANGED vars
  BY <1>9 DEF vars
<1> QED
  BY <1>1, <1>2, <1>3, <1>4, <1>5, <1>6, <1>7, <1>8, <1>9 DEF Next

Whole(d) == IsFile(d) /\ Catalogued(d) /\ Attached(d)

\* An empty database is whole.
LEMMA InitWhole == Init => Whole(db)
<1> SUFFICES ASSUME db = NoFile PROVE Whole(db)
  BY DEF Init
<1>1. IsFile(db)
  BY DEF NoFile, IsFile, Fields, IsFunction
<1>2. Catalogued(db)
  BY DEF NoFile, Catalogued, ShowIndexes, ShowConstraints
<1> QED
  BY <1>1, <1>2 DEF Whole, Attached, NoFile

\* Every statement keeps the database whole.
LEMMA WholeStep == Whole(db) /\ [Next]_vars => Whole(db')
<1> SUFFICES ASSUME IsFile(db), Catalogued(db), Attached(db), [Next]_vars
             PROVE  IsFile(db') /\ Catalogued(db') /\ Attached(db')
  BY DEF Whole
<1>1. CASE db' = db
  BY <1>1
<1>2. ASSUME NEW labels \in LabelLists, NEW v \in Vals, db' = InsertNode(db, Node(labels, v))
      PROVE  IsFile(db') /\ Catalogued(db') /\ Attached(db')
  <2>1. /\ IsFile(db') /\ db'.edges = db.edges /\ db'.defs = db.defs /\ db'.backing = db.backing
        /\ DOMAIN db.nodes \subseteq DOMAIN db'.nodes
    BY <1>2, InsertNodeGives
  <2> QED
    BY <2>1, CatalogKept DEF Attached
<1>3. ASSUME NEW id \in DOMAIN db.nodes, NEW v \in Vals, db' = [db EXCEPT !.nodes[id].val = v]
      PROVE  IsFile(db') /\ Catalogued(db') /\ Attached(db')
  <2>1. /\ IsFile(db') /\ db'.edges = db.edges /\ db'.defs = db.defs /\ db'.backing = db.backing
        /\ DOMAIN db.nodes = DOMAIN db'.nodes
    BY <1>3, SetGives
  <2> QED
    BY <2>1, CatalogKept DEF Attached
<1>4. ASSUME NEW s \in DOMAIN db.nodes, NEW t \in DOMAIN db.nodes,
             db' = InsertEdge(db, [type |-> "R", s |-> s, t |-> t])
      PROVE  IsFile(db') /\ Catalogued(db') /\ Attached(db')
  <2>1. /\ IsFile(db') /\ db'.nodes = db.nodes /\ db'.defs = db.defs /\ db'.backing = db.backing
        /\ DOMAIN db'.edges = DOMAIN db.edges \cup {db'.last.edges}
        /\ db'.edges[db'.last.edges] = [type |-> "R", s |-> s, t |-> t]
        /\ \A e \in DOMAIN db.edges : db'.edges[e] = db.edges[e]
    BY <1>4, InsertEdgeGives
  <2>2. Attached(db')
    BY <2>1 DEF Attached
  <2> QED
    BY <2>1, <2>2, CatalogKept
<1>5. ASSUME NEW id \in DOMAIN db.nodes, db' = DetachDelete(db, id)
      PROVE  IsFile(db') /\ Catalogued(db') /\ Attached(db')
  <2>1. /\ IsFile(db') /\ db'.defs = db.defs /\ db'.backing = db.backing
        /\ DOMAIN db'.nodes = DOMAIN db.nodes \ {id}
        /\ DOMAIN db'.edges = {e \in DOMAIN db.edges : db.edges[e].s # id /\ db.edges[e].t # id}
        /\ \A e \in DOMAIN db'.edges : db'.edges[e] = db.edges[e]
    BY <1>5, DeleteGives
  <2>2. Attached(db')
    BY <2>1 DEF Attached
  <2> QED
    BY <2>1, <2>2, CatalogKept
<1>6. ASSUME NEW c \in Commands, db' = CreateSchema(db, c.name, c.ifNotExists, c.def).db
      PROVE  IsFile(db') /\ Catalogued(db') /\ Attached(db')
  <2>1. IsDefinition(c.def)
    BY CommandAssumption
  <2>2. /\ IsFile(db') /\ Catalogued(db')
        /\ db'.nodes = db.nodes /\ db'.edges = db.edges
    BY <1>6, <2>1, CreateKeeps DEF Defines
  <2> QED
    BY <2>2 DEF Attached
<1>7. ASSUME NEW c \in Drops, db' = DropSchema(db, c.name, c.constraint, c.ifExists).db
      PROVE  IsFile(db') /\ Catalogued(db') /\ Attached(db')
  <2>1. /\ IsFile(db') /\ Catalogued(db')
        /\ db'.nodes = db.nodes /\ db'.edges = db.edges
    BY <1>7, DropKeeps
  <2> QED
    BY <2>1 DEF Attached
<1> QED
  BY <1>1, <1>2, <1>3, <1>4, <1>5, <1>6, <1>7, StatementCases

\* The database stays whole.
LEMMA WholeHolds == Spec => []Whole(db)
<1>1. Init => Whole(db)
  BY InitWhole
<1>2. Whole(db) /\ [Next]_vars => Whole(db)'
  BY WholeStep
<1> QED
  BY <1>1, <1>2, PTL DEF Spec

\* However CREATE and DROP follow each other, fail and repeat, a SQLite index exists
\* for exactly the definitions that need one, no two definitions share a name or
\* a rule, and SHOW lists them all.
THEOREM CatalogStays == Spec => []Catalogued(db)
<1>1. Whole(db) => Catalogued(db)
  BY DEF Whole
<1> QED
  BY <1>1, WholeHolds, PTL

\* No statement leaves an edge without one of its nodes for an export to list.
THEOREM EdgesStayAttached == Spec => []Attached(db)
<1>1. Whole(db) => Attached(db)
  BY DEF Whole
<1> QED
  BY <1>1, WholeHolds, PTL

-----------------------------------------------------------------------------
(* The constraints.  createNode checks the labels it was given and SET the *)
(* labels it decodes, while validation goes by node_labels.  The three     *)
(* agree on a label that no comma takes apart.                             *)

\* A label some constraint is on is read back wherever it was written.
TargetsReadBack ==
    \A c \in Commands, labels \in LabelLists :
        c.def.target \in Range(labels) => c.def.target \in Range(Reread(labels))

\* Nodes and definitions are those of statements.
Stated(d) ==
    /\ \A id \in DOMAIN d.nodes : \E labels \in LabelLists :
          d.nodes[id].text = Reread(labels) /\ d.nodes[id].indexed = Range(labels)
    /\ \A i \in DOMAIN d.defs : \E c \in Commands : d.defs[i].target = c.def.target

\* It does not matter which of two values findDuplicate starts from.
LEMMA SameValueSymmetric == \A a, b : SameValue(a, b) => SameValue(b, a)
  BY DEF SameValue, SameNumber

\* Validation asks nothing of a definition's name.
LEMMA NameIsNothing ==
    ASSUME NEW d, NEW def, NEW e, e.kind = def.kind, e.target = def.target, e.type = def.type, Validates(d, def)
    PROVE  Validates(d, e)
  BY DEF Validates, CheckOne, Unique

\* Checking the nodes that were written does for the whole database: for a pair of
\* duplicates, one of the two is among them.
LEMMA ChecksDo ==
    ASSUME NEW d, NEW new, NEW def, Validates(d, def), NEW written,
           DOMAIN new.nodes = DOMAIN d.nodes \cup written,
           \A x \in DOMAIN d.nodes \ written : new.nodes[x] = d.nodes[x],
           \A id \in written : def.target \in new.nodes[id].indexed =>
               /\ CheckOne(def, new.nodes[id].val)
               /\ Unique(def) => ~Duplicated(new, def, id, new.nodes[id].val)
    PROVE  Validates(new, def)
<1> SUFFICES ASSUME NEW x \in DOMAIN new.nodes, def.target \in new.nodes[x].indexed
             PROVE  /\ CheckOne(def, new.nodes[x].val)
                    /\ Unique(def) => \A y \in DOMAIN new.nodes \ {x} :
                          def.target \in new.nodes[y].indexed => ~SameValue(new.nodes[x].val, new.nodes[y].val)
  BY DEF Validates
<1>1. CASE x \in written
  BY <1>1 DEF Duplicated
<1>2. CASE x \notin written
  <2>1. x \in DOMAIN d.nodes /\ new.nodes[x] = d.nodes[x]
    BY <1>2
  <2>2. CheckOne(def, new.nodes[x].val)
    BY <2>1 DEF Validates
  <2>3. ASSUME Unique(def), NEW y \in DOMAIN new.nodes \ {x}, def.target \in new.nodes[y].indexed
        PROVE  ~SameValue(new.nodes[x].val, new.nodes[y].val)
    <3>1. CASE y \in written
      <4>1. ~SameValue(new.nodes[y].val, new.nodes[x].val)
        BY <2>3, <3>1 DEF Duplicated
      <4> QED
        BY <4>1, SameValueSymmetric
    <3>2. CASE y \notin written
      <4>1. y \in DOMAIN d.nodes /\ new.nodes[y] = d.nodes[y]
        BY <3>2
      <4> QED
        BY <2>1, <2>3, <4>1 DEF Validates
    <3> QED
      BY <3>1, <3>2
  <2> QED
    BY <2>2, <2>3
<1> QED
  BY <1>1, <1>2

\* So does checking the one node a statement wrote.
LEMMA OneCheckDoes ==
    ASSUME NEW d, NEW new, NEW def, Validates(d, def), NEW id,
           DOMAIN new.nodes = DOMAIN d.nodes \cup {id},
           \A x \in DOMAIN d.nodes : x # id => new.nodes[x] = d.nodes[x],
           def.target \in new.nodes[id].indexed =>
               /\ CheckOne(def, new.nodes[id].val)
               /\ Unique(def) => ~Duplicated(new, def, id, new.nodes[id].val)
    PROVE  Validates(new, def)
<1> DEFINE written == {id}
<1>1. DOMAIN new.nodes = DOMAIN d.nodes \cup written
  OBVIOUS
<1>2. \A x \in DOMAIN d.nodes \ written : new.nodes[x] = d.nodes[x]
  OBVIOUS
<1>3. \A x \in written : def.target \in new.nodes[x].indexed =>
          /\ CheckOne(def, new.nodes[x].val)
          /\ Unique(def) => ~Duplicated(new, def, x, new.nodes[x].val)
  OBVIOUS
<1> HIDE DEF written
<1> QED
  BY <1>1, <1>2, <1>3, ChecksDo

\* Making a definition breaks no constraint, and puts none on another label.
LEMMA DefineObeys ==
    ASSUME NEW d, NEW e, NEW name, NEW def, IsDefinition(def), Defines(d, e, name, def), Obeys(d)
    PROVE  /\ Obeys(e)
           /\ \A i \in DOMAIN e.defs : e.defs[i].target = def.target \/ \E j \in DOMAIN d.defs : e.defs[i] = d.defs[j]
<1>1. e.nodes = d.nodes
  BY DEF Defines
<1>2. CASE e.defs = d.defs
  BY <1>1, <1>2 DEF Obeys, Validates
<1>3. CASE e.defs # d.defs
  <2>1. PICK id : /\ def.constraint => Validates(d, def)
                  /\ id \notin DOMAIN d.defs
                  /\ e.defs = Put(d.defs, id, [def EXCEPT !.name = NameFor(name, def, id)])
    BY <1>3 DEF Defines
  <2> DEFINE named == [def EXCEPT !.name = NameFor(name, def, id)]
  <2>2. /\ named.constraint = def.constraint /\ named.kind = def.kind
        /\ named.target = def.target /\ named.type = def.type
    BY DEF IsDefinition
  <2> HIDE DEF named
  <2>3. /\ DOMAIN e.defs = DOMAIN d.defs \cup {id} /\ e.defs[id] = named
        /\ \A i \in DOMAIN d.defs : e.defs[i] = d.defs[i]
    BY <2>1 DEF Put, named
  <2>4. named.constraint => Validates(d, named)
    BY <2>1, <2>2, NameIsNothing
  <2>5. \A i \in DOMAIN e.defs : e.defs[i].constraint => Validates(d, e.defs[i])
    BY <2>3, <2>4 DEF Obeys
  <2>6. Obeys(e)
    BY <1>1, <2>5 DEF Obeys, Validates
  <2> QED
    BY <2>2, <2>3, <2>6
<1> QED
  BY <1>2, <1>3

\* Fewer nodes break no constraint.
LEMMA FewerNodes ==
    ASSUME NEW d, NEW new, NEW def, Validates(d, def), DOMAIN new.nodes \subseteq DOMAIN d.nodes,
           \A x \in DOMAIN new.nodes : new.nodes[x] = d.nodes[x]
    PROVE  Validates(new, def)
  BY DEF Validates

Lawful(d) == Obeys(d) /\ Stated(d)

\* Every statement keeps to every constraint.
LEMMA LawfulStep ==
    ASSUME TargetsReadBack, Whole(db), Lawful(db), [Next]_vars
    PROVE  Lawful(db')
<1> USE DEF Lawful
<1>0. IsFile(db) /\ Catalogued(db)
  BY DEF Whole
<1>1. CASE db' = db
  BY <1>1
<1>2. ASSUME NEW labels \in LabelLists, NEW v \in Vals, db' = InsertNode(db, Node(labels, v)),
             Conforms(db', db'.last.nodes, Range(labels))
      PROVE  Lawful(db')
  <2> DEFINE id == db'.last.nodes
  <2>1. /\ db'.defs = db.defs /\ id \notin DOMAIN db.nodes
        /\ DOMAIN db'.nodes = DOMAIN db.nodes \cup {id} /\ db'.nodes[id] = Node(labels, v)
        /\ \A x \in DOMAIN db.nodes : db'.nodes[x] = db.nodes[x]
    BY <1>0, <1>2, InsertNodeGives
  <2>2. db'.nodes[id].text = Reread(labels) /\ db'.nodes[id].indexed = Range(labels)
    BY <2>1 DEF Node
  <2>3. Stated(db')
    BY <2>1, <2>2 DEF Stated
  <2>4. ASSUME NEW i \in DOMAIN db.defs, db.defs[i].constraint PROVE Validates(db', db.defs[i])
    <3>1. Validates(db, db.defs[i])
      BY <2>4 DEF Obeys
    <3>2. db.defs[i].target \in db'.nodes[id].indexed =>
              /\ CheckOne(db.defs[i], db'.nodes[id].val)
              /\ Unique(db.defs[i]) => ~Duplicated(db', db.defs[i], id, db'.nodes[id].val)
      BY <1>2, <2>1, <2>2, <2>4 DEF Conforms
    <3> QED
      BY <2>1, <3>1, <3>2, OneCheckDoes
  <2> QED
    BY <2>1, <2>3, <2>4 DEF Obeys
<1>3. ASSUME NEW id \in DOMAIN db.nodes, NEW v \in Vals, db' = [db EXCEPT !.nodes[id].val = v],
             Conforms(db', id, Range(db.nodes[id].text))
      PROVE  Lawful(db')
  <2>1. /\ db'.defs = db.defs /\ DOMAIN db'.nodes = DOMAIN db.nodes
        /\ db'.nodes[id].text = db.nodes[id].text /\ db'.nodes[id].indexed = db.nodes[id].indexed
        /\ \A x \in DOMAIN db.nodes : x # id => db'.nodes[x] = db.nodes[x]
    BY <1>0, <1>3, SetGives
  <2>2. Stated(db')
    BY <2>1 DEF Stated
  <2>3. ASSUME NEW i \in DOMAIN db.defs, db.defs[i].constraint PROVE Validates(db', db.defs[i])
    <3>1. Validates(db, db.defs[i])
      BY <2>3 DEF Obeys
    <3>2. db.defs[i].target \in db.nodes[id].indexed => db.defs[i].target \in Range(db.nodes[id].text)
      BY DEF Stated, TargetsReadBack
    <3>3. db.defs[i].target \in db'.nodes[id].indexed =>
              /\ CheckOne(db.defs[i], db'.nodes[id].val)
              /\ Unique(db.defs[i]) => ~Duplicated(db', db.defs[i], id, db'.nodes[id].val)
      BY <1>3, <2>1, <2>3, <3>2 DEF Conforms
    <3>4. DOMAIN db'.nodes = DOMAIN db.nodes \cup {id}
      BY <2>1
    <3> QED
      BY <2>1, <3>1, <3>3, <3>4, OneCheckDoes
  <2> QED
    BY <2>1, <2>2, <2>3 DEF Obeys
<1>4. ASSUME NEW s \in DOMAIN db.nodes, NEW t \in DOMAIN db.nodes,
             db' = InsertEdge(db, [type |-> "R", s |-> s, t |-> t])
      PROVE  Lawful(db')
  <2>1. db'.nodes = db.nodes /\ db'.defs = db.defs
    BY <1>0, <1>4, InsertEdgeGives
  <2> QED
    BY <2>1 DEF Obeys, Stated, Validates
<1>5. ASSUME NEW id \in DOMAIN db.nodes, db' = DetachDelete(db, id)
      PROVE  Lawful(db')
  <2>1. /\ db'.defs = db.defs /\ DOMAIN db'.nodes \subseteq DOMAIN db.nodes
        /\ \A x \in DOMAIN db'.nodes : db'.nodes[x] = db.nodes[x]
    BY <1>0, <1>5, DeleteGives
  <2>2. \A i \in DOMAIN db.defs : db.defs[i].constraint => Validates(db', db.defs[i])
    BY <2>1, FewerNodes DEF Obeys
  <2> QED
    BY <2>1, <2>2 DEF Obeys, Stated
<1>6. ASSUME NEW c \in Commands, db' = CreateSchema(db, c.name, c.ifNotExists, c.def).db
      PROVE  Lawful(db')
  <2>1. IsDefinition(c.def)
    BY CommandAssumption
  <2>2. Defines(db, db', c.name, c.def)
    BY <1>0, <1>6, <2>1, CreateKeeps
  <2>3. /\ Obeys(db')
        /\ \A i \in DOMAIN db'.defs :
              db'.defs[i].target = c.def.target \/ \E j \in DOMAIN db.defs : db'.defs[i] = db.defs[j]
    BY <2>1, <2>2, DefineObeys
  <2>4. db'.nodes = db.nodes
    BY <2>2 DEF Defines
  <2> QED
    BY <2>3, <2>4 DEF Stated
<1>7. ASSUME NEW c \in Drops, db' = DropSchema(db, c.name, c.constraint, c.ifExists).db
      PROVE  Lawful(db')
  <2>1. /\ db'.nodes = db.nodes /\ DOMAIN db'.defs \subseteq DOMAIN db.defs
        /\ \A i \in DOMAIN db'.defs : db'.defs[i] = db.defs[i]
    BY <1>0, <1>7, DropKeeps
  <2> QED
    BY <2>1 DEF Obeys, Stated, Validates
<1> QED
  BY <1>1, <1>2, <1>3, <1>4, <1>5, <1>6, <1>7, StatementCases

\* Whatever order data and constraints come in, and whichever of them is dropped
\* and created again, every constraint holds of all the nodes its label finds, as
\* long as the label is read back the way it was written.
THEOREM StatementsObey == TargetsReadBack /\ Spec => []Obeys(db)
<1> SUFFICES ASSUME TargetsReadBack PROVE Spec => []Obeys(db)
  OBVIOUS
<1>1. Init => Lawful(db)
  BY DEF Init, NoFile, Lawful, Obeys, Stated
<1>2. Whole(db) /\ Lawful(db) /\ [Next]_vars => Lawful(db)'
  BY LawfulStep
<1>3. Lawful(db) => Obeys(db)
  BY DEF Lawful
<1> QED
  BY <1>1, <1>2, <1>3, WholeHolds, PTL DEF Spec
=============================================================================
