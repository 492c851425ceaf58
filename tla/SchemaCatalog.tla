---------------------------- MODULE SchemaCatalog ----------------------------
(***************************************************************************)
(* The schema catalog (cypher/interp/schema.go, show.go): definitions of   *)
(* indexes and constraints, the names they get, the SQLite indexes behind  *)
(* them, and the checks that hold data to them.                            *)
(*                                                                         *)
(* A database is [nodes, edges, defs, backing, last]: rows by id, the      *)
(* definitions by id, the ids whose SQLite index exists and the last ids   *)
(* handed out (AUTOINCREMENT).  One property stands for them all.  A node  *)
(* is [text, indexed, val]: the labels as the labels column decodes, the   *)
(* labels in node_labels, and the property or Null.  A definition is       *)
(* [name, constraint, kind, target, type].  An operation gives             *)
(* [ok, db]; one that is not ok is rolled back.                            *)
(*                                                                         *)
(* Values are <<type, content>>; a float counts halves, so 1.0 is          *)
(* <<"float", 2>>.  A name is <<stem, number>>; NoName asks for one.       *)
(***************************************************************************)
EXTENDS Integers, Sequences, SequencesExt, FiniteSets

CONSTANTS
    Null,       \* no such property
    Parts       \* Parts[l]: the labels l is read back as (split at commas)

NoName == <<"none", 0>>
NoFile == [nodes |-> <<>>, edges |-> <<>>, defs |-> <<>>, backing |-> {},
           last |-> [nodes |-> 0, edges |-> 0, defs |-> 0]]

IsDefinition(d) ==
    /\ d = [name |-> d.name, constraint |-> d.constraint, kind |-> d.kind, target |-> d.target, type |-> d.type]
    /\ d.constraint \in BOOLEAN

Done(db) == [ok |-> TRUE, db |-> db]
Refused(db) == [ok |-> FALSE, db |-> db]

Put(f, k, v) == [x \in DOMAIN f \cup {k} |-> IF x = k THEN v ELSE f[x]]
Drop(f, ks) == [x \in DOMAIN f \ ks |-> f[x]]
\* The ids of S from the lowest up: the k-th has k of S up to it.
InOrder(S) == [k \in 1..Cardinality(S) |-> CHOOSE id \in S : Cardinality({x \in S : x <= id}) = k]

\* Labels.Encode, then DecodeLabels
Reread(labels) == FlattenSeq([i \in DOMAIN labels |-> Parts[labels[i]]])

-----------------------------------------------------------------------------
(* Checks.                                                                 *)

SameNumber(a, b) ==
    LET halves(v) == IF v[1] = "int" THEN 2 * v[2] ELSE v[2]
    IN  a[1] \in {"int", "float"} /\ b[1] \in {"int", "float"} /\ halves(a) = halves(b)
SameValue(a, b) == a # Null /\ b # Null /\ (SameNumber(a, b) \/ (a[1] = "string" /\ a = b))

\* checkOne
CheckOne(d, val) ==
    CASE d.kind \in {"EXISTENCE", "KEY"} -> val # Null
      [] d.kind = "TYPE"                 -> val = Null \/ val[1] = d.type
      [] OTHER                           -> TRUE

Unique(d) == d.kind \in {"UNIQUENESS", "KEY"}

\* findDuplicate: another node node_labels has under the target
Duplicated(db, d, id, val) ==
    \E other \in DOMAIN db.nodes \ {id} : d.target \in db.nodes[other].indexed /\ SameValue(val, db.nodes[other].val)

\* checkConstraints and checkVectorIndexes for one node, under the labels held in memory
Conforms(db, id, labels) ==
    \A i \in DOMAIN db.defs :
        LET d   == db.defs[i]
            val == db.nodes[id].val
        IN  d.target \in labels =>
                /\ d.constraint => CheckOne(d, val) /\ (Unique(d) => ~Duplicated(db, d, id, val))
                /\ d.kind = "VECTOR" => val = Null \/ val[1] = "vector"

\* validateExisting
Validates(db, d) ==
    LET scanned == {id \in DOMAIN db.nodes : d.target \in db.nodes[id].indexed}
    IN  \A id \in scanned :
            /\ CheckOne(d, db.nodes[id].val)
            /\ Unique(d) => \A other \in scanned \ {id} : ~SameValue(db.nodes[id].val, db.nodes[other].val)

-----------------------------------------------------------------------------
(* CREATE and DROP.                                                        *)

Backed(d) == d.kind \in {"RANGE", "TEXT", "UNIQUENESS", "KEY"}
SameRule(d, e) == d.constraint = e.constraint /\ d.kind = e.kind /\ d.target = e.target

\* addSchema's generated name
Generated(d, id) == <<IF d.constraint THEN "constraint" ELSE "index", id>>

\* A name that begins with "pending" is replaced as one that was never given.
NameFor(name, d, id) == IF name[1] \in {"none", "pending"} THEN Generated(d, id) ELSE name

AddSchema(db, name, ifNotExists, d) ==
    LET id    == db.last.defs + 1
        named == [d EXCEPT !.name = NameFor(name, d, id)]
    IN  IF \E i \in DOMAIN db.defs : db.defs[i].name = name \/ SameRule(db.defs[i], d)
        THEN [ok |-> ifNotExists, db |-> db]
        ELSE IF \E i \in DOMAIN db.defs : db.defs[i].name = named.name THEN Refused(db)    \* UNIQUE (name)
        ELSE Done([db EXCEPT !.defs = Put(@, id, named),
                             !.last.defs = id,
                             !.backing = IF Backed(d) THEN @ \cup {id} ELSE @])

\* execCreateIndex, execCreateConstraint: a constraint is validated before anything else.
CreateSchema(db, name, ifNotExists, d) ==
    IF d.constraint /\ ~Validates(db, d) THEN Refused(db) ELSE AddSchema(db, name, ifNotExists, d)

\* Mutant: the SQLite index of a dropped definition stays.
DropSchemaOnly(db, name, constraint, ifExists) ==
    LET hit == {i \in DOMAIN db.defs : db.defs[i].name = name}
    IN  IF hit = {} THEN [ok |-> ifExists, db |-> db] ELSE Done([db EXCEPT !.defs = Drop(@, hit)])

\* execDropSchema
DropSchema(db, name, constraint, ifExists) ==
    LET hit == {i \in DOMAIN db.defs : db.defs[i].name = name}
    IN  IF hit = {} THEN [ok |-> ifExists, db |-> db]
        ELSE IF \E i \in hit : db.defs[i].constraint # constraint THEN Refused(db)
        ELSE Done([db EXCEPT !.defs = Drop(@, hit), !.backing = @ \ hit])

-----------------------------------------------------------------------------
(* SHOW, and the statements an export carries.                             *)

\* showIndexes: [name, kind, owner] of each definition that is or owns an index
ShowIndexes(db) ==
    {[name |-> db.defs[i].name, kind |-> IF db.defs[i].constraint THEN "RANGE" ELSE db.defs[i].kind,
      owner |-> IF db.defs[i].constraint THEN db.defs[i].name ELSE NoName] :
         i \in {j \in DOMAIN db.defs : ~db.defs[j].constraint \/ Unique(db.defs[j])}}
\* showConstraints
ShowConstraints(db) ==
    {[name |-> db.defs[i].name, kind |-> db.defs[i].kind, owned |-> IF Unique(db.defs[i]) THEN db.defs[i].name ELSE NoName] :
         i \in {j \in DOMAIN db.defs : db.defs[j].constraint}}

\* SchemaStatements: CREATE ... IF NOT EXISTS in creation order; a full-text index
\* is left out.
SchemaStatements(db) ==
    LET ids == InOrder({i \in DOMAIN db.defs : db.defs[i].kind \notin {"FULLTEXT", "LOOKUP"}})
    IN  [k \in DOMAIN ids |-> db.defs[ids[k]]]
=============================================================================
