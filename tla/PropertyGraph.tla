---------------------------- MODULE PropertyGraph -----------------------------
(***************************************************************************)
(* What a committed database promises, whatever statements produced it:    *)
(* a property graph without dangling relationships in which every schema   *)
(* constraint holds, where a relationship keeps its type and its ends for  *)
(* life and the id of a deleted entity never names another one.            *)
(*                                                                         *)
(* One property key stands for them all.  A relationship's type is the one *)
(* element of its label set, as in checkConstraints.                       *)
(***************************************************************************)
EXTENDS FiniteSets

CONSTANTS Nodes, Rels,      \* ids nodes and relationships may get
          Labels, Types,    \* node labels and relationship types
          Values,           \* property values
          Null,             \* "no such property"
          NoRow, NoEnds,
          WellTyped         \* the values a TYPE constraint accepts

Entities == Nodes \cup Rels
Row == [labels: SUBSET (Labels \cup Types), prop: Values \cup {Null}]
Constraint == [kind: {"UNIQUENESS", "KEY", "EXISTENCE", "TYPE"}, target: Labels \cup Types]

VARIABLES row,      \* row[e]: the labels and the property of entity e, or NoRow
          ends,     \* ends[r]: start and end of relationship r, or NoEnds
          cons,     \* the constraints in force
          used      \* ids handed out so far

vars == <<row, ends, cons, used>>

Covered(c, rows) == {e \in Entities : rows[e] # NoRow /\ c.target \in rows[e].labels}

Satisfies(c, rows) ==
    LET props == [e \in Covered(c, rows) |-> rows[e].prop]
    IN  /\ c.kind \in {"EXISTENCE", "KEY"} => \A e \in DOMAIN props : props[e] # Null
        /\ c.kind = "TYPE" => \A e \in DOMAIN props : props[e] \in WellTyped \cup {Null}
        /\ c.kind \in {"UNIQUENESS", "KEY"} =>
              \A e, f \in DOMAIN props : props[e] = props[f] /\ props[e] # Null => e = f

Connected(rows, es) ==
    \A r \in Rels : IF rows[r] = NoRow THEN es[r] = NoEnds
                    ELSE \A i \in {1, 2} : es[r][i] \in Nodes /\ rows[es[r][i]] # NoRow

Valid(rows, es, cs) == Connected(rows, es) /\ \A c \in cs : Satisfies(c, rows)

Init ==
    /\ row = [e \in Entities |-> NoRow]
    /\ ends = [r \in Rels |-> NoEnds]
    /\ cons = {} /\ used = {}

\* A transaction commits.
Next ==
    /\ Valid(row', ends', cons')
    /\ used \subseteq used'
    /\ \A e \in Entities :
        /\ row'[e] # NoRow => e \in used'
        /\ row[e] = NoRow /\ row'[e] # NoRow => e \notin used
    /\ \A r \in Rels : row[r] # NoRow /\ row'[r] # NoRow =>
        ends'[r] = ends[r] /\ row'[r].labels = row[r].labels

Spec == Init /\ [][Next]_vars
=============================================================================
