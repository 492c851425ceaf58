--------------------------- MODULE MCImportExport ---------------------------
\* Small instances of ImportExport.  "PQ" is a label with a comma in it, read back
\* as P and Q.
EXTENDS ImportExport

MCParts == [P |-> <<"P">>, Q |-> <<"Q">>, PQ |-> <<"P", "Q">>]
MCLabelLists == {<<"P">>, <<"PQ">>}
MCPlainLabels == {<<"P">>}
MCVals == {Null, <<"int", 1>>, <<"float", 2>>, <<"float", 3>>}

Index(kind) == [name |-> NoName, constraint |-> FALSE, kind |-> kind, target |-> "P", type |-> ""]
Rule(kind) == [name |-> NoName, constraint |-> TRUE, kind |-> kind, target |-> "P", type |-> IF kind = "TYPE" THEN "float" ELSE ""]
As(name, n, ifNotExists, def) == [name |-> <<name, n>>, ifNotExists |-> ifNotExists, def |-> def]
MCCommands ==
    {As("none", 0, FALSE, Rule("UNIQUENESS")), As("mine", 1, TRUE, Rule("TYPE")), As("mine", 1, TRUE, Rule("KEY")),
     As("none", 0, TRUE, Index("RANGE")), As("pending", 1, FALSE, Index("VECTOR")), As("index", 2, FALSE, Index("FULLTEXT"))}
MCDrops ==
    {[name |-> n, constraint |-> c, ifExists |-> FALSE] : n \in {<<"mine", 1>>, <<"index", 1>>}, c \in BOOLEAN}

At(id, labels, v) == [id |-> id, labels |-> labels, val |-> v]
Edge(s, t) == [type |-> "R", s |-> s, t |-> t]
Doc(nodes, edges, schema) == [nodes |-> nodes, edges |-> edges, schema |-> schema]
MCDocuments ==
    {Doc(<<At(1, <<"P">>, <<"int", 1>>), At(2, <<"Q", "P">>, Null)>>, <<Edge(2, 1)>>, <<[Rule("UNIQUENESS") EXCEPT !.name = <<"mine", 1>>]>>),
     Doc(<<At(3, <<"P">>, <<"float", 2>>), At(0, <<"PQ">>, <<"int", 1>>)>>, <<Edge(3, 3)>>, <<>>),
     Doc(<<At(1, <<"Q">>, Null), At(1, <<"Q">>, Null)>>, <<>>, <<>>),
     Doc(<<At(1, <<"Q">>, <<"int", 1>>)>>, <<Edge(1, 2)>>, <<Rule("KEY")>>)}

\* Statements after a finished export run as they do without one: those are explored
\* where nothing was exported.
ExportIsLast == export.phase = "done" => UNCHANGED db
=============================================================================
