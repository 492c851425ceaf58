--------------------------- MODULE MCGraphStatement ---------------------------
(* GraphStatement for TLC: one node label L and one relationship type T, and a *)
(* value "yes" (the boolean true) that json_extract returns as the number 1.   *)
EXTENDS GraphStatement, TLC

CONSTANTS n1, n2, r1, one, yes, L, T

MCSqlForm == [v \in Values |-> one]
MCScalars == {one}

Key == [kind |-> "KEY", target |-> L]
Typed == [kind |-> "TYPE", target |-> L]
Required == [kind |-> "EXISTENCE", target |-> T]

\* RunQuery over nodes, RunQuery over relationships, and transactions of several
\* statements.
NodeScope == [mode |-> "auto", nodes |-> {n1, n2}, rels |-> {}, labels |-> {L},
              values |-> {one, yes}, schema |-> {Key, Typed}]
RelScope == [mode |-> "auto", nodes |-> {n1, n2}, rels |-> {r1}, labels |-> {},
             values |-> {one}, schema |-> {Required}]
TxScope == [mode |-> "tx", nodes |-> {n1}, rels |-> {r1}, labels |-> {L},
            values |-> {one}, schema |-> {Key}]

AllScopes == {NodeScope, RelScope, TxScope}
OnlyTx == {TxScope}
UniqueNodes == {[NodeScope EXCEPT !.schema = {[kind |-> "UNIQUENESS", target |-> L]}]}

Symmetry == Permutations({n1, n2})
=============================================================================
