--------------------------- MODULE MCStatementCache ---------------------------
(* StatementCache for TLC: q1 calls p1, q2 calls both procedures, q3 calls none. *)
EXTENDS StatementCache, TLC

CONSTANTS p1, p2, q1, q2, q3

MCCalls == [q \in Statements |-> IF q = q1 THEN {p1} ELSE IF q = q2 THEN {p1, p2} ELSE {}]

Symmetry == Permutations(Clients)
=============================================================================
