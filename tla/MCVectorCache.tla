---------------------------- MODULE MCVectorCache ----------------------------
(* VectorCache for TLC: model values and symmetry.  The cfg files choose the   *)
(* mode (one connection or a read pool), who writes, and the budget.           *)
EXTENDS VectorCache, TLC

\* Clients that write and clients that only read are told apart by the cfg; among
\* themselves they are interchangeable, and so are nodes, vectors and index ids.
Symmetry ==
    Permutations(Nodes) \cup Permutations(Vecs) \cup Permutations(Indexes)
        \cup Permutations(Writers) \cup Permutations(Clients \ Writers)
==============================================================================
