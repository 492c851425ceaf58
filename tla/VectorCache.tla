----------------------------- MODULE VectorCache -----------------------------
(***************************************************************************)
(* The shared in-memory vector matrices of the interpreter's Engine        *)
(* (cypher/interp/vecindex.go) and everything that fills, changes or       *)
(* invalidates them: read statements on the read pool or on the single     *)
(* connection, auto-commit writes, explicit transactions, vector index     *)
(* DDL and the bulk importer.                                              *)
(*                                                                         *)
(* A matrix caches, for one vector index, the vector of every node the     *)
(* index covers.  A reader fills it in three steps (look up, build from    *)
(* its own snapshot, install); a writer changes it in two (commit, then    *)
(* apply the deltas).  The database lock and the matrix lock (vecMu) are   *)
(* not held together, so the steps of different clients interleave.        *)
(*                                                                         *)
(* What is abstracted: a vector is a member of Vecs, and NoVec stands for  *)
(* every reason a node is not in an index (no such node, no label, no      *)
(* vector of the right dimension, a zero vector under cosine).  A batch    *)
(* of deltas is a function, since a later delta for a node overrides an    *)
(* earlier one.  The memory of a matrix is its number of rows.             *)
(***************************************************************************)
EXTENDS Naturals, FiniteSets

CONSTANTS
    Clients,            \* goroutines using one DB handle
    Writers,            \* those of them that write, change the schema or import
    Nodes, Vecs,        \* node ids and vectors
    Indexes,            \* schema ids (AUTOINCREMENT) a vector index may get
    NoVec, Unset,       \* "not in the index"; "this batch has no such delta"
    NoView, NoMatrix, NoBuild, Nobody,
    HasReadPool,        \* file-backed database with a read pool, or one connection
    CommitAfterError,   \* may the application commit a Tx after a failed Run?
    Budget,             \* vectorCacheBytes, in rows
    MaxEpoch            \* bound: no update begins once epoch has reached it

Values == Vecs \cup {NoVec}
Matrix == [Nodes -> Values]
Database == [defs: SUBSET Indexes, used: SUBSET Indexes, vec: [Indexes -> Matrix]]
Batch == [Indexes -> [Nodes -> Values \cup {Unset}]]
Kinds == {"none", "read", "write", "schema", "tx", "broken", "import"}
EmptyBatch == [ix \in Indexes |-> [n \in Nodes |-> Unset]]

ASSUME ConstantsAssumption ==
    /\ Writers \subseteq Clients
    /\ NoVec \notin Vecs /\ Unset \notin Values
    /\ Nobody \notin Clients
    /\ NoView \notin Database /\ NoMatrix \notin Matrix
    /\ NoBuild \notin [index: Indexes, epoch: Nat]
    /\ HasReadPool \in BOOLEAN /\ CommitAfterError \in BOOLEAN
    /\ Budget \in Nat /\ MaxEpoch \in Nat

VARIABLES
    db,         \* the committed database
    conn,       \* the client holding the write connection (MaxOpenConns(1))
    kind,       \* kind[c]: what c is running
    pc,         \* pc[c]: idle, in a transaction, building a matrix, or committed
                \*        with its vector changes not applied yet
    view,       \* view[c]: what c's transaction sees, its own writes included
    deltas,     \* deltas[c]: the vector deltas c's statements returned so far
    miss,       \* miss[c]: the index c builds a matrix for, and the epoch it read
    matrices,   \* vecCache.matrices
    mapped,     \* FALSE while vecCache.matrices is a nil map
    epoch,      \* vecCache.epoch
    published   \* history: the values committed transactions gave each node

vars == <<db, conn, kind, pc, view, deltas, miss, matrices, mapped, epoch, published>>
cache == <<matrices, mapped, epoch>>

Init ==
    /\ db = [defs |-> {}, used |-> {}, vec |-> [ix \in Indexes |-> [n \in Nodes |-> NoVec]]]
    /\ conn = Nobody
    /\ kind = [c \in Clients |-> "none"]
    /\ pc = [c \in Clients |-> "idle"]
    /\ view = [c \in Clients |-> NoView]
    /\ deltas = [c \in Clients |-> EmptyBatch]
    /\ miss = [c \in Clients |-> NoBuild]
    /\ matrices = [ix \in Indexes |-> NoMatrix]
    /\ mapped = FALSE
    /\ epoch = 0
    /\ published = [ix \in Indexes |-> [n \in Nodes |-> {NoVec}]]

-----------------------------------------------------------------------------
(* Transactions.                                                           *)

\* A transaction of kind k opens for c on what is committed now.
Enter(c, k) ==
    /\ pc[c] = "idle"
    /\ pc' = [pc EXCEPT ![c] = "open"]
    /\ kind' = [kind EXCEPT ![c] = k]
    /\ view' = [view EXCEPT ![c] = db]

\* Mutant: the transaction ends but the client keeps its snapshot.
LeaveKeepingView(c) ==
    /\ pc' = [pc EXCEPT ![c] = "idle"]
    /\ kind' = [kind EXCEPT ![c] = "none"]
    /\ deltas' = [deltas EXCEPT ![c] = EmptyBatch]
    /\ miss' = [miss EXCEPT ![c] = NoBuild]
    /\ UNCHANGED view

\* c is done: it holds nothing any more.
Leave(c) ==
    /\ pc' = [pc EXCEPT ![c] = "idle"]
    /\ kind' = [kind EXCEPT ![c] = "none"]
    /\ view' = [view EXCEPT ![c] = NoView]
    /\ deltas' = [deltas EXCEPT ![c] = EmptyBatch]
    /\ miss' = [miss EXCEPT ![c] = NoBuild]

\* An auto-commit statement with no updating clause: a snapshot from the read
\* pool, or, without one, a transaction on the only connection.
BeginRead(c) ==
    /\ Enter(c, "read")
    /\ IF HasReadPool THEN UNCHANGED conn ELSE conn = Nobody /\ conn' = c
    /\ UNCHANGED <<db, deltas, miss, cache, published>>

\* An updating statement, a schema command, BeginTx or an import.
BeginUpdate(c, k) ==
    /\ c \in Writers /\ k \in {"write", "schema", "tx", "import"}
    /\ epoch < MaxEpoch
    /\ conn = Nobody
    /\ conn' = c
    /\ Enter(c, k)
    /\ UNCHANGED <<db, deltas, miss, cache, published>>

\* The statement fails, its context is cancelled, Rollback is called, a commit
\* fails, or a read statement simply ends: nothing reaches the database.
Abandon(c) ==
    /\ pc[c] \in {"open", "building"}
    /\ conn' = IF conn = c THEN Nobody ELSE conn
    /\ Leave(c)
    /\ UNCHANGED <<db, cache, published>>

\* The database commit. It releases the write connection; the deltas wait.
Commit(c) ==
    /\ pc[c] = "open" /\ kind[c] # "read"
    /\ kind[c] = "broken" => CommitAfterError
    /\ db' = view[c]
    /\ conn' = Nobody
    /\ pc' = [pc EXCEPT ![c] = "committed"]
    /\ view' = [view EXCEPT ![c] = NoView]
    /\ published' = [ix \in Indexes |-> [n \in Nodes |->
                        published[ix][n] \cup ({view[c].vec[ix][n], deltas[c][ix][n]} \ {Unset})]]
    /\ UNCHANGED <<kind, deltas, miss, cache>>

-----------------------------------------------------------------------------
(* Statements inside a transaction.                                        *)

\* Mutant: a node that leaves the index gets no delta.
DeltasForMembers(c, n, row) ==
    [ix \in Indexes |-> IF ix \in view[c].defs /\ row[ix] # NoVec
                        THEN [deltas[c][ix] EXCEPT ![n] = row[ix]]
                        ELSE deltas[c][ix]]

\* graph.vectorDeltas: node n's delta for every index the statement can see.
DeltasFor(c, n, row) ==
    [ix \in Indexes |-> IF ix \in view[c].defs
                        THEN [deltas[c][ix] EXCEPT ![n] = row[ix]]
                        ELSE deltas[c][ix]]

Rewrite(c, n, row) ==
    view' = [view EXCEPT ![c].vec = [ix \in Indexes |-> [view[c].vec[ix] EXCEPT ![n] = row[ix]]]]

\* A statement creates, changes or deletes node n: row is n's vector under each
\* index from now on.
Update(c, n, row) ==
    /\ pc[c] = "open" /\ kind[c] \in {"write", "tx", "broken"}
    /\ Rewrite(c, n, row)
    /\ deltas' = [deltas EXCEPT ![c] = DeltasFor(c, n, row)]
    /\ UNCHANGED <<db, conn, kind, pc, miss, cache, published>>

\* A statement of an explicit transaction changes n and then fails: the change
\* stays in the transaction (there is no savepoint), its deltas are lost.
FailedUpdate(c, n, row) ==
    /\ pc[c] = "open" /\ kind[c] \in {"tx", "broken"}
    /\ Rewrite(c, n, row)
    /\ kind' = [kind EXCEPT ![c] = "broken"]
    /\ UNCHANGED <<db, conn, pc, deltas, miss, cache, published>>

\* The importer inserts nodes behind the interpreter's back: no deltas.
ImportNode(c, n, row) ==
    /\ pc[c] = "open" /\ kind[c] = "import"
    /\ \A ix \in Indexes : view[c].vec[ix][n] = NoVec
    /\ Rewrite(c, n, row)
    /\ UNCHANGED <<db, conn, kind, pc, deltas, miss, cache, published>>

\* Mutant: the schema change is noted but the matrix is kept.
KeepMatrix(ix) ==
    /\ epoch' = epoch + 1
    /\ UNCHANGED <<matrices, mapped>>

\* dropVectorMatrix
DropMatrix(ix) ==
    /\ matrices' = [matrices EXCEPT ![ix] = NoMatrix]
    /\ epoch' = epoch + 1
    /\ UNCHANGED mapped

\* CREATE VECTOR INDEX: a fresh id, and the matrix dropped at once.
CreateIndex(c, ix) ==
    /\ pc[c] = "open"
    /\ kind[c] \in {"tx", "broken", "import"} \/ (kind[c] = "schema" /\ view[c] = db)
    /\ ix \notin view[c].used
    /\ view' = [view EXCEPT ![c].defs = @ \cup {ix}, ![c].used = @ \cup {ix}]
    /\ DropMatrix(ix)
    /\ UNCHANGED <<db, conn, kind, pc, deltas, miss, published>>

\* DROP INDEX: the matrix goes before the transaction commits.
DropIndex(c, ix) ==
    /\ pc[c] = "open"
    /\ kind[c] \in {"tx", "broken"} \/ (kind[c] = "schema" /\ view[c] = db)
    /\ ix \in view[c].defs
    /\ view' = [view EXCEPT ![c].defs = @ \ {ix}]
    /\ DropMatrix(ix)
    /\ UNCHANGED <<db, conn, kind, pc, deltas, miss, published>>

-----------------------------------------------------------------------------
(* The matrices.                                                           *)

\* Mutant: every statement may use the shared matrices.
SharesAlways(c) == kind[c] # "none"

\* Options.VectorCache: only an auto-commit statement without updates.
SharesMatrices(c) == kind[c] = "read"

\* matrixFor, first critical section, on a miss (a hit changes nothing).
Lookup(c, ix) ==
    /\ pc[c] = "open" /\ SharesMatrices(c)
    /\ ix \in view[c].defs
    /\ matrices[ix] = NoMatrix
    /\ mapped' = TRUE
    /\ miss' = [miss EXCEPT ![c] = [index |-> ix, epoch |-> epoch]]
    /\ pc' = [pc EXCEPT ![c] = "building"]
    /\ UNCHANGED <<db, conn, kind, view, deltas, matrices, epoch, published>>

Rows(ms) == Cardinality({p \in Indexes \X Nodes :
                            ms[p[1]] # NoMatrix /\ ms[p[1]][p[2]] # NoVec})

Built(c) == view[c].vec[miss[c].index]

\* Mutant: the epoch is not compared again.
MayInstallAnyEpoch(c) ==
    Rows(matrices) + Cardinality({n \in Nodes : Built(c)[n] # NoVec}) <= Budget

\* The matrix is kept only if no delta batch and no schema change came between,
\* and if it fits the memory budget.
MayInstall(c) ==
    /\ epoch = miss[c].epoch
    /\ Rows(matrices) + Cardinality({n \in Nodes : Built(c)[n] # NoVec}) <= Budget

\* matrixFor, second critical section.
Install(c) ==
    /\ pc[c] = "building"
    /\ matrices' = IF MayInstall(c) THEN [matrices EXCEPT ![miss[c].index] = Built(c)] ELSE matrices
    /\ pc' = [pc EXCEPT ![c] = "open"]
    /\ miss' = [miss EXCEPT ![c] = NoBuild]
    /\ UNCHANGED <<db, conn, kind, view, deltas, mapped, epoch, published>>

\* A matrix after the batch b of its index: Upsert and Remove, node by node.
Updated(m, b) == [n \in Nodes |-> IF b[n] = Unset THEN m[n] ELSE b[n]]

\* ApplyVectorDeltas, after the commit. An empty batch does not touch the epoch.
Apply(c) ==
    /\ pc[c] = "committed" /\ kind[c] # "import"
    /\ epoch' = IF deltas[c] = EmptyBatch THEN epoch ELSE epoch + 1
    /\ matrices' = [ix \in Indexes |-> IF matrices[ix] = NoMatrix THEN NoMatrix
                                       ELSE Updated(matrices[ix], deltas[c][ix])]
    /\ Leave(c)
    /\ UNCHANGED <<db, conn, mapped, published>>

\* InvalidateVectors, after an import committed.
Invalidate(c) ==
    /\ pc[c] = "committed" /\ kind[c] = "import"
    /\ matrices' = [ix \in Indexes |-> NoMatrix]
    /\ mapped' = FALSE
    /\ epoch' = epoch + 1
    /\ Leave(c)
    /\ UNCHANGED <<db, conn, published>>

-----------------------------------------------------------------------------
Write(c) == \E n \in Nodes, row \in [Indexes -> Values] :
                Update(c, n, row) \/ FailedUpdate(c, n, row) \/ ImportNode(c, n, row)

Next == \E c \in Clients :
    \/ BeginRead(c)
    \/ \E k \in Kinds : BeginUpdate(c, k)
    \/ Write(c)
    \/ \E ix \in Indexes : CreateIndex(c, ix) \/ DropIndex(c, ix) \/ Lookup(c, ix)
    \/ Install(c)
    \/ Commit(c) \/ Abandon(c)
    \/ Apply(c) \/ Invalidate(c)

Spec == Init /\ [][Next]_vars

-----------------------------------------------------------------------------
(* Properties.                                                             *)

\* The shape of the state, and that a client holds a view exactly while it is
\* in a transaction (Commit and Rollback let go of it) and remembers a miss
\* exactly while it builds.
TypeOK ==
    /\ db \in Database
    /\ conn \in Clients \cup {Nobody}
    /\ kind \in [Clients -> Kinds]
    /\ pc \in [Clients -> {"idle", "open", "building", "committed"}]
    /\ view \in [Clients -> Database \cup {NoView}]
    /\ deltas \in [Clients -> Batch]
    /\ miss \in [Clients -> {NoBuild} \cup [index: Indexes, epoch: Nat]]
    /\ matrices \in [Indexes -> Matrix \cup {NoMatrix}]
    /\ mapped \in BOOLEAN
    /\ epoch \in Nat
    /\ published \in [Indexes -> [Nodes -> SUBSET Values]]
    /\ \A c \in Clients : view[c] # NoView <=> pc[c] \in {"open", "building"}
    /\ \A c \in Clients : miss[c] # NoBuild <=> pc[c] = "building"

\* What vecindex.go says of the cache: "kept current from the entities each
\* committed statement created, changed or deleted". Every row of a matrix of an
\* existing index is the committed one, unless the transaction that committed it
\* has yet to apply exactly that change (or to throw every matrix away).
CacheCoherent ==
    \A ix \in db.defs, n \in Nodes :
        \/ matrices[ix] = NoMatrix
        \/ matrices[ix][n] = db.vec[ix][n]
        \/ \E c \in Clients :
            /\ pc[c] = "committed"
            /\ kind[c] = "import" \/ deltas[c][ix][n] = db.vec[ix][n]

\* No search through a shared matrix sees what no committed transaction wrote:
\* neither an open nor a rolled-back transaction leaks into a matrix, through a
\* build from its view or through its deltas.
NoUncommittedVectors ==
    \A ix \in Indexes, n \in Nodes :
        matrices[ix] # NoMatrix => matrices[ix][n] \in published[ix][n]

\* matrixFor writes into vecCache.matrices without checking that the map is still
\* there: an import may have set it to nil since the lookup, and assigning into a
\* nil map panics. Only the epoch stands between the two.
NoNilMapWrite ==
    \A c \in Clients : pc[c] = "building" /\ MayInstall(c) => mapped

\* dropVectorMatrix runs before the DROP commits; still, no matrix outlives its
\* index, where it would hold memory of the budget that nothing ever frees.
NoOrphanMatrix ==
    \A ix \in Indexes : matrices[ix] # NoMatrix => ix \in db.defs

=============================================================================
