-------------------------- MODULE VectorCacheProofs --------------------------
(***************************************************************************)
(* Theorems about VectorCache for every number of clients, nodes, vectors  *)
(* and indexes, and every interleaving of their steps.                     *)
(***************************************************************************)
EXTENDS VectorCache, TLAPS

-----------------------------------------------------------------------------
(* Type correctness.                                                       *)

\* Values, matrices and batches are closed under the operations of the module.
LEMMA DataTypes ==
    /\ NoVec \in Values
    /\ EmptyBatch \in Batch
    /\ \A m \in Matrix, b \in [Nodes -> Values \cup {Unset}] : Updated(m, b) \in Matrix
  BY DEF Values, EmptyBatch, Batch, Matrix, Updated

\* A handle starts with no transaction open and no matrix built.
LEMMA InitType == Init => TypeOK
<1> SUFFICES ASSUME Init PROVE TypeOK
  OBVIOUS
<1>1. db \in Database
  BY DEF Init, Database, Matrix, Values
<1>2. /\ kind \in [Clients -> Kinds]
      /\ pc \in [Clients -> {"idle", "open", "building", "committed"}]
      /\ \A c \in Clients : view[c] # NoView <=> pc[c] \in {"open", "building"}
      /\ \A c \in Clients : miss[c] # NoBuild <=> pc[c] = "building"
  BY DEF Init, Kinds
<1>3. deltas \in [Clients -> Batch]
  BY DataTypes DEF Init
<1>4. published \in [Indexes -> [Nodes -> SUBSET Values]]
  BY DataTypes DEF Init
<1> QED
  BY <1>1, <1>2, <1>3, <1>4 DEF Init, TypeOK

\* What a client's statement does to its own view.
LEMMA ViewTypes ==
    ASSUME TypeOK, NEW c \in Clients, view[c] # NoView
    PROVE  /\ view[c] \in Database
           /\ \A n \in Nodes, row \in [Indexes -> Values] :
                /\ Rewrite(c, n, row) =>
                    /\ view' \in [Clients -> Database \cup {NoView}]
                    /\ \A d \in Clients : view'[d] # NoView <=> view[d] # NoView
                /\ DeltasFor(c, n, row) \in Batch
<1>1. view[c] \in Database
  BY DEF TypeOK
<1>2. ASSUME NEW n \in Nodes, NEW row \in [Indexes -> Values], Rewrite(c, n, row)
      PROVE  /\ view' \in [Clients -> Database \cup {NoView}]
             /\ \A d \in Clients : view'[d] # NoView <=> view[d] # NoView
  <2> DEFINE vec == [ix \in Indexes |-> [view[c].vec[ix] EXCEPT ![n] = row[ix]]]
  <2>1. vec \in [Indexes -> Matrix]
    BY <1>1 DEF Database, Matrix
  <2>2. view' = [view EXCEPT ![c] = [view[c] EXCEPT !.vec = vec]]
    BY <1>2 DEF Rewrite
  <2>3. [view[c] EXCEPT !.vec = vec] \in Database
    BY <1>1, <2>1 DEF Database
  <2> QED
    BY <2>2, <2>3, ConstantsAssumption DEF TypeOK
<1>3. ASSUME NEW n \in Nodes, NEW row \in [Indexes -> Values]
      PROVE  DeltasFor(c, n, row) \in Batch
  BY DEF DeltasFor, TypeOK, Batch, Values
<1> QED
  BY <1>1, <1>2, <1>3

\* No step of a client breaks the shape of the state: begin, commit and rollback
\* take and drop a view, matrixFor's two critical sections set and clear a miss.
LEMMA NextType == TypeOK /\ [Next]_vars => TypeOK'
<1> SUFFICES ASSUME TypeOK, [Next]_vars PROVE TypeOK'
  OBVIOUS
<1> USE ConstantsAssumption
<1>1. ASSUME NEW c \in Clients, BeginRead(c) PROVE TypeOK'
  BY <1>1 DEF TypeOK, BeginRead, Enter, cache, Kinds
<1>2. ASSUME NEW c \in Clients, NEW k \in Kinds, BeginUpdate(c, k) PROVE TypeOK'
  BY <1>2 DEF TypeOK, BeginUpdate, Enter, cache
<1>3. ASSUME NEW c \in Clients, Abandon(c) PROVE TypeOK'
  BY <1>3, DataTypes DEF TypeOK, Abandon, Leave, cache, Kinds
<1>4. ASSUME NEW c \in Clients, Commit(c) PROVE TypeOK'
  <2>1. db' \in Database
    BY <1>4 DEF TypeOK, Commit
  <2>2. published' \in [Indexes -> [Nodes -> SUBSET Values]]
    BY <1>4 DEF TypeOK, Commit, Batch, Database, Matrix
  <2> QED
    BY <1>4, <2>1, <2>2 DEF TypeOK, Commit, cache
<1>5. ASSUME NEW c \in Clients, Write(c) PROVE TypeOK'
  <2>1. PICK n \in Nodes, row \in [Indexes -> Values] :
            Update(c, n, row) \/ FailedUpdate(c, n, row) \/ ImportNode(c, n, row)
    BY <1>5 DEF Write
  <2>2. /\ view[c] # NoView
        /\ Rewrite(c, n, row)
        /\ UNCHANGED <<db, conn, pc, miss, cache, published>>
        /\ kind' \in [Clients -> Kinds]
        /\ deltas' = [deltas EXCEPT ![c] = DeltasFor(c, n, row)] \/ UNCHANGED deltas
    BY <2>1 DEF Update, FailedUpdate, ImportNode, TypeOK, Kinds
  <2>3. /\ view' \in [Clients -> Database \cup {NoView}]
        /\ \A d \in Clients : view'[d] # NoView <=> view[d] # NoView
        /\ deltas' \in [Clients -> Batch]
    BY <2>2, ViewTypes DEF TypeOK
  <2> QED
    BY <2>2, <2>3 DEF TypeOK, cache
<1>6. ASSUME NEW c \in Clients, NEW ix \in Indexes, CreateIndex(c, ix) \/ DropIndex(c, ix)
      PROVE  TypeOK'
  <2>1. view[c] \in Database
    BY <1>6, ViewTypes DEF CreateIndex, DropIndex, TypeOK
  <2>2. view' \in [Clients -> Database \cup {NoView}]
    <3>1. [view[c] EXCEPT !.defs = view[c].defs \cup {ix}, !.used = view[c].used \cup {ix}] \in Database
      BY <2>1 DEF Database
    <3>2. [view[c] EXCEPT !.defs = view[c].defs \ {ix}] \in Database
      BY <2>1 DEF Database
    <3> QED
      BY <1>6, <3>1, <3>2 DEF CreateIndex, DropIndex, TypeOK
  <2>3. \A d \in Clients : view'[d] # NoView <=> view[d] # NoView
    BY <1>6, <2>1 DEF CreateIndex, DropIndex, TypeOK, Database
  <2>4. /\ UNCHANGED <<db, conn, kind, pc, deltas, miss, mapped, published>>
        /\ matrices' \in [Indexes -> Matrix \cup {NoMatrix}]
        /\ epoch' \in Nat
    BY <1>6 DEF TypeOK, CreateIndex, DropIndex, DropMatrix
  <2> QED
    BY <2>2, <2>3, <2>4 DEF TypeOK
<1>7. ASSUME NEW c \in Clients, NEW ix \in Indexes, Lookup(c, ix) PROVE TypeOK'
  BY <1>7 DEF TypeOK, Lookup
<1>8. ASSUME NEW c \in Clients, Install(c) PROVE TypeOK'
  <2>1. miss[c].index \in Indexes /\ view[c] \in Database
    BY <1>8, ViewTypes DEF TypeOK, Install
  <2>2. Built(c) \in Matrix
    BY <2>1 DEF Built, Database
  <2> QED
    BY <1>8, <2>1, <2>2 DEF TypeOK, Install
<1>9. ASSUME NEW c \in Clients, Apply(c) PROVE TypeOK'
  <2>1. matrices' \in [Indexes -> Matrix \cup {NoMatrix}]
    BY <1>9, DataTypes DEF TypeOK, Apply, Batch
  <2> QED
    BY <1>9, <2>1, DataTypes DEF TypeOK, Apply, Leave, Kinds
<1>10. ASSUME NEW c \in Clients, Invalidate(c) PROVE TypeOK'
  <2>1. matrices' \in [Indexes -> Matrix \cup {NoMatrix}]
    BY <1>10 DEF Invalidate
  <2>2. epoch' \in Nat
    BY <1>10 DEF TypeOK, Invalidate
  <2>6. mapped' \in BOOLEAN
    BY <1>10 DEF Invalidate
  <2>3. deltas' \in [Clients -> Batch]
    BY <1>10, DataTypes DEF TypeOK, Invalidate, Leave
  <2>4. /\ kind' \in [Clients -> Kinds]
        /\ UNCHANGED <<db, conn, published>>
    BY <1>10 DEF TypeOK, Invalidate, Leave, Kinds
  <2>5. /\ pc' \in [Clients -> {"idle", "open", "building", "committed"}]
        /\ view' \in [Clients -> Database \cup {NoView}]
        /\ miss' \in [Clients -> {NoBuild} \cup [index: Indexes, epoch: Nat]]
        /\ \A d \in Clients : view'[d] # NoView <=> pc'[d] \in {"open", "building"}
        /\ \A d \in Clients : miss'[d] # NoBuild <=> pc'[d] = "building"
    BY <1>10 DEF TypeOK, Invalidate, Leave
  <2> QED
    BY <2>1, <2>2, <2>3, <2>4, <2>5, <2>6 DEF TypeOK
<1>11. CASE UNCHANGED vars
  BY <1>11 DEF vars, TypeOK
<1> QED
  BY <1>1, <1>2, <1>3, <1>4, <1>5, <1>6, <1>7, <1>8, <1>9, <1>10, <1>11 DEF Next

\* The state keeps its shape; a view is held exactly in a transaction.
THEOREM TypeCorrect == Spec => []TypeOK
  BY InitType, NextType, PTL DEF Spec

-----------------------------------------------------------------------------
(* The nil map.  A build in progress that may still be installed began at   *)
(* the current epoch, and no import has passed since: it would have moved   *)
(* the epoch.                                                              *)

EpochGuardsMap ==
    \A c \in Clients : pc[c] = "building" =>
        /\ miss[c].epoch <= epoch
        /\ miss[c].epoch = epoch => mapped

\* Every step keeps EpochGuardsMap: an import moves the epoch as it drops the map.
LEMMA EpochGuardsMapStep ==
    TypeOK /\ EpochGuardsMap /\ [Next]_vars => EpochGuardsMap'
<1> SUFFICES ASSUME TypeOK, EpochGuardsMap, [Next]_vars PROVE EpochGuardsMap'
  OBVIOUS
<1>1. ASSUME NEW c \in Clients, NEW ix \in Indexes, Lookup(c, ix) PROVE EpochGuardsMap'
  BY <1>1 DEF Lookup, EpochGuardsMap, TypeOK
<1>2. ASSUME epoch' \in Nat, epoch < epoch',
             \A c \in Clients : pc'[c] = "building" => pc[c] = "building" /\ miss'[c] = miss[c]
      PROVE  EpochGuardsMap'
  BY <1>2 DEF EpochGuardsMap, TypeOK
<1>3. ASSUME epoch' = epoch, mapped' = mapped,
             \A c \in Clients : pc'[c] = "building" => pc[c] = "building" /\ miss'[c] = miss[c]
      PROVE  EpochGuardsMap'
  BY <1>3 DEF EpochGuardsMap
<1>4. ASSUME NEW c \in Clients, NEW ix \in Indexes, CreateIndex(c, ix) \/ DropIndex(c, ix)
      PROVE  EpochGuardsMap'
  BY <1>4, <1>2 DEF CreateIndex, DropIndex, DropMatrix, TypeOK
<1>5. ASSUME NEW c \in Clients, Invalidate(c) PROVE EpochGuardsMap'
  BY <1>5, <1>2 DEF Invalidate, Leave, TypeOK
<1>6. ASSUME NEW c \in Clients, Apply(c) PROVE EpochGuardsMap'
  BY <1>6, <1>2, <1>3 DEF Apply, Leave, TypeOK
<1>7. ASSUME NEW c \in Clients,
             BeginRead(c) \/ (\E k \in Kinds : BeginUpdate(c, k)) \/ Abandon(c) \/ Commit(c)
      PROVE  EpochGuardsMap'
  BY <1>7, <1>3 DEF BeginRead, BeginUpdate, Enter, Abandon, Leave, Commit, cache, TypeOK
<1>8. ASSUME NEW c \in Clients, Write(c) PROVE EpochGuardsMap'
  BY <1>8, <1>3 DEF Write, Update, FailedUpdate, ImportNode, cache
<1>9. ASSUME NEW c \in Clients, Install(c) PROVE EpochGuardsMap'
  BY <1>9, <1>3 DEF Install, TypeOK
<1>10. CASE UNCHANGED vars
  BY <1>10, <1>3 DEF vars
<1> QED
  BY <1>1, <1>4, <1>5, <1>6, <1>7, <1>8, <1>9, <1>10 DEF Next

\* matrixFor never assigns into a map that an import set to nil meanwhile.
THEOREM NilMapSafety == Spec => []NoNilMapWrite
<1>1. Init => EpochGuardsMap
  BY DEF Init, EpochGuardsMap
<1>2. EpochGuardsMap => NoNilMapWrite
  BY DEF EpochGuardsMap, NoNilMapWrite, MayInstall
<1> QED
  BY <1>1, <1>2, TypeCorrect, EpochGuardsMapStep, PTL DEF Spec

-----------------------------------------------------------------------------
(* Provenance.  What can reach a matrix (a reader's view, the deltas of a   *)
(* committed transaction) holds only published values.                     *)

Published(ix, n, v) == v \in published[ix][n]

Provenance ==
    /\ \A ix \in Indexes, n \in Nodes : Published(ix, n, db.vec[ix][n])
    /\ \A c \in Clients : pc[c] = "building" => kind[c] = "read"
    /\ \A c \in Clients : kind[c] = "read" /\ view[c] # NoView =>
            \A ix \in Indexes, n \in Nodes : Published(ix, n, view[c].vec[ix][n])
    /\ \A c \in Clients : pc[c] = "committed" =>
            \A ix \in Indexes, n \in Nodes :
                deltas[c][ix][n] # Unset => Published(ix, n, deltas[c][ix][n])
    /\ NoUncommittedVectors

\* At first every node is in no index, in every state a commit ever published.
LEMMA InitProvenance == Init => Provenance
  BY ConstantsAssumption DEF Init, Provenance, Published, NoUncommittedVectors

\* Views, deltas and matrices only move values; only Commit makes one public.
LEMMA ProvenanceStep == TypeOK /\ Provenance /\ [Next]_vars => Provenance'
<1> SUFFICES ASSUME TypeOK, Provenance, [Next]_vars PROVE Provenance'
  OBVIOUS
<1> USE ConstantsAssumption
<1>1. ASSUME NEW c \in Clients, BeginRead(c) \/ (\E k \in Kinds : BeginUpdate(c, k))
      PROVE  Provenance'
  <2>1. /\ UNCHANGED <<db, deltas, matrices, published>>
        /\ \A d \in Clients : d # c => kind'[d] = kind[d] /\ pc'[d] = pc[d] /\ view'[d] = view[d]
        /\ pc'[c] = "open" /\ view'[c] = db
    BY <1>1 DEF BeginRead, BeginUpdate, Enter, cache, TypeOK
  <2> QED
    BY <2>1 DEF Provenance, Published, NoUncommittedVectors
<1>2. ASSUME NEW c \in Clients, Abandon(c) PROVE Provenance'
  BY <1>2 DEF Abandon, Leave, cache, TypeOK, Provenance, Published, NoUncommittedVectors
<1>3. ASSUME NEW c \in Clients, Commit(c) PROVE Provenance'
  <2>1. /\ view[c] \in Database
        /\ db' = view[c]
        /\ pc' = [pc EXCEPT ![c] = "committed"]
        /\ view' = [view EXCEPT ![c] = NoView]
        /\ UNCHANGED <<kind, deltas, matrices>>
    BY <1>3 DEF Commit, cache, TypeOK
  <2>2. \A ix \in Indexes, n \in Nodes :
            /\ published[ix][n] \subseteq published'[ix][n]
            /\ view[c].vec[ix][n] \in published'[ix][n]
            /\ deltas[c][ix][n] # Unset => deltas[c][ix][n] \in published'[ix][n]
    <3>1. \A ix \in Indexes, n \in Nodes : view[c].vec[ix][n] # Unset
      BY <2>1 DEF Database, Matrix
    <3> QED
      BY <1>3, <3>1 DEF Commit
  <2> QED
    BY <2>1, <2>2 DEF TypeOK, Provenance, Published, NoUncommittedVectors
<1>4. ASSUME NEW c \in Clients, Write(c) PROVE Provenance'
  <2>1. /\ kind[c] # "read" /\ pc[c] = "open"
        /\ kind'[c] # "read"
        /\ \A d \in Clients : d # c =>
              view'[d] = view[d] /\ deltas'[d] = deltas[d] /\ kind'[d] = kind[d]
        /\ UNCHANGED <<db, pc, matrices, published>>
    BY <1>4 DEF Write, Update, FailedUpdate, ImportNode, Rewrite, cache, TypeOK
  <2> QED
    BY <2>1 DEF Provenance, Published, NoUncommittedVectors
<1>5. ASSUME NEW c \in Clients, NEW ix \in Indexes, CreateIndex(c, ix) \/ DropIndex(c, ix)
      PROVE  Provenance'
  <2>1. /\ kind[c] # "read"
        /\ \A d \in Clients : d # c => view'[d] = view[d]
        /\ UNCHANGED <<db, kind, pc, deltas, published>>
        /\ \A jx \in Indexes : matrices'[jx] # NoMatrix => matrices'[jx] = matrices[jx]
    BY <1>5 DEF CreateIndex, DropIndex, DropMatrix, TypeOK
  <2> QED
    BY <2>1 DEF Provenance, Published, NoUncommittedVectors
<1>6. ASSUME NEW c \in Clients, NEW ix \in Indexes, Lookup(c, ix) PROVE Provenance'
  BY <1>6 DEF Lookup, SharesMatrices, TypeOK, Provenance, Published, NoUncommittedVectors
<1>7. ASSUME NEW c \in Clients, Install(c) PROVE Provenance'
  <2>1. /\ UNCHANGED <<db, kind, view, deltas, published>>
        /\ pc' = [pc EXCEPT ![c] = "open"]
        /\ view[c] # NoView /\ kind[c] = "read"
        /\ miss[c].index \in Indexes
    BY <1>7 DEF Install, TypeOK, Provenance
  <2>2. \A jx \in Indexes : matrices'[jx] = matrices[jx] \/ matrices'[jx] = view[c].vec[jx]
    BY <1>7, <2>1 DEF Install, Built, TypeOK
  <2>3. NoUncommittedVectors'
    BY <2>1, <2>2 DEF Provenance, Published, NoUncommittedVectors
  <2> QED
    BY <2>1, <2>3 DEF TypeOK, Provenance, Published
<1>8. ASSUME NEW c \in Clients, Apply(c) PROVE Provenance'
  <2>1. NoUncommittedVectors'
    BY <1>8 DEF Apply, Updated, TypeOK, Provenance, Published, NoUncommittedVectors
  <2> QED
    BY <1>8, <2>1 DEF Apply, Leave, TypeOK, Provenance, Published
<1>9. ASSUME NEW c \in Clients, Invalidate(c) PROVE Provenance'
  BY <1>9 DEF Invalidate, Leave, TypeOK, Provenance, Published, NoUncommittedVectors
<1>10. CASE UNCHANGED vars
  BY <1>10 DEF vars, Provenance, Published, NoUncommittedVectors
<1> QED
  BY <1>1, <1>2, <1>3, <1>4, <1>5, <1>6, <1>7, <1>8, <1>9, <1>10 DEF Next

\* In every mode, with any number of writers, and even when the application
\* commits after a failed statement: what a search reads through a shared matrix
\* was written by a transaction that committed.
THEOREM OnlyCommittedVectors == Spec => []NoUncommittedVectors
<1>1. Provenance => NoUncommittedVectors
  BY DEF Provenance
<1> QED
  BY <1>1, InitProvenance, ProvenanceStep, TypeCorrect, PTL DEF Spec

-----------------------------------------------------------------------------
(* Coherence on one connection.  Without a read pool every transaction,     *)
(* reading or writing, holds the only connection, and one client does all   *)
(* the writing: then nobody commits between a reader's snapshot and its      *)
(* install, and no batch overtakes another.                                 *)

OneConnection == ~HasReadPool /\ ~CommitAfterError /\ \E w \in Clients : Writers = {w}

\* The deltas of c account for every difference between its view v and what was
\* committed before, and none of them is out of date.
Accounts(c, v, before) ==
    \A ix \in v.defs, n \in Nodes :
        /\ deltas[c][ix][n] \in {Unset, v.vec[ix][n]}
        /\ ix \in before.defs /\ deltas[c][ix][n] = Unset => v.vec[ix][n] = before.vec[ix][n]

Updating == {"write", "schema", "tx"}
Changing == Updating \cup {"broken", "import"}

Exclusive ==
    /\ \A c \in Clients : view[c] # NoView => conn = c
    /\ \A c \in Clients : kind[c] = "none" <=> pc[c] = "idle"
    /\ \A c \in Clients : kind[c] \in Changing => c \in Writers
    /\ \A c \in Clients : pc[c] = "committed" => kind[c] \notin {"read", "broken"}

Readers ==
    \A c \in Clients :
        /\ kind[c] = "read" => view[c] = db
        /\ pc[c] = "building" => kind[c] = "read" /\ miss[c].index \in db.defs

Ids ==
    /\ db.defs \subseteq db.used
    /\ \A c \in Clients : view[c] # NoView =>
        /\ view[c].defs \subseteq view[c].used
        /\ db.used \subseteq view[c].used
        /\ \A ix \in Indexes, n \in Nodes : deltas[c][ix][n] # Unset => ix \in view[c].used
    /\ \A c \in Clients : pc[c] = "idle" => deltas[c] = EmptyBatch

Tracked ==
    \A c \in Clients : kind[c] \in Updating =>
        /\ view[c] # NoView => Accounts(c, view[c], db)
        /\ pc[c] = "committed" => Accounts(c, db, db)

Owned ==
    \A ix \in Indexes : matrices[ix] # NoMatrix =>
        /\ ix \in db.defs
        /\ \A c \in Clients : view[c] # NoView => ix \in view[c].defs

Coherence == Exclusive /\ Readers /\ Ids /\ Tracked /\ Owned /\ CacheCoherent

\* The other clients' deltas account for the change of view as they did.
LEMMA TrackedElsewhere ==
    ASSUME Tracked, db' = db, NEW c,
           \A d \in Clients \ {c} :
              /\ kind'[d] = kind[d] /\ view'[d] = view[d] /\ deltas'[d] = deltas[d]
              /\ pc'[d] = "committed" => pc[d] = "committed",
           kind'[c] \in Updating =>
              /\ view'[c] # NoView => Accounts(c, view[c], db)'
              /\ pc'[c] = "committed" => Accounts(c, db, db)'
    PROVE  Tracked'
<1>1. ASSUME NEW d \in Clients \ {c}, kind'[d] \in Updating
      PROVE  /\ view'[d] # NoView => Accounts(d, view[d], db)'
             /\ pc'[d] = "committed" => Accounts(d, db, db)'
  <2>1. /\ kind[d] \in Updating /\ view'[d] = view[d] /\ deltas'[d] = deltas[d]
        /\ pc'[d] = "committed" => pc[d] = "committed"
    BY <1>1
  <2>2. /\ view[d] # NoView => Accounts(d, view[d], db)
        /\ pc[d] = "committed" => Accounts(d, db, db)
    BY <2>1 DEF Tracked
  <2>3. Accounts(d, view[d], db) => Accounts(d, view[d], db)'
    <3> SUFFICES ASSUME Accounts(d, view[d], db), NEW ix \in view'[d].defs, NEW n \in Nodes
                 PROVE  /\ deltas'[d][ix][n] \in {Unset, view'[d].vec[ix][n]}
                        /\ ix \in db'.defs /\ deltas'[d][ix][n] = Unset => view'[d].vec[ix][n] = db'.vec[ix][n]
      BY DEF Accounts
    <3> QED
      BY <2>1 DEF Accounts
  <2>4. Accounts(d, db, db) => Accounts(d, db, db)'
    BY <2>1 DEF Accounts
  <2> QED
    BY <2>1, <2>2, <2>3, <2>4
<1> QED
  BY <1>1 DEF Tracked

\* A step that leaves the deltas, the kinds and the views, and commits nothing, keeps them.
LEMMA TrackedStays ==
    ASSUME Tracked, UNCHANGED <<db, kind, view, deltas>>,
           \A d \in Clients : pc'[d] = "committed" => pc[d] = "committed"
    PROVE  Tracked'
<1> SUFFICES ASSUME NEW c \in Clients, kind[c] \in Updating
             PROVE  /\ view'[c] # NoView => Accounts(c, view[c], db)'
                    /\ pc'[c] = "committed" => Accounts(c, db, db)'
  BY DEF Tracked
<1>1. Accounts(c, view[c], db) => Accounts(c, view[c], db)'
  BY DEF Accounts
<1>2. Accounts(c, db, db) => Accounts(c, db, db)'
  BY DEF Accounts
<1> QED
  BY <1>1, <1>2 DEF Tracked

\* No matrix, no open transaction.
LEMMA InitCoherence == Init => Coherence
  BY DEF Init, Coherence, Exclusive, Readers, Ids, Tracked, Owned, CacheCoherent, Updating, Changing

\* Whoever is in a transaction is alone in one, and the writer is one client.
LEMMA Alone ==
    ASSUME TypeOK, OneConnection, Exclusive, NEW c \in Clients, NEW d \in Clients, d # c
    PROVE  /\ view[c] # NoView => view[d] = NoView
           /\ kind[c] \in Changing => kind[d] \in {"none", "read"}
<1>1. view[c] # NoView => view[d] = NoView
  BY DEF Exclusive
<1>2. ASSUME kind[c] \in Changing PROVE kind[d] \in {"none", "read"}
  <2>1. d \notin Writers
    BY <1>2 DEF OneConnection, Exclusive
  <2> QED
    BY <2>1 DEF Exclusive, TypeOK, Kinds, Updating, Changing
<1> QED
  BY <1>1, <1>2

\* A transaction begins on what is committed, with no deltas of its own.
LEMMA BeginCoherent ==
    ASSUME TypeOK, OneConnection, Coherence, NEW c \in Clients, NEW k \in Kinds,
           (BeginRead(c) /\ k = "read") \/ BeginUpdate(c, k)
    PROVE  Coherence'
<1>1. /\ UNCHANGED <<db, deltas, miss, matrices>>
      /\ conn = Nobody /\ conn' = c
      /\ pc[c] = "idle" /\ pc' = [pc EXCEPT ![c] = "open"]
      /\ view' = [view EXCEPT ![c] = db]
      /\ kind' = [kind EXCEPT ![c] = k]
      /\ k # "none" /\ (k # "read" => c \in Writers)
  BY DEF BeginRead, BeginUpdate, Enter, cache, OneConnection
<1>2. \A d \in Clients : view[d] = NoView
  BY <1>1, ConstantsAssumption DEF Coherence, Exclusive
<1>3. Exclusive'
  BY <1>1, <1>2 DEF Coherence, Exclusive, TypeOK, Updating, Changing
<1>4. Readers'
  BY <1>1, <1>2 DEF Coherence, Readers, TypeOK
<1>5. Ids'
  BY <1>1, <1>2 DEF Coherence, Ids, TypeOK, EmptyBatch
<1>6. Tracked'
  <2>1. deltas[c] = EmptyBatch
    BY <1>1 DEF Coherence, Ids
  <2>2. Accounts(c, db, db)
    BY <2>1 DEF Accounts, EmptyBatch, TypeOK, Database
  <2> QED
    <3>1. Accounts(c, view[c], db)'
      BY <1>1, <2>1 DEF TypeOK, Accounts, EmptyBatch, Database
    <3> QED
      BY <1>1, <3>1, TrackedElsewhere DEF Coherence, TypeOK
<1>7. Owned'
  BY <1>1, <1>2 DEF Coherence, Owned, TypeOK
<1>8. CacheCoherent'
  BY <1>1 DEF Coherence, CacheCoherent, TypeOK, Exclusive
<1> QED
  BY <1>3, <1>4, <1>5, <1>6, <1>7, <1>8 DEF Coherence

\* A rollback, or the end of a read, leaves the database and the matrices alone.
LEMMA AbandonCoherent ==
    ASSUME TypeOK, OneConnection, Coherence, NEW c \in Clients, Abandon(c)
    PROVE  Coherence'
<1>1. /\ UNCHANGED <<db, matrices>>
      /\ pc[c] # "committed" /\ view[c] # NoView
      /\ pc' = [pc EXCEPT ![c] = "idle"]
      /\ kind' = [kind EXCEPT ![c] = "none"]
      /\ view' = [view EXCEPT ![c] = NoView]
      /\ deltas' = [deltas EXCEPT ![c] = EmptyBatch]
      /\ miss' = [miss EXCEPT ![c] = NoBuild]
  BY DEF Abandon, Leave, cache, TypeOK
<1>2. \A d \in Clients : view'[d] = NoView
  BY <1>1, Alone DEF Coherence, TypeOK
<1>3. Exclusive'
  BY <1>1, <1>2 DEF Coherence, Exclusive, TypeOK, Updating, Changing
<1>4. Readers'
  BY <1>1 DEF Coherence, Readers, TypeOK
<1>5. Ids'
  BY <1>1, <1>2 DEF Coherence, Ids, TypeOK
<1>6. Tracked'
  BY <1>1, TrackedElsewhere DEF Coherence, Updating, Changing, TypeOK
<1>7. Owned'
  BY <1>1, <1>2 DEF Coherence, Owned
<1>8. CacheCoherent'
  BY <1>1 DEF Coherence, CacheCoherent, TypeOK
<1> QED
  BY <1>3, <1>4, <1>5, <1>6, <1>7, <1>8 DEF Coherence

\* The commit: what the writer changed it also holds deltas for.
LEMMA CommitCoherent ==
    ASSUME TypeOK, OneConnection, Coherence, NEW c \in Clients, Commit(c)
    PROVE  Coherence'
<1>1. /\ UNCHANGED <<kind, deltas, miss, matrices>>
      /\ pc[c] = "open" /\ view[c] # NoView /\ view[c] \in Database
      /\ kind[c] \in Changing \ {"broken"}
      /\ db' = view[c]
      /\ pc' = [pc EXCEPT ![c] = "committed"]
      /\ view' = [view EXCEPT ![c] = NoView]
  BY DEF OneConnection, Commit, cache, TypeOK, Coherence, Exclusive, Kinds, Updating, Changing
<1>2. \A d \in Clients : view'[d] = NoView
  BY <1>1, Alone DEF Coherence, TypeOK
<1>3. \A d \in Clients : d # c => kind[d] \in {"none", "read"} /\ view[d] = NoView
  BY <1>1, Alone DEF Coherence
<1>4. \A d \in Clients : pc[d] # "committed"
  BY <1>1, <1>3 DEF Coherence, Exclusive
<1>5. Exclusive'
  BY <1>1, <1>2 DEF Coherence, Exclusive, TypeOK, Updating, Changing
<1>6. Readers'
  <2>1. \A d \in Clients : kind[d] # "read"
    BY <1>1, <1>3, ConstantsAssumption DEF Coherence, Readers, Updating, Changing, TypeOK
  <2> QED
    BY <1>1, <2>1 DEF Coherence, Readers, TypeOK
<1>7. Ids'
  BY <1>1, <1>2 DEF Coherence, Ids, TypeOK
<1>8. Tracked'
  <2>1. kind[c] \in Updating => Accounts(c, view[c], view[c])
    BY <1>1 DEF Coherence, Tracked, Accounts
  <2> QED
    <3>1. \A d \in Clients \ {c} : kind[d] \notin Updating
      BY <1>1, <1>3 DEF Updating, Changing
    <3> QED
      BY <1>1, <1>2, <2>1, <3>1 DEF Tracked, Accounts, Updating, Changing, TypeOK
<1>9. Owned'
  BY <1>1, <1>2 DEF Coherence, Owned
<1>10. CacheCoherent'
  <2> SUFFICES ASSUME NEW ix \in view[c].defs, NEW n \in Nodes, matrices[ix] # NoMatrix,
                      kind[c] # "import"
               PROVE  matrices[ix][n] = view[c].vec[ix][n] \/ deltas[c][ix][n] = view[c].vec[ix][n]
    BY <1>1 DEF CacheCoherent, TypeOK
  <2>1. ix \in Indexes /\ ix \in db.defs
    BY <1>1 DEF Coherence, Owned, Database
  <2>2. matrices[ix][n] = db.vec[ix][n]
    BY <1>4, <2>1 DEF Coherence, CacheCoherent
  <2>3. Accounts(c, view[c], db)
    BY <1>1 DEF Coherence, Tracked, Changing
  <2> QED
    BY <2>1, <2>2, <2>3 DEF Accounts
<1> QED
  BY <1>5, <1>6, <1>7, <1>8, <1>9, <1>10 DEF Coherence

\* Every change of a node's vectors is recorded, by a delta of each visible index.
LEMMA WriteCoherent ==
    ASSUME TypeOK, OneConnection, Coherence, NEW c \in Clients, Write(c)
    PROVE  Coherence'
<1>1. PICK n \in Nodes, row \in [Indexes -> Values] :
            Update(c, n, row) \/ FailedUpdate(c, n, row) \/ ImportNode(c, n, row)
  BY DEF Write
<1>2. /\ UNCHANGED <<db, conn, pc, miss, matrices>>
      /\ pc[c] = "open" /\ view[c] # NoView /\ view[c] \in Database
      /\ Rewrite(c, n, row)
      /\ kind[c] \in Changing /\ kind'[c] \in Changing
      /\ kind[c] = "broken" => kind'[c] = "broken"
      /\ \A d \in Clients : d # c => kind'[d] = kind[d]
      /\ \/ kind'[c] \notin Updating /\ UNCHANGED deltas
         \/ deltas' = [deltas EXCEPT ![c] = DeltasFor(c, n, row)] /\ UNCHANGED kind
  BY <1>1 DEF Update, FailedUpdate, ImportNode, cache, TypeOK, Updating, Changing
<1>3. \A d \in Clients : d # c =>
        view'[d] = view[d] /\ deltas'[d] = deltas[d] /\ view[d] = NoView /\ kind[d] \in {"none", "read"}
  BY <1>2, Alone DEF Rewrite, TypeOK, Coherence, Updating, Changing
<1>4. /\ view'[c] # NoView
      /\ view'[c].defs = view[c].defs /\ view'[c].used = view[c].used
      /\ view'[c].vec = [ix \in Indexes |-> [view[c].vec[ix] EXCEPT ![n] = row[ix]]]
  <2> DEFINE vec == [ix \in Indexes |-> [view[c].vec[ix] EXCEPT ![n] = row[ix]]]
  <2>1. view' = [view EXCEPT ![c] = [view[c] EXCEPT !.vec = vec]]
    BY <1>2 DEF Rewrite
  <2>2. view'[c] = [view[c] EXCEPT !.vec = vec] /\ view'[c] # NoView
    BY <1>2, <2>1, ViewTypes DEF TypeOK
  <2> HIDE DEF vec
  <2>3. view'[c].defs = view[c].defs /\ view'[c].used = view[c].used /\ view'[c].vec = vec
    BY <1>2, <2>2 DEF Database
  <2> QED
    BY <2>2, <2>3 DEF vec
<1>5. Exclusive'
  BY <1>2, <1>3, <1>4 DEF Coherence, Exclusive, Updating, Changing
<1>6. Readers'
  BY <1>2, <1>3 DEF Coherence, Readers, Updating, Changing
<1>7. Ids'
  <2>1. \A ix \in Indexes, m \in Nodes : deltas'[c][ix][m] # Unset => ix \in view[c].used
    BY <1>2 DEF Coherence, Ids, DeltasFor, TypeOK, Batch
  <2> QED
    BY <1>2, <1>3, <1>4, <2>1 DEF Coherence, Ids
<1>8. Tracked'
  <2> SUFFICES ASSUME kind'[c] \in Updating PROVE Accounts(c, view[c], db)'
    BY <1>2, <1>3 DEF Tracked, Updating, Changing
  <2>0. UNCHANGED kind /\ deltas' = [deltas EXCEPT ![c] = DeltasFor(c, n, row)]
    BY <1>2
  <2>1. Accounts(c, view[c], db)
    BY <1>2, <2>0 DEF Coherence, Tracked
  <2> SUFFICES ASSUME NEW ix \in view'[c].defs, NEW m \in Nodes
               PROVE  /\ deltas'[c][ix][m] \in {Unset, view'[c].vec[ix][m]}
                      /\ ix \in db.defs /\ deltas'[c][ix][m] = Unset => view'[c].vec[ix][m] = db.vec[ix][m]
    BY <1>2 DEF Accounts
  <2>2. ix \in view[c].defs /\ ix \in Indexes /\ row[ix] \in Values /\ row[ix] # Unset
    BY <1>2, <1>4, ConstantsAssumption DEF Database
  <2>3. deltas'[c][ix] = [deltas[c][ix] EXCEPT ![n] = row[ix]]
    BY <2>0, <1>2, <2>2 DEF DeltasFor, TypeOK, Batch
  <2>4. deltas[c][ix] \in [Nodes -> Values \cup {Unset}] /\ view[c].vec[ix] \in Matrix
    BY <1>2, <2>2 DEF TypeOK, Batch, Database
  <2>5. CASE m = n
    BY <1>4, <2>2, <2>3, <2>4, <2>5 DEF Matrix
  <2>6. CASE m # n
    BY <1>4, <2>1, <2>2, <2>3, <2>4, <2>6 DEF Matrix, Accounts
  <2> QED
    BY <2>5, <2>6
<1>9. Owned'
  BY <1>2, <1>3, <1>4 DEF Coherence, Owned
<1>10. CacheCoherent'
  BY <1>2, <1>3 DEF Coherence, CacheCoherent
<1> QED
  BY <1>5, <1>6, <1>7, <1>8, <1>9, <1>10 DEF Coherence

\* CREATE and DROP of a vector index drop the matrix under the same connection.
LEMMA SchemaCoherent ==
    ASSUME TypeOK, OneConnection, Coherence, NEW c \in Clients, NEW ix \in Indexes,
           CreateIndex(c, ix) \/ DropIndex(c, ix)
    PROVE  Coherence'
<1>1. /\ UNCHANGED <<db, conn, kind, pc, deltas, miss>>
      /\ pc[c] = "open" /\ view[c] # NoView /\ view[c] \in Database
      /\ kind[c] \in Changing
      /\ matrices' = [matrices EXCEPT ![ix] = NoMatrix]
  BY DEF CreateIndex, DropIndex, DropMatrix, TypeOK, Updating, Changing
<1>2. \A d \in Clients : d # c =>
        view'[d] = view[d] /\ view[d] = NoView /\ kind[d] \in {"none", "read"}
  BY <1>1, Alone DEF CreateIndex, DropIndex, TypeOK, Coherence
<1>3. /\ view'[c] # NoView
      /\ view'[c].vec = view[c].vec
      /\ \/ /\ view'[c].defs = view[c].defs \cup {ix} /\ view'[c].used = view[c].used \cup {ix}
            /\ ix \notin view[c].used
         \/ view'[c].defs = view[c].defs \ {ix} /\ view'[c].used = view[c].used
  <2>1. CASE CreateIndex(c, ix)
    <3>1. [view[c] EXCEPT !.defs = view[c].defs \cup {ix}, !.used = view[c].used \cup {ix}] \in Database
      BY <1>1 DEF Database
    <3> QED
      BY <1>1, <2>1, <3>1, ConstantsAssumption DEF CreateIndex, TypeOK, Database
  <2>2. CASE DropIndex(c, ix)
    <3>1. [view[c] EXCEPT !.defs = view[c].defs \ {ix}] \in Database
      BY <1>1 DEF Database
    <3> QED
      BY <1>1, <2>2, <3>1, ConstantsAssumption DEF DropIndex, TypeOK, Database
  <2> QED
    BY <2>1, <2>2
<1>4. Exclusive'
  BY <1>1, <1>2, <1>3 DEF Coherence, Exclusive
<1>5. Readers'
  BY <1>1, <1>2 DEF Coherence, Readers, Updating, Changing
<1>6. Ids'
  BY <1>1, <1>2, <1>3 DEF Coherence, Ids
<1>7. Tracked'
  <2> SUFFICES ASSUME kind[c] \in Updating PROVE Accounts(c, view[c], db)'
    BY <1>1, <1>2 DEF Tracked, Updating, Changing
  <2>1. Accounts(c, view[c], db)
    BY <1>1 DEF Coherence, Tracked
  <2>2. ASSUME ix \notin view[c].used
        PROVE  ix \notin db.defs /\ \A n \in Nodes : deltas[c][ix][n] = Unset
    BY <1>1, <2>2 DEF Coherence, Ids
  <2> QED
    BY <1>1, <1>3, <2>1, <2>2 DEF Accounts
<1>8. Owned'
  BY <1>1, <1>2, <1>3 DEF Coherence, Owned, TypeOK
<1>9. CacheCoherent'
  BY <1>1 DEF Coherence, CacheCoherent, TypeOK, Database
<1> QED
  BY <1>4, <1>5, <1>6, <1>7, <1>8, <1>9 DEF Coherence

\* matrixFor's miss: nothing is kept yet, the epoch is remembered.
LEMMA LookupCoherent ==
    ASSUME TypeOK, OneConnection, Coherence, NEW c \in Clients, NEW ix \in Indexes, Lookup(c, ix)
    PROVE  Coherence'
<1>1. /\ UNCHANGED <<db, conn, kind, view, deltas, matrices>>
      /\ pc[c] = "open" /\ pc' = [pc EXCEPT ![c] = "building"]
      /\ kind[c] = "read" /\ ix \in db.defs
      /\ miss' = [miss EXCEPT ![c] = [index |-> ix, epoch |-> epoch]]
  BY DEF Lookup, SharesMatrices, Coherence, Readers
<1>2. Exclusive'
  BY <1>1 DEF Coherence, Exclusive, TypeOK
<1>3. Readers'
  BY <1>1 DEF Coherence, Readers, TypeOK
<1>4. Ids'
  BY <1>1 DEF Coherence, Ids, TypeOK
<1>5. Tracked'
  BY <1>1, TrackedStays DEF Coherence, TypeOK
<1>6. Owned'
  BY <1>1 DEF Coherence, Owned
<1>7. CacheCoherent'
  <2>1. \A d \in Clients : pc[d] = "committed" => pc'[d] = "committed"
    BY <1>1 DEF TypeOK
  <2> QED
    BY <1>1, <2>1 DEF Coherence, CacheCoherent
<1> QED
  BY <1>2, <1>3, <1>4, <1>5, <1>6, <1>7 DEF Coherence

\* matrixFor's build comes from a view that is still the committed database.
LEMMA InstallCoherent ==
    ASSUME TypeOK, OneConnection, Coherence, NEW c \in Clients, Install(c)
    PROVE  Coherence'
<1>1. /\ UNCHANGED <<db, conn, kind, view, deltas>>
      /\ pc[c] = "building" /\ pc' = [pc EXCEPT ![c] = "open"]
      /\ kind[c] = "read" /\ view[c] = db /\ view[c] # NoView
      /\ miss' = [miss EXCEPT ![c] = NoBuild]
      /\ miss[c].index \in db.defs /\ miss[c].index \in Indexes
  BY DEF Install, Coherence, Readers, TypeOK, Database
<1>2. \A jx \in Indexes :
        matrices'[jx] = matrices[jx] \/ (jx \in db.defs /\ matrices'[jx] = db.vec[jx])
  BY <1>1 DEF Install, Built, TypeOK
<1>3. Exclusive'
  BY <1>1 DEF Coherence, Exclusive, TypeOK
<1>4. Readers'
  BY <1>1 DEF Coherence, Readers, TypeOK
<1>5. Ids'
  BY <1>1 DEF Coherence, Ids, TypeOK
<1>6. Tracked'
  BY <1>1, TrackedStays DEF Coherence, TypeOK
<1>7. Owned'
  <2>1. \A d \in Clients : d # c => view[d] = NoView
    BY <1>1, Alone DEF Coherence
  <2> QED
    BY <1>1, <1>2, <2>1 DEF Coherence, Owned
<1>8. CacheCoherent'
  <2>1. \A d \in Clients : pc[d] = "committed" => pc'[d] = "committed"
    BY <1>1 DEF TypeOK
  <2> QED
    BY <1>1, <1>2, <2>1 DEF Coherence, CacheCoherent, TypeOK, Database
<1> QED
  BY <1>3, <1>4, <1>5, <1>6, <1>7, <1>8 DEF Coherence

\* ApplyVectorDeltas brings every matrix up to the committed database, and
\* InvalidateVectors drops them all.
LEMMA ApplyCoherent ==
    ASSUME TypeOK, OneConnection, Coherence, NEW c \in Clients, Apply(c) \/ Invalidate(c)
    PROVE  Coherence'
<1>1. /\ UNCHANGED <<db, conn>>
      /\ pc[c] = "committed" /\ pc' = [pc EXCEPT ![c] = "idle"]
      /\ kind' = [kind EXCEPT ![c] = "none"]
      /\ view[c] = NoView /\ view' = [view EXCEPT ![c] = NoView]
      /\ deltas' = [deltas EXCEPT ![c] = EmptyBatch]
      /\ miss' = [miss EXCEPT ![c] = NoBuild]
      /\ kind[c] \in Changing \ {"broken"}
  BY DEF Apply, Invalidate, Leave, TypeOK, Coherence, Exclusive, Kinds, Updating, Changing
<1>2. view' = view
  BY <1>1 DEF TypeOK
<1>3. \A jx \in Indexes : matrices'[jx] # NoMatrix => matrices[jx] # NoMatrix
  BY DEF Apply, Invalidate
<1>4. Exclusive'
  BY <1>1, <1>2 DEF Coherence, Exclusive, TypeOK, Updating, Changing
<1>5. Readers'
  BY <1>1, <1>2 DEF Coherence, Readers, TypeOK
<1>6. Ids'
  BY <1>1, <1>2 DEF Coherence, Ids, TypeOK
<1>7. Tracked'
  BY <1>1, TrackedElsewhere DEF Coherence, Updating, Changing, TypeOK
<1>8. Owned'
  BY <1>1, <1>2, <1>3 DEF Coherence, Owned
<1>9. CacheCoherent'
  <2> SUFFICES ASSUME NEW ix \in db.defs, NEW n \in Nodes, matrices'[ix] # NoMatrix
               PROVE  matrices'[ix][n] = db.vec[ix][n]
    BY <1>1 DEF CacheCoherent
  <2>1. ix \in Indexes /\ db.vec[ix][n] \in Values
    BY DEF TypeOK, Database, Matrix
  <2>2. kind[c] \in Updating /\ Apply(c)
    BY <1>1, <2>1 DEF Apply, Invalidate, Updating, Changing
  <2>3. matrices'[ix] = Updated(matrices[ix], deltas[c][ix]) /\ matrices[ix] # NoMatrix
    BY <2>1, <2>2 DEF Apply
  <2>4. matrices[ix][n] = db.vec[ix][n] \/ deltas[c][ix][n] = db.vec[ix][n]
    <3>1. \A d \in Clients : pc[d] = "committed" => d = c
      BY <1>1, Alone DEF Coherence, Exclusive
    <3> QED
      BY <2>2, <2>3, <3>1 DEF Coherence, CacheCoherent, Updating, Changing
  <2>5. deltas[c][ix][n] \in {Unset, db.vec[ix][n]}
    BY <1>1, <2>2 DEF Coherence, Tracked, Accounts
  <2> QED
    BY <2>1, <2>3, <2>4, <2>5, ConstantsAssumption DEF Updated
<1> QED
  BY <1>4, <1>5, <1>6, <1>7, <1>8, <1>9 DEF Coherence

\* Every step of a single connection keeps the matrices coherent.
LEMMA CoherenceStep ==
    ASSUME OneConnection
    PROVE  TypeOK /\ Coherence /\ [Next]_vars => Coherence'
<1> SUFFICES ASSUME TypeOK, Coherence, [Next]_vars PROVE Coherence'
  OBVIOUS
<1>1. CASE UNCHANGED vars
  <2>1. UNCHANGED <<db, conn, kind, pc, view, deltas, miss, matrices>>
    BY <1>1 DEF vars, cache
  <2>2. Exclusive' /\ Readers' /\ Ids'
    BY <2>1 DEF Coherence, Exclusive, Readers, Ids
  <2>3. Tracked'
    BY <2>1, TrackedStays DEF Coherence
  <2>4. Owned' /\ CacheCoherent'
    BY <2>1 DEF Coherence, Owned, CacheCoherent
  <2> QED
    BY <2>2, <2>3, <2>4 DEF Coherence
<1>2. ASSUME NEW c \in Clients, BeginRead(c) PROVE Coherence'
  BY <1>2, BeginCoherent DEF Kinds
<1> QED
  BY <1>1, <1>2, BeginCoherent, AbandonCoherent, CommitCoherent, WriteCoherent, SchemaCoherent,
     LookupCoherent, InstallCoherent, ApplyCoherent DEF Next

\* With one connection and one writing client, every search through a shared
\* matrix agrees with the database up to the batch that client is applying.
THEOREM OneConnectionCoherent ==
    ASSUME OneConnection
    PROVE  Spec => []CacheCoherent
<1>1. Coherence => CacheCoherent
  BY DEF Coherence
<1> QED
  BY <1>1, InitCoherence, CoherenceStep, TypeCorrect, PTL DEF Spec

\* ... and no matrix outlives its index.
THEOREM OneConnectionOwned ==
    ASSUME OneConnection
    PROVE  Spec => []NoOrphanMatrix
<1>1. Coherence => NoOrphanMatrix
  BY DEF Coherence, Owned, NoOrphanMatrix
<1> QED
  BY <1>1, InitCoherence, CoherenceStep, TypeCorrect, PTL DEF Spec
==============================================================================
