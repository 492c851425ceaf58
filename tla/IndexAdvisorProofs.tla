-------------------------- MODULE IndexAdvisorProofs --------------------------
(***************************************************************************)
(* Theorems about IndexAdvisor for every number of clients and keys, every *)
(* threshold and cap, every way to open the database, and a disk that may  *)
(* fail at any commit and any CREATE INDEX.                                *)
(***************************************************************************)
EXTENDS IndexAdvisor, FiniteSetTheorems, TLAPS

-----------------------------------------------------------------------------
(* Type correctness, and whose the two locks are.                          *)

Shape == TypeOK /\ handle \in Handles

\* handle is one of the ways to open a database.
LEMMA HandleType == ASSUME Shape PROVE handle.pool \in BOOLEAN /\ handle.readOnly \in BOOLEAN
  BY AdvisorAssumption DEF Shape, Handle

\* A handle starts with both locks free and an empty picture.
LEMMA InitShape == Init => Shape
<1> SUFFICES ASSUME Init PROVE Shape
  OBVIOUS
<1> USE AdvisorAssumption
<1>1. /\ {actual, work, indexed, retired, wanted, build} \subseteq SUBSET Keys
      /\ queue \subseteq SUBSET Keys
  BY DEF Init
<1>2. /\ scans \in [Keys -> 0..ScansBefore]
      /\ view \in [Clients -> SUBSET Keys]
      /\ taken \in [Clients -> SUBSET Keys]
  BY DEF Init
<1> QED
  BY <1>1, <1>2 DEF Init, Shape, TypeOK

\* A client that leaves the connection, wherever it goes on.
LEMMA DisconnectShape ==
    ASSUME Shape, NEW c \in Clients, pc[c] \in {"open", "aborting"},
           NEW label \in {"idle", "ended", "unreset"}, Disconnect(c, label),
           actual' \in SUBSET Keys, UNCHANGED advisor
    PROVE  Shape'
<1> USE AdvisorAssumption
<1>1. /\ pc' = [pc EXCEPT ![c] = label] /\ conn = c /\ conn' = Nobody /\ work' = {}
      /\ UNCHANGED <<view, mu, kind, key, taken, queue, build, bpc, status, handle>>
  BY DEF Disconnect, Goto, builds, session
<1>2. /\ {actual, work, indexed, retired, wanted, build}' \subseteq SUBSET Keys
      /\ pc' \in [Clients -> {"idle", "open", "wants", "noting", "unreset", "aborting", "ended", "took"}]
  BY <1>1 DEF Shape, TypeOK, advisor
<1>3. \A d \in Clients :
        /\ mu' = d <=> pc'[d] = "noting"
        /\ key'[d] # NoKey <=> pc'[d] \in {"wants", "noting"}
        /\ conn' = d <=> pc'[d] \in {"open", "wants", "noting", "aborting"} /\ ~OnPool(d)'
  BY <1>1 DEF Shape, TypeOK, OnPool
<1>4. /\ mu' = Builder <=> bpc' = "locked"
      /\ conn' = Builder <=> bpc' \in {"begun", "locked", "built"}
  BY <1>1 DEF Shape, TypeOK
<1> QED
  BY <1>1, <1>2, <1>3, <1>4 DEF Shape, TypeOK, advisor

\* noteScan's outcomes stay within the types.
LEMMA NoteScanTypes ==
    ASSUME Shape, NEW c \in Clients, NoteScan(c)
    PROVE  /\ key[c] \in Keys /\ Known(c) \in SUBSET Keys /\ Counted(c) \in [Keys -> 0..ScansBefore]
           /\ {work, indexed, retired, wanted}' \subseteq SUBSET Keys
           /\ scans' \in [Keys -> 0..ScansBefore] /\ loaded' \in BOOLEAN
<1> USE AdvisorAssumption
<1>1. key[c] \in Keys
  BY DEF NoteScan, Shape, TypeOK
<1>2. Known(c) \in SUBSET Keys
  BY DEF Known, Sees, Shape, TypeOK
<1>3. Counted(c) \in [Keys -> 0..ScansBefore]
  BY <1>1 DEF Counted, Shape, TypeOK
<1>4. CASE LoadFails(c)
  BY <1>1, <1>2, <1>3, <1>4 DEF LoadFails, Shape, TypeOK
<1>5. CASE OnlyCount(c)
  BY <1>1, <1>2, <1>3, <1>5 DEF OnlyCount, Shape, TypeOK
<1>6. CASE Act(c)
  BY <1>1, <1>2, <1>3, <1>6 DEF Act, Ask, Create, CreateFails, Shape, TypeOK
<1> QED
  BY <1>1, <1>2, <1>3, <1>4, <1>5, <1>6 DEF NoteScan

\* No step of a client, of a build or of Close breaks the shape.
LEMMA NextShape == Shape /\ [Next]_vars => Shape'
<1> SUFFICES ASSUME Shape, [Next]_vars PROVE Shape'
  OBVIOUS
<1> USE AdvisorAssumption, HandleType DEF database, session, advisor, client, builds, Goto
<1>1. ASSUME NEW c \in Clients, BeginRead(c) PROVE Shape'
  BY <1>1 DEF BeginRead, Shape, TypeOK, OnPool
<1>2. ASSUME NEW c \in Clients, NEW k \in {"write", "tx"}, BeginUpdate(c, k) PROVE Shape'
  BY <1>2 DEF BeginUpdate, Shape, TypeOK, OnPool
<1>3. ASSUME NEW c \in Clients, NEW k \in Keys, Scan(c, k) PROVE Shape'
  BY <1>3 DEF Scan, Shape, TypeOK, OnPool
<1>4. ASSUME NEW c \in Clients, Lock(c) PROVE Shape'
  BY <1>4 DEF Lock, Shape, TypeOK, OnPool
<1>5. ASSUME NEW c \in Clients, NoteScan(c) PROVE Shape'
  <2>1. /\ {actual, work, indexed, retired, wanted, build}' \subseteq SUBSET Keys
        /\ scans' \in [Keys -> 0..ScansBefore] /\ loaded' \in BOOLEAN
    <3>1. actual' = actual /\ build' = build
      BY <1>5 DEF NoteScan
    <3>2. {actual, build} \subseteq SUBSET Keys
      BY DEF Shape, TypeOK
    <3> QED
      BY <1>5, <3>1, <3>2, NoteScanTypes
  <2>2. /\ pc[c] = "noting" /\ mu' = Nobody
        /\ pc' = [pc EXCEPT ![c] = "open"] /\ key' = [key EXCEPT ![c] = NoKey]
        /\ UNCHANGED <<view, conn, kind, taken, queue, build, bpc, status, handle>>
    BY <1>5 DEF NoteScan
  <2>3. /\ pc' \in [Clients -> {"idle", "open", "wants", "noting", "unreset", "aborting", "ended", "took"}]
        /\ key' \in [Clients -> Keys \cup {NoKey}]
    BY <2>2 DEF Shape, TypeOK
  <2>4. \A d \in Clients :
          /\ mu' = d <=> pc'[d] = "noting"
          /\ key'[d] # NoKey <=> pc'[d] \in {"wants", "noting"}
          /\ conn' = d <=> pc'[d] \in {"open", "wants", "noting", "aborting"} /\ ~OnPool(d)'
    BY <2>2 DEF Shape, TypeOK, OnPool
  <2>5. mu' = Builder <=> bpc' = "locked"
    BY <2>2 DEF Shape, TypeOK
  <2> QED
    BY <2>1, <2>2, <2>3, <2>4, <2>5 DEF Shape, TypeOK
<1>6. ASSUME NEW c \in Clients, Reset(c) \/ ResetFirst(c) PROVE Shape'
  <2>1. /\ \/ pc[c] = "unreset" /\ pc'[c] \in {"idle", "ended"}
           \/ pc[c] = "open" /\ pc'[c] = "aborting"
        /\ pc' \in [Clients -> {"idle", "open", "wants", "noting", "unreset", "aborting", "ended", "took"}]
        /\ \A d \in Clients \ {c} : pc'[d] = pc[d]
    BY <1>6 DEF Reset, ResetFirst, Shape, TypeOK
  <2>2. /\ UNCHANGED <<actual, work, view, conn, mu, kind, key, indexed, scans, retired, wanted,
                       taken, queue, build, bpc, status, handle>>
        /\ loaded' \in BOOLEAN
    <3>1. CASE Reset(c)
      BY <3>1 DEF Reset
    <3>2. CASE ResetFirst(c)
      BY <3>2 DEF ResetFirst
    <3> QED
      BY <1>6, <3>1, <3>2
  <2>3. \A d \in Clients :
          /\ mu' = d <=> pc'[d] = "noting"
          /\ key'[d] # NoKey <=> pc'[d] \in {"wants", "noting"}
          /\ conn' = d <=> pc'[d] \in {"open", "wants", "noting", "aborting"} /\ ~OnPool(d)'
    <3> TAKE d \in Clients
    <3>1. CASE d = c
      BY <2>1, <2>2, <3>1 DEF Shape, TypeOK, OnPool
    <3>2. CASE d # c
      BY <2>1, <2>2, <3>2 DEF Shape, TypeOK, OnPool
    <3> QED
      BY <3>1, <3>2
  <2> QED
    BY <2>1, <2>2, <2>3 DEF Shape, TypeOK
<1>7. ASSUME NEW c \in Clients, Rollback(c) \/ Commit(c) \/ FailStatement(c) \/ CommitFails(c)
      PROVE  Shape'
  <2>1. /\ pc[c] \in {"open", "aborting"} /\ UNCHANGED advisor
        /\ actual' \in SUBSET Keys
    BY <1>7 DEF Rollback, Commit, FailStatement, CommitFails, Shape, TypeOK
  <2>2. \E label \in {"idle", "ended", "unreset"} : Disconnect(c, label)
    BY <1>7 DEF Rollback, Commit, FailStatement, CommitFails
  <2> QED
    BY <2>1, <2>2, DisconnectShape
<1>8. ASSUME NEW c \in Clients, Take(c) \/ PassOn(c) PROVE Shape'
  <2>1. /\ {actual, work, indexed, retired, wanted, build}' \subseteq SUBSET Keys
        /\ queue' \subseteq SUBSET Keys /\ taken' \in [Clients -> SUBSET Keys]
    BY <1>8 DEF Take, PassOn, Shape, TypeOK
  <2>2. /\ pc[c] \in {"ended", "took"} /\ pc'[c] \in {"idle", "took"}
        /\ pc' \in [Clients -> {"idle", "open", "wants", "noting", "unreset", "aborting", "ended", "took"}]
        /\ kind' \in [Clients -> {"none", "read", "write", "tx"}]
        /\ \A d \in Clients \ {c} : pc'[d] = pc[d] /\ kind'[d] = kind[d]
    BY <1>8 DEF Take, PassOn, Shape, TypeOK
  <2>3. UNCHANGED <<view, conn, mu, key, loaded, scans, bpc, status, handle>>
    BY <1>8 DEF Take, PassOn
  <2>4. \A d \in Clients :
          /\ mu' = d <=> pc'[d] = "noting"
          /\ key'[d] # NoKey <=> pc'[d] \in {"wants", "noting"}
          /\ conn' = d <=> pc'[d] \in {"open", "wants", "noting", "aborting"} /\ ~OnPool(d)'
    <3> TAKE d \in Clients
    <3>1. CASE d = c
      BY <2>2, <2>3, <3>1 DEF Shape, TypeOK, OnPool
    <3>2. CASE d # c
      BY <2>2, <2>3, <3>2 DEF Shape, TypeOK, OnPool
    <3> QED
      BY <3>1, <3>2
  <2> QED
    BY <2>1, <2>2, <2>3, <2>4 DEF Shape, TypeOK
<1>9. ASSUME NEW c \in Clients, EndRead(c) PROVE Shape'
  BY <1>9 DEF EndRead, Shape, TypeOK, OnPool
<1>10. ASSUME NEW job \in queue, BuildBegin(job) \/ BuildNotBegun(job) PROVE Shape'
  BY <1>10 DEF BuildBegin, BuildNotBegun, Shape, TypeOK, OnPool
<1>11. CASE BuildLock
  BY <1>11 DEF BuildLock, Shape, TypeOK, OnPool
<1>12. CASE CreateIndexes
  <2>1. /\ {actual, work, indexed, retired, wanted, build}' \subseteq SUBSET Keys
    BY <1>12 DEF CreateIndexes, Shape, TypeOK
  <2> QED
    BY <1>12, <2>1 DEF CreateIndexes, Shape, TypeOK, OnPool
<1>13. CASE BuildCommit \/ BuildFails
  BY <1>13 DEF BuildCommit, BuildFails, Shape, TypeOK, OnPool
<1>14. CASE BuildReset
  <2>1. {actual, work, indexed, retired, wanted, build}' \subseteq SUBSET Keys
    BY <1>14 DEF BuildReset, Shape, TypeOK
  <2> QED
    BY <1>14, <2>1 DEF BuildReset, Shape, TypeOK, OnPool
<1>15. CASE Close \/ Release
  BY <1>15 DEF Close, Release, Shape, TypeOK, OnPool
<1>16. CASE UNCHANGED vars
  BY <1>16 DEF vars, Shape, TypeOK, OnPool
<1> QED
  BY <1>1, <1>2, <1>3, <1>4, <1>5, <1>6, <1>7, <1>8, <1>9, <1>10, <1>11, <1>12, <1>13, <1>14,
     <1>15, <1>16 DEF Next, GoOn, End, Undo, Build

\* The shape, for the theorems below.
LEMMA ShapeHolds == Spec => []Shape
  BY InitShape, NextShape, PTL DEF Spec

\* The state keeps its shape, and the two locks have the owners the code gives
\* them: a transaction off the read pool the connection from begin to end, noteScan
\* and CreateIndexes Engine.mu.
THEOREM LocksOwned == Spec => []TypeOK
<1>1. Shape => TypeOK
  BY DEF Shape
<1> QED
  BY <1>1, ShapeHolds, PTL

\* How the database was opened never changes.
LEMMA HandleKept == [Next]_vars => handle' = handle
  BY DEF Next, GoOn, End, Undo, Build, BeginRead, BeginUpdate, Scan, Lock, NoteScan, Reset, Rollback,
     EndRead, Commit, FailStatement, CommitFails, ResetFirst, Disconnect, Take, PassOn, BuildBegin,
     BuildNotBegun, BuildLock, CreateIndexes, BuildCommit, BuildFails, BuildReset, Close, Release, vars, session

-----------------------------------------------------------------------------
(* Indexes are only ever added.  The transaction on the write connection    *)
(* sees at least the committed ones, a snapshot of the pool at most those,  *)
(* and off the connection there is no transaction to see any.               *)

Snapshots ==
    /\ \A c \in Clients : view[c] \subseteq actual
    /\ conn # Nobody => actual \subseteq work
    /\ conn = Nobody => work = {}
    /\ \A c \in Clients : pc[c] = "aborting" => kind[c] = "tx"

\* Transactions start from the committed indexes, and a commit publishes theirs.
LEMMA SnapshotsStep == Shape /\ Snapshots /\ [Next]_vars => Snapshots'
<1> SUFFICES ASSUME Shape, Snapshots, [Next]_vars PROVE Snapshots'
  OBVIOUS
<1> USE AdvisorAssumption DEF database, session, advisor, client, builds, Goto
<1>1. ASSUME NEW c \in Clients, BeginRead(c) PROVE Snapshots'
  BY <1>1 DEF BeginRead, Shape, TypeOK, Snapshots
<1>2. ASSUME NEW c \in Clients, NEW k \in {"write", "tx"}, BeginUpdate(c, k) PROVE Snapshots'
  BY <1>2 DEF BeginUpdate, Shape, TypeOK, Snapshots
<1>3. ASSUME NEW c \in Clients,
             \/ (\E k \in Keys : Scan(c, k)) \/ Lock(c) \/ Reset(c) \/ ResetFirst(c)
             \/ Take(c) \/ PassOn(c)
      PROVE  Snapshots'
  BY <1>3 DEF Scan, Lock, Reset, ResetFirst, Take, PassOn, Shape, TypeOK, Snapshots
<1>4. ASSUME NEW c \in Clients, NoteScan(c) PROVE Snapshots'
  <2>1. \/ work' = work
        \/ ~OnPool(c) /\ work' = work \cup {key[c]}
    BY <1>4 DEF NoteScan, LoadFails, OnlyCount, Act, Ask, Create, CreateFails
  <2>2. /\ UNCHANGED <<actual, view, conn, kind>> /\ pc[c] = "noting"
        /\ \A d \in Clients : pc'[d] = "aborting" => pc[d] = "aborting"
    BY <1>4 DEF NoteScan, Shape, TypeOK
  <2>3. ~OnPool(c) => conn # Nobody
    BY <2>2 DEF Shape, TypeOK
  <2> QED
    BY <2>1, <2>2, <2>3 DEF Snapshots
<1>5. ASSUME NEW c \in Clients, Rollback(c) \/ Commit(c) \/ FailStatement(c) \/ CommitFails(c)
      PROVE  Snapshots'
  BY <1>5 DEF Rollback, Commit, FailStatement, CommitFails, Disconnect, Shape, TypeOK, Snapshots
<1>6. ASSUME NEW c \in Clients, EndRead(c) PROVE Snapshots'
  BY <1>6 DEF EndRead, Shape, TypeOK, Snapshots
<1>7. ASSUME NEW job \in queue, BuildBegin(job) \/ BuildNotBegun(job) PROVE Snapshots'
  BY <1>7 DEF BuildBegin, BuildNotBegun, Shape, TypeOK, Snapshots
<1>8. CASE CreateIndexes
  <2>1. /\ work \subseteq work' /\ conn = Builder
        /\ UNCHANGED <<actual, view, conn, pc, kind>>
    BY <1>8 DEF CreateIndexes, Shape, TypeOK
  <2> QED
    BY <2>1 DEF Snapshots
<1>9. CASE BuildCommit \/ BuildFails
  BY <1>9 DEF BuildCommit, BuildFails, Shape, TypeOK, Snapshots
<1>10. CASE BuildLock \/ BuildReset \/ Close \/ Release
  BY <1>10 DEF BuildLock, BuildReset, Close, Release, Snapshots
<1>11. CASE UNCHANGED vars
  BY <1>11 DEF vars, Snapshots
<1> QED
  BY <1>1, <1>2, <1>3, <1>4, <1>5, <1>6, <1>7, <1>8, <1>9, <1>10, <1>11 DEF Next, GoOn, End, Undo, Build

\* The three facts about snapshots hold throughout.
LEMMA SnapshotsHold == Spec => []Snapshots
<1>1. Init => Snapshots
  BY DEF Init, Snapshots
<1> QED
  BY <1>1, ShapeHolds, SnapshotsStep, PTL DEF Spec

-----------------------------------------------------------------------------
(* No phantom index.  A Tx that has reset the advisor and not yet rolled    *)
(* back still has its creations in work: nobody may take them for real.     *)

PhantomFree ==
    /\ NoPhantomIndex
    /\ \A c \in Clients : pc[c] = "aborting" => ~loaded \/ indexed \subseteq actual \cup lost

Owed == bpc = "unreset" \/ \E c \in Clients : pc[c] = "unreset"

\* The picture grows by what a transaction sees or creates; a rollback that takes
\* something of it away leaves its client, or the build, owing a reset.
LEMMA PhantomFreeStep == Shape /\ Snapshots /\ PhantomFree /\ [Next]_vars => PhantomFree'
<1> SUFFICES ASSUME Shape, Snapshots, PhantomFree, [Next]_vars PROVE PhantomFree'
  OBVIOUS
<1> USE AdvisorAssumption DEF database, session, advisor, client, builds, Goto
<1>0. NoPhantomIndex <=> ~loaded \/ indexed \subseteq actual \cup work \cup lost \/ Owed
  BY DEF NoPhantomIndex, Owed
<1>00. NoPhantomIndex' <=> ~loaded' \/ indexed' \subseteq actual' \cup work' \cup lost' \/ Owed'
  BY DEF NoPhantomIndex, Owed
<1>1. ASSUME loaded' = loaded, indexed' = indexed, lost' = lost, actual' = actual,
             work \subseteq work', Owed => Owed',
             \A d \in Clients : pc'[d] = "aborting" => pc[d] = "aborting"
      PROVE  PhantomFree'
  BY <1>0, <1>00, <1>1 DEF PhantomFree
<1>2. ASSUME NEW c \in Clients,
             BeginRead(c) \/ (\E k \in {"write", "tx"} : BeginUpdate(c, k))
      PROVE  PhantomFree'
  BY <1>1, <1>2 DEF BeginRead, BeginUpdate, Shape, TypeOK, Snapshots, Owed
<1>3. ASSUME NEW c \in Clients,
             (\E k \in Keys : Scan(c, k)) \/ Lock(c) \/ Take(c) \/ PassOn(c) \/ EndRead(c)
      PROVE  PhantomFree'
  BY <1>1, <1>3 DEF Scan, Lock, Take, PassOn, EndRead, Shape, TypeOK, Owed
<1>4. ASSUME NEW c \in Clients, Reset(c) PROVE PhantomFree'
  BY <1>00, <1>4 DEF Reset, PhantomFree
<1>5. ASSUME NEW c \in Clients, ResetFirst(c) PROVE PhantomFree'
  BY <1>00, <1>5 DEF ResetFirst, PhantomFree
<1>6. ASSUME NEW c \in Clients, NoteScan(c) PROVE PhantomFree'
  <2>1. /\ UNCHANGED <<actual, lost, bpc>> /\ pc[c] = "noting"
        /\ \A d \in Clients : pc'[d] = (IF d = c THEN "open" ELSE pc[d])
    BY <1>6 DEF NoteScan, Shape, TypeOK
  <2>2. Owed => Owed'
    BY <2>1 DEF Owed
  <2>3. OnPool(c) => Sees(c) \subseteq actual
    BY DEF Sees, Snapshots
  <2>4. ~OnPool(c) => /\ Sees(c) = work
                      /\ \A d \in Clients : pc[d] # "aborting"
    BY <2>1 DEF Sees, OnPool, Shape, TypeOK, Snapshots
  <2>5. CASE LoadFails(c)
    BY <1>00, <2>1, <2>5 DEF LoadFails, PhantomFree
  <2>6. CASE indexed' = Known(c) /\ work' = work
    BY <1>0, <1>00, <2>1, <2>2, <2>3, <2>4, <2>6 DEF Known, PhantomFree
  <2>7. CASE ~OnPool(c) /\ indexed' = Known(c) \cup {key[c]} /\ work' = work \cup {key[c]}
    BY <1>0, <1>00, <2>1, <2>2, <2>4, <2>7 DEF Known, PhantomFree
  <2> QED
    BY <1>6, <2>5, <2>6, <2>7 DEF NoteScan, OnlyCount, Act, Ask, Create, CreateFails
<1>7. ASSUME NEW c \in Clients, Commit(c) PROVE PhantomFree'
  <2>1. /\ UNCHANGED <<loaded, indexed, lost, bpc>> /\ actual' = work /\ work' = {}
        /\ actual \subseteq work /\ pc[c] = "open"
    BY <1>7 DEF Commit, Disconnect, Shape, TypeOK, Snapshots
  <2>2. \A d \in Clients : pc'[d] = "aborting" => pc[d] = "aborting"
    BY <1>7 DEF Commit, Disconnect, Shape, TypeOK
  <2>3. Owed => Owed'
    BY <1>7, <2>1 DEF Commit, Disconnect, Shape, TypeOK, Owed
  <2> QED
    BY <1>0, <1>00, <2>1, <2>2, <2>3 DEF PhantomFree
<1>8. ASSUME NEW c \in Clients, FailStatement(c) \/ CommitFails(c) PROVE PhantomFree'
  <2>1. /\ UNCHANGED <<loaded, indexed, actual, bpc>> /\ work' = {} /\ lost \subseteq lost'
        /\ pc[c] = "open"
    BY <1>8 DEF FailStatement, CommitFails, Disconnect
  <2>2. \A d \in Clients : pc'[d] = "aborting" => pc[d] = "aborting"
    BY <1>8 DEF FailStatement, CommitFails, Disconnect, Shape, TypeOK
  <2>3. \/ Owed'
        \/ (Owed => Owed') /\ lost' = lost \cup (work \ actual)
    BY <1>8 DEF FailStatement, CommitFails, Disconnect, Shape, TypeOK, Owed
  <2> QED
    BY <1>0, <1>00, <2>1, <2>2, <2>3 DEF PhantomFree
<1>9. ASSUME NEW c \in Clients, Rollback(c) PROVE PhantomFree'
  <2>1. /\ UNCHANGED <<loaded, indexed, actual, lost>> /\ pc[c] = "aborting"
    BY <1>9 DEF Rollback, Disconnect
  <2>2. \A d \in Clients : pc'[d] = "aborting" => pc[d] = "aborting"
    BY <1>9 DEF Rollback, Disconnect, Shape, TypeOK
  <2> QED
    BY <1>00, <2>1, <2>2 DEF PhantomFree
<1>10. ASSUME NEW job \in queue, BuildBegin(job) \/ BuildNotBegun(job) PROVE PhantomFree'
  BY <1>1, <1>10 DEF BuildBegin, BuildNotBegun, Snapshots, Owed
<1>11. CASE BuildLock \/ Close \/ Release
  BY <1>1, <1>11 DEF BuildLock, Close, Release, Owed
<1>12. CASE CreateIndexes
  <2>1. PICK made : work' = work \cup made /\ indexed' = indexed \cup made
    BY <1>12 DEF CreateIndexes
  <2>2. /\ UNCHANGED <<loaded, actual, lost, pc>> /\ bpc # "unreset"
        /\ \A d \in Clients : pc[d] # "aborting"
    BY <1>12 DEF CreateIndexes, Shape, TypeOK, Snapshots, OnPool
  <2>3. Owed => Owed'
    BY <2>2 DEF Owed
  <2> QED
    BY <1>0, <1>00, <2>1, <2>2, <2>3 DEF PhantomFree
<1>13. CASE BuildCommit
  <2>1. /\ UNCHANGED <<loaded, indexed, lost, pc>> /\ actual' = work /\ work' = {}
        /\ actual \subseteq work /\ bpc # "unreset"
    BY <1>13 DEF BuildCommit, Shape, TypeOK, Snapshots
  <2>2. Owed => Owed'
    BY <2>1 DEF Owed
  <2> QED
    BY <1>0, <1>00, <2>1, <2>2 DEF PhantomFree
<1>14. CASE BuildFails
  <2>1. Owed' /\ UNCHANGED <<loaded, indexed, lost, actual, pc>>
    BY <1>14 DEF BuildFails, Owed
  <2> QED
    BY <1>00, <2>1 DEF PhantomFree
<1>15. CASE BuildReset
  BY <1>00, <1>15 DEF BuildReset, PhantomFree
<1>16. CASE UNCHANGED vars
  BY <1>1, <1>16 DEF vars, Owed
<1> QED
  BY <1>2, <1>3, <1>4, <1>5, <1>6, <1>7, <1>8, <1>9, <1>10, <1>11, <1>12, <1>13, <1>14,
     <1>15, <1>16 DEF Next, GoOn, End, Undo, Build

\* Apart from the resets that rollbacks still owe it, and from what the failed
\* commit of a RunQuery undid, the advisor believes in no index that is neither
\* committed nor being created.
THEOREM NoPhantoms == Spec => []NoPhantomIndex
<1>1. Init => PhantomFree
  BY DEF Init, PhantomFree, NoPhantomIndex
<1>2. PhantomFree => NoPhantomIndex
  BY DEF PhantomFree
<1> QED
  BY <1>1, <1>2, ShapeHolds, SnapshotsHold, PhantomFreeStep, PTL DEF Spec

-----------------------------------------------------------------------------
(* A key is asked for, queued or being built once: from the moment a read   *)
(* asks for it, it is retired for good.                                     *)

AskedOnce ==
    /\ QueuedOnce
    /\ wanted \cup build \cup UNION queue \subseteq retired
    /\ \A c \in Clients : taken[c] \subseteq retired

\* A request moves from wanted to the statement that takes it, to the queue and to
\* the build; only Ask makes one.
LEMMA AskedOnceStep == Shape /\ AskedOnce /\ [Next]_vars => AskedOnce'
<1> SUFFICES ASSUME Shape, AskedOnce, [Next]_vars PROVE AskedOnce'
  OBVIOUS
<1> USE AdvisorAssumption DEF database, session, advisor, client, builds, Goto
<1>1. ASSUME UNCHANGED <<wanted, taken, queue>>, build' \in {build, {}}, retired \subseteq retired'
      PROVE  AskedOnce'
  BY <1>1 DEF AskedOnce, QueuedOnce
<1>2. ASSUME NEW c \in Clients,
             \/ BeginRead(c) \/ (\E k \in {"write", "tx"} : BeginUpdate(c, k))
             \/ (\E k \in Keys : Scan(c, k)) \/ Lock(c) \/ Reset(c) \/ Rollback(c)
             \/ End(c) \/ Undo(c)
      PROVE  AskedOnce'
  BY <1>1, <1>2 DEF BeginRead, BeginUpdate, Scan, Lock, Reset, Rollback, End, Undo, EndRead, Commit,
     FailStatement, CommitFails, ResetFirst, Disconnect
<1>3. ASSUME NEW c \in Clients, NoteScan(c) PROVE AskedOnce'
  <2>1. UNCHANGED <<taken, queue, build>>
    BY <1>3 DEF NoteScan
  <2>2. CASE Act(c) /\ Ask(c)
    <3>1. key[c] \notin retired /\ wanted' = wanted \cup {key[c]} /\ retired' = retired \cup {key[c]}
      BY <2>2 DEF Act, Ask, WorthIndexing
    <3> QED
      BY <2>1, <3>1 DEF AskedOnce, QueuedOnce
  <2>3. CASE wanted' = wanted /\ retired \subseteq retired'
    BY <1>1, <2>1, <2>3
  <2> QED
    BY <1>3, <2>2, <2>3 DEF NoteScan, LoadFails, OnlyCount, Act, Create, CreateFails
<1>4. ASSUME NEW c \in Clients, Take(c) PROVE AskedOnce'
  <2>1. /\ wanted' = {} /\ taken' = [taken EXCEPT ![c] = wanted]
        /\ UNCHANGED <<queue, build, retired>>
    BY <1>4 DEF Take
  <2> QED
    BY <2>1 DEF AskedOnce, QueuedOnce, Shape, TypeOK
<1>5. ASSUME NEW c \in Clients, PassOn(c) PROVE AskedOnce'
  <2>1. /\ taken' = [taken EXCEPT ![c] = {}] /\ queue' \in {queue, queue \cup {taken[c]}}
        /\ UNCHANGED <<wanted, build, retired>>
    BY <1>5 DEF PassOn
  <2> QED
    BY <2>1 DEF AskedOnce, QueuedOnce, Shape, TypeOK
<1>8. ASSUME NEW job \in queue, BuildBegin(job) \/ BuildNotBegun(job) PROVE AskedOnce'
  <2>1. /\ queue' = queue \ {job} /\ build' \in {build, job}
        /\ UNCHANGED <<wanted, taken, retired>>
    BY <1>8 DEF BuildBegin, BuildNotBegun
  <2> QED
    BY <2>1 DEF AskedOnce, QueuedOnce
<1>6. CASE \/ BuildLock \/ CreateIndexes \/ BuildCommit \/ BuildFails \/ BuildReset
           \/ Close \/ Release
  BY <1>1, <1>6 DEF BuildLock, CreateIndexes, BuildCommit, BuildFails, BuildReset, Close, Release
<1>7. CASE UNCHANGED vars
  BY <1>1, <1>7 DEF vars
<1> QED
  BY <1>2, <1>3, <1>4, <1>5, <1>6, <1>7, <1>8 DEF Next, GoOn, Build

\* noteScan's "do not queue it again": whoever asks and whoever takes the request,
\* no key is asked for, taken, queued or being built twice at a time.
THEOREM NeverQueuedAgain == Spec => []QueuedOnce
<1>1. Init => AskedOnce
  BY DEF Init, AskedOnce, QueuedOnce
<1>2. AskedOnce => QueuedOnce
  BY DEF AskedOnce
<1> QED
  BY <1>1, <1>2, ShapeHolds, AskedOnceStep, PTL DEF Spec

-----------------------------------------------------------------------------
(* Close.                                                                  *)

\* Only PassOn adds to the queue, while the handle is open; a build starts from
\* the queue only.
LEMMA NoBuildAfterCloseStep == Shape /\ NoBuildAfterClose /\ [Next]_vars => NoBuildAfterClose'
<1> SUFFICES ASSUME Shape, NoBuildAfterClose, [Next]_vars PROVE NoBuildAfterClose'
  OBVIOUS
<1> USE DEF database, session, advisor, client, builds, NoBuildAfterClose
<1>1. ASSUME UNCHANGED <<queue, bpc, status>> PROVE NoBuildAfterClose'
  BY <1>1
<1>2. ASSUME NEW c \in Clients,
             \/ BeginRead(c) \/ (\E k \in {"write", "tx"} : BeginUpdate(c, k))
             \/ (\E k \in Keys : Scan(c, k)) \/ Lock(c) \/ NoteScan(c) \/ Reset(c) \/ Rollback(c)
             \/ Take(c) \/ End(c) \/ Undo(c)
      PROVE  NoBuildAfterClose'
  BY <1>1, <1>2 DEF BeginRead, BeginUpdate, Scan, Lock, NoteScan, Take, Reset, Rollback, End, Undo, EndRead,
     Commit, FailStatement, CommitFails, ResetFirst, Disconnect
<1>3. ASSUME NEW c \in Clients, PassOn(c) PROVE NoBuildAfterClose'
  BY <1>3 DEF PassOn, StartsBuilds
<1>4. CASE Build
  BY <1>4 DEF Build, BuildBegin, BuildNotBegun, BuildLock, CreateIndexes, BuildCommit, BuildFails, BuildReset
<1>5. CASE Close \/ Release
  BY <1>5 DEF Close, Release
<1>6. CASE UNCHANGED vars
  BY <1>6 DEF vars
<1> QED
  BY <1>2, <1>3, <1>4, <1>5, <1>6 DEF Next, GoOn

\* Once Close has let go of the connections no build is queued or under way, and
\* none ever is again.
THEOREM CloseIsFinal == Spec => []NoBuildAfterClose
<1>1. Init => NoBuildAfterClose
  BY DEF Init, NoBuildAfterClose
<1> QED
  BY <1>1, ShapeHolds, NoBuildAfterCloseStep, PTL DEF Spec

-----------------------------------------------------------------------------
(* A read-only database: nothing but reads, and no background build.       *)

OnlyReads ==
    handle.readOnly =>
        /\ queue = {} /\ bpc = "idle"
        /\ \A c \in Clients : \/ kind[c] = "read"
                              \/ kind[c] = "none" /\ pc[c] \in {"idle", "took"}

\* What a step of a read-only database may do to its indexes.
OnlyReadsCommit ==
    handle.readOnly /\ actual' # actual
        => ~handle.pool /\ conn \in Clients /\ kind[conn] = "read" /\ actual' = work

\* A transaction of a read-only database is a read, so one that commits is off the
\* pool; and the requests of its reads are passed on to nobody.
LEMMA OnlyReadsStep == Shape /\ OnlyReads /\ [Next]_vars => OnlyReads' /\ OnlyReadsCommit
<1> SUFFICES ASSUME Shape, OnlyReads, [Next]_vars, handle.readOnly
             PROVE  OnlyReads' /\ OnlyReadsCommit
  BY HandleKept DEF OnlyReads, OnlyReadsCommit
<1> USE AdvisorAssumption DEF database, session, advisor, client, builds, Goto
<1>1. /\ queue = {} /\ bpc = "idle"
      /\ \A c \in Clients : \/ kind[c] = "read"
                            \/ kind[c] = "none" /\ pc[c] \in {"idle", "took"}
  BY DEF OnlyReads
<1>2. ASSUME UNCHANGED <<actual, queue, bpc>>,
             \A d \in Clients : \/ kind'[d] = "read"
                                \/ kind'[d] = "none" /\ pc'[d] \in {"idle", "took"}
      PROVE  OnlyReads' /\ OnlyReadsCommit
  BY <1>2 DEF OnlyReads, OnlyReadsCommit
<1>3. ASSUME NEW c \in Clients, NEW k \in {"write", "tx"}, BeginUpdate(c, k) PROVE FALSE
  BY <1>3 DEF BeginUpdate
<1>4. ASSUME NEW c \in Clients,
             \/ (\E k \in Keys : Scan(c, k)) \/ Lock(c) \/ NoteScan(c) \/ Reset(c) \/ EndRead(c)
             \/ ResetFirst(c) \/ Rollback(c) \/ FailStatement(c) \/ CommitFails(c)
      PROVE  OnlyReads' /\ OnlyReadsCommit
  <2>1. /\ kind[c] = "read"
        /\ UNCHANGED <<actual, kind, queue, bpc>>
        /\ \A d \in Clients \ {c} : pc'[d] = pc[d]
    BY <1>1, <1>4 DEF Scan, Lock, NoteScan, Reset, EndRead, ResetFirst, Rollback, FailStatement,
       CommitFails, Disconnect, Shape, TypeOK
  <2> QED
    BY <1>1, <1>2, <2>1
<1>5. ASSUME NEW c \in Clients, Commit(c) PROVE OnlyReads' /\ OnlyReadsCommit
  <2>1. /\ conn = c /\ pc[c] = "open" /\ kind[c] = "read" /\ actual' = work
        /\ UNCHANGED <<kind, queue, bpc>>
        /\ \A d \in Clients \ {c} : pc'[d] = pc[d]
    BY <1>1, <1>5 DEF Commit, Disconnect, Shape, TypeOK
  <2>2. ~handle.pool
    BY <2>1 DEF Shape, TypeOK, OnPool
  <2> QED
    BY <1>1, <2>1, <2>2 DEF OnlyReads, OnlyReadsCommit
<1>6. ASSUME NEW c \in Clients, BeginRead(c) \/ Take(c) PROVE OnlyReads' /\ OnlyReadsCommit
  <2>1. /\ UNCHANGED <<actual, queue, bpc>>
        /\ \A d \in Clients \ {c} : pc'[d] = pc[d] /\ kind'[d] = kind[d]
        /\ \/ kind'[c] = "read"
           \/ kind'[c] = "none" /\ pc'[c] \in {"idle", "took"}
    BY <1>6 DEF BeginRead, Take, Shape, TypeOK
  <2> QED
    BY <1>1, <1>2, <2>1
<1>7. ASSUME NEW c \in Clients, PassOn(c) PROVE OnlyReads' /\ OnlyReadsCommit
  BY <1>1, <1>2, <1>7 DEF PassOn, StartsBuilds, Shape, TypeOK
<1>8. ASSUME Build PROVE FALSE
  BY <1>1, <1>8 DEF Build, BuildBegin, BuildNotBegun, BuildLock, CreateIndexes, BuildCommit, BuildFails,
     BuildReset
<1>9. CASE Close \/ Release
  BY <1>1, <1>2, <1>9 DEF Close, Release
<1>10. CASE UNCHANGED vars
  BY <1>1, <1>2, <1>10 DEF vars
<1> QED
  BY <1>3, <1>4, <1>5, <1>6, <1>7, <1>8, <1>9, <1>10 DEF Next, GoOn, End, Undo

\* However it was opened and filled, a database opened WithReadOnly gets no index
\* through its read pool and none from a background build; without a pool it gets
\* those its reading statements created and committed, and no other.
THEOREM ReadOnlyIndexes == Spec => ReadOnlyIndexedByReads
<1>1. Init => OnlyReads
  BY DEF Init, OnlyReads
<1>2. OnlyReadsCommit => [handle.readOnly /\ actual' # actual
          => ~handle.pool /\ conn \in Clients /\ kind[conn] = "read" /\ actual' = work]_actual
  BY DEF OnlyReadsCommit
<1> QED
  BY <1>1, <1>2, ShapeHolds, OnlyReadsStep, PTL DEF Spec, ReadOnlyIndexedByReads

-----------------------------------------------------------------------------
(* The cap.  Without a read pool every index is created by the statement    *)
(* that compared the cap, and what it compared, the picture once loaded,    *)
(* then covers all that is committed and all that is being created.         *)

Small(S) == IsFiniteSet(S) /\ Cardinality(S) <= IndexMax

Capped ==
    ~handle.pool =>
        /\ Small(actual) /\ Small(work) /\ IsFiniteSet(indexed)
        /\ loaded => actual \cup work \subseteq indexed
        /\ wanted = {} /\ queue = {} /\ bpc = "idle"
        /\ \A c \in Clients : pc[c] # "took"

\* No index is within the cap, whatever the cap.
LEMMA EmptyIsSmall == Small({})
  BY FS_EmptySet, AdvisorAssumption DEF Small

\* A key added to a part of a set below the cap.
LEMMA AddBelowCap ==
    ASSUME NEW S, NEW T, NEW k, IsFiniteSet(S), Cardinality(S) < IndexMax, T \subseteq S
    PROVE  Small(T \cup {k})
<1>1. IsFiniteSet(T) /\ Cardinality(T) <= Cardinality(S)
  BY FS_Subset
<1>2. Cardinality(S) \in Nat /\ Cardinality(T) \in Nat
  BY <1>1, FS_CardinalityType
<1>3. IsFiniteSet(T \cup {k}) /\ Cardinality(T \cup {k}) \in {Cardinality(T), Cardinality(T) + 1}
  BY <1>1, FS_AddElement
<1> QED
  BY <1>1, <1>2, <1>3, AdvisorAssumption DEF Small

\* Only a CREATE INDEX in a statement's own transaction adds an index; it was
\* compared with the cap, under Engine.mu, in the same step.
LEMMA CappedStep == Shape /\ Snapshots /\ Capped /\ [Next]_vars => Capped'
<1> SUFFICES ASSUME Shape, Snapshots, Capped, [Next]_vars, ~handle.pool
             PROVE  Capped'
  BY HandleKept DEF Capped
<1> USE AdvisorAssumption DEF database, session, advisor, client, builds, Goto
<1>1. /\ Small(actual) /\ Small(work) /\ IsFiniteSet(indexed)
      /\ loaded => actual \cup work \subseteq indexed
      /\ wanted = {} /\ queue = {} /\ bpc = "idle"
      /\ \A c \in Clients : pc[c] # "took"
  BY DEF Capped
<1>2. ASSUME actual' \in {actual, work}, work' \in {actual, work, {}}, indexed' = indexed,
             loaded' => loaded, wanted' = {}, queue' = {}, bpc' = "idle",
             \A d \in Clients : pc'[d] # "took"
      PROVE  Capped'
  BY <1>1, <1>2, EmptyIsSmall DEF Capped
<1>3. ASSUME NEW c \in Clients,
             \/ BeginRead(c) \/ (\E k \in {"write", "tx"} : BeginUpdate(c, k))
             \/ (\E k \in Keys : Scan(c, k)) \/ Lock(c) \/ EndRead(c)
      PROVE  Capped'
  BY <1>1, <1>2, <1>3 DEF BeginRead, BeginUpdate, Scan, Lock, EndRead, Shape, TypeOK
<1>4. ASSUME NEW c \in Clients, Reset(c) \/ ResetFirst(c) PROVE Capped'
  BY <1>1, <1>2, <1>4 DEF Reset, ResetFirst, Shape, TypeOK
<1>5. ASSUME NEW c \in Clients, Rollback(c) \/ Commit(c) \/ FailStatement(c) \/ CommitFails(c)
      PROVE  Capped'
  BY <1>1, <1>2, <1>5 DEF Rollback, Commit, FailStatement, CommitFails, Disconnect,
     Shape, TypeOK
<1>6. ASSUME NEW c \in Clients, NoteScan(c) PROVE Capped'
  <2>1. ~OnPool(c) /\ Sees(c) = work /\ actual \subseteq work
    BY <1>6 DEF NoteScan, OnPool, Sees, Shape, TypeOK, Snapshots
  <2>2. IsFiniteSet(Known(c)) /\ actual \cup work \subseteq Known(c)
    BY <1>1, <2>1 DEF Known, Small
  <2>3. UNCHANGED <<actual, queue, bpc>> /\ \A d \in Clients : pc'[d] # "took"
    BY <1>1, <1>6 DEF NoteScan, Shape, TypeOK
  <2>4. CASE LoadFails(c)
    BY <1>1, <2>3, <2>4, FS_EmptySet DEF LoadFails, Capped
  <2>5. CASE indexed' = Known(c) /\ work' = work /\ wanted' = wanted
    BY <1>1, <2>2, <2>3, <2>5 DEF Capped
  <2>6. CASE Act(c) /\ Create(c)
    <3>1. /\ Cardinality(Known(c)) < IndexMax /\ wanted' = wanted
          /\ work' = work \cup {key[c]} /\ indexed' = Known(c) \cup {key[c]}
      BY <2>6 DEF Act, Create, WorthIndexing
    <3>2. Small(work') /\ IsFiniteSet(indexed')
      BY <2>2, <3>1, AddBelowCap DEF Small
    <3> QED
      BY <1>1, <2>2, <2>3, <3>1, <3>2 DEF Capped
  <2> QED
    BY <1>6, <2>1, <2>4, <2>5, <2>6 DEF NoteScan, OnlyCount, Act, Ask, CreateFails
<1>7. ASSUME NEW c \in Clients, Take(c) \/ PassOn(c) PROVE Capped'
  BY <1>1, <1>2, <1>7 DEF Take, PassOn, Shape, TypeOK
<1>8. ASSUME Build PROVE FALSE
  BY <1>1, <1>8 DEF Build, BuildBegin, BuildNotBegun, BuildLock, CreateIndexes, BuildCommit, BuildFails, BuildReset
<1>9. CASE Close \/ Release
  BY <1>1, <1>2, <1>9 DEF Close, Release
<1>10. CASE UNCHANGED vars
  BY <1>1, <1>2, <1>10 DEF vars
<1> QED
  BY <1>3, <1>4, <1>5, <1>6, <1>7, <1>8, <1>9, <1>10 DEF Next, GoOn, End, Undo

\* Without a read pool, however transactions interleave, roll back and fail to
\* commit, the database never has more than indexMax automatic indexes.
THEOREM CapHolds == Spec => []WithinCap
<1>1. Init => Capped
  BY FS_EmptySet, EmptyIsSmall DEF Init, Capped, Small
<1>2. Capped => WithinCap
  BY DEF Capped, WithinCap, Small
<1> QED
  BY <1>1, <1>2, ShapeHolds, SnapshotsHold, CappedStep, PTL DEF Spec
=============================================================================
