----------------------------- MODULE IndexAdvisor -----------------------------
(***************************************************************************)
(* The automatic property indexes: the advisor in the interpreter's Engine *)
(* (cypher/interp/engine.go), the statements that feed it (engine.go,      *)
(* tx.go) and the background builds of a DB that has a read pool           *)
(* (driver.go).                                                            *)
(*                                                                         *)
(* The advisor keeps its own picture of which indexes exist (loaded,       *)
(* indexed).  That picture is changed inside transactions that may still   *)
(* roll back, is rebuilt from whatever transaction asks next, and is       *)
(* forgotten by ResetIndexState, before or after the rollback it is about. *)
(* Two locks are involved: the write connection and Engine.mu, which       *)
(* noteScan and CreateIndexes hold while they run SQL.                     *)
(*                                                                         *)
(* What is abstracted: a scan counter stops at ScansBefore, where it is    *)
(* only compared; a counter set to -1<<29 or -1<<30 is membership in       *)
(* retired; whether the graph has indexMinNodes nodes is a free choice.    *)
(***************************************************************************)
EXTENDS Naturals, FiniteSets

CONSTANTS
    Clients,        \* goroutines using one DB handle
    Keys,           \* property keys that queries narrow scans with
    Builder,        \* the background build that has the write connection
    Nobody, NoKey,
    Handles,        \* how the DB may be opened: with a read pool (on a file), and
                    \* WithReadOnly, which leaves Import free to fill it
    DiskMayFail,    \* may a commit or a CREATE INDEX fail?
    ScansBefore,    \* indexScansBeforeIndex
    IndexMax        \* indexMax

Handle == [pool: BOOLEAN, readOnly: BOOLEAN]

ASSUME AdvisorAssumption ==
    /\ Builder \notin Clients /\ Nobody \notin Clients \cup {Builder}
    /\ NoKey \notin Keys
    /\ Handles \subseteq Handle
    /\ DiskMayFail \in BOOLEAN
    /\ ScansBefore \in Nat \ {0} /\ IndexMax \in Nat

VARIABLES
    actual,     \* the committed automatic indexes (sqlite_master)
    work,       \* the same, as the transaction on the write connection sees it
    view,       \* view[c]: the same, in c's snapshot on the read pool
    conn, mu,   \* who holds the write connection, and who holds Engine.mu
    kind, pc,   \* what c is running, and how far it is
    key,        \* key[c]: the property key of the scan c is reporting
    loaded, indexed, scans, retired, wanted,    \* Engine's fields
    taken,      \* taken[c]: the requests c has taken and not yet passed on
    queue,      \* key sets of builds waiting for the write connection (DB.bg)
    build,      \* the keys of the build that has it
    bpc,        \* how far that build is
    status,     \* the DB: open, closing (in bg.Wait), or released
    handle,     \* how it was opened
    lost        \* history: indexes undone by the failed commit of a RunQuery

vars == <<actual, work, view, conn, mu, kind, pc, key, loaded, indexed, scans,
          retired, wanted, taken, queue, build, bpc, status, handle, lost>>
database == <<actual, lost, work, view, conn>>
session == <<status, handle>>
advisor == <<loaded, indexed, scans, retired, wanted>>
client == <<kind, pc, key>>
builds == <<taken, queue, build, bpc>>

Init ==
    /\ actual \in {ks \in SUBSET Keys : IsFiniteSet(ks) /\ Cardinality(ks) <= IndexMax}
    /\ work = {}
    /\ view = [c \in Clients |-> {}]
    /\ conn = Nobody /\ mu = Nobody
    /\ kind = [c \in Clients |-> "none"]
    /\ pc = [c \in Clients |-> "idle"]
    /\ key = [c \in Clients |-> NoKey]
    /\ loaded = FALSE /\ indexed = {}
    /\ scans = [k \in Keys |-> 0] /\ retired = {}
    /\ wanted = {} /\ taken = [c \in Clients |-> {}]
    /\ queue = {} /\ build = {} /\ bpc = "idle"
    /\ status = "open" /\ handle \in Handles
    /\ lost = {}

Goto(c, label) == pc' = [pc EXCEPT ![c] = label]
OnPool(c) == handle.pool /\ kind[c] = "read"
Sees(c) == IF OnPool(c) THEN view[c] ELSE work

-----------------------------------------------------------------------------
(* Transactions of RunQuery ("read" or "write") and of BeginTx ("tx").     *)

BeginRead(c) ==
    /\ pc[c] = "idle" /\ status # "released"
    /\ Goto(c, "open")
    /\ kind' = [kind EXCEPT ![c] = "read"]
    /\ IF handle.pool
       THEN view' = [view EXCEPT ![c] = actual] /\ UNCHANGED <<conn, work>>
       ELSE conn = Nobody /\ conn' = c /\ work' = actual /\ UNCHANGED view
    /\ UNCHANGED <<actual, lost, mu, key, advisor, builds, session>>

BeginUpdate(c, k) ==
    /\ k \in {"write", "tx"} /\ ~handle.readOnly
    /\ pc[c] = "idle" /\ status # "released"
    /\ conn = Nobody /\ conn' = c /\ work' = actual
    /\ Goto(c, "open")
    /\ kind' = [kind EXCEPT ![c] = k]
    /\ UNCHANGED <<actual, lost, view, mu, key, advisor, builds, session>>

\* A pool read ends, with or without an error: nothing to commit or to forget.
EndRead(c) ==
    /\ pc[c] = "open" /\ OnPool(c)
    /\ Goto(c, "ended")
    /\ view' = [view EXCEPT ![c] = {}]
    /\ UNCHANGED <<actual, lost, work, conn, mu, kind, key, advisor, builds, session>>

\* Mutant: the rollback is forgotten, and with it the connection.
DisconnectKeepingConn(c, label) ==
    /\ conn = c
    /\ Goto(c, label)
    /\ UNCHANGED <<conn, work, view, mu, kind, key, builds, session>>

\* The transaction leaves the connection; label is where its client goes on.
Disconnect(c, label) ==
    /\ conn = c /\ conn' = Nobody /\ work' = {}
    /\ Goto(c, label)
    /\ UNCHANGED <<view, mu, kind, key, builds, session>>

\* tx.Commit in runInterp, and Tx.Commit.
Commit(c) ==
    /\ pc[c] = "open"
    /\ Disconnect(c, IF kind[c] = "tx" THEN "idle" ELSE "ended")
    /\ actual' = work
    /\ UNCHANGED <<lost, advisor>>

\* The statement fails: runInterp rolls back first and resets the advisor next.
FailStatement(c) ==
    /\ pc[c] = "open" /\ kind[c] # "tx"
    /\ Disconnect(c, "unreset")
    /\ UNCHANGED <<actual, lost, advisor>>

\* The commit fails. runInterp just returns; a Tx is not done yet, and its owner
\* calls Rollback.
CommitFails(c) ==
    /\ DiskMayFail
    /\ pc[c] = "open"
    /\ Disconnect(c, IF kind[c] = "tx" THEN "unreset" ELSE "ended")
    /\ lost' = IF kind[c] = "tx" THEN lost ELSE lost \cup (work \ actual)
    /\ UNCHANGED <<actual, advisor>>

\* Mutant: the advisor is not told of the rollback.
ResetNothing(c) ==
    /\ pc[c] = "unreset" /\ mu = Nobody
    /\ Goto(c, IF kind[c] = "tx" THEN "idle" ELSE "ended")
    /\ UNCHANGED <<database, mu, kind, key, advisor, builds, session>>

\* ResetIndexState, after the rollback.
Reset(c) ==
    /\ pc[c] = "unreset" /\ mu = Nobody
    /\ loaded' = FALSE
    /\ Goto(c, IF kind[c] = "tx" THEN "idle" ELSE "ended")
    /\ UNCHANGED <<database, mu, kind, key, indexed, scans, retired, wanted, builds, session>>

\* Tx.Rollback resets the advisor first and rolls back next.
ResetFirst(c) ==
    /\ pc[c] = "open" /\ kind[c] = "tx" /\ mu = Nobody
    /\ loaded' = FALSE
    /\ Goto(c, "aborting")
    /\ UNCHANGED <<database, mu, kind, key, indexed, scans, retired, wanted, builds, session>>

Rollback(c) ==
    /\ pc[c] = "aborting"
    /\ Disconnect(c, "idle")
    /\ UNCHANGED <<actual, lost, advisor>>

-----------------------------------------------------------------------------
(* noteScan: takes Engine.mu, looks, counts, and acts.                     *)

Scan(c, k) ==
    /\ pc[c] = "open"
    /\ key' = [key EXCEPT ![c] = k]
    /\ Goto(c, "wants")
    /\ UNCHANGED <<database, mu, kind, advisor, builds, session>>

Lock(c) ==
    /\ pc[c] = "wants" /\ mu = Nobody
    /\ mu' = c
    /\ Goto(c, "noting")
    /\ UNCHANGED <<database, kind, key, advisor, builds, session>>

\* What noteScan knows once the picture is loaded.
Known(c) == IF loaded THEN indexed ELSE Sees(c)

Counted(c) == IF scans[key[c]] < ScansBefore THEN [scans EXCEPT ![key[c]] = @ + 1] ELSE scans

\* Mutant: the cap is compared after the index was counted in.
WorthIndexingPastCap(c) ==
    /\ key[c] \notin retired /\ Counted(c)[key[c]] >= ScansBefore
    /\ Cardinality(Known(c)) <= IndexMax

\* The policy, the size of the graph apart.
WorthIndexing(c) ==
    /\ key[c] \notin retired /\ Counted(c)[key[c]] >= ScansBefore
    /\ Cardinality(Known(c)) < IndexMax

\* The query of sqlite_master fails, once the map was emptied.
LoadFails(c) ==
    /\ ~loaded
    /\ indexed' = {}
    /\ UNCHANGED <<loaded, scans, retired, wanted, work>>

\* The key has an index, was given up, is not worth one yet, or the graph is
\* too small.
OnlyCount(c) ==
    /\ loaded' = TRUE /\ indexed' = Known(c)
    /\ scans' = IF key[c] \in Known(c) \cup retired THEN scans ELSE Counted(c)
    /\ UNCHANGED <<retired, wanted, work>>

\* Mutant: the key is not marked as asked for.
AskAgain(c) ==
    /\ OnPool(c)
    /\ wanted' = wanted \cup {key[c]}
    /\ indexed' = Known(c)
    /\ UNCHANGED <<retired, work>>

\* On the read pool the index is only asked for, and once.
Ask(c) ==
    /\ OnPool(c)
    /\ wanted' = wanted \cup {key[c]}
    /\ retired' = retired \cup {key[c]}
    /\ indexed' = Known(c)
    /\ UNCHANGED work

\* createIndex in the statement's own transaction.
Create(c) ==
    /\ ~OnPool(c)
    /\ work' = work \cup {key[c]}
    /\ indexed' = Known(c) \cup {key[c]}
    /\ UNCHANGED <<retired, wanted>>

CreateFails(c) ==
    /\ DiskMayFail /\ ~OnPool(c)
    /\ retired' = retired \cup {key[c]}
    /\ indexed' = Known(c)
    /\ UNCHANGED <<wanted, work>>

Act(c) ==
    /\ key[c] \notin Known(c) /\ WorthIndexing(c)
    /\ loaded' = TRUE /\ scans' = Counted(c)
    /\ Ask(c) \/ Create(c) \/ CreateFails(c)

NoteScan(c) ==
    /\ pc[c] = "noting"
    /\ LoadFails(c) \/ OnlyCount(c) \/ Act(c)
    /\ mu' = Nobody
    /\ Goto(c, "open")
    /\ key' = [key EXCEPT ![c] = NoKey]
    /\ UNCHANGED <<actual, lost, view, conn, kind, builds, session>>

-----------------------------------------------------------------------------
(* RunQuery's end, the background builds, and Close.                       *)

\* Mutant: buildIndexes only looks at the read-only flag.
StartsBuildsAlways == ~handle.readOnly

\* Mutant: buildIndexes only looks at the closed flag.
StartsBuildsReadOnly == status = "open"

StartsBuilds == status = "open" /\ ~handle.readOnly

\* Mutant: a statement with updates takes the requests and passes none on.
TakeReadsOnly(c) ==
    /\ pc[c] = "ended" /\ mu = Nobody
    /\ wanted' = {}
    /\ taken' = [taken EXCEPT ![c] = IF kind[c] = "read" THEN wanted ELSE {}]
    /\ kind' = [kind EXCEPT ![c] = "none"]
    /\ Goto(c, IF wanted = {} THEN "idle" ELSE "took")
    /\ UNCHANGED <<database, mu, key, loaded, indexed, scans, retired, queue, build, bpc, session>>

\* TakeWantedIndexes: whichever statement ends next takes all that is asked for.
Take(c) ==
    /\ pc[c] = "ended" /\ mu = Nobody
    /\ wanted' = {}
    /\ taken' = [taken EXCEPT ![c] = wanted]
    /\ kind' = [kind EXCEPT ![c] = "none"]
    /\ Goto(c, IF wanted = {} THEN "idle" ELSE "took")
    /\ UNCHANGED <<database, mu, key, loaded, indexed, scans, retired, queue, build, bpc, session>>

\* buildIndexes
PassOn(c) ==
    /\ pc[c] = "took"
    /\ taken' = [taken EXCEPT ![c] = {}]
    /\ queue' = IF StartsBuilds THEN queue \cup {taken[c]} ELSE queue
    /\ Goto(c, "idle")
    /\ UNCHANGED <<database, mu, kind, key, advisor, build, bpc, session>>

\* BeginExecTx fails: the goroutine returns, and the request is gone.
BuildNotBegun(job) ==
    /\ DiskMayFail /\ job \in queue
    /\ queue' = queue \ {job}
    /\ UNCHANGED <<database, mu, client, advisor, taken, build, bpc, session>>

BuildBegin(job) ==
    /\ bpc = "idle" /\ job \in queue /\ conn = Nobody
    /\ queue' = queue \ {job}
    /\ build' = job
    /\ conn' = Builder /\ work' = actual
    /\ bpc' = "begun"
    /\ UNCHANGED <<actual, lost, view, mu, client, advisor, taken, session>>

BuildLock ==
    /\ bpc = "begun" /\ mu = Nobody
    /\ mu' = Builder
    /\ bpc' = "locked"
    /\ UNCHANGED <<database, client, advisor, taken, queue, build, session>>

\* CreateIndexes; a failed CREATE INDEX is ignored.
CreateIndexes ==
    /\ bpc = "locked"
    /\ \E made \in IF DiskMayFail THEN SUBSET build ELSE {build} :
        /\ work' = work \cup made
        /\ indexed' = indexed \cup made
    /\ mu' = Nobody
    /\ bpc' = "built"
    /\ UNCHANGED <<actual, lost, view, conn, client, loaded, scans, retired, wanted, taken, queue, build, session>>

\* Mutant: the goroutine returns without bg.Done.
BuildCommitNotDone ==
    /\ bpc = "built"
    /\ actual' = work
    /\ conn' = Nobody /\ work' = {}
    /\ bpc' = "lost" /\ build' = {}
    /\ UNCHANGED <<lost, view, mu, client, advisor, taken, queue, session>>

BuildCommit ==
    /\ bpc = "built"
    /\ actual' = work
    /\ conn' = Nobody /\ work' = {}
    /\ bpc' = "idle" /\ build' = {}
    /\ UNCHANGED <<lost, view, mu, client, advisor, taken, queue, session>>

BuildFails ==
    /\ DiskMayFail
    /\ bpc = "built"
    /\ conn' = Nobody /\ work' = {}
    /\ bpc' = "unreset"
    /\ UNCHANGED <<actual, lost, view, mu, client, advisor, taken, queue, build, session>>

BuildReset ==
    /\ bpc = "unreset" /\ mu = Nobody
    /\ loaded' = FALSE
    /\ bpc' = "idle" /\ build' = {}
    /\ UNCHANGED <<database, mu, client, indexed, scans, retired, wanted, taken, queue, session>>

\* Close: no further builds, ...
Close ==
    /\ status = "open"
    /\ status' = "closing"
    /\ UNCHANGED <<database, mu, client, advisor, builds, handle>>

\* ... wait for those under way, and let go of the connections.
Release ==
    /\ status = "closing" /\ queue = {} /\ bpc = "idle"
    /\ status' = "released"
    /\ UNCHANGED <<database, mu, client, advisor, builds, handle>>

-----------------------------------------------------------------------------
\* What a client goes on with once it has begun, its transaction's end apart.
GoOn(c) == Lock(c) \/ NoteScan(c) \/ Reset(c) \/ Rollback(c) \/ Take(c) \/ PassOn(c)

End(c) == EndRead(c) \/ Commit(c)

Undo(c) == FailStatement(c) \/ CommitFails(c) \/ ResetFirst(c)

Build == \/ \E job \in queue : BuildBegin(job) \/ BuildNotBegun(job)
         \/ BuildLock \/ CreateIndexes \/ BuildCommit \/ BuildFails \/ BuildReset

Next ==
    \/ \E c \in Clients :
        \/ BeginRead(c) \/ \E k \in {"write", "tx"} : BeginUpdate(c, k)
        \/ \E k \in Keys : Scan(c, k)
        \/ GoOn(c) \/ End(c) \/ Undo(c)
    \/ Build
    \/ Close \/ Release

Spec == Init /\ [][Next]_vars

\* Go runs every goroutine that can run, database/sql hands a released connection
\* to one of those waiting for it (and sync.Mutex to those starving), and
\* statements and the application's transactions end.
Fairness ==
    /\ \A c \in Clients : SF_vars(GoOn(c)) /\ SF_vars(End(c))
    /\ SF_vars(Build)
    /\ WF_vars(Release)

FairSpec == Spec /\ Fairness

-----------------------------------------------------------------------------
(* Properties.                                                             *)

\* The shape of the state, and whose the two locks are: a transaction off the
\* read pool has the connection from begin to end, noteScan and CreateIndexes
\* have Engine.mu.
TypeOK ==
    /\ {actual, work, indexed, retired, wanted, build} \subseteq SUBSET Keys
    /\ view \in [Clients -> SUBSET Keys]
    /\ kind \in [Clients -> {"none", "read", "write", "tx"}]
    /\ pc \in [Clients -> {"idle", "open", "wants", "noting", "unreset", "aborting", "ended", "took"}]
    /\ key \in [Clients -> Keys \cup {NoKey}]
    /\ loaded \in BOOLEAN
    /\ scans \in [Keys -> 0..ScansBefore]
    /\ queue \subseteq SUBSET Keys
    /\ taken \in [Clients -> SUBSET Keys]
    /\ bpc \in {"idle", "begun", "locked", "built", "unreset"}
    /\ status \in {"open", "closing", "released"}
    /\ conn \in Clients \cup {Builder, Nobody} /\ mu \in Clients \cup {Builder, Nobody}
    /\ \A c \in Clients :
        /\ mu = c <=> pc[c] = "noting"
        /\ key[c] # NoKey <=> pc[c] \in {"wants", "noting"}
        /\ conn = c <=> pc[c] \in {"open", "wants", "noting", "aborting"} /\ ~OnPool(c)
    /\ mu = Builder <=> bpc = "locked"
    /\ conn = Builder <=> bpc \in {"begun", "locked", "built"}

\* ResetIndexState: "call it after a rolled-back statement, which may have undone
\* an index creation". The advisor never believes in an index that neither exists
\* nor is being created, except until the reset a rollback owes it, and except for
\* an index undone by the failed commit of a RunQuery, which owes none: such a key
\* goes without its index until the next reset.
NoPhantomIndex ==
    \/ ~loaded
    \/ indexed \subseteq actual \cup work \cup lost
    \/ \E c \in Clients : pc[c] = "unreset"
    \/ bpc = "unreset"

\* Automatic indexes are "capped at indexMax indexes": each one is maintained by
\* every later write. With a read pool the cap is compared when a read asks for an
\* index and not when it is built, so reads that ask together may exceed it.
WithinCap == handle.pool \/ Cardinality(actual) <= IndexMax

\* noteScan on the read pool: "do not queue it again". A key is asked for, taken,
\* queued or being built once at a time, whoever asks and whoever takes the request.
QueuedOnce ==
    /\ \A job \in queue : job \cap (wanted \cup build) = {}
    /\ \A j1, j2 \in queue : j1 # j2 => j1 \cap j2 = {}
    /\ wanted \cap build = {}
    /\ \A c \in Clients :
        /\ taken[c] \cap (wanted \cup build) = {}
        /\ \A job \in queue : taken[c] \cap job = {}
        /\ \A d \in Clients : d # c => taken[c] \cap taken[d] = {}

\* Close "lets queued index builds finish before the connections go", and none
\* starts later.
NoBuildAfterClose == status = "released" => queue = {} /\ bpc = "idle"

\* README: "readers never wait for the writer"; driver.go: an index is built "in
\* the background so a read does not wait for it". No read of the pool waits for
\* Engine.mu while the owner of the write connection has it.
ReadersNeverWait ==
    \A c \in Clients : pc[c] = "wants" /\ OnPool(c) => mu = Nobody \/ mu # conn

\* A database opened WithReadOnly gets no index through its read pool, and none
\* from a background build, whoever takes the request. Without a pool (in memory,
\* where Import fills it) it does get some: those a reading statement created in the
\* transaction it commits.
ReadOnlyIndexedByReads ==
    [][handle.readOnly /\ actual' # actual
           => ~handle.pool /\ conn \in Clients /\ kind[conn] = "read" /\ actual' = work]_actual

\* What a read asked for is built, unless the DB is closed first: the request
\* survives being taken by another client's statement, and the queue.
AskedIsBuilt ==
    \A k \in Keys : k \in wanted ~> (k \in actual \/ status # "open" \/ handle.readOnly)

\* Close returns, as long as every transaction ends: bg.Wait waits for builds that
\* wait for the write connection.
CloseReturns == status = "closing" ~> status = "released"

=============================================================================
