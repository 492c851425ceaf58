# A TLA+ model of charta (graphlite)

charta is an embedded property-graph database in Go: Cypher statements are
parsed, analysed and interpreted over a SQLite file. These modules model the
parts of it whose correctness depends on the order of steps (the caches that
several goroutines share, the index builds that run in the background, the way a
statement reads, writes, fails and commits, and databases copied by export and
import) and, beside them, the algorithms of the query engine, each compared with
a definition of what it should return.

Run `tlc -config X.cfg M.tla` for a run of the tables below, and
`tlapm M.tla` for the proofs of one of the eight modules `...Proofs.tla`.

## 1. The system

| component | source | state | operations |
|---|---|---|---|
| DB handle | `driver.go`, `engine.go`, `tx.go` | closed flag, background WaitGroup, open transactions | `Open`, `RunQuery`, `BeginTx`, `Tx.Run/Commit/Rollback/Close`, `Close`, `RegisterProcedure`, `ClearProcedures`, `VectorSearch` |
| store | `store/` | one write connection, a pool of read-only connections on a file | `BeginExecTx`, `BeginReadTx`, `Snapshot`, row helpers of the importer |
| statement cache, procedures | `cypher/interp/engine.go`, `cypher/proc/` | analysed statements by text; procedures by name | `Statement`, `CacheStatement`, `ClearStatements`, `Register`, `Clear`, `Lookup` |
| index advisor | `cypher/interp/engine.go` | known indexes, scan counters, requested keys | `noteScan`, `createIndex`, `TakeWantedIndexes`, `CreateIndexes`, `ResetIndexState` |
| vector cache | `cypher/interp/vecindex.go` | one matrix per vector index, an epoch | `matrixFor`, `ApplyVectorDeltas`, `dropVectorMatrix`, `InvalidateVectors` |
| statement execution | `cypher/interp/graph.go`, `write.go`, `exec.go` | the statement's `graph`: entities, adjacency lists, snapshots, deletions, counters | reads, creations, `SET`, `REMOVE`, `DELETE`, `finish` |
| schema | `cypher/interp/schema.go` | definitions in a table of the database | create, drop, validate, check |
| import, export | `importer.go`, `importcheck.go` | none of its own | JSON and CSV in and out |
| pure parts | `cypher/syntax`, `cypher/analyze`, `match.go`, `project.go`, `group.go`, `eval.go`, `value.go`, `cypher/temporal`, `cypher/vector`, `cypher/spatial` | none | parsing, scoping, path search, grouping, values |

How they meet: a statement looks itself up in the statement cache, takes a
transaction (a snapshot of the read pool if it has no updating clause and the
database has a pool, the write connection otherwise), reports its scans to the
advisor and its searches to the vector cache while it runs, and after its commit
applies its vector deltas and takes the index requests along. The engine's three
locks (`mu`, `vecMu`, `stmtMu`) and the connections are taken separately, so
every pair of these steps can be interleaved with those of another goroutine.

What makes them correct, and is hard to see from a test:

- vector cache: a matrix holds the committed vectors of its index, none that was
  never committed, for no index that is gone, within its memory budget;
- advisor: no belief in an index that was rolled back, a cap on their number, no
  request lost or built twice, no background build on a read-only or closed handle,
  no reader waiting for the writer;
- statement cache: no analysis outlives the procedures it was made against;
- pattern matching, projection, SQL: every plan returns the rows the query means,
  each as often as it should;
- values: one order, one notion of sameness, and no wrapped arithmetic;
- import and export: a copy is the original, constraints included, and a failed
  import leaves nothing behind;
- statements: the copies a statement keeps match the database, the counters are
  the net difference, deletions leave nothing dangling, and the constraints hold
  in every committed state.

The hazards, each with its line, are in `PROJECT.json`.

## 2. The modules

### VectorCache

Clients of one handle, each in at most one transaction. `view[c]` is what c's
transaction sees; `db` is what is committed; `conn` is `SetMaxOpenConns(1)`.
`Lookup` and `Install` are the two critical sections of `matrixFor`, with the
build from the view between them; `Commit` and `Apply` are the commit and
`ApplyVectorDeltas`, in `runInterp` and in `Tx.Commit`, between which the
connection is already free. `CreateIndex`/`DropIndex` drop the matrix inside their
transaction. An import changes vectors without deltas and invalidates
everything at its end. A vector is a model value; `NoVec` is every reason for not
being in an index. `Rows` stands for the bytes a matrix takes. A `Tx` in which a
`Run` failed is of kind `broken`: its writes stay, its deltas are lost, and
whether its owner commits it is the constant `CommitAfterError`.

### IndexAdvisor

`actual`, `work` and `view` are the automatic indexes as committed, as the write
transaction sees them and as a pool snapshot sees them; `loaded`, `indexed`,
`scans`, `retired`, `wanted` are the engine's fields (`retired` is a counter set
to `-1<<29` or `-1<<30`). `mu` is `Engine.mu`: a scan is `Scan`, `Lock`,
`NoteScan`, and `CreateIndexes` runs between `BuildLock` and its end. Commit
failures and rollbacks take the paths they take in `runInterp` and `tx.go`: the
one resets the advisor after the rollback, the other before it, and a failed
auto-commit not at all. A `RunQuery` ends in two steps: `Take` empties `wanted`
under `mu` (`TakeWantedIndexes`) into `taken[c]`, and `PassOn` is `buildIndexes`,
under `DB.mu`; between them `Close` and other statements can come. `queue`, `build`,
`bpc` are its goroutines, one of which may fail to begin (`BuildNotBegun`); `status`
is `Close`; `handle` is how the database was opened: with a read pool, which a file
has, and `WithReadOnly`, in any combination. A statement that fails before it has a
transaction takes requests along in the code; the model leaves those to the
statements after it. The history variable `lost` holds the indexes undone by a
failed auto-commit, which `NoPhantomIndex` excepts.

### StatementCache

`Hit`/`Miss`, `Analyse` (one registry lookup per procedure), `CacheStatement` or
`Reject`; on the other side `Change` (registry) and then `ClearStatements`. The
history variables `overlap` and `tainted` mark analyses during which a
change of the registry began.

### GraphStatement and PropertyGraph

`PropertyGraph` is the abstract specification: a committed database is a graph
without dangling relationships in which all constraints hold, where a
relationship keeps its type and ends and no id names two entities.
`GraphStatement` is how statements get there: `tx` holds the tables as the
transaction sees them, `g` the statement's `graph` value (`obj`, `out`, `in`,
`created`, `snap`, `deleted`), and the actions are its methods. Clauses are not
modelled one by one: a statement is any sequence of these reads and updates, so
`CREATE`, `MERGE`, `SET`, `REMOVE`, `DELETE` and `FOREACH` in any order are
among its behaviours. The end of a statement is `FinishRels`, `FinishNodes` (with
`NetCounters`) and `CheckConstraints`; it may fail before each of them, after some
of the deletions (`HalfFinish`), and in the middle of the updates of a node and its
labels (`HalfCreateNode`, `HalfSetLabels`). `ImplementsPropertyGraph` says that
the committed tables refine `PropertyGraph`. A behaviour stays within one of
`Scopes`, which says whether its transactions are `RunQuery`'s or `BeginTx`'s and
which ids, labels, values and constraints it uses: one run then explores several
small worlds instead of their product.

### SchemaCatalog and ImportExport

`SchemaCatalog` is the catalog as operators on a database value: what `CREATE`
and `DROP` do to names, equivalent definitions, generated names and SQLite indexes,
how data is checked against it, what `SHOW` lists and which statements an export
carries. A node has its labels twice, as the labels column decodes and as
`node_labels` has them, since a label with a comma differs between the two. One
property and one target stand for all.

`ImportExport` runs it in two databases. `db` executes statements, each one
transaction, while an export makes its three reads (`BeginExport`, `ExportEdges`,
`ExportSchema`) in between; `copy` imports what was exported, and documents
written elsewhere. `Reencoded` and `Texted` are what a value becomes in JSON and in
CSV. An import is one transaction and therefore one action, but inside it the work
is done as the code does it, one piece after the other (`Imported`): each node under
a new id, each edge through the id map (JSON) or as it is (CSV), the validation, each
schema statement, every piece from what the last one left, until one fails
(`Perform`, `Progress`). Statements and imports that fail change nothing and are not steps.

### QueryEngine and the algorithms

The modules below define the algorithms as operators; `QueryEngine` gives each of
them every input of a bounded set, one step per input, and states what they owe.
They use recursive operators where the code recurses, and `QueryEngine` is only
model-checked. `Temporal` and `VectorMatrix` do without, and have machines of their
own that are also proved about, `Calendar` and `MatrixBuild`; `QueryEngine` EXTENDS
these two and takes their steps as well, so that one run checks all.

| module | source | compared with |
|---|---|---|
| `PathMatch` | `match.go`, `group.go`, `relfirst.go`, `reverse.go`, `pushdown.go`, `execMatch` | `Meanings`: the trails of the graph and the ways to read each as the pattern |
| `Values` | `value.go` | the laws of a total order; sameness as sorting, grouping and `=` see it; SQLite's comparison |
| `Expressions` | `eval.go` | the quantifiers, `IN`, chains, `CASE` and slices spelt out; unbounded integers |
| `Projection` | `project.go`, `aggpush.go` | counting and ordering of the result; the SQL form with the interpreted one |
| `Temporal` | `cypher/temporal` | dates rebuilt from their components; a difference added back |
| `Precedence` | `syntax/expr.go` | a printer that writes only the parentheses the precedence table asks for |
| `VectorMatrix` | `vector/matrix.go`, `queryVectorNodes` | a map from ids to vectors, and its best k |

`Temporal` takes from package `time` what the code calls: `DayNumber` and, back from
a day, `YearOf` by cycles of 400, 100, 4 and 1 years, which holds for any year, as
the code admits years far from today's.

In `PathMatch` a pattern element is reduced to the sets it accepts: what labels,
types and properties allow (`ok`), what an inline WHERE allows (`where`), whether
SQLite can narrow the scan (`hint`), and what the MATCH's own WHERE narrows it to
(`push`). The walk, the choice of plan and the uniqueness of relationships are
those of the code, and results are sequences, so a row too many shows.

### Calendar and MatrixBuild

`Calendar` takes one day apart, as `date()` and its accessors do, or measures what
lies between two local date-times, as `duration.between` does.

`MatrixBuild` is the life of one matrix. `Fetch`, `Send`, `Close`, `Abandon` are the
reader of `buildMatrixFast`, which hands batches over the channel `queue`;
`Take(w)` and `Parse(w)` are a worker that fills its builder (`built[w]`); `Gather`
is what follows `wg.Wait`, the merge of the builders or the error. A batch is sent
full, or earlier when its rows are long. `AddRow` and `AllAdded` are `buildMatrix`
without that plan, `ChangeRow` and `DropRow` the deltas, `Discard` the end of the
matrix. `stored` is the property of each node in the snapshot the build reads, and
`held` what the matrix should hold. Which matrix is installed, and what races that, is
`VectorCache`'s.

## 3. The runs

| run | shows | bounds |
|---|---|---|
| `VectorCache_memory` | shape, coherence, no uncommitted vector, no nil map write, no orphan, on one connection | 1 writer, 2 readers, 1 node, 2 vectors, 2 index ids, `MaxEpoch` 3 |
| `IndexAdvisor_safety` | lock ownership, no phantom index, the cap on one connection, requests queued once, no build after `Close`, no index on a read-only handle but by its own reads off the pool; with failing begins, commits and `CREATE INDEX` | four handles (in memory and on a file, each read-only or not), 2 clients, 2 keys, 2 scans before an index, cap 1 |
| `IndexAdvisor_live` | requests are built, `Close` returns | on a file, 2 clients, 1 key |
| `StatementCache_fresh` | cached analyses are current unless overlapped, and bounded | 2 clients, 3 statements, 2 procedures, 3 signatures, cache of 2 |
| `GraphStatement_statements` | copies and adjacency lists in step with SQLite, labels indexed, net counters, refinement of `PropertyGraph` | three scopes: 2 nodes, 1 label, 2 values, KEY and TYPE; 2 nodes, 1 relationship, EXISTENCE; a `Tx` over 1 node, 1 relationship, KEY |
| `ImportExport_copies` | constraints hold in both databases, catalog and SQLite indexes in step, replay harmless, export and import give the same graph and schema | 2 nodes, 1 edge, 2 definitions, 4 statements, 2 imports, labels with and without a comma, 4 values, 6 `CREATE`s, 4 foreign documents |
| `QueryEngine_algorithms` | the sixteen properties of the query engine; that the build of a matrix does not halt | see below |

Each bound is the least that makes the interesting case happen: two clients race
in every run; two index ids let an index be dropped and another created
while a build is under way; `MaxEpoch` stops updates from beginning once the
epoch has reached it, after enough changes for a lookup, a change and an install
to be ordered in every way; two nodes make a duplicate, a second label holder
and a relationship between different nodes; ids are never reused, so the number
of nodes and relationships also bounds creations. The cap of the advisor and the
bound of the statement cache are small so that they are reached. The runs that
check safety use the symmetry of clients, nodes, vectors and ids; the liveness
run does not.

`IndexAdvisor` runs are without the deadlock check: a handle that was closed
stops.

`ImportExport_copies` stops statements once an export is finished
(`ExportIsLast`): what they do is explored where nothing was exported. Its second
import meets a database that already has data and a schema.

The inputs of `QueryEngine_algorithms`: every graph of up to three relationships
over two nodes with parallel ones and loops, or of three over three nodes, with 21
patterns and 4 pairs of them; selectors over graphs of up to four relationships,
with free and with bound ends, among them two whose last relationship may take no
hop; every subgraph of a graph of five nodes with
detours, a parallel relationship and a way back, for shortest paths of five hop
ranges; all pairs (and triples) of 31 values of every type but vectors; all sequences of
up to four truth values; all pairs of integers of `Bits` 4, which stands for 64 (the
overflow tests use signs, wrapping and division only); tables of up to three
rows; the days around the turn of 45 years and a leap year; pairs of 88 moments
around the ends of months with `Ticks` 3 in a day; all expressions of three
levels over every operator kind. `Exact` stands for 2^53; the sample stays below it,
because beyond it the laws are known to fail (below). Six of its properties (of
patterns, selectors, shortest paths, projection and durations) are action
properties: they speak of the input and answer a step sets, so that each is
evaluated once, at that step. An input that has its answer stays as it is (`Answered`),
so that the deadlock check is about the matrix alone.

A matrix has up to three nodes, three vectors, two workers, batches of two and room for
one in the channel: the two batches of three nodes keep one worker waiting, a
build fails with a batch on its way and starts again, and the last row moves into
a gap elsewhere. `Slack` 1 stands for 8, so that three ids are more than it.

`ImportExport_copies` does not check for deadlock: its behaviours end.

### Where the code and its documentation differ

Five runs end in a violation, each of one sentence of the documentation:

| run | what happens |
|---|---|
| `VectorCache_stale_install` | with a read pool, `matrixFor` reads the epoch later than its snapshot was taken: a commit applied in between is missing from the installed matrix for good |
| `IndexAdvisor_wait` | reads wait for `Engine.mu` while `CREATE INDEX` runs |
| `GraphStatement_nosavepoint` | a constraint violation inside a `Tx` does not undo the statement |
| `GraphStatement_duplicates` | `json_extract` makes 1 of `true`: a spurious uniqueness violation |
| `ImportExport_importable` | `Export` writes 1.0 as 1, and a FLOAT type constraint carried by the same document refuses it |

Others show in the models as the exceptions and assumptions the properties need:

- two writers can apply their deltas in the other order than their commits
  (`tx.go:49`), and the deltas of a failed statement are lost while its writes can
  be committed (`tx.go:41`): `OneConnection` in the proofs excludes both. Give
  `VectorCache_memory` two writers, or `CommitAfterError`, to see `CacheCoherent` fail;
- `ApplyVectorDeltas` does not compare with the memory budget (`vecindex.go:59`);
- a failed auto-commit does not reset the advisor (`engine.go:87`): `lost`;
- `Import` does not ask whether the handle is read-only (`importer.go:111`), so one
  that is in memory can be filled; its reads then run on the write connection, are
  committed (`engine.go:74`) and create automatic indexes
  (`cypher/interp/engine.go:151`): `ReadOnlyIndexedByReads` allows this one way and
  no other. Add a conjunct that forbids it to see `IndexAdvisor_safety` fail;
- a selector whose ends are both bound deepens its search and stops at the first
  length that satisfies it, but `walk` compares with the limit before it looks at
  what the next relationship is (`match.go:219`): a path of that length whose last
  relationship takes no hop is cut. On `{A->B}`, `(a)-[*0..]->(b)-[*0..1]->(c)` from A
  to B, `ALL SHORTEST` and `SHORTEST 1 GROUPS` give one row (b = A) of two.
  `SelectorsExact` allows the loss of exactly those matches (`MayLose`,
  `EndsHopless`);
- keys requested together are all built, past the cap
  (`cypher/interp/engine.go:191`): `WithinCap` excepts the read pool;
- an analysis that overlaps a registration is cached after the clearing
  (`engine.go:26`): `tainted`;
- an export torn by a commit can name an edge whose ends it does not contain, and a
  label with a comma comes back as two: `RoundTrip` excepts both (`torn`, `Lossless`);
- `createNode` checks the labels it was given, `SET` those it decodes from the labels
  column, validation those of `node_labels`: a constraint on a label with a
  comma in it is not checked after `MATCH` and `SET` (`schema.go:497`). The proofs of
  `StatementsObey` and `ImportsObey` assume there is none (`TargetsReadBack`,
  `LabelsReadBack`); give `ImportExport_copies` a
  constraint on `PQ` to see `SchemaHolds` fail;
- a CSV edge file names its ends by the ids of the exporting database, and the
  node file is imported under new ones (`importer.go:570`): they agree only
  without gaps;
- a user's name that begins with `pending` is replaced, and a generated name that
  is taken makes an unnamed `CREATE` fail (`schema.go:280`);
- integers beyond 2^53: sorted against floats they are not in a total order,
  and a scan hint compares them exactly where `=` goes through float64.

The last group was met while reading and lies outside the modelled inputs:

- a point and a vector share a rank in `orderRank`, and `orderCompare` then asserts
  one type for both, which panics (`value.go`);
- a bound start of a pattern is not asked for its inline WHERE (`match.go:104`);
- a pattern that begins with a labelled group of zero iterations scans only that
  label (`match.go:65`);
- the relationships of a selected or shortest path are not marked used for the
  parts that follow (`matchSelected`, `matchShortest`);
- a variable-length relationship's inline WHERE is not evaluated (`bindVarLength`);
- `ex.pushed` stays in force for a pattern nested in an inline WHERE, whose own
  variable may have the name of an outer one that is not bound yet;
- `-1[0]` does not parse, since the sign is folded into the literal before the
  subscript is seen (`expr.go:178`).

### Fairness

Only `IndexAdvisor_live` assumes any. `SF(GoOn(c))` and `SF(Build)`: a
goroutine that can run does, `database/sql` serves those who wait for the
connection in order, and `sync.Mutex` those who starve. `SF(End(c))`: statements
terminate and the application ends its transactions; without that `Close` does
wait for ever, since the builds it waits for need the write connection.
`WF(Release)`: `Close` goes on when `bg.Wait` returns. Nothing is assumed of
`Close` being called or of statements being issued. Failures are switched off
there (`DiskMayFail`): a build whose commit fails is not tried again, so a
request is then lost by design.

## 4. The proofs

Each proof module EXTENDS the module it is about, and holds for every value of its
constants that satisfies the assumption stated there. Temporal theorems rest on an
inductive invariant, and their proofs have one step per action. The larger
invariants, those of `VectorCache`, `GraphStatement` and `MatrixBuild`, were checked by TLC on the
instance of the run before they were proved.

### VectorCacheProofs

Every number of clients, nodes, vectors and indexes, from `ConstantsAssumption`
only (the marker values are distinct from the data, the sizes are numbers).

- `TypeCorrect`: `TypeOK` is inductive as it stands.
- `NilMapSafety`: `NoNilMapWrite` is not inductive by itself; `EpochGuardsMap`
  adds that the epoch only grows and that a build whose epoch is still current
  finds the map there, because `Invalidate`, the only step that takes the map
  away, raises the epoch.
- `OnlyCommittedVectors`: `Provenance` follows a value from the view it was
  written in to the deltas and from the commit to the matrix: a reader's view
  holds only published values, and deltas are applied only by those who committed.
- `OneConnectionCoherent` and `OneConnectionOwned` assume one connection, a
  single writing client and no commit after a failed statement. `Coherence` says
  that whoever has a view has the connection, that a reader's view is the
  committed database, that a writer's deltas account for every difference
  between its view and the database, and that a matrix belongs to an index
  which no open transaction has dropped. The three assumptions are needed: without
  each of them `CacheCoherent` fails, without the first in
  `VectorCache_stale_install`.

The first three theorems hold with a read pool as well, which no passing run of
`VectorCache` has.

### StatementCacheProofs

From `CacheAssumption` (there is a statement to cache, the bound is positive).
`CacheBounded` is `TypeOK`, the bound of the cache included; it is not inductive
alone, since a miss turns to another text: what a client without a statement has
seen must have been forgotten (`Forgotten`), and the counting needs the cache
finite. `CacheFresh` is `FreshUnlessOverlapped`; it needs that an analysis in
progress which no change overlapped has read current signatures (`FreshAnalyses`).

### IndexAdvisorProofs

Every number of clients and keys, threshold, cap and way to open the database,
with failing commits and failing `CREATE INDEX`; the indexes found at `Open` are
assumed finite in number and within the cap.

- `LocksOwned`: `TypeOK`, which says who holds the mutex and the connection.
- `NoPhantoms`: `NoPhantomIndex`. `Snapshots` orders what the writer, the database
  and the pool see; `PhantomFree` adds that a `Tx` which has reset the advisor and
  not yet rolled back leaves behind no picture with its own creations in it.
- `NeverQueuedAgain`: `QueuedOnce`, because whatever is wanted, taken, queued or
  being built is already retired (`AskedOnce`).
- `CloseIsFinal`: nothing is built after `Close`.
- `ReadOnlyIndexes`: `ReadOnlyIndexedByReads`, an action property. On a read-only
  handle nothing is queued and no client runs an update (`OnlyReads`), so that the
  step which changes the indexes is the commit of a read, and a pool has none.
- `CapHolds`: `WithinCap`, because a loaded picture covers all that is committed
  and all that is being created (`Capped`).

### GraphStatementProofs

Every set of nodes, relationships, labels and values, and any scopes, from
`StatementAssumption`.

- `StateTyped` and `CacheStaysInStep`: what a statement holds in memory of an entity
  or of the relationships of a node is what the tables say. The invariant
  (`Shape`) adds that every row's id was handed out and that a loaded adjacency
  list holds only relationships the graph has in hand.
- `NothingDangles` and `IdentityKept`: whatever fails and whatever is committed
  after it, committed relationships have both nodes, keep their ends and type,
  and ids are not reused. `Structured` says the same of the open transaction, and
  that between the two halves of `finish` no relationship is left at a node about
  to be deleted (`Cut`).
- `LabelsStayIndexed`, `ConstraintsStayHeld`, `CountersStayNet` and the refinement
  `StatementsImplementGraph` assume `~CommitAfterError`: a `Tx` whose statement
  failed is not committed. Without it constraints are violated, which is what
  `GraphStatement_nosavepoint` shows, and a half-written row of labels stays. `IndexKept` excepts the moment between
  the two updates of a node's labels; `Tracking` accounts for every row of the
  tables from the state before the statement, the snapshots and the deletions;
  from it follows that `CheckConstraints`, which looks only at what was touched,
  has looked at enough: `Constrained`. The counters also need that only
  finitely many ids are in use (`FiniteUse`).

### ImportExportProofs

About `db`, the database that statements run on while exports read it, for any
commands whose definitions are well formed (`CommandAssumption`), any labels, values
and bounds: `CatalogStays` (definitions, generated names, SQLite indexes and SHOW in
step), `EdgesStayAttached`, and, if every label that a constraint is on is read back
where it was written (`TargetsReadBack`), `StatementsObey`: all constraints hold
of all data. `CreateKeeps`, the part an import repeats, is proved for any database.

### ImportProofs

About `copy`, the database that exports and documents written elsewhere are imported
into, for documents and databases of any size, from `CommandAssumption` and
`DocumentAssumption` (the nodes, edges and schema of a document are lists, and its schema
statements definitions; nothing is assumed of the nodes and edges themselves).

An import works through a list, and the installed provers have no induction
over an operator. They do not need it: `LeastNumber` takes from the library that the
subsets of a finite set are well-founded, and with it that a set of numbers has
a least one; `UpTo` is then induction over a *set*: a set that holds 0 and, with
i - 1, i, holds every number of an interval. `ProgressIs` proves with it that the
recursive function `Progress` exists and what it is at each piece.

- `ImportsStayInStep` (`CatalogInStep`, of both databases) and `ImportedEdgesAttached`
  rest on the invariant `Sound`: both databases are well formed, their catalogs in
  step, their edges attached, and what an export carries are sequences over the
  ids it has read. Every single piece of work keeps such a database one
  (`PerformKeeps`), so an import does, if it ends well; an import that does not
  changes nothing.
- `ImportsObey` (`SchemaHolds`, of both databases) assumes `LabelsReadBack`: no label a
  document brings is split when read back, unless no constraint is on it. Nodes
  and edges break constraints while they are loaded, so the invariant is not kept
  piece by piece. The proof goes by phases instead: while rows are loaded the definitions
  stay what they were (`Loaded`); after the validation, which comes last of
  the data, every constraint holds (`Checked`); and each definition of the schema is
  checked against all data before it enters the catalog (`DefineStep`). That the
  pieces come in that order is `ImportsAreOrdered`. `Faithful` is the inductive
  invariant: constraints hold, and labels in the databases and in an export are
  the ones that read back.
- `ReplaysHarmless` (`ReplayHarmless`): every statement of an exported schema does
  nothing in the database it came from (`ReplayIdle`), so neither does the whole.

TLC checked `Sound` and `Faithful` as invariants, and `LabelsReadBack` of the run's
constants, before they were proved.

### VectorMatrixProofs

`NewIsMap`, `UpsertIsMap` and `RemoveIsMap` show that a matrix of any size is a map:
rows, ids and positions stay in step, and each operation changes the map at one id.

`BuildIsMap` is `MatrixIsMap` for any set of nodes and vectors and any number of workers,
batch size and capacity, from `MatrixAssumption` (vectors are integers, those numbers
are positive). That nothing is lost on the way from the reader through the channel and the
workers to the merged builders is a statement about all of them at once, and
`MatrixIsMap` says nothing of it before the end. `BuildInv` adds it: there is a
*placing* of the nodes (`Placed`), which puts each in exactly one place at one
position: not fetched, in the current batch, in a batch of the channel, in what a
worker has left to parse, in its builder, or gone, as those without a vector and
those of a failed build are; and what a builder holds of a node is what is
stored (`RowsTrue`). Every action moves the nodes it handles to their next place and
no other. When all have stopped, each node with a vector is in one builder, once.
`BuiltIsMap` then shows that merging builders in which no id occurs twice gives
the map. Merging concatenates sequences of sequences, and what concatenation does
(`Collected`) is shown by the induction over sets that `ImportProofs` uses as well.
For the other plan the invariant says that the matrix holds the nodes added so far
(`Mapped`). TLC checked `BuildInv` before it was proved. The theorem is about
`MatrixSpec`, whose steps `QueryEngine` takes once it has begun with a matrix.

### TemporalProofs

`YearIsFound`, `YearIsUnique` and `MonthIsFound` show that every day of every year has
exactly one year and a month and day that give it back; the argument counts leap
days in cycles (`CyclesCount`) and the days before each month (`MonthStart`).
`DatesReadBack` proves the same of weeks, ordinals and quarters, `TruncationStepsBack` of
truncation, `WeekReadsBack` the last clause; together they are `EveryDayRoundTrips`,
which is `CalendarRoundTrips` for every day instead of the sampled ones.

`DurationsAddUp` is `BetweenAddsUp` for any two local date-times. `DifferenceAddsBack`: the
difference adds back. `DifferenceOneWay`: its months, days and clock part point
the same way, and neither the days nor the clock reach the next larger unit. That is not
plain, because adding months clamps the day to the length of the month it
arrives in: the whole months found must neither pass the second moment nor stop a
month before it, whatever was clamped. The argument counts the months from year 0
(`Index`): each starts where the one before it ends (`MonthsFollow`), so days are in
the order of their months (`DaysOrdered`), and adding months never passes the day
asked for, nor leaves a month (`MonthsForward`, `MonthsBack`).

The assumptions are that a day has at least one tick (`TicksAssumption`) and that the
inputs are days and moments (`CalendarAssumption`). Years are unbounded here; the
code refuses those beyond 999 999 999.

### Only model-checked

- Liveness (`AskedIsBuilt`, `CloseReturns`): fairness and ENABLED are out of the
  prover's reach.
- `PathMatch`, `Values`, `Expressions`, `Projection` and `Precedence`, and so
  `QueryEngine`: they are written with recursive operators, as the code recurses over
  trees and lists of any depth, and the prover has neither these nor induction
  over an operator.
- `RoundTrip`: that the copy is the original relates every node of two databases by
  the id map of the whole import and the conversions of its values.
- `SearchIsBest`: the search sorts what it found, and a sorted sequence is in the
  library a choice among all permutations, about which nothing can be proved
  without induction over its length.

## 5. Not modelled

- The lexer, clauses and patterns of the parser; semantic analysis (scoping and
  typing rules over the syntax tree); pretty-printing. They keep no state, and the
  interesting part, precedence, is modelled.
- The function library, string predicates, regular expressions, maps and label
  expressions; averages, percentiles and standard deviations.
- Pattern comprehensions and COLLECT subqueries; the limits `MaxPathHops` and
  `maxSelectedMatches`; MERGE, FOREACH, UNION and CALL as clauses.
- Time zones, parsing and formatting of temporal values.
- Composite keys, several targets and the option maps of schema commands; the
  filters and columns of SHOW.
- The nesting limit of JSON documents, CSV column types, properties of imported
  relationships, `LOAD CSV`, `Snapshot`, options and path checks.
- The result cursor: sequential, over records already collected.
- Floating-point arithmetic (similarity kernels, spatial distance) is out of reach
  of both tools; the scores of `VectorMatrix` are given.

SQLite and `database/sql` are modelled as the code relies on them: serialisable
writes on one connection, snapshots on the pool, AUTOINCREMENT ids, cascading
deletes, exact comparison of integers with reals.

## 6. Plan

1. Proofs: `RoundTrip` for an export that is not torn, by the induction of `ImportProofs`
   with the id map in its invariant; the laws of comparison in `Values` for values without lists,
   in a module of their own without recursion.
2. Scoping of `cypher/analyze` as a pure algorithm; MERGE as a match or a creation.
