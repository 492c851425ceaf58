----------------------------- MODULE MatrixBuild -----------------------------
(***************************************************************************)
(* The life of one matrix of VectorMatrix (cypher/interp/vecindex.go).     *)
(*                                                                         *)
(* buildMatrixFast fetches the rows of the index and hands them in batches *)
(* to workers, each of which fills a builder of its own; when all are done *)
(* the builders are merged into the matrix.  buildMatrix, for an index it  *)
(* cannot read that way, adds one row after the other.  From then on       *)
(* ApplyVectorDeltas changes single rows.  Installing the matrix and what  *)
(* races that are VectorCache's.                                           *)
(***************************************************************************)
EXTENDS VectorMatrix

CONSTANTS
    NodeIds,        \* the nodes with the label of the index
    Vectors,        \* what their property may hold
    NoVector,       \* a property that is none, or of another dimension
    Workers,        \* parser goroutines (at most 8 in the code)
    BatchSize,      \* rows in a full batch (64)
    Capacity        \* batches that wait for a worker (2 * Workers)

ASSUME MatrixAssumption ==
    /\ Vectors \subseteq Int /\ NoVector \notin Vectors
    /\ Workers \in Nat \ {0} /\ BatchSize \in Nat \ {0} /\ Capacity \in Nat \ {0}

VARIABLES
    phase,          \* none, fetching, draining, failing, serial, ready
    metric,
    stored,         \* the property of each node, in the snapshot the build reads
    left,           \* nodes not fetched yet
    cur,            \* the batch being filled
    queue,          \* batches handed over and not taken: the channel
    busy,           \* what each worker has yet to parse of its batch
    built,          \* the builder of each worker: [id, vector] rows
    matrix,
    held            \* what the matrix should hold

scan == <<left, cur, queue, busy, built>>
matrixVars == <<phase, metric, stored, scan, matrix, held>>

Crew == 1..Workers
Idle == [w \in Crew |-> <<>>]
Blank == [id \in NodeIds |-> NoVector]

\* What the index has of the nodes: the zero vector has no direction under cosine.
Indexed(m, s) == [id \in {x \in NodeIds : s[x] # NoVector /\ ~(m = "cosine" /\ s[x] = 0)} |-> s[id]]

MatrixInit ==
    /\ phase = "none" /\ metric = "cosine" /\ stored = Blank
    /\ left = {} /\ cur = <<>> /\ queue = <<>> /\ busy = Idle /\ built = Idle
    /\ matrix = NewMatrix("cosine") /\ held = <<>>

\* buildMatrix: the plan depends on the index alone.
Begin(plan) ==
    /\ phase = "none"
    /\ phase' = plan
    /\ metric' \in {"cosine", "euclidean"}
    /\ stored' \in [NodeIds -> Vectors \cup {NoVector}]
    /\ left' = NodeIds
    /\ matrix' = NewMatrix(metric')
    /\ UNCHANGED <<cur, queue, busy, built, held>>

-----------------------------------------------------------------------------
(* buildMatrixFast.                                                        *)

Fetch ==
    /\ phase = "fetching" /\ Len(cur) < BatchSize
    /\ \E id \in left : left' = left \ {id} /\ cur' = Append(cur, id)
    /\ UNCHANGED <<phase, metric, stored, queue, busy, built, matrix, held>>

\* A full batch, or a shorter one of long rows, waits for room in the channel.
Send ==
    /\ phase = "fetching" /\ cur # <<>> /\ Len(queue) < Capacity
    /\ queue' = Append(queue, cur) /\ cur' = <<>>
    /\ UNCHANGED <<phase, metric, stored, left, busy, built, matrix, held>>

\* After the last row, when the rest is sent: the channel is closed.
Close ==
    /\ phase = "fetching" /\ left = {} /\ cur = <<>>
    /\ phase' = "draining"
    /\ UNCHANGED <<metric, stored, scan, matrix, held>>

\* A row that cannot be read, or a statement that was cancelled: the rows fetched
\* last are not sent, but the workers are waited for.
Abandon ==
    /\ phase = "fetching"
    /\ phase' = "failing" /\ left' = {} /\ cur' = <<>>
    /\ UNCHANGED <<metric, stored, queue, busy, built, matrix, held>>

Take(w) ==
    /\ busy[w] = <<>> /\ queue # <<>>
    /\ busy' = [busy EXCEPT ![w] = Head(queue)] /\ queue' = Tail(queue)
    /\ UNCHANGED <<phase, metric, stored, left, cur, built, matrix, held>>

\* StoredVector, and Keep or Discard.
Parse(w) ==
    /\ busy[w] # <<>>
    /\ LET id == Head(busy[w])
       IN  built' = IF stored[id] = NoVector THEN built
                    ELSE [built EXCEPT ![w] = Append(@, <<id, stored[id]>>)]
    /\ busy' = [busy EXCEPT ![w] = Tail(@)]
    /\ UNCHANGED <<phase, metric, stored, left, cur, queue, matrix, held>>

\* After wg.Wait.
Gather ==
    /\ phase \in {"draining", "failing"} /\ queue = <<>> /\ busy = Idle
    /\ IF phase = "failing"
       THEN phase' = "none" /\ UNCHANGED <<matrix, held>>
       ELSE /\ phase' = "ready"
            /\ matrix' = BuilderMatrix(metric, MergeBuilders(built))
            /\ held' = Indexed(metric, stored)
    /\ built' = Idle /\ stored' = Blank
    /\ UNCHANGED <<metric, left, cur, queue, busy>>

-----------------------------------------------------------------------------
(* The other plan of buildMatrix, and a matrix in use.                     *)

AddRow ==
    /\ phase = "serial"
    /\ \E id \in left :
          /\ left' = left \ {id}
          /\ matrix' = IF stored[id] = NoVector THEN matrix ELSE Upsert(matrix, id, stored[id])
    /\ UNCHANGED <<phase, metric, stored, cur, queue, busy, built, held>>

AllAdded ==
    /\ phase = "serial" /\ left = {}
    /\ phase' = "ready" /\ held' = Indexed(metric, stored) /\ stored' = Blank
    /\ UNCHANGED <<metric, scan, matrix>>

\* A delta of ApplyVectorDeltas with a vector, and one without.
ChangeRow ==
    /\ phase = "ready"
    /\ \E id \in NodeIds, v \in Vectors :
          /\ matrix' = Upsert(matrix, id, v)
          /\ held' = IF metric = "cosine" /\ v = 0 THEN [x \in DOMAIN held \ {id} |-> held[x]]
                     ELSE [x \in DOMAIN held \cup {id} |-> IF x = id THEN v ELSE held[x]]
    /\ UNCHANGED <<phase, metric, stored, scan>>

DropRow ==
    /\ phase = "ready"
    /\ \E id \in NodeIds :
          /\ matrix' = RemoveRow(matrix, id)
          /\ held' = [x \in DOMAIN held \ {id} |-> held[x]]
    /\ UNCHANGED <<phase, metric, stored, scan>>

\* dropVectorMatrix and InvalidateVectors: the next search builds it again.
Discard ==
    /\ phase = "ready"
    /\ phase' = "none" /\ matrix' = NewMatrix(metric) /\ held' = <<>>
    /\ UNCHANGED <<metric, stored, scan>>

MatrixNext ==
    \/ \E plan \in {"fetching", "serial"} : Begin(plan)
    \/ Fetch \/ Send \/ Close \/ Abandon
    \/ \E w \in Crew : Take(w) \/ Parse(w)
    \/ Gather
    \/ AddRow \/ AllAdded
    \/ ChangeRow \/ DropRow \/ Discard

MatrixSpec == MatrixInit /\ [][MatrixNext]_matrixVars

-----------------------------------------------------------------------------

\* However the batches were shared out and in whatever order rows were appended,
\* overwritten and moved into gaps, a finished matrix holds the last vector of each
\* id and nothing else, its rows, ids and positions in step.
MatrixIsMap == phase = "ready" => WellFormed(matrix) /\ Contents(matrix) = held

\* Searched in any number of chunks, with any rows in the matrix that the statement
\* cannot see, queryNodes returns the best of those it can see, in order, ties by id:
\* it never skips a better one, and finds all of the best k while no more than Slack
\* rows are hidden.
SearchIsBest ==
    phase = "ready" =>
        LET better(x, y) == held[x] > held[y] \/ (held[x] = held[y] /\ x < y)
        IN  \A k \in 1..2, workers \in 1..2, visible \in SUBSET NodeIds :
                LET hits == QueryVectorNodes(matrix, k, workers, visible)
                    got  == [i \in DOMAIN hits |-> hits[i].id]
                    best == SetToSortSeq(DOMAIN held \cap visible, better)
                    owed == SubSeq(best, 1, IF k < Len(best) THEN k ELSE Len(best))
                IN  /\ IsPrefix(got, owed)
                    /\ Cardinality(DOMAIN held \ visible) <= Slack => got = owed
=============================================================================
