---------------------------- MODULE ImportProofs ----------------------------
(***************************************************************************)
(* Proofs about the copy that documents and exports are imported into: its *)
(* catalog stays in step, its edges keep both ends, it keeps to its        *)
(* constraints, and the schema of either database replays on itself.       *)
(*                                                                         *)
(* An import works through lists of any length, so these are proofs by     *)
(* induction.  It is taken from well-foundedness, over a set of numbers:   *)
(* a set that holds 0 and, with i - 1, i.                                  *)
(***************************************************************************)
EXTENDS ImportExportProofs, FiniteSetTheorems, SequenceTheorems

-----------------------------------------------------------------------------
(* Induction, and the numbering of a finite set.                           *)

\* Every set of numbers has a least one.
LEMMA LeastNumber ==
    ASSUME NEW T \in SUBSET Nat, T # {}
    PROVE  \E n \in T : \A m \in T : n <= m
<1> DEFINE U == {1..n : n \in T}
<1>1. U \subseteq FiniteSubsetsOf(Nat) /\ U # {}
  <2>1. \A n \in T : IsFiniteSet(1..n) /\ 1..n \subseteq Nat
    BY FS_Interval
  <2> QED
    BY <2>1 DEF FiniteSubsetsOf
<1>2. PICK X \in U : \A Y \in U : <<Y, X>> \notin StrictSubsetOrdering(Nat)
  <2> HIDE DEF U
  <2> QED
    BY <1>1, FS_StrictSubsetOrderingWellFounded, WFMin
<1>3. PICK n \in T : X = 1..n
  OBVIOUS
<1>4. ASSUME NEW m \in T PROVE n <= m
  <2>1. 1..m \subseteq Nat /\ 1..n \subseteq Nat /\ 1..m \in U
    OBVIOUS
  <2> DEFINE Y == 1..m
  <2> HIDE DEF U, Y
  <2>2. <<Y, X>> \notin StrictSubsetOrdering(Nat)
    BY <1>2, <2>1 DEF Y
  <2>3. ~(Y \subseteq X /\ Y # X)
    BY <1>3, <2>1, <2>2 DEF StrictSubsetOrdering, Y
  <2>4. CASE m < n
    <3>1. n \in 1..n /\ n \notin 1..m /\ 1..m \subseteq 1..n
      BY <2>4
    <3> QED
      BY <1>3, <2>3, <3>1 DEF Y
  <2> QED
    BY <2>4
<1> QED
  BY <1>4

\* Induction up to n.
LEMMA UpTo ==
    ASSUME NEW n \in Nat, NEW S, 0 \in S, \A i \in 1..n : i - 1 \in S => i \in S
    PROVE  0..n \subseteq S
<1> SUFFICES ASSUME (0..n) \ S # {} PROVE FALSE
  OBVIOUS
<1> DEFINE T == (0..n) \ S
<1>1. T \in SUBSET Nat /\ T # {}
  OBVIOUS
<1>2. PICK i \in T : \A m \in T : i <= m
  <2> HIDE DEF T
  <2> QED
    BY <1>1, LeastNumber
<1>3. i - 1 \in 0..n /\ i \in 1..n
  OBVIOUS
<1> QED
  BY <1>2, <1>3

\* How many of S are no higher than x.
Upto(S, x) == {y \in S : y <= x}

\* InOrder numbers S: each number up to its size names one of its ids.
LEMMA InOrderNames ==
    ASSUME NEW S \in SUBSET Nat, IsFiniteSet(S)
    PROVE  /\ IsSequence(InOrder(S)) /\ DOMAIN InOrder(S) = 1..Cardinality(S)
           /\ \A k \in DOMAIN InOrder(S) : InOrder(S)[k] \in S /\ Cardinality(Upto(S, InOrder(S)[k])) = k
<1> DEFINE n == Cardinality(S)
           r == [x \in S |-> Cardinality(Upto(S, x))]
<1>1. n \in Nat /\ IsFiniteSet(1..n) /\ Cardinality(1..n) = n
  BY FS_CardinalityType, FS_Interval
<1>2. \A x \in S : IsFiniteSet(Upto(S, x)) /\ Cardinality(Upto(S, x)) \in Nat /\ Cardinality(Upto(S, x)) <= n
  <2>1. \A x \in S : Upto(S, x) \in SUBSET S
    BY DEF Upto
  <2> QED
    BY <2>1, FS_Subset, FS_CardinalityType
<1>3. \A x \in S : Cardinality(Upto(S, x)) # 0
  <2>1. \A x \in S : x \in Upto(S, x)
    BY DEF Upto
  <2> QED
    BY <1>2, <2>1, FS_EmptySet
<1>4. r \in [S -> 1..n]
  BY <1>1, <1>2, <1>3
<1>5. ASSUME NEW x \in S, NEW y \in S, x < y PROVE r[x] # r[y]
  <2>1. Upto(S, x) \in SUBSET Upto(S, y) /\ y \in Upto(S, y) /\ y \notin Upto(S, x)
    <3>1. x \in Nat /\ y \in Nat /\ \A z \in S : z \in Nat
      OBVIOUS
    <3>2. \A z \in S : z <= x => z <= y
      BY <1>5, <3>1
    <3>3. y <= y /\ ~(y <= x)
      BY <1>5, <3>1
    <3> QED
      BY <3>2, <3>3 DEF Upto
  <2>2. Cardinality(Upto(S, x)) # Cardinality(Upto(S, y))
    BY <1>2, <2>1, FS_Subset
  <2> QED
    BY <2>2
<1> HIDE DEF r
<1>6. r \in Injection(S, 1..n)
  <2>1. \A x, y \in S : r[x] = r[y] => x = y
    BY <1>5
  <2> QED
    BY <1>4, <2>1 DEF Injection, IsInjective
<1>7. r \in Surjection(S, 1..n)
  BY <1>1, <1>6, FS_Injection
<1>8. \A k \in 1..n : \E x \in S : Cardinality(Upto(S, x)) = k
  BY <1>7 DEF Surjection, r
<1>9. InOrder(S) = [k \in 1..n |-> CHOOSE x \in S : Cardinality(Upto(S, x)) = k]
  BY DEF InOrder, Upto
<1>10. \A k \in 1..n : InOrder(S)[k] \in S /\ Cardinality(Upto(S, InOrder(S)[k])) = k
  BY <1>8, <1>9
<1>11. IsSequence(InOrder(S)) /\ DOMAIN InOrder(S) = 1..n
  <2> DEFINE o == InOrder(S)
  <2>1. o = [k \in 1..n |-> o[k]]
    BY <1>9
  <2> HIDE DEF o
  <2>2. Len(o) = n
    BY <1>1, <2>1, LenProperties
  <2> QED
    BY <1>1, <2>1, <2>2 DEF IsSequence, o
<1> QED
  BY <1>10, <1>11

-----------------------------------------------------------------------------
(* The work of an import.                                                  *)

\* f is the progress of the first n pieces.
Follows(d, work, f, n) ==
    f = [i \in 0..n |-> IF i = 0 THEN Begun(d) ELSE Perform(d, f[i - 1], work[i])]

\* Progress is what its definition says: each piece takes it on from where the last
\* one left it.
LEMMA ProgressIs ==
    ASSUME NEW d, NEW work, Len(work) \in Nat
    PROVE  /\ Progress(d, work)[0] = Begun(d)
           /\ \A i \in 1..Len(work) : Progress(d, work)[i] = Perform(d, Progress(d, work)[i - 1], work[i])
<1> DEFINE n == Len(work)
           S == {m \in 0..n : \E f : Follows(d, work, f, m)}
<1>1. 0 \in S
  <2>1. Follows(d, work, [i \in 0..0 |-> Begun(d)], 0)
    BY DEF Follows
  <2> QED
    BY <2>1
<1>2. ASSUME NEW m \in 1..n, m - 1 \in S PROVE m \in S
  <2>1. PICK f : Follows(d, work, f, m - 1)
    BY <1>2
  <2> DEFINE h == [i \in 0..m |-> IF i = m THEN Perform(d, f[m - 1], work[m]) ELSE f[i]]
  <2>2. ASSUME NEW i \in 0..m
        PROVE  h[i] = IF i = 0 THEN Begun(d) ELSE Perform(d, h[i - 1], work[i])
    <3>1. CASE i = m
      <4>1. h[i] = Perform(d, f[m - 1], work[m]) /\ h[i - 1] = f[m - 1] /\ i # 0
        BY <3>1
      <4> QED
        BY <3>1, <4>1
    <3>2. CASE i # m
      <4>1. i \in 0..(m - 1) /\ f[i] = IF i = 0 THEN Begun(d) ELSE Perform(d, f[i - 1], work[i])
        BY <2>1, <3>2 DEF Follows
      <4>2. h[i] = f[i] /\ (i # 0 => h[i - 1] = f[i - 1])
        BY <3>2
      <4> QED
        BY <4>1, <4>2
    <3> QED
      BY <3>1, <3>2
  <2>3. h = [i \in 0..m |-> h[i]]
    OBVIOUS
  <2> HIDE DEF h
  <2>4. Follows(d, work, h, m)
    BY <2>2, <2>3 DEF Follows
  <2> QED
    BY <2>4
<1>3. n \in S
  <2>1. 0..n \subseteq S
    <3> HIDE DEF S
    <3> QED
      BY <1>1, <1>2, UpTo
  <2> QED
    BY <2>1
<1>4. PICK f : Follows(d, work, f, n)
  BY <1>3
<1>5. Follows(d, work, Progress(d, work), n)
  BY <1>4, Zenon DEF Progress, Follows
<1> DEFINE after == Progress(d, work)
<1> HIDE DEF after
<1>6. after = [i \in 0..n |-> IF i = 0 THEN Begun(d) ELSE Perform(d, after[i - 1], work[i])]
  BY <1>5 DEF Follows, after
<1>7. after[0] = Begun(d) /\ \A i \in 1..n : after[i] = Perform(d, after[i - 1], work[i])
  BY <1>6
<1> QED
  BY <1>7 DEF after

-----------------------------------------------------------------------------
(* The schema of a database, as statements.                                *)

\* The statements of a schema are definitions it has.
LEMMA StatementsDefined ==
    ASSUME NEW d, IsFile(d)
    PROVE  /\ IsSequence(SchemaStatements(d))
           /\ \A k \in DOMAIN SchemaStatements(d) : \E i \in DOMAIN d.defs : SchemaStatements(d)[k] = d.defs[i]
<1> DEFINE carried == {i \in DOMAIN d.defs : d.defs[i].kind \notin {"FULLTEXT", "LOOKUP"}}
           ids == InOrder(carried)
           statements == [k \in DOMAIN ids |-> d.defs[ids[k]]]
<1>1. d.last.defs \in Nat /\ carried \in SUBSET (1..d.last.defs)
  <2>1. d.last.defs \in Nat /\ DOMAIN d.defs \subseteq 1..d.last.defs
    BY DEF IsFile
  <2> QED
    BY <2>1
<1>2. carried \in SUBSET Nat /\ IsFiniteSet(carried)
  <2> HIDE DEF carried
  <2>1. IsFiniteSet(1..d.last.defs)
    BY <1>1, FS_Interval
  <2>2. IsFiniteSet(carried)
    BY <1>1, <2>1, FS_Subset
  <2>3. 1..d.last.defs \subseteq Nat
    BY <1>1
  <2> QED
    BY <1>1, <2>2, <2>3
<1>3. /\ DOMAIN ids = 1..Cardinality(carried) /\ Cardinality(carried) \in Nat
      /\ \A k \in DOMAIN ids : ids[k] \in DOMAIN d.defs
  <2> HIDE DEF carried
  <2>1. /\ DOMAIN ids = 1..Cardinality(carried) /\ Cardinality(carried) \in Nat
        /\ \A k \in DOMAIN ids : ids[k] \in carried
    BY <1>2, InOrderNames, FS_CardinalityType
  <2> QED
    BY <2>1 DEF carried
<1>4. SchemaStatements(d) = statements
  BY DEF SchemaStatements
<1> HIDE DEF carried, ids
<1>5. IsSequence(statements)
  <2> DEFINE n == Cardinality(carried)
  <2>1. statements = [k \in 1..n |-> statements[k]] /\ n \in Nat
    BY <1>3
  <2> HIDE DEF statements, n
  <2>2. Len(statements) = n
    BY <2>1
  <2> QED
    BY <2>1, <2>2 DEF IsSequence
<1>6. \A k \in DOMAIN statements : \E i \in DOMAIN d.defs : statements[k] = d.defs[i]
  BY <1>3
<1> QED
  BY <1>4, <1>5, <1>6

-----------------------------------------------------------------------------
(* The work of an import, piece by piece.                                  *)

\* Marking rows keeps their number and order.
LEMMA EachIs ==
    ASSUME NEW do, NEW rows, IsSequence(rows)
    PROVE  /\ IsSequence(Each(do, rows)) /\ DOMAIN Each(do, rows) = DOMAIN rows
           /\ \A i \in DOMAIN rows : Each(do, rows)[i] = [do |-> do, row |-> rows[i]]
<1> DEFINE n == Len(rows)
           e == Each(do, rows)
<1>1. n \in Nat /\ DOMAIN rows = 1..n
  BY DEF IsSequence
<1>2. e = [i \in 1..n |-> e[i]] /\ \A i \in 1..n : e[i] = [do |-> do, row |-> rows[i]]
  BY <1>1 DEF Each
<1> HIDE DEF e, n
<1>3. Len(e) = n
  BY <1>1, <1>2
<1> QED
  BY <1>1, <1>2, <1>3 DEF IsSequence, e

\* One list after another.
LEMMA Joined ==
    ASSUME NEW s, NEW t, IsSequence(s), IsSequence(t)
    PROVE  /\ IsSequence(s \o t) /\ Len(s \o t) = Len(s) + Len(t)
           /\ \A i \in 1..(Len(s) + Len(t)) : (s \o t)[i] = IF i <= Len(s) THEN s[i] ELSE t[i - Len(s)]
<1> DEFINE A == {s[i] : i \in DOMAIN s} \cup {t[i] : i \in DOMAIN t}
<1>1. s \in Seq(A) /\ t \in Seq(A)
  BY DEF IsSequence
<1>2. /\ s \o t \in Seq(A) /\ Len(s \o t) = Len(s) + Len(t)
      /\ \A i \in 1..(Len(s) + Len(t)) : (s \o t)[i] = IF i <= Len(s) THEN s[i] ELSE t[i - Len(s)]
  <2> HIDE DEF A
  <2> QED
    BY <1>1, ConcatProperties
<1>3. IsSequence(s \o t)
  <2> DEFINE u == s \o t
  <2>1. u \in Seq(A)
    BY <1>2
  <2> HIDE DEF u, A
  <2> QED
    BY <2>1, LenProperties DEF IsSequence, u
<1> QED
  BY <1>2, <1>3

\* What an import has so far is a whole database, and every id of the file it knows
\* is that of one of its nodes.
Going(acc) ==
    /\ acc = [x \in {"ok", "db", "ids"} |-> acc[x]]
    /\ Whole(acc.db)
    /\ \A x \in DOMAIN acc.ids : acc.ids[x] \in DOMAIN acc.db.nodes

\* A piece of work.
IsPiece(w) ==
    /\ w.do \in {"node", "edge", "link", "check", "define"}
    /\ w.do = "define" => IsDefinition(w.row)

IsWork(work) == IsSequence(work) /\ \A i \in DOMAIN work : IsPiece(work[i])

\* A new node leaves the rest, and is one an edge of the file may name.
LEMMA TakeNodeKeeps ==
    ASSUME NEW acc, Going(acc), NEW n
    PROVE  Going(TakeNode(acc, n))
<1> DEFINE new == InsertNode(acc.db, Node(n.labels, n.val))
           id == new.last.nodes
           ids == IF n.id = 0 THEN acc.ids ELSE Put(acc.ids, n.id, id)
           taken == TakeNode(acc, n)
<1>1. IsFile(acc.db) /\ Catalogued(acc.db) /\ Attached(acc.db)
  BY DEF Going, Whole
<1>2. /\ IsFile(new) /\ new.edges = acc.db.edges /\ new.defs = acc.db.defs /\ new.backing = acc.db.backing
      /\ DOMAIN new.nodes = DOMAIN acc.db.nodes \cup {id}
  BY <1>1, InsertNodeGives
<1>3. /\ taken = [x \in {"ok", "db", "ids"} |-> taken[x]]
      /\ taken.db = new /\ taken.ids = ids
  BY DEF TakeNode
<1> HIDE DEF new, taken
<1>4. Whole(new)
  BY <1>1, <1>2, CatalogKept DEF Whole, Attached
<1>5. \A x \in DOMAIN ids : ids[x] \in DOMAIN new.nodes
  BY <1>2 DEF Put, Going
<1> HIDE DEF ids
<1>6. Going(taken)
  BY <1>3, <1>4, <1>5 DEF Going
<1> QED
  BY <1>6 DEF taken

\* A new edge has both its ends.
LEMMA AttachKeeps ==
    ASSUME NEW acc, Going(acc), NEW edge, edge.s \in DOMAIN acc.db.nodes, edge.t \in DOMAIN acc.db.nodes,
           NEW new, new = InsertEdge(acc.db, edge)
    PROVE  Going([acc EXCEPT !.db = new])
<1> DEFINE taken == [acc EXCEPT !.db = new]
<1>1. IsFile(acc.db) /\ Catalogued(acc.db) /\ Attached(acc.db)
  BY DEF Going, Whole
<1>2. /\ IsFile(new) /\ new.nodes = acc.db.nodes /\ new.defs = acc.db.defs /\ new.backing = acc.db.backing
      /\ DOMAIN new.edges = DOMAIN acc.db.edges \cup {new.last.edges}
      /\ new.edges[new.last.edges] = edge
      /\ \A e \in DOMAIN acc.db.edges : new.edges[e] = acc.db.edges[e]
  BY <1>1, InsertEdgeGives
<1>3. Whole(new)
  <2>1. Attached(new)
    BY <1>1, <1>2 DEF Attached
  <2> QED
    BY <1>1, <1>2, <2>1, CatalogKept DEF Whole
<1>4. /\ taken = [x \in {"ok", "db", "ids"} |-> taken[x]]
      /\ taken.db = new /\ taken.ids = acc.ids
  BY DEF Going
<1> HIDE DEF taken
<1>5. Going(taken)
  BY <1>2, <1>3, <1>4 DEF Going
<1> QED
  BY <1>5 DEF taken

\* So does every piece of work.
LEMMA PerformKeeps ==
    ASSUME NEW d, NEW acc, Going(acc), NEW w, IsPiece(w)
    PROVE  Going(Perform(d, acc, w))
<1> DEFINE next == Perform(d, acc, w)
<1>1. CASE ~acc.ok
  BY <1>1 DEF Perform
<1>2. CASE acc.ok /\ w.do = "node"
  <2>1. next = TakeNode(acc, w.row)
    BY <1>2 DEF Perform
  <2> QED
    BY <2>1, TakeNodeKeeps
<1>3. ASSUME NEW ok PROVE Going([acc EXCEPT !.ok = ok])
  <2> DEFINE r == [acc EXCEPT !.ok = ok]
  <2>1. r = [x \in {"ok", "db", "ids"} |-> r[x]] /\ r.db = acc.db /\ r.ids = acc.ids
    BY DEF Going
  <2> HIDE DEF r
  <2>2. Going(r)
    BY <2>1 DEF Going
  <2> QED
    BY <2>2 DEF r
<1>4. CASE acc.ok /\ w.do = "edge"
  <2>1. next = TakeEdge(acc, w.row)
    BY <1>4 DEF Perform
  <2> DEFINE edge == EndsOf(acc.ids, w.row)
  <2>2. CASE w.row.s \in DOMAIN acc.ids /\ w.row.t \in DOMAIN acc.ids /\ next # [acc EXCEPT !.ok = FALSE]
    <3>1. next = [acc EXCEPT !.db = InsertEdge(acc.db, edge)]
      BY <2>1, <2>2 DEF TakeEdge
    <3>2. edge.s \in DOMAIN acc.db.nodes /\ edge.t \in DOMAIN acc.db.nodes
      BY <2>2 DEF Going, EndsOf
    <3> HIDE DEF edge, next
    <3> QED
      BY <3>1, <3>2, AttachKeeps DEF next
  <2>3. CASE next = [acc EXCEPT !.ok = FALSE]
    BY <1>3, <2>3
  <2> QED
    BY <2>1, <2>2, <2>3 DEF TakeEdge
<1>5. CASE acc.ok /\ w.do = "link"
  <2>1. next = TakeLink(acc, w.row)
    BY <1>5 DEF Perform
  <2> DEFINE edge == [type |-> w.row.type, s |-> w.row.s, t |-> w.row.t]
  <2>2. CASE w.row.s \in DOMAIN acc.db.nodes /\ w.row.t \in DOMAIN acc.db.nodes /\ next # [acc EXCEPT !.ok = FALSE]
    <3>1. next = [acc EXCEPT !.db = InsertEdge(acc.db, edge)]
      BY <2>1, <2>2 DEF TakeLink
    <3>2. edge.s \in DOMAIN acc.db.nodes /\ edge.t \in DOMAIN acc.db.nodes
      BY <2>2
    <3> HIDE DEF edge, next
    <3> QED
      BY <3>1, <3>2, AttachKeeps DEF next
  <2>3. CASE next = [acc EXCEPT !.ok = FALSE]
    BY <1>3, <2>3
  <2> QED
    BY <2>1, <2>2, <2>3 DEF TakeLink
<1>6. CASE acc.ok /\ w.do = "check"
  <2>1. next = [acc EXCEPT !.ok = ValidateImported(d, acc.db)]
    BY <1>6 DEF Perform
  <2> QED
    BY <1>3, <2>1
<1>7. CASE acc.ok /\ w.do = "define"
  <2>1. next = Replay(acc, w.row)
    BY <1>7 DEF Perform
  <2> DEFINE r == CreateSchema(acc.db, w.row.name, TRUE, w.row)
  <2>2. /\ next = [x \in {"ok", "db", "ids"} |-> next[x]]
        /\ next.db = r.db /\ next.ids = acc.ids
    BY <2>1 DEF Replay
  <2>3. Defines(acc.db, r.db, w.row.name, w.row)
    BY <1>7, CreateKeeps DEF IsPiece, Going, Whole
  <2> HIDE DEF r, next
  <2>4. Whole(r.db) /\ r.db.nodes = acc.db.nodes
    BY <2>3 DEF Defines, Whole, Going, Attached
  <2>5. Going(next)
    BY <2>2, <2>4 DEF Going
  <2> QED
    BY <2>5 DEF next
<1> QED
  BY <1>1, <1>2, <1>4, <1>5, <1>6, <1>7 DEF IsPiece

\* An import of any length leaves a whole database whole.
LEMMA ImportWhole ==
    ASSUME NEW d, Whole(d), NEW work, IsWork(work)
    PROVE  /\ \A i \in 0..Len(work) : Going(Progress(d, work)[i])
           /\ Whole(Imported(d, work).db)
<1> DEFINE n == Len(work)
           p == Progress(d, work)
           S == {i \in 0..n : Going(p[i])}
<1>1. n \in Nat /\ DOMAIN work = 1..n
  BY DEF IsSequence, IsWork
<1>2. p[0] = Begun(d) /\ \A i \in 1..n : p[i] = Perform(d, p[i - 1], work[i])
  BY <1>1, ProgressIs
<1> HIDE DEF p, n
<1>3. 0 \in S
  BY <1>1, <1>2 DEF Begun, Going
<1>4. ASSUME NEW i \in 1..n, i - 1 \in S PROVE i \in S
  <2>1. Going(p[i - 1]) /\ IsPiece(work[i])
    BY <1>1, <1>4 DEF IsWork
  <2> QED
    BY <1>2, <2>1, PerformKeeps
<1>5. 0..n \subseteq S
  <2> HIDE DEF S
  <2> QED
    BY <1>1, <1>3, <1>4, UpTo
<1>6. \A i \in 0..n : Going(p[i])
  BY <1>5
<1>7. Whole(Imported(d, work).db)
  <2>1. Whole(p[n].db)
    <3>1. n \in 0..n
      BY <1>1
    <3>2. Going(p[n])
      BY <1>6, <3>1
    <3> QED
      BY <3>2 DEF Going
  <2>2. Imported(d, work).db \in {p[n].db, d}
    BY DEF Imported, Done, Refused, p, n
  <2> QED
    BY <2>1, <2>2
<1> QED
  BY <1>6, <1>7 DEF p, n

-----------------------------------------------------------------------------
(* What is imported.                                                       *)

\* A document is three lists, the last of definitions.
Carried(doc) ==
    /\ IsSequence(doc.nodes) /\ IsSequence(doc.edges) /\ IsSequence(doc.schema)
    /\ \A i \in DOMAIN doc.schema : IsDefinition(doc.schema[i])

LEMMA EachIsWork ==
    ASSUME NEW do \in {"node", "edge", "link", "check", "define"}, NEW rows, IsSequence(rows),
           do = "define" => \A i \in DOMAIN rows : IsDefinition(rows[i])
    PROVE  IsWork(Each(do, rows))
<1> DEFINE e == Each(do, rows)
<1>1. IsSequence(e) /\ DOMAIN e = DOMAIN rows /\ \A i \in DOMAIN rows : e[i] = [do |-> do, row |-> rows[i]]
  BY EachIs
<1> HIDE DEF e
<1>2. ASSUME NEW i \in DOMAIN rows PROVE IsPiece(e[i])
  <2>1. e[i].do = do /\ e[i].row = rows[i]
    BY <1>1
  <2> QED
    BY <2>1 DEF IsPiece
<1> QED
  BY <1>1, <1>2 DEF IsWork, e

LEMMA JoinedWork ==
    ASSUME NEW s, NEW t, IsWork(s), IsWork(t)
    PROVE  IsWork(s \o t)
<1> DEFINE u == s \o t
           m == Len(s)
           n == Len(t)
<1>1. IsSequence(s) /\ IsSequence(t)
  BY DEF IsWork
<1>2. /\ m \in Nat /\ n \in Nat /\ DOMAIN s = 1..m /\ DOMAIN t = 1..n
  BY <1>1 DEF IsSequence
<1>3. /\ IsSequence(u) /\ Len(u) = m + n
      /\ \A i \in 1..(m + n) : u[i] = IF i <= m THEN s[i] ELSE t[i - m]
  BY <1>1, Joined
<1> HIDE DEF u, m, n
<1>4. DOMAIN u = 1..(m + n)
  BY <1>3 DEF IsSequence
<1>5. ASSUME NEW i \in 1..(m + n) PROVE IsPiece(u[i])
  <2>1. CASE i <= m
    <3>1. u[i] = s[i] /\ i \in DOMAIN s
      BY <1>2, <1>3, <2>1
    <3> QED
      BY <3>1 DEF IsWork
  <2>2. CASE ~(i <= m)
    <3>1. u[i] = t[i - m] /\ i - m \in DOMAIN t
      BY <1>2, <1>3, <2>2
    <3> QED
      BY <3>1 DEF IsWork
  <2> QED
    BY <2>1, <2>2
<1>6. IsWork(u)
  BY <1>3, <1>4, <1>5 DEF IsWork
<1> QED
  BY <1>6 DEF u

LEMMA CheckIsWork == IsWork(Check)
<1>1. Len(Check) = 1 /\ Check = [i \in 1..1 |-> Check[i]] /\ Check[1].do = "check"
  BY DEF Check
<1>2. IsSequence(Check)
  BY <1>1 DEF IsSequence
<1>3. IsPiece(Check[1])
  BY <1>1 DEF IsPiece
<1>4. DOMAIN Check = {1}
  BY DEF Check
<1> QED
  BY <1>2, <1>3, <1>4 DEF IsWork

\* Reading the rows of a list one by one keeps it a list.
LEMMA ReadIs ==
    ASSUME NEW rows, IsSequence(rows), NEW read, IsFunction(read), DOMAIN read = DOMAIN rows
    PROVE  IsSequence(read)
<1> DEFINE n == Len(rows)
<1>1. n \in Nat /\ read = [i \in 1..n |-> read[i]]
  BY DEF IsSequence, IsFunction
<1> HIDE DEF n
<1>2. Len(read) = n
  BY <1>1
<1> QED
  BY <1>1, <1>2 DEF IsSequence

\* Every import is work.
LEMMA ImportsAreWork ==
    ASSUME NEW doc, Carried(doc)
    PROVE  IsWork(JSONWork(doc)) /\ IsWork(CSVNodeWork(doc)) /\ IsWork(CSVEdgeWork(doc))
<1> DEFINE json == [i \in DOMAIN doc.nodes |-> [id |-> doc.nodes[i].id, labels |-> doc.nodes[i].labels,
                                                val |-> Reencoded(doc.nodes[i].val)]]
           csv == [i \in DOMAIN doc.nodes |-> [id |-> 0, labels |-> Reread(doc.nodes[i].labels), val |-> doc.nodes[i].val]]
<1>1. IsFunction(json) /\ DOMAIN json = DOMAIN doc.nodes /\ IsFunction(csv) /\ DOMAIN csv = DOMAIN doc.nodes
  BY DEF IsFunction
<1>2. /\ JSONWork(doc) = Each("node", json) \o Each("edge", doc.edges) \o Check \o Each("define", doc.schema)
      /\ CSVNodeWork(doc) = Each("node", csv) \o Check
      /\ CSVEdgeWork(doc) = Each("link", doc.edges) \o Check
  BY DEF JSONWork, CSVNodeWork, CSVEdgeWork
<1> HIDE DEF json, csv
<1>3. IsSequence(json) /\ IsSequence(csv)
  BY <1>1, ReadIs DEF Carried
<1>4. /\ IsWork(Each("node", json)) /\ IsWork(Each("node", csv)) /\ IsWork(Each("edge", doc.edges))
      /\ IsWork(Each("link", doc.edges)) /\ IsWork(Each("define", doc.schema))
  BY <1>3, EachIsWork DEF Carried
<1>5. IsWork(JSONWork(doc))
  <2>1. IsWork(Each("node", json) \o Each("edge", doc.edges))
    BY <1>4, JoinedWork
  <2>2. IsWork(Each("node", json) \o Each("edge", doc.edges) \o Check)
    BY <2>1, CheckIsWork, JoinedWork
  <2> QED
    BY <1>2, <1>4, <2>2, JoinedWork
<1>6. IsWork(CSVNodeWork(doc)) /\ IsWork(CSVEdgeWork(doc))
  BY <1>2, <1>4, CheckIsWork, JoinedWork
<1> QED
  BY <1>5, <1>6

-----------------------------------------------------------------------------
(* Exports.                                                                *)

\* The ids of a table, in order.
LEMMA IdsInOrder ==
    ASSUME NEW n \in Nat, NEW S, S \subseteq 1..n
    PROVE  /\ IsSequence(InOrder(S)) /\ \A k \in DOMAIN InOrder(S) : InOrder(S)[k] \in S
<1>1. IsFiniteSet(S)
  <2>1. IsFiniteSet(1..n)
    BY FS_Interval
  <2> QED
    BY <2>1, FS_Subset
<1>2. S \in SUBSET Nat
  OBVIOUS
<1> QED
  BY <1>1, <1>2, InOrderNames

\* An export is a document.
Exporting(x) ==
    /\ x = [f \in {"phase", "format", "doc", "origin", "torn"} |-> x[f]]
    /\ x.doc = [f \in {"nodes", "edges", "schema"} |-> x.doc[f]]
    /\ Carried(x.doc)

\* A row of the new document is one of the old, or lists a node of the database.
Copied(old, new, d) ==
    /\ \A i \in DOMAIN new.nodes :
          \/ i \in DOMAIN old.nodes /\ new.nodes[i] = old.nodes[i]
          \/ \E id \in DOMAIN d.nodes : new.nodes[i].labels = d.nodes[id].text
    /\ \A i \in DOMAIN new.schema :
          \/ i \in DOMAIN old.schema /\ new.schema[i] = old.schema[i]
          \/ \E j \in DOMAIN d.defs : new.schema[i] = d.defs[j]

\* The lists an export makes are lists of rows of the database as it is then.
LEMMA ExportStep ==
    ASSUME Exporting(export), IsFile(db), [Next]_vars
    PROVE  Exporting(export') /\ Copied(export.doc, export'.doc, db)
<1> DEFINE doc == export.doc
           new == export'
<1>0. ASSUME new.doc = doc, new = [f \in {"phase", "format", "doc", "origin", "torn"} |-> new[f]]
      PROVE  Exporting(new) /\ Copied(doc, new.doc, db)
  <2> HIDE DEF new
  <2>1. Exporting(new)
    BY <1>0 DEF Exporting
  <2>2. Copied(doc, new.doc, db)
    BY <1>0 DEF Copied
  <2> QED
    BY <2>1, <2>2
<1>1. CASE UNCHANGED export
  BY <1>0, <1>1 DEF Exporting
<1>2. CASE \E b \in BOOLEAN : export' = [export EXCEPT !.torn = b]
  BY <1>0, <1>2 DEF Exporting
<1>3. CASE BeginExport
  <2> DEFINE ids == InOrder(DOMAIN db.nodes)
  <2>1. PICK format \in {"json", "csv"} :
           LET conv(v) == IF format = "json" THEN Reencoded(v) ELSE Texted(v)
               nodes == [i \in DOMAIN ids |-> [id |-> ids[i], labels |-> db.nodes[ids[i]].text, val |-> conv(db.nodes[ids[i]].val)]]
           IN  export' = [phase |-> "nodes", format |-> format, doc |-> [NoDoc EXCEPT !.nodes = nodes], origin |-> db, torn |-> FALSE]
    BY <1>3 DEF BeginExport
  <2> DEFINE conv(v) == IF format = "json" THEN Reencoded(v) ELSE Texted(v)
             nodes == [i \in DOMAIN ids |-> [id |-> ids[i], labels |-> db.nodes[ids[i]].text, val |-> conv(db.nodes[ids[i]].val)]]
  <2>2. IsSequence(ids) /\ \A i \in DOMAIN ids : ids[i] \in DOMAIN db.nodes
    <3>1. db.last.nodes \in Nat /\ DOMAIN db.nodes \subseteq 1..db.last.nodes
      BY DEF IsFile
    <3> QED
      BY <3>1, IdsInOrder
  <2> HIDE DEF ids
  <2>3. IsFunction(nodes) /\ DOMAIN nodes = DOMAIN ids /\ \A i \in DOMAIN ids : nodes[i].labels = db.nodes[ids[i]].text
    BY DEF IsFunction
  <2>4. export' = [phase |-> "nodes", format |-> format, doc |-> [NoDoc EXCEPT !.nodes = nodes], origin |-> db, torn |-> FALSE]
    BY <2>1
  <2> HIDE DEF nodes
  <2>5. IsSequence(nodes)
    BY <2>2, <2>3, ReadIs
  <2>6. /\ new = [f \in {"phase", "format", "doc", "origin", "torn"} |-> new[f]]
        /\ new.doc = [f \in {"nodes", "edges", "schema"} |-> new.doc[f]]
        /\ new.doc.nodes = nodes /\ new.doc.edges = <<>> /\ new.doc.schema = <<>>
    BY <2>4 DEF NoDoc
  <2> HIDE DEF new
  <2>7. Exporting(new)
    <3>1. IsSequence(<<>>) /\ DOMAIN <<>> = {}
      BY DEF IsSequence
    <3> QED
      BY <2>5, <2>6, <3>1 DEF Exporting, Carried
  <2>8. Copied(doc, new.doc, db)
    BY <2>2, <2>3, <2>6 DEF Copied
  <2> QED
    BY <2>7, <2>8 DEF new
<1>4. CASE ExportEdges
  <2> DEFINE ids == InOrder(DOMAIN db.edges)
             edges == Listed(db.edges)
             phase == IF export.format = "json" THEN "edges" ELSE "done"
  <2>1. IsSequence(ids)
    <3>1. db.last.edges \in Nat /\ DOMAIN db.edges \subseteq 1..db.last.edges
      BY DEF IsFile
    <3> QED
      BY <3>1, IdsInOrder
  <2>2. IsSequence(edges)
    <3>1. IsFunction(edges) /\ DOMAIN edges = DOMAIN ids
      BY DEF Listed, IsFunction
    <3> HIDE DEF edges, ids
    <3> QED
      BY <2>1, <3>1, ReadIs
  <2>3. export' = [export EXCEPT !.phase = phase, !.doc.edges = edges]
    BY <1>4 DEF ExportEdges
  <2> HIDE DEF edges, phase
  <2>4. /\ new = [f \in {"phase", "format", "doc", "origin", "torn"} |-> new[f]]
        /\ new.doc = [f \in {"nodes", "edges", "schema"} |-> new.doc[f]]
        /\ new.doc.nodes = doc.nodes /\ new.doc.edges = edges /\ new.doc.schema = doc.schema
    BY <2>3 DEF Exporting
  <2> HIDE DEF new
  <2>5. Exporting(new)
    BY <2>2, <2>4 DEF Exporting, Carried
  <2>6. Copied(doc, new.doc, db)
    BY <2>4 DEF Copied
  <2> QED
    BY <2>5, <2>6 DEF new
<1>5. CASE ExportSchema
  <2> DEFINE schema == SchemaStatements(db)
  <2>1. /\ IsSequence(schema)
        /\ \A k \in DOMAIN schema : \E i \in DOMAIN db.defs : schema[k] = db.defs[i]
    BY StatementsDefined
  <2>2. export' = [export EXCEPT !.phase = "done", !.doc.schema = schema]
    BY <1>5 DEF ExportSchema
  <2> HIDE DEF schema
  <2>3. /\ new = [f \in {"phase", "format", "doc", "origin", "torn"} |-> new[f]]
        /\ new.doc = [f \in {"nodes", "edges", "schema"} |-> new.doc[f]]
        /\ new.doc.nodes = doc.nodes /\ new.doc.edges = doc.edges /\ new.doc.schema = schema
    BY <2>2 DEF Exporting
  <2> HIDE DEF new
  <2>4. \A k \in DOMAIN schema : IsDefinition(schema[k])
    BY <2>1 DEF IsFile
  <2>5. Exporting(new)
    BY <2>1, <2>3, <2>4 DEF Exporting, Carried
  <2>6. Copied(doc, new.doc, db)
    BY <2>1, <2>3 DEF Copied
  <2> QED
    BY <2>5, <2>6 DEF new
<1>6. CASE CreateNode \/ SetVal \/ CreateRel \/ DeleteNode \/ Create \/ DropDef
  <2>1. \E r : Ran(r)
    BY <1>6 DEF CreateNode, SetVal, CreateRel, DeleteNode, Create, DropDef
  <2> QED
    BY <1>2, <2>1 DEF Ran
<1>7. CASE ImportExported \/ ImportNodeFile \/ ImportEdgeFile \/ ImportDocument
  BY <1>1, <1>7 DEF ImportExported, ImportNodeFile, ImportEdgeFile, ImportDocument, Took
<1>8. CASE UNCHANGED vars
  BY <1>1, <1>8 DEF vars
<1> QED
  BY <1>3, <1>4, <1>5, <1>6, <1>7, <1>8 DEF Next

-----------------------------------------------------------------------------
(* The copy stays whole.                                                   *)

\* A step leaves the copy alone or imports a document or the export into it.
LEMMA ImportCases ==
    ASSUME [Next]_vars
    PROVE  \/ copy' = copy
           \/ \E doc \in Documents : copy' = Imported(copy, JSONWork(doc)).db
           \/ \E work \in {JSONWork(export.doc), CSVNodeWork(export.doc), CSVEdgeWork(export.doc)} :
                 copy' = Imported(copy, work).db
<1>1. CASE CreateNode \/ SetVal \/ CreateRel \/ DeleteNode \/ Create \/ DropDef
  BY <1>1 DEF CreateNode, SetVal, CreateRel, DeleteNode, Create, DropDef, Ran
<1>2. CASE BeginExport \/ ExportEdges \/ ExportSchema
  BY <1>2 DEF BeginExport, ExportEdges, ExportSchema
<1>3. CASE ImportExported \/ ImportNodeFile \/ ImportEdgeFile
  BY <1>3 DEF ImportExported, ImportNodeFile, ImportEdgeFile, ImportJSON, ImportCSVNodes, ImportCSVEdges, Took
<1>4. CASE ImportDocument
  BY <1>4 DEF ImportDocument, ImportJSON, Took
<1>5. CASE UNCHANGED vars
  BY <1>5 DEF vars
<1> QED
  BY <1>1, <1>2, <1>3, <1>4, <1>5 DEF Next

\* Both databases are whole and the export is a document.
Sound == Whole(db) /\ Whole(copy) /\ Exporting(export)

LEMMA InitSound == Init => Sound
<1> SUFFICES ASSUME Init PROVE Whole(copy) /\ Exporting(export)
  BY InitWhole DEF Sound
<1>1. copy = db
  BY DEF Init
<1>2. Whole(copy)
  BY <1>1, InitWhole
<1>3. Exporting(NoExport)
  <2>1. IsSequence(<<>>) /\ DOMAIN <<>> = {}
    BY DEF IsSequence
  <2> QED
    BY <2>1 DEF NoExport, NoDoc, Exporting, Carried
<1> QED
  BY <1>2, <1>3 DEF Init

LEMMA SoundStep == Sound /\ [Next]_vars => Sound'
<1> SUFFICES ASSUME Sound, [Next]_vars PROVE Whole(db') /\ Whole(copy') /\ Exporting(export')
  BY DEF Sound
<1>1. Whole(db')
  BY WholeStep DEF Sound
<1>2. Exporting(export')
  BY ExportStep DEF Sound, Whole
<1>3. Whole(copy')
  <2>1. CASE copy' = copy
    BY <2>1 DEF Sound
  <2>2. ASSUME NEW doc \in Documents, copy' = Imported(copy, JSONWork(doc)).db
        PROVE  Whole(copy')
    <3>1. Carried(doc)
      BY DocumentAssumption DEF Carried
    <3>2. IsWork(JSONWork(doc))
      BY <3>1, ImportsAreWork
    <3> QED
      BY <2>2, <3>2, ImportWhole DEF Sound
  <2>3. ASSUME NEW work \in {JSONWork(export.doc), CSVNodeWork(export.doc), CSVEdgeWork(export.doc)},
               copy' = Imported(copy, work).db
        PROVE  Whole(copy')
    <3>1. Carried(export.doc)
      BY DEF Sound, Exporting
    <3>2. IsWork(work)
      BY <3>1, ImportsAreWork
    <3> QED
      BY <2>3, <3>2, ImportWhole DEF Sound
  <2> QED
    BY <2>1, <2>2, <2>3, ImportCases
<1> QED
  BY <1>1, <1>2, <1>3

LEMMA SoundHolds == Spec => []Sound
<1>1. Init => Sound
  BY InitSound
<1>2. Sound /\ [Next]_vars => Sound'
  BY SoundStep
<1> QED
  BY <1>1, <1>2, PTL DEF Spec

\* However statements and imports of any length follow each other, in either
\* database a SQLite index exists for exactly the definitions that need one, no two
\* share a name or a rule, and SHOW lists them all.
THEOREM ImportsStayInStep == Spec => []CatalogInStep
<1>1. Sound => CatalogInStep
  BY DEF Sound, Whole, CatalogInStep
<1> QED
  BY <1>1, SoundHolds, PTL

\* No import leaves an edge without one of its nodes: the ends of a document's edges
\* are nodes the same import took, and those of an edge file are nodes of the copy.
THEOREM ImportedEdgesAttached == Spec => []Attached(copy)
<1>1. Sound => Attached(copy)
  BY DEF Sound, Whole
<1> QED
  BY <1>1, SoundHolds, PTL

-----------------------------------------------------------------------------
(* The constraints of the copy.  An import writes without checking and     *)
(* validates what it wrote before it defines anything: until then there    *)
(* is nothing to be said of the new nodes, and after it they obey.         *)

\* The label lists in statements and in documents.
Given == LabelLists \cup UNION {{doc.nodes[i].labels : i \in DOMAIN doc.nodes} : doc \in Documents}

\* Some lists as they are, and read once more.
Again(S) == S \cup {Reread(labels) : labels \in S}

\* What a new node's labels can be: those of a statement are written, exported,
\* written as text, and read twice.
Lists == Again(Again(Given))

\* The labels that definitions are on.
Targets ==
    {c.def.target : c \in Commands} \cup
    UNION {{doc.schema[i].target : i \in DOMAIN doc.schema} : doc \in Documents}

\* A label some definition is on is read back wherever it was written, by a statement
\* or by an import.
LabelsReadBack == \A labels \in Lists, t \in Targets : t \in Range(labels) => t \in Range(Reread(labels))

\* Nodes and definitions are those of statements and imports.
Told(d) ==
    /\ \A id \in DOMAIN d.nodes : \E labels \in Lists :
          d.nodes[id].text = Reread(labels) /\ d.nodes[id].indexed = Range(labels)
    /\ \A i \in DOMAIN d.defs : d.defs[i].target \in Targets

\* A piece before the check, and a piece after it.
Loads(w) == w.do \in {"node", "edge", "link"} /\ (w.do = "node" => w.row.labels \in Lists)
DefinesOne(w) == w.do = "define" /\ IsDefinition(w.row) /\ w.row.target \in Targets

\* Work with its check at c.
Ordered(work, c) ==
    /\ IsSequence(work) /\ c \in 1..Len(work) /\ work[c].do = "check"
    /\ \A i \in 1..Len(work) : /\ i < c => Loads(work[i])
                               /\ c < i => DefinesOne(work[i])

\* Before the check: the nodes and definitions of d are as they were.
Loaded(d, acc) ==
    acc.ok =>
        /\ Told(acc.db) /\ acc.db.defs = d.defs
        /\ DOMAIN d.nodes \subseteq DOMAIN acc.db.nodes
        /\ \A id \in DOMAIN d.nodes : acc.db.nodes[id] = d.nodes[id]

\* From the check on.
Checked(acc) == acc.ok => Told(acc.db) /\ Obeys(acc.db)

LEMMA LoadStep ==
    ASSUME NEW d, NEW acc, Going(acc), Loaded(d, acc), NEW w, Loads(w)
    PROVE  Loaded(d, Perform(d, acc, w))
<1> DEFINE next == Perform(d, acc, w)
<1>1. CASE ~acc.ok
  BY <1>1 DEF Perform, Loaded
<1>2. CASE acc.ok /\ w.do = "node"
  <2> DEFINE row == w.row
             new == InsertNode(acc.db, Node(row.labels, row.val))
             id == new.last.nodes
  <2>1. next.db = new
    BY <1>2 DEF Perform, TakeNode
  <2>2. IsFile(acc.db) /\ row.labels \in Lists
    BY <1>2 DEF Going, Whole, Loads
  <2>3. /\ new.defs = acc.db.defs /\ id \notin DOMAIN acc.db.nodes
        /\ DOMAIN new.nodes = DOMAIN acc.db.nodes \cup {id}
        /\ new.nodes[id] = Node(row.labels, row.val)
        /\ \A x \in DOMAIN acc.db.nodes : new.nodes[x] = acc.db.nodes[x]
    BY <2>2, InsertNodeGives
  <2> HIDE DEF new, row, id, next
  <2>4. new.nodes[id].text = Reread(row.labels) /\ new.nodes[id].indexed = Range(row.labels)
    BY <2>3 DEF Node
  <2>5. Told(acc.db)
    BY <1>2 DEF Loaded
  <2>6. Told(new)
    BY <2>2, <2>3, <2>4, <2>5 DEF Told
  <2>7. Loaded(d, next)
    BY <1>2, <2>1, <2>3, <2>6 DEF Loaded
  <2> QED
    BY <2>7 DEF next
<1>3. CASE acc.ok /\ w.do \in {"edge", "link"}
  <2>1. PICK edge : ~next.ok \/ next.db = InsertEdge(acc.db, edge)
    <3>1. next = IF w.do = "edge" THEN TakeEdge(acc, w.row) ELSE TakeLink(acc, w.row)
      BY <1>3 DEF Perform
    <3>2. \A edge : [acc EXCEPT !.db = InsertEdge(@, edge)].db = InsertEdge(acc.db, edge)
      BY DEF Going
    <3>3. ~[acc EXCEPT !.ok = FALSE].ok
      BY DEF Going
    <3> QED
      BY <3>1, <3>2, <3>3 DEF TakeEdge, TakeLink
  <2> DEFINE new == InsertEdge(acc.db, edge)
  <2>2. IsFile(acc.db)
    BY DEF Going, Whole
  <2>3. new.nodes = acc.db.nodes /\ new.defs = acc.db.defs
    BY <2>2, InsertEdgeGives
  <2> HIDE DEF new, next
  <2>4. Loaded(d, next)
    BY <1>3, <2>1, <2>3 DEF Loaded, Told, new
  <2> QED
    BY <2>4 DEF next
<1> QED
  BY <1>1, <1>2, <1>3 DEF Loads

LEMMA CheckStep ==
    ASSUME LabelsReadBack, NEW d, Obeys(d), NEW acc, Going(acc), Loaded(d, acc), NEW w, w.do = "check"
    PROVE  Checked(Perform(d, acc, w))
<1> DEFINE next == Perform(d, acc, w)
           new == acc.db
<1>1. CASE ~acc.ok
  BY <1>1 DEF Perform, Checked
<1>2. CASE acc.ok
  <2>1. next.db = new /\ next.ok = ValidateImported(d, new)
    BY <1>2 DEF Perform, Going
  <2>2. /\ Told(new) /\ new.defs = d.defs
        /\ DOMAIN d.nodes \subseteq DOMAIN new.nodes
        /\ \A id \in DOMAIN d.nodes : new.nodes[id] = d.nodes[id]
    BY <1>2 DEF Loaded
  <2> HIDE DEF next, new
  <2> DEFINE written == DOMAIN new.nodes \ DOMAIN d.nodes
  <2>3. ASSUME ValidateImported(d, new), NEW i \in DOMAIN d.defs, d.defs[i].constraint
        PROVE  Validates(new, d.defs[i])
    <3> DEFINE def == d.defs[i]
    <3>1. Validates(d, def)
      BY <2>3 DEF Obeys
    <3>2. ASSUME NEW id \in written, def.target \in new.nodes[id].indexed
          PROVE  /\ CheckOne(def, new.nodes[id].val)
                 /\ Unique(def) => ~Duplicated(new, def, id, new.nodes[id].val)
      <4>1. def.target \in Range(new.nodes[id].text)
        BY <2>2, <3>2 DEF Told, LabelsReadBack
      <4>2. Conforms(new, id, Range(new.nodes[id].text))
        BY <2>3 DEF ValidateImported
      <4> QED
        BY <2>2, <2>3, <4>1, <4>2 DEF Conforms
    <3>3. /\ DOMAIN new.nodes = DOMAIN d.nodes \cup written
          /\ \A x \in DOMAIN d.nodes \ written : new.nodes[x] = d.nodes[x]
      BY <2>2
    <3> HIDE DEF written, def
    <3>4. Validates(new, def)
      BY <3>1, <3>2, <3>3, ChecksDo
    <3> QED
      BY <3>4 DEF def
  <2>4. ValidateImported(d, new) => Obeys(new)
    BY <2>2, <2>3 DEF Obeys
  <2>5. Checked(next)
    BY <2>1, <2>2, <2>4 DEF Checked
  <2> QED
    BY <2>5 DEF next
<1> QED
  BY <1>1, <1>2

LEMMA DefineStep ==
    ASSUME NEW d, NEW acc, Going(acc), Checked(acc), NEW w, DefinesOne(w)
    PROVE  Checked(Perform(d, acc, w))
<1> DEFINE next == Perform(d, acc, w)
<1>1. CASE ~acc.ok
  BY <1>1 DEF Perform, Checked
<1>2. CASE acc.ok
  <2> DEFINE r == CreateSchema(acc.db, w.row.name, TRUE, w.row)
             new == r.db
  <2>1. next.db = new
    BY <1>2 DEF Perform, DefinesOne, Replay
  <2>2. IsDefinition(w.row) /\ w.row.target \in Targets
    BY DEF DefinesOne
  <2>3. Defines(acc.db, new, w.row.name, w.row)
    BY <2>2, CreateKeeps DEF Going, Whole
  <2>4. Told(acc.db) /\ Obeys(acc.db)
    BY <1>2 DEF Checked
  <2> HIDE DEF r, new, next
  <2>5. /\ Obeys(new)
        /\ \A i \in DOMAIN new.defs : new.defs[i].target = w.row.target \/ \E j \in DOMAIN acc.db.defs : new.defs[i] = acc.db.defs[j]
    BY <2>2, <2>3, <2>4, DefineObeys
  <2>6. new.nodes = acc.db.nodes
    BY <2>3 DEF Defines
  <2>7. Told(new)
    BY <2>2, <2>4, <2>5, <2>6 DEF Told
  <2>8. Checked(next)
    BY <2>1, <2>5, <2>7 DEF Checked
  <2> QED
    BY <2>8 DEF next
<1> QED
  BY <1>1, <1>2

\* An import of any length into a database that obeys leaves one that does.
LEMMA ImportObeys ==
    ASSUME LabelsReadBack, NEW d, Whole(d), Obeys(d), Told(d),
           NEW work, IsWork(work), NEW c, Ordered(work, c)
    PROVE  Obeys(Imported(d, work).db) /\ Told(Imported(d, work).db)
<1> DEFINE n == Len(work)
           p == Progress(d, work)
           S == {i \in 0..n : IF i < c THEN Loaded(d, p[i]) ELSE Checked(p[i])}
<1>1. n \in Nat /\ c \in 1..n
  BY DEF Ordered, IsSequence
<1>2. p[0] = Begun(d) /\ \A i \in 1..n : p[i] = Perform(d, p[i - 1], work[i])
  BY <1>1, ProgressIs
<1>3. \A i \in 0..n : Going(p[i])
  BY ImportWhole
<1>4. Imported(d, work).db = IF p[n].ok THEN p[n].db ELSE d
  BY DEF Imported, Done, Refused
<1>5. /\ work[c].do = "check"
      /\ \A i \in 1..n : (i < c => Loads(work[i])) /\ (c < i => DefinesOne(work[i]))
  BY DEF Ordered
<1> HIDE DEF p, n
<1>6. 0 \in S
  <2>1. 0 \in 0..n /\ 0 < c
    BY <1>1
  <2>2. Loaded(d, Begun(d))
    BY DEF Begun, Loaded
  <2> QED
    BY <1>2, <2>1, <2>2
<1>7. ASSUME NEW i \in 1..n, i - 1 \in S PROVE i \in S
  <2>1. Going(p[i - 1]) /\ p[i] = Perform(d, p[i - 1], work[i])
    <3>1. i - 1 \in 0..n
      BY <1>1
    <3> QED
      BY <1>2, <1>3, <3>1
  <2>2. CASE i < c
    <3>1. i - 1 < c
      BY <1>1, <2>2
    <3>2. Loaded(d, p[i - 1])
      BY <1>7, <3>1
    <3>3. Loaded(d, p[i])
      BY <1>5, <2>1, <2>2, <3>2, LoadStep
    <3> QED
      BY <2>2, <3>3
  <2>3. CASE i = c
    <3>1. i - 1 < c /\ ~(i < c)
      BY <1>1, <2>3
    <3>2. Loaded(d, p[i - 1])
      BY <1>7, <3>1
    <3>3. Checked(p[i])
      BY <1>5, <2>1, <2>3, <3>2, CheckStep
    <3> QED
      BY <3>1, <3>3
  <2>4. CASE c < i
    <3>1. ~(i - 1 < c) /\ ~(i < c)
      BY <1>1, <2>4
    <3>2. Checked(p[i - 1])
      BY <1>7, <3>1
    <3>3. Checked(p[i])
      BY <1>5, <2>1, <2>4, <3>2, DefineStep
    <3> QED
      BY <3>1, <3>3
  <2> QED
    BY <1>1, <2>2, <2>3, <2>4
<1>8. n \in S
  <2>1. 0..n \subseteq S
    <3> HIDE DEF S
    <3> QED
      BY <1>1, <1>6, <1>7, UpTo
  <2> QED
    BY <1>1, <2>1
<1>9. Checked(p[n])
  <2>1. ~(n < c)
    BY <1>1
  <2> QED
    BY <1>8, <2>1
<1> QED
  BY <1>4, <1>9 DEF Checked

\* Loading work, one list after another, is loading work.
Loading(work) == IsSequence(work) /\ \A i \in 1..Len(work) : Loads(work[i])

LEMMA EachLoads ==
    ASSUME NEW do \in {"node", "edge", "link"}, NEW rows, IsSequence(rows),
           do = "node" => \A i \in DOMAIN rows : rows[i].labels \in Lists
    PROVE  Loading(Each(do, rows))
<1> DEFINE e == Each(do, rows)
<1>1. IsSequence(e) /\ DOMAIN e = DOMAIN rows /\ \A i \in DOMAIN rows : e[i] = [do |-> do, row |-> rows[i]]
  BY EachIs
<1> HIDE DEF e
<1>2. DOMAIN rows = 1..Len(e)
  BY <1>1 DEF IsSequence
<1>3. ASSUME NEW i \in 1..Len(e) PROVE Loads(e[i])
  <2>1. e[i].do = do /\ e[i].row = rows[i] /\ i \in DOMAIN rows
    BY <1>1, <1>2
  <2> QED
    BY <2>1 DEF Loads
<1>4. Loading(e)
  BY <1>1, <1>3 DEF Loading
<1> QED
  BY <1>4 DEF e

LEMMA JoinedLoads ==
    ASSUME NEW s, NEW t, Loading(s), Loading(t)
    PROVE  Loading(s \o t)
<1> DEFINE u == s \o t
           m == Len(s)
           n == Len(t)
<1>1. IsSequence(s) /\ IsSequence(t)
  BY DEF Loading
<1>2. m \in Nat /\ n \in Nat
  BY <1>1 DEF IsSequence
<1>3. /\ IsSequence(u) /\ Len(u) = m + n
      /\ \A i \in 1..(m + n) : u[i] = IF i <= m THEN s[i] ELSE t[i - m]
  BY <1>1, Joined
<1>4. (\A i \in 1..m : Loads(s[i])) /\ \A i \in 1..n : Loads(t[i])
  BY DEF Loading
<1> HIDE DEF u, m, n
<1>5. ASSUME NEW i \in 1..(m + n) PROVE Loads(u[i])
  <2>1. CASE i <= m
    <3>1. i \in 1..m /\ u[i] = s[i]
      BY <1>2, <1>3, <2>1
    <3> QED
      BY <1>4, <3>1
  <2>2. CASE ~(i <= m)
    <3>1. i - m \in 1..n /\ u[i] = t[i - m]
      BY <1>2, <1>3, <2>2
    <3> QED
      BY <1>4, <3>1
  <2> QED
    BY <2>1, <2>2
<1>6. Loading(u)
  BY <1>3, <1>5 DEF Loading
<1> QED
  BY <1>6 DEF u

\* The check, after everything that loads.
LEMMA LoadedThenChecked ==
    ASSUME NEW s, Loading(s)
    PROVE  Ordered(s \o Check, Len(s) + 1)
<1> DEFINE u == s \o Check
           m == Len(s)
<1>1. Len(Check) = 1 /\ Check[1].do = "check" /\ IsSequence(Check)
  BY CheckIsWork DEF Check, IsWork
<1>2. IsSequence(s) /\ m \in Nat
  BY DEF Loading, IsSequence
<1>3. /\ IsSequence(u) /\ Len(u) = m + 1
      /\ \A i \in 1..(m + 1) : u[i] = IF i <= m THEN s[i] ELSE Check[i - m]
  BY <1>1, <1>2, Joined
<1>4. \A i \in 1..m : Loads(s[i])
  BY DEF Loading
<1> HIDE DEF u, m
<1>5. m + 1 \in 1..Len(u) /\ u[m + 1].do = "check"
  <2>1. m + 1 \in 1..(m + 1) /\ ~(m + 1 <= m) /\ (m + 1) - m = 1
    BY <1>2
  <2> QED
    BY <1>1, <1>3, <2>1
<1>6. ASSUME NEW i \in 1..Len(u) PROVE (i < m + 1 => Loads(u[i])) /\ ~(m + 1 < i)
  <2>1. i \in 1..(m + 1) /\ ~(m + 1 < i) /\ (i < m + 1 => i <= m /\ i \in 1..m)
    BY <1>2, <1>3
  <2> QED
    BY <1>3, <1>4, <2>1
<1>7. Ordered(u, m + 1)
  BY <1>3, <1>5, <1>6 DEF Ordered
<1> QED
  BY <1>7 DEF u, m

\* The definitions, after the check.
LEMMA CheckedThenDefined ==
    ASSUME NEW s, NEW c, Ordered(s, c), NEW rows, IsSequence(rows),
           \A i \in DOMAIN rows : IsDefinition(rows[i]) /\ rows[i].target \in Targets
    PROVE  Ordered(s \o Each("define", rows), c)
<1> DEFINE e == Each("define", rows)
           u == s \o e
           m == Len(s)
           n == Len(e)
<1>1. IsSequence(e) /\ DOMAIN e = DOMAIN rows /\ \A i \in DOMAIN rows : e[i] = [do |-> "define", row |-> rows[i]]
  BY EachIs
<1> HIDE DEF e
<1>2. IsSequence(s) /\ m \in Nat /\ n \in Nat /\ c \in 1..m
  BY <1>1 DEF Ordered, IsSequence
<1>3. /\ IsSequence(u) /\ Len(u) = m + n
      /\ \A i \in 1..(m + n) : u[i] = IF i <= m THEN s[i] ELSE e[i - m]
  BY <1>1, <1>2, Joined
<1>4. DOMAIN rows = 1..n
  BY <1>1 DEF IsSequence
<1>5. \A i \in 1..n : DefinesOne(e[i])
  <2>1. ASSUME NEW i \in 1..n PROVE DefinesOne(e[i])
    <3>1. e[i].do = "define" /\ e[i].row = rows[i] /\ i \in DOMAIN rows
      BY <1>1, <1>4
    <3> QED
      BY <3>1 DEF DefinesOne
  <2> QED
    BY <2>1
<1>6. s[c].do = "check" /\ \A i \in 1..m : (i < c => Loads(s[i])) /\ (c < i => DefinesOne(s[i]))
  BY DEF Ordered
<1> HIDE DEF u, m, n
<1>7. c \in 1..Len(u) /\ u[c].do = "check"
  <2>1. c \in 1..(m + n) /\ c <= m
    BY <1>2
  <2> QED
    BY <1>3, <1>6, <2>1
<1>8. ASSUME NEW i \in 1..Len(u) PROVE (i < c => Loads(u[i])) /\ (c < i => DefinesOne(u[i]))
  <2>1. CASE i <= m
    <3>1. i \in 1..m /\ u[i] = s[i]
      BY <1>2, <1>3, <2>1
    <3> QED
      BY <1>6, <3>1
  <2>2. CASE ~(i <= m)
    <3>1. i - m \in 1..n /\ u[i] = e[i - m] /\ ~(i < c)
      BY <1>2, <1>3, <2>2
    <3> QED
      BY <1>5, <3>1
  <2> QED
    BY <2>1, <2>2
<1>9. Ordered(u, c)
  BY <1>3, <1>7, <1>8 DEF Ordered
<1> QED
  BY <1>9 DEF u, e

\* What a document says of labels.
Labelled(doc) ==
    /\ \A i \in DOMAIN doc.nodes : doc.nodes[i].labels \in Again(Given)
    /\ \A i \in DOMAIN doc.schema : doc.schema[i].target \in Targets

\* Every import loads, checks and then defines.
LEMMA ImportsAreOrdered ==
    ASSUME NEW doc, Carried(doc), Labelled(doc),
           NEW work \in {JSONWork(doc), CSVNodeWork(doc), CSVEdgeWork(doc)}
    PROVE  \E c : Ordered(work, c)
<1> DEFINE json == [i \in DOMAIN doc.nodes |-> [id |-> doc.nodes[i].id, labels |-> doc.nodes[i].labels,
                                                val |-> Reencoded(doc.nodes[i].val)]]
           csv == [i \in DOMAIN doc.nodes |-> [id |-> 0, labels |-> Reread(doc.nodes[i].labels), val |-> doc.nodes[i].val]]
<1>1. IsFunction(json) /\ DOMAIN json = DOMAIN doc.nodes /\ IsFunction(csv) /\ DOMAIN csv = DOMAIN doc.nodes
  BY DEF IsFunction
<1>2. \A i \in DOMAIN doc.nodes : json[i].labels \in Lists /\ csv[i].labels \in Lists
  <2>1. \A i \in DOMAIN doc.nodes : json[i].labels = doc.nodes[i].labels /\ csv[i].labels = Reread(doc.nodes[i].labels)
    OBVIOUS
  <2> HIDE DEF json, csv
  <2>2. \A labels \in Again(Given) : labels \in Lists /\ Reread(labels) \in Lists
    <3> DEFINE G == Again(Given)
    <3> HIDE DEF G
    <3>1. \A labels \in G : labels \in Again(G) /\ Reread(labels) \in Again(G)
      BY DEF Again
    <3> QED
      BY <3>1 DEF Lists, G
  <2> QED
    BY <2>1, <2>2 DEF Labelled
<1>3. /\ JSONWork(doc) = Each("node", json) \o Each("edge", doc.edges) \o Check \o Each("define", doc.schema)
      /\ CSVNodeWork(doc) = Each("node", csv) \o Check
      /\ CSVEdgeWork(doc) = Each("link", doc.edges) \o Check
  BY DEF JSONWork, CSVNodeWork, CSVEdgeWork
<1> HIDE DEF json, csv
<1>4. IsSequence(json) /\ IsSequence(csv)
  BY <1>1, ReadIs DEF Carried
<1>5. /\ Loading(Each("node", json)) /\ Loading(Each("node", csv))
      /\ Loading(Each("edge", doc.edges)) /\ Loading(Each("link", doc.edges))
  BY <1>1, <1>2, <1>4, EachLoads DEF Carried
<1>6. \E c : Ordered(JSONWork(doc), c)
  <2> DEFINE rows == Each("node", json) \o Each("edge", doc.edges)
             c == Len(rows) + 1
  <2>1. Loading(rows)
    BY <1>5, JoinedLoads
  <2>2. Ordered(rows \o Check, c)
    BY <2>1, LoadedThenChecked
  <2>3. JSONWork(doc) = rows \o Check \o Each("define", doc.schema)
    BY <1>3
  <2> HIDE DEF rows, c
  <2>4. Ordered(rows \o Check \o Each("define", doc.schema), c)
    BY <2>2, CheckedThenDefined DEF Carried, Labelled
  <2> QED
    BY <2>3, <2>4
<1>7. (\E c : Ordered(CSVNodeWork(doc), c)) /\ \E c : Ordered(CSVEdgeWork(doc), c)
  BY <1>3, <1>5, LoadedThenChecked
<1> QED
  BY <1>6, <1>7

\* Both databases obey, and the export says of labels what a document may.
Faithful ==
    /\ Lawful(db)
    /\ Obeys(copy) /\ Told(copy)
    /\ Labelled(export.doc)

\* What the labels of statements and documents are among.
LEMMA LabelsAreGiven ==
    /\ \A labels \in LabelLists : labels \in Lists /\ Reread(labels) \in Again(Given)
    /\ \A c \in Commands : c.def.target \in Targets
    /\ \A doc \in Documents : Labelled(doc)
<1>1. \A labels \in Given : labels \in Again(Given) /\ Reread(labels) \in Again(Given)
  <2> DEFINE G == Given
  <2> HIDE DEF G
  <2>1. \A labels \in G : labels \in Again(G) /\ Reread(labels) \in Again(G)
    BY DEF Again
  <2> QED
    BY <2>1 DEF G
<1>2. \A labels \in Again(Given) : labels \in Lists
  BY DEF Lists, Again
<1>3. LabelLists \subseteq Given
  BY DEF Given
<1>4. \A c \in Commands : c.def.target \in Targets
  BY DEF Targets
<1>5. ASSUME NEW doc \in Documents PROVE Labelled(doc)
  <2>1. \A i \in DOMAIN doc.nodes : doc.nodes[i].labels \in Given
    BY DEF Given
  <2>2. \A i \in DOMAIN doc.schema : doc.schema[i].target \in Targets
    BY DEF Targets
  <2> QED
    BY <1>1, <2>1, <2>2 DEF Labelled
<1> QED
  BY <1>1, <1>2, <1>3, <1>4, <1>5

LEMMA InitFaithful == Init => Faithful
<1> SUFFICES ASSUME Init PROVE Faithful
  OBVIOUS
<1>1. /\ DOMAIN NoFile.nodes = {} /\ DOMAIN NoFile.defs = {}
      /\ DOMAIN NoExport.doc.nodes = {} /\ DOMAIN NoExport.doc.schema = {}
  BY DEF NoFile, NoExport, NoDoc
<1>2. Lawful(NoFile) /\ Obeys(NoFile) /\ Told(NoFile) /\ Labelled(NoExport.doc)
  BY <1>1 DEF Lawful, Obeys, Stated, Told, Labelled
<1> QED
  BY <1>2 DEF Init, Faithful

LEMMA FaithfulStep ==
    ASSUME LabelsReadBack, Sound, Faithful, [Next]_vars
    PROVE  Faithful'
<1>1. Lawful(db')
  <2>1. TargetsReadBack
    BY LabelsAreGiven DEF TargetsReadBack, LabelsReadBack
  <2> QED
    BY <2>1, LawfulStep DEF Sound, Faithful
<1>2. Labelled(export'.doc)
  <2>1. Copied(export.doc, export'.doc, db) /\ Labelled(export.doc) /\ Stated(db)
    BY ExportStep DEF Sound, Whole, Faithful, Lawful
  <2>2. \A id \in DOMAIN db.nodes : db.nodes[id].text \in Again(Given)
    BY <2>1, LabelsAreGiven DEF Stated
  <2>3. \A i \in DOMAIN db.defs : db.defs[i].target \in Targets
    BY <2>1, LabelsAreGiven DEF Stated
  <2> DEFINE old == export.doc
             new == export'.doc
  <2> HIDE DEF old, new
  <2>4. Copied(old, new, db) /\ Labelled(old)
    BY <2>1 DEF old, new
  <2>5. \A i \in DOMAIN new.nodes : new.nodes[i].labels \in Again(Given)
    BY <2>2, <2>4 DEF Copied, Labelled
  <2>6. \A i \in DOMAIN new.schema : new.schema[i].target \in Targets
    BY <2>3, <2>4 DEF Copied, Labelled
  <2>7. Labelled(new)
    BY <2>5, <2>6 DEF Labelled
  <2> QED
    BY <2>7 DEF new
<1>3. Obeys(copy') /\ Told(copy')
  <2>1. ASSUME NEW doc, Carried(doc), Labelled(doc),
               NEW work \in {JSONWork(doc), CSVNodeWork(doc), CSVEdgeWork(doc)}, copy' = Imported(copy, work).db
        PROVE  Obeys(copy') /\ Told(copy')
    <3>1. IsWork(work) /\ \E c : Ordered(work, c)
      BY <2>1, ImportsAreWork, ImportsAreOrdered
    <3>2. Whole(copy) /\ Obeys(copy) /\ Told(copy)
      BY DEF Sound, Faithful
    <3> QED
      BY <2>1, <3>1, <3>2, ImportObeys
  <2>2. CASE copy' = copy
    BY <2>2 DEF Faithful
  <2>3. ASSUME NEW doc \in Documents, copy' = Imported(copy, JSONWork(doc)).db
        PROVE  Obeys(copy') /\ Told(copy')
    <3>1. Carried(doc)
      BY DocumentAssumption DEF Carried
    <3>2. Labelled(doc)
      BY LabelsAreGiven
    <3> QED
      BY <2>1, <2>3, <3>1, <3>2
  <2>4. ASSUME NEW work \in {JSONWork(export.doc), CSVNodeWork(export.doc), CSVEdgeWork(export.doc)},
               copy' = Imported(copy, work).db
        PROVE  Obeys(copy') /\ Told(copy')
    <3>1. Carried(export.doc) /\ Labelled(export.doc)
      BY DEF Sound, Exporting, Faithful
    <3> QED
      BY <2>1, <2>4, <3>1
  <2> QED
    BY <2>2, <2>3, <2>4, ImportCases
<1>4. Labelled(export.doc)' /\ Lawful(db)' /\ Obeys(copy)' /\ Told(copy)'
  BY <1>1, <1>2, <1>3
<1> QED
  BY <1>4 DEF Faithful

LEMMA FaithfulHolds == LabelsReadBack /\ Spec => []Faithful
<1> SUFFICES ASSUME LabelsReadBack PROVE Spec => []Faithful
  OBVIOUS
<1>1. Init => Faithful
  BY InitFaithful
<1>2. Sound /\ Faithful /\ [Next]_vars => Faithful'
  BY FaithfulStep
<1> QED
  BY <1>1, <1>2, SoundHolds, PTL DEF Spec

\* However statements, exports and imports of any length follow each other, every
\* constraint of either database holds of all the nodes its label finds.  An import
\* that writes what breaks one is found by the check after its rows, before the
\* statements of its schema add any.
THEOREM ImportsObey == LabelsReadBack /\ Spec => []SchemaHolds
<1>1. Faithful => SchemaHolds
  BY DEF Faithful, Lawful, SchemaHolds
<1> QED
  BY <1>1, FaithfulHolds, PTL

-----------------------------------------------------------------------------
(* The schema of a database, on itself.                                    *)

\* A definition that is there already, and holds, changes nothing.
LEMMA ReplayIdle ==
    ASSUME NEW d, Obeys(d), NEW i \in DOMAIN d.defs
    PROVE  Replay(Begun(d), d.defs[i]) = Begun(d)
<1> DEFINE s == d.defs[i]
<1>1. s.constraint => Validates(d, s)
  BY DEF Obeys
<1>2. \E j \in DOMAIN d.defs : d.defs[j].name = s.name \/ SameRule(d.defs[j], s)
  OBVIOUS
<1>3. Begun(d).db = d /\ Begun(d).ids = <<>>
  BY DEF Begun
<1> HIDE DEF s
<1>4. CreateSchema(d, s.name, TRUE, s) = [ok |-> TRUE, db |-> d]
  BY <1>1, <1>2 DEF CreateSchema, AddSchema
<1>5. Replay(Begun(d), s) = [ok |-> TRUE, db |-> d, ids |-> <<>>]
  <2> DEFINE begun == Begun(d)
             made == CreateSchema(begun.db, s.name, TRUE, s)
  <2>1. made = CreateSchema(d, s.name, TRUE, s)
    BY <1>3
  <2>2. made = [ok |-> TRUE, db |-> d]
    BY <1>4, <2>1, Zenon
  <2>3. Replay(begun, s) = [ok |-> made.ok, db |-> made.db, ids |-> begun.ids]
    BY DEF Replay
  <2> HIDE DEF made
  <2> QED
    BY <1>3, <2>2, <2>3
<1> QED
  BY <1>5 DEF Begun, s

\* So do any number of them.
LEMMA ReplaysIdle ==
    ASSUME NEW d, Whole(d), Obeys(d)
    PROVE  Imported(d, Each("define", SchemaStatements(d))) = Done(d)
<1> DEFINE rows == SchemaStatements(d)
           work == Each("define", rows)
           n == Len(work)
           p == Progress(d, work)
           S == {i \in 0..n : p[i] = Begun(d)}
<1>1. IsSequence(rows) /\ \A k \in DOMAIN rows : \E i \in DOMAIN d.defs : rows[k] = d.defs[i]
  BY StatementsDefined DEF Whole
<1> HIDE DEF rows
<1>2. IsSequence(work) /\ DOMAIN work = DOMAIN rows /\ \A i \in DOMAIN rows : work[i] = [do |-> "define", row |-> rows[i]]
  BY <1>1, EachIs
<1> HIDE DEF work
<1>3. n \in Nat /\ DOMAIN rows = 1..n
  BY <1>2 DEF IsSequence
<1>4. p[0] = Begun(d) /\ \A i \in 1..n : p[i] = Perform(d, p[i - 1], work[i])
  BY <1>3, ProgressIs
<1>5. Imported(d, work) = IF p[n].ok THEN Done(p[n].db) ELSE Refused(d)
  BY DEF Imported
<1> HIDE DEF p, n
<1>6. 0 \in S
  BY <1>3, <1>4
<1>7. ASSUME NEW i \in 1..n, i - 1 \in S PROVE i \in S
  <2>1. p[i] = Perform(d, Begun(d), work[i])
    BY <1>4, <1>7
  <2>2. PICK j \in DOMAIN d.defs : rows[i] = d.defs[j]
    BY <1>1, <1>3
  <2>3. work[i].do = "define" /\ work[i].row = d.defs[j]
    BY <1>2, <1>3, <2>2
  <2>4. Begun(d).ok
    BY DEF Begun
  <2>5. Perform(d, Begun(d), work[i]) = Replay(Begun(d), d.defs[j])
    BY <2>3, <2>4 DEF Perform
  <2>6. p[i] = Begun(d)
    BY <2>1, <2>5, ReplayIdle
  <2> QED
    BY <2>6
<1>8. p[n] = Begun(d)
  <2>1. 0..n \subseteq S
    <3> HIDE DEF S
    <3> QED
      BY <1>3, <1>6, <1>7, UpTo
  <2>2. n \in 0..n
    BY <1>3
  <2> QED
    BY <2>1, <2>2
<1>9. Imported(d, work) = Done(d)
  BY <1>5, <1>8 DEF Begun
<1> QED
  BY <1>9 DEF work, rows

\* The schema statements of either database, of however many definitions, replay on
\* it without an error and without an effect: what IF NOT EXISTS in them is for.
THEOREM ReplaysHarmless == LabelsReadBack /\ Spec => []ReplayHarmless
<1>1. Sound /\ Faithful => ReplayHarmless
  BY ReplaysIdle DEF Sound, Faithful, Lawful, ReplayHarmless
<1> QED
  BY <1>1, SoundHolds, FaithfulHolds, PTL
=============================================================================
