------------------------ MODULE StatementCacheProofs -------------------------
(***************************************************************************)
(* Theorems about StatementCache for every number of clients, procedures   *)
(* and signatures, any set of query texts (infinite as well) and every     *)
(* bound on the cache.                                                     *)
(***************************************************************************)
EXTENDS StatementCache, FiniteSetTheorems, TLAPS

-----------------------------------------------------------------------------
(* Type correctness and the bound of the cache.  TypeOK is not inductive:   *)
(* a miss turns to another text, so what a client without a statement has   *)
(* seen must have been forgotten; and the bound needs the cache finite.     *)

Forgotten == \A c \in Clients : pc[c] \in {"idle", "clearing"} => seen[c] = Nothing

Shape ==
    /\ TypeOK
    /\ seen \in [Clients -> Analysis]
    /\ stmts \in [Statements -> Analysis \cup {NoAnalysis}]
    /\ Forgotten
    /\ IsFiniteSet(Cached)

\* The analysis of a text that calls nothing.
LEMMA NothingIsAnalysis == Nothing \in Analysis /\ DOMAIN Nothing = {}
  BY DEF Nothing, Analysis

\* An empty cache has no text in it.
LEMMA EmptyCache ==
    ASSUME stmts' = [q \in Statements |-> NoAnalysis]
    PROVE  Cached' = {} /\ IsFiniteSet(Cached)' /\ Cardinality(Cached') = 0
<1>1. Cached' = {}
  BY DEF Cached
<1> QED
  BY <1>1, FS_EmptySet

\* A step that leaves the cache alone leaves its part of the shape alone.
LEMMA SameCache ==
    ASSUME Shape, UNCHANGED <<stmts, tainted>>
    PROVE  /\ (stmts \in [Statements -> Analysis \cup {NoAnalysis}])'
           /\ (\A q \in Cached : stmts[q] \in [Calls[q] -> Good])'
           /\ (tainted \subseteq Cached)'
           /\ IsFiniteSet(Cached)' /\ (Cardinality(Cached) <= MaxCached)'
<1>1. Cached' = Cached
  BY DEF Cached
<1> QED
  BY <1>1 DEF Shape, TypeOK

\* At first nothing is registered, cached or read.
LEMMA InitShape == Init => Shape
<1> SUFFICES ASSUME Init PROVE Shape
  OBVIOUS
<1> USE CacheAssumption
<1>1. Cached = {}
  BY DEF Init, Cached
<1>2. IsFiniteSet(Cached) /\ Cardinality(Cached) <= MaxCached
  BY <1>1, FS_EmptySet
<1>3. \A c \in Clients : seen[c] = Nothing
  BY DEF Init
<1>4. text \in [Clients -> Statements]
  BY DEF Init
<1> QED
  BY <1>1, <1>2, <1>3, <1>4, NothingIsAnalysis DEF Init, Shape, TypeOK, Forgotten

\* CacheStatement empties a full cache before it adds one text.
LEMMA CacheStatementShape ==
    ASSUME Shape, NEW c \in Clients, CacheStatement(c)
    PROVE  /\ (stmts \in [Statements -> Analysis \cup {NoAnalysis}])'
           /\ (\A q \in Cached : stmts[q] \in [Calls[q] -> Good])'
           /\ (tainted \subseteq Cached)'
           /\ IsFiniteSet(Cached)' /\ (Cardinality(Cached) <= MaxCached)'
<1> USE CacheAssumption
<1> DEFINE q == text[c]
<1>1. q \in Statements /\ seen[c] \in Analysis /\ seen[c] # NoAnalysis
  BY DEF Shape, TypeOK
<1>2. stmts' \in [Statements -> Analysis \cup {NoAnalysis}]
  BY <1>1 DEF CacheStatement, Shape
<1>3. seen[c] \in [Calls[q] -> Good]
  <2>1. PICK ps \in SUBSET Procs : seen[c] \in [ps -> Signatures \cup {Absent}]
    BY <1>1 DEF Analysis
  <2> QED
    BY <2>1 DEF CacheStatement, Analysed, Accepted
<1>4. Cached' = (IF Full THEN {} ELSE Cached) \cup {q}
  BY <1>1 DEF CacheStatement, Cached
<1>5. IsFiniteSet(Cached') /\ Cardinality(Cached') <= MaxCached
  <2>1. CASE Full
    <3>1. Cached' = {q}
      BY <1>4, <2>1
    <3>2. IsFiniteSet({q}) /\ Cardinality({q}) = 1
      BY FS_Singleton
    <3> QED
      BY <3>1, <3>2
  <2>2. CASE ~Full
    <3>1. IsFiniteSet(Cached) /\ Cardinality(Cached) \in Nat /\ Cardinality(Cached) < MaxCached
      BY <2>2, FS_CardinalityType DEF Shape, Full
    <3>2. /\ IsFiniteSet(Cached \cup {q})
          /\ Cardinality(Cached \cup {q}) \in {Cardinality(Cached), Cardinality(Cached) + 1}
      BY <3>1, FS_AddElement
    <3>3. Cached' = Cached \cup {q}
      BY <1>4, <2>2
    <3> QED
      BY <3>1, <3>2, <3>3
  <2> QED
    BY <2>1, <2>2
<1>6. \A r \in Cached' : stmts'[r] \in [Calls[r] -> Good]
  BY <1>3, <1>4 DEF CacheStatement, Cached, Shape, TypeOK
<1>7. tainted' \subseteq Cached'
  BY <1>4 DEF CacheStatement, Shape, TypeOK
<1> QED
  BY <1>2, <1>5, <1>6, <1>7

\* No step of a client breaks the shape.
LEMMA NextShape == Shape /\ [Next]_vars => Shape'
<1> SUFFICES ASSUME Shape, [Next]_vars PROVE Shape'
  OBVIOUS
<1> USE CacheAssumption, NothingIsAnalysis
<1>1. ASSUME NEW c \in Clients, NEW q \in Statements, Hit(c, q) PROVE Shape'
  <2>1. stmts[q] \in Analysis /\ DOMAIN stmts[q] = Calls[q]
    BY <1>1 DEF Hit, Cached, Shape, TypeOK
  <2> QED
    BY <1>1, <2>1, SameCache DEF Hit, Shape, TypeOK, Forgotten
<1>2. ASSUME NEW c \in Clients, NEW q \in Statements, Miss(c, q) PROVE Shape'
  <2>1. seen[c] = Nothing
    BY <1>2 DEF Miss, Shape, Forgotten
  <2> QED
    BY <1>2, <2>1, SameCache DEF Miss, Shape, TypeOK, Forgotten
<1>3. ASSUME NEW c \in Clients, NEW p \in Procs, Analyse(c, p) PROVE Shape'
  <2> DEFINE s == [n \in DOMAIN seen[c] \cup {p} |-> IF n = p THEN procs[p] ELSE seen[c][n]]
  <2>1. PICK ps \in SUBSET Procs : seen[c] \in [ps -> Signatures \cup {Absent}]
    BY DEF Shape, TypeOK, Analysis
  <2>2. s \in [ps \cup {p} -> Signatures \cup {Absent}]
    BY <2>1 DEF Shape, TypeOK
  <2>3. s \in Analysis /\ DOMAIN s = DOMAIN seen[c] \cup {p}
    <3>1. ps \cup {p} \in SUBSET Procs
      OBVIOUS
    <3>2. s \in Analysis
      BY <2>2, <3>1, Zenon DEF Analysis
    <3> QED
      BY <3>2
  <2>4. seen' = [seen EXCEPT ![c] = s]
    BY <1>3 DEF Analyse
  <2> HIDE DEF s
  <2>5. seen' \in [Clients -> Analysis]
        /\ \A d \in Clients : seen'[d] \in Analysis /\ DOMAIN seen'[d] \subseteq Calls[text[d]]
    BY <1>3, <2>3, <2>4 DEF Analyse, Shape, TypeOK
  <2>6. Forgotten'
    BY <1>3, <2>4 DEF Analyse, Shape, Forgotten
  <2> QED
    BY <1>3, <2>5, <2>6, SameCache DEF Analyse, Shape, TypeOK
<1>4. ASSUME NEW c \in Clients, Reject(c) \/ EndRun(c) PROVE Shape'
  <2>1. /\ pc' = [pc EXCEPT ![c] = "idle"] /\ seen' = [seen EXCEPT ![c] = Nothing]
        /\ UNCHANGED <<procs, stmts, text, overlap, tainted>>
    BY <1>4 DEF Reject, EndRun
  <2>2. /\ pc' \in [Clients -> {"idle", "analysing", "running", "clearing"}]
        /\ seen' \in [Clients -> Analysis]
    BY <2>1 DEF Shape, TypeOK
  <2>3. \A d \in Clients : seen'[d] \in Analysis /\ DOMAIN seen'[d] \subseteq Calls[text[d]]
    BY <2>1 DEF Shape, TypeOK
  <2>4. Forgotten'
    BY <2>1 DEF Shape, TypeOK, Forgotten
  <2> QED
    BY <2>1, <2>2, <2>3, <2>4, SameCache DEF Shape, TypeOK
<1>5. ASSUME NEW c \in Clients, CacheStatement(c) PROVE Shape'
  BY <1>5, CacheStatementShape DEF CacheStatement, Shape, TypeOK, Forgotten
<1>6. ASSUME NEW c \in Clients, NEW ps \in [Procs -> Signatures \cup {Absent}], Change(c, ps)
      PROVE  Shape'
  BY <1>6, SameCache DEF Change, Shape, TypeOK, Forgotten
<1>7. ASSUME NEW c \in Clients, ClearStatements(c) PROVE Shape'
  BY <1>7, EmptyCache DEF ClearStatements, Shape, TypeOK, Forgotten
<1>8. CASE UNCHANGED vars
  BY <1>8, SameCache DEF vars, Shape, TypeOK, Forgotten
<1>9. ASSUME NEW c \in Clients, NEW p \in Procs, NEW s \in Signatures, Register(c, p, s)
      PROVE  Shape'
  <2>1. [procs EXCEPT ![p] = s] \in [Procs -> Signatures \cup {Absent}]
    BY DEF Shape, TypeOK
  <2> QED
    BY <1>6, <1>9, <2>1 DEF Register
<1>10. ASSUME NEW c \in Clients, ClearProcedures(c) PROVE Shape'
  <2>1. [p \in Procs |-> Absent] \in [Procs -> Signatures \cup {Absent}]
    OBVIOUS
  <2> QED
    BY <1>6, <1>10, <2>1 DEF ClearProcedures
<1> QED
  BY <1>1, <1>2, <1>3, <1>4, <1>5, <1>7, <1>8, <1>9, <1>10 DEF Next

\* The shape and the bound of the cache, proved together.
LEMMA ShapeHolds == Spec => []Shape
  BY InitShape, NextShape, PTL DEF Spec

\* The state keeps its shape; whatever number of clients miss at once, the cache
\* never holds more than maxCachedStatements texts.
THEOREM CacheBounded == Spec => []TypeOK
<1>1. Shape => TypeOK
  BY DEF Shape
<1> QED
  BY <1>1, ShapeHolds, PTL

-----------------------------------------------------------------------------
(* Freshness.  What is needed beside the cache: an analysis in progress    *)
(* that no change of the registry overlapped has read current signatures.  *)

FreshAnalyses ==
    \A c \in Clients : pc[c] = "analysing" /\ c \notin overlap => Current(seen[c])

Fresh == FreshAnalyses /\ FreshUnlessOverlapped

\* A client starts an analysis with nothing read; a change of the registry marks
\* those under way and opens the window its ClearStatements closes.
LEMMA FreshStep == Shape /\ Fresh /\ [Next]_vars => Fresh'
<1> SUFFICES ASSUME Shape, Fresh, [Next]_vars PROVE Fresh'
  OBVIOUS
<1> USE CacheAssumption, NothingIsAnalysis
<1>0. ASSUME UNCHANGED <<procs, stmts, tainted>>, Clearing' <=> Clearing
      PROVE  FreshUnlessOverlapped'
  BY <1>0 DEF Fresh, FreshUnlessOverlapped, Current, Cached
<1>1. ASSUME NEW c \in Clients, NEW q \in Statements, Hit(c, q) \/ Miss(c, q) PROVE Fresh'
  <2>1. FreshAnalyses'
    BY <1>1 DEF Hit, Miss, Shape, TypeOK, Forgotten, Fresh, FreshAnalyses, Current
  <2>2. Clearing' <=> Clearing
    BY <1>1 DEF Hit, Miss, Shape, TypeOK, Clearing
  <2> QED
    BY <1>0, <1>1, <2>1, <2>2 DEF Hit, Miss, Fresh
<1>2. ASSUME NEW c \in Clients, NEW p \in Procs, Analyse(c, p) PROVE Fresh'
  <2> DEFINE s == [n \in DOMAIN seen[c] \cup {p} |-> IF n = p THEN procs[p] ELSE seen[c][n]]
  <2>1. seen' = [seen EXCEPT ![c] = s]
    BY <1>2 DEF Analyse
  <2>2. Current(seen[c]) => \A n \in DOMAIN s : s[n] = procs[n]
    BY DEF Current
  <2> HIDE DEF s
  <2>3. FreshAnalyses'
    BY <1>2, <2>1, <2>2 DEF Analyse, Shape, TypeOK, Fresh, FreshAnalyses, Current
  <2> QED
    BY <1>0, <1>2, <2>3 DEF Analyse, Fresh, Clearing
<1>3. ASSUME NEW c \in Clients, Reject(c) \/ EndRun(c) PROVE Fresh'
  <2>1. FreshAnalyses'
    BY <1>3 DEF Reject, EndRun, Shape, TypeOK, Fresh, FreshAnalyses, Current
  <2>2. Clearing' <=> Clearing
    BY <1>3 DEF Reject, EndRun, Analysed, Shape, TypeOK, Clearing
  <2> QED
    BY <1>0, <1>3, <2>1, <2>2 DEF Reject, EndRun, Fresh
<1>4. ASSUME NEW c \in Clients, CacheStatement(c) PROVE Fresh'
  <2>1. FreshAnalyses'
    BY <1>4 DEF CacheStatement, Shape, TypeOK, Fresh, FreshAnalyses, Current
  <2>2. Clearing' <=> Clearing
    BY <1>4 DEF CacheStatement, Analysed, Shape, TypeOK, Clearing
  <2>3. ASSUME ~Clearing, NEW q \in Cached' \ tainted' PROVE Current(stmts'[q])
    <3>1. CASE q = text[c]
      BY <1>4, <2>3, <3>1 DEF CacheStatement, Analysed, Fresh, FreshAnalyses, Cached
    <3>2. CASE q # text[c]
      BY <1>4, <2>3, <3>2 DEF CacheStatement, Fresh, FreshUnlessOverlapped, Cached
    <3> QED
      BY <3>1, <3>2
  <2>4. FreshUnlessOverlapped'
    BY <1>4, <2>2, <2>3 DEF CacheStatement, FreshUnlessOverlapped, Current
  <2> QED
    BY <2>1, <2>4 DEF Fresh
<1>5. ASSUME NEW c \in Clients, NEW ps, Change(c, ps) PROVE Fresh'
  <2>1. FreshAnalyses'
    BY <1>5 DEF Change, Shape, TypeOK, FreshAnalyses
  <2>2. Clearing'
    BY <1>5 DEF Change, Shape, TypeOK, Clearing
  <2> QED
    BY <2>1, <2>2 DEF Fresh, FreshUnlessOverlapped
<1>6. ASSUME NEW c \in Clients, ClearStatements(c) PROVE Fresh'
  <2>1. FreshAnalyses'
    BY <1>6 DEF ClearStatements, Shape, TypeOK, Fresh, FreshAnalyses, Current
  <2>2. FreshUnlessOverlapped'
    BY <1>6, EmptyCache DEF ClearStatements, FreshUnlessOverlapped
  <2> QED
    BY <2>1, <2>2 DEF Fresh
<1>7. CASE UNCHANGED vars
  BY <1>0, <1>7 DEF vars, Fresh, FreshAnalyses, Current, Clearing
<1> QED
  BY <1>1, <1>2, <1>3, <1>4, <1>5, <1>6, <1>7 DEF Next, Register, ClearProcedures

\* Once every registration has returned, a cached analysis that no change of the
\* registry overlapped rests on the signatures registered now.
THEOREM CacheFresh == Spec => []FreshUnlessOverlapped
<1>1. Init => Fresh
  BY DEF Init, Fresh, FreshAnalyses, FreshUnlessOverlapped, Cached
<1>2. Fresh => FreshUnlessOverlapped
  BY DEF Fresh
<1> QED
  BY <1>1, <1>2, ShapeHolds, FreshStep, PTL DEF Spec
=============================================================================
