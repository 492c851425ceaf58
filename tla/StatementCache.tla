---------------------------- MODULE StatementCache ----------------------------
(***************************************************************************)
(* The cache of parsed and analysed statements (Engine.Statement,          *)
(* CacheStatement, ClearStatements), the clients that fill it              *)
(* (parseSyntax) and those that change the procedures the analysis depends *)
(* on (DB.RegisterProcedure, DB.ClearProcedures).                          *)
(*                                                                         *)
(* The cache, the registry and the analysis each have a lock or none, and  *)
(* no lock spans two of them: a client looks up, analyses one CALL after   *)
(* the other, and caches; a registration changes the registry and clears   *)
(* the cache next.                                                         *)
(*                                                                         *)
(* What is abstracted: a procedure is its signature; a statement is the    *)
(* set of procedures it calls; its analysis is what it read of each.       *)
(* Whether a signature accepts the statement is fixed per signature.       *)
(***************************************************************************)
EXTENDS Naturals, FiniteSets

CONSTANTS
    Clients,
    Procs,              \* procedure names
    Signatures,         \* what a name may be registered with
    Good,               \* the signatures the statements are valid for
    Absent,             \* no such procedure
    Statements,         \* query texts
    Calls,              \* Calls[q]: the procedures q calls
    NoAnalysis,
    MaxCached           \* maxCachedStatements

Analysis == UNION {[ps -> Signatures \cup {Absent}] : ps \in SUBSET Procs}

ASSUME CacheAssumption ==
    /\ Statements # {}
    /\ Absent \notin Signatures /\ Good \subseteq Signatures
    /\ Calls \in [Statements -> SUBSET Procs]
    /\ NoAnalysis \notin Analysis
    /\ MaxCached \in Nat \ {0}

VARIABLES
    procs,      \* proc.Set: the signature registered under each name
    stmts,      \* Engine.stmts: the cached analysis of each text
    pc, text,   \* what each client does, and with which statement
    seen,       \* seen[c]: the signatures c's analysis, or its statement, relies on
    overlap,    \* history: a change of the registry began while c analysed
    tainted     \* history: texts cached by such an analysis

vars == <<procs, stmts, pc, text, seen, overlap, tainted>>

Nothing == [p \in {} |-> Absent]

Init ==
    /\ procs = [p \in Procs |-> Absent]
    /\ stmts = [q \in Statements |-> NoAnalysis]
    /\ pc = [c \in Clients |-> "idle"]
    /\ text \in [Clients -> {CHOOSE q \in Statements : TRUE}]
    /\ seen = [c \in Clients |-> Nothing]
    /\ overlap = {} /\ tainted = {}

Cached == {q \in Statements : stmts[q] # NoAnalysis}

-----------------------------------------------------------------------------
(* parseSyntax                                                             *)

\* Engine.Statement: a hit goes straight to the execution.
Hit(c, q) ==
    /\ pc[c] = "idle" /\ q \in Cached
    /\ pc' = [pc EXCEPT ![c] = "running"]
    /\ text' = [text EXCEPT ![c] = q]
    /\ seen' = [seen EXCEPT ![c] = stmts[q]]
    /\ UNCHANGED <<procs, stmts, overlap, tainted>>

Miss(c, q) ==
    /\ pc[c] = "idle" /\ q \notin Cached
    /\ pc' = [pc EXCEPT ![c] = "analysing"]
    /\ text' = [text EXCEPT ![c] = q]
    /\ overlap' = overlap \ {c}
    /\ UNCHANGED <<procs, stmts, seen, tainted>>

\* analyze.CheckWith looks up each procedure on its own.
Analyse(c, p) ==
    /\ pc[c] = "analysing"
    /\ p \in Calls[text[c]] \ DOMAIN seen[c]
    /\ seen' = [seen EXCEPT ![c] = [n \in DOMAIN @ \cup {p} |-> IF n = p THEN procs[p] ELSE @[n]]]
    /\ UNCHANGED <<procs, stmts, pc, text, overlap, tainted>>

Analysed(c) == pc[c] = "analysing" /\ DOMAIN seen[c] = Calls[text[c]]
Accepted(c) == \A p \in DOMAIN seen[c] : seen[c][p] \in Good

Reject(c) ==
    /\ Analysed(c) /\ ~Accepted(c)
    /\ pc' = [pc EXCEPT ![c] = "idle"]
    /\ seen' = [seen EXCEPT ![c] = Nothing]
    /\ UNCHANGED <<procs, stmts, text, overlap, tainted>>

\* Mutant: the cache is emptied only once it is over its bound.
FullLate == Cardinality(Cached) > MaxCached

Full == Cardinality(Cached) >= MaxCached

\* CacheStatement: a full cache is emptied first.
CacheStatement(c) ==
    /\ Analysed(c) /\ Accepted(c)
    /\ stmts' = [q \in Statements |-> IF q = text[c] THEN seen[c]
                                      ELSE IF Full THEN NoAnalysis ELSE stmts[q]]
    /\ tainted' = (IF Full THEN {} ELSE tainted \ {text[c]}) \cup (IF c \in overlap THEN {text[c]} ELSE {})
    /\ pc' = [pc EXCEPT ![c] = "running"]
    /\ UNCHANGED <<procs, text, seen, overlap>>

\* The statement runs on what its analysis established, and ends.
EndRun(c) ==
    /\ pc[c] = "running"
    /\ pc' = [pc EXCEPT ![c] = "idle"]
    /\ seen' = [seen EXCEPT ![c] = Nothing]
    /\ UNCHANGED <<procs, stmts, text, overlap, tainted>>

-----------------------------------------------------------------------------
(* Registration: the registry first, the cache next.                       *)

Change(c, ps) ==
    /\ pc[c] = "idle"
    /\ procs' = ps
    /\ overlap' = overlap \cup {d \in Clients : pc[d] = "analysing"}
    /\ pc' = [pc EXCEPT ![c] = "clearing"]
    /\ UNCHANGED <<stmts, text, seen, tainted>>

Register(c, p, s) == Change(c, [procs EXCEPT ![p] = s])

ClearProcedures(c) == Change(c, [p \in Procs |-> Absent])

\* Mutant: the registration returns without clearing the cache.
ClearNothing(c) ==
    /\ pc[c] = "clearing"
    /\ pc' = [pc EXCEPT ![c] = "idle"]
    /\ UNCHANGED <<procs, stmts, text, seen, overlap, tainted>>

ClearStatements(c) ==
    /\ pc[c] = "clearing"
    /\ stmts' = [q \in Statements |-> NoAnalysis]
    /\ tainted' = {}
    /\ pc' = [pc EXCEPT ![c] = "idle"]
    /\ UNCHANGED <<procs, text, seen, overlap>>

-----------------------------------------------------------------------------
Next == \E c \in Clients :
    \/ \E q \in Statements : Hit(c, q) \/ Miss(c, q)
    \/ \E p \in Procs : Analyse(c, p) \/ \E s \in Signatures : Register(c, p, s)
    \/ Reject(c) \/ CacheStatement(c) \/ EndRun(c)
    \/ ClearProcedures(c) \/ ClearStatements(c)

Spec == Init /\ [][Next]_vars

-----------------------------------------------------------------------------
(* Properties.                                                             *)

\* The shape of the state, and that the cache stays within its bound however
\* many clients miss at once.
TypeOK ==
    /\ procs \in [Procs -> Signatures \cup {Absent}]
    /\ \A q \in Cached : stmts[q] \in [Calls[q] -> Good]
    /\ pc \in [Clients -> {"idle", "analysing", "running", "clearing"}]
    /\ text \in [Clients -> Statements]
    /\ \A c \in Clients : seen[c] \in Analysis /\ DOMAIN seen[c] \subseteq Calls[text[c]]
    /\ overlap \subseteq Clients /\ tainted \subseteq Cached
    /\ Cardinality(Cached) <= MaxCached

Current(a) == \A p \in DOMAIN a : a[p] = procs[p]
Clearing == \E c \in Clients : pc[c] = "clearing"

\* ClearStatements: "call it when the set of procedures changes, since analysis
\* depends on it". Once every registration has returned, no cached analysis rests
\* on a signature that is gone, unless a change of the registry began between the
\* lookups of the analysis and its being cached.
FreshUnlessOverlapped ==
    ~Clearing => \A q \in Cached \ tainted : Current(stmts[q])
=============================================================================
