------------------------------ MODULE PathMatch ------------------------------
(***************************************************************************)
(* Pattern matching (cypher/interp/match.go, group.go, relfirst.go,        *)
(* reverse.go): the depth-first walk of a pattern, the plans that start    *)
(* somewhere else, quantified groups, path selectors and the shortest path *)
(* searches.                                                               *)
(*                                                                         *)
(* A graph is a set of relationships <<start, end, n>>.  A node pattern    *)
(* accepts the nodes in ok (its labels and properties), if its inline WHERE *)
(* holds too (where); hint is what of the pattern SQLite can narrow a scan *)
(* with, and push what an equality of the MATCH's WHERE narrows it to, if  *)
(* there is one.  A relationship pattern has a direction and a hop range;  *)
(* list says that it is variable-length, whose variable is a list.  A      *)
(* path is its first node and its steps <<relationship, node reached>>.    *)
(* Results are sequences: a match found twice is a row returned twice.     *)
(***************************************************************************)
EXTENDS Integers, Sequences, SequencesExt, FiniteSets, FiniteSetsExt, TLC

CONSTANTS
    PathNodes,      \* the nodes of every graph
    Unbounded,      \* no upper bound on hops, longer than any path
    Cut,            \* what a walk leaves where the length limit cut it (relPruned)
    NoMatch         \* the null an OPTIONAL MATCH binds

NodePat(var, ok, hint) == [t |-> "node", var |-> var, ok |-> ok, hint |-> hint, push |-> <<>>, where |-> PathNodes]
RelPat(var, dir, ok, hint) ==
    [t |-> "rel", var |-> var, dir |-> dir, ok |-> ok, hint |-> hint, push |-> <<>>, list |-> FALSE, min |-> 1, max |-> 1]
VarLength(var, dir, ok, min, max) ==
    [t |-> "rel", var |-> var, dir |-> dir, ok |-> ok, hint |-> "none", push |-> <<>>, list |-> TRUE, min |-> min, max |-> max]
Group(elems, min, max) == [t |-> "group", var |-> "", elems |-> elems, min |-> min, max |-> max]
Part(var, elems) == [var |-> var, elems |-> elems]
AnyNode == NodePat("", PathNodes, "none")

\* A partial match: the row, the path so far, and what the walk may not use.
Partial(row, n, taken, limit) ==
    [row |-> row, start |-> n, cur |-> n, steps |-> <<>>, taken |-> taken, limit |-> limit]

Listed(S) == FoldSet(LAMBDA x, acc : Append(acc, x), <<>>, S)
RelsOf(steps) == {steps[i][1] : i \in DOMAIN steps}
Used(m) == m.taken \cup RelsOf(m.steps)
Bind(row, var, x) == IF var = "" THEN row ELSE (var :> x) @@ row
Agrees(row, var, x) == var = "" \/ var \notin DOMAIN row \/ row[var] = x

-----------------------------------------------------------------------------
(* The walk.                                                               *)

\* An incoming self-loop of an undirected pattern was offered as outgoing.
LoopSeen(p, rel) == p.dir = "both" /\ rel[1] = rel[2]

\* expand: the relationships leaving n in the pattern's direction, with the node
\* at the other end.
Expand(g, p, n, used) ==
    LET free == {rel \in g \cap p.ok : rel \notin used}
        outs == Listed({rel \in free : p.dir # "left" /\ rel[1] = n})
        ins  == Listed({rel \in free : p.dir # "right" /\ rel[2] = n /\ ~LoopSeen(p, rel)})
    IN  [i \in DOMAIN outs |-> <<outs[i], outs[i][2]>>] \o [i \in DOMAIN ins |-> <<ins[i], ins[i][1]>>]

\* overBudget: the path has as many relationships as the limit allows.
OverBudget(m, chain) == Len(m.steps) + Len(chain) >= m.limit

\* walkVarLength's dfs, and the single hop of walk: the chains of steps from n.
RECURSIVE Chains(_, _, _, _, _)
Chains(g, p, m, chain, n) ==
    (IF Len(chain) >= p.min THEN <<chain>> ELSE <<>>) \o
    (IF Len(chain) >= p.max THEN <<>>
     ELSE IF OverBudget(m, chain) THEN <<Cut>>
     ELSE LET next == Expand(g, p, n, Used(m) \cup RelsOf(chain))
          IN  FlattenSeq([i \in DOMAIN next |-> Chains(g, p, m, Append(chain, next[i]), next[i][2])]))

\* bindStep, bindVarLength
StepValue(p, chain) == IF p.list THEN [i \in DOMAIN chain |-> chain[i][1]] ELSE chain[1][1]
ChainEnd(m, chain) == IF chain = <<>> THEN m.cur ELSE Last(chain)[2]
Binds(m, p, np, chain) ==
    /\ Agrees(m.row, p.var, StepValue(p, chain))
    /\ Agrees(m.row, np.var, ChainEnd(m, chain))
    /\ ChainEnd(m, chain) \in np.ok \cap np.where
Bound(m, p, np, chain) ==
    [m EXCEPT !.row = Bind(Bind(m.row, p.var, StepValue(p, chain)), np.var, ChainEnd(m, chain)),
              !.cur = ChainEnd(m, chain), !.steps = @ \o chain]

GroupVars(grp) == {grp.elems[i].var : i \in DOMAIN grp.elems} \ {""}

RECURSIVE Walk(_, _, _), Iterate(_, _, _, _, _)

\* groupIteration: the inner pattern once, from where m is, in a row of its own.
GroupIteration(g, grp, m) ==
    LET first == grp.elems[1]
        bound == [m EXCEPT !.row = Bind(m.row, first.var, m.cur)]
    IN  IF m.cur \in first.ok \cap first.where THEN Walk(g, Tail(grp.elems), bound) ELSE <<>>

\* walkGroup's after: the pattern goes on from the node the group ended on.
After(g, rest, m) ==
    IF rest = <<>> THEN <<m>>
    ELSE IF rest[1].t # "node" THEN Walk(g, rest, m)
    ELSE IF Agrees(m.row, rest[1].var, m.cur) /\ m.cur \in rest[1].ok \cap rest[1].where
         THEN Walk(g, Tail(rest), [m EXCEPT !.row = Bind(m.row, rest[1].var, m.cur)])
         ELSE <<>>

\* walkGroup's iterate, after the iterations whose rows are given; a group variable
\* is the list of its values.
Iterate(g, grp, rest, m, rows) ==
    LET lists == [v \in GroupVars(grp) |-> [i \in DOMAIN rows |-> rows[i][v]]]
        more  == GroupIteration(g, grp, m)
        again(x) == IF x = Cut THEN <<Cut>>
                    ELSE Iterate(g, grp, rest, [x EXCEPT !.row = m.row], Append(rows, x.row))
    IN  (IF Len(rows) >= grp.min THEN After(g, rest, [m EXCEPT !.row = lists @@ m.row]) ELSE <<>>) \o
        (IF Len(rows) >= grp.max THEN <<>> ELSE FlattenSeq([i \in DOMAIN more |-> again(more[i])]))

\* walk: es is what is left of the pattern.  The limit cuts before a relationship
\* element is looked at, one that may match no hop included.
Walk(g, es, m) ==
    IF es = <<>> THEN <<m>>
    ELSE IF es[1].t = "group" THEN Iterate(g, es[1], Tail(es), m, <<>>)
    ELSE IF OverBudget(m, <<>>) THEN <<Cut>>
    ELSE LET np     == IF es[2].t = "group" THEN AnyNode ELSE es[2]
             rest   == IF es[2].t = "group" THEN Tail(es) ELSE Tail(Tail(es))
             chains == Chains(g, es[1], m, <<>>, m.cur)
             on(c)  == IF c = Cut THEN <<Cut>>
                       ELSE IF Binds(m, es[1], np, c) THEN Walk(g, rest, Bound(m, es[1], np, c)) ELSE <<>>
         IN  FlattenSeq([i \in DOMAIN chains |-> on(chains[i])])

-----------------------------------------------------------------------------
(* Where a pattern starts: forwards, backwards, or at its relationship.    *)

\* What a scan offers of S once WHERE has narrowed it.
Narrowed(p, S) == IF p.push = <<>> THEN S ELSE S \cap p.push[1]

\* forEachStart. A bound start is not asked for its inline WHERE.
Starts(np, row) ==
    IF np.var # "" /\ np.var \in DOMAIN row
    THEN Listed({row[np.var]} \cap np.ok)
    ELSE Listed(Narrowed(np, np.ok \cap np.where))

\* A pattern that begins with a group: the scan is narrowed by the label of the
\* group's first node pattern.
GroupStarts(grp) == Listed(IF grp.elems[1].hint = "label" THEN grp.elems[1].ok ELSE PathNodes)

StartScore(np, row) ==
    IF np.var # "" /\ np.var \in DOMAIN row /\ row[np.var] \in PathNodes THEN 3
    ELSE IF np.hint = "prop" \/ np.push # <<>> THEN 2 ELSE IF np.hint = "label" THEN 1 ELSE 0

Flip(p) ==
    IF p.t = "rel" THEN [p EXCEPT !.dir = IF @ = "right" THEN "left" ELSE IF @ = "left" THEN "right" ELSE @]
    ELSE p

\* Mutant: the relationships keep their direction.
BackwardsUnflipped(es) == Reverse(es)

Backwards(es) == Reverse([i \in DOMAIN es |-> Flip(es[i])])

\* reversed: only a plain chain without WHERE, path variable or named list.
Reverses(part, row) ==
    LET es == part.elems
    IN  /\ part.var = "" /\ Len(es) >= 3
        /\ \A i \in DOMAIN es : es[i].t # "group"
        /\ StartScore(Last(es), row) > StartScore(es[1], row)
        /\ \A i \in DOMAIN es : es[i].t = "rel" => ~(es[i].list /\ es[i].var # "")
        /\ \A i \in DOMAIN es : es[i].t = "node" => es[i].where = PathNodes

\* matchRelFirst: one hop over a relationship SQLite can look up, free ends.
RelFirst(part, row) ==
    LET es == part.elems
        free(np) == np.t = "node" /\ np.hint # "prop" /\ np.where = PathNodes /\ np.var \notin DOMAIN row
    IN  /\ Len(es) = 3 /\ es[2].t = "rel"
        /\ free(es[1]) /\ free(es[3])
        /\ ~es[2].list /\ es[2].var \notin DOMAIN row
        /\ es[2].hint = "prop" \/ es[2].push # <<>>

Orientations(p, rel) ==
    (IF p.dir # "left" THEN <<<<rel[1], rel[2]>>>> ELSE <<>>) \o
    (IF p.dir # "right" /\ ~LoopSeen(p, rel) THEN <<<<rel[2], rel[1]>>>> ELSE <<>>)

MatchRelFirst(g, part, row, taken) ==
    LET a == part.elems[1]  p == part.elems[2]  b == part.elems[3]
        rels == Listed(Narrowed(p, g \cap p.ok) \ taken)
        from(o) == Partial(Bind(row, a.var, o[1]), o[1], taken, Unbounded)
        one(rel, o) == IF o[1] \in a.ok /\ Binds(from(o), p, b, <<<<rel, o[2]>>>>)
                       THEN <<Bound(from(o), p, b, <<<<rel, o[2]>>>>)>> ELSE <<>>
        both(rel) == LET os == Orientations(p, rel) IN FlattenSeq([j \in DOMAIN os |-> one(rel, os[j])])
    IN  FlattenSeq([i \in DOMAIN rels |-> both(rels[i])])

FromEach(g, es, row, taken, limit, starts) ==
    LET walks(n) == IF es[1].t = "group" THEN Walk(g, es, Partial(row, n, taken, limit))
                    ELSE Walk(g, Tail(es), Partial(Bind(row, es[1].var, n), n, taken, limit))
    IN  FlattenSeq([i \in DOMAIN starts |-> walks(starts[i])])

\* matchPart without a selector; the path variable is bound at the end.
MatchPart(g, part, row, taken, limit) ==
    LET es == part.elems
        back == Backwards(es)
        ms == IF es[1].t = "group" THEN FromEach(g, es, row, taken, limit, GroupStarts(es[1]))
              ELSE IF RelFirst(part, row) THEN MatchRelFirst(g, part, row, taken)
              ELSE IF Reverses(part, row) THEN FromEach(g, back, row, taken, limit, Starts(back[1], row))
              ELSE FromEach(g, es, row, taken, limit, Starts(es[1], row))
    IN  [i \in DOMAIN ms |-> IF ms[i] = Cut THEN Cut
                             ELSE [ms[i] EXCEPT !.row = Bind(@, part.var, <<ms[i].start, ms[i].steps>>)]]

\* Mutant: the second part may use the relationships of the first.
TakenAnew(taken, m) == taken

\* used, as the next part of the MATCH finds it.
TakenBy(taken, m) == taken \cup RelsOf(m.steps)

\* matchParts for two parts: each match of the first is continued by the second.
MatchParts(g, p1, p2, row) ==
    LET ms == MatchPart(g, p1, row, {}, Unbounded)
        then(m) == LET ns == MatchPart(g, p2, m.row, TakenBy({}, m), Unbounded)
                   IN  [j \in DOMAIN ns |-> <<m, ns[j]>>]
    IN  FlattenSeq([i \in DOMAIN ms |-> then(ms[i])])

-----------------------------------------------------------------------------
(* MATCH with its WHERE, and the same pattern in an expression.            *)

\* A WHERE is <<>> or <<[var, ok]>>, an equality the values in ok satisfy.
Passes(where, r) == where = <<>> \/ r[where[1].var] \in where[1].ok

\* scanHints, relHints: the equality is about the variable of the element.
PushesTo(where, e) == where # <<>> /\ e.t # "group" /\ e.var = where[1].var

\* whereEqualities
Pushed(part, where) ==
    [part EXCEPT !.elems = [i \in DOMAIN @ |->
        IF PushesTo(where, @[i]) THEN [@[i] EXCEPT !.push = <<where[1].ok>>] ELSE @[i]]]

\* patternVars
PatternVars(part) ==
    UNION {IF part.elems[i].t = "group" THEN GroupVars(part.elems[i]) ELSE {part.elems[i].var} : i \in DOMAIN part.elems}
        \cup {part.var}

\* execMatch for one row
ExecMatch(g, part, row, where, optional) ==
    LET ms   == MatchPart(g, Pushed(part, where), row, {}, Unbounded)
        rows == SelectSeq([i \in DOMAIN ms |-> ms[i].row], LAMBDA r : Passes(where, r))
    IN  IF rows = <<>> /\ optional
        THEN <<[v \in PatternVars(part) \ ({""} \cup DOMAIN row) |-> NoMatch] @@ row>> ELSE rows

\* subquery: the rows EXISTS and COUNT look at; its WHERE narrows nothing.
Subquery(g, part, row, where) ==
    LET ms == MatchPart(g, part, row, {}, Unbounded)
    IN  SelectSeq([i \in DOMAIN ms |-> ms[i].row], LAMBDA r : Passes(where, r))

\* patternExpr
PatternExpr(g, part, row) == MatchPart(g, part, row, {}, Unbounded) # <<>>

-----------------------------------------------------------------------------
(* Selectors (matchSelected) over a pattern with both ends bound.          *)

Matches(ms) == SelectSeq(ms, LAMBDA m : m # Cut)
Lengths(ms) == {Len(ms[i].steps) : i \in DOMAIN ms}

\* Mutant: as many paths as asked for are enough, whatever their lengths.
SatisfiedByCount(kind, k, ms) == Len(ms) >= (IF kind \in {"shortest", "groups"} THEN k ELSE 1)

\* selectorSatisfied
Satisfied(kind, k, ms) ==
    CASE kind = "shortest" -> Len(ms) >= k
      [] kind = "groups"   -> Cardinality(Lengths(ms)) >= k
      [] OTHER             -> Len(ms) >= 1

\* Iterative deepening: the first limit that settles the selector or cuts nothing.
RECURSIVE Deepen(_, _, _, _, _, _)
Deepen(g, part, row, kind, k, limit) ==
    LET found == MatchPart(g, part, row, {}, limit)
    IN  IF Satisfied(kind, k, Matches(found)) \/ ~Contains(found, Cut)
        THEN Matches(found) ELSE Deepen(g, part, row, kind, k, limit + 1)

Shorter(a, b) == Len(a.steps) < Len(b.steps)
FirstK(ms, k) == SubSeq(ms, 1, IF k < Len(ms) THEN k ELSE Len(ms))

Chosen(ms, kind, k) ==
    LET sorted == SortSeq(ms, Shorter)
        ranked(m) == Cardinality({l \in Lengths(ms) : l <= Len(m.steps)})
    IN  CASE kind \in {"any", "shortest"} -> FirstK(sorted, k)
          [] kind = "anyShortest"         -> FirstK(sorted, 1)
          [] kind = "allShortest"         -> SelectSeq(sorted, LAMBDA m : ranked(m) = 1)
          [] kind = "groups"              -> SelectSeq(sorted, LAMBDA m : ranked(m) <= k)

\* endsBound
EndsBound(part, row) ==
    LET bound(np) == np.t = "node" /\ np.var \in DOMAIN row /\ row[np.var] \in PathNodes
    IN  bound(part.elems[1]) /\ bound(Last(part.elems))

\* The matches are reduced per (start, end); with both ends bound ANY k stops
\* early and the others deepen.  The search names the path, so no plan reverses it.
MatchSelected(g, part, row, kind, k) ==
    LET inner == [part EXCEPT !.var = "path"]
        all   == MatchPart(g, inner, row, {}, Unbounded)
        ends(m) == <<m.start, m.cur>>
        keys  == Listed({ends(all[i]) : i \in DOMAIN all})
    IN  IF EndsBound(part, row)
        THEN IF kind = "any" THEN Chosen(FirstK(all, k), kind, k)
             ELSE Chosen(Deepen(g, inner, row, kind, k, 0), kind, k)
        ELSE FlattenSeq([i \in DOMAIN keys |->
                 Chosen(SelectSeq(all, LAMBDA m : ends(m) = keys[i]), kind, k)])

-----------------------------------------------------------------------------
(* Shortest paths (matchShortest): a node-based search from one end or     *)
(* from both, and a path-based one.                                        *)

Reached(g, p, n, taken) == LET es == Expand(g, p, n, taken) IN {es[i] : i \in DOMAIN es}

\* shortestPathsBFS: levels[d + 1] are the nodes first reached at depth d.
RECURSIVE Levels(_, _, _, _, _, _)
Levels(g, p, e, max, taken, levels) ==
    LET seen == UNION {levels[i] : i \in DOMAIN levels}
        next == UNION {{st[2] : st \in Reached(g, p, n, taken)} : n \in Last(levels)} \ seen
    IN  IF e \in seen \/ next = {} \/ Len(levels) > max THEN levels
        ELSE Levels(g, p, e, max, taken, Append(levels, next))

\* pathsFromPreds: back from n over the predecessors of each depth.
RECURSIVE Rebuilt(_, _, _, _, _, _)
Rebuilt(g, p, taken, levels, d, n) ==
    IF d = 1 THEN {<<>>}
    ELSE UNION {{Append(path, st) : path \in Rebuilt(g, p, taken, levels, d - 1, from),
                                    st \in {x \in Reached(g, p, from, taken) : x[2] = n}}
                : from \in levels[d - 1]}

ShortestBFS(g, p, s, e, max, taken) ==
    LET levels == Levels(g, p, e, max, taken, <<{s}>>)
    IN  IF e \in Last(levels) THEN Rebuilt(g, p, taken, levels, Len(levels), e) ELSE {}

\* Mutant: the backward half follows the relationships forwards.
BackwardUnflipped(g, p, n, taken) == Reached(g, p, n, taken)

\* The backward half of the search from both ends.
Backward(g, p, n, taken) == Reached(g, Flip(p), n, taken)

\* One level of either half: how[n] is the path already known to n's side.
Forwards(g, p, how, front, taken) ==
    LET hops == UNION {{<<n, st>> : st \in Reached(g, p, n, taken)} : n \in front}
        new  == {h[2][2] : h \in hops} \ DOMAIN how
        via(x) == CHOOSE h \in hops : h[2][2] = x
    IN  [x \in new |-> Append(how[via(x)[1]], via(x)[2])]
Rearwards(g, p, how, front, taken) ==
    LET hops == UNION {{<<n, st>> : st \in Backward(g, p, n, taken)} : n \in front}
        new  == {h[2][2] : h \in hops} \ DOMAIN how
        via(x) == CHOOSE h \in hops : h[2][2] = x
    IN  [x \in new |-> <<<<via(x)[2][1], via(x)[1]>>>> \o how[via(x)[1]]]

\* shortestPathBidirectional: the smaller frontier grows by a whole level.
RECURSIVE Bidirectional(_, _, _, _, _, _, _, _, _)
Bidirectional(g, p, max, taken, f, b, ff, fb, depth) ==
    LET forward == Cardinality(ff) <= Cardinality(fb)
        new  == IF forward THEN Forwards(g, p, f, ff, taken) ELSE Rearwards(g, p, b, fb, taken)
        f2   == IF forward THEN new @@ f ELSE f
        b2   == IF forward THEN b ELSE new @@ b
        meets == {n \in DOMAIN new : n \in DOMAIN f2 \cap DOMAIN b2}
        total(n) == Len(f2[n]) + Len(b2[n])
        best == CHOOSE n \in meets : \A m \in meets : total(n) <= total(m)
    IN  IF ff = {} \/ fb = {} \/ depth >= max THEN {}
        ELSE IF meets = {} THEN Bidirectional(g, p, max, taken, f2, b2,
                                    IF forward THEN DOMAIN new ELSE ff, IF forward THEN fb ELSE DOMAIN new, depth + 1)
        ELSE IF total(best) > max THEN {} ELSE {f2[best] \o b2[best]}

\* shortestPathsSlow: whole paths, level by level, each using a relationship once.
RECURSIVE Slow(_, _, _, _, _, _, _)
Slow(g, p, s, e, min, max, paths) ==
    LET at(path) == IF path = <<>> THEN s ELSE Last(path)[2]
        longer == UNION {{Append(path, st) : st \in Reached(g, p, at(path), RelsOf(path))} : path \in paths}
        found  == {path \in longer : at(path) = e /\ Len(path) >= min}
    IN  IF paths = {} \/ max = 0 THEN {}
        ELSE IF found # {} THEN found ELSE Slow(g, p, s, e, min, max - 1, longer)

OneOf(paths) == IF paths = {} THEN {} ELSE {CHOOSE path \in paths : TRUE}

\* shortestPaths
ShortestPaths(g, p, s, e, min, max, all) ==
    IF s = e /\ min = 0 THEN {<<>>}
    ELSE IF s = e \/ min > 1
         THEN LET found == Slow(g, p, s, e, min, max, {<<>>}) IN IF all THEN found ELSE OneOf(found)
    ELSE IF all THEN ShortestBFS(g, p, s, e, max, {})
    ELSE Bidirectional(g, p, max, {}, s :> <<>>, e :> <<>>, {s}, {e}, 0)

-----------------------------------------------------------------------------
(* What a pattern means: the ways to read a trail of the graph as it.      *)

\* The trails from n: no relationship twice, whatever its direction.
RECURSIVE Trails(_, _, _)
Trails(g, n, used) ==
    {<<>>} \cup UNION {{<<st>> \o t : t \in Trails(g, st[2], used \cup {st[1]})} :
        st \in {x \in (g \ used) \X PathNodes : <<x[1][1], x[1][2]>> \in {<<n, x[2]>>, <<x[2], n>>}}}

NodeAt(s, steps, j) == IF j = 0 THEN s ELSE steps[j][2]
Points(p, s, steps, j) ==
    LET ends == <<steps[j][1][1], steps[j][1][2]>>
        hop  == <<NodeAt(s, steps, j - 1), NodeAt(s, steps, j)>>
    IN  /\ steps[j][1] \in p.ok
        /\ \/ p.dir # "left" /\ ends = hop
           \/ p.dir # "right" /\ ends = <<hop[2], hop[1]>>

\* A pattern with its groups spelt out k times; their variables are lists.
InGroup(e) == ("list_of" :> e.var) @@ [e EXCEPT !.var = ""]
Spelt(es, k) ==
    FlattenSeq([i \in DOMAIN es |-> IF es[i].t # "group" THEN <<es[i]>>
                ELSE FlattenSeq([j \in 1..k |-> [x \in DOMAIN es[i].elems |-> InGroup(es[i].elems[x])]])])
Iterations(es, most) ==
    LET grps == {es[i] : i \in {j \in DOMAIN es : es[j].t = "group"}}
    IN  IF grps = {} THEN {0} ELSE UNION {{k \in grp.min..most : k <= grp.max} : grp \in grps}

\* A reading says after how many steps each element of the pattern ends.
RECURSIVE Readings(_, _, _, _, _)
Readings(es, s, steps, i, at) ==
    LET node  == IF NodeAt(s, steps, at) \in es[i].ok \cap es[i].where THEN {at} ELSE {}
        hops  == {j \in at..Len(steps) : /\ j - at \in es[i].min..es[i].max
                                         /\ \A x \in (at + 1)..j : Points(es[i], s, steps, x)}
        stops == IF es[i].t = "node" THEN node ELSE hops
    IN  IF i > Len(es) THEN IF at = Len(steps) THEN {<<>>} ELSE {}
        ELSE UNION {{<<j>> \o c : c \in Readings(es, s, steps, i + 1, j)} : j \in stops}

\* What element i stands for in a reading c.
Value(es, s, steps, c, i) ==
    LET from == IF i = 1 THEN 0 ELSE c[i - 1]
    IN  IF es[i].t = "node" THEN NodeAt(s, steps, c[i])
        ELSE IF es[i].list THEN [j \in 1..(c[i] - from) |-> steps[from + j][1]] ELSE steps[c[i]][1]

\* Every way to match a part: a trail, the number of iterations, and a reading in
\* which a variable has one value.
Meanings(g, part, row) ==
    LET means(s, steps, k) == [s |-> s, steps |-> steps, es |-> Spelt(part.elems, k)]
        consistent(m, c) == \A i \in DOMAIN c : m.es[i].var # "" =>
            /\ Agrees(row, m.es[i].var, Value(m.es, m.s, m.steps, c, i))
            /\ \A j \in 1..i : m.es[j].var = m.es[i].var =>
                   Value(m.es, m.s, m.steps, c, i) = Value(m.es, m.s, m.steps, c, j)
        ways(m) == {[s |-> m.s, steps |-> m.steps, es |-> m.es, c |-> c] :
                       c \in {d \in Readings(m.es, m.s, m.steps, 1, 0) : consistent(m, d)}}
    IN  UNION {UNION {UNION {ways(means(s, steps, k)) : k \in Iterations(part.elems, Cardinality(g))}
                      : steps \in Trails(g, s, {})} : s \in PathNodes}

\* The row of a meaning: the variables, the group lists and the path.
RowOf(part, row, m) ==
    LET val(i) == Value(m.es, m.s, m.steps, m.c, i)
        plain  == {i \in DOMAIN m.es : m.es[i].var # ""}
        vars   == [v \in {m.es[i].var : i \in plain} |-> val(CHOOSE i \in plain : m.es[i].var = v)]
        spots(v) == SelectSeq([i \in DOMAIN m.es |-> i],
                              LAMBDA i : "list_of" \in DOMAIN m.es[i] /\ m.es[i].list_of = v)
        grouped  == UNION {IF part.elems[i].t = "group" THEN GroupVars(part.elems[i]) ELSE {} : i \in DOMAIN part.elems}
        lists  == [v \in grouped |-> [j \in DOMAIN spots(v) |-> val(spots(v)[j])]]
    IN  Bind(lists @@ vars @@ row, part.var, <<m.s, m.steps>>)
=============================================================================
