----------------------------- MODULE QueryEngine -----------------------------
(***************************************************************************)
(* The pure algorithms of the query engine and what they are held to.      *)
(* Each behaviour gives one algorithm one input out of a bounded set, or   *)
(* follows the life of one vector matrix; the properties compare what the  *)
(* code computes with a definition of what it should.                      *)
(***************************************************************************)
EXTENDS PathMatch, Projection, Precedence, Calendar, MatrixBuild

CONSTANTS
    Graphs,         \* the graphs patterns are matched against
    Patterns,       \* single patterns with the row they extend: [part, row, where, optional]
    PatternPairs,   \* two patterns of one MATCH: [first, second]
    SelectorGraphs, \* the graphs selectors choose paths from
    Selections,     \* [part, row, kind, k]
    SearchGraphs,   \* the graphs shortest paths are searched in
    Searches,       \* [p, s, e, min, max, all]
    Sample,         \* values to compare
    Truths,         \* sequences of true, false and null
    Operands,      \* integers to calculate with
    Tables,         \* sequences of rows
    ItemLists,      \* the columns of a projection
    Endings,        \* what follows them: [distinct, order, skip, limit]
    Trees           \* expressions

Init == CalendarInit /\ MatrixInit

MatchOne == \E g \in Graphs, q \in Patterns : task' = [algo |-> "match", g |-> g, q |-> q]
MatchTwo == \E g \in Graphs, q \in PatternPairs : task' = [algo |-> "pair", g |-> g, q |-> q]
Select   == \E g \in SelectorGraphs, q \in Selections : task' = [algo |-> "select", g |-> g, q |-> q]
Search   == \E g \in SearchGraphs, q \in Searches : task' = [algo |-> "search", g |-> g, q |-> q]
CompareTwo == \E a, b \in Sample : task' = [algo |-> "compare", a |-> a, b |-> b]
Reason   == \E s \in Truths : task' = [algo |-> "logic", s |-> s]
Calculate == \E x, y \in Operands : task' = [algo |-> "arith", x |-> x, y |-> y]
Project  == \E rows \in Tables, items \in ItemLists : task' = [algo |-> "project", rows |-> rows, items |-> items]
Write    == \E t \in Trees : task' = [algo |-> "write", t |-> t]

Vectorise == task' = [algo |-> "vectors"]

\* Nothing follows an answer; only the life of a matrix must not come to a halt.
Answered == task.algo \notin {"none", "vectors"} /\ UNCHANGED <<task, matrixVars>>

Next ==
    \/ /\ task.algo = "none"
       /\ \/ CompareTwo
          \/ Reason
          \/ Calculate
          \/ Write
          \/ Project
          \/ Search
          \/ MatchTwo
          \/ MatchOne
          \/ Select
          \/ Date
          \/ Elapsed
          \/ Vectorise
       /\ UNCHANGED matrixVars
    \/ task.algo = "vectors" /\ MatrixNext /\ UNCHANGED task
    \/ Answered

Spec == Init /\ [][Next]_<<task, matrixVars>>

-----------------------------------------------------------------------------
(* Patterns.  A property is an invariant, or says of the step that sets a  *)
(* task what the task and the code's answer to it owe each other.          *)

\* The elements of seq are the values of f over the set ms, as often as it takes them.
SameBag(seq, ms, f(_)) ==
    \A x \in Range(seq) \cup {f(m) : m \in ms} :
        Cardinality({i \in DOMAIN seq : seq[i] = x}) = Cardinality({m \in ms : f(m) = x})

RowsAsMeant(t) ==
    t.algo = "match" =>
        LET part == t.q.part
            row  == t.q.row
            where == t.q.where
            all  == Meanings(t.g, part, row)
            owed == {m \in all : Passes(where, RowOf(part, row, m))}
            got  == ExecMatch(t.g, part, row, where, t.q.optional)
        IN  /\ IF owed = {} /\ t.q.optional
               THEN /\ Len(got) = 1 /\ \A v \in DOMAIN row : got[1][v] = row[v]
                    /\ \A v \in PatternVars(part) \ ({""} \cup DOMAIN row) : got[1][v] = NoMatch
               ELSE SameBag(got, owed, LAMBDA m : RowOf(part, row, m))
            /\ Len(Subquery(t.g, part, row, where)) = Cardinality(owed)
            /\ PatternExpr(t.g, part, row) = (all # {})

\* Whatever plan matchPart picks (forwards, backwards from a better end, from the
\* relationship, into a group) and whatever WHERE lets SQLite leave out, MATCH
\* returns the rows the pattern means, each as often as there are ways to match it;
\* OPTIONAL MATCH returns the row itself, with nulls, if there are none; and COUNT
\* and EXISTS see the same rows.
PlansAgree == [][RowsAsMeant(task')]_task

PairsAsMeant(t) ==
    t.algo = "pair" =>
        LET a == t.q.first
            b == t.q.second
            ms == MatchParts(t.g, a, b, <<>>)
            firsts == Meanings(t.g, a, <<>>)
            pairs == UNION {{<<x, y>> : y \in {z \in Meanings(t.g, b, RowOf(a, <<>>, x)) :
                                                 RelsOf(z.steps) \cap RelsOf(x.steps) = {}}} : x \in firsts}
        IN  SameBag([i \in DOMAIN ms |-> ms[i][2].row], pairs,
                    LAMBDA xy : RowOf(b, RowOf(a, <<>>, xy[1]), xy[2]))

\* The parts of one MATCH share no relationship (matchParts), lose no pair of
\* matches that share none, and agree on the variables they share.
PartsDisjoint == [][PairsAsMeant(task')]_task

\* The lengths a selector owes a partition, given the lengths of all its matches.
Owed(kind, k, lens) ==
    LET sorted == SortSeq(lens, LAMBDA a, b : a < b)
        rank(l) == Cardinality({x \in Range(lens) : x <= l})
    IN  CASE kind = "shortest"    -> FirstK(sorted, k)
          [] kind = "anyShortest" -> FirstK(sorted, 1)
          [] kind = "allShortest" -> SelectSeq(sorted, LAMBDA l : rank(l) = 1)
          [] kind = "groups"      -> SelectSeq(sorted, LAMBDA l : rank(l) <= k)

\* The last relationship of a meaning matches no hop.
EndsHopless(m) == Len(m.es) > 2 /\ m.c[Len(m.c) - 1] = m.c[Len(m.c) - 2]

\* Matches the code may lose of the last length owed: deepening stops at a limit, and
\* walk cuts a path that has reached it before a relationship that needs no hop.
MayLose(kind, owed, full) ==
    IF kind \in {"allShortest", "groups"} /\ owed # <<>>
    THEN Cardinality({m \in full : Len(m.steps) = Last(owed) /\ EndsHopless(m)}) ELSE 0

ChosenAsOwed(t) ==
    t.algo = "select" =>
        LET q    == t.q
            part == [q.part EXCEPT !.var = "path"]
            res  == MatchSelected(t.g, q.part, q.row, q.kind, q.k)
            all  == Meanings(t.g, part, q.row)
            rows == {RowOf(part, q.row, m) : m \in all}
            mine(s, e) == SelectSeq(res, LAMBDA m : m.start = s /\ m.cur = e)
            full(s, e) == {m \in all : m.s = s /\ NodeAt(m.s, m.steps, Len(m.steps)) = e}
            lens(s, e) == LET f == Listed(full(s, e)) IN [i \in DOMAIN f |-> Len(f[i].steps)]
        IN  /\ \A i \in DOMAIN res : res[i].row \in rows
            /\ \A i \in DOMAIN res :
                   Cardinality({j \in DOMAIN res : res[j].row = res[i].row})
                       <= Cardinality({m \in all : RowOf(part, q.row, m) = res[i].row})
            /\ \A s, e \in PathNodes :
                   LET got  == [i \in DOMAIN mine(s, e) |-> Len(mine(s, e)[i].steps)]
                       owed == Owed(q.kind, q.k, lens(s, e))
                       lost == IF EndsBound(q.part, q.row) THEN MayLose(q.kind, owed, full(s, e)) ELSE 0
                   IN  IF q.kind = "any"
                       THEN Len(got) = Len(FirstK(lens(s, e), q.k))
                       ELSE /\ IsPrefix(got, owed) /\ Range(got) = Range(owed)
                            /\ Len(owed) - Len(got) <= lost

\* matchSelected returns matches of the pattern, none twice, and per pair of ends
\* the lengths an enumeration of every path would have chosen: stopping early and
\* deepening change nothing, but that with both ends bound ALL SHORTEST and SHORTEST
\* k GROUPS may lose some matches, never all, of the last length they return, only
\* such whose last relationship matches no hop.
SelectorsExact == [][ChosenAsOwed(task')]_task

FoundAsOwed(t) ==
    t.algo = "search" =>
        LET q == t.q
            fits == {w \in Trails(t.g, q.s, {}) :
                        /\ Len(w) \in q.min..q.max
                        /\ NodeAt(q.s, w, Len(w)) = q.e
                        /\ \A j \in DOMAIN w : Points(q.p, q.s, w, j)}
            best == {w \in fits : \A u \in fits : Len(w) <= Len(u)}
            found == ShortestPaths(t.g, q.p, q.s, q.e, q.min, q.max, q.all)
        IN  IF q.all THEN found = best
            ELSE found \subseteq best /\ Cardinality(found) = (IF best = {} THEN 0 ELSE 1)

\* shortestPath returns a shortest path of an allowed length when there is one,
\* allShortestPaths returns every one, whichever search runs.
ShortestIsShortest == [][FoundAsOwed(task')]_task

-----------------------------------------------------------------------------
(* Values.                                                                 *)

\* orderCompare is a total order: antisymmetric, transitive, and in agreement with
\* < where that is defined.
OrderIsTotal ==
    task.algo = "compare" =>
        LET a == task.a
            b == task.b
            leq(x, y) == OrderCompare(x, y) \in {-1, 0}
        IN  /\ OrderCompare(a, b) \in {-1, 0, 1}
            /\ OrderCompare(b, a) = -OrderCompare(a, b)
            /\ \A c \in Sample : leq(a, b) /\ leq(b, c) => leq(a, c)
            /\ Compare(a, b) # <<NotComparable>> => Compare(a, b) = Answer(OrderCompare(a, b))

\* What DISTINCT and grouping take for one value (groupKey) is what sorts as one
\* value, and includes whatever = calls equal.
ValueIdentity ==
    task.algo = "compare" =>
        /\ (GroupKey(task.a) = GroupKey(task.b)) = (OrderCompare(task.a, task.b) = 0)
        /\ Equals(task.a, task.b) = "yes" => GroupKey(task.a) = GroupKey(task.b)

\* A scan narrowed in SQLite loses no node the property predicate accepts (propHint),
\* and a comparison pushed into SQL keeps exactly the rows Cypher's keeps (aggWhere).
SqlAgrees ==
    task.algo = "compare" =>
        LET a == task.a
            b == task.b
        IN  /\ Hintable(b) /\ Equals(a, b) = "yes" => SqlEquals(a, b)
            /\ b[1] \in {"string", "int", "float"} =>
                   \A op \in {"=", "<", "<=", ">", ">="} : SqlWhere(op, a, b) = (CompareOp(op, a, b) = "yes")

Lit(v) == <<"lit", v>>
FoldExpr(op, es, unit) == FoldRight(LAMBDA e, acc : <<op, e, acc>>, es, Lit(Bool(unit)))

\* The quantifiers, reduce, IN, comparison chains and CASE say what the conjunctions
\* and disjunctions they abbreviate say, null included; a list is the concatenation
\* of its slices; and De Morgan's law survives the short cuts.
LogicLaws ==
    task.algo = "logic" =>
        LET s     == task.s
            lits  == [i \in DOMAIN s |-> Lit(s[i])]
            list  == <<"list", lits>>
            x     == <<"var", "x">>
            ask(kind) == Eval(<<kind, "x", list, x>>, <<>>)
            one(i) == FoldExpr("and", [j \in DOMAIN s |-> IF j = i THEN lits[j] ELSE <<"not", lits[j]>>], TRUE)
            first == {i \in DOMAIN s : s[i] = Bool(TRUE) /\ \A j \in 1..(i - 1) : s[j] # Bool(TRUE)}
            eq(v) == [i \in DOMAIN s |-> <<"chain", <<"=">>, <<Lit(v), lits[i]>>>>]
            n     == Len(s)
            slice(from, to) == <<"slice", list, Lit(Num(from)), Lit(Num(to))>>
            links == [i \in 1..(Len(s) - 1) |-> <<"chain", <<"<">>, <<lits[i], lits[i + 1]>>>>]
        IN  /\ ask("all") = Eval(FoldExpr("and", lits, TRUE), <<>>)
            /\ ask("any") = Eval(FoldExpr("or", lits, FALSE), <<>>)
            /\ ask("none") = Eval(<<"not", FoldExpr("or", lits, FALSE)>>, <<>>)
            /\ ask("single") = Eval(FoldExpr("or", [i \in DOMAIN s |-> one(i)], FALSE), <<>>)
            /\ Eval(<<"reduce", "x", list, Lit(Bool(TRUE)), "acc", <<"and", <<"var", "acc">>, x>>>>, <<>>) = ask("all")
            /\ Eval(<<"comp", "x", list, x, x>>, <<>>) = List(SelectSeq(s, LAMBDA v : v = Bool(TRUE)))
            /\ \A k \in 0..(n - 1) :
                   /\ Eval(<<"||", slice(0, k), slice(k - n, n + 1)>>, <<>>) = List(s)
                   /\ Eval(<<"+", slice(-n, k - n), <<"list", <<<<"at", list, Lit(Num(k))>>>>>>>>, <<>>) = List(SubSeq(s, 1, k + 1))
            /\ \A v \in {Bool(TRUE), Bool(FALSE), Null} :
                   Eval(<<"in", Lit(v), list>>, <<>>) = Eval(FoldExpr("or", eq(v), FALSE), <<>>)
            /\ Len(s) > 1 =>
                   /\ Eval(<<"chain", [i \in DOMAIN links |-> "<"], lits>>, <<>>) = Eval(FoldExpr("and", links, TRUE), <<>>)
                   /\ Eval(<<"not", <<"and", lits[1], lits[2]>>>>, <<>>)
                          = Eval(<<"or", <<"not", lits[1]>>, <<"not", lits[2]>>>>, <<>>)
            /\ Eval(<<"case", <<>>, [i \in DOMAIN s |-> <<lits[i], Lit(Num(i))>>], Lit(Num(0))>>, <<>>)
                   = Num(IF first = {} THEN 0 ELSE CHOOSE i \in first : TRUE)

\* Integer arithmetic gives the exact result or an error, never a wrapped one.
ArithmeticExact ==
    task.algo = "arith" =>
        LET x == task.x
            y == task.y
            owed(n) == IF n \in MinInt..MaxInt THEN Num(n) ELSE Error
            got(op) == Eval(<<op, Lit(Num(x)), Lit(Num(y))>>, <<>>)
            q == Sign(x) * Sign(y) * (Magnitude(x) \div Magnitude(y))
        IN  /\ got("+") = owed(x + y)
            /\ got("-") = owed(x - y)
            /\ got("*") = owed(x * y)
            /\ Eval(<<"neg", Lit(Num(x))>>, <<>>) = owed(-x)
            /\ got("/") = IF y = 0 THEN Error ELSE owed(q)
            /\ got("%") = IF y = 0 THEN Error ELSE owed(x - y * q)
            /\ Aggregate(Item("s", "x", "sum", FALSE), <<[x |-> Num(x)], [x |-> Null], [x |-> Num(y)]>>) = owed(x + y)

-----------------------------------------------------------------------------
(* Projection.                                                             *)

Plain(items) == [items |-> items, distinct |-> FALSE, order |-> <<>>, skip |-> -1, limit |-> -1, where |-> <<>>]
Outs(xs) == [i \in DOMAIN xs |-> xs[i].out]

\* An aggregation run as SQL, when its answer is believed, returns the rows the
\* interpreter would: the same groups with the same aggregates.
PushdownAgrees ==
    task.algo = "project" /\ PushHandled(task.items, task.rows) =>
        LET own == Projected(task.items, task.rows)
            sql == SqlGroups(task.items, task.rows)
        IN  /\ Len(own) = Cardinality(sql)
            /\ {RowKey(own[i].out) : i \in DOMAIN own} = {RowKey(PushRow(task.items, g)) : g \in sql}

\* Column c of the rows never descends (ascends, if desc) within a run of equal
\* earlier columns.
InOrder(order, rows) ==
    \A i, j \in DOMAIN rows : i < j =>
        \/ \A o \in DOMAIN order : GroupKey(Col(rows[i], order[o].col)) = GroupKey(Col(rows[j], order[o].col))
        \/ \E o \in DOMAIN order :
              /\ \A l \in 1..(o - 1) : GroupKey(Col(rows[i], order[l].col)) = GroupKey(Col(rows[j], order[l].col))
              /\ OrderCompare(Col(rows[i], order[o].col), Col(rows[j], order[o].col)) = (IF order[o].desc THEN 1 ELSE -1)

RowsAsProjected(t) ==
    t.algo = "project" =>
        LET xs == Projected(t.items, t.rows)
            keys(ys) == [i \in DOMAIN ys |-> RowKey(ys[i].out)]
            count(ys, k) == Cardinality({i \in DOMAIN ys : keys(ys)[i] = k})
            failed == \E i \in DOMAIN xs : \E n \in DOMAIN xs[i].out : xs[i].out[n] = Error
        IN  failed \/ \A e \in Endings :
            LET p   == [Plain(t.items) EXCEPT !.distinct = e.distinct, !.order = e.order]
                all == Finish(p, xs)
                cut == Finish([p EXCEPT !.skip = e.skip, !.limit = e.limit], xs)
                lo  == IF e.skip < 0 THEN 0 ELSE e.skip
                hi  == IF e.limit < 0 \/ lo + e.limit > Len(all) THEN Len(all) ELSE lo + e.limit
                vals == Kept(Column(t.rows, "v"))
                agg(fn, distinct) == Aggregate(Item("x", "v", fn, distinct), t.rows)
            IN  /\ \A k \in Range(keys(xs)) \cup Range(keys(all)) :
                       count(all, k) = IF e.distinct /\ k \in Range(keys(xs)) THEN 1 ELSE count(xs, k)
                /\ InOrder(e.order, Outs(all))
                /\ cut = SubSeq(all, lo + 1, hi)
                /\ \A i \in DOMAIN vals : /\ OrderCompare(agg("min", FALSE), vals[i]) <= 0
                                          /\ OrderCompare(agg("max", FALSE), vals[i]) >= 0
                /\ agg("count", TRUE) = Num(Cardinality({GroupKey(vals[i]) : i \in DOMAIN vals}))

\* DISTINCT keeps one row of each kind, ORDER BY sorts by every key, SKIP and LIMIT
\* cut the sorted rows, and min, max and count(DISTINCT) agree with ORDER BY and
\* with grouping.
ProjectionSound == [][RowsAsProjected(task')]_task

-----------------------------------------------------------------------------
(* Expressions.                                                            *)

\* An expression written with only the parentheses the precedence table asks for
\* is read back as the same expression.
PrecedenceReadsBack == task.algo = "write" => ParseAll(Written(task.t)) = task.t
=============================================================================
