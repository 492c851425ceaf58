----------------------------- MODULE Projection -----------------------------
(***************************************************************************)
(* WITH and RETURN (cypher/interp/project.go) and the plan that runs an    *)
(* aggregation as one SQL GROUP BY instead (aggpush.go).                   *)
(*                                                                         *)
(* A row is a function from columns to values.  A column of the result is  *)
(* an item [name, col, fn, distinct]: the value of col (fn = "") or an     *)
(* aggregate over it.  A projection is [items, distinct, order, skip,      *)
(* limit, where]: order is a sequence of [col, desc], skip and limit are   *)
(* -1 when absent, and where is a set of values its column may have.       *)
(***************************************************************************)
EXTENDS Expressions

Item(name, col, fn, distinct) == [name |-> name, col |-> col, fn |-> fn, distinct |-> distinct]
Names(items) == {items[i].name : i \in DOMAIN items}
Col(row, c) == IF c \in DOMAIN row THEN row[c] ELSE Null
Column(rows, c) == [i \in DOMAIN rows |-> Col(rows[i], c)]

-----------------------------------------------------------------------------
(* Aggregates.                                                             *)

\* The elements of s, without those whose key an earlier one has.
FirstOfEach(s, key(_)) ==
    LET new(i) == \A j \in 1..(i - 1) : key(s[j]) # key(s[i])
        idx == SelectSeq([i \in DOMAIN s |-> i], new)
    IN  [i \in DOMAIN idx |-> s[idx[i]]]

\* The first value that no other beats.
Best(vals, better(_, _)) ==
    LET best == CHOOSE i \in DOMAIN vals : \A j \in DOMAIN vals :
                    ~better(vals[j], vals[i]) /\ (j < i => better(vals[i], vals[j]))
    IN  IF vals = <<>> THEN Null ELSE vals[best]
Smaller(a, b) == OrderCompare(a, b) < 0
Larger(a, b) == OrderCompare(a, b) > 0

\* sumValues: integers until the first float, then halves.
RECURSIVE SumFrom(_, _)
SumFrom(acc, vals) ==
    IF vals = <<>> \/ acc = Error THEN acc
    ELSE IF ~IsNumber(vals[1]) THEN Error
    ELSE IF acc = NaN \/ vals[1] = NaN THEN NaN
    ELSE SumFrom(IF acc[1] = "int" /\ vals[1][1] = "int" THEN SumValues(<<vals[1]>>, acc[2])
                 ELSE <<"float", Halves(acc) + Halves(vals[1])>>, Tail(vals))

Kept(vals) == SelectSeq(vals, LAMBDA v : v # Null)

\* aggregate
Aggregate(it, rows) ==
    LET kept == Kept(Column(rows, it.col))
        vals == IF it.distinct THEN FirstOfEach(kept, GroupKey) ELSE kept
    IN  CASE it.fn = "countStar" -> Num(Len(rows))
          [] it.fn = "count"     -> Num(Len(vals))
          [] it.fn = "collect"   -> List(vals)
          [] it.fn = "sum"       -> SumFrom(Num(0), vals)
          [] it.fn = "min"       -> Best(vals, Smaller)
          [] it.fn = "max"       -> Best(vals, Larger)

-----------------------------------------------------------------------------
(* projection.                                                             *)

KeyItems(items) == SelectSeq(items, LAMBDA it : it.fn = "")
KeyOf(items, row) == LET ks == KeyItems(items) IN [i \in DOMAIN ks |-> GroupKey(Col(row, ks[i].col))]

\* groupRows: in the order the groups first appear; without keys there is one group.
GroupRows(items, rows) ==
    LET firsts == FirstOfEach(rows, LAMBDA r : KeyOf(items, r))
        members(r) == SelectSeq(rows, LAMBDA x : KeyOf(items, x) = KeyOf(items, r))
    IN  IF KeyItems(items) = <<>> THEN <<rows>> ELSE [i \in DOMAIN firsts |-> members(firsts[i])]

Aggregating(items) == \E i \in DOMAIN items : items[i].fn # ""

\* The projected rows, each with the row it was made from.
Projected(items, rows) ==
    LET item(n) == CHOOSE it \in Range(items) : it.name = n
        plain(r) == [n \in Names(items) |-> Col(r, item(n).col)]
        first(g) == IF g = <<>> THEN <<>> ELSE g[1]
        agg(g)   == [n \in Names(items) |-> IF item(n).fn = "" THEN Col(first(g), item(n).col) ELSE Aggregate(item(n), g)]
        groups   == GroupRows(items, rows)
    IN  IF Aggregating(items)
        THEN [i \in DOMAIN groups |-> [out |-> agg(groups[i]), orig |-> first(groups[i])]]
        ELSE [i \in DOMAIN rows |-> [out |-> plain(rows[i]), orig |-> rows[i]]]

\* rowKey
RowKey(r) == [n \in DOMAIN r |-> GroupKey(r[n])]

\* What ORDER BY and WHERE see: the projected columns, and the ones before unless
\* the projection aggregated them away.
ScopeOf(p, x) == IF Aggregating(p.items) THEN x.out ELSE x.out @@ x.orig

\* Mutant: DESC is forgotten once the first key ties.
SortsBeforeAscending(order, a, b) ==
    \E i \in DOMAIN order :
        /\ \A j \in 1..(i - 1) : OrderCompare(Col(a, order[j].col), Col(b, order[j].col)) = 0
        /\ LET c == OrderCompare(Col(a, order[i].col), Col(b, order[i].col))
           IN  IF order[i].desc /\ i = 1 THEN c > 0 ELSE c < 0

\* sortRows' comparison, key after key
SortsBefore(order, a, b) ==
    \E i \in DOMAIN order :
        /\ \A j \in 1..(i - 1) : OrderCompare(Col(a, order[j].col), Col(b, order[j].col)) = 0
        /\ LET c == OrderCompare(Col(a, order[i].col), Col(b, order[i].col))
           IN  IF order[i].desc THEN c > 0 ELSE c < 0

\* A stable sort: by the keys, then by the position before.
Sorted(p, xs) ==
    LET before(i, j) == \/ SortsBefore(p.order, ScopeOf(p, xs[i]), ScopeOf(p, xs[j]))
                        \/ /\ ~SortsBefore(p.order, ScopeOf(p, xs[j]), ScopeOf(p, xs[i]))
                           /\ i < j
        idx == SortSeq([i \in DOMAIN xs |-> i], before)
    IN  [i \in DOMAIN xs |-> xs[idx[i]]]

Skipped(xs, skip) == IF skip <= 0 THEN xs ELSE SubSeq(xs, skip + 1, Len(xs))
Limited(xs, limit) == IF limit >= 0 /\ limit < Len(xs) THEN SubSeq(xs, 1, limit) ELSE xs

\* finishProjection: DISTINCT, then ORDER BY, then SKIP and LIMIT, then WHERE.
Finish(p, xs) ==
    LET distinct == IF p.distinct THEN FirstOfEach(xs, LAMBDA x : RowKey(x.out)) ELSE xs
        ordered  == IF p.order = <<>> THEN distinct ELSE Sorted(p, distinct)
        cut      == Limited(Skipped(ordered, p.skip), p.limit)
    IN  SelectSeq(cut, LAMBDA x : p.where = <<>> \/ Col(ScopeOf(p, x), p.where[1]) \in p.where[2])

-----------------------------------------------------------------------------
(* aggregatePushdown: what SQLite computes, and when it is believed.       *)

\* SQLite compares an integer with a real exactly, and a boolean is 1 or 0.
SqlNum(a) == IF a[1] = "int" THEN 2 * a[2] ELSE IF a[1] = "bool" THEN 2 * BoolRank(a[2]) ELSE a[2]
SqlNumeric(a) == a[1] \in {"int", "float", "bool"}

\* Mutant: any value is offered to SQLite as a hint.
HintableAny(b) == b # Null

\* hintValue: a scan may be narrowed to the nodes whose property equals b.
Hintable(b) == b[1] \in {"string", "int", "float"}
SqlEquals(a, b) ==
    \/ SqlNumeric(a) /\ SqlNumeric(b) /\ SqlNum(a) = SqlNum(b)
    \/ a[1] = "string" /\ a = b

\* aggWhere: a comparison in SQL, guarded by json_type.
SqlWhere(op, a, b) ==
    LET c == IF b[1] = "string" THEN Sign(a[2] - b[2]) ELSE Sign(SqlNum(a) - SqlNum(b))
    IN  /\ IF b[1] = "string" THEN a[1] = "string" ELSE a[1] \in {"int", "float"}
        /\ CASE op = "=" -> c = 0 [] op = "<" -> c < 0 [] op = "<=" -> c <= 0 [] op = ">" -> c > 0 [] op = ">=" -> c >= 0

\* SQL groups by the type and the value of each key.
SqlKey(items, row) == LET ks == KeyItems(items) IN [i \in DOMAIN ks |-> Col(row, ks[i].col)]
SqlGroups(items, rows) ==
    IF KeyItems(items) = <<>> THEN {rows}
    ELSE {SelectSeq(rows, LAMBDA x : SqlKey(items, x) = SqlKey(items, rows[i])) : i \in DOMAIN rows}

Types(vals) == {vals[i][1] : i \in DOMAIN vals}

\* SQLite's order: numbers, then text.
TextBefore(a, b) ==
    IF a[1] = "string" /\ b[1] = "string" THEN a[2] < b[2]
    ELSE IF "string" \in {a[1], b[1]} THEN b[1] = "string"
    ELSE SqlNum(a) < SqlNum(b)
TextAfter(a, b) == TextBefore(b, a)

\* A key that is no plain scalar, or integer here and real there, is not believed.
KeysPlain(items, rows) ==
    \A i \in DOMAIN items : items[i].fn = "" =>
        LET ts == Types(Column(rows, items[i].col))
        IN  ts \subseteq {"null", "int", "float", "string", "bool"} /\ ~({"int", "float"} \subseteq ts)

\* Mutant: strings and numbers of one column may be compared.
AggPlainMixed(it, rows) == it.fn \in {"", "countStar", "count"} \/ Types(Column(rows, it.col)) \subseteq {"null", "int", "float", "string"}

\* Nor is min or max over other than numbers or strings, or sum over other than integers.
AggPlain(it, rows) ==
    LET ts == Types(Column(rows, it.col)) \ {"null"}
    IN  \/ it.fn \in {"", "countStar", "count"}
        \/ it.fn \in {"min", "max"} /\ (ts \subseteq {"int", "float"} \/ ts \subseteq {"string"})
        \/ it.fn = "sum" /\ ts \subseteq {"int"}

SqlAggregate(it, rows) ==
    LET vals == Kept(Column(rows, it.col))
    IN  CASE it.fn = "countStar" -> Num(Len(rows))
          [] it.fn = "count"     -> Num(Len(vals))
          [] it.fn = "sum"       -> SumFrom(Num(0), vals)
          [] it.fn = "min"       -> Best(vals, TextBefore)
          [] it.fn = "max"       -> Best(vals, TextAfter)

\* aggItems
Pushable(items) ==
    /\ Aggregating(items)
    /\ \A i \in DOMAIN items : items[i].fn \in {"", "countStar", "count", "sum", "min", "max"} /\ ~items[i].distinct

\* Handled unless something is not believed or SQLite fails (an overflowing sum).
PushHandled(items, rows) ==
    /\ Pushable(items) /\ KeysPlain(items, rows)
    /\ \A g \in SqlGroups(items, rows) : \A i \in DOMAIN items :
           AggPlain(items[i], g) /\ (items[i].fn = "sum" => SqlAggregate(items[i], g) # Error)
PushRow(items, g) ==
    LET item(n) == CHOOSE it \in Range(items) : it.name = n
        val(it) == IF it.fn = "" THEN Col(g[1], it.col) ELSE SqlAggregate(it, g)
    IN  [n \in Names(items) |-> val(item(n))]
=============================================================================
