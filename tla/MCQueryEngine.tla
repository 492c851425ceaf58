---------------------------- MODULE MCQueryEngine ----------------------------
\* Small inputs for the algorithms of QueryEngine.
EXTENDS QueryEngine

CONSTANTS A, B, C, D, E

MCNodes == {A, B, C, D, E}
Three == {A, B, C}

-----------------------------------------------------------------------------
(* Graphs: two nodes with parallel relationships and loops, and three nodes. *)

Pairs(ns, copies) == {<<x, y, n>> : x \in ns, y \in ns, n \in copies}
Small(rels, most) == UNION {kSubset(k, rels) : k \in 0..most}
MCGraphs == Small(Pairs({A, B}, {1, 2}), 3) \cup kSubset(3, Pairs(Three, {1}))

AllRels == Pairs(MCNodes, {1, 2})
Ones == {rel \in AllRels : rel[3] = 1}
N(v) == NodePat(v, Three, "none")
L(v) == NodePat(v, {A, B}, "label")
P(v) == NodePat(v, {A}, "prop")
W(v) == [N(v) EXCEPT !.where = {B, C}]
R(v, dir) == RelPat(v, dir, AllRels, "none")
K(v, dir) == RelPat(v, dir, Ones, "prop")
V(v, dir, min, max) == VarLength(v, dir, AllRels, min, max)
Q(part) == [part |-> part, row |-> <<>>, where |-> <<>>, optional |-> FALSE]
AtB(part) == [Q(part) EXCEPT !.row = [b |-> B]]
Where(var, ok, q) == [q EXCEPT !.where = <<[var |-> var, ok |-> ok]>>]
Optional(q) == [q EXCEPT !.optional = TRUE]

MCPatterns ==
    {Q(Part("p", <<N("a"), R("r", d), N("b")>>)) : d \in {"left", "right", "both"}} \cup
    {Q(Part("", <<N("a"), R("", d), L("b")>>)) : d \in {"left", "both"}} \cup
    {Q(Part("", <<L(""), K("r", d), N("b")>>)) : d \in {"left", "right", "both"}} \cup
    {Q(Part("", <<N("a"), V("r", "both", 0, 2), P("b")>>)),
     Q(Part("", <<L("a"), V("", "right", 1, Unbounded), N(""), R("", "left"), P("b")>>)),
     Q(Part("", <<N("a"), R("r", "right"), N("a")>>)),
     Q(Part("", <<N("a"), R("", "right"), W("b"), R("", "both"), P("a")>>)),
     Q(Part("p", <<N("a"), Group(<<N("x"), R("r", "right"), L("y")>>, 0, 2), L("b")>>)),
     Q(Part("", <<Group(<<L("x"), R("", "both"), N("y")>>, 1, Unbounded), N("b")>>)),
     Q(Part("", <<N("a"), R("", "left"), Group(<<W("x"), R("q", "left"), N("")>>, 1, 2), N("")>>)),
     AtB(Part("", <<N("a"), V("", "both", 1, 2), N("b")>>)),
     AtB(Part("", <<L("b"), R("r", "both"), N("c"), R("s", "right"), N("b")>>)),
     Optional(Where("b", {B}, Q(Part("", <<L("a"), R("r", "left"), N("b")>>)))),
     Where("r", Ones, Q(Part("", <<N("a"), R("r", "both"), L("b")>>))),
     Where("a", {A, C}, Q(Part("", <<N("a"), V("", "both", 0, 2), P("b")>>))),
     Where("c", {A}, Optional(AtB(Part("p", <<N("b"), R("r", "right"), N("c")>>))))}
MCPatternPairs ==
    {[first |-> Part("", <<N("a"), R("", d), N("b")>>), second |-> Part("", <<N("b"), R("", d), N("c")>>)] :
         d \in {"right", "both"}} \cup
    {[first |-> Part("", <<N("a"), V("", "right", 1, 2), N("b")>>), second |-> Part("", <<N("c"), K("", "left"), L("d")>>)],
     [first |-> Part("", <<L("a"), K("r", "both"), N("b")>>), second |-> Part("", <<N("a"), V("s", "both", 0, 2), P("c")>>)]}

MCSelectorGraphs == Small(Pairs({A, B}, {1, 2}), 3) \cup kSubset(4, Pairs({A, B}, {1}) \cup Pairs({B, C}, {1}))
MCSelections ==
    {[part |-> Part("", <<N("a"), V("", d, 0, Unbounded), N("b"), V("", "right", 0, 1), N("c")>>),
      row |-> row, kind |-> x[1], k |-> x[2]] :
        d \in {"right", "both"}, row \in {<<>>, [a |-> A, c |-> B]},
        x \in {<<"any", 2>>, <<"anyShortest", 1>>, <<"allShortest", 1>>, <<"shortest", 2>>, <<"shortest", 3>>, <<"groups", 2>>}} \cup
    {[part |-> Part("", <<N("a"), V("", "both", 0, Unbounded), N("b"), R("", "right"), N("c")>>),
      row |-> [a |-> A, c |-> B], kind |-> x[1], k |-> x[2]] : x \in {<<"allShortest", 1>>, <<"groups", 2>>}}

\* Subsets of a graph with detours, a parallel relationship and a way back.
Detours == {<<A, B, 1>>, <<B, D, 1>>, <<D, E, 1>>, <<A, C, 1>>, <<C, E, 1>>, <<E, B, 1>>, <<A, B, 2>>}
MCSearchGraphs == SUBSET Detours
MCSearches ==
    {[p |-> R("", d), s |-> A, e |-> e, min |-> x[1], max |-> x[2], all |-> all] :
        d \in {"left", "right", "both"}, e \in {A, E}, all \in BOOLEAN,
        x \in {<<0, Unbounded>>, <<1, Unbounded>>, <<1, 2>>, <<2, Unbounded>>, <<3, 3>>}}

-----------------------------------------------------------------------------
(* Values.  Exact is 4: the integers 5, 7, ... have no float of their own.  *)

Flt(h) == <<"float", h>>
Str(n) == <<"string", n>>
Scalars == {Null, NaN, Bool(TRUE), Bool(FALSE), Num(-1), Num(1), Num(3), Num(4), Flt(2), Flt(3), Flt(8), Str(1), Str(2)}
MCSample ==
    Scalars \cup {List(<<>>), List(<<Num(1)>>), List(<<Flt(2), Null>>), List(<<Num(1), Str(1)>>), List(<<NaN>>),
                  <<"map", <<>>>>, <<"map", 1 :> Num(1)>>, <<"map", 1 :> Flt(2)>>, <<"map", 2 :> Null>>,
                  <<"node", 1>>, <<"node", 2>>, <<"rel", 1>>, <<"path", <<1>>>>, <<"path", <<1, 1, 2>>>>,
                  <<"point", 1>>, <<"date", 1>>, <<"date", 2>>, <<"duration", 1>>}

MCTruths == UNION {[1..n -> {Bool(TRUE), Bool(FALSE), Null}] : n \in 0..4}
MCOperands == MinInt..MaxInt

-----------------------------------------------------------------------------
(* Projection: a key column k and a value column v.                        *)

Rows(ks, vs) == [k : ks, v : vs]
MCTables ==
    UNION {[1..n -> Rows({Null, Num(1), Flt(2), Str(1)}, {Null, Num(1), Flt(3), Str(1)})] : n \in 0..2} \cup
    [1..3 -> Rows({Null, Num(1)}, {Null, Num(1), Num(4), Flt(3)})]
Key == Item("k", "k", "", FALSE)
MCItemLists ==
    {<<Key, Item("v", "v", "", FALSE)>>, <<Item("n", "v", "count", FALSE), Item("m", "k", "max", FALSE)>>,
     <<Key, Item("c", "", "countStar", FALSE), Item("v", "v", "min", FALSE)>>, <<Key, Item("v", "v", "sum", FALSE)>>,
     <<Key, Item("v", "v", "collect", TRUE)>>}
Down(c) == [col |-> c, desc |-> TRUE]
Up(c) == [col |-> c, desc |-> FALSE]
MCEndings ==
    [distinct : BOOLEAN, order : {<<>>, <<Up("k"), Down("v")>>, <<Down("v")>>}, skip : {-1, 1}, limit : {-1, 0, 1}]

-----------------------------------------------------------------------------
(* Expressions.                                                            *)

Atoms == {<<"a">>, <<"int">>, <<"minusInt">>}
BinaryOps == {"or", "xor", "and", "+", "-", "*", "^", "in"}
UnaryOps == {"not", "neg", "pos", "isnull", "isnottyped", "prop", "labelled"}
Combined(lhs, rhs) ==
    {<<op, x, y>> : op \in BinaryOps \cup {"at"}, x \in lhs, y \in rhs} \cup
    {<<op, x>> : op \in UnaryOps, x \in lhs} \cup
    {<<"chain", <<"<", "=">>, <<x, y, x>>>> : x \in lhs, y \in rhs} \cup
    {<<"slice", x, y, <<"none">>>> : x \in lhs, y \in rhs \cup {<<"none">>}}
MCTrees == LET shallow == Combined({<<"int">>}, {<<"a">>}) \cup Atoms
           IN  Combined(shallow, shallow) \cup Combined(Combined(shallow, {<<"a">>}), Atoms)

-----------------------------------------------------------------------------
(* Days and date-times around the ends of months and years.                *)

MCDays ==
    UNION {(DayNumber(y, 1, 1) - 5)..(DayNumber(y, 1, 1) + 5) : y \in (1896..1905) \cup (1998..2032)} \cup
    DayNumber(2024, 1, 1)..DayNumber(2025, 1, 1)
MCMoments ==
    {Moment(n, c) : n \in UNION {{DayNumber(y, m, 1) + i : i \in {-4, -2, -1, 0, 1, 29}} : y \in {2023, 2024}, m \in {1, 2, 3, 5}},
                    c \in {0, 2}}
=============================================================================
