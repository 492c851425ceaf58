------------------------------- MODULE Values -------------------------------
(***************************************************************************)
(* Run-time values (cypher/interp/value.go): the three relations the       *)
(* engine compares them with.  equals is Cypher's =, compare is < and its  *)
(* kin, orderCompare sorts (ORDER BY, min, max), and groupKey decides what *)
(* DISTINCT and grouping take for the same value.                          *)
(*                                                                         *)
(* A value is a pair of its type and its content: <<"null", 0>>,           *)
(* <<"bool", b>>, <<"int", n>>, <<"float", h>> (h halves, so that 1.5 is   *)
(* 3), <<"nan", 0>>, <<"string", n>> (the n-th string in byte order),      *)
(* <<"list", seq>>, <<"map", f>>, nodes, relationships and points by id,   *)
(* a path by the ids along it, a vector and a duration by what they print. *)
(* float64 holds the integers up to Exact exactly (2^53 in the code) and   *)
(* every second one beyond.                                                *)
(***************************************************************************)
EXTENDS Integers, Sequences, SequencesExt, FiniteSets, FiniteSetsExt, TLC

CONSTANTS
    Exact,      \* the largest integer below which float64 is exact
    Panic       \* a failed type assertion

Null == <<"null", 0>>
NaN == <<"nan", 0>>
Num(n) == <<"int", n>>
Bool(b) == <<"bool", b>>
List(s) == <<"list", s>>

IsNumber(a) == a[1] \in {"int", "float", "nan"}
Sign(n) == IF n < 0 THEN -1 ELSE IF n > 0 THEN 1 ELSE 0

\* float64(n): to the nearest representable integer, ties to the even one.
ToFloat(n) == IF n \in (-Exact)..Exact \/ n % 2 = 0 THEN n ELSE IF n % 4 = 1 THEN n - 1 ELSE n + 1

\* The halves of a number as a float64.
Halves(a) == IF a[1] = "int" THEN 2 * ToFloat(a[2]) ELSE a[2]

\* Both as integers, or both as floats.
NumCompare(a, b) ==
    IF a[1] = "int" /\ b[1] = "int" THEN Sign(a[2] - b[2]) ELSE Sign(Halves(a) - Halves(b))

-----------------------------------------------------------------------------
(* Equality: yes, no or unknown.                                           *)

Tri(b) == IF b THEN "yes" ELSE "no"
AllYes(ts) == IF "no" \in ts THEN "no" ELSE IF "unknown" \in ts THEN "unknown" ELSE "yes"

RECURSIVE Equals(_, _)
Equals(a, b) ==
    IF a = Null \/ b = Null THEN "unknown"
    ELSE IF IsNumber(a) /\ IsNumber(b) THEN Tri(a # NaN /\ b # NaN /\ NumCompare(a, b) = 0)
    ELSE IF a[1] # b[1] THEN "no"
    ELSE IF a[1] \in {"list", "map"}
         THEN IF DOMAIN a[2] # DOMAIN b[2] THEN "no" ELSE AllYes({Equals(a[2][i], b[2][i]) : i \in DOMAIN a[2]})
    ELSE Tri(a[2] = b[2])

-----------------------------------------------------------------------------
(* Comparison.                                                             *)

NotComparable == "incomparable"
BoolRank(b) == IF b THEN 1 ELSE 0

\* compare: a sign, or NotComparable; Answer keeps the two kinds of result apart.
Answer(c) == <<"sign", c>>
RECURSIVE Compare(_, _), CompareLists(_, _)
Compare(a, b) ==
    IF IsNumber(a) /\ IsNumber(b)
    THEN IF a = NaN \/ b = NaN THEN <<NotComparable>> ELSE Answer(NumCompare(a, b))
    ELSE IF a[1] # b[1] THEN <<NotComparable>>
    ELSE CASE a[1] = "bool"     -> Answer(BoolRank(a[2]) - BoolRank(b[2]))
           [] a[1] = "string"   -> Answer(Sign(a[2] - b[2]))
           [] a[1] = "date"     -> Answer(Sign(a[2] - b[2]))
           [] a[1] = "list"     -> CompareLists(a[2], b[2])
           [] OTHER             -> <<NotComparable>>
CompareLists(s, t) ==
    IF s = <<>> \/ t = <<>> THEN Answer(Sign(Len(s) - Len(t)))
    ELSE LET c == Compare(s[1], t[1]) IN IF c = Answer(0) THEN CompareLists(Tail(s), Tail(t)) ELSE c

\* compareOp
CompareOp(op, a, b) ==
    LET eq == Equals(a, b)
        c  == Compare(a, b)
        unordered == IsNumber(a) /\ IsNumber(b) /\ (a = NaN \/ b = NaN)
    IN  CASE op = "="  -> eq
          [] op = "<>" -> (IF eq = "yes" THEN "no" ELSE IF eq = "no" THEN "yes" ELSE eq)
          [] OTHER     -> IF unordered THEN "no"
                          ELSE IF c = <<NotComparable>> THEN "unknown"
                          ELSE CASE op = "<" -> Tri(c[2] < 0) [] op = "<=" -> Tri(c[2] <= 0)
                                 [] op = ">" -> Tri(c[2] > 0) [] op = ">=" -> Tri(c[2] >= 0)

-----------------------------------------------------------------------------
(* The sort order.                                                         *)

\* The position of a type; a point and a vector share theirs.
TypeRank ==
    [map |-> 0, node |-> 1, rel |-> 2, list |-> 3, path |-> 4, point |-> 5, vector |-> 5, date |-> 8,
     duration |-> 11, string |-> 12, bool |-> 13, int |-> 14, float |-> 14, nan |-> 15, null |-> 16]

\* Mutant: NaN is ranked with the other numbers.
RankWithoutNaN(a) == IF a = NaN THEN TypeRank["float"] ELSE TypeRank[a[1]]

OrderRank(a) == TypeRank[a[1]]

\* A map in the order of its keys: key, value, key, value ...
Entries(f) ==
    LET keys == SetToSortSeq(DOMAIN f, LAMBDA x, y : x < y)
    IN  FlattenSeq([i \in DOMAIN keys |-> <<<<"string", keys[i]>>, f[keys[i]]>>])
Ids(s) == [i \in DOMAIN s |-> Num(s[i])]

\* orderCompare
RECURSIVE OrderCompare(_, _), OrderLists(_, _)
OrderCompare(a, b) ==
    IF OrderRank(a) # OrderRank(b) THEN Sign(OrderRank(a) - OrderRank(b))
    ELSE IF a[1] # b[1] /\ ~(IsNumber(a) /\ IsNumber(b)) THEN Panic
    ELSE CASE a[1] = "map"  -> OrderLists(Entries(a[2]), Entries(b[2]))
           [] a[1] = "list" -> OrderLists(a[2], b[2])
           [] a[1] = "path" -> OrderLists(Ids(a[2]), Ids(b[2]))
           [] a[1] = "bool" -> BoolRank(a[2]) - BoolRank(b[2])
           [] IsNumber(a)   -> (IF a = NaN \/ b = NaN THEN 0 ELSE NumCompare(a, b))
           [] OTHER         -> Sign(a[2] - b[2])
OrderLists(s, t) ==
    IF s = <<>> \/ t = <<>> THEN Sign(Len(s) - Len(t))
    ELSE LET c == OrderCompare(s[1], t[1]) IN IF c = 0 THEN OrderLists(Tail(s), Tail(t)) ELSE c

-----------------------------------------------------------------------------
(* What is the same value to DISTINCT and grouping.                        *)

\* Mutant: a float is written as a float whatever its value.
KeyOfFloatAsIs(h) == <<"f", h>>

\* An integral float is written as the integer.
KeyOfFloat(h) == <<"d", h>>

\* groupKey; the code writes it out, with lengths, as one string.
RECURSIVE GroupKey(_)
GroupKey(a) ==
    CASE a[1] = "nan"   -> <<"dNaN">>
      [] a[1] = "int"   -> <<"d", 2 * a[2]>>
      [] a[1] = "float" -> KeyOfFloat(a[2])
      [] a[1] = "list"  -> <<"l", [i \in DOMAIN a[2] |-> GroupKey(a[2][i])]>>
      [] a[1] = "map"   -> <<"m", [i \in DOMAIN a[2] |-> GroupKey(a[2][i])]>>
      [] OTHER          -> a
=============================================================================
