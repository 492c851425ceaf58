----------------------------- MODULE Expressions -----------------------------
(***************************************************************************)
(* Expression evaluation (cypher/interp/eval.go): three-valued logic with  *)
(* its short cuts, comparison chains, IN, CASE, the list operators and     *)
(* integer arithmetic of fixed width.                                      *)
(*                                                                         *)
(* An expression is a tuple: its kind and its parts.  Literals carry their *)
(* value and variables their name; a row gives the variables their values. *)
(* An evaluation that fails, whatever the message, is Error.               *)
(***************************************************************************)
EXTENDS Values

CONSTANT Bits       \* the width of an integer (64 in the code)

Error == <<"error", 0>>
MaxInt == 2^(Bits - 1) - 1
MinInt == -(2^(Bits - 1))

\* Two's complement, and the division that truncates towards zero.
Wrap(n) == ((n - MinInt) % 2^Bits) + MinInt
Magnitude(n) == IF n < 0 THEN -n ELSE n
Quotient(x, y) == Sign(x) * Sign(y) * (Magnitude(x) \div Magnitude(y))

-----------------------------------------------------------------------------
(* Arithmetic on two integers.                                             *)

\* Mutant: the smallest integer divided by -1 is not looked for.
MulOverflowsByDivision(x, y) == Wrap(Quotient(Wrap(x * y), y)) # x

\* arith multiplies, divides back and compares.
MulOverflows(x, y) ==
    \/ Wrap(Quotient(Wrap(x * y), y)) # x
    \/ x = MinInt /\ y = -1
    \/ y = MinInt /\ x = -1

AddOverflows(x, y) ==
    \/ x > 0 /\ y > 0 /\ Wrap(x + y) < 0
    \/ x < 0 /\ y < 0 /\ Wrap(x + y) >= 0
SubOverflows(x, y) ==
    \/ x >= 0 /\ y < 0 /\ Wrap(x - y) < 0
    \/ x < 0 /\ y > 0 /\ Wrap(x - y) >= 0

IntArith(op, x, y) ==
    CASE op = "+" -> IF AddOverflows(x, y) THEN Error ELSE Num(Wrap(x + y))
      [] op = "-" -> IF SubOverflows(x, y) THEN Error ELSE Num(Wrap(x - y))
      [] op = "*" -> IF x = 0 \/ y = 0 THEN Num(0)
                     ELSE IF MulOverflows(x, y) THEN Error ELSE Num(Wrap(x * y))
      [] op = "/" -> IF y = 0 \/ (x = MinInt /\ y = -1) THEN Error ELSE Num(Quotient(x, y))
      [] op = "%" -> IF y = 0 THEN Error ELSE IF y = -1 THEN Num(0) ELSE Num(x - y * Quotient(x, y))

\* add, arith; a list takes the other operand of + as an element.
Arith(op, a, b) ==
    IF a = Null \/ b = Null THEN Null
    ELSE IF a[1] = "int" /\ b[1] = "int" THEN IntArith(op, a[2], b[2])
    ELSE IF op = "+" /\ a[1] = "list" THEN List(a[2] \o (IF b[1] = "list" THEN b[2] ELSE <<b>>))
    ELSE IF op = "+" /\ b[1] = "list" THEN List(<<a>> \o b[2])
    ELSE Error

\* sumValues over integers: the running sum may not overflow.
RECURSIVE SumValues(_, _)
SumValues(vals, sum) ==
    IF vals = <<>> THEN Num(sum)
    ELSE IF vals[1][1] # "int" \/ AddOverflows(sum, vals[1][2]) THEN Error
    ELSE SumValues(Tail(vals), Wrap(sum + vals[1][2]))

-----------------------------------------------------------------------------
(* Logic.                                                                  *)

TriOf(v) == CASE v = Bool(TRUE) -> "yes" [] v = Bool(FALSE) -> "no" [] v = Null -> "unknown" [] OTHER -> "error"
OfTri(t) == CASE t = "yes" -> Bool(TRUE) [] t = "no" -> Bool(FALSE) [] t = "unknown" -> Null [] OTHER -> Error

\* logic: an operand that decides the result settles it, before the other is looked at.
Logic(op, l, r) ==
    LET decides == IF op = "and" THEN "no" ELSE "yes"
    IN  OfTri(IF l \in {"error", decides} THEN l
              ELSE IF r \in {"error", decides} THEN r
              ELSE IF "unknown" \in {l, r} THEN "unknown" ELSE r)

Xor(l, r) ==
    OfTri(IF "error" \in {l, r} THEN "error" ELSE IF "unknown" \in {l, r} THEN "unknown" ELSE Tri(l # r))

\* unary
Unary(op, v) ==
    CASE op = "not" -> OfTri(CASE TriOf(v) = "yes" -> "no" [] TriOf(v) = "no" -> "yes" [] OTHER -> TriOf(v))
      [] v = Null   -> Null
      [] op = "pos" -> IF IsNumber(v) THEN v ELSE Error
      [] op = "neg" -> IF v[1] \in {"float", "nan"} THEN <<v[1], -v[2]>>
                       ELSE IF v[1] # "int" \/ v[2] = MinInt THEN Error ELSE Num(-v[2])

\* in
IsIn(a, b) ==
    IF b = Null THEN Null
    ELSE IF b[1] # "list" THEN Error
    ELSE LET eqs == {Equals(a, b[2][i]) : i \in DOMAIN b[2]}
         IN  OfTri(IF "yes" \in eqs THEN "yes" ELSE IF "unknown" \in eqs THEN "unknown" ELSE "no")

\* comparison: every operator of the chain is looked at until one is false.
Chain(ops, vals) == OfTri(AllYes({CompareOp(ops[i], vals[i], vals[i + 1]) : i \in DOMAIN ops}))

\* Mutant: one true element is enough, whatever the unknown ones.
SingleIgnoringNull(trues, falses, nulls) == trues = 1

SingleHolds(trues, falses, nulls) == trues = 1 /\ nulls = 0

\* quantifier, given how many elements satisfy the predicate, do not, or might
Quantified(kind, trues, falses, nulls) ==
    CASE kind = "all"    -> IF falses > 0 THEN "no" ELSE IF nulls > 0 THEN "unknown" ELSE "yes"
      [] kind = "any"    -> IF trues > 0 THEN "yes" ELSE IF nulls > 0 THEN "unknown" ELSE "no"
      [] kind = "none"   -> IF trues > 0 THEN "no" ELSE IF nulls > 0 THEN "unknown" ELSE "yes"
      [] kind = "single" -> IF trues > 1 THEN "no" ELSE IF SingleHolds(trues, falses, nulls) THEN "yes"
                            ELSE IF nulls > 0 THEN "unknown" ELSE "no"

-----------------------------------------------------------------------------
(* Lists.                                                                  *)

At(list, i) ==
    LET j == IF i < 0 THEN i + Len(list) ELSE i
    IN  IF j < 0 \/ j >= Len(list) THEN Null ELSE list[j + 1]

\* subscript
Subscript(a, i) ==
    IF a = Null THEN Null
    ELSE IF a[1] # "list" THEN Error
    ELSE IF i = Null THEN Null
    ELSE IF i[1] # "int" THEN Error ELSE At(a[2], i[2])

Clamp(v, lo, hi) == IF v < lo THEN lo ELSE IF v > hi THEN hi ELSE v

\* slice, with both bounds given as integers
SliceOf(list, from, to) ==
    LET n  == Len(list)
        lo == Clamp(IF from < 0 THEN from + n ELSE from, 0, n)
        hi == Clamp(IF to < 0 THEN to + n ELSE to, 0, n)
    IN  IF lo >= hi THEN <<>> ELSE SubSeq(list, lo + 1, hi)
Slice(a, from, to) ==
    IF Null \in {a, from, to} THEN Null
    ELSE IF a[1] # "list" \/ from[1] # "int" \/ to[1] # "int" THEN Error
    ELSE List(SliceOf(a[2], from[2], to[2]))

\* listComp, given what WHERE and the projection say of each element
ListComp(keeps, outs) ==
    LET kept == SelectSeq([j \in DOMAIN keeps |-> j], LAMBDA j : keeps[j] = Bool(TRUE))
        vs   == [j \in DOMAIN kept |-> outs[kept[j]]]
    IN  IF Error \in Range(keeps) \cup Range(vs) THEN Error ELSE List(vs)

\* || takes two lists, and adds no element.
Concat(a, b) ==
    IF Null \in {a, b} THEN Null
    ELSE IF a[1] = "list" /\ b[1] = "list" THEN List(a[2] \o b[2]) ELSE Error

\* binary, of two operands that did not fail
Binary(op, a, b) ==
    CASE op = "xor" -> Xor(TriOf(a), TriOf(b))
      [] op = "in"  -> IsIn(a, b)
      [] op = "||"  -> Concat(a, b)
      [] OTHER      -> Arith(op, a, b)

-----------------------------------------------------------------------------
(* eval.                                                                   *)

With(row, var, v) == (var :> v) @@ row

RECURSIVE Eval(_, _), EvalCase(_, _, _), Fold(_, _, _, _)
Eval(e, row) ==
    LET sub(i) == Eval(e[i], row)
        \* the elements of the list a comprehension or quantifier runs over
        list == sub(3)
        each(i) == [j \in DOMAIN list[2] |-> Eval(e[i], With(row, e[2], list[2][j]))]
        count(vs, t) == Cardinality({j \in DOMAIN vs : TriOf(vs[j]) = t})
    IN  CASE e[1] = "lit" -> e[2]
          [] e[1] = "var" -> IF e[2] \in DOMAIN row THEN row[e[2]] ELSE Error
          [] e[1] = "list" ->
                LET vs == [i \in DOMAIN e[2] |-> Eval(e[2][i], row)]
                IN  IF Error \in Range(vs) THEN Error ELSE List(vs)
          [] e[1] = "isnull" -> IF sub(2) = Error THEN Error ELSE Bool(sub(2) = Null)
          [] e[1] \in {"not", "neg", "pos"} -> Unary(e[1], sub(2))
          [] e[1] \in {"and", "or"} -> Logic(e[1], TriOf(sub(2)), TriOf(sub(3)))
          [] e[1] = "chain" ->
                LET vs == [i \in DOMAIN e[3] |-> Eval(e[3][i], row)]
                IN  IF Error \in Range(vs) THEN Error ELSE Chain(e[2], vs)
          [] e[1] \in {"xor", "in", "||", "+", "-", "*", "/", "%"} ->
                IF Error \in {sub(2), sub(3)} THEN Error ELSE Binary(e[1], sub(2), sub(3))
          [] e[1] = "at" -> IF Error \in {sub(2), sub(3)} THEN Error ELSE Subscript(sub(2), sub(3))
          [] e[1] = "slice" -> IF Error \in {sub(2), sub(3), sub(4)} THEN Error ELSE Slice(sub(2), sub(3), sub(4))
          [] e[1] = "case" -> IF e[2] = <<>> THEN EvalCase(e, row, 1)
                              ELSE IF Eval(e[2], row) = Error THEN Error ELSE EvalCase(e, row, 1)
          [] e[1] \in {"all", "any", "none", "single"} ->
                LET vs == each(4)
                IN  IF list = Null THEN Null
                    ELSE IF list[1] # "list" THEN Error
                    ELSE IF \E j \in DOMAIN vs : TriOf(vs[j]) = "error" THEN Error
                    ELSE OfTri(Quantified(e[1], count(vs, "yes"), count(vs, "no"), count(vs, "unknown")))
          [] e[1] = "comp" ->
                IF list = Null THEN Null
                ELSE IF list[1] # "list" THEN Error
                ELSE ListComp(each(4), each(5))
          [] e[1] = "reduce" ->
                IF Eval(e[4], row) = Error THEN Error
                ELSE IF list = Null THEN Null
                ELSE IF list[1] # "list" THEN Error ELSE Fold(e, row, list[2], Eval(e[4], row))

\* caseExpr: <<"case", subject or <<>>, <<<<cond, then>>, ...>>, else>>
EvalCase(e, row, i) ==
    IF i > Len(e[3]) THEN Eval(e[4], row)
    ELSE LET cond == Eval(e[3][i][1], row)
             matched == IF e[2] = <<>> THEN cond = Bool(TRUE) ELSE Equals(Eval(e[2], row), cond) = "yes"
         IN  IF cond = Error THEN Error
             ELSE IF matched THEN Eval(e[3][i][2], row) ELSE EvalCase(e, row, i + 1)

\* reduce: <<"reduce", var, list, init, acc, expr>>
Fold(e, row, items, acc) ==
    IF items = <<>> \/ acc = Error THEN acc
    ELSE Fold(e, row, Tail(items), Eval(e[6], With(With(row, e[5], acc), e[2], items[1])))
=============================================================================
