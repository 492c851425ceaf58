----------------------------- MODULE Precedence -----------------------------
(***************************************************************************)
(* The expression grammar (cypher/syntax/expr.go): a recursive descent     *)
(* with one operator per level.                                            *)
(*                                                                         *)
(* Tokens are strings ("int" is a number literal and "a" a name).  Parsing *)
(* a level off the front of a token sequence gives a tree and the tokens   *)
(* that are left, or Fail.  A tree is a tuple of its operator and parts;   *)
(* <<"minusInt">> is the literal with its sign folded in.                  *)
(***************************************************************************)
EXTENDS Integers, Sequences, FiniteSets

Fail == [tree |-> <<"fail">>, rest |-> <<>>]
Got(tree, rest) == [tree |-> tree, rest |-> rest]
Failed(r) == r.tree = <<"fail">>
AtToken(ts, set) == ts # <<>> /\ Head(ts) \in set

AddOps == {"+", "-"}
MulOps == {"*", "/"}
CmpOps == {"=", "<"}
PredicateOps == {"in", "contains"}
PredicateSuffix == [isnull |-> <<"is", "null">>, isnotnull |-> <<"is", "not", "null">>,
                    istyped |-> <<"is", "::", "type">>, isnottyped |-> <<"is", "not", "::", "type">>]

RECURSIVE ParseOr(_), ParseLevel(_, _), BinaryTail(_, _), ParseNot(_), ParseComparison(_), ChainTail(_, _, _),
          ParsePredicates(_), PredicateTail(_), ParseUnary(_), ParsePostfix(_), PostfixTail(_), ParseSubscript(_, _), ParseAtom(_)

\* The binary levels that associate to the left, lowest first.
LeftOps == <<{"or"}, {"xor"}, {"and"}, AddOps, MulOps, {"^"}>>

\* Mutant: the right operand is read at the same level.
RightOperandSame(level, ts) == ParseLevel(level, ts)

\* What an operator of a level has on its right: the next level.
RightOperand(level, ts) ==
    CASE level = 3 -> ParseNot(ts)
      [] level = 6 -> ParseUnary(ts)
      [] OTHER     -> ParseLevel(level + 1, ts)

ParseLevel(level, ts) ==
    LET first == CASE level = 3 -> ParseNot(ts) [] level = 6 -> ParseUnary(ts) [] OTHER -> ParseLevel(level + 1, ts)
    IN  BinaryTail(level, first)

\* l op r op r ...
BinaryTail(level, l) ==
    IF Failed(l) \/ ~AtToken(l.rest, LeftOps[level]) THEN l
    ELSE LET r == RightOperand(level, Tail(l.rest))
         IN  IF Failed(r) THEN Fail ELSE BinaryTail(level, Got(<<Head(l.rest), l.tree, r.tree>>, r.rest))

\* parseExpr, parseOr (parseXor and parseAnd are levels 2 and 3)
ParseOr(ts) == ParseLevel(1, ts)

ParseNot(ts) ==
    IF AtToken(ts, {"not"})
    THEN LET x == ParseNot(Tail(ts)) IN IF Failed(x) THEN Fail ELSE Got(<<"not", x.tree>>, x.rest)
    ELSE ParseComparison(ts)

\* a < b = c is one chain.
ParseComparison(ts) ==
    LET first == ParsePredicates(ts)
    IN  IF Failed(first) \/ ~AtToken(first.rest, CmpOps) THEN first
        ELSE ChainTail(<<>>, <<first.tree>>, first.rest)
ChainTail(ops, operands, ts) ==
    IF ~AtToken(ts, CmpOps) THEN Got(<<"chain", ops, operands>>, ts)
    ELSE LET x == ParsePredicates(Tail(ts))
         IN  IF Failed(x) THEN Fail ELSE ChainTail(Append(ops, Head(ts)), Append(operands, x.tree), x.rest)

ParsePredicates(ts) == PredicateTail(ParseLevel(4, ts))
PredicateTail(l) ==
    IF Failed(l) THEN l
    ELSE IF AtToken(l.rest, PredicateOps)
    THEN LET r == ParseLevel(4, Tail(l.rest))
         IN  IF Failed(r) THEN Fail ELSE PredicateTail(Got(<<Head(l.rest), l.tree, r.tree>>, r.rest))
    ELSE IF AtToken(l.rest, {"is"})
    THEN LET negated == AtToken(Tail(l.rest), {"not"})
             after   == IF negated THEN Tail(Tail(l.rest)) ELSE Tail(l.rest)
         IN  IF ~AtToken(after, {"null", "::"}) THEN Fail
             ELSE IF Head(after) = "null"
             THEN PredicateTail(Got(<<IF negated THEN "isnotnull" ELSE "isnull", l.tree>>, Tail(after)))
             ELSE IF AtToken(Tail(after), {"type"})
             THEN PredicateTail(Got(<<IF negated THEN "isnottyped" ELSE "istyped", l.tree>>, Tail(Tail(after))))
             ELSE Fail
    ELSE l

\* A minus directly before a number is folded into it.
ParseUnary(ts) ==
    IF ~AtToken(ts, AddOps) THEN ParsePostfix(ts)
    ELSE IF Head(ts) = "-" /\ AtToken(Tail(ts), {"int"}) THEN Got(<<"minusInt">>, Tail(Tail(ts)))
    ELSE LET x == ParseUnary(Tail(ts))
         IN  IF Failed(x) THEN Fail ELSE Got(<<IF Head(ts) = "-" THEN "neg" ELSE "pos", x.tree>>, x.rest)

ParsePostfix(ts) == PostfixTail(ParseAtom(ts))
PostfixTail(x) ==
    IF Failed(x) THEN x
    ELSE IF AtToken(x.rest, {"."})
    THEN IF AtToken(Tail(x.rest), {"key"}) THEN PostfixTail(Got(<<"prop", x.tree>>, Tail(Tail(x.rest)))) ELSE Fail
    ELSE IF AtToken(x.rest, {":"})
    THEN IF AtToken(Tail(x.rest), {"label"}) THEN PostfixTail(Got(<<"labelled", x.tree>>, Tail(Tail(x.rest)))) ELSE Fail
    ELSE IF AtToken(x.rest, {"["}) THEN PostfixTail(ParseSubscript(x.tree, Tail(x.rest)))
    ELSE x

\* [i], [i..j], [..j], [i..] or [..], after the bracket
ParseSubscript(x, ts) ==
    LET from == IF AtToken(ts, {".."}) THEN Got(<<"none">>, ts) ELSE ParseOr(ts)
        to   == IF AtToken(Tail(from.rest), {"]"}) THEN Got(<<"none">>, Tail(from.rest)) ELSE ParseOr(Tail(from.rest))
    IN  IF AtToken(from.rest, {"]"}) THEN Got(<<"at", x, from.tree>>, Tail(from.rest))
        ELSE IF ~AtToken(from.rest, {".."}) \/ ~AtToken(to.rest, {"]"}) THEN Fail
        ELSE Got(<<"slice", x, from.tree, to.tree>>, Tail(to.rest))

ParseAtom(ts) ==
    IF AtToken(ts, {"int", "a", "null"}) THEN Got(<<Head(ts)>>, Tail(ts))
    ELSE IF AtToken(ts, {"("})
    THEN LET x == ParseOr(Tail(ts))
         IN  IF Failed(x) \/ ~AtToken(x.rest, {")"}) THEN Fail ELSE Got(x.tree, Tail(x.rest))
    ELSE Fail

\* The whole of ts is one expression.
ParseAll(ts) == LET r == ParseOr(ts) IN IF r.rest = <<>> THEN r.tree ELSE <<"fail">>

-----------------------------------------------------------------------------
(* Writing a tree with no parentheses but those its place needs, from the  *)
(* table at the head of expr.go.                                           *)

LevelOf(t) ==
    CASE t[1] = "or" -> 1 [] t[1] = "xor" -> 2 [] t[1] = "and" -> 3 [] t[1] = "not" -> 4
      [] t[1] = "chain" -> 5 [] t[1] \in PredicateOps \cup DOMAIN PredicateSuffix -> 6 [] t[1] \in AddOps -> 7 [] t[1] \in MulOps -> 8
      [] t[1] = "^" -> 9 [] t[1] \in {"neg", "pos", "minusInt"} -> 10 [] t[1] \in {"prop", "labelled", "at", "slice"} -> 11
      [] OTHER -> 12

RECURSIVE Written(_), WrittenAt(_, _), ChainWritten(_, _, _)
WrittenAt(t, level) == IF LevelOf(t) >= level THEN Written(t) ELSE <<"(">> \o Written(t) \o <<")">>
ChainWritten(ops, operands, i) ==
    IF i > Len(operands) THEN <<>>
    ELSE (IF i = 1 THEN <<>> ELSE <<ops[i - 1]>>) \o WrittenAt(operands[i], 6) \o ChainWritten(ops, operands, i + 1)
Written(t) ==
    CASE t[1] \in {"a", "int", "null"} -> <<t[1]>>
      [] t[1] = "minusInt" -> <<"-", "int">>
      [] t[1] = "not"      -> <<"not">> \o WrittenAt(t[2], 4)
      [] t[1] = "neg"      -> <<"-">> \o (IF Head(Written(t[2])) = "int" THEN WrittenAt(t[2], 13) ELSE WrittenAt(t[2], 10))
      [] t[1] = "pos"      -> <<"+">> \o WrittenAt(t[2], 10)
      [] t[1] \in DOMAIN PredicateSuffix -> WrittenAt(t[2], 6) \o PredicateSuffix[t[1]]
      [] t[1] = "prop"     -> WrittenAt(t[2], 11) \o <<".", "key">>
      [] t[1] = "labelled" -> WrittenAt(t[2], 11) \o <<":", "label">>
      [] t[1] = "none"     -> <<>>
      [] t[1] = "at"       -> WrittenAt(t[2], 11) \o <<"[">> \o Written(t[3]) \o <<"]">>
      [] t[1] = "slice"    -> WrittenAt(t[2], 11) \o <<"[">> \o Written(t[3]) \o <<"..">> \o Written(t[4]) \o <<"]">>
      [] t[1] = "chain"    -> ChainWritten(t[2], t[3], 1)
      [] OTHER             -> WrittenAt(t[2], LevelOf(t)) \o <<t[1]>> \o WrittenAt(t[3], LevelOf(t) + 1)
=============================================================================
