------------------------------ MODULE Expressions ------------------------------
(***************************************************************************)
(* The two languages of a workflow: expressions in {{ }}, evaluated while  *)
(* they are parsed (engine/expr_eval.go), and conditions, which split      *)
(* their text before they look at it (executor.go). Texts are sequences    *)
(* of tokens. Numbers are integers and divisions exact.                    *)
(***************************************************************************)
EXTENDS Integers, Sequences, FiniteSetsExt, SequencesExt

\* Values carry their type: <<"nil">>, <<"bool", b>>, <<"num", n>>, <<"str", s>>.
Nil == <<"nil">>
Bool(b) == <<"bool", b>>
Num(n) == <<"num", n>>
Str(s) == <<"str", s>>
Map == <<"map">>  \* any object or list
Type(v) == Head(v)

\* The strings a model uses, in byte order, and the number ParseFloat reads in each.
Texts == <<"", "0", "2", "false", "x">>
Parsed(s) == CASE s = "2" -> 2 [] OTHER -> 0
Rank(s) == CHOOSE k \in 1 .. Len(Texts) : Texts[k] = s

ToFloat(v) == CASE Type(v) = "num" -> v[2]
                [] Type(v) = "str" -> Parsed(v[2])
                [] Type(v) = "bool" -> IF v[2] THEN 1 ELSE 0
                [] OTHER -> 0
IsTruthy(v) == CASE Type(v) = "nil" -> FALSE
                 [] Type(v) = "bool" -> v[2]
                 [] Type(v) = "str" -> v[2] \notin {"", "false", "0"}
                 [] Type(v) = "num" -> v[2] # 0
                 [] OTHER -> TRUE

Order(op, a, b) == CASE op = ">" -> a > b [] op = "<" -> a < b
                     [] op = ">=" -> a >= b [] op = "<=" -> a <= b
                     [] op \in {"==", "==="} -> a = b [] OTHER -> a # b
\* Two strings compare as text, everything else as numbers.
CompareValues(a, b, op) ==
  IF Type(a) = "str" /\ Type(b) = "str" THEN Order(op, Rank(a[2]), Rank(b[2]))
  ELSE Order(op, ToFloat(a), ToFloat(b))
\* Without two strings or two numbers, the printed forms are compared.
LooseEqual(a, b) ==
  \/ a = b
  \/ /\ {Type(a), Type(b)} = {"num", "str"}
     /\ \E v, w \in {a, b} : Type(v) = "num" /\ Type(w) = "str" /\ w[2] = ToString(v[2])
  \/ {Type(a), Type(b)} = {"bool", "str"} /\ <<"str", "false">> \in {a, b} /\ Bool(FALSE) \in {a, b}
-----------------------------------------------------------------------------
(* Expressions. *)

\* Tokens: literals and identifiers carry a value or a name, the rest its text.
Op(o) == <<"op", o>>
Lit(v) == <<"lit", v>>
Id(x) == <<"id", x>>
Open == <<"(">>
Close == <<")">>
Comma == <<",">>
EOF == <<"eof">>
Failed == <<"error">>

BinPrecFlat(op) == IF op = "!" THEN 0 ELSE IF op = "||" THEN 1 ELSE 2
BinPrec(op) ==
  CASE op = "||" -> 1 [] op = "&&" -> 2 [] op \in {"==", "!="} -> 3
    [] op \in {">", "<", ">=", "<="} -> 4 [] op = "??" -> 5
    [] op \in {"+", "-"} -> 6 [] op \in {"*", "/"} -> 7 [] OTHER -> 0

\* Both operands have been evaluated: nothing is short-circuited.
ApplyBinOp(op, l, r) ==
  CASE op = "??" -> IF l \in {Nil, Str("")} THEN r ELSE l
    [] op = "||" -> Bool(IsTruthy(l) \/ IsTruthy(r))
    [] op = "&&" -> Bool(IsTruthy(l) /\ IsTruthy(r))
    [] op = "==" -> Bool(LooseEqual(l, r))
    [] op = "!=" -> Bool(~LooseEqual(l, r))
    [] op \in {">", "<", ">=", "<="} -> Bool(CompareValues(l, r, op))
    [] op = "+" /\ "str" \in {Type(l), Type(r)} -> Str("x")  \* some text
    [] op = "+" -> Num(ToFloat(l) + ToFloat(r))
    [] op = "-" -> Num(ToFloat(l) - ToFloat(r))
    [] op = "*" -> Num(ToFloat(l) * ToFloat(r))
    [] op = "/" -> Num(IF ToFloat(r) = 0 THEN 0 ELSE ToFloat(l) \div ToFloat(r))

\* A few of the functions; the others are as easy, or are about characters and dates.
CallExprFunc(name, args) ==
  LET arg(i) == IF i <= Len(args) THEN args[i] ELSE Nil
      present == SelectSeq(args, LAMBDA v : v \notin {Nil, Str("")})
  IN CASE name = "default" -> IF arg(1) \in {Nil, Str("")} THEN arg(2) ELSE arg(1)
       [] name = "coalesce" -> IF present = <<>> THEN Nil ELSE Head(present)
       [] name = "if" -> IF IsTruthy(arg(1)) THEN arg(2) ELSE arg(3)
       [] name = "abs" -> LET f == ToFloat(arg(1)) IN Num(IF f < 0 THEN -f ELSE f)
       [] name = "number" -> Num(ToFloat(arg(1)))
       [] OTHER -> Failed

\* An identifier that is not in the context is nil.
Lookup(x, ctx) == IF x \in DOMAIN ctx THEN ctx[x] ELSE Nil

\* The parser evaluates as it goes: [v: the value or Failed, pos: the next token].
At(v, pos) == [v |-> v, pos |-> pos]
RightPrec(op) == BinPrec(op) + 1

RECURSIVE ParseExpr(_, _, _, _), ParseRest(_, _, _, _, _), ParseUnary(_, _, _), ParseArgs(_, _, _, _)
ParseArgs(toks, pos, args, ctx) ==
  LET a == ParseExpr(toks, pos, 0, ctx)
  IN IF a.v = Failed THEN [args |-> Failed, pos |-> a.pos]
     ELSE IF toks[a.pos] = Comma THEN ParseArgs(toks, a.pos + 1, Append(args, a.v), ctx)
     ELSE [args |-> Append(args, a.v), pos |-> a.pos]

ParsePrimary(toks, pos, ctx) ==
  LET t == toks[pos]
      inner == ParseExpr(toks, pos + 1, 0, ctx)
      call == IF toks[pos + 2] = Close THEN [args |-> <<>>, pos |-> pos + 2]
              ELSE ParseArgs(toks, pos + 2, <<>>, ctx)
  IN CASE Type(t) = "lit" -> At(t[2], pos + 1)
       [] t = Open -> IF inner.v = Failed \/ toks[inner.pos] # Close THEN At(Failed, inner.pos)
                      ELSE At(inner.v, inner.pos + 1)
       [] Type(t) = "id" /\ toks[pos + 1] = Open ->
            IF call.args = Failed \/ toks[call.pos] # Close THEN At(Failed, call.pos)
            ELSE At(CallExprFunc(t[2], call.args), call.pos + 1)
       [] Type(t) = "id" /\ toks[pos + 1] # Open -> At(Lookup(t[2], ctx), pos + 1)
       [] OTHER -> At(Failed, pos)

ParseUnary(toks, pos, ctx) ==
  LET operand == ParseUnary(toks, pos + 1, ctx)
  IN CASE toks[pos] \notin {Op("!"), Op("-")} -> ParsePrimary(toks, pos, ctx)
       [] toks[pos] \in {Op("!"), Op("-")} /\ operand.v = Failed -> operand
       [] toks[pos] = Op("!") -> At(Bool(~IsTruthy(operand.v)), operand.pos)
       [] OTHER -> At(Num(-ToFloat(operand.v)), operand.pos)

\* Precedence climbing: operators of at least minPrec extend what is on the left.
ParseRest(toks, left, pos, minPrec, ctx) ==
  LET t == toks[pos]
      goesOn == Type(t) = "op" /\ BinPrec(t[2]) # 0 /\ BinPrec(t[2]) >= minPrec
      right == ParseExpr(toks, pos + 1, RightPrec(t[2]), ctx)
  IN IF ~goesOn THEN At(left, pos)
     ELSE IF right.v = Failed THEN right
     ELSE ParseRest(toks, ApplyBinOp(t[2], left, right.v), right.pos, minPrec, ctx)

ParseExpr(toks, pos, minPrec, ctx) ==
  LET left == ParseUnary(toks, pos, ctx)
  IN IF left.v = Failed THEN left ELSE ParseRest(toks, left.v, left.pos, minPrec, ctx)

\* A text that has no tokens is looked up as a path, which finds nothing.
Unreadable(toks) == {Op("==="), Op("!==")} \cap Range(toks) # {}
EvalExpression(toks, ctx) ==
  LET p == ParseExpr(Append(toks, EOF), 1, 0, ctx)
  IN IF Unreadable(toks) THEN Nil
     ELSE IF p.v = Failed \/ p.pos # Len(toks) + 1 THEN Failed ELSE p.v
-----------------------------------------------------------------------------
(* Conditions. *)

\* The parts between the occurrences of an operator outside parentheses.
Depth(toks, k) == Quantify(1 .. k, LAMBDA i : toks[i] = Open) - Quantify(1 .. k, LAMBDA i : toks[i] = Close)
SplitEverywhere(toks, op) ==
  LET cuts == {k \in 1 .. Len(toks) : toks[k] = Op(op)}
      ends == SetToSortSeq(cuts \cup {0, Len(toks) + 1}, <)
  IN [i \in 1 .. Len(ends) - 1 |-> SubSeq(toks, ends[i] + 1, ends[i + 1] - 1)]
SplitOutsideParens(toks, op) ==
  LET cuts == {k \in 1 .. Len(toks) : toks[k] = Op(op) /\ Depth(toks, k) = 0}
      ends == SetToSortSeq(cuts \cup {0, Len(toks) + 1}, <)
  IN [i \in 1 .. Len(ends) - 1 |-> SubSeq(toks, ends[i] + 1, ends[i + 1] - 1)]

\* One side of a comparison: a literal, with its sign; a text with a parenthesis, if the
\* evaluator can read it; otherwise the name of something in the context. A text that
\* starts and ends with a quote is one literal, whatever is between, and no text at all
\* is the path to the whole context.
ResolveValueForCondition(toks, ctx) ==
  LET value == EvalExpression(toks, ctx)
      named == IF Len(toks) = 1 /\ Type(toks[1]) = "id" THEN Lookup(toks[1][2], ctx) ELSE Nil
      quoted(t) == Type(t) = "lit" /\ Type(t[2]) = "str"
  IN CASE toks = <<>> -> Map
       [] Len(toks) = 1 /\ Type(toks[1]) = "lit" -> toks[1][2]
       [] Len(toks) = 2 /\ toks[1] = Op("-") /\ Type(toks[2]) = "lit" /\ Type(toks[2][2]) = "num" ->
            Num(-toks[2][2][2])
       [] Len(toks) > 1 /\ quoted(toks[1]) /\ quoted(Last(toks)) -> Str("x")
       [] OTHER -> IF Open \in Range(toks) /\ value # Failed THEN value ELSE named

\* The first operator of this list that occurs anywhere, parentheses or not.
Comparisons == <<"===", "!==", ">=", "<=", "!=", "==", ">", "<">>
RECURSIVE EvaluateCondition(_, _)
EvaluateCondition(toks, ctx) ==
  LET ors == SplitOutsideParens(toks, "||")
      ands == SplitOutsideParens(toks, "&&")
      used == {k \in 1 .. Len(Comparisons) : Op(Comparisons[k]) \in Range(toks)}
      op == Comparisons[Min(used)]
      at == Min({k \in 1 .. Len(toks) : toks[k] = Op(op)})
  IN CASE Len(ors) > 1 -> \E p \in Range(ors) : EvaluateCondition(p, ctx)
       [] Len(ors) = 1 /\ Len(ands) > 1 -> \A p \in Range(ands) : EvaluateCondition(p, ctx)
       [] Len(ors) = 1 /\ Len(ands) = 1 /\ used # {} ->
            CompareValues(ResolveValueForCondition(SubSeq(toks, 1, at - 1), ctx),
                          ResolveValueForCondition(SubSeq(toks, at + 1, Len(toks)), ctx), op)
       [] OTHER -> IsTruthy(ResolveValueForCondition(toks, ctx))

\* executeCondition: the first case that holds, else the default, else next.
ExecuteCondition(cases, default, next, ctx) ==
  LET holds == {k \in 1 .. Len(cases) : EvaluateCondition(cases[k].when, ctx)}
  IN IF holds # {} THEN cases[Min(holds)].next ELSE IF default = "" THEN next ELSE default
-----------------------------------------------------------------------------
(* Properties. *)

\* What an author means: a tree, written with the parentheses it needs where `*` binds
\* tighter than `+`, that than `??`, then comparisons, equality, `&&` and `||`, and
\* operators of one level group to the left.
Binary(op, l, r) == <<"binary", op, l, r>>
Unary(op, e) == <<"unary", op, e>>
Call(f, args) == <<"call", f, args>>
Level(op) == Min({k \in 1 .. 7 : op \in <<{"||"}, {"&&"}, {"==", "!="}, {">", "<", ">=", "<="}, {"??"},
                                         {"+", "-"}, {"*", "/"}>>[k]})
RECURSIVE Written(_), Meaning(_, _)
Bracketed(e, needed) == IF needed THEN <<Open>> \o Written(e) \o <<Close>> ELSE Written(e)
Written(e) ==
  CASE Type(e) = "binary" ->
         Bracketed(e[3], Type(e[3]) = "binary" /\ Level(e[3][2]) < Level(e[2]))
         \o <<Op(e[2])>> \o Bracketed(e[4], Type(e[4]) = "binary" /\ Level(e[4][2]) <= Level(e[2]))
    [] Type(e) = "unary" -> <<Op(e[2])>> \o Bracketed(e[3], Type(e[3]) = "binary")
    [] Type(e) = "call" ->
         <<Id(e[2]), Open>> \o FlattenSeq([i \in DOMAIN e[3] |-> (IF i = 1 THEN <<>> ELSE <<Comma>>)
                                                              \o Written(e[3][i])]) \o <<Close>>
    [] OTHER -> <<e>>
Meaning(e, ctx) ==
  CASE Type(e) = "binary" -> ApplyBinOp(e[2], Meaning(e[3], ctx), Meaning(e[4], ctx))
    [] Type(e) = "unary" -> IF e[2] = "!" THEN Bool(~IsTruthy(Meaning(e[3], ctx)))
                            ELSE Num(-ToFloat(Meaning(e[3], ctx)))
    [] Type(e) = "call" -> CallExprFunc(e[2], [i \in DOMAIN e[3] |-> Meaning(e[3][i], ctx)])
    [] Type(e) = "lit" -> e[2]
    [] OTHER -> Lookup(e[2], ctx)

\* Where a condition and an expression say the same: plain operands, compared if of one
\* type, joined by `&&` and `||`, with no comparison in parentheses.
Plain(e) == Type(e) \in {"lit", "id"}
Compared(e, ctx) ==
  /\ Type(e) = "binary" /\ Plain(e[3]) /\ Plain(e[4])
  /\ e[2] \in {"==", "!=", ">", "<", ">=", "<="}
  /\ Type(Meaning(e[3], ctx)) = Type(Meaning(e[4], ctx))
RECURSIVE Simple(_, _)
Simple(e, ctx) ==
  LET join(f) == Type(f) = "binary" /\ f[2] \in {"&&", "||"}
      bracketed == join(e) /\ Open \in Range(Written(e))
  IN \/ Plain(e) \/ Compared(e, ctx)
     \/ join(e) /\ \A f \in {e[3], e[4]} :
          Plain(f) \/ (IF bracketed THEN join(f) /\ Plain(f[3]) /\ Plain(f[4]) ELSE Simple(f, ctx))
=============================================================================
