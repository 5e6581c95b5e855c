------------------------------- MODULE Evaluation -------------------------------
(***************************************************************************)
(* The recursive half of the expression engine (src/lazy.rs): compile, and   *)
(* eval of a node against a record.  They are what the constants Compile     *)
(* and Eval of module Expressions stand for.                                *)
(***************************************************************************)
EXTENDS Expressions

\* eat: the token is consumed if it is there, and not missed if it is not.
Eat(ts, p, t) == IF Tok(ts, p) = t THEN p + 1 ELSE p
EatWord(ts, p) == IF Tok(ts, p)[1] = "id" THEN p + 1 ELSE p

\* p_atom: a path, a literal, or a null literal where neither begins.
Atom(ts, p) ==
  CASE Tok(ts, p)[1] = "$" ->
         LET segs == Segments(ts, p + 1)
         IN <<IF ts[p][2] = "task" THEN <<"task", segs>>
              ELSE IF segs = <<>> THEN <<"root">> ELSE <<"path", segs>>, PathEnd(ts, p + 1)>>
    [] Tok(ts, p)[1] = "lit" -> <<ts[p], p + 1>>
    [] OTHER -> <<Lit(Null), p>>

\* p_expr: the node that begins at p, and where it ends.
RECURSIVE Expr(_, _), Arguments(_, _)
Expr(ts, p) ==
  CASE Tok(ts, p) = <<"call", "cast">> ->
         LET inner == Expr(ts, p + 1)
             ty == EatWord(ts, inner[2])
         IN <<<<"cast", inner[1], CastType(Tok(ts, ty))>>, Eat(ts, EatWord(ts, ty), <<")">>)>>
    [] Tok(ts, p) = <<"call", "to_json_string">> ->
         LET inner == Expr(ts, p + 1) IN <<<<"tojson", inner[1]>>, Eat(ts, inner[2], <<")">>)>>
    [] Tok(ts, p) = <<"call", "coalesce">> ->
         LET args == Arguments(ts, p + 1) IN <<<<"coalesce", args[1]>>, Eat(ts, args[2], <<")">>)>>
    [] Tok(ts, p) = <<"call", "cartesian_product">> ->
         LET l == Expr(ts, p + 1)
             r == Expr(ts, Eat(ts, l[2], <<",">>))
             c == IF Tok(ts, r[2]) = <<",">> THEN Expr(ts, r[2] + 1) ELSE <<Lit(Null), r[2]>>
         IN <<<<"cart", l[1], r[1], c[1]>>, Eat(ts, c[2], <<")">>)>>
    [] OTHER -> Atom(ts, p)
Arguments(ts, p) ==
  LET first == Expr(ts, p)
      rest == Arguments(ts, first[2] + 1)
  IN IF Tok(ts, first[2]) = <<",">> THEN <<<<first[1]>> \o rest[1], rest[2]>>
                                    ELSE <<<<first[1]>>, first[2]>>

InClause(ts, left) ==
  IF Tok(ts, left[2]) = <<"id", "in">> THEN <<"in", left[1], Expr(ts, left[2] + 1)[1]>> ELSE left[1]

\* Mutant of Compiled: the clause after IN is not read.
CompiledNoIn(ts) == Expr(ts, 1)[1]

\* compile, p_in_clause: one IN at the top; what follows is not looked at.
Compiled(ts) == InClause(ts, Expr(ts, 1))

-----------------------------------------------------------------------------
(* Evaluation.                                                             *)

Resolve(n, ctx) ==
  CASE n[1] = "root" -> <<ctx.base>>
    [] n[1] = "task" -> Walk(ctx.task, n[2], RecordCtx(ctx.base, ctx.task))
    [] n[1] = "path" -> Walk(<<ctx.base>>, n[2], ctx)

Lower(s) == IF s \in {"HKD", "USD"} THEN [HKD |-> "hkd", USD |-> "usd"][s] ELSE s

\* pair_cond, for the texts it is given here; anything it does not know is true.
PairCond(c, l, r) ==
  CASE c = Lit(Str("l != r")) -> Lower(l) # Lower(r)
    [] c \in {Lit(Str("l = r")), Lit(Str("l == r"))} -> Lower(l) = Lower(r)
    [] c = Lit(Str("l CONTAINS U")) -> ContainsText(l, "U")
    [] OTHER -> TRUE

\* eval_cartesian: the pairs of texts that satisfy the condition, glued.
Pairs(c, ls, rs) ==
  LET Row(l) == FlattenSeq([k \in DOMAIN rs |-> IF PairCond(c, l, rs[k]) THEN <<Str(l \o rs[k])>> ELSE <<>>])
  IN Arr(FlattenSeq([k \in DOMAIN ls |-> Row(ls[k])]))

\* eval_vec: the texts of the values an operand has, the elements of an array one by one.
Texts(found) ==
  FlattenSeq([k \in DOMAIN found |->
    LET scalars == IF IsArr(found[k]) THEN Elements(found[k]) ELSE <<found[k]>>
    IN FlattenSeq([e \in DOMAIN scalars |-> IF scalars[e] = Null THEN <<>> ELSE <<Text(ToLazy(scalars[e]))>>])])

\* json_of: a string is put between quotes as it is.
JsonOf(v) == IF v[1] = "str" THEN JsonText(v) ELSE Text(v)

RECURSIVE Evaluated(_, _), Operands(_, _)
Evaluated(n, ctx) ==
  CASE n[1] = "root" -> Raw(ctx.base)
    [] n[1] \in {"task", "path"} ->
         LET found == Resolve(n, ctx) IN IF found = <<>> THEN Null ELSE ToLazy(found[1])
    [] n[1] = "lit" -> n[2]
    [] n[1] = "coalesce" ->
         FoldLeft(LAMBDA v, m : IF v = Null THEN Evaluated(m, ctx) ELSE v, Null, n[2])
    [] n[1] = "cast" -> ToCell(Evaluated(n[2], ctx), n[3])
    [] n[1] = "tojson" -> Str(JsonOf(Evaluated(n[2], ctx)))
    [] n[1] = "cart" ->
         Str(JsonText(Pairs(n[4], Operands(n[2], ctx), Operands(n[3], ctx))))
    [] n[1] = "in" -> Bool(Listed(Evaluated(n[2], ctx), Operands(n[3], ctx)))
Operands(n, ctx) ==
  Texts(IF n[1] \in {"root", "task", "path"} THEN Resolve(n, ctx) ELSE <<Evaluated(n, ctx)>>)

-----------------------------------------------------------------------------
(* What a configuration writes for a node.                                 *)

TypeWord == [f64 |-> "double", i64 |-> "long", str |-> "string"]

RECURSIVE Written(_)
Written(n) ==
  LET Call(f, args) ==
        <<<<"call", f>>>> \o FlattenSeq([k \in DOMAIN args |-> IF k = 1 THEN Written(args[k])
                                                              ELSE <<<<",">>>> \o Written(args[k])])
      Segs == [k \in DOMAIN n[2] |-> <<"seg", n[2][k]>>]
  IN CASE n[1] = "root" -> <<<<"$", "">>>>
       [] n[1] = "task" -> <<<<"$", "task">>>> \o Segs
       [] n[1] = "path" -> <<<<"$", "">>>> \o Segs
       [] n[1] = "lit" -> <<n>>
       [] n[1] = "coalesce" -> Call("coalesce", n[2]) \o <<<<")">>>>
       [] n[1] = "cart" -> Call("cartesian_product", <<n[2], n[3], n[4]>>) \o <<<<")">>>>
       [] n[1] = "tojson" -> Call("to_json_string", <<n[2]>>) \o <<<<")">>>>
       [] n[1] = "cast" -> Call("cast", <<n[2]>>) \o <<<<"id", "as">>, <<"id", TypeWord[n[3]]>>, <<")">>>>
       [] n[1] = "in" -> Written(n[2]) \o <<<<"id", "in">>>> \o Written(n[3])
=============================================================================
