------------------------------ MODULE Expressions ------------------------------
(***************************************************************************)
(* The expression engine (src/lazy.rs): the kind of an expression, the nodes *)
(* a path leads to, and the conditions of unwind rules.  The parser that     *)
(* compiles a field expression or a filter to a node, and the evaluation of  *)
(* a node against a record, are recursive: they are constants here, and      *)
(* module Evaluation says what they are.                                    *)
(*                                                                         *)
(* An expression is a sequence of tokens:                                   *)
(*   <<"call", f>>  a name with its parenthesis      <<")">>   <<",">>      *)
(*   <<"id", s>>    a word: as, in, a type           <<"op", o>>            *)
(*   <<"$", s>>     the root, s the word glued to it <<"lit", v>>           *)
(*   <<"seg", s>>   a path segment: <<"key", k>>, <<"idx", i>> or <<"all">>  *)
(*   <<"col", a, c>>  the text a.c, a column of a joined table              *)
(* A node is a tuple whose first component names its kind.                  *)
(***************************************************************************)
EXTENDS Values

CONSTANTS
  Compile(_),    \* of the tokens of an expression, its node
  Eval(_, _)     \* of a node and a context, a value

End == <<"end">>
Tok(ts, p) == IF p \in DOMAIN ts THEN ts[p] ELSE End

CastType(t) ==
  CASE t \in {<<"id", w>> : w \in {"double", "float", "decimal"}} -> "f64"
    [] t \in {<<"id", w>> : w \in {"integer", "int", "long"}} -> "i64"
    [] OTHER -> "str"

\* The end of the path that begins at p.
PathEnd(ts, p) == Min({q \in p..(Len(ts) + 1) : Tok(ts, q)[1] # "seg"})
Segments(ts, p) == [k \in 1..(PathEnd(ts, p) - p) |-> ts[p + k - 1][2]]

Lit(v) == <<"lit", v>>

\* expr_kind: the type after the first "as", wherever it stands.
ExprKind(ts) ==
  LET as == {p \in DOMAIN ts : ts[p] = <<"id", "as">>}
  IN IF as # {} THEN CastType(Tok(ts, Min(as) + 1))
     ELSE IF \E p \in DOMAIN ts : ts[p] \in {Lit(Bool(TRUE)), Lit(Bool(FALSE))} THEN "bool"
     ELSE "str"

\* joined_projection: the column of alias.col or cast(alias.col as T), if it is one.
JoinedColumn(alias, ts) ==
  LET as == {p \in DOMAIN ts : ts[p] = <<"id", "as">>}
      first == IF Tok(ts, 1) = <<"call", "cast">> THEN 2 ELSE 1
      t == Tok(ts, first)
  IN IF t[1] = "col" /\ t[2] = alias /\ (first = 2 /\ as # {} => Max(as) > first)
     THEN <<t[3]>> ELSE <<>>

-----------------------------------------------------------------------------
(* Evaluation.  The context: the record, the unwound element and its alias  *)
(* (each a sequence of at most one), the task's value.                      *)

Ctx(base, elem, alias, task) == [base |-> base, elem |-> elem, alias |-> alias, task |-> task]
RecordCtx(base, task) == Ctx(base, <<>>, <<>>, task)

\* The nodes one segment leads to from v; overlay is what the alias stands for
\* where the segment is the first of the path and names it.
Follow(v, seg, overlay) ==
  CASE overlay # <<>> -> overlay
    [] seg[1] = "key" -> Get(v, seg[2])
    [] seg[1] = "idx" -> GetIdx(v, seg[2])
    [] seg[1] = "all" -> Elements(v)

Overlay(ctx, segs, k) ==
  IF k = 1 /\ segs[k][1] = "key" /\ ctx.alias = <<segs[k][2]>> THEN ctx.elem ELSE <<>>

\* resolve_single, resolve_task_single, collect_path, collect_task: every node a
\* path leads to, in order; at most one when it has no wildcard.
Walk(start, segs, ctx) ==
  FoldLeftDomain(LAMBDA nodes, k :
                   FlattenSeq([n \in DOMAIN nodes |-> Follow(nodes[n], segs[k], Overlay(ctx, segs, k))]),
                 start, segs)

\* a.contains(b)
ContainsText(a, b) == \E i \in 0..(Len(a) - Len(b)) : SubSeq(a, i + 1, i + Len(b)) = b

\* IN: null is in no list.
Listed(v, texts) == v # Null /\ Contains(texts, Text(v))

\* truthy
Truthy(v) == v[1] # "null" /\ v # Bool(FALSE)

-----------------------------------------------------------------------------
(* Conditions and unwind paths.                                            *)

\* lazy_eq
LazyEq(a, b) ==
  \/ a = b /\ a[1] \in {"str", "i64", "f64", "bool"}
  \/ a[1] = "i64" /\ b[1] = "str" /\ ParseI64(b[2]) = a
  \/ a[1] = "str" /\ b[1] = "i64" /\ ParseI64(a[2]) = b
  \/ a[1] = "f64" /\ b[1] = "str" /\ ParseF64(b[2]) = a
  \/ a[1] = "str" /\ b[1] = "f64" /\ ParseF64(a[2]) = b

Compares(op, a, b) ==
  IF op = "=" THEN LazyEq(a, b) ELSE a[1] = "str" /\ b[1] = "str" /\ ContainsText(a[2], b[2])

\* eval_condition_lazy: the text is cut at the first CONTAINS, else at the first
\* "=", and what an operand does not read, as the "!" of "!=", is dropped.
EvalCondition(ts, ctx) ==
  LET At(o) == {p \in DOMAIN ts : ts[p] = <<"op", o>>}
      op == IF At("contains") # {} THEN "contains" ELSE "="
      Side(part) == Eval(Compile(part), ctx)
  IN IF At(op) = {} THEN Truthy(Side(ts))
     ELSE Compares(op, Side(SubSeq(ts, 1, Min(At(op)) - 1)), Side(SubSeq(ts, Min(At(op)) + 1, Len(ts))))

\* resolve_path: no alias is in scope, and "[]" is passed over.
ResolvePath(ts, ctx) ==
  IF Tok(ts, 1)[1] # "$" THEN <<>>
  ELSE Walk(<<ctx.base>>, SelectSeq(Segments(ts, 2), LAMBDA s : s # <<"all">>), ctx)
=============================================================================
