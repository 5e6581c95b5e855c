-------------------------------- MODULE Values --------------------------------
(***************************************************************************)
(* JSON values, as the engine sees them through NValue (src/native.rs,      *)
(* src/sonic.rs), and the scalars it computes with: LazyVal and Cell        *)
(* (src/lazy.rs, src/columnar.rs).                                          *)
(*                                                                         *)
(* A value is <<kind, payload>>.  Integers have a width: i64 runs from      *)
(* -MaxInt - 1 to MaxInt and u64 to 2 * MaxInt + 1.  A float is a count of   *)
(* halves, so that it may or may not be whole.  A text is a string: scalars *)
(* are printed as the program prints them, and the text of an object or an  *)
(* array is some string that no other value has.                            *)
(***************************************************************************)
EXTENDS Integers, Sequences, SequencesExt

CONSTANT MaxInt    \* the largest i64

ASSUME MaxIntAssumption == MaxInt \in Nat \ {0}

Null == <<"null", 0>>
Bool(b) == <<"bool", b>>
I64(i) == <<"i64", i>>
U64(u) == <<"u64", u>>    \* only above MaxInt
F64(h) == <<"f64", h>>
Str(s) == <<"str", s>>
Arr(s) == <<"arr", s>>
Obj(f) == <<"obj", f>>
Raw(v) == <<"raw", v>>    \* the JSON text of v

IsSeq(s) == s \in Seq(Range(s))

IsArr(v) == v[1] = "arr" /\ IsSeq(v[2])

ColKinds == {"str", "f64", "i64", "bool"}

\* What a lookup finds: a sequence of at most one value.
Get(v, k) == IF v[1] = "obj" /\ k \in DOMAIN v[2] THEN <<v[2][k]>> ELSE <<>>
GetIdx(v, i) == IF IsArr(v) /\ i < Len(v[2]) THEN <<v[2][i + 1]>> ELSE <<>>
Elements(v) == IF IsArr(v) THEN v[2] ELSE <<>>

\* The members of s that are in T, in their order.
Those(s, T) == FlattenSeq([k \in DOMAIN s |-> IF s[k] \in T THEN <<s[k]>> ELSE <<>>])

-----------------------------------------------------------------------------
(* Texts, character by character.                                          *)

Char(text, k) == SubSeq(text, k, k)
Chars(text) == {Char(text, k) : k \in 1..Len(text)}
Mapped(text, F(_)) ==
  FoldLeft(LAMBDA done, k : done \o F(Char(text, k)), "", [k \in 1..Len(text) |-> k])

Capitals == "ABCDEFGHIJKLMNOPQRSTUVWXYZ"
Smalls == "abcdefghijklmnopqrstuvwxyz"
Alphanumeric == Chars(Capitals) \cup Chars(Smalls) \cup Chars("0123456789")

\* Any other character than these becomes an underscore.
Cleaned(text, kept) == Mapped(text, LAMBDA c : IF c \in kept THEN c ELSE "_")

\* to_ascii_lowercase
Lowered(text) ==
  Mapped(text, LAMBDA c : IF c \in Chars(Capitals)
                          THEN Char(Smalls, CHOOSE k \in 1..26 : Char(Capitals, k) = c) ELSE c)

Occurs(word, text) ==
  \E k \in 0..(Len(text) - Len(word)) : SubSeq(text, k + 1, k + Len(word)) = word

-----------------------------------------------------------------------------
(* Printing and parsing.                                                   *)

FloatText(h) ==
  IF h < 0 THEN "-" \o ToString((-h) \div 2) \o (IF h % 2 = 0 THEN "" ELSE ".5")
           ELSE ToString(h \div 2) \o (IF h % 2 = 0 THEN "" ELSE ".5")

ScalarText(v) ==
  CASE v[1] \in {"i64", "u64"} -> ToString(v[2])
    [] v[1] = "f64" -> FloatText(v[2])
    [] v[1] = "bool" -> IF v[2] THEN "true" ELSE "false"
    [] v[1] = "null" -> "null"
    [] v[1] = "str" -> v[2]

JsonText(v) == IF v[1] \in {"str", "arr", "obj"} THEN ToString(v) ELSE ScalarText(v)

Text(v) == IF v[1] = "raw" THEN JsonText(v[2]) ELSE ScalarText(v)

Ints == (-MaxInt - 1)..MaxInt
Halves == (-2 * MaxInt - 2)..(4 * MaxInt + 3)

\* parse::<i64>() and parse::<f64>(), with Null for text that is no number.
ParseI64(t) ==
  IF \E i \in Ints : ToString(i) = t THEN I64(CHOOSE i \in Ints : ToString(i) = t) ELSE Null
ParseF64(t) ==
  IF \E h \in Halves : FloatText(h) = t THEN F64(CHOOSE h \in Halves : FloatText(h) = t) ELSE Null
ParseBool(t) ==
  CASE t \in {"true", "True", "1"} -> Bool(TRUE)
    [] t \in {"false", "False", "0"} -> Bool(FALSE)
    [] OTHER -> Null

-----------------------------------------------------------------------------
(* Coercions.                                                              *)

\* f as i64 drops the fraction and saturates.
Truncated(h) ==
  LET whole == IF h < 0 THEN -((-h) \div 2) ELSE h \div 2
  IN IF whole > MaxInt THEN MaxInt ELSE IF whole < -MaxInt - 1 THEN -MaxInt - 1 ELSE whole

\* u as i64 wraps.
AsI64(v) ==
  CASE v[1] = "i64" -> v
    [] v[1] = "u64" -> I64(v[2] - (2 * MaxInt + 2))
    [] v[1] = "f64" -> I64(Truncated(v[2]))
    [] v[1] = "bool" -> I64(IF v[2] THEN 1 ELSE 0)
    [] v[1] \in {"str", "raw"} -> ParseI64(Text(v))
    [] OTHER -> Null

AsF64(v) ==
  CASE v[1] = "f64" -> v
    [] v[1] \in {"i64", "u64"} -> F64(2 * v[2])
    [] v[1] = "bool" -> F64(IF v[2] THEN 2 ELSE 0)
    [] v[1] \in {"str", "raw"} -> ParseF64(Text(v))
    [] OTHER -> Null

AsBool(v) ==
  CASE v[1] = "bool" -> v
    [] v[1] \in {"i64", "u64", "f64"} -> Bool(v[2] # 0)
    [] v[1] \in {"str", "raw"} -> ParseBool(Text(v))
    [] OTHER -> Null

AsStr(v) == IF v = Null THEN Null ELSE Str(Text(v))

\* What a column of this kind stores of a cell.
Coerce(v, kind) ==
  CASE kind = "str" -> AsStr(v)
    [] kind = "f64" -> AsF64(v)
    [] kind = "i64" -> AsI64(v)
    [] kind = "bool" -> AsBool(v)

\* A string cell made of an i64 stays a number until it is stored.
ToCell(v, kind) == IF kind = "str" /\ v[1] = "i64" THEN v ELSE Coerce(v, kind)

\* A JSON value as an operand: containers by their text.
ToLazy(v) == IF v[1] \in {"arr", "obj"} THEN Raw(v) ELSE v
=============================================================================
