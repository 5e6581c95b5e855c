-------------------------------- MODULE JsonTexts --------------------------------
(* The text of a JSON value in the characters of module RecordScanner: what   *)
(* its constant Render stands for.  A recursive definition, of its own module.*)
EXTENDS Values

Quoted(s) == <<"\"">> \o (IF s \in {"\"", "\\"} THEN <<"\\", s>> ELSE <<s>>) \o <<"\"">>
Joined(parts) == FlattenSeq([k \in DOMAIN parts |-> IF k = 1 THEN parts[k] ELSE <<",">> \o parts[k]])

RECURSIVE Rendered(_)
Rendered(v) ==
  CASE v[1] = "arr" -> <<"[">> \o Joined([k \in DOMAIN v[2] |-> Rendered(v[2][k])]) \o <<"]">>
    [] v[1] = "obj" ->
         LET keys == SetToSeq(DOMAIN v[2])
         IN <<"{">> \o Joined([k \in DOMAIN keys |-> Quoted(keys[k]) \o <<":">> \o Rendered(v[2][keys[k]])])
            \o <<"}">>
    [] v[1] = "str" -> Quoted(v[2])
    [] OTHER -> <<ScalarText(v)>>
=============================================================================
