----------------------------- MODULE RecordScanner -----------------------------
(***************************************************************************)
(* RecordScanner (src/plazy.rs:190): cuts a JSON array document into the    *)
(* texts of its records without parsing it.  A document is a sequence of    *)
(* characters, as far as the scanner tells them apart: brackets, braces,    *)
(* quotes, backslashes, commas and blanks; any other string is a run of     *)
(* characters that mean nothing to it.                                      *)
(***************************************************************************)
EXTENDS Values

CONSTANT Render(_)    \* the text of a value, in these characters

Blanks == {" "}
Openers == {"{", "["}
Closers == {"}", "]"}

\* The first position from i on whose character is not in S.
Skip(b, i, S) == Min({j \in i..(Len(b) + 1) : j > Len(b) \/ b[j] \notin S})

\* Mutant of Inside: an escaped quote ends the string.
InsideUnescaped(s, c) == IF c = "\"" THEN [s EXCEPT !.str = FALSE] ELSE s

\* One character of a string.
Inside(s, c) ==
  IF s.esc THEN [s EXCEPT !.esc = FALSE]
  ELSE IF c = "\\" THEN [s EXCEPT !.esc = TRUE]
  ELSE IF c = "\"" THEN [s EXCEPT !.str = FALSE] ELSE s

\* One character outside of strings.
Outside(s, c) ==
  CASE c = "\"" -> [s EXCEPT !.str = TRUE]
    [] c \in Openers -> [s EXCEPT !.depth = @ + 1]
    [] c \in Closers -> [s EXCEPT !.depth = @ - 1, !.closed = s.depth <= 1]
    [] OTHER -> s

Fresh == [depth |-> 0, str |-> FALSE, esc |-> FALSE, closed |-> FALSE]

ScanStates == [depth : Int, str : BOOLEAN, esc : BOOLEAN, closed : BOOLEAN]
Step(s, c) == IF s.str THEN Inside(s, c) ELSE Outside(s, c)

\* The position after the record that begins at i: after the bracket that closes it,
\* or the end of the document.
RecordEnd(b, i) ==
  LET end[j \in i..(Len(b) + 1)] ==
        [s \in ScanStates |-> IF s.closed \/ j > Len(b) THEN j ELSE end[j + 1][Step(s, b[j])]]
  IN end[i][Fresh]

\* next(): where the scanner is afterwards, whether it is done, and the record
\* it yields, if it does.
Scan(b, i) ==
  LET here == Skip(b, i, Blanks)
      inside == IF here <= Len(b) /\ b[here] = "[" THEN here + 1 ELSE here
      start == Skip(b, inside, Blanks \cup {","})
  IN IF here > Len(b) \/ start > Len(b) \/ b[start] = "]"
     THEN [pos |-> start, done |-> TRUE, slice |-> <<>>]
     ELSE [pos |-> RecordEnd(b, start), done |-> FALSE,
           slice |-> SubSeq(b, start, RecordEnd(b, start) - 1)]

\* What an iteration over the scanner yields from position i on.
Slices(b, i) ==
  LET slices[j \in i..(Len(b) + 1)] ==
        LET next == Scan(b, j) IN IF next.done THEN <<>> ELSE <<next.slice>> \o slices[next.pos]
  IN slices[i]

-----------------------------------------------------------------------------
\* from_str: the value a slice is the text of, among those that may be there.
Parse(slice, values) ==
  IF \E v \in values : Render(v) = slice THEN <<CHOOSE v \in values : Render(v) = slice>> ELSE <<>>
=============================================================================
