------------------------------- MODULE CfgText -------------------------------
(***************************************************************************)
(* How CLuaCfg finds a table in the text of a configuration file before    *)
(* table2file replaces it: findBeginOfTable and findEndOfTable, two        *)
(* scanners that know quotes, escapes, both kinds of comment and braces.   *)
(* A text is a sequence of characters, positions count from 0 as in the    *)
(* code; a result is a position, -1 or "throws" where string::at does.     *)
(***************************************************************************)
EXTENDS Integers, Sequences

\* str.at(i); behind the end it throws.
Char(str, i) == IF i < Len(str) THEN str[i + 1] ELSE "throws"

IsAt(str, i, word) == SubSeq(str, i + 1, i + Len(word)) = word

\* str.find(name, from)
find(str, name, from) ==
  LET at == {i \in from .. Len(str) - Len(name) : IsAt(str, i, name)}
  IN  IF at = {} THEN -1 ELSE CHOOSE i \in at : \A j \in at : i <= j

Start == [mode |-> "code", i |-> 0, braces |-> 0]

\* Mutant: "--" begins a comment in a quote as well.
StepMutant(str, s) ==
  LET c == Char(str, s.i)
      d == Char(str, s.i + 1)
      Mode(m) == [s EXCEPT !.mode = m, !.i = @ + 1]
  IN  CASE s.mode = "line" -> IF c = "\n" THEN Mode("code") ELSE Mode("line")
        [] s.mode = "block" -> IF c = "]" /\ d = "]" THEN Mode("code") ELSE Mode("block")
        [] s.mode \in {"quote", "code"} /\ c = "-" /\ d = "-" -> Mode("line")
        [] s.mode = "quote" /\ c = "\"" -> Mode("code")
        [] s.mode = "code" /\ c = "\"" -> Mode("quote")
        [] s.mode = "code" /\ c = "{" -> [Mode("code") EXCEPT !.braces = @ + 1]
        [] s.mode = "code" /\ c = "}" -> [Mode("code") EXCEPT !.braces = @ - 1]
        [] OTHER -> Mode(s.mode)

\* One pass of either loop over the character at s.i: its mode and the braces
\* afterwards.  (findBeginOfTable also steps over the second character of a
\* comment's marks; nothing is looked for there.)
Step(str, s) ==
  LET c == Char(str, s.i)
      d == Char(str, s.i + 1)
      Mode(m) == [s EXCEPT !.mode = m, !.i = @ + 1]
      opens == /\ Len(str) >= s.i + 3
               /\ Char(str, s.i + 2) = "["
               /\ Char(str, s.i + 3) = "["
  IN  CASE s.mode = "skip" -> Mode("code")
        [] s.mode = "line" -> IF c = "\n" THEN Mode("code") ELSE Mode("line")
        [] s.mode = "block" -> IF c = "]" /\ d = "]" THEN Mode("code") ELSE Mode("block")
        [] s.mode = "quote" -> IF c = "\"" THEN Mode("code") ELSE Mode("quote")
        [] OTHER ->
             CASE c = "\\" -> Mode("skip")
               [] c = "\"" -> Mode("quote")
               [] c = "-" /\ d = "-" -> Mode(IF opens THEN "block" ELSE "line")
               [] c = "{" -> [Mode("code") EXCEPT !.braces = @ + 1]
               [] c = "}" -> [Mode("code") EXCEPT !.braces = @ - 1]
               [] OTHER -> Mode("code")

\* string::at is asked for a character that is not there.
Throws(str, s) ==
  LET c == Char(str, s.i)
  IN  \/ s.mode = "block" /\ c = "]" /\ s.i + 1 = Len(str)
      \/ s.mode = "line" /\ c = "\r" /\ s.i + 1 = Len(str)
      \/ /\ s.mode = "code" /\ c = "-"
         /\ \/ s.i + 1 = Len(str)
            \/ Char(str, s.i + 1) = "-" /\ s.i + 3 = Len(str) /\ Char(str, s.i + 2) = "["

\* A character that findBeginOfTable compares with the name.
Plain(str, s) ==
  /\ s.mode = "code" /\ s.braces = 0
  /\ Char(str, s.i) \notin {"\\", "\"", "{", "}"}
  /\ ~(Char(str, s.i) = "-" /\ Char(str, s.i + 1) = "-")

RECURSIVE ScanBegin(_, _, _, _)
ScanBegin(str, name, s, found) ==
  LET again == find(str, name, s.i)
      on(f) == ScanBegin(str, name, Step(str, s), f)
  IN  IF s.i >= Len(str) \/ found = -1 THEN -1
      ELSE IF Throws(str, s) THEN "throws"
      ELSE IF ~Plain(str, s) THEN on(found)
      ELSE IF found = s.i
        THEN IF s.i = 0 \/ Char(str, s.i - 1) \in {" ", "\r", "\n"} THEN s.i
             ELSE on(found)
      ELSE IF s.i > found
        THEN IF again = s.i THEN s.i ELSE on(again)
      ELSE on(found)

findBeginOfTable(str, name) == ScanBegin(str, name, Start, find(str, name, 0))

RECURSIVE ScanEnd(_, _)
ScanEnd(str, s) ==
  IF s.i >= Len(str) THEN -1
  ELSE IF Throws(str, s) THEN "throws"
  ELSE IF s.mode = "code" /\ Char(str, s.i) = "}" /\ s.braces = 1 THEN s.i
  ELSE ScanEnd(str, Step(str, s))

findEndOfTable(str, begin) == ScanEnd(str, [Start EXCEPT !.i = begin])

=============================================================================
