------------------------------ MODULE LuaLexer ------------------------------
(***************************************************************************)
(* The lexer of the Lua interpreter, luasrc/llex.c, with the conversion of *)
(* numerals of luasrc/lobject.c.                                           *)
(*                                                                         *)
(* In the LexState ls, z is the program's text, at the place of the        *)
(* current character in it, buff the buffer; token and v are what was read *)
(* last, err the first error.  A float is the text of its numeral; an      *)
(* integer is as large as it is written (the code wraps it to 64 bits).    *)
(* The decimal point is that of the "C" locale.                            *)
(***************************************************************************)
EXTENDS LuaUtf8

EOZ == -1
luaX_reserved == {"and", "break", "do", "else", "elseif", "end", "false", "for", "function",
                  "goto", "if", "in", "local", "nil", "not", "or", "repeat", "return", "then",
                  "true", "until", "while"}

current(ls) == IF ls.at > Len(ls.z) THEN EOZ ELSE ls.z[ls.at]
currIs(ls, s) == current(ls) # EOZ /\ current(ls) \in {ByteOf[SubSeq(s, i, i)] : i \in 1 .. Len(s)}
currIsNewline(ls) == current(ls) \in {10, 13}
lisdigit(c) == isdigit(c)
lislalpha(c) == isalpha(c) \/ c = ByteOf["_"]
lislalnum(c) == isalnum(c) \/ c = ByteOf["_"]

\* An error is noted, and the text skipped, as nothing more will be read.
lexerror(ls, what) ==
  IF ls.err # "" THEN ls ELSE [ls EXCEPT !.err = what, !.at = Len(ls.z) + 1, !.token = "<error>"]
esccheck(ls, holds, what) == IF holds THEN ls ELSE lexerror(ls, what)

next(ls) == [ls EXCEPT !.at = @ + 1]
save(ls, c) == [ls EXCEPT !.buff = Append(@, c % 256)]
save_and_next(ls) == next(save(ls, current(ls)))
resetbuffer(ls) == [ls EXCEPT !.buff = <<>>]
Token(ls, token) == [ls EXCEPT !.token = token]
Valued(ls, token, v) == [ls EXCEPT !.token = token, !.v = v]

\* Characters of a set are skipped, or saved.
RECURSIVE SkipWhile(_, _), SaveWhile(_, _)
SkipWhile(ls, S) == IF current(ls) \in S THEN SkipWhile(next(ls), S) ELSE ls
SaveWhile(ls, S) == IF current(ls) \in S THEN SaveWhile(save_and_next(ls), S) ELSE ls

inclinenumber(ls) ==
  LET n == next(ls)
      pair == currIsNewline(n) /\ current(n) # current(ls)
  IN  [(IF pair THEN next(n) ELSE n) EXCEPT !.linenumber = @ + 1]

-----------------------------------------------------------------------------
(* Numerals *)

\* The number a sequence of digits stands for.
Numeral(ds, base) == FoldLeft(LAMBDA a, c : a * base + luaO_hexavalue(c), 0, ds)
IsHex(b) == Len(b) >= 2 /\ b[1] = ByteOf["0"] /\ tolower(b[2]) = ByteOf["x"]

l_str2int(b) ==
  LET ds == IF IsHex(b) THEN SubSeq(b, 3, Len(b)) ELSE b
  IN  [ok |-> ds # <<>> /\ \A i \in DOMAIN ds : IF IsHex(b) THEN isxdigit(ds[i]) ELSE isdigit(ds[i]),
       v |-> Numeral(ds, IF IsHex(b) THEN 16 ELSE 10)]

\* strtod takes digits with at most one point and an exponent of decimal digits.
l_str2d(b) ==
  LET hex == IsHex(b)
      ds == IF hex THEN SubSeq(b, 3, Len(b)) ELSE b
      expo == ByteOf[IF hex THEN "p" ELSE "e"]
      e == SelectInSeq(ds, LAMBDA c : tolower(c) = expo)
      mantissa == IF e = 0 THEN ds ELSE SubSeq(ds, 1, e - 1)
      signed == SubSeq(ds, e + 1, Len(ds))
      exponent == IF signed # <<>> /\ Head(signed) \in {ByteOf["+"], ByteOf["-"]} THEN Tail(signed) ELSE signed
      dots == {i \in DOMAIN mantissa : mantissa[i] = ByteOf["."]}
  IN  /\ Cardinality(dots) <= 1 /\ Len(mantissa) > Cardinality(dots)
      /\ \A i \in DOMAIN mantissa \ dots : IF hex THEN isxdigit(mantissa[i]) ELSE isdigit(mantissa[i])
      /\ e # 0 => exponent # <<>> /\ \A i \in DOMAIN exponent : isdigit(exponent[i])

\* The numeral that read_numeral has saved.
luaO_str2num(ls) ==
  LET i == l_str2int(ls.buff)
  IN  IF i.ok THEN Valued(ls, "<integer>", i.v)
      ELSE IF l_str2d(ls.buff) THEN Valued(ls, "<number>", ls.buff)
      ELSE lexerror(ls, "malformed number")

RECURSIVE NumeralRest(_, _)
NumeralRest(ls, expo) ==
  LET e == IF currIs(ls, expo) THEN save_and_next(ls) ELSE ls
      s == IF currIs(ls, expo) /\ currIs(e, "-+") THEN save_and_next(e) ELSE e
  IN  IF isxdigit(current(s)) \/ currIs(s, ".") THEN NumeralRest(save_and_next(s), expo) ELSE s

read_numeral(ls) ==
  LET n == save_and_next(ls)
      hex == currIs(ls, "0") /\ currIs(n, "xX")
  IN  luaO_str2num(NumeralRest(IF hex THEN save_and_next(n) ELSE n, IF hex THEN "Pp" ELSE "Ee"))

-----------------------------------------------------------------------------
(* Long brackets *)

\* [ls, sep]: the number of = signs, or less than 0 where it is no bracket.
skip_sep(ls) ==
  LET q == SaveWhile(save_and_next(ls), {ByteOf["="]})
      count == q.at - ls.at - 1
  IN  [ls |-> q, sep |-> IF current(q) = current(ls) THEN count ELSE -count - 1]

RECURSIVE LongRest(_, _, _)
LongRest(ls, sep, isstring) ==
  LET b == skip_sep(ls)
      line == inclinenumber(save(ls, 10))
      kept == IF isstring THEN line ELSE resetbuffer(line)
  IN  CASE current(ls) = EOZ -> lexerror(ls, "unfinished long string")
        [] currIs(ls, "]") -> IF b.sep = sep THEN save_and_next(b.ls) ELSE LongRest(b.ls, sep, isstring)
        [] currIsNewline(ls) -> LongRest(kept, sep, isstring)
        [] OTHER -> LongRest(IF isstring THEN save_and_next(ls) ELSE next(ls), sep, isstring)

read_long_string(ls, sep, isstring) ==
  LET opened == save_and_next(ls)
      s == LongRest(IF currIsNewline(opened) THEN inclinenumber(opened) ELSE opened, sep, isstring)
  IN  IF isstring /\ s.err = ""
        THEN Valued(s, "<string>", SubSeq(s.buff, 3 + sep, Len(s.buff) - 2 - sep))
      ELSE s

-----------------------------------------------------------------------------
(* Short strings *)

buffremove(ls, n) == [ls EXCEPT !.buff = SubSeq(@, 1, Len(@) - n)]

\* The next character, checked to be a hexadecimal digit.
gethexa(ls) ==
  LET s == save_and_next(ls) IN esccheck(s, isxdigit(current(s)), "hexadecimal digit expected")

\* Both leave the value in v.
readhexaesc(ls) ==
  LET a == gethexa(ls)
      b == gethexa(a)
  IN  [buffremove(b, 2) EXCEPT !.v = 16 * luaO_hexavalue(current(a)) + luaO_hexavalue(current(b))]

RECURSIVE MoreHexa(_, _)
MoreHexa(ls, i) ==
  LET s == save_and_next(ls)
      r == [s EXCEPT !.v = 16 * @ + luaO_hexavalue(current(s))]
  IN  IF isxdigit(current(s)) THEN MoreHexa(esccheck(r, r.v <= MAXUNICODE, "UTF-8 value too large"), i + 1)
      ELSE [ls |-> s, i |-> i]

readutf8esc(ls) ==
  LET u == save_and_next(ls)
      first == gethexa(esccheck(u, currIs(u, "{"), "missing {"))
      m == MoreHexa([first EXCEPT !.v = luaO_hexavalue(current(first))], 4)
      s == esccheck(m.ls, currIs(m.ls, "}"), "missing }")
  IN  buffremove(next(s), m.i)

utf8esc(ls) ==
  LET s == readutf8esc(ls) IN [s EXCEPT !.buff = @ \o luaO_utf8esc(s.v)]

readdecesc(ls) ==
  LET RECURSIVE Read(_, _)
      Read(s, i) == IF i < 3 /\ isdigit(current(s))
                      THEN Read(save_and_next([s EXCEPT !.v = 10 * @ + luaO_hexavalue(current(s))]), i + 1)
                    ELSE s
      r == Read([ls EXCEPT !.v = 0], 0)
  IN  buffremove(esccheck(r, r.v <= 255, "decimal escape too large"), r.at - ls.at)

\* The escape sequences that stand for one byte.
Escapes == [a |-> 7, b |-> 8, f |-> 12, n |-> 10, r |-> 13, t |-> 9, v |-> 11]
EscapeOf == [c \in {ByteOf[x] : x \in DOMAIN Escapes} |-> Escapes[CHOOSE x \in DOMAIN Escapes : ByteOf[x] = c]]

RECURSIVE Zap(_)
Zap(ls) ==
  IF ~isspace(current(ls)) THEN ls
  ELSE Zap(IF currIsNewline(ls) THEN inclinenumber(ls) ELSE next(ls))

\* The escape sequence behind a backslash that has been saved.
Escape(ls) ==
  LET c == current(ls)
      Only(s, byte) == save(buffremove(s, 1), byte)
      Read(s, byte) == Only(next(s), byte)
      hex == readhexaesc(ls)
      dec == readdecesc(ls)
  IN  CASE c \in DOMAIN EscapeOf -> Read(ls, EscapeOf[c])
        [] currIs(ls, "x") -> IF hex.err = "" THEN Read(hex, hex.v) ELSE hex
        [] currIs(ls, "u") -> utf8esc(ls)
        [] currIsNewline(ls) -> Only(inclinenumber(ls), 10)
        [] currIs(ls, "\\\"'") -> Read(ls, c)
        [] c = EOZ -> ls
        [] currIs(ls, "z") -> Zap(next(buffremove(ls, 1)))
        [] isdigit(c) -> IF dec.err = "" THEN Only(dec, dec.v) ELSE dec
        [] OTHER -> lexerror(ls, "invalid escape sequence")

RECURSIVE StringRest(_, _)
StringRest(ls, del) ==
  CASE current(ls) = del -> ls
    [] current(ls) = EOZ -> lexerror(ls, "unfinished string")
    [] currIsNewline(ls) -> lexerror(ls, "unfinished string")
    [] currIs(ls, "\\") -> StringRest(Escape(save_and_next(ls)), del)
    [] OTHER -> StringRest(save_and_next(ls), del)

read_string(ls) ==
  LET s == StringRest(save_and_next(ls), current(ls))
      r == save_and_next(s)
  IN  IF s.err # "" THEN s ELSE Valued(r, "<string>", SubSeq(r.buff, 2, Len(r.buff) - 1))

-----------------------------------------------------------------------------
(* Tokens *)

\* Behind the two hyphens.
Comment(ls) ==
  LET b == skip_sep(ls)
  IN  IF currIs(ls, "[") /\ b.sep >= 0
        THEN resetbuffer(read_long_string(resetbuffer(b.ls), b.sep, FALSE))
      ELSE SkipWhile(IF currIs(ls, "[") THEN resetbuffer(b.ls) ELSE ls, 0 .. 255 \ {10, 13})

NameOrReserved(ls) ==
  LET w == SaveWhile(save_and_next(ls), {c \in 0 .. 255 : lislalnum(c)})
      reserved == {x \in luaX_reserved : Bytes(x) = w.buff}
  IN  IF reserved # {} THEN Token(w, CHOOSE x \in reserved : TRUE) ELSE Valued(w, "<name>", w.buff)

\* Operators of two and three characters, by their first.
Longer(ls) ==
  LET n == next(ls)
      Two(c, token, one) == IF currIs(n, c) THEN Token(next(n), token) ELSE Token(n, one)
  IN  CASE currIs(ls, "=") -> Two("=", "==", "=")
        [] currIs(ls, "<") -> IF currIs(n, "=") THEN Token(next(n), "<=") ELSE Two("<", "<<", "<")
        [] currIs(ls, ">") -> IF currIs(n, "=") THEN Token(next(n), ">=") ELSE Two(">", ">>", ">")
        [] currIs(ls, "/") -> Two("/", "//", "/")
        [] currIs(ls, "~") -> Two("=", "~=", "~")
        [] currIs(ls, ":") -> Two(":", "::", ":")

Dot_(ls) ==
  LET n == save_and_next(ls)
      nn == next(n)
  IN  IF currIs(n, ".") THEN (IF currIs(nn, ".") THEN Token(next(nn), "...") ELSE Token(nn, ".."))
      ELSE IF isdigit(current(n)) THEN read_numeral(n) ELSE Token(n, ".")

Bracket(ls) ==
  LET b == skip_sep(ls)
  IN  IF b.sep >= 0 THEN read_long_string(b.ls, b.sep, TRUE)
      ELSE IF b.sep # -1 THEN lexerror(b.ls, "invalid long string delimiter")
      ELSE Token(b.ls, "[")

RECURSIVE llexFrom(_)
llexFrom(ls) ==
  LET n == next(ls)
  IN  CASE ls.err # "" -> ls
        [] current(ls) = EOZ -> Token(ls, "<eof>")
        [] currIsNewline(ls) -> llexFrom(inclinenumber(ls))
        [] current(ls) \in {32, 12, 9, 11} -> llexFrom(n)
        [] currIs(ls, "-") -> IF currIs(n, "-") THEN llexFrom(Comment(next(n))) ELSE Token(n, "-")
        [] currIs(ls, "[") -> Bracket(ls)
        [] currIs(ls, "=<>/~:") -> Longer(ls)
        [] currIs(ls, "\"'") -> read_string(ls)
        [] currIs(ls, ".") -> Dot_(ls)
        [] isdigit(current(ls)) -> read_numeral(ls)
        [] lislalpha(current(ls)) -> NameOrReserved(ls)
        [] OTHER -> Token(n, IF current(ls) \in Range(ByteOf) THEN Glyph(current(ls)) ELSE "<char>")

llex(ls) == llexFrom([resetbuffer(ls) EXCEPT !.v = 0])

luaX_setinput(text) ==
  [z |-> text, at |-> 1, buff |-> <<>>, linenumber |-> 1, token |-> "<eof>", v |-> 0, err |-> ""]

\* All tokens of a text, [token, v], and the lines it has.
RECURSIVE TokensFrom(_)
TokensFrom(ls) ==
  LET s == llex(ls)
      rest == TokensFrom(s)
  IN  IF s.token \in {"<eof>", "<error>"} THEN [tokens |-> <<>>, err |-> s.err, lines |-> s.linenumber]
      ELSE [rest EXCEPT !.tokens = <<[token |-> s.token, v |-> s.v]>> \o @]
Lexed(text) == TokensFrom(luaX_setinput(text))

=============================================================================
