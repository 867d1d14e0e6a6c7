------------------------------- MODULE LuaUtf8 -------------------------------
(***************************************************************************)
(* UTF-8 in the Lua interpreter: luaO_utf8esc of luasrc/lobject.c, which   *)
(* encodes, and luasrc/lutf8lib.c, which decodes and counts.  Positions    *)
(* count from 1.  A result is a sequence of numbers; Raised stands for an  *)
(* error of the program's.                                                 *)
(***************************************************************************)
EXTENDS LuaChars

MAXUNICODE == 1114111
Raised == <<"error">>

\* The bytes of x before those in tail; mfb: the most the first one can hold.
RECURSIVE Continued(_, _, _)
Continued(x, mfb, tail) ==
  LET more == <<128 + (x % 64)>> \o tail
      left == x \div 64
      room == mfb \div 2
  IN  IF left > room THEN Continued(left, room, more)
      ELSE <<((2 * (255 - room)) % 256) + left>> \o more

luaO_utf8esc(x) == IF x < 128 THEN <<x>> ELSE Continued(x, 63, <<>>)

iscont(s, i) == ByteAt(s, i) \in 128 .. 191
u_posrelat(pos, len) == IF pos >= 0 THEN pos ELSE IF -pos > len THEN 0 ELSE len + pos + 1

\* Bit 64 of c says whether another byte continues the one at o: [count, c, res],
\* or count = 4 where the text is malformed or the sequence too long.
RECURSIVE Continuation(_, _, _)
Continuation(s, o, r) ==
  IF (r.c \div 64) % 2 = 0 \/ r.count > 3 THEN r
  ELSE IF ~iscont(s, o + r.count + 1) THEN [r EXCEPT !.count = 4]
  ELSE Continuation(s, o, [count |-> r.count + 1, c |-> r.c * 2,
                           res |-> r.res * 64 + (s[o + r.count + 1] % 64)])

\* [next, val] of the sequence at o; next = 0: it is invalid.
utf8_decode(s, o) ==
  LET c == ByteAt(s, o)
      r == Continuation(s, o, [count |-> 0, c |-> c, res |-> 0])
      limits == <<255, 127, 2047, 65535>>
      res == r.res + (r.c % 128) * 2 ^ (r.count * 5)
      Invalid == [next |-> 0, val |-> 0]
  IN  IF c < 128 THEN [next |-> o + 1, val |-> c]
      ELSE IF r.count > 3 THEN Invalid
      ELSE IF res > MAXUNICODE \/ res <= limits[r.count + 1] THEN Invalid
      ELSE [next |-> o + 1 + r.count, val |-> res]

\* The characters that begin in s[i .. j]: [cs, bad], bad where one is invalid.
RECURSIVE Decoded(_, _, _)
Decoded(s, i, j) ==
  LET d == utf8_decode(s, i)
      rest == Decoded(s, d.next, j)
  IN  IF i > j THEN [cs |-> <<>>, bad |-> 0]
      ELSE IF d.next = 0 THEN [cs |-> <<>>, bad |-> i]
      ELSE [rest EXCEPT !.cs = <<d.val>> \o @]

\* <<"nil", position>> where the text is malformed.
utflen(s, i, j) ==
  LET posi == u_posrelat(i, Len(s))
      posj == u_posrelat(j, Len(s))
      d == Decoded(s, posi, posj)
  IN  IF posi < 1 \/ posi > Len(s) + 1 \/ posj > Len(s) THEN Raised
      ELSE IF d.bad # 0 THEN <<"nil", d.bad>> ELSE <<Len(d.cs)>>

codepoint(s, i, j) ==
  LET posi == u_posrelat(i, Len(s))
      pose == u_posrelat(j, Len(s))
      d == Decoded(s, posi, pose)
  IN  IF posi < 1 \/ pose > Len(s) THEN Raised
      ELSE IF d.bad # 0 THEN Raised ELSE d.cs

utfchar(codes) ==
  IF \E n \in DOMAIN codes : codes[n] \notin 0 .. MAXUNICODE THEN Raised
  ELSE FlattenSeq([n \in DOMAIN codes |-> luaO_utf8esc(codes[n])])

-----------------------------------------------------------------------------
(* Moving by characters *)

RECURSIVE BeginsAt(_, _)
BeginsAt(s, i) == IF i > 1 /\ iscont(s, i) THEN BeginsAt(s, i - 1) ELSE i
RECURSIVE Behind(_, _)
Behind(s, i) == IF iscont(s, i) THEN Behind(s, i + 1) ELSE i

\* Where the n-th character from position i on begins.
byteoffset(s, n, i) ==
  LET posi == u_posrelat(i, Len(s))
      RECURSIVE Back(_, _), Forth(_, _)
      Back(at, k) == IF k = 0 \/ at = 1 THEN <<at, k>> ELSE Back(BeginsAt(s, at - 1), k + 1)
      Forth(at, k) == IF k = 0 \/ at > Len(s) THEN <<at, k>> ELSE Forth(Behind(s, at + 1), k - 1)
      to == IF n < 0 THEN Back(posi, n) ELSE Forth(posi, n - 1)
  IN  IF posi < 1 \/ posi > Len(s) + 1 THEN Raised
      ELSE IF n = 0 THEN <<BeginsAt(s, posi)>>
      ELSE IF iscont(s, posi) THEN Raised
      ELSE IF to[2] = 0 THEN <<to[1]>> ELSE <<"nil">>

\* The step of utf8.codes behind position n: <<>> at the end.
iter_aux(s, n) ==
  LET at == IF n < 1 THEN 1 ELSE IF n <= Len(s) THEN Behind(s, n + 1) ELSE n
      d == utf8_decode(s, at)
  IN  IF at > Len(s) THEN <<>>
      ELSE IF d.next = 0 \/ iscont(s, d.next) THEN Raised
      ELSE <<at, d.val>>

\* All that the iterator returns: [at, code] pairs, Raised at the end or not.
RECURSIVE iter_codes(_, _)
iter_codes(s, n) ==
  LET step == iter_aux(s, n)
  IN  IF step = <<>> THEN <<>>
      ELSE IF step = Raised THEN <<Raised>>
      ELSE <<step>> \o iter_codes(s, step[1])

=============================================================================
