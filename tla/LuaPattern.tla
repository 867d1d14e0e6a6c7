----------------------------- MODULE LuaPattern -----------------------------
(***************************************************************************)
(* Pattern matching in the Lua interpreter: find, match, gmatch and gsub   *)
(* of luasrc/lstrlib.c.                                                    *)
(*                                                                         *)
(* In the MatchState ms, src and pat are texts; at is what the last match  *)
(* returned, 0 for NULL; capture holds the captures of this level, begun   *)
(* at init, with their length or CapUnfinished or CapPosition; err is the  *)
(* first error, after which nothing is tried any more.  Positions count    *)
(* from 1.  The limit of the C stack, MAXCCALLS, is left out.              *)
(***************************************************************************)
EXTENDS LuaChars

CapUnfinished == -1
CapPosition == -2
MaxCaptures == 32

L_ESC == ByteOf["%"]
Is(c, s) == c = ByteOf[s]
IsAny(c, s) == c \in {ByteOf[SubSeq(s, i, i)] : i \in 1 .. Len(s)}

P_(ms, p) == ByteAt(ms.pat, p)
S_(ms, s) == ByteAt(ms.src, s)
Null_(ms) == [ms EXCEPT !.at = 0]
luaL_error(ms, what) == [ms EXCEPT !.at = 0, !.err = what]
Settled(ms) == ms.at # 0 \/ ms.err # ""

TextValue(s) == <<"text", s>>
PositionValue(n) == <<"position", n>>

-----------------------------------------------------------------------------
(* One character *)

match_class(c, cl) ==
  LET l == tolower(cl)
      res == CASE Is(l, "a") -> isalpha(c)
               [] Is(l, "c") -> iscntrl(c)
               [] Is(l, "d") -> isdigit(c)
               [] Is(l, "g") -> isgraph(c)
               [] Is(l, "l") -> islower(c)
               [] Is(l, "p") -> ispunct(c)
               [] Is(l, "s") -> isspace(c)
               [] Is(l, "u") -> isupper(c)
               [] Is(l, "w") -> isalnum(c)
               [] Is(l, "x") -> isxdigit(c)
               [] Is(l, "z") -> c = NUL
  IN  IF IsAny(l, "acdglpsuwxz") THEN res = islower(cl) ELSE cl = c

\* The end of the set whose first element is at q; 0: there is no ].
RECURSIVE SetEnd(_, _)
SetEnd(pat, q) ==
  LET next == IF pat[q] = L_ESC /\ q < Len(pat) THEN q + 2 ELSE q + 1
  IN  IF q > Len(pat) THEN 0
      ELSE IF Is(ByteAt(pat, next), "]") THEN next + 1
      ELSE SetEnd(pat, next)

\* Where the class that begins at p ends, 0 if it is malformed.
classend(ms, p) ==
  CASE P_(ms, p) = L_ESC -> IF p = Len(ms.pat) THEN 0 ELSE p + 2
    [] Is(P_(ms, p), "[") -> SetEnd(ms.pat, IF Is(P_(ms, p + 1), "^") THEN p + 2 ELSE p + 1)
    [] OTHER -> p + 1

\* Is c one of the elements from q up to the ] at ec?
RECURSIVE InSet(_, _, _, _)
InSet(c, pat, q, ec) ==
  IF q >= ec THEN FALSE
  ELSE IF pat[q] = L_ESC THEN match_class(c, pat[q + 1]) \/ InSet(c, pat, q + 2, ec)
  ELSE IF Is(pat[q + 1], "-") /\ q + 2 < ec THEN c \in pat[q] .. pat[q + 2] \/ InSet(c, pat, q + 3, ec)
  ELSE pat[q] = c \/ InSet(c, pat, q + 1, ec)

matchbracketclass(c, pat, p, ec) ==
  IF Is(pat[p + 1], "^") THEN ~InSet(c, pat, p + 2, ec) ELSE InSet(c, pat, p + 1, ec)

singlematch(ms, s, p, ep) ==
  LET c == S_(ms, s)
  IN  /\ s <= Len(ms.src)
      /\ CASE Is(P_(ms, p), ".") -> TRUE
           [] P_(ms, p) = L_ESC -> match_class(c, P_(ms, p + 1))
           [] Is(P_(ms, p), "[") -> matchbracketclass(c, ms.pat, p, ep - 1)
           [] OTHER -> P_(ms, p) = c

-----------------------------------------------------------------------------
(* Items that are not single characters *)

\* Behind the e that balances, s being inside cont pairs; 0: there is none.
RECURSIVE Balanced(_, _, _, _, _)
Balanced(src, s, b, e, cont) ==
  IF s > Len(src) THEN 0
  ELSE IF src[s] = e THEN (IF cont = 1 THEN s + 1 ELSE Balanced(src, s + 1, b, e, cont - 1))
  ELSE Balanced(src, s + 1, b, e, IF src[s] = b THEN cont + 1 ELSE cont)

matchbalance(ms, s, p) ==
  IF p >= Len(ms.pat) THEN luaL_error(ms, "missing arguments to %b")
  ELSE IF S_(ms, s) # P_(ms, p) THEN Null_(ms)
  ELSE [ms EXCEPT !.at = Balanced(ms.src, s + 1, P_(ms, p), P_(ms, p + 1), 1)]

\* The latest open capture, or 0.
capture_to_close(ms) == SelectLastInSeq(ms.capture, LAMBDA c : c.len = CapUnfinished)

match_capture(ms, s, digit) ==
  LET l == digit - ByteOf["0"]
      c == ms.capture[l]
      there == SubSeq(ms.src, s, s + c.len - 1)
  IN  IF l \notin DOMAIN ms.capture THEN luaL_error(ms, "invalid capture index")
      ELSE IF c.len = CapUnfinished THEN luaL_error(ms, "invalid capture index")
      ELSE IF c.len = CapPosition \/ Len(ms.src) + 1 - s < c.len THEN Null_(ms)
      ELSE IF SubSeq(ms.src, c.init, c.init + c.len - 1) # there THEN Null_(ms)
      ELSE [ms EXCEPT !.at = s + c.len]

frontier(ms, s, p, ec) ==
  /\ ~matchbracketclass(IF s = 1 THEN NUL ELSE S_(ms, s - 1), ms.pat, p, ec)
  /\ matchbracketclass(S_(ms, s), ms.pat, p, ec)

-----------------------------------------------------------------------------
(* Matching *)

RECURSIVE do_match(_, _, _), max_expand(_, _, _, _), min_expand(_, _, _, _)

\* The match goes on behind an item that ended at ms.at.
Onward(ms, p) == IF ms.at # 0 THEN do_match(ms, ms.at, p) ELSE ms

start_capture(ms, s, p, what) ==
  LET res == do_match([ms EXCEPT !.capture = Append(@, [init |-> s, len |-> what])], s, p)
  IN  IF Len(ms.capture) >= MaxCaptures THEN luaL_error(ms, "too many captures")
      ELSE IF Settled(res) THEN res
      ELSE [res EXCEPT !.capture = Front(@)]

\* Mutant: the capture stays closed when the match fails.
end_captureMutant(ms, s, p) ==
  LET l == capture_to_close(ms)
  IN  IF l = 0 THEN luaL_error(ms, "invalid pattern capture")
      ELSE do_match([ms EXCEPT !.capture[l].len = s - ms.capture[l].init], s, p)

end_capture(ms, s, p) ==
  LET l == capture_to_close(ms)
      res == do_match([ms EXCEPT !.capture[l].len = s - ms.capture[l].init], s, p)
  IN  IF l = 0 THEN luaL_error(ms, "invalid pattern capture")
      ELSE IF Settled(res) THEN res
      ELSE [res EXCEPT !.capture[l].len = CapUnfinished]

RECURSIVE Repetitions(_, _, _, _)
Repetitions(ms, s, p, ep) == IF singlematch(ms, s, p, ep) THEN 1 + Repetitions(ms, s + 1, p, ep) ELSE 0

\* i repetitions from s on, or fewer; what follows them begins at p.
max_expand(ms, s, i, p) ==
  LET res == do_match(ms, s + i, p)
  IN  IF Settled(res) \/ i = 0 THEN res ELSE max_expand(res, s, i - 1, p)

min_expand(ms, s, p, ep) ==
  LET res == do_match(ms, s, ep + 1)
  IN  IF Settled(res) \/ ~singlematch(ms, s, p, ep) THEN res ELSE min_expand(res, s + 1, p, ep)

\* A class and its suffix.
dflt(ms, s, p) ==
  LET ep == classend(ms, p)
      suffix == P_(ms, ep)
      res == do_match(ms, s + 1, ep + 1)
  IN  IF ep = 0 THEN luaL_error(ms, "malformed pattern")
      ELSE IF ~singlematch(ms, s, p, ep)
        THEN IF IsAny(suffix, "*?-") THEN do_match(ms, s, ep + 1) ELSE Null_(ms)
      ELSE CASE Is(suffix, "?") -> IF Settled(res) THEN res ELSE do_match(res, s, ep + 1)
             [] Is(suffix, "+") -> max_expand(ms, s + 1, Repetitions(ms, s + 1, p, ep), ep + 1)
             [] Is(suffix, "*") -> max_expand(ms, s, Repetitions(ms, s, p, ep), ep + 1)
             [] Is(suffix, "-") -> min_expand(ms, s, p, ep)
             [] OTHER -> do_match(ms, s + 1, ep)

escaped(ms, s, p) ==
  LET c == P_(ms, p + 1)
      ep == classend(ms, p + 2)
  IN  CASE Is(c, "b") -> Onward(matchbalance(ms, s, p + 2), p + 4)
        [] Is(c, "f") ->
             IF ~Is(P_(ms, p + 2), "[") THEN luaL_error(ms, "missing [ after %f")
             ELSE IF ep = 0 THEN luaL_error(ms, "malformed pattern")
             ELSE IF frontier(ms, s, p + 2, ep - 1) THEN do_match(ms, s, ep) ELSE Null_(ms)
        [] isdigit(c) -> Onward(match_capture(ms, s, c), p + 2)
        [] OTHER -> dflt(ms, s, p)

\* match: ms.at is the end of the match of pat[p ..] at s.
do_match(ms, s, p) ==
  LET c == P_(ms, p)
      last == p = Len(ms.pat)
  IN  CASE p > Len(ms.pat) -> [ms EXCEPT !.at = s]
        [] Is(c, "(") -> IF Is(P_(ms, p + 1), ")") THEN start_capture(ms, s, p + 2, CapPosition)
                         ELSE start_capture(ms, s, p + 1, CapUnfinished)
        [] Is(c, ")") -> end_capture(ms, s, p + 1)
        [] Is(c, "$") /\ last -> IF s = Len(ms.src) + 1 THEN [ms EXCEPT !.at = s] ELSE Null_(ms)
        [] c = L_ESC -> escaped(ms, s, p)
        [] OTHER -> dflt(ms, s, p)

-----------------------------------------------------------------------------
(* The library's functions *)

NewMatch(src, pat) == [src |-> src, pat |-> pat, at |-> 0, capture |-> <<>>, err |-> ""]
Again(ms, s) == do_match([ms EXCEPT !.capture = <<>>], s, 1)

\* Capture i of a match of src[s .. e - 1], or the match: [v, err].
push_onecapture(ms, i, s, e) ==
  LET c == ms.capture[i]
  IN  IF i > Len(ms.capture)
        THEN [v |-> TextValue(SubSeq(ms.src, s, e - 1)), err |-> IF i = 1 THEN "" ELSE "invalid capture index"]
      ELSE CASE c.len = CapUnfinished -> [v |-> TextValue(<<>>), err |-> "unfinished capture"]
             [] c.len = CapPosition -> [v |-> PositionValue(c.init), err |-> ""]
             [] OTHER -> [v |-> TextValue(SubSeq(ms.src, c.init, c.init + c.len - 1)), err |-> ""]

\* [vs, err]; without captures, the whole match, if that is wanted.
push_captures(ms, s, e, whole) ==
  LET n == IF ms.capture = <<>> /\ whole THEN 1 ELSE Len(ms.capture)
      pushed == [i \in 1 .. n |-> push_onecapture(ms, i, s, e)]
      bad == SelectInSeq(pushed, LAMBDA r : r.err # "")
  IN  IF bad # 0 THEN [vs |-> <<>>, err |-> pushed[bad].err]
      ELSE [vs |-> [i \in 1 .. n |-> pushed[i].v], err |-> ""]

Nothing_ == [vs |-> <<>>, err |-> ""]
Failed(ms) == [vs |-> <<>>, err |-> ms.err]

posrelat(pos, len) == IF pos >= 0 THEN pos ELSE IF -pos > len THEN 0 ELSE len + pos + 1

nospecials(pat) == \A i \in DOMAIN pat : ~IsAny(pat[i], "^$*+?.([%-")

\* lmemfind: the first place of pat in src from init on, or 0.
lmemfind(src, pat, init) ==
  LET places == {s \in init .. Len(src) + 1 - Len(pat) : SubSeq(src, s, s + Len(pat) - 1) = pat}
  IN  IF places = {} THEN 0 ELSE CHOOSE s \in places : \A r \in places : s <= r

RECURSIVE Search(_, _, _)
Search(ms, s, anchor) ==
  LET res == Again(ms, s)
  IN  IF Settled(res) \/ s > Len(ms.src) \/ anchor THEN [ms |-> res, s |-> s]
      ELSE Search(res, s + 1, anchor)

\* [vs, err]; vs empty stands for nil.
str_find_aux(src, pattern, start, plain, isfind) ==
  LET rel == posrelat(start, Len(src))
      init == IF rel < 1 THEN 1 ELSE rel
      s2 == lmemfind(src, pattern, init)
      anchor == Is(ByteAt(pattern, 1), "^")
      m == Search(NewMatch(src, IF anchor THEN Tail(pattern) ELSE pattern), init, anchor)
      captures == push_captures(m.ms, m.s, m.ms.at, ~isfind)
      bounds(s, e) == <<PositionValue(s), PositionValue(e)>>
  IN  IF init > Len(src) + 1 THEN Nothing_
      ELSE IF isfind /\ (plain \/ nospecials(pattern))
        THEN IF s2 = 0 THEN Nothing_
             ELSE [vs |-> bounds(s2, s2 + Len(pattern) - 1), err |-> ""]
      ELSE IF m.ms.at = 0 THEN Failed(m.ms)
      ELSE IF isfind /\ captures.err = "" THEN [captures EXCEPT !.vs = bounds(m.s, m.ms.at - 1) \o @]
      ELSE captures

\* All that the iterator returns, beginning at s: [vs, err], a sequence of vs.
RECURSIVE gmatch_aux(_, _)
gmatch_aux(ms, s) ==
  LET m == Search(ms, s, FALSE)
      captures == push_captures(m.ms, m.s, m.ms.at, TRUE)
      rest == gmatch_aux(m.ms, IF m.ms.at = m.s THEN m.s + 1 ELSE m.ms.at)
  IN  IF s > Len(ms.src) + 1 THEN Nothing_
      ELSE IF m.ms.at = 0 THEN Failed(m.ms)
      ELSE IF captures.err # "" THEN captures
      ELSE [rest EXCEPT !.vs = <<captures.vs>> \o @]
gmatch(src, pattern) == gmatch_aux(NewMatch(src, pattern), 1)

\* A number as text, for positions of up to nine.
tolstring(v) == IF v[1] = "position" THEN <<ByteOf["0"] + v[2]>> ELSE v[2]

\* What the replacement text makes of a match, from its i-th byte on: [b, err].
RECURSIVE add_s(_, _, _, _, _)
add_s(ms, news, i, s, e) ==
  LET c == ByteAt(news, i + 1)
      one == push_onecapture(ms, c - ByteOf["0"], s, e)
      Then(text, j) == LET rest == add_s(ms, news, j, s, e) IN [rest EXCEPT !.b = text \o @]
      Bad(what) == [b |-> <<>>, err |-> what]
  IN  IF i > Len(news) THEN [b |-> <<>>, err |-> ""]
      ELSE IF news[i] # L_ESC THEN Then(<<news[i]>>, i + 1)
      ELSE IF Is(c, "%") THEN Then(<<c>>, i + 2)
      ELSE IF ~isdigit(c) THEN Bad("invalid use of % in replacement string")
      ELSE IF Is(c, "0") THEN Then(SubSeq(ms.src, s, e - 1), i + 2)
      ELSE IF one.err # "" THEN Bad(one.err) ELSE Then(tolstring(one.v), i + 2)

\* repl is [kind, v]: the text, a function from captures to texts or a table
\* from the first capture; what they have nothing for stays as it is.
add_value(ms, s, e, repl) ==
  LET all == push_captures(ms, s, e, TRUE)
      one == push_onecapture(ms, 1, s, e)
      key == IF repl.kind = "function" THEN all.vs ELSE one.v
      err == IF repl.kind = "function" THEN all.err ELSE one.err
  IN  IF repl.kind = "string" THEN add_s(ms, repl.v, 1, s, e)
      ELSE [b |-> IF key \in DOMAIN repl.v THEN repl.v[key] ELSE SubSeq(ms.src, s, e - 1),
            err |-> err]

\* The rest of str_gsub from src on with n substitutions made: [b, n, err].
RECURSIVE GsubFrom(_, _, _, _, _, _)
GsubFrom(ms, src, n, max_s, anchor, repl) ==
  LET m == Again(ms, src)
      e == m.at
      value == IF e # 0 THEN add_value(m, src, e, repl) ELSE [b |-> <<>>, err |-> m.err]
      done == IF e # 0 THEN n + 1 ELSE n
      moved == IF e > src THEN e ELSE src + 1
      copied == IF e > src THEN <<>> ELSE SubSeq(ms.src, src, src)
      Stop(at, count) == [b |-> SubSeq(ms.src, at, Len(ms.src)), n |-> count, err |-> ""]
      rest == IF anchor THEN Stop(moved, done) ELSE GsubFrom(m, moved, done, max_s, anchor, repl)
  IN  IF n >= max_s THEN Stop(src, n)
      ELSE IF value.err # "" THEN [b |-> <<>>, n |-> 0, err |-> value.err]
      ELSE IF e <= src /\ src > Len(ms.src) THEN [b |-> value.b, n |-> done, err |-> ""]
      ELSE [rest EXCEPT !.b = value.b \o copied \o @]

str_gsub(src, pattern, repl, max_s) ==
  LET anchor == Is(ByteAt(pattern, 1), "^")
  IN  GsubFrom(NewMatch(src, IF anchor THEN Tail(pattern) ELSE pattern), 1, 0, max_s, anchor, repl)

=============================================================================
