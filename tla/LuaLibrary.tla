----------------------------- MODULE LuaLibrary -----------------------------
(***************************************************************************)
(* The Lua interpreter's functions on text and lists, called with one      *)
(* argument after another: patterns, UTF-8, the lexer and table.sort with  *)
(* its neighbours, each against a definition of what it is for.            *)
(***************************************************************************)
EXTENDS LuaPattern, LuaLexer, LuaTabLib

CONSTANTS
  PatternTexts,            \* texts to match,
  Patterns,                \* and patterns, sequences of items
  CodePoints, MaxCodes,    \* characters
  OddBytes, MaxOdd,        \* bytes that need not make up characters
  Lexemes, Spaces,         \* tokens, two in a text, and what is between them
  Malformed,               \* texts that are no tokens
  Lists, Orders            \* arrays and orders to sort them by

VARIABLE libcall   \* the call being answered: [op, args], or NoCall

NoCall == [op |-> "none", args |-> <<>>]

LibraryInit == libcall = NoCall

CallOn(op, args) == libcall' = [op |-> op, args |-> args]

CallMatch == \E s \in PatternTexts, items \in Patterns : CallOn("match", <<s, items>>)
CallCodes == \E codes \in SeqOf(CodePoints, MaxCodes) : CallOn("codes", <<codes>>)
CallBytes == \E s \in SeqOf(OddBytes, MaxOdd) : CallOn("bytes", <<s>>)
CallLexer == \E a \in Lexemes, b \in Lexemes, s \in Spaces : CallOn("lexer", <<<<a, b>>, s>>)
CallWrong == \E s \in Malformed : CallOn("malformed", <<s>>)
CallSort  == \E a \in Lists, lt \in Orders : CallOn("sort", <<a, lt>>)
CallMove  == \E a \in Lists, f, e, t \in {-MaxInteger - 1, -1, 1, 2, 3, MaxInteger} : CallOn("move", <<a, f, e, t>>)
CallEdit  == \E a \in Lists, pos \in 0 .. 5 : CallOn("edit", <<a, pos>>)
Returned_ == libcall # NoCall /\ libcall' = NoCall

LibraryNext ==
  \/ /\ libcall = NoCall
     /\ CallMatch \/ CallCodes \/ CallBytes \/ CallLexer \/ CallWrong \/ CallSort \/ CallMove \/ CallEdit
  \/ Returned_

-----------------------------------------------------------------------------
(* What a pattern means.  Its items are matched one after another.  Of all  *)
(* the ways to do it, in their order of preference, the first one counts.   *)

PatternText(items) == FlattenSeq([k \in DOMAIN items |-> items[k].text])

\* The lengths of a class with its suffix at s[i], the preferred ones first.
RunsOf(s, i, item) ==
  LET Fits_(n) == /\ n \in item.min .. item.max
                  /\ \A k \in i .. i + n - 1 : k <= Len(s) /\ s[k] \in item.S
      lengths == SelectSeq([n \in 1 .. Len(s) + 1 |-> n - 1], Fits_)
  IN  IF item.lazy THEN lengths ELSE Reverse(lengths)

OneOf(S) == [S |-> S, min |-> 1, max |-> 1, lazy |-> FALSE]

\* Where the balanced text at s[i] ends, if there is one.
BalancedEnds(s, i, x, y) ==
  LET Count_(c, e) == Cardinality({k \in i .. e : s[k] = c})
      even == {e \in i .. Len(s) : Count_(x, e) = Count_(y, e)}
  IN  IF i \in DOMAIN s /\ s[i] = x THEN {e \in even : \A d \in even : e <= d} ELSE {}

IsPosition(items, k) ==
  k < Len(items) /\ items[k].kind = "open" /\ items[k + 1].kind = "close"
OpenCapture(caps) == SelectLastInSeq(caps, LAMBDA c : c.end = 0)

\* All ways to match the items from the k-th on at s[i]: [at, caps].
RECURSIVE Ways(_, _, _, _, _)
Ways(s, items, k, i, caps) ==
  LET item == items[k]
      last == k = Len(items)
      From(runs) == FlattenSeq([n \in DOMAIN runs |-> Ways(s, items, k + 1, i + runs[n], caps)])
      If(holds, at) == IF holds THEN Ways(s, items, k + 1, at, caps) ELSE <<>>
      c == caps[item.n]
      again == SubSeq(s, c.init, c.end - 1)
      even == BalancedEnds(s, i, item.x, item.y)
  IN  CASE k > Len(items) -> <<[at |-> i, caps |-> caps]>>
        [] IsPosition(items, k) -> Ways(s, items, k + 2, i, Append(caps, [init |-> i, end |-> -1]))
        [] item.kind = "open" -> Ways(s, items, k + 1, i, Append(caps, [init |-> i, end |-> 0]))
        [] item.kind = "close" -> Ways(s, items, k + 1, i, [caps EXCEPT ![OpenCapture(caps)].end = i])
        [] item.kind = "back" -> If(c.end > 0 /\ IsPrefix(again, SubSeq(s, i, Len(s))), i + Len(again))
        [] item.kind = "balance" -> If(even # {}, Max(even \cup {i}) + 1)
        [] item.kind = "frontier" ->
             If(i \in DOMAIN s /\ s[i] \in item.S /\ (i = 1 \/ s[i - 1] \notin item.S), i)
        [] item.kind = "end" /\ last -> If(i = Len(s) + 1, i)
        [] item.kind = "begin" /\ k = 1 -> If(i = 1, i)
        [] item.kind \in {"begin", "end"} /\ ~(last /\ item.kind = "end") -> From(RunsOf(s, i, OneOf(item.S)))
        [] item.kind = "class" -> From(RunsOf(s, i, item))

\* Captures nest and are complete, also the one that %1 refers to.
WellFormed(items) ==
  LET Depth(k) == Cardinality({j \in 1 .. k : items[j].kind = "open"})
                    - Cardinality({j \in 1 .. k : items[j].kind = "close"})
      Closes(k) == CHOOSE j \in k .. Len(items) : Depth(j) < Depth(k) /\ \A m \in k .. j - 1 : Depth(m) >= Depth(k)
      opens == SelectSeq([k \in DOMAIN items |-> k], LAMBDA k : items[k].kind = "open")
  IN  /\ \A k \in DOMAIN items : Depth(k) >= 0
      /\ Depth(Len(items)) = 0
      /\ \A k \in DOMAIN items : items[k].kind = "back" =>
           Len(opens) >= items[k].n /\ opens[items[k].n] < k /\ Closes(opens[items[k].n]) < k

\* The matches in s from i on, one behind the other: [s, at, caps].
RECURSIVE Matches(_, _, _)
Matches(s, items, i) ==
  LET starts == {j \in i .. Len(s) + 1 : Ways(s, items, 1, j, <<>>) # <<>>}
      j == Min(starts)
      w == Ways(s, items, 1, j, <<>>)[1]
  IN  IF starts = {} THEN <<>>
      ELSE <<[s |-> j, at |-> w.at, caps |-> w.caps]>>
             \o Matches(s, items, IF w.at = j THEN j + 1 ELSE w.at)

Value_(s, c) == IF c.end = -1 THEN PositionValue(c.init) ELSE TextValue(SubSeq(s, c.init, c.end - 1))
CapturesOf(s, m) == [n \in DOMAIN m.caps |-> Value_(s, m.caps[n])]
WholeOr(s, m) == IF m.caps = <<>> THEN <<TextValue(SubSeq(s, m.s, m.at - 1))>> ELSE CapturesOf(s, m)

\* s with these matches replaced by what R(m) says.
RECURSIVE Substituted(_, _, _, _)
Substituted(s, ms, i, news) ==
  IF ms = <<>> THEN SubSeq(s, i, Len(s))
  ELSE LET m == Head(ms)
       IN  SubSeq(s, i, m.s - 1)
             \o (CASE news = "same" -> SubSeq(s, m.s, m.at - 1)
                   [] news = "first" -> Bytes("<") \o tolstring(WholeOr(s, m)[1]) \o Bytes("%>")
                   [] news = "table" -> IF WholeOr(s, m)[1] = TextValue(Bytes("a")) THEN Bytes("X")
                                        ELSE SubSeq(s, m.s, m.at - 1))
             \o Substituted(s, Tail(ms), m.at, news)

Replacement == [same |-> [kind |-> "string", v |-> Bytes("%0")],
                first |-> [kind |-> "string", v |-> Bytes("<%1%%>")],
                table |-> [kind |-> "table", v |-> [x \in {TextValue(Bytes("a"))} |-> Bytes("X")]]]

PatternAgrees(s, items) ==
  LET pattern == PatternText(items)
      ms == Matches(s, items, 1)
      found == str_find_aux(s, pattern, 1, FALSE, TRUE)
      matched == str_find_aux(s, pattern, 1, FALSE, FALSE)
      all == gmatch(s, pattern)
      anchored == items # <<>> /\ items[1].kind = "begin"
      Expect(vs) == [vs |-> IF ms = <<>> THEN <<>> ELSE vs, err |-> ""]
  IN  IF ~WellFormed(items) THEN found.vs = <<>> /\ matched.vs = <<>>
      ELSE /\ found = Expect(<<PositionValue(ms[1].s), PositionValue(ms[1].at - 1)>> \o CapturesOf(s, ms[1]))
           /\ matched = Expect(WholeOr(s, ms[1]))
           /\ ~anchored => all = [vs |-> [n \in DOMAIN ms |-> WholeOr(s, ms[n])], err |-> ""]
           /\ \A news \in DOMAIN Replacement, max_s \in {1, Len(s) + 1} :
                LET some == IF max_s < Len(ms) THEN SubSeq(ms, 1, max_s) ELSE ms
                IN  str_gsub(s, pattern, Replacement[news], max_s)
                      = [b |-> Substituted(s, some, 1, news), n |-> Len(some), err |-> ""]

-----------------------------------------------------------------------------
(* UTF-8 *)

Size(c) == IF c < 128 THEN 1 ELSE IF c < 2048 THEN 2 ELSE IF c < 65536 THEN 3 ELSE 4

\* Texts made of characters have these characters, at these places.
CodesAgree(codes) ==
  LET text == utfchar(codes)
      Begin(n) == 1 + FoldLeft(LAMBDA sum, c : sum + Size(c), 0, SubSeq(codes, 1, n - 1))
      count == Len(codes)
  IN  /\ Len(text) = Begin(count + 1) - 1
      /\ utflen(text, 1, -1) = <<count>>
      /\ codepoint(text, 1, -1) = codes
      /\ iter_codes(text, 0) = [n \in 1 .. count |-> <<Begin(n), codes[n]>>]
      /\ \A n \in 1 .. count : /\ byteoffset(text, n, 1) = <<Begin(n)>>
                               /\ byteoffset(text, n - count - 1, Len(text) + 1) = <<Begin(n)>>
                               /\ \A i \in Begin(n) .. Begin(n + 1) - 1 : byteoffset(text, 0, i) = <<Begin(n)>>

\* The shortest forms of the code points up to MAXUNICODE.
IsCharacter(b) ==
  LET Rest(n) == \A k \in n .. Len(b) : b[k] \in 128 .. 191
  IN  \/ Len(b) = 1 /\ b[1] < 128
      \/ Len(b) = 2 /\ b[1] \in 194 .. 223 /\ Rest(2)
      \/ Len(b) = 3 /\ b[1] \in 224 .. 239 /\ Rest(2) /\ (b[1] = 224 => b[2] >= 160)
      \/ Len(b) = 4 /\ b[1] \in 240 .. 244 /\ Rest(2) /\ (b[1] = 240 => b[2] >= 144) /\ (b[1] = 244 => b[2] < 144)

RECURSIVE IsUtf8(_)
IsUtf8(s) == s = <<>> \/ \E n \in 1 .. 4 : n <= Len(s) /\ IsCharacter(SubSeq(s, 1, n)) /\ IsUtf8(SubSeq(s, n + 1, Len(s)))

\* len and codes accept nothing else, and len says where it goes wrong.
BytesAgree(s) ==
  LET good == {p \in 1 .. Len(s) + 1 : IsUtf8(SubSeq(s, 1, p - 1))}
      codes == iter_codes(s, 0)
  IN  IF IsUtf8(s) THEN Len(utflen(s, 1, -1)) = 1 /\ (codes = <<>> \/ Last(codes) # Raised)
      ELSE utflen(s, 1, -1) = <<"nil", Max(good)>> /\ Last(codes) = Raised

-----------------------------------------------------------------------------
(* Tokens *)

\* Would a longer token, a comment or a long bracket begin where a and b meet?
Glued(a, b) ==
  LET first == Head(b.text)
      end == Last(a.text)
      both == a.text \o <<first>>
  IN  \/ lislalnum(end) /\ lislalnum(first)
      \/ a.token \in {"<integer>", "<number>"} /\ first = ByteOf["."]
      \/ a.text = Bytes(".") /\ isdigit(first)
      \/ \E x \in {"==", "<=", "<<", ">=", ">>", "//", "~=", "::", "..", "...", "--", "[[", "[="} : both = Bytes(x)

\* A text of tokens is read as these tokens, and its lines are counted.
LexerAgrees(ls, space) ==
  LET n == Len(ls)
      text == FlattenSeq([k \in 1 .. n |-> ls[k].text \o space.text])
      lines == FoldLeft(LAMBDA sum, l : sum + l.lines + space.lines, 1, ls)
      Follows(k) == IF space.text = <<>> THEN ls[k + 1] ELSE space
  IN  (\A k \in 1 .. n : (k = n /\ space.text = <<>>) \/ ~Glued(ls[k], Follows(k))) =>
        Lexed(text) = [tokens |-> [k \in 1 .. n |-> [token |-> ls[k].token, v |-> ls[k].v]],
                       err |-> "", lines |-> lines]

-----------------------------------------------------------------------------
(* Lists *)

StrictWeakOrder(lt, V) ==
  LET Incomparable(x, y) == <<x, y>> \notin lt /\ <<y, x>> \notin lt
  IN  /\ \A x \in V : <<x, x>> \notin lt
      /\ \A x, y, z \in V : <<x, y>> \in lt /\ <<y, z>> \in lt => <<x, z>> \in lt
      /\ \A x, y, z \in V : Incomparable(x, y) /\ Incomparable(y, z) => Incomparable(x, z)

\* Whatever the order function says, sort stays within the array and neither
\* loses nor doubles an element; with a strict weak order it sorts.
SortAgrees(a, lt) ==
  LET r == sort(lt, a)
  IN  /\ \A v \in Range(a) \cup Range(r.a) :
           Cardinality({k \in DOMAIN a : a[k] = v}) = Cardinality({k \in DOMAIN r.a : r.a[k] = v})
      /\ StrictWeakOrder(lt, Range(a)) => r.ok /\ \A j, k \in DOMAIN a : j < k => <<r.a[k], r.a[j]>> \notin lt

\* move copies all at once, and only where every position is an integer.
MoveAgrees(a, f, e, t) ==
  LET r == tmove(a, f, e, t)
      n == e - f + 1
  IN  IF n > 0 /\ (n > MaxInteger \/ t + n - 1 > MaxInteger) THEN r.err # "" /\ r.t = a
      ELSE /\ r.err = ""
           /\ \A k \in -MaxInteger - 1 .. MaxInteger :
                geti(r.t, k) = geti(a, IF k - t \in 0 .. n - 1 THEN f + k - t ELSE k)

\* insert makes room, remove closes the gap, concat is as long as its parts.
EditAgrees(a, pos) ==
  LET n == Len(a)
      put == tinsert(a, n, pos, Bytes("n"))
      gone == tremove(put.t, n + 1, pos)
      text == tconcat(a, Bytes(", "), 1, n)
  IN  /\ put.err = "" <=> pos \in 1 .. n + 1
      /\ put.err = "" => put.t = InsertAt(a, pos, Bytes("n")) /\ gone = Returns(a, <<Bytes("n")>>)
      /\ pack(unpack(a, 1, n).vs) = a
      /\ Len(text.vs) = n + (IF n = 0 THEN 0 ELSE 2 * (n - 1))

-----------------------------------------------------------------------------

\* What the library answers, against what the call is for.
Answers(call) ==
  LET a == call.args
  IN  CASE call.op = "match" -> PatternAgrees(a[1], a[2])
        [] call.op = "codes" -> CodesAgree(a[1])
        [] call.op = "bytes" -> BytesAgree(a[1])
        [] call.op = "lexer" -> LexerAgrees(a[1], a[2])
        [] call.op = "malformed" -> Lexed(a[1]).err # ""
        [] call.op = "sort" -> SortAgrees(a[1], a[2])
        [] call.op = "move" -> MoveAgrees(a[1], a[2], a[3], a[4])
        [] call.op = "edit" -> EditAgrees(a[1], a[2])

\* Every call of the library that returns was answered as the function it
\* calls is for: lstrlib.c, lutf8lib.c, llex.c and ltablib.c.
LibraryAgrees == [][Returned_ => Answers(libcall)]_libcall

=============================================================================
