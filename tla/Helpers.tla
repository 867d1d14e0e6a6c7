------------------------------- MODULE Helpers -------------------------------
(***************************************************************************)
(* The functions of rc_server that keep no state, each called with one     *)
(* argument after another: names and patterns (CFileUtil), dates           *)
(* (CTimeUtil) and the scanners of the configuration text (CLuaCfg).       *)
(***************************************************************************)
EXTENDS FileUtil, TimeUtil, CfgText

CONSTANTS
  Texts, Formats,   \* arguments of strpp
  Paths,            \* file names
  Dates, Deltas,    \* arguments of AddSec
  Tokens, MaxToken, \* a time format is a sequence of at most MaxToken Tokens
  Items, MaxItem,   \* a configuration is a sequence of at most MaxItem Items
  Name              \* the table looked for

-----------------------------------------------------------------------------
(* Names and patterns *)

LastIn(s, cs) == LET at == {i \in DOMAIN s : s[i] \in cs}
                 IN  IF at = {} THEN 0 ELSE CHOOSE i \in at : \A j \in at : j <= i

From(s, i) == SubSeq(s, i, Len(s))

getFilePath(path) == SubSeq(path, 1, LastIn(path, {"/"}) - 1)

\* A backslash separates only where there is no slash.
getFileName(path) ==
  IF LastIn(path, {"/"}) # 0 THEN From(path, LastIn(path, {"/"}) + 1)
                             ELSE From(path, LastIn(path, {"\\"}) + 1)

\* Without a dot the whole path, with its directories; a dot in a directory
\* makes the count negative, which substr takes for "to the end".
getFileNameWithOutPostfix(path) ==
  LET dot == LastIn(path, {"."})
      sep == LastIn(path, {"/"})
  IN  CASE dot = 0 -> path
        [] dot # 0 /\ dot < sep -> From(path, sep + 1)
        [] OTHER -> SubSeq(path, sep + 1, dot - 1)

\* strpp's loop: the text and the format as far as they are left over.  The
\* format is taken back by the i characters matched since the star.
RECURSIVE match(_, _, _, _)
match(s, f, i, star) ==
  LET form == f[i + 1]                \* f starts i characters back
  IN  IF s = <<>> \/ i = Len(f) THEN [s |-> s, f |-> From(f, i + 1)]
      ELSE IF form = "*" THEN match(s, From(f, i + 2), 0, TRUE)
      ELSE IF Head(s) = form THEN match(Tail(s), f, i + 1, star)
      ELSE IF star THEN match(Tail(s), f, 0, star)
      ELSE [s |-> s, f |-> <<"no">>]

\* Mutant: a format that is used up matches, whatever is left of the text.
strppMutant(s, f) == match(s, f, 0, FALSE).f = <<>>

strpp(s, f) ==
  LET m == match(s, f, 0, FALSE)
  IN  m.f = <<>> /\ (m.s = <<>> \/ (f # <<>> /\ Last(f) = "*"))

\* What a pattern means: a star stands for any text.
RECURSIVE Glob(_, _)
Glob(s, f) ==
  IF f = <<>> THEN s = <<>>
  ELSE IF Head(f) = "*" THEN \E n \in 0 .. Len(s) : Glob(From(s, n + 1), Tail(f))
  ELSE s # <<>> /\ Head(s) = Head(f) /\ Glob(Tail(s), Tail(f))

-----------------------------------------------------------------------------
(* The calls *)

VARIABLE asked   \* the call being answered: [op, args], or Nothing

Nothing == [op |-> "none", args |-> <<>>]

HelpersInit == asked = Nothing

Ask(op, args) == asked' = [op |-> op, args |-> args]

AskPattern == \E s \in Texts, f \in Formats : Ask("pattern", <<s, f>>)
AskPath    == \E path \in Paths : Ask("path", <<path>>)
AskDate    == \E d \in Dates, sec \in Deltas : Ask("date", <<d, sec>>)
AskFormat  == \E ts \in SeqOf(Tokens, MaxToken) : Ask("format", <<ts>>)
AskTable   == \E items \in SeqOf(Items, MaxItem) : Ask("table", <<items>>)
Answered   == asked # Nothing /\ asked' = Nothing

HelpersNext ==
  \/ asked = Nothing /\ (AskPattern \/ AskPath \/ AskDate \/ AskFormat \/ AskTable)
  \/ Answered

-----------------------------------------------------------------------------
(* Properties *)

\* strpp never says yes to a text its format does not describe.  It says no only
\* to one that it does not describe where the format has no star, or is like
\* ab*f*, the one in its comment: a star at the end, single characters between
\* the stars; the last star then stands for one character at least.  To a text
\* of another format it may say no wrongly: README, 7.
LikeTheExample(f) ==
  /\ f # <<>> /\ Last(f) = "*"
  /\ \A i, j, k \in DOMAIN f : i < j /\ k = j + 1 /\ f[i] = "*" => "*" \in {f[j], f[k]}
PatternIsSound(s, f) ==
  /\ strpp(s, f) => Glob(s, f)
  /\ "*" \notin Range(f) => (strpp(s, f) <=> s = f)
  /\ LikeTheExample(f) => (strpp(s, f) <=> s # <<>> /\ Glob(Front(s), f))

\* Path and name of a file make up the file, and a name without its postfix is
\* the beginning of the name, where there is a postfix.
NameIsPartOfPath(path) ==
  LET stem == getFileNameWithOutPostfix(path)
      name == getFileName(path)
  IN  /\ "/" \in Range(path) => getFilePath(path) \o <<"/">> \o name = path
      /\ "." \in Range(path) => IsPrefix(stem, name)

\* AddSec is a month and 1900 years off inside.  It is right when the month it
\* comes from is as long as the one it comes to, and the day it comes to is also
\* one of the month after; and it is wrong for every other date and delta.
AddSecIsExact(d, sec) ==
  LET exact == localtime(Later(GetSec(d), sec))
      Length(m) == MonthLength(exact.year + 1900, m)
  IN  AddSec(d, sec) = [exact EXCEPT !.year = @ + 1900, !.mon = @ + 1]
        <=> /\ MonthLength(d.year, d.mon - 1) = Length(exact.mon)
            /\ exact.day <= Length(exact.mon + 1)

\* The digits of the date in the order of the format's fields, which may be
\* spelt in capitals or not.
Digits == [i \in 1 .. 14 |-> ToString(i % 10)]
UpperCase(c) == IF \E u \in DOMAIN Small : Small[u] = c
                  THEN CHOOSE u \in DOMAIN Small : Small[u] = c ELSE c
Rendered(t) ==
  LET field == [j \in DOMAIN t |-> UpperCase(t[j])]
  IN  IF \E f \in DOMAIN Fields : Fields[f] = field
        THEN LET f == CHOOSE f \in DOMAIN Fields : Fields[f] = field
             IN  SubSeq(Digits, Offset[f], Offset[f] + Len(t) - 1)
        ELSE t
FormatIsFilledIn(ts) ==
  GetTimeByFormat(FlattenSeq(ts), Digits) = FlattenSeq([i \in DOMAIN ts |-> Rendered(ts[i])])

\* The helpers of rc_server on every argument asked about: taking paths apart and
\* filling in a time format against what their names promise, matching and date
\* arithmetic as far as they are right.
HelpersAgree ==
  LET a == asked.args
  IN  CASE asked.op = "pattern" -> PatternIsSound(a[1], a[2])
        [] asked.op = "path" -> NameIsPartOfPath(a[1])
        [] asked.op = "date" -> AddSecIsExact(a[1], a[2])
        [] asked.op = "format" -> FormatIsFilledIn(a[1])
        [] OTHER -> TRUE

\* In a configuration of whole tables and comments findBeginOfTable finds the
\* first table whose name begins with the one asked for, never one whose name
\* only ends with it nor a mention in a comment or a text, and findEndOfTable
\* its closing brace; without such a table it says so, and table2file appends.
\* So it finds the table asked for, unless one of a longer name, which begins
\* like it, stands before it or instead of it, or one that ends with it and has
\* its letters twice, which none of the configurations has (README, 7).
FindsItsTable ==
  asked.op = "table" =>
    LET items == asked.args[1]
        str == FlattenSeq(items)
        mine == {i \in DOMAIN items : IsAt(items[i], 0, Name)}
        begin == Len(FlattenSeq(SubSeq(items, 1, Min(mine) - 1)))
    IN  IF mine = {} THEN findBeginOfTable(str, Name) = -1
        ELSE /\ findBeginOfTable(str, Name) = begin
             /\ findEndOfTable(str, begin) = begin + Len(items[Min(mine)]) - 2

=============================================================================
