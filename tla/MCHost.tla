-------------------------------- MODULE MCHost --------------------------------
(***************************************************************************)
(* The parts beside the relay and the rover's threads, each on its own in  *)
(* one run: a behaviour is about one subject, the others stay as they are. *)
(***************************************************************************)
EXTENDS LuaCfg, Value, Telemetry, Helpers, LuaLibrary

VARIABLE subject

hostVars == <<subject, cfgVars, valueVars, telemetryVars, fileVars, asked, libcall>>

HostInit ==
  /\ subject \in {"config", "value", "telemetry", "files", "helpers", "library"}
  /\ CfgInit /\ ValueInit /\ TelemetryInit /\ FileInit /\ HelpersInit /\ LibraryInit
  /\ subject # "config" => luaPath = <<>> /\ job[1] = CHOOSE t \in Table : TRUE
  /\ subject # "telemetry" => nextField = 0
  /\ subject # "files" => files = {}

About(s, others) == subject = s /\ UNCHANGED <<subject, others>>

HostNext ==
  \/ About("config", <<valueVars, telemetryVars, fileVars, asked, libcall>>) /\ CfgNext
  \/ About("value", <<cfgVars, telemetryVars, fileVars, asked, libcall>>) /\ ValueNext
  \/ About("telemetry", <<cfgVars, valueVars, fileVars, asked, libcall>>) /\ TelemetryNext
  \/ About("files", <<cfgVars, valueVars, telemetryVars, asked, libcall>>) /\ FileNext
  \/ About("helpers", <<cfgVars, valueVars, telemetryVars, fileVars, libcall>>) /\ HelpersNext
  \/ About("library", <<cfgVars, valueVars, telemetryVars, fileVars, asked>>) /\ LibraryNext

HostSpec == HostInit /\ [][HostNext]_hostVars

-----------------------------------------------------------------------------
(* Instances *)

\* In fourths: -1/4 and 0 are equal up to an epsilon, 17/4 is too much for a byte.
MCNumber == {-1, 0, 17}
MCText == {"", "false", "7"}
MCDecimal == [s \in MCText |-> IF s = "7" THEN 7 ELSE 0]

MCCwd == <<<<"w">>>>
MCPlainFile == <<<<"w">>, <<"a">>>>
MCCallPath == {<<"a", "/", "b", "/">>, <<"a", "/", "b">>, <<"/", "/">>,
               <<"/", "w", "/", "a", "/", "c">>}

MCTexts == SeqOf({"a", "b"}, 3)
MCFormats == SeqOf({"a", "b", "*"}, 4)
MCPaths == SeqOf({"a", "/", "."}, 4)
MCDates == {d \in [year : {2023, 2024}, mon : 1 .. 12,
                    day : {1, 2, 14} \cup 28 .. 31, sec : {0, 86399}] :
              d.day <= MonthLength(d.year, d.mon - 1)}
MCDeltas == {0, 1, -1, 86400, -86400, 1200000, 5000000}
MCTokens == {Fields[f] : f \in DOMAIN Fields} \cup
            {<<"Y", "y", "y", "y">>, <<"m", "m">>, <<"m", "I">>, <<"d", "D">>,
             <<"h", "h">>, <<"s", "s">>, <<"-">>, <<" ">>}

\* Tables t with nothing, a quoted brace and both kinds of comment in them, a
\* table xt, a table tx, and t in a comment of each kind and in a text.
MCName == <<"t">>
MCItems == {
  <<"t", "=", "{", "}", "\n">>,
  <<"t", "=", "{", "x", "=", "\"", "}", "\"", "}", "\n">>,
  <<"t", "=", "{", "-", "-", "}", "\r", "\n", "}", "\n">>,
  <<"t", "=", "{", "-", "-", "[", "[", "}", "]", "]", "{", "}", "}", "\n">>,
  <<"x", "t", "=", "{", "t", "}", "\n">>,
  <<"t", "x", "=", "{", "}", "\n">>,
  <<"-", "-", " ", "t", "\n">>,
  <<"-", "-", "[", "[", " ", "t", "=", "{", " ", "]", "]", "\n">>,
  <<"x", "=", "\"", "-", "-", " ", "t", "\"", "\n">>,
  <<"-", "-", "\n">>}

\* Items of patterns: a class with its suffix, and the others.
AByte == ByteOf["a"]
BByte == ByteOf["b"]
Either == {AByte, BByte, ByteOf["$"], ByteOf["^"]}
Class(text, S, min, max, lazy) ==
  [kind |-> "class", text |-> Bytes(text), S |-> S, min |-> min, max |-> max, lazy |-> lazy]
Item(kind, text, S) ==
  [kind |-> kind, text |-> Bytes(text), S |-> S, n |-> 1, x |-> AByte, y |-> BByte]
Open == Item("open", "(", {})
Close == Item("close", ")", {})
MCPatternTexts == SeqOf({AByte, BByte}, 3)
MCPatternItems == {
  Class("a", {AByte}, 1, 1, FALSE), Class(".-", Either, 0, 9, TRUE),
  Class("[^b]*", Either \ {BByte}, 0, 9, FALSE), Class("%l+", {AByte, BByte}, 1, 9, FALSE),
  Class("b?", {BByte}, 0, 1, FALSE),
  Open, Close, Item("back", "%1", {}), Item("balance", "%bab", {}),
  Item("frontier", "%f[b]", {BByte}), Item("begin", "^", {ByteOf["^"]}), Item("end", "$", {ByteOf["$"]})}

\* All short patterns, and longer ones around a capture.
MCPatterns ==
  SeqOf(MCPatternItems, 3)
    \cup {<<Open, x, Close, y>> : x \in MCPatternItems, y \in MCPatternItems}
    \cup {<<Open, x, y, Close, z>> : x \in MCPatternItems, y \in MCPatternItems, z \in MCPatternItems}

\* Code points around every limit; bytes that begin and continue characters.
MCCodePoints == {65, 127, 128, 2047, 2048, 65535, 65536, 1114111}
MCOddBytes == {65, 128, 143, 144, 160, 191, 193, 194, 224, 237, 240, 244, 245}

\* Tokens with their values, and the lines they go over.
LF == <<10>>
CR == <<13>>
Lexeme(text, token, v, lines) == [text |-> text, token |-> token, v |-> v, lines |-> lines]
Sign(s) == Lexeme(Bytes(s), s, 0, 0)
Quoted == Bytes("'a\\65\\x4a\\u{7FF}\\z ") \o CR \o LF \o Bytes(" \\\"\\n\\") \o LF \o Bytes("'")
Long == Bytes("[=[") \o LF \o Bytes("]]") \o CR \o Bytes("]=]")
MCLexemes ==
  {Sign(s) : s \in {"+", "-", "=", "==", "<", "<=", ".", "..", "...", "[", "~=", "::", "/", "//", ">>", "end"}}
    \cup {Lexeme(Quoted, "<string>", <<97, 65, 74, 223, 191, 34, 10, 10>>, 2),
          Lexeme(Long, "<string>", Bytes("]]") \o LF, 2),
          Lexeme(Bytes("ends"), "<name>", Bytes("ends"), 0),
          Lexeme(Bytes("12"), "<integer>", 12, 0), Lexeme(Bytes("0x1F"), "<integer>", 31, 0),
          Lexeme(Bytes("3.5e+1"), "<number>", Bytes("3.5e+1"), 0), Lexeme(Bytes(".5"), "<number>", Bytes(".5"), 0)}
Space(text, lines) == [text |-> text, lines |-> lines]
MCSpaces ==
  {Space(<<>>, 0), Space(CR \o LF, 1), Space(Bytes("--") \o LF, 1),
   Space(Bytes("--[[]") \o LF \o LF \o Bytes("--]]"), 2), Space(Bytes("--[==[]=]]==]"), 0),
   Space(Bytes("--[= ") \o LF \o CR \o LF, 2)}
MCMalformed ==
  {Bytes(s) : s \in {"'a", "'\\q'", "'\\300'", "'\\xg1'", "'\\u{110000}'", "'\\u{}'", "'\\u{41'",
                     "0x", "3..2", "1e", "[=a", "[[a]", "--[[ ]", "'a\\"}} \cup {Bytes("'a") \o LF \o Bytes("'")}

MCLists ==
  {[i \in DOMAIN ns |-> Bytes(ToString(ns[i]))] : ns \in
     {<<>>, <<1>>, <<2, 1>>, <<2, 3, 1>>, <<3, 1, 2, 1>>, <<2, 3, 1, 3, 2>>,
      <<3, 1, 2, 3, 1, 2, 1>>, <<1, 3, 2, 1, 3, 2, 1, 3>>}}
MCOrders == LET V == {Bytes("1"), Bytes("2"), Bytes("3")} IN SUBSET (V \X V)

=============================================================================
