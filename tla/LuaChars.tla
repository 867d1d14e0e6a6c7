------------------------------ MODULE LuaChars ------------------------------
(***************************************************************************)
(* Characters as the Lua interpreter sees them: bytes 0 .. 255, of which   *)
(* the "C" locale classifies the first 128.  A text is a sequence of them. *)
(***************************************************************************)
EXTENDS Integers, Sequences, FiniteSets, SequencesExt

\* The characters from 32, and from 97.
Upper == " !\"#$%&'()*+,-./0123456789:;<=>?@ABCDEFGHIJKLMNOPQRSTUVWXYZ[\\]^_"
Lower == "abcdefghijklmnopqrstuvwxyz{|}~"
Glyph(c) == IF c < 97 THEN SubSeq(Upper, c - 31, c - 31) ELSE SubSeq(Lower, c - 96, c - 96)

\* The byte of a one-character string, and the text of a string.
ByteOf == [x \in {Glyph(c) : c \in 32 .. 95 \cup 97 .. 126} |->
             CHOOSE c \in 32 .. 95 \cup 97 .. 126 : Glyph(c) = x]
Bytes(s) == [i \in 1 .. Len(s) |-> ByteOf[SubSeq(s, i, i)]]

\* What follows a text in memory, and what reading past its end returns.
NUL == 0
ByteAt(s, i) == IF i \in DOMAIN s THEN s[i] ELSE NUL

isdigit(c) == c \in 48 .. 57
isupper(c) == c \in 65 .. 90
islower(c) == c \in 97 .. 122
isalpha(c) == isupper(c) \/ islower(c)
isalnum(c) == isalpha(c) \/ isdigit(c)
isxdigit(c) == isdigit(c) \/ c \in 65 .. 70 \/ c \in 97 .. 102
isspace(c) == c \in 9 .. 13 \/ c = 32
iscntrl(c) == c \in 0 .. 31 \/ c = 127
isgraph(c) == c \in 33 .. 126
ispunct(c) == isgraph(c) /\ ~isalnum(c)
tolower(c) == IF isupper(c) THEN c + 32 ELSE c

luaO_hexavalue(c) == IF isdigit(c) THEN c - 48 ELSE tolower(c) - 97 + 10

=============================================================================
