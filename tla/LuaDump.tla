------------------------------- MODULE LuaDump -------------------------------
(***************************************************************************)
(* Precompiled chunks of the Lua interpreter: luasrc/ldump.c writes a      *)
(* Proto, luasrc/lundump.c reads it back.                                  *)
(*                                                                         *)
(* A chunk is a sequence of pairs <<width, value>>, the width being the    *)
(* type that is written and has to be read.  In the record s of the        *)
(* reader, rest is what is left of the chunk, v what was read last, f the  *)
(* Proto that is being loaded, err the first error.                        *)
(*                                                                         *)
(* A Proto has the fields LuaParser gives it: of the source and the debug  *)
(* information only the names of the upvalues, Null when stripped.         *)
(***************************************************************************)
EXTENDS LuaParser

NoName == "NULL"

DumpByte(x) == <<<<"byte", x % 256>>>>
DumpInt(x) == <<<<"int", x>>>>
DumpInteger(x) == <<<<"integer", x>>>>
DumpLiteral(x) == <<<<"literal", x>>>>
DumpVector(x) == <<<<"vector", x>>>>

DumpString(str) ==
  LET size == Len(str) + 1
      count == IF size < 255 THEN DumpByte(size) ELSE DumpByte(255) \o <<<<"size", size>>>>
  IN  IF str = NoName THEN DumpByte(0) ELSE count \o DumpVector(str)

\* Types of constants; strings of up to LUAI_MAXSHORTLEN characters are short.
TypeOf(v) ==
  CASE v[1] = "nil" -> 0
    [] v[1] = "boolean" -> 1
    [] v[1] = "integer" -> 19
    [] v[1] = "string" -> IF Len(v[2]) <= 40 THEN 4 ELSE 20

DumpConstant(v) ==
  DumpByte(TypeOf(v)) \o
  (CASE v[1] = "nil" -> <<>>
     [] v[1] = "boolean" -> DumpByte(IF v[2] THEN 1 ELSE 0)
     [] v[1] = "integer" -> DumpInteger(v[2])
     [] v[1] = "string" -> DumpString(v[2]))

DumpAll(list, Dump(_)) == DumpInt(Len(list)) \o FlattenSeq([i \in DOMAIN list |-> Dump(list[i])])

DumpCode(f) == DumpInt(Len(f.code)) \o DumpVector(f.code)
DumpConstants(f) == DumpAll(f.k, DumpConstant)
DumpUpvalues(f) ==
  DumpAll(f.upvalues, LAMBDA u : DumpByte(IF u.instack THEN 1 ELSE 0) \o DumpByte(u.idx))
DumpDebug(f, strip) ==
  IF strip THEN DumpInt(0) ELSE DumpAll(f.upvalues, LAMBDA u : DumpString(u.name))

RECURSIVE DumpFunction(_, _)
DumpFunction(f, strip) ==
  DumpByte(f.numparams) \o DumpByte(IF f.is_vararg THEN 1 ELSE 0) \o DumpByte(f.maxstacksize)
    \o DumpCode(f) \o DumpConstants(f) \o DumpUpvalues(f)
    \o DumpAll(f.p, LAMBDA g : DumpFunction(g, strip)) \o DumpDebug(f, strip)

\* Sizes are those of the rover's 32-bit build.
DumpHeader ==
  DumpLiteral("Lua") \o DumpByte(83) \o DumpByte(0) \o DumpLiteral("data")
    \o DumpByte(4) \o DumpByte(4) \o DumpByte(4) \o DumpByte(8) \o DumpByte(8)
    \o DumpInteger(22136) \o DumpVector("370.5")

luaU_dump(f, strip) == DumpHeader \o DumpByte(Len(f.upvalues)) \o DumpFunction(f, strip)

-----------------------------------------------------------------------------
(* Reading *)

NewProto ==
  [code |-> <<>>, k |-> <<>>, p |-> <<>>, upvalues |-> <<>>, numparams |-> 0,
   is_vararg |-> FALSE, maxstacksize |-> 0]

\* LoadBlock: s.v is of this width, unless the chunk ends before.
LoadBlock(s, width) ==
  IF s.rest = <<>> \/ s.err # "" THEN [Fail(s, "truncated") EXCEPT !.v = 0]
  ELSE IF Head(s.rest)[1] # width THEN [Fail(s, "misread") EXCEPT !.v = 0]
  ELSE [s EXCEPT !.v = Head(s.rest)[2], !.rest = Tail(s.rest)]

LoadByte(s) == LoadBlock(s, "byte")
LoadInt(s) == LoadBlock(s, "int")

LoadString(s) ==
  LET b == LoadByte(s)
      size == IF b.v = 255 THEN LoadBlock(b, "size") ELSE b
  IN  IF size.v = 0 THEN [size EXCEPT !.v = NoName] ELSE LoadBlock(size, "vector")

\* Load one after another, as many as s.v says; field appends s.v to the Proto.
LoadAll(s, LoadOne(_)) == FoldLeft(LAMBDA t, i : LoadOne(t), s, [i \in 1 .. s.v |-> i])

LoadConstant(s) ==
  LET t == LoadByte(s)
      o == CASE t.v = 0 -> [t EXCEPT !.v = Nil]
             [] t.v = 1 -> LET b == LoadByte(t) IN [b EXCEPT !.v = Boolean(b.v = 1)]
             [] t.v = 19 -> LET n == LoadBlock(t, "integer") IN [n EXCEPT !.v = Integer(n.v)]
             [] OTHER -> LET str == LoadString(t) IN [str EXCEPT !.v = String(str.v)]
  IN  [o EXCEPT !.f.k = Append(@, o.v)]

LoadUpvalue(s) ==
  LET i == LoadByte(s)
      x == LoadByte(i)
  IN  [x EXCEPT !.f.upvalues = Append(@, [name |-> NoName, instack |-> i.v = 1, idx |-> x.v])]

LoadCode(s) ==
  LET c == LoadBlock(LoadInt(s), "vector") IN [c EXCEPT !.f.code = c.v]
LoadConstants(s) == LoadAll(LoadInt(s), LoadConstant)
LoadUpvalues(s) == LoadAll(LoadInt(s), LoadUpvalue)

LoadDebug(s) ==
  LET n == LoadInt(s)
      Name(t, i) == LET str == LoadString(t) IN [str EXCEPT !.f.upvalues[i].name = str.v]
  IN  FoldLeft(Name, n, [i \in 1 .. n.v |-> i])

RECURSIVE LoadFunction(_)
LoadProto(s) ==
  LET g == LoadFunction([s EXCEPT !.f = NewProto])
  IN  [g EXCEPT !.f = [s.f EXCEPT !.p = Append(@, g.f)]]
LoadProtos(s) == LoadAll(LoadInt(s), LoadProto)

LoadFunction(s) ==
  LET n == LoadByte(s)
      va == LoadByte(n)
      m == LoadByte(va)
      f == [m EXCEPT !.f = [@ EXCEPT !.numparams = n.v, !.is_vararg = va.v = 1, !.maxstacksize = m.v]]
  IN  LoadDebug(LoadProtos(LoadUpvalues(LoadConstants(LoadCode(f)))))

checkHeader(s) ==
  IF IsPrefix(DumpHeader, s.rest) THEN [s EXCEPT !.rest = SubSeq(@, Len(DumpHeader) + 1, Len(@))]
  ELSE Fail(s, "not a precompiled chunk")

\* The Proto is f; the closure's size has to be its number of upvalues.
luaU_undump(chunk) ==
  LET h == checkHeader([rest |-> chunk, v |-> 0, f |-> NewProto, err |-> "", sound |-> TRUE])
      size == LoadByte(h)
      s == LoadFunction(size)
  IN  lua_assert(s, s.err # "" \/ Len(s.f.upvalues) = size.v)

=============================================================================
