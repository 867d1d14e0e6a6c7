------------------------------ MODULE LuaParser ------------------------------
(***************************************************************************)
(* The parser of the Lua interpreter, luasrc/lparser.c, which generates    *)
(* code as it reads.  A program is the sequence of its tokens.             *)
(*                                                                         *)
(* In the record s, source[at] is the present token and outer holds the    *)
(* FuncState of the function around this one.  label and gt are this       *)
(* function's part of Dyndata.  na, tostore and base belong to the         *)
(* constructor that is being read, nexps to the last list of expressions,  *)
(* escape to the if statement.  err is the first error.                    *)
(***************************************************************************)
EXTENDS LuaCode

Numerals == [x \in {ToString(n) : n \in 0 .. 20} |-> CHOOSE n \in 0 .. 20 : ToString(n) = x]
IsString(x) == SubSeq(x, 1, 1) = "'"
Unquoted(x) == SubSeq(x, 2, Len(x) - 1)
Reserved == {"and", "break", "do", "else", "elseif", "end", "false", "for", "function", "goto",
             "if", "in", "local", "nil", "not", "or", "repeat", "return", "then", "true",
             "until", "while"}
Signs == {"+", "-", "*", "%", "//", "..", "==", "~=", "<", "<=", ">", ">=", "=", "#", "(", ")",
          "{", "}", "[", "]", ";", ":", "::", ",", ".", "...", "<eos>"}
IsName(x) == x \notin Reserved \cup Signs \cup DOMAIN Numerals /\ ~IsString(x)

Tok(s) == IF s.at > Len(s.source) THEN "<eos>" ELSE s.source[s.at]
luaX_next(s) == [s EXCEPT !.at = @ + 1]
luaX_lookahead(s) == Tok(luaX_next(s))
Fail(s, what) == [s EXCEPT !.err = IF @ = "" THEN what ELSE @]
checknext(s, c) == IF Tok(s) = c THEN luaX_next(s) ELSE Fail(s, "expected " \o c)
checkname(s) == codestring(luaX_next(s), Tok(s))

-----------------------------------------------------------------------------
(* Variables *)

new_localvar(s, name) == [s EXCEPT !.actvar = Append(@, name)]
adjustlocalvars(s, n) == [s EXCEPT !.nactvar = @ + n]

\* The register of the latest local variable of this name, or -1.
searchvar(s, name) == SelectLastInSeq(SubSeq(s.actvar, 1, s.nactvar), LAMBDA v : v = name) - 1
searchupvalue(s, name) == SelectInSeq(s.upvalues, LAMBDA u : u.name = name)

newupvalue(s, name, v) ==
  [s EXCEPT !.upvalues =
     Append(@, [name |-> name, instack |-> v.k = "VLOCAL", idx |-> v.info])]

\* The block of the variable in register level has to close it.
markupval(s, level) ==
  [s EXCEPT !.bl[SelectLastInSeq(s.bl, LAMBDA b : b.nactvar <= level)].upval = TRUE]

\* s.e is the variable, VVOID where it is global; functions in between get it
\* as an upvalue.
RECURSIVE singlevaraux(_, _, _)
singlevaraux(s, name, base) ==
  LET v == searchvar(s, name)
      u == searchupvalue(s, name)
      o == singlevaraux(Head(s.outer), name, FALSE)
      t == [s EXCEPT !.outer = <<o>>]
  IN  CASE v >= 0 -> With(IF base THEN s ELSE markupval(s, v), init_exp("VLOCAL", v))
        [] v < 0 /\ u > 0 -> With(s, init_exp("VUPVAL", u))
        [] v < 0 /\ u = 0 /\ s.outer = <<>> -> With(s, Void)
        [] OTHER -> IF o.e.k = "VVOID" THEN With(t, Void)
                    ELSE With(newupvalue(t, name, o.e), init_exp("VUPVAL", Len(s.upvalues) + 1))

singlevar(s) ==
  LET v == singlevaraux(luaX_next(s), Tok(s), TRUE)
      env == singlevaraux(v, "_ENV", TRUE)
  IN  IF v.e.k # "VVOID" THEN v
      ELSE luaK_indexed(codestring(env, Tok(s)), env.e)

adjust_assign(s, nvars) ==
  LET extra == nvars - s.nexps
      more == IF extra + 1 > 0 THEN extra + 1 ELSE 0
      set == luaK_setreturns(s, more)
      closed == IF s.e.k = "VVOID" THEN s ELSE luaK_exp2nextreg(s)
  IN  IF hasmultret(s.e) THEN (IF more > 1 THEN luaK_reserveregs(set, more - 1) ELSE set)
      ELSE IF extra > 0 THEN luaK_nil(luaK_reserveregs(closed, extra), closed.freereg, extra)
      ELSE closed

-----------------------------------------------------------------------------
(* Blocks, labels and gotos *)

CurrentBlock(s) == Last(s.bl)

closegoto(s, g, label) ==
  LET gt == s.gt[g]
      c == luaK_patchlist(s, gt.pc, label.pc)
  IN  [(IF gt.nactvar < label.nactvar THEN Fail(c, "jumps into the scope of a local") ELSE c)
         EXCEPT !.gt = RemoveAt(@, g)]

\* A goto backward: g stays where it is when there is no such label.
findlabel(s, g) ==
  LET bl == CurrentBlock(s)
      gt == s.gt[g]
      i == SelectInSubSeq(s.label, bl.firstlabel, Len(s.label), LAMBDA l : l.name = gt.name)
      lb == s.label[i]
  IN  IF i = 0 THEN s
      ELSE closegoto(IF gt.nactvar > lb.nactvar THEN luaK_patchclose(s, gt.pc, lb.nactvar) ELSE s,
                     g, lb)

Labeldesc(s, name, pc) == [name |-> name, nactvar |-> s.nactvar, pc |-> pc]

\* The gotos of this block, from the i-th on, that wait for the label.
RECURSIVE findgotos(_, _, _)
findgotos(s, lb, i) ==
  IF i > Len(s.gt) THEN s
  ELSE IF s.gt[i].name = lb.name THEN findgotos(closegoto(s, i, lb), lb, i)
  ELSE findgotos(s, lb, i + 1)

\* Those that are left, from the i-th on, when block bl ends.
RECURSIVE movegotosout(_, _, _)
movegotosout(s, bl, i) ==
  IF i > Len(s.gt) THEN s
  ELSE LET gt == s.gt[i]
           closing == gt.nactvar > bl.nactvar /\ bl.upval
           c == IF closing THEN luaK_patchclose(s, gt.pc, bl.nactvar) ELSE s
           m == IF gt.nactvar > bl.nactvar THEN [c EXCEPT !.gt[i].nactvar = bl.nactvar] ELSE c
           f == findlabel(m, i)
       IN  movegotosout(f, bl, IF Len(f.gt) < Len(s.gt) THEN i ELSE i + 1)

enterblock(s, isloop) ==
  lua_assert([s EXCEPT !.bl = Append(@, [nactvar |-> s.nactvar, upval |-> FALSE,
                                         isloop |-> isloop, firstlabel |-> Len(s.label) + 1,
                                         firstgoto |-> Len(s.gt) + 1])],
             s.freereg = s.nactvar)

breaklabel(s) == findgotos(s, Labeldesc(s, "break", Pc(s)), CurrentBlock(s).firstgoto)

\* Mutant: what the block's closures captured is not closed at its end.
leaveblockMutant(s) ==
  LET bl == CurrentBlock(s)
      b == IF bl.isloop THEN breaklabel(s) ELSE s
      left == [b EXCEPT !.bl = Front(@), !.actvar = SubSeq(@, 1, Len(@) - (s.nactvar - bl.nactvar)),
                        !.nactvar = bl.nactvar, !.freereg = bl.nactvar,
                        !.label = SubSeq(@, 1, bl.firstlabel - 1)]
  IN  IF Len(s.bl) > 1 THEN movegotosout(left, bl, bl.firstgoto)
      ELSE IF Len(left.gt) > 0 THEN Fail(left, "no visible label") ELSE left

leaveblock(s) ==
  LET bl == CurrentBlock(s)
      j == luaK_jump(s)
      closed == luaK_patchtohere(luaK_patchclose(j, Pc(s), bl.nactvar), Pc(s))
      c == IF Len(s.bl) > 1 /\ bl.upval THEN closed ELSE s
      b == IF bl.isloop THEN breaklabel(c) ELSE c
      left == [b EXCEPT !.bl = Front(@), !.actvar = SubSeq(@, 1, Len(@) - (s.nactvar - bl.nactvar)),
                        !.nactvar = bl.nactvar, !.freereg = bl.nactvar,
                        !.label = SubSeq(@, 1, bl.firstlabel - 1)]
  IN  IF Len(s.bl) > 1 THEN movegotosout(left, bl, bl.firstgoto)
      ELSE IF Len(left.gt) > 0 THEN Fail(left, "no visible label") ELSE left

NewFunc(source, at) ==
  [code |-> <<>>, k |-> <<>>, p |-> <<>>, upvalues |-> <<>>, numparams |-> 0,
   is_vararg |-> FALSE, maxstacksize |-> 2, freereg |-> 0, nactvar |-> 0, actvar |-> <<>>,
   jpc |-> NoJump, lasttarget |-> 1, bl |-> <<>>, label |-> <<>>, gt |-> <<>>, outer |-> <<>>,
   e |-> Void, nexps |-> 0, na |-> 0, tostore |-> 0, base |-> 0, escape |-> NoJump,
   source |-> source, at |-> at, sound |-> TRUE, err |-> ""]

open_func(s) == enterblock([NewFunc(s.source, s.at) EXCEPT !.outer = <<s>>], FALSE)

close_func(s) == leaveblock(luaK_ret(s, 0, 0))

Proto(s) ==
  [code |-> s.code, k |-> s.k, p |-> s.p, upvalues |-> s.upvalues, numparams |-> s.numparams,
   is_vararg |-> s.is_vararg, maxstacksize |-> s.maxstacksize]

block_follow(s, withuntil) ==
  Tok(s) \in {"else", "elseif", "end", "<eos>"} \cup (IF withuntil THEN {"until"} ELSE {})

RECURSIVE statement(_), subexpr(_, _)
expr(s) == subexpr(s, 0)

RECURSIVE statlist(_)
statlist(s) ==
  IF block_follow(s, TRUE) THEN s
  ELSE IF Tok(s) = "return" THEN statement(s)
  ELSE statlist(statement(s))

block(s) == leaveblock(statlist(enterblock(s, FALSE)))

-----------------------------------------------------------------------------
(* Functions and calls *)

RECURSIVE params(_)
params(s) ==
  IF Tok(s) = "..." THEN [luaX_next(s) EXCEPT !.is_vararg = TRUE]
  ELSE LET p == new_localvar(luaX_next(s), Tok(s))
       IN  IF Tok(p) = "," THEN params(luaX_next(p)) ELSE p

parlist(s) ==
  LET p == IF Tok(s) = ")" THEN s ELSE params(s)
      a == adjustlocalvars(p, Len(p.actvar) - p.nactvar)
  IN  luaK_reserveregs([a EXCEPT !.numparams = a.nactvar], a.nactvar)

body(s, ismethod) ==
  LET opened == checknext(open_func(s), "(")
      self == IF ismethod THEN adjustlocalvars(new_localvar(opened, "self"), 1) ELSE opened
      f == close_func(checknext(statlist(checknext(parlist(self), ")")), "end"))
      o == Head(f.outer)
      back == [o EXCEPT !.at = f.at, !.p = Append(@, Proto(f)), !.sound = @ /\ f.sound,
                        !.err = IF @ = "" THEN f.err ELSE @]
  IN  luaK_exp2nextreg(Relocatable(With(back, Void), "CLOSURE", Len(back.p), 0))

RECURSIVE explistFrom(_, _)
explistFrom(s, n) ==
  LET v == expr(s)
  IN  IF Tok(v) = "," THEN explistFrom(luaX_next(luaK_exp2nextreg(v)), n + 1)
      ELSE [v EXCEPT !.nexps = n]
explist(s) == explistFrom(s, 1)

RECURSIVE constructor(_)
funcargs(s0) ==
  LET n == luaX_next(s0)
      base == s0.e.info
      args == CASE Tok(s0) = "(" /\ Tok(n) = ")" -> With(luaX_next(n), Void)
                [] Tok(s0) = "(" /\ Tok(n) # ")" ->
                     checknext(luaK_setreturns(explist(n), MultRet), ")")
                [] Tok(s0) = "{" -> constructor(s0)
                [] OTHER -> codestring(n, Unquoted(Tok(s0)))
      open == hasmultret(args.e)
      a == IF open \/ args.e.k = "VVOID" THEN args ELSE luaK_exp2nextreg(args)
      nparams == IF open THEN MultRet ELSE a.freereg - (base + 1)
      c == luaK_code(a, "CALL", base, nparams + 1, 2)
  IN  lua_assert([With(c, init_exp("VCALL", Pc(c) - 1)) EXCEPT !.freereg = base + 1],
                 s0.e.k = "VNONRELOC")

-----------------------------------------------------------------------------
(* Constructors *)

yindex(s) == checknext(luaK_exp2val(expr(luaX_next(s))), "]")

recfield(s) ==
  LET key == luaK_exp2RK(checknext(IF IsName(Tok(s)) THEN checkname(s) ELSE yindex(s), "="))
      val == luaK_exp2RK(expr(key))
  IN  With([luaK_code(val, "SETTABLE", s.base, RK(key.e), RK(val.e)) EXCEPT !.freereg = s.freereg],
           s.e)

\* s.e is the last item read, VVOID for none.
closelistfield(s) ==
  LET v == With(luaK_exp2nextreg(s), Void)
  IN  IF s.e.k = "VVOID" THEN s
      ELSE IF s.tostore = FieldsPerFlush
        THEN [luaK_setlist(v, v.base, v.na, v.tostore) EXCEPT !.tostore = 0]
      ELSE v

lastlistfield(s) ==
  IF s.tostore = 0 THEN s
  ELSE IF hasmultret(s.e) THEN luaK_setlist(luaK_setreturns(s, MultRet), s.base, s.na, MultRet)
  ELSE luaK_setlist(IF s.e.k = "VVOID" THEN s ELSE luaK_exp2nextreg(s), s.base, s.na, s.tostore)

field(s) ==
  IF Tok(s) = "[" \/ (IsName(Tok(s)) /\ luaX_lookahead(s) = "=") THEN recfield(s)
  ELSE [expr(s) EXCEPT !.na = s.na + 1, !.tostore = s.tostore + 1]

RECURSIVE fields(_)
fields(s) ==
  IF Tok(s) = "}" THEN s
  ELSE LET f == field(closelistfield(s))
       IN  IF Tok(f) \in {",", ";"} THEN fields(luaX_next(f)) ELSE f

\* The sizes in NEWTABLE, mere hints, are left out.
constructor(s) ==
  LET t == luaK_exp2nextreg(Relocatable(With(s, Void), "NEWTABLE", 0, 0))
      inside == [With(checknext(t, "{"), Void) EXCEPT !.na = 0, !.tostore = 0, !.base = t.e.info]
      c == lastlistfield(checknext(fields(inside), "}"))
  IN  With([c EXCEPT !.na = s.na, !.tostore = s.tostore, !.base = s.base], t.e)

-----------------------------------------------------------------------------
(* Expressions *)

primaryexp(s) ==
  IF Tok(s) = "(" THEN luaK_dischargevars(checknext(expr(luaX_next(s)), ")"))
  ELSE IF IsName(Tok(s)) THEN singlevar(s)
  ELSE Fail(luaX_next(s), "unexpected symbol")

fieldsel(s) ==
  LET v == luaK_exp2anyregup(s)
  IN  luaK_indexed(checkname(luaX_next(v)), v.e)

RECURSIVE suffixes(_)
suffixes(s) ==
  CASE Tok(s) = "." -> suffixes(fieldsel(s))
    [] Tok(s) = "[" ->
         LET v == luaK_exp2anyregup(s) IN suffixes(luaK_indexed(yindex(v), v.e))
    [] Tok(s) = ":" ->
         LET key == checkname(luaX_next(s))
         IN  suffixes(funcargs(luaK_self(With(key, s.e), key.e)))
    [] Tok(s) \in {"(", "{"} \/ IsString(Tok(s)) -> suffixes(funcargs(luaK_exp2nextreg(s)))
    [] OTHER -> s

suffixedexp(s) == suffixes(primaryexp(s))

simpleexp(s) ==
  LET n == luaX_next(s) IN
  CASE Tok(s) \in DOMAIN Numerals -> With(n, init_exp("VKINT", Numerals[Tok(s)]))
    [] IsString(Tok(s)) -> codestring(n, Unquoted(Tok(s)))
    [] Tok(s) = "nil" -> With(n, init_exp("VNIL", 0))
    [] Tok(s) = "true" -> With(n, init_exp("VTRUE", 0))
    [] Tok(s) = "false" -> With(n, init_exp("VFALSE", 0))
    [] Tok(s) = "..." -> With(luaK_code(n, "VARARG", 0, 1, 0), init_exp("VVARARG", Pc(s)))
    [] Tok(s) = "{" -> constructor(s)
    [] Tok(s) = "function" -> body(n, FALSE)
    [] OTHER -> suffixedexp(s)

unopr == ("not" :> "NOT" @@ "-" :> "UNM" @@ "#" :> "LEN")
binopr == ("+" :> "ADD" @@ "-" :> "SUB" @@ "*" :> "MUL" @@ "%" :> "MOD" @@ "//" :> "IDIV" @@
           ".." :> "CONCAT" @@ "~=" :> "NE" @@ "==" :> "EQ" @@ "<" :> "LT" @@ "<=" :> "LE" @@
           ">" :> "GT" @@ ">=" :> "GE" @@ "and" :> "AND" @@ "or" :> "OR")
leftPriority(op) ==
  CASE op \in {"ADD", "SUB"} -> 10
    [] op \in {"MUL", "MOD", "IDIV"} -> 11
    [] op = "CONCAT" -> 9
    [] op \in CompareOps -> 3
    [] op = "AND" -> 2
    [] op = "OR" -> 1
rightPriority(op) == IF op = "CONCAT" THEN 8 ELSE leftPriority(op)
UnaryPriority == 12

\* The operators that follow and bind stronger than the limit.
RECURSIVE operators(_, _)
operators(s, limit) ==
  IF Tok(s) \notin DOMAIN binopr \/ leftPriority(binopr[Tok(s)]) <= limit THEN s
  ELSE LET op == binopr[Tok(s)]
           e1 == luaK_infix(luaX_next(s), op)
       IN  operators(luaK_posfix(subexpr(e1, rightPriority(op)), op, e1.e), limit)

subexpr(s, limit) ==
  operators(IF Tok(s) \in DOMAIN unopr
              THEN luaK_prefix(subexpr(luaX_next(s), UnaryPriority), unopr[Tok(s)])
              ELSE simpleexp(s),
            limit)

-----------------------------------------------------------------------------
(* Assignments *)

\* lhs, assigned to by the same statement as the variable s.e, may use its old
\* value: a copy, then.
check_conflict(s, lhs) ==
  LET v == s.e
      extra == s.freereg
      AsTable(l) == l.k = "VINDEXED" /\ l.vt = v.k /\ l.tab = v.info
      AsIndex(l) == l.k = "VINDEXED" /\ v.k = "VLOCAL" /\ l.idx = v.info
      Safe(l) == [l EXCEPT !.vt = IF AsTable(l) THEN "VLOCAL" ELSE @,
                           !.tab = IF AsTable(l) THEN extra ELSE @,
                           !.idx = IF AsIndex(l) THEN extra ELSE @]
      op == IF v.k = "VLOCAL" THEN "MOVE" ELSE "GETUPVAL"
  IN  IF \E l \in Range(lhs) : AsTable(l) \/ AsIndex(l)
        THEN [s |-> luaK_reserveregs(luaK_code(s, op, extra, v.info, 0), 1),
              lhs |-> [i \in DOMAIN lhs |-> Safe(lhs[i])]]
        ELSE [s |-> s, lhs |-> lhs]

\* The values from the last register down into the variables from the last on.
StoreDown(s, lhs) ==
  FoldLeft(LAMBDA c, var : luaK_storevar(With(c, init_exp("VNONRELOC", c.freereg - 1)), var),
           s, Reverse(lhs))

\* s.e is the last of the variables, lhs are those before.
RECURSIVE assignment(_, _)
assignment(s, lhs) ==
  LET v == suffixedexp(luaX_next(s))
      all == Append(lhs, s.e)
      c == IF v.e.k = "VINDEXED" THEN [s |-> v, lhs |-> all] ELSE check_conflict(v, all)
      e == explist(checknext(s, "="))
      a == adjust_assign(e, Len(all))
      cut == [a EXCEPT !.freereg = @ - (IF e.nexps > Len(all) THEN e.nexps - Len(all) ELSE 0)]
  IN  CASE Tok(s) = "," -> assignment(c.s, c.lhs)
        [] Tok(s) # "," /\ e.nexps = Len(all) -> StoreDown(luaK_storevar(luaK_setoneret(e), s.e), lhs)
        [] OTHER -> StoreDown(cut, all)

exprstat(s) ==
  LET v == suffixedexp(s)
  IN  IF Tok(v) \in {"=", ","} THEN assignment(v, <<>>)
      ELSE IF v.e.k # "VCALL" THEN Fail(v, "syntax error")
      ELSE [v EXCEPT !.code[v.e.info].C = 1]

RECURSIVE localnames(_)
localnames(s) ==
  LET n == new_localvar(luaX_next(s), Tok(s))
  IN  IF Tok(n) = "," THEN localnames(luaX_next(n)) ELSE n

localstat(s) ==
  LET n == localnames(s)
      nvars == Len(n.actvar) - Len(s.actvar)
      e == IF Tok(n) = "=" THEN explist(luaX_next(n)) ELSE [With(n, Void) EXCEPT !.nexps = 0]
  IN  adjustlocalvars(adjust_assign(e, nvars), nvars)

localfunc(s) == body(adjustlocalvars(new_localvar(luaX_next(s), Tok(s)), 1), FALSE)

RECURSIVE fieldsels(_)
fieldsels(s) == IF Tok(s) = "." THEN fieldsels(fieldsel(s)) ELSE s

funcstat(s) ==
  LET n == fieldsels(singlevar(luaX_next(s)))
      ismethod == Tok(n) = ":"
      v == IF ismethod THEN fieldsel(n) ELSE n
  IN  luaK_storevar(body(v, ismethod), v.e)

-----------------------------------------------------------------------------
(* Control structures *)

\* The jumps out when it is false are s.e.f.
cond(s) ==
  LET v == expr(s)
  IN  luaK_goiftrue([v EXCEPT !.e.k = IF @ = "VNIL" THEN "VFALSE" ELSE @])

\* goto or break, by the jumps at pc.
gotostat(s, pc) ==
  LET isgoto == Tok(s) = "goto"
      name == IF isgoto THEN luaX_lookahead(s) ELSE "break"
      n == IF isgoto THEN luaX_next(luaX_next(s)) ELSE luaX_next(s)
  IN  findlabel([n EXCEPT !.gt = Append(@, Labeldesc(s, name, pc))], Len(n.gt) + 1)

RECURSIVE skipnoopstat(_)
skipnoopstat(s) == IF Tok(s) \in {";", "::"} THEN skipnoopstat(statement(s)) ELSE s

labelstat(s) ==
  LET name == luaX_lookahead(s)
      again == SelectInSubSeq(s.label, CurrentBlock(s).firstlabel, Len(s.label),
                              LAMBDA l : l.name = name) # 0
      n == checknext(luaX_next(luaX_next(s)), "::")
      new == [(IF again THEN Fail(n, "label already defined") ELSE n) EXCEPT
                !.label = Append(@, Labeldesc(s, name, Pc(s)))]
      k == skipnoopstat(new)
      i == Len(s.label) + 1
      l == IF block_follow(k, FALSE) THEN [k EXCEPT !.label[i].nactvar = CurrentBlock(k).nactvar]
           ELSE k
  IN  findgotos(l, l.label[i], CurrentBlock(l).firstgoto)

luaK_jumpto(s, target) == luaK_patchlist(luaK_jump(s), Pc(s), target)

whilestat(s) ==
  LET whileinit == Pc(s)
      c == cond(luaK_getlabel(luaX_next(s)))
      b == block(checknext(enterblock(c, TRUE), "do"))
      e == checknext(luaK_jumpto(b, whileinit), "end")
  IN  luaK_patchtohere(leaveblock(e), c.e.f)

repeatstat(s) ==
  LET repeat_init == Pc(s)
      b == statlist(luaX_next(enterblock(enterblock(luaK_getlabel(s), TRUE), FALSE)))
      c == cond(checknext(b, "until"))
      bl2 == CurrentBlock(c)
      p == IF bl2.upval THEN luaK_patchclose(c, c.e.f, bl2.nactvar) ELSE c
  IN  leaveblock(luaK_patchlist(leaveblock(p), c.e.f, repeat_init))

exp1(s) == luaK_exp2nextreg(expr(s))

forbody(s0, base, nvars, isnum) ==
  LET s == checknext(adjustlocalvars(s0, 3), "do")
      prep == Pc(s)
      p == IF isnum THEN luaK_code(s, "FORPREP", base, NoJump, 0) ELSE luaK_jump(s)
      v == luaK_reserveregs(adjustlocalvars(enterblock(p, FALSE), nvars), nvars)
      l == luaK_patchtohere(leaveblock(block(v)), prep)
      e == IF isnum THEN luaK_code(l, "FORLOOP", base, NoJump, 0)
           ELSE luaK_code(luaK_code(l, "TFORCALL", base, 0, nvars), "TFORLOOP", base + 2, NoJump, 0)
  IN  luaK_patchlist(e, Pc(e) - 1, prep + 1)

\* s.source[s.at] is the name of the variable.
fornum(s) ==
  LET vars == FoldLeft(new_localvar, s, <<"(for index)", "(for limit)", "(for step)", Tok(s)>>)
      limit == exp1(checknext(exp1(checknext(luaX_next(vars), "=")), ","))
      one == addk(limit, Integer(1))
      step == IF Tok(limit) = "," THEN exp1(luaX_next(limit))
              ELSE luaK_reserveregs(luaK_code(one, "LOADK", one.freereg, one.e.info, 0), 1)
  IN  forbody(step, s.freereg, 1, TRUE)

forlist(s) ==
  LET control == FoldLeft(new_localvar, s, <<"(for generator)", "(for state)", "(for control)">>)
      vars == localnames(control)
      e == adjust_assign(explist(checknext(vars, "in")), 3)
  IN  forbody(luaK_checkstack(e, 3), s.freereg, Len(vars.actvar) - Len(control.actvar), FALSE)

forstat(s) ==
  LET e == luaX_next(enterblock(s, TRUE))
  IN  leaveblock(checknext(IF luaX_lookahead(e) = "=" THEN fornum(e) ELSE forlist(e), "end"))

\* if or elseif: s.escape are the jumps to the end of the statement.
test_then_block(s) ==
  LET v == checknext(expr(luaX_next(s)), "then")
      jumps == Tok(v) \in {"goto", "break"}
      f == luaK_goiffalse(v)
      g == skipnoopstat(gotostat(enterblock(f, FALSE), f.e.t))
      t == luaK_goiftrue(v)
      whole == jumps /\ block_follow(g, FALSE)   \* the goto is the entire block
      inside == IF jumps THEN luaK_jump(g) ELSE enterblock(t, FALSE)
      jf == IF jumps THEN Pc(g) ELSE t.e.f
      b == leaveblock(statlist(inside))
      j == luaK_jump(b)
      escaped == [j EXCEPT !.code = Linked(@, b.escape, Pc(b)), !.escape = Head2(@, Pc(b))]
  IN  IF whole THEN leaveblock(g)
      ELSE luaK_patchtohere(IF Tok(b) \in {"else", "elseif"} THEN escaped ELSE b, jf)

RECURSIVE elseifs(_)
elseifs(s) == IF Tok(s) = "elseif" THEN elseifs(test_then_block(s)) ELSE s

ifstat(s) ==
  LET t == elseifs(test_then_block([s EXCEPT !.escape = NoJump]))
      e == checknext(IF Tok(t) = "else" THEN block(luaX_next(t)) ELSE t, "end")
  IN  [luaK_patchtohere(e, t.escape) EXCEPT !.escape = s.escape]

retstat(s) ==
  LET none == block_follow(s, TRUE) \/ Tok(s) = ";"
      v == explist(s)
      m == luaK_setreturns(v, MultRet)
      istail == v.e.k = "VCALL" /\ v.nexps = 1
      tail == lua_assert([m EXCEPT !.code[m.e.info].op = "TAILCALL"],
                         m.code[m.e.info].A = m.nactvar)
      one == luaK_exp2anyreg(v)
      many == luaK_exp2nextreg(v)
      r == CASE none -> luaK_ret(s, 0, 0)
             [] ~none /\ hasmultret(v.e) -> luaK_ret(IF istail THEN tail ELSE m, v.nactvar, MultRet)
             [] ~none /\ ~hasmultret(v.e) /\ v.nexps = 1 -> luaK_ret(one, one.e.info, 1)
             [] OTHER -> lua_assert(luaK_ret(many, v.nactvar, v.nexps),
                                    v.nexps = many.freereg - v.nactvar)
  IN  IF Tok(r) = ";" THEN luaX_next(r) ELSE r

statement(s) ==
  LET n == luaX_next(s)
      d == CASE Tok(s) = ";" -> n
             [] Tok(s) = "if" -> ifstat(s)
             [] Tok(s) = "while" -> whilestat(s)
             [] Tok(s) = "do" -> checknext(block(n), "end")
             [] Tok(s) = "for" -> forstat(s)
             [] Tok(s) = "repeat" -> repeatstat(s)
             [] Tok(s) = "function" -> funcstat(s)
             [] Tok(s) = "local" -> IF Tok(n) = "function" THEN localfunc(luaX_next(n)) ELSE localstat(n)
             [] Tok(s) = "::" -> labelstat(s)
             [] Tok(s) = "return" -> retstat(n)
             [] Tok(s) \in {"break", "goto"} -> gotostat(luaK_jump(s), Pc(s))
             [] OTHER -> exprstat(s)
  IN  [lua_assert(d, d.maxstacksize >= d.freereg /\ d.freereg >= d.nactvar) EXCEPT
         !.freereg = d.nactvar]

\* The main function: any arguments, and one upvalue.
luaY_parser(source) ==
  LET main == enterblock([NewFunc(source, 1) EXCEPT !.is_vararg = TRUE], FALSE)
      f == close_func(statlist(newupvalue(main, "_ENV", init_exp("VLOCAL", 0))))
  IN  IF Tok(f) = "<eos>" THEN f ELSE Fail(f, "expected <eos>")

=============================================================================
