------------------------------- MODULE LuaCode -------------------------------
(***************************************************************************)
(* The code generator of the Lua interpreter, luasrc/lcode.c.              *)
(*                                                                         *)
(* A record s is the FuncState of the function that is being compiled, and *)
(* s.e the expression an operation is about, or returns.  Instructions     *)
(* are [op, A, B, C], counted from 1; a jump has its destination in B      *)
(* (the offset in sBx), and jumps to be patched to one place are a list    *)
(* linked through B.  Constants count from 1, registers from 0.            *)
(***************************************************************************)
EXTENDS Integers, Sequences, FiniteSets, SequencesExt, TLC

CONSTANTS
  MaxRK,         \* how many constants an operand reaches: MAXINDEXRK + 1
  FieldsPerFlush \* LFIELDS_PER_FLUSH

ASSUME CodeAssumption == MaxRK \in 0 .. 256 /\ FieldsPerFlush \in Nat \ {0}

NoJump == 0
NoReg == 255

Instruction(op, a, b, c) == [op |-> op, A |-> a, B |-> b, C |-> c]

\* k, info as in expdesc; t and f, the jumps out of it when it is true, or
\* false; tab, idx, vt of u.ind.
init_exp(k, info) ==
  [k |-> k, info |-> info, t |-> NoJump, f |-> NoJump, tab |-> 0, idx |-> 0, vt |-> "VVOID"]
Void == init_exp("VVOID", 0)

hasjumps(e) == e.t # e.f
tonumeral(e) == e.k = "VKINT" /\ e.t = NoJump /\ e.f = NoJump

\* The operand of an expression in a register or among the constants: RKASK.
BitRK == 256
ISK(x) == x >= BitRK
RK(e) == IF e.k = "VK" THEN BitRK + e.info ELSE e.info

Pc(s) == Len(s.code) + 1
With(s, e) == [s EXCEPT !.e = e]

\* What the code asserts, which a release build does not look at.
lua_assert(s, holds) == IF holds THEN s ELSE [s EXCEPT !.sound = FALSE]

-----------------------------------------------------------------------------
(* Jump lists *)

TestOps == {"EQ", "LT", "LE", "TEST", "TESTSET"}

\* The jumps of a list, in its order.
RECURSIVE JumpList(_, _)
JumpList(code, list) ==
  IF list = NoJump THEN <<>> ELSE <<list>> \o JumpList(code, code[list].B)

getjumpcontrol(code, pc) == IF pc > 1 /\ code[pc - 1].op \in TestOps THEN pc - 1 ELSE pc

need_value(s, list) ==
  \E j \in Range(JumpList(s.code, list)) : s.code[getjumpcontrol(s.code, j)].op # "TESTSET"

\* The test before a jump puts its value into reg, or nowhere.
Retested(i, reg) ==
  IF i.op # "TESTSET" THEN i
  ELSE IF reg # NoReg /\ reg # i.B THEN [i EXCEPT !.A = reg]
  ELSE Instruction("TEST", i.B, 0, i.C)

patchtestreg(code, pc, reg) ==
  LET c == getjumpcontrol(code, pc) IN [code EXCEPT ![c] = Retested(@, reg)]

removevalues(s, list) ==
  [s EXCEPT !.code = FoldLeft(LAMBDA c, j : patchtestreg(c, j, NoReg), @, JumpList(@, list))]

\* The jumps that bring a value go to vtarget, the others to dtarget.
patchlistaux(s, list, vtarget, reg, dtarget) ==
  LET Patch(code, j) ==
        [patchtestreg(code, j, reg) EXCEPT
           ![j].B = IF code[getjumpcontrol(code, j)].op = "TESTSET" THEN vtarget ELSE dtarget]
  IN  [s EXCEPT !.code = FoldLeft(Patch, @, JumpList(@, list))]

dischargejpc(s) == [patchlistaux(s, s.jpc, Pc(s), NoReg, Pc(s)) EXCEPT !.jpc = NoJump]

\* luaK_concat: the code, and the head of the list.
Linked(code, l1, l2) ==
  IF l1 = NoJump \/ l2 = NoJump THEN code
  ELSE [code EXCEPT ![Last(JumpList(code, l1))].B = l2]
Head2(l1, l2) == IF l1 = NoJump THEN l2 ELSE l1

ConcatT(s, l) == [s EXCEPT !.code = Linked(@, s.e.t, l), !.e.t = Head2(@, l)]
ConcatF(s, l) == [s EXCEPT !.code = Linked(@, s.e.f, l), !.e.f = Head2(@, l)]

luaK_getlabel(s) == [s EXCEPT !.lasttarget = Pc(s)]

luaK_patchtohere(s, list) ==
  [luaK_getlabel(s) EXCEPT !.code = Linked(@, s.jpc, list), !.jpc = Head2(@, list)]

luaK_patchlist(s, list, target) ==
  IF target = Pc(s) THEN luaK_patchtohere(s, list)
  ELSE patchlistaux(s, list, target, NoReg, target)

luaK_patchclose(s, list, level) ==
  lua_assert(
    [s EXCEPT !.code = FoldLeft(LAMBDA c, j : [c EXCEPT ![j].A = level + 1], @, JumpList(@, list))],
    \A j \in Range(JumpList(s.code, list)) : s.code[j].A = 0 \/ s.code[j].A >= level + 1)

-----------------------------------------------------------------------------
(* Instructions and registers *)

luaK_code(s, op, a, b, c) ==
  LET d == dischargejpc(s) IN [d EXCEPT !.code = Append(@, Instruction(op, a, b, c))]

\* The jump is at Pc(s); jumps to here wait with it.
luaK_jump(s) ==
  LET c == Append(s.code, Instruction("JMP", 0, NoJump, 0))
  IN  [s EXCEPT !.jpc = NoJump, !.code = Linked(c, Pc(s), s.jpc)]

condjump(s, op, a, b, c) == luaK_jump(luaK_code(s, op, a, b, c))

luaK_ret(s, first, nret) == luaK_code(s, "RETURN", first, nret + 1, 0)

\* The LOADNIL before the present position can set from .. from + n - 1, too.
Mergeable(s, from, n) ==
  LET p == s.code[Pc(s) - 1]
  IN  Pc(s) > 1 /\ p.op = "LOADNIL" /\ from <= p.A + p.B + 1 /\ p.A <= from + n

Merged(s, from, n) ==
  LET p == s.code[Pc(s) - 1]
      low == IF p.A < from THEN p.A ELSE from
      high == IF p.A + p.B > from + n - 1 THEN p.A + p.B ELSE from + n - 1
  IN  [s EXCEPT !.code[Pc(s) - 1] = Instruction("LOADNIL", low, high - low, 0)]

luaK_nil(s, from, n) ==
  IF Pc(s) > s.lasttarget /\ Mergeable(s, from, n) THEN Merged(s, from, n)
  ELSE luaK_code(s, "LOADNIL", from, n - 1, 0)

luaK_checkstack(s, n) ==
  [s EXCEPT !.maxstacksize = IF s.freereg + n > @ THEN s.freereg + n ELSE @]
luaK_reserveregs(s, n) == [luaK_checkstack(s, n) EXCEPT !.freereg = @ + n]

freereg(s, reg) ==
  IF ISK(reg) \/ reg < s.nactvar THEN s
  ELSE lua_assert([s EXCEPT !.freereg = @ - 1], reg = s.freereg - 1)
freeexp(s, e) == IF e.k = "VNONRELOC" THEN freereg(s, e.info) ELSE s

\* addk: s.e becomes the constant.
addk(s, v) ==
  LET i == SelectInSeq(s.k, LAMBDA c : c = v)
  IN  IF i # 0 THEN [s EXCEPT !.e.k = "VK", !.e.info = i]
      ELSE [s EXCEPT !.k = Append(@, v), !.e.k = "VK", !.e.info = Len(s.k) + 1]

Nil == <<"nil", 0>>
Integer(n) == <<"integer", n>>
Boolean(b) == <<"boolean", b>>
String(x) == <<"string", x>>

codestring(s, x) == addk(With(s, Void), String(x))

-----------------------------------------------------------------------------
(* Values *)

\* s.e is the result of an instruction whose register is still open.
Relocatable(s, op, b, c) ==
  [luaK_code(s, op, 0, b, c) EXCEPT !.e.k = "VRELOCABLE", !.e.info = Pc(s)]

InRegister(s, reg) == [s EXCEPT !.e.k = "VNONRELOC", !.e.info = reg]

MultRet == -1
hasmultret(e) == e.k \in {"VCALL", "VVARARG"}

luaK_setreturns(s, n) ==
  CASE s.e.k = "VCALL" -> [s EXCEPT !.code[s.e.info].C = n + 1]
    [] s.e.k = "VVARARG" ->
         luaK_reserveregs([s EXCEPT !.code[s.e.info].B = n + 1,
                                    !.code[s.e.info].A = s.freereg], 1)
    [] OTHER -> s

luaK_setoneret(s) ==
  CASE s.e.k = "VCALL" -> InRegister(s, s.code[s.e.info].A)
    [] s.e.k = "VVARARG" -> [s EXCEPT !.code[s.e.info].B = 2, !.e.k = "VRELOCABLE"]
    [] OTHER -> s

luaK_dischargevars(s) ==
  LET e == s.e IN
  CASE e.k = "VLOCAL" -> [s EXCEPT !.e.k = "VNONRELOC"]
    [] e.k = "VUPVAL" -> Relocatable(s, "GETUPVAL", e.info, 0)
    [] e.k = "VINDEXED" ->
         LET f == freereg(s, e.idx)
         IN  IF e.vt = "VLOCAL" THEN Relocatable(freereg(f, e.tab), "GETTABLE", e.tab, e.idx)
             ELSE Relocatable(f, "GETTABUP", e.tab, e.idx)
    [] OTHER -> luaK_setoneret(s)

\* Nothing for VVOID and VJMP, which keep their kind.
discharge2reg(s0, reg) ==
  LET s == luaK_dischargevars(s0)
      e == s.e
      done == CASE e.k = "VNIL" -> luaK_nil(s, reg, 1)
                [] e.k \in {"VFALSE", "VTRUE"} ->
                     luaK_code(s, "LOADBOOL", reg, IF e.k = "VTRUE" THEN 1 ELSE 0, 0)
                [] e.k = "VK" -> luaK_code(s, "LOADK", reg, e.info, 0)
                [] e.k = "VKINT" ->
                     LET a == addk(s, Integer(e.info)) IN luaK_code(a, "LOADK", reg, a.e.info, 0)
                [] e.k = "VRELOCABLE" -> [s EXCEPT !.code[e.info].A = reg]
                [] e.k = "VNONRELOC" /\ reg # e.info -> luaK_code(s, "MOVE", reg, e.info, 0)
                [] OTHER -> s
  IN  IF e.k \in {"VVOID", "VJMP"} THEN s ELSE InRegister(done, reg)

discharge2anyreg(s) ==
  IF s.e.k = "VNONRELOC" THEN s
  ELSE LET r == luaK_reserveregs(s, 1) IN discharge2reg(r, r.freereg - 1)

code_label(s, a, b, skip) == luaK_code(luaK_getlabel(s), "LOADBOOL", a, b, skip)

\* Where jumps out of the expression bring no value, two loads make one.
exp2reg(s0, reg) ==
  LET s1 == discharge2reg(s0, reg)
      s == IF s1.e.k = "VJMP" THEN ConcatT(s1, s1.e.info) ELSE s1
      over == IF s.e.k = "VJMP" THEN s ELSE luaK_jump(s)
      fj == IF s.e.k = "VJMP" THEN NoJump ELSE Pc(s)
      loads == need_value(s, s.e.t) \/ need_value(s, s.e.f)
      p_f == Pc(over)
      both == luaK_patchtohere(code_label(code_label(over, reg, 0, 1), reg, 1, 0), fj)
      l == luaK_getlabel(IF loads THEN both ELSE s)
      final == Pc(l)
      jumped == patchlistaux(patchlistaux(l, s.e.f, final, reg, p_f), s.e.t, final, reg, p_f + 1)
  IN  With(IF hasjumps(s.e) THEN jumped ELSE s, init_exp("VNONRELOC", reg))

luaK_exp2nextreg(s0) ==
  LET d == luaK_dischargevars(s0)
      s == luaK_reserveregs(freeexp(d, d.e), 1)
  IN  exp2reg(s, s.freereg - 1)

luaK_exp2anyreg(s0) ==
  LET s == luaK_dischargevars(s0) IN
  CASE s.e.k = "VNONRELOC" /\ ~hasjumps(s.e) -> s
    [] s.e.k = "VNONRELOC" /\ hasjumps(s.e) /\ s.e.info >= s.nactvar -> exp2reg(s, s.e.info)
    [] OTHER -> luaK_exp2nextreg(s)

luaK_exp2anyregup(s) == IF s.e.k # "VUPVAL" \/ hasjumps(s.e) THEN luaK_exp2anyreg(s) ELSE s

luaK_exp2val(s) == IF hasjumps(s.e) THEN luaK_exp2anyreg(s) ELSE luaK_dischargevars(s)

luaK_exp2RK(s0) ==
  LET v == luaK_exp2val(s0)
      s == CASE v.e.k = "VNIL" /\ Len(v.k) < MaxRK -> addk(v, Nil)
             [] v.e.k \in {"VTRUE", "VFALSE"} /\ Len(v.k) < MaxRK -> addk(v, Boolean(v.e.k = "VTRUE"))
             [] v.e.k = "VKINT" -> addk(v, Integer(v.e.info))
             [] OTHER -> v
  IN  IF s.e.k = "VK" /\ s.e.info <= MaxRK THEN s ELSE luaK_exp2anyreg(s)

\* s.e is stored in var.
luaK_storevar(s, var) ==
  CASE var.k = "VLOCAL" -> exp2reg(freeexp(s, s.e), var.info)
    [] var.k = "VUPVAL" ->
         LET v == luaK_exp2anyreg(s)
         IN  freeexp(luaK_code(v, "SETUPVAL", v.e.info, var.info, 0), v.e)
    [] var.k = "VINDEXED" ->
         LET v == luaK_exp2RK(s)
             op == IF var.vt = "VLOCAL" THEN "SETTABLE" ELSE "SETTABUP"
         IN  freeexp(luaK_code(v, op, var.tab, var.idx, RK(v.e)), v.e)

luaK_self(s0, name) ==
  LET o == luaK_exp2anyreg(s0)
      f == freeexp(o, o.e)
      r == luaK_reserveregs(f, 2)
      key == luaK_exp2RK(With(r, name))
      c == luaK_code(key, "SELF", f.freereg, o.e.info, RK(key.e))
  IN  With(freeexp(c, key.e), [o.e EXCEPT !.k = "VNONRELOC", !.info = f.freereg])

\* t[s.e], t in an upvalue or a register.
luaK_indexed(s0, t) ==
  LET s == luaK_exp2RK(s0)
  IN  With(s, [t EXCEPT !.k = "VINDEXED", !.tab = t.info, !.idx = RK(s.e),
                        !.vt = IF t.k = "VUPVAL" THEN "VUPVAL" ELSE "VLOCAL"])

-----------------------------------------------------------------------------
(* Conditions *)

invertjump(s) ==
  [s EXCEPT !.code[getjumpcontrol(s.code, s.e.info)].A = 1 - @]

\* The jump is the last instruction.
jumponcond(s, whether) ==
  LET i == s.code[s.e.info]
      d == discharge2anyreg(s)
  IN  IF s.e.k = "VRELOCABLE" /\ i.op = "NOT"
        THEN condjump([s EXCEPT !.code = Front(@)], "TEST", i.B, 0, 1 - whether)
        ELSE condjump(freeexp(d, d.e), "TESTSET", NoReg, d.e.info, whether)

luaK_goiftrue(s0) ==
  LET s == luaK_dischargevars(s0)
      j == CASE s.e.k = "VJMP" -> invertjump(s)
             [] s.e.k \in {"VK", "VKINT", "VTRUE"} -> s
             [] OTHER -> jumponcond(s, 0)
      pc == CASE s.e.k = "VJMP" -> s.e.info
              [] s.e.k \in {"VK", "VKINT", "VTRUE"} -> NoJump
              [] OTHER -> Pc(j) - 1
      c == ConcatF(j, pc)
  IN  [luaK_patchtohere(c, c.e.t) EXCEPT !.e.t = NoJump]

luaK_goiffalse(s0) ==
  LET s == luaK_dischargevars(s0)
      j == IF s.e.k \in {"VJMP", "VNIL", "VFALSE"} THEN s ELSE jumponcond(s, 1)
      pc == CASE s.e.k = "VJMP" -> s.e.info
              [] s.e.k \in {"VNIL", "VFALSE"} -> NoJump
              [] OTHER -> Pc(j) - 1
      c == ConcatT(j, pc)
  IN  [luaK_patchtohere(c, c.e.f) EXCEPT !.e.f = NoJump]

codenot(s0) ==
  LET s == luaK_dischargevars(s0)
      d == discharge2anyreg(s)
      n == CASE s.e.k \in {"VNIL", "VFALSE"} -> [s EXCEPT !.e.k = "VTRUE"]
             [] s.e.k \in {"VK", "VKINT", "VTRUE"} -> [s EXCEPT !.e.k = "VFALSE"]
             [] s.e.k = "VJMP" -> invertjump(s)
             [] OTHER -> Relocatable(freeexp(d, d.e), "NOT", d.e.info, 0)
      x == With(n, [n.e EXCEPT !.t = n.e.f, !.f = n.e.t])
  IN  removevalues(removevalues(x, x.e.f), x.e.t)

-----------------------------------------------------------------------------
(* Operators *)

ArithOps == {"ADD", "SUB", "MUL", "MOD", "IDIV"}
CompareOps == {"EQ", "NE", "LT", "LE", "GT", "GE"}

\* luaO_arith and the operators of the machine on integers; Lua's division
\* rounds to minus infinity, and is an error by 0.
Arith(op, m, n) ==
  LET quotient == IF n > 0 THEN m \div n ELSE (-m) \div (-n) IN
  CASE op = "ADD" -> m + n
    [] op = "SUB" -> m - n
    [] op = "MUL" -> m * n
    [] op = "IDIV" -> quotient
    [] op = "MOD" -> m - n * quotient

validop(op, n) == op \in {"IDIV", "MOD"} => n # 0

\* constfolding
Folds2(op, e1, e2) == op \in ArithOps /\ tonumeral(e1) /\ tonumeral(e2) /\ validop(op, e2.info)

\* Mutant: in the order of the operands.
FreeBothMutant(s, e1, e2) == freeexp(freeexp(s, e1), e2)

\* Two operands are freed, the higher register first.
FreeBoth(s, e1, e2) ==
  IF RK(e1) > RK(e2) THEN freeexp(freeexp(s, e1), e2) ELSE freeexp(freeexp(s, e2), e1)

\* codeexpval for e1 op s.e.
codeexpval(s, op, e1) ==
  LET v2 == luaK_exp2RK(s)
      v1 == luaK_exp2RK(With(v2, e1))
      freed == FreeBoth(v1, v1.e, v2.e)
  IN  IF Folds2(op, e1, s.e) THEN With(s, [e1 EXCEPT !.info = Arith(op, e1.info, s.e.info)])
      ELSE Relocatable(freed, op, RK(v1.e), RK(v2.e))

\* codeexpval for a unary operator; -n is folded.
codeunary(s, op) ==
  LET v == luaK_exp2anyreg(s)
  IN  IF op = "UNM" /\ tonumeral(s.e) THEN [s EXCEPT !.e.info = -@]
      ELSE Relocatable(freeexp(v, v.e), op, v.e.info, 0)

codecomp(s, op, whether, e1) ==
  LET v1 == luaK_exp2RK(With(s, e1))
      v2 == luaK_exp2RK(With(v1, s.e))
      f == freeexp(freeexp(v2, v2.e), v1.e)
      swap == whether = 0 /\ op # "EQ"
      c == condjump(f, op, IF swap THEN 1 ELSE whether,
                    IF swap THEN RK(v2.e) ELSE RK(v1.e), IF swap THEN RK(v1.e) ELSE RK(v2.e))
  IN  With(c, [v1.e EXCEPT !.k = "VJMP", !.info = Pc(c) - 1])

luaK_prefix(s, op) == IF op = "NOT" THEN codenot(s) ELSE codeunary(s, op)

\* Before the second operand is read.
luaK_infix(s, op) ==
  CASE op = "AND" -> luaK_goiftrue(s)
    [] op = "OR" -> luaK_goiffalse(s)
    [] op = "CONCAT" -> luaK_exp2nextreg(s)
    [] op \in ArithOps -> IF tonumeral(s.e) THEN s ELSE luaK_exp2RK(s)
    [] op \in CompareOps -> luaK_exp2RK(s)

posconcat(s, e1) ==
  LET v == luaK_exp2val(s)
  IN  IF v.e.k = "VRELOCABLE" /\ v.code[v.e.info].op = "CONCAT"
        THEN With([freeexp(v, e1) EXCEPT !.code[v.e.info].B = e1.info],
                  [e1 EXCEPT !.k = "VRELOCABLE", !.info = v.e.info])
        ELSE codeexpval(luaK_exp2nextreg(v), "CONCAT", e1)

\* e1 op s.e
luaK_posfix(s, op, e1) ==
  CASE op = "AND" -> lua_assert(ConcatF(luaK_dischargevars(s), e1.f), e1.t = NoJump)
    [] op = "OR" -> lua_assert(ConcatT(luaK_dischargevars(s), e1.t), e1.f = NoJump)
    [] op = "CONCAT" -> posconcat(s, e1)
    [] op \in ArithOps -> codeexpval(s, op, e1)
    [] op \in {"EQ", "LT", "LE"} -> codecomp(s, op, 1, e1)
    [] op = "NE" -> codecomp(s, "EQ", 0, e1)
    [] op = "GT" -> codecomp(s, "LT", 0, e1)
    [] op = "GE" -> codecomp(s, "LE", 0, e1)

luaK_setlist(s, base, nelems, tostore) ==
  LET c == (nelems - 1) \div FieldsPerFlush + 1
      b == IF tostore = MultRet THEN 0 ELSE tostore
  IN  [luaK_code(s, "SETLIST", base, b, c) EXCEPT !.freereg = base + 1]

=============================================================================
