-------------------------------- MODULE LuaVM --------------------------------
(***************************************************************************)
(* The virtual machine of the Lua interpreter: luaV_execute of             *)
(* luasrc/lvm.c with the metamethods of ltm.c, the calls, errors and       *)
(* yields of ldo.c and the upvalues of lfunc.c, running the code LuaParser *)
(* makes of a program.                                                     *)
(*                                                                         *)
(* Values are tagged: <<"integer", 1>>, <<"table", identity>>.  There are  *)
(* integers, but no floats; a string is neither compared by order nor      *)
(* converted to a number; only tables have metatables.                     *)
(*                                                                         *)
(* The host calls the program, or runs it as a coroutine.  Its function g  *)
(* notes its arguments and returns them; in a coroutine it yields them,    *)
(* and the host resumes with the same values.                              *)
(*                                                                         *)
(* stack[0 ..] and its positions stand for pointers.  A frame is a         *)
(* CallInfo: of a Lua function (name "lua"), of pcall or of g.  It waits   *)
(* while its instruction has control in C: in a metamethod, a function of  *)
(* the host or an iterator.  After a yield or an error in a coroutine the  *)
(* C stack is gone, and the frames are cut: luaV_finishOp has to do what   *)
(* is left of their instructions.  A closure is [path, upvals], its place  *)
(* in the tree of Protos and what it captured; an upvalue is [at, v]: open *)
(* in stack[at], or closed (at = Closed) with value v.                     *)
(***************************************************************************)
EXTENDS LuaDump

CONSTANTS
  Programs,    \* records with a field yields: is it a coroutine?
  Source(_),   \* a program's tokens
  Loaded(_),   \* the code they are: f_parser
  StackSize,   \* LUAI_MAXSTACK
  MinStack,    \* LUA_MINSTACK
  MaxTagLoop,  \* MAXTAGLOOP
  MaxMisses

ASSUME VMAssumption ==
  /\ StackSize \in Nat /\ MinStack \in Nat /\ MaxTagLoop \in Nat /\ MaxMisses \in Nat
  /\ \A p \in Programs : Source(p) \in Seq(STRING) /\ p.yields \in BOOLEAN

VARIABLES
  program,
  main,       \* its Proto
  sound,      \* what the compiler asserts held
  stack, top,
  ci,         \* the frames, the running one last
  closure, upval,
  tables,     \* the contents of each table
  meta,       \* its metatable, or Nil
  trace,      \* what g was called with
  status      \* "source", "running", "yielded", "done", "error" or "rejected"

codeVars == <<program, main, sound>>
objectVars == <<closure, tables>>
vmVars == <<codeVars, objectVars, stack, top, ci, upval, meta, trace, status>>

ExtraStack == 5
Closed == -1
Host(name) == <<"host", name>>
isfalse(v) == v \in {Nil, Boolean(FALSE)}
IsFunction(v) == v[1] \in {"function", "host"}
IsInteger(v) == v[1] = "integer"
cvt2str(v) == v[1] \in {"string", "integer"}

-----------------------------------------------------------------------------
(* The instruction that is executed, and its operands *)

Frame == Last(ci)
ProtoAt(path) == FoldLeft(LAMBDA p, n : p.p[n], main, path)
cl == closure[stack[Frame.func][2]]
P == ProtoAt(cl.path)
I == P.code[Frame.pc]

R(r) == stack[Frame.base + r]
K(n) == P.k[n]
RegOrK(x) == IF ISK(x) THEN K(x - BitRK) ELSE R(x)
ValueOf(u) == IF upval[u].at = Closed THEN upval[u].v ELSE stack[upval[u].at]
U(n) == ValueOf(cl.upvals[n])

\* The values in stack[a .. b - 1]; a stack with vs from a on; n values of vs.
StackValues(a, b) == [j \in 1 .. b - a |-> stack[a + j - 1]]
Overwrite(st, a, vs) ==
  [x \in DOMAIN st |-> IF x - a + 1 \in DOMAIN vs THEN vs[x - a + 1] ELSE st[x]]
Adjust(vs, n) == [j \in 1 .. n |-> IF j <= Len(vs) THEN vs[j] ELSE Nil]
SetRegister(r, v) == stack' = Overwrite(stack, Frame.base + r, <<v>>)

\* CallInfo.top of a Lua function's frame.
FrameTop(frame) == frame.base + ProtoAt(closure[stack[frame.func][2]].path).maxstacksize

rawget(t, key) == IF key \in DOMAIN t THEN t[key] ELSE Nil
rawset(t, key, v) == [k \in DOMAIN t \cup {key} |-> IF k = key THEN v ELSE t[k]]
rawlen(t) == CHOOSE n \in 0 .. Cardinality(DOMAIN t) :
               /\ rawget(t, Integer(n + 1)) = Nil
               /\ \A m \in 1 .. n : rawget(t, Integer(m)) # Nil

AsText(v) == IF IsInteger(v) THEN ToString(v[2]) ELSE v[2]

-----------------------------------------------------------------------------
(* What an instruction comes to: values, the call of a metamethod, an error *)

luaT_gettmbyobj(v, event) ==
  IF v[1] = "table" /\ meta[v[2]] # Nil THEN rawget(tables[meta[v[2]][2]], String(event)) ELSE Nil
bintm(v, w, event) ==
  IF luaT_gettmbyobj(v, event) # Nil THEN luaT_gettmbyobj(v, event) ELSE luaT_gettmbyobj(w, event)

Value(vs) == [how |-> "value", vs |-> vs]
Meta(tm, args) == [how |-> "call", tm |-> tm, vs |-> args]
Bad == [how |-> "error", vs |-> <<>>]
TryMeta(tm, args) == IF tm = Nil THEN Bad ELSE Meta(tm, args)

RECURSIVE luaV_gettable(_, _, _)
luaV_gettable(v, key, loop) ==
  LET tm == luaT_gettmbyobj(v, "__index")
      raw == rawget(tables[v[2]], key)
  IN  IF loop = MaxTagLoop THEN Bad
      ELSE IF v[1] = "table" /\ (raw # Nil \/ tm = Nil) THEN Value(<<raw>>)
      ELSE IF tm = Nil THEN Bad
      ELSE IF IsFunction(tm) THEN Meta(tm, <<v, key>>)
      ELSE luaV_gettable(tm, key, loop + 1)

\* The value is the table that gets the entry.
RECURSIVE luaV_settable(_, _, _, _)
luaV_settable(v, key, new, loop) ==
  LET tm == luaT_gettmbyobj(v, "__newindex")
      raw == rawget(tables[v[2]], key)
  IN  IF loop = MaxTagLoop THEN Bad
      ELSE IF v[1] = "table" /\ (raw # Nil \/ tm = Nil) THEN (IF key = Nil THEN Bad ELSE Value(<<v>>))
      ELSE IF tm = Nil THEN Bad
      ELSE IF IsFunction(tm) THEN Meta(tm, <<v, key, new>>)
      ELSE luaV_settable(tm, key, new, loop + 1)

Event == [ADD |-> "__add", SUB |-> "__sub", MUL |-> "__mul", MOD |-> "__mod", IDIV |-> "__idiv"]

arithmetic(op, v, w) ==
  CASE IsInteger(v) /\ IsInteger(w) /\ validop(op, w[2]) -> Value(<<Integer(Arith(op, v[2], w[2]))>>)
    [] IsInteger(v) /\ IsInteger(w) /\ ~validop(op, w[2]) -> Bad
    [] OTHER -> TryMeta(bintm(v, w, Event[op]), <<v, w>>)

luaV_objlen(v) ==
  LET tm == luaT_gettmbyobj(v, "__len")
  IN  CASE v[1] = "table" /\ tm = Nil -> Value(<<Integer(rawlen(tables[v[2]]))>>)
        [] v[1] = "string" -> Value(<<Integer(Len(v[2]))>>)
        [] OTHER -> TryMeta(tm, <<v, v>>)

luaV_equalobj(v, w) ==
  LET tm == bintm(v, w, "__eq")
  IN  IF v[1] = "table" /\ w[1] = "table" /\ v # w /\ tm # Nil THEN Meta(tm, <<v, w>>)
      ELSE Value(<<Boolean(v = w)>>)

luaV_lessthan(v, w) ==
  IF IsInteger(v) /\ IsInteger(w) THEN Value(<<Boolean(v[2] < w[2])>>)
  ELSE TryMeta(bintm(v, w, "__lt"), <<v, w>>)

\* Is it not (w < v), for want of __le?
CIST_LEQ(v, w) == ~(IsInteger(v) /\ IsInteger(w)) /\ bintm(v, w, "__le") = Nil
luaV_lessequal(v, w) ==
  CASE IsInteger(v) /\ IsInteger(w) -> Value(<<Boolean(v[2] <= w[2])>>)
    [] CIST_LEQ(v, w) -> TryMeta(bintm(w, v, "__lt"), <<w, v>>)
    [] OTHER -> Meta(bintm(v, w, "__le"), <<v, w>>)

Varargs == StackValues(Frame.func + 1 + P.numparams, Frame.base)

LoadOps == {"MOVE", "LOADK", "LOADBOOL", "LOADNIL", "GETUPVAL", "NOT", "VARARG"}
MetaOps == {"GETTABUP", "GETTABLE", "SELF", "UNM", "LEN"} \cup ArithOps
SetOps == {"SETTABUP", "SETTABLE"}
OrderOps == {"EQ", "LT", "LE"}

OutcomeOf(i) ==
  CASE i.op = "MOVE" -> Value(<<R(i.B)>>)
    [] i.op = "LOADK" -> Value(<<K(i.B)>>)
    [] i.op = "LOADBOOL" -> Value(<<Boolean(i.B = 1)>>)
    [] i.op = "LOADNIL" -> Value(Adjust(<<>>, i.B + 1))
    [] i.op = "GETUPVAL" -> Value(<<U(i.B)>>)
    [] i.op = "NOT" -> Value(<<Boolean(isfalse(R(i.B)))>>)
    [] i.op = "VARARG" -> Value(IF i.B = 0 THEN Varargs ELSE Adjust(Varargs, i.B - 1))
    [] i.op = "GETTABUP" -> luaV_gettable(U(i.B), RegOrK(i.C), 0)
    [] i.op \in {"GETTABLE", "SELF"} -> luaV_gettable(R(i.B), RegOrK(i.C), 0)
    [] i.op = "SETTABUP" -> luaV_settable(U(i.A), RegOrK(i.B), RegOrK(i.C), 0)
    [] i.op = "SETTABLE" -> luaV_settable(R(i.A), RegOrK(i.B), RegOrK(i.C), 0)
    [] i.op \in ArithOps -> arithmetic(i.op, RegOrK(i.B), RegOrK(i.C))
    [] i.op = "UNM" -> IF IsInteger(R(i.B)) THEN Value(<<Integer(-R(i.B)[2])>>)
                       ELSE TryMeta(luaT_gettmbyobj(R(i.B), "__unm"), <<R(i.B), R(i.B)>>)
    [] i.op = "LEN" -> luaV_objlen(R(i.B))
    [] i.op = "EQ" -> luaV_equalobj(RegOrK(i.B), RegOrK(i.C))
    [] i.op = "LT" -> luaV_lessthan(RegOrK(i.B), RegOrK(i.C))
    [] i.op = "LE" -> luaV_lessequal(RegOrK(i.B), RegOrK(i.C))
    [] i.op \in {"CALL", "TAILCALL", "TFORCALL"} ->
         IF IsFunction(R(i.A)) \/ IsFunction(luaT_gettmbyobj(R(i.A), "__call")) THEN Value(<<>>) ELSE Bad
    [] i.op = "FORPREP" -> IF \A r \in 0 .. 2 : IsInteger(R(i.A + r)) THEN Value(<<>>) ELSE Bad
    [] OTHER -> Value(<<>>)
Outcome == OutcomeOf(I)

\* Control is at one of the instructions ops, which comes to this.
Executes(ops, how) ==
  /\ status = "running" /\ Frame.name = "lua" /\ ~Frame.waits
  /\ I.op \in ops /\ Outcome.how = how
Now(ops) == Executes(ops, "value")

GoTo(pc) == ci' = [ci EXCEPT ![Len(ci)].pc = pc]
Continue == GoTo(Frame.pc + 1)

-----------------------------------------------------------------------------
(* Upvalues *)

\* luaF_close: the upvalues open at level or above keep their values.
Closing(level) ==
  [u \in DOMAIN upval |->
     IF upval[u].at >= level THEN [at |-> Closed, v |-> stack[upval[u].at]] ELSE upval[u]]

\* luaF_findupval: the upvalue of upv open at this level, or 0.
OpenAt(upv, level) == SelectInSeq(upv, LAMBDA u : u.at = level)

\* pushclosure: [ids, upv], what a new closure captures.
pushclosure(p) ==
  LET Capture(acc, d) ==
        LET level == Frame.base + d.idx
            u == OpenAt(acc.upv, level)
        IN  CASE ~d.instack -> [acc EXCEPT !.ids = Append(@, cl.upvals[d.idx])]
              [] d.instack /\ u # 0 -> [acc EXCEPT !.ids = Append(@, u)]
              [] OTHER -> [ids |-> Append(acc.ids, Len(acc.upv) + 1),
                           upv |-> Append(acc.upv, [at |-> level, v |-> Nil])]
  IN  FoldLeft(Capture, [ids |-> <<>>, upv |-> upval], p.upvalues)

\* Closure id of the Proto captured the variables a new one would.
getcached(path, id) ==
  LET ups == ProtoAt(path).upvalues
      old == closure[id].upvals
  IN  /\ closure[id].path = path
      /\ \A n \in DOMAIN ups :
           IF ups[n].instack THEN upval[old[n]].at = Frame.base + ups[n].idx
           ELSE old[n] = cl.upvals[ups[n].idx]

\* Which closure is in Proto.cache, if any, depends on the collector, too: it
\* empties the cache, and a black Proto is not made to point to a new closure.
\* MaxMisses bounds the closures that are made although one could be reused.
OP_CLOSURE ==
  /\ Now({"CLOSURE"})
  /\ LET path == Append(cl.path, I.B)
         new == pushclosure(ProtoAt(path))
     IN  \/ \E id \in DOMAIN closure :
              /\ getcached(path, id)
              /\ SetRegister(I.A, <<"function", id>>)
              /\ UNCHANGED <<closure, upval>>
         \/ /\ \/ Len(closure) < MaxMisses
               \/ ~\E id \in DOMAIN closure : getcached(path, id)
            /\ SetRegister(I.A, <<"function", Len(closure) + 1>>)
            /\ closure' = Append(closure, [path |-> path, upvals |-> new.ids])
            /\ upval' = new.upv
  /\ Continue
  /\ UNCHANGED <<codeVars, top, tables, meta, trace, status>>

OP_SETUPVAL ==
  /\ Now({"SETUPVAL"})
  /\ LET u == cl.upvals[I.B]
     IN  IF upval[u].at = Closed
           THEN upval' = [upval EXCEPT ![u].v = R(I.A)] /\ UNCHANGED stack
           ELSE stack' = Overwrite(stack, upval[u].at, <<R(I.A)>>) /\ UNCHANGED upval
  /\ Continue
  /\ UNCHANGED <<codeVars, objectVars, top, meta, trace, status>>

-----------------------------------------------------------------------------
(* Values *)

OP_Compute ==
  /\ Now(LoadOps \cup MetaOps)
  /\ stack' = Overwrite(stack, Frame.base + I.A,
                        IF I.op = "SELF" THEN Outcome.vs \o <<R(I.B)>> ELSE Outcome.vs)
  /\ GoTo(Frame.pc + (IF I.op = "LOADBOOL" /\ I.C = 1 THEN 2 ELSE 1))
  /\ top' = IF I.op = "VARARG" /\ I.B = 0 THEN Frame.base + I.A + Len(Varargs) ELSE top
  /\ UNCHANGED <<codeVars, objectVars, upval, meta, trace, status>>

OP_NEWTABLE ==
  /\ Now({"NEWTABLE"})
  /\ tables' = Append(tables, <<>>)
  /\ meta' = Append(meta, Nil)
  /\ SetRegister(I.A, <<"table", Len(tables) + 1>>)
  /\ Continue
  /\ UNCHANGED <<codeVars, top, closure, upval, trace, status>>

OP_SETTABLE ==
  /\ Now(SetOps)
  /\ tables' = [tables EXCEPT ![Outcome.vs[1][2]] = rawset(@, RegOrK(I.B), RegOrK(I.C))]
  /\ Continue
  /\ UNCHANGED <<codeVars, stack, top, closure, upval, meta, trace, status>>

OP_SETLIST ==
  /\ Now({"SETLIST"})
  /\ LET n == IF I.B = 0 THEN top - (Frame.base + I.A) - 1 ELSE I.B
         first == (I.C - 1) * FieldsPerFlush
     IN  tables' = [tables EXCEPT ![R(I.A)[2]] =
                      FoldLeft(LAMBDA t, j : rawset(t, Integer(first + j), R(I.A + j)), @,
                               [j \in 1 .. n |-> j])]
  /\ top' = FrameTop(Frame)
  /\ Continue
  /\ UNCHANGED <<codeVars, stack, closure, upval, meta, trace, status>>

-----------------------------------------------------------------------------
(* Jumps *)

\* dojump by instruction j.
Jump(j) ==
  /\ GoTo(j.B)
  /\ upval' = IF j.A > 0 THEN Closing(Frame.base + j.A - 1) ELSE upval

OP_JMP ==
  /\ Now({"JMP"})
  /\ Jump(I)
  /\ UNCHANGED <<codeVars, objectVars, stack, top, meta, trace, status>>

Passes ==
  CASE I.op \in OrderOps -> Outcome.vs[1] = Boolean(I.A = 1)
    [] I.op = "TEST" -> isfalse(R(I.A)) = (I.C = 0)
    [] I.op = "TESTSET" -> isfalse(R(I.B)) = (I.C = 0)

\* The jump that follows is executed with the test, or skipped.
OP_Test ==
  /\ Now(TestOps)
  /\ IF Passes THEN Jump(P.code[Frame.pc + 1]) ELSE GoTo(Frame.pc + 2) /\ UNCHANGED upval
  /\ IF I.op = "TESTSET" /\ Passes THEN SetRegister(I.A, R(I.B)) ELSE UNCHANGED stack
  /\ UNCHANGED <<codeVars, objectVars, top, meta, trace, status>>

OP_FORPREP ==
  /\ Now({"FORPREP"})
  /\ SetRegister(I.A, Integer(R(I.A)[2] - R(I.A + 2)[2]))
  /\ GoTo(I.B)
  /\ UNCHANGED <<codeVars, objectVars, top, upval, meta, trace, status>>

OP_FORLOOP ==
  /\ Now({"FORLOOP"})
  /\ LET step == R(I.A + 2)[2]
         idx == R(I.A)[2] + step
         limit == R(I.A + 1)[2]
         again == IF 0 < step THEN idx <= limit ELSE limit <= idx
         counted == Overwrite(stack, Frame.base + I.A, <<Integer(idx), R(I.A + 1), R(I.A + 2), Integer(idx)>>)
     IN  /\ stack' = IF again THEN counted ELSE stack
         /\ GoTo(IF again THEN I.B ELSE Frame.pc + 1)
  /\ UNCHANGED <<codeVars, objectVars, top, upval, meta, trace, status>>

OP_TFORLOOP ==
  /\ Now({"TFORLOOP"})
  /\ IF R(I.A + 1) # Nil THEN SetRegister(I.A, R(I.A + 1)) /\ GoTo(I.B)
     ELSE UNCHANGED stack /\ Continue
  /\ UNCHANGED <<codeVars, objectVars, top, upval, meta, trace, status>>

-----------------------------------------------------------------------------
(* Errors *)

\* In a coroutine an error, like a yield, takes the C stack with it.
Cut(frames) ==
  [j \in DOMAIN frames |-> [frames[j] EXCEPT !.cut = @ \/ program.yields]]

\* luaD_throw, to luaD_pcall or, in a coroutine, to recover.
Throw(st, frames, v) ==
  LET i == SelectLastInSeq(frames, LAMBDA f : f.name = "pcall")
      oldtop == frames[i].base
  IN  IF i = 0 THEN status' = "error" /\ UNCHANGED <<stack, top, ci, upval>>
      ELSE /\ stack' = Overwrite(st, oldtop, <<v>>)
           /\ top' = oldtop + 1
           /\ ci' = Cut([SubSeq(frames, 1, i) EXCEPT ![i].pc = 2])
           /\ upval' = Closing(oldtop)
           /\ UNCHANGED status

Message == String("error")

\* luaG_typeerror and its like.
Raise ==
  /\ status = "running" /\ Frame.name = "lua" /\ ~Frame.waits /\ Outcome.how = "error"
  /\ Throw(stack, ci, Message)
  /\ UNCHANGED <<codeVars, objectVars, meta, trace>>

-----------------------------------------------------------------------------
(* Calls *)

NewFrame(name, func, base, nresults) ==
  [name |-> name, func |-> func, base |-> base, pc |-> 0, nresults |-> nresults,
   reentry |-> FALSE, waits |-> FALSE, leq |-> FALSE, cut |-> FALSE]

\* luaD_poscall: n results from the frame at func.
Results(st, func, nresults, vs) ==
  LET n == IF nresults = MultRet THEN Len(vs) ELSE nresults
  IN  stack' = Overwrite(st, func, Adjust(vs, n)) /\ top' = func + n

\* luaD_precall for a Lua function in st[func] with arguments up to t - 1:
\* [st, base].  A vararg function has its parameters moved above the arguments.
Prepared(st, func, t) ==
  LET p == ProtoAt(closure[st[func][2]].path)
      actual == IF t - func - 1 < p.numparams THEN p.numparams ELSE t - func - 1
      args == Adjust([j \in 1 .. t - func - 1 |-> st[func + j]], actual)
      above == func + 1 + actual
  IN  IF ~p.is_vararg THEN [st |-> Overwrite(st, func + 1, args), base |-> func + 1]
      ELSE [st |-> Overwrite(Overwrite(Overwrite(st, func + 1, args), above, Adjust(args, p.numparams)),
                             func + 1, Adjust(<<>>, p.numparams)),
            base |-> above]

\* luaD_checkstack, for a vararg function above its arguments: is there no room?
Overflow(st, func, t) ==
  LET p == ProtoAt(closure[st[func][2]].path)
      actual == IF t - func - 1 < p.numparams THEN p.numparams ELSE t - func - 1
      room == IF st[func][1] = "host" THEN t + MinStack
              ELSE (IF p.is_vararg THEN func + 1 + actual ELSE t) + p.maxstacksize
  IN  room + ExtraStack > StackSize

\* tryfuncTM: what is called instead of a value that is no function.
Callee(st, func, t) ==
  IF IsFunction(st[func]) THEN [st |-> st, t |-> t]
  ELSE [st |-> Overwrite(st, func, <<luaT_gettmbyobj(st[func], "__call")>> \o
                                     [j \in 1 .. t - func |-> st[func + j - 1]]),
        t |-> t + 1]

\* The functions of the host, called in st[func] with args: g,
host_g(frames, st, func, nresults, args) ==
  /\ trace' = Append(trace, args)
  /\ Results(st, func, nresults, args)
  /\ ci' = frames
  /\ UNCHANGED <<upval, meta, status>>

\* and in a coroutine,
lua_yieldk(frames, st, func, nresults, args) ==
  /\ trace' = Append(trace, args)
  /\ status' = "yielded"
  /\ ci' = Cut(Append(frames, NewFrame("g", func, func + 1, nresults)))
  /\ stack' = st /\ top' = func + 1 + Len(args)
  /\ UNCHANGED <<upval, meta>>

\* pcall, as far as what it calls,
luaB_pcall(frames, st, func, nresults, args) ==
  /\ stack' = Overwrite(st, func + 1, <<Boolean(TRUE)>> \o args)
  /\ top' = func + 2 + Len(args)
  /\ ci' = Append(frames, NewFrame("pcall", func, func + 2, nresults))
  /\ UNCHANGED <<upval, meta, trace, status>>

\* setmetatable,
luaB_setmetatable(frames, st, func, nresults, args) ==
  /\ meta' = [meta EXCEPT ![args[1][2]] = args[2]]
  /\ Results(st, func, nresults, <<args[1]>>)
  /\ ci' = frames
  /\ UNCHANGED <<upval, trace, status>>

\* and error.
luaB_error(frames, st, args) ==
  Throw(st, frames, Adjust(args, 1)[1]) /\ UNCHANGED <<meta, trace>>

CallHost(name, frames, st, func, t, nresults) ==
  LET args == [j \in 1 .. t - func - 1 |-> st[func + j]]
      IsTable(j) == j \in DOMAIN args /\ args[j][1] = "table"
  IN  CASE name = "g" /\ ~program.yields -> host_g(frames, st, func, nresults, args)
        [] name = "g" /\ program.yields -> lua_yieldk(frames, st, func, nresults, args)
        [] name = "pcall" /\ args # <<>> -> luaB_pcall(frames, st, func, nresults, args)
        [] name = "setmetatable" /\ IsTable(1) /\ IsTable(2) ->
             luaB_setmetatable(frames, st, func, nresults, args)
        [] name = "error" -> luaB_error(frames, st, args)
        [] OTHER -> Throw(st, frames, Message) /\ UNCHANGED <<meta, trace>>

\* luaD_precall of st[func] with arguments up to t - 1, from the frames.
CallFrom(frames, reentry, st0, func, t0, nresults) ==
  LET c == Callee(st0, func, t0)
      st == c.st
      n == Prepared(st, func, c.t)
      lua == [NewFrame("lua", func, n.base, nresults) EXCEPT !.pc = 1, !.reentry = reentry]
  IN  CASE ~IsFunction(st[func]) ->
             Throw(st, frames, Message) /\ UNCHANGED <<meta, trace>>
        [] IsFunction(st[func]) /\ Overflow(st, func, c.t) ->
             Throw(st, frames, Message) /\ UNCHANGED <<meta, trace>>
        [] st[func][1] = "function" /\ ~Overflow(st, func, c.t) ->
             /\ stack' = n.st
             /\ ci' = Append(frames, lua)
             /\ top' = n.base + ProtoAt(closure[st[func][2]].path).maxstacksize
             /\ UNCHANGED <<upval, meta, trace, status>>
        [] st[func][1] = "host" /\ ~Overflow(st, func, c.t) ->
             CallHost(st[func][2], frames, st, func, c.t, nresults)

\* The frames with the caller behind its instruction; waiting for C, or not.
Caller(waits, leq) ==
  [ci EXCEPT ![Len(ci)] = [@ EXCEPT !.pc = @ + 1, !.waits = waits, !.leq = leq, !.cut = FALSE]]

\* With B = 0, the arguments or values go up to top.
ArgTop == IF I.B # 0 THEN Frame.base + I.A + I.B ELSE top

IsLua(func, t) == Callee(stack, func, t).st[func][1] = "function"

OP_CALL ==
  /\ Now({"CALL"})
  /\ LET func == Frame.base + I.A
         lua == IsLua(func, ArgTop)
     IN  CallFrom(Caller(~lua, FALSE), lua, stack, func, ArgTop, I.C - 1)
  /\ UNCHANGED <<codeVars, objectVars>>

OP_TFORCALL ==
  /\ Now({"TFORCALL"})
  /\ LET cb == Frame.base + I.A + 3
         st == Overwrite(stack, cb, <<R(I.A), R(I.A + 1), R(I.A + 2)>>)
     IN  CallFrom(Caller(TRUE, FALSE), FALSE, st, cb, cb + 3, I.C)
  /\ UNCHANGED <<codeVars, objectVars>>

\* A function of the host is called as by CALL, and the RETURN that follows
\* returns its results.  A Lua function's frame takes the place of this one.
OP_TAILCALL ==
  /\ Now({"TAILCALL"})
  /\ LET nfunc == Frame.base + I.A
         c == Callee(stack, nfunc, ArgTop)
         n == Prepared(c.st, nfunc, c.t)
         p == ProtoAt(closure[c.st[nfunc][2]].path)
         base == Frame.func + n.base - nfunc
         moved == [j \in 1 .. n.base + p.numparams - nfunc |-> n.st[nfunc + j - 1]]
         lua == IsLua(nfunc, ArgTop) /\ ~Overflow(c.st, nfunc, c.t)
     IN  \/ /\ ~lua
            /\ CallFrom(Caller(TRUE, FALSE), FALSE, stack, nfunc, ArgTop, MultRet)
         \/ /\ lua
            /\ upval' = IF P.p # <<>> THEN Closing(Frame.base) ELSE upval
            /\ stack' = Overwrite(n.st, Frame.func, moved)
            /\ top' = base + p.maxstacksize
            /\ ci' = [ci EXCEPT ![Len(ci)] = [@ EXCEPT !.base = base, !.pc = 1]]
            /\ UNCHANGED <<meta, trace, status>>
  /\ UNCHANGED <<codeVars, objectVars>>

\* A function without inner functions has no open upvalues.  What called it by
\* CALL goes on in the same luaV_execute.
OP_RETURN ==
  /\ Now({"RETURN"})
  /\ LET ra == Frame.base + I.A
         vs == StackValues(ra, IF I.B # 0 THEN ra + I.B - 1 ELSE top)
         n == IF Frame.nresults = MultRet THEN Len(vs) ELSE Frame.nresults
     IN  /\ stack' = Overwrite(stack, Frame.func, Adjust(vs, n))
         /\ top' = IF Frame.reentry /\ Frame.nresults # MultRet THEN FrameTop(Last(Front(ci)))
                   ELSE Frame.func + n
  /\ upval' = IF P.p # <<>> THEN Closing(Frame.base) ELSE upval
  /\ ci' = Front(ci)
  /\ status' = IF Len(ci) = 1 THEN "done" ELSE status
  /\ UNCHANGED <<codeVars, objectVars, meta, trace>>

\* luaT_callTM, with its arguments above st's top at t.
CallTM(st, t, tm, args, nresults, leq) ==
  CallFrom(Caller(TRUE, leq), FALSE, Overwrite(st, t, <<tm>> \o args), t, t + 1 + Len(args), nresults)

OP_Meta ==
  /\ Executes(MetaOps \cup SetOps \cup OrderOps, "call")
  /\ LET st == IF I.op = "SELF" THEN Overwrite(stack, Frame.base + I.A + 1, <<R(I.B)>>) ELSE stack
     IN  CallTM(st, top, Outcome.tm, Outcome.vs, IF I.op \in SetOps THEN 0 ELSE 1,
                I.op = "LE" /\ CIST_LEQ(RegOrK(I.B), RegOrK(I.C)))
  /\ UNCHANGED <<codeVars, objectVars>>

-----------------------------------------------------------------------------
(* Concatenation *)

\* luaV_concat of st[b .. t - 1], as far as it goes without a metamethod.
RECURSIVE luaV_concat(_, _, _)
luaV_concat(st, b, t) ==
  IF t - b = 1 \/ ~cvt2str(st[t - 2]) \/ ~cvt2str(st[t - 1]) THEN [st |-> st, t |-> t]
  ELSE luaV_concat(Overwrite(st, t - 2, <<String(AsText(st[t - 2]) \o AsText(st[t - 1]))>>), b, t - 1)

\* Operands i.B .. of the instruction i are in st up to t - 1; frames: its frame
\* goes on behind it, or behind a metamethod.
Concat(i, st, t, done, waiting) ==
  LET b == Frame.base + i.B
      c == luaV_concat(st, b, t)
      v == c.st[c.t - 2]
      w == c.st[c.t - 1]
      tm == bintm(v, w, "__concat")
  IN  CASE c.t = b + 1 ->
             /\ stack' = Overwrite(c.st, Frame.base + i.A, <<c.st[b]>>)
             /\ top' = FrameTop(Frame)
             /\ ci' = done
             /\ UNCHANGED <<upval, meta, trace, status>>
        [] c.t # b + 1 /\ tm = Nil ->
             Throw(c.st, ci, Message) /\ UNCHANGED <<meta, trace>>
        [] OTHER ->
             CallFrom(waiting, FALSE, Overwrite(c.st, c.t, <<tm, v, w>>), c.t, c.t + 3, 1)

OP_CONCAT ==
  /\ Now({"CONCAT"})
  /\ Concat(I, stack, Frame.base + I.C + 1, Caller(FALSE, FALSE), Caller(TRUE, FALSE))
  /\ UNCHANGED <<codeVars, objectVars>>

-----------------------------------------------------------------------------
(* Back from C *)

\* The frame is a Lua function's, its instruction, before pc, has been waiting.
Waited(cut) ==
  status = "running" /\ Frame.name = "lua" /\ Frame.waits /\ Frame.cut = cut
Done == P.code[Frame.pc - 1]
Resumed(pc) == [ci EXCEPT ![Len(ci)] = [@ EXCEPT !.pc = pc, !.waits = FALSE, !.cut = FALSE, !.leq = FALSE]]

\* The result of a comparison's metamethod: ~ is for CIST_LEQ.
TestResult == ~isfalse(stack[top - 1]) # Frame.leq

\* What luaV_execute, luaT_callTM and luaV_concat do after the call.
Finish ==
  /\ Waited(FALSE)
  /\ CASE Done.op \in {"CALL", "TFORCALL"} ->
            /\ top' = IF Done.op = "CALL" /\ Done.C = 0 THEN top ELSE FrameTop(Frame)
            /\ ci' = Resumed(Frame.pc)
            /\ UNCHANGED <<stack, upval, meta, trace, status>>
       [] Done.op \in {"TAILCALL"} \cup SetOps ->
            ci' = Resumed(Frame.pc) /\ UNCHANGED <<stack, top, upval, meta, trace, status>>
       [] Done.op \in MetaOps ->
            /\ SetRegister(Done.A, stack[top - 1])
            /\ top' = top - 1
            /\ ci' = Resumed(Frame.pc)
            /\ UNCHANGED <<upval, meta, trace, status>>
       [] Done.op \in OrderOps ->
            /\ LET j == P.code[Frame.pc]
                   passes == TestResult = (Done.A = 1)
               IN  /\ ci' = Resumed(IF passes THEN j.B ELSE Frame.pc + 1)
                   /\ upval' = IF passes /\ j.A > 0 THEN Closing(Frame.base + j.A - 1) ELSE upval
            /\ top' = top - 1
            /\ UNCHANGED <<stack, meta, trace, status>>
       [] Done.op = "CONCAT" ->
            Concat(Done, Overwrite(stack, top - 3, <<stack[top - 1]>>), top - 2, Resumed(Frame.pc), ci)
  /\ UNCHANGED <<codeVars, objectVars>>

\* The same for a frame whose C code is gone; the jump after a comparison is
\* left to luaV_execute.
luaV_finishOp ==
  /\ Waited(TRUE)
  /\ CASE Done.op = "CALL" ->
            /\ top' = IF Done.C > 0 THEN FrameTop(Frame) ELSE top
            /\ ci' = Resumed(Frame.pc)
            /\ UNCHANGED <<stack, upval, meta, trace, status>>
       [] Done.op = "TFORCALL" ->
            /\ top' = FrameTop(Frame)
            /\ ci' = Resumed(Frame.pc)
            /\ UNCHANGED <<stack, upval, meta, trace, status>>
       [] Done.op \in {"TAILCALL"} \cup SetOps ->
            ci' = Resumed(Frame.pc) /\ UNCHANGED <<stack, top, upval, meta, trace, status>>
       [] Done.op \in MetaOps ->
            /\ SetRegister(Done.A, stack[top - 1])
            /\ top' = top - 1
            /\ ci' = Resumed(Frame.pc)
            /\ UNCHANGED <<upval, meta, trace, status>>
       [] Done.op \in OrderOps ->
            /\ ci' = Resumed(IF TestResult = (Done.A = 1) THEN Frame.pc ELSE Frame.pc + 1)
            /\ top' = top - 1
            /\ UNCHANGED <<stack, upval, meta, trace, status>>
       [] Done.op = "CONCAT" ->
            Concat(Done, Overwrite(stack, top - 3, <<stack[top - 1]>>), top - 2, Resumed(Frame.pc), ci)
  /\ UNCHANGED <<codeVars, objectVars>>

InPcall(pc) == status = "running" /\ Frame.name = "pcall" /\ Frame.pc = pc

\* luaB_pcall calls what it was given,
lua_pcallk ==
  /\ InPcall(0)
  /\ CallFrom([ci EXCEPT ![Len(ci)].pc = 1], FALSE, stack, Frame.base, top, MultRet)
  /\ UNCHANGED <<codeVars, objectVars>>

\* and returns true and all the results, or false and the error.
finishpcall ==
  /\ InPcall(1) \/ InPcall(2)
  /\ Results(stack, Frame.func, Frame.nresults,
             IF Frame.pc = 1 THEN StackValues(Frame.func + 1, top) ELSE <<Boolean(FALSE), stack[top - 1]>>)
  /\ ci' = Front(ci)
  /\ status' = IF Len(ci) = 1 THEN "done" ELSE status
  /\ UNCHANGED <<codeVars, objectVars, upval, meta, trace>>

\* The host resumes the coroutine with what it was given: what g returns.
lua_resume ==
  /\ status = "yielded"
  /\ Results(stack, Frame.func, Frame.nresults, StackValues(Frame.base, top))
  /\ ci' = Front(ci)
  /\ status' = "running"
  /\ UNCHANGED <<codeVars, objectVars, upval, meta, trace>>

-----------------------------------------------------------------------------

VMInit ==
  /\ program \in Programs
  /\ status = "source"
  /\ main = <<>> /\ sound = TRUE /\ stack = <<>> /\ top = 0 /\ ci = <<>> /\ closure = <<>>
  /\ upval = <<>> /\ tables = <<>> /\ meta = <<>> /\ trace = <<>>

Library == {"g", "pcall", "error", "setmetatable"}

\* A program is loaded from its text, a coroutine from the stripped chunk
\* string.dump made of that: [f, sound, err].
f_parser(p) ==
  LET s == luaY_parser(Source(p))
      d == luaU_undump(luaU_dump(Proto(s), TRUE))
  IN  IF p.yields /\ s.err = "" THEN [f |-> d.f, sound |-> s.sound /\ d.sound, err |-> d.err]
      ELSE [f |-> Proto(s), sound |-> s.sound, err |-> s.err]

\* lua_load, and lua_call or lua_resume of the main function for all its results.
lua_load ==
  /\ status = "source"
  /\ LET s == Loaded(program)
     IN  /\ main' = s.f
         /\ sound' = s.sound
         /\ status' = IF s.err = "" THEN "running" ELSE "rejected"
         /\ top' = 1 + s.f.maxstacksize
  /\ stack' = [x \in 0 .. StackSize |-> IF x = 0 THEN <<"function", 1>> ELSE Nil]
  /\ ci' = <<[NewFrame("lua", 0, 1, MultRet) EXCEPT !.pc = 1]>>
  /\ closure' = <<[path |-> <<>>, upvals |-> <<1>>]>>
  /\ upval' = <<[at |-> Closed, v |-> <<"table", 1>>]>>
  /\ tables' = <<[k \in {String(name) : name \in Library} |-> Host(k[2])]>>
  /\ meta' = <<Nil>>
  /\ UNCHANGED <<program, trace>>

VMNext ==
  \/ lua_load \/ Raise
  \/ OP_Compute \/ OP_CLOSURE \/ OP_SETUPVAL \/ OP_NEWTABLE \/ OP_SETTABLE \/ OP_SETLIST
  \/ OP_JMP \/ OP_Test \/ OP_FORPREP \/ OP_FORLOOP \/ OP_TFORLOOP
  \/ OP_CALL \/ OP_TFORCALL \/ OP_TAILCALL \/ OP_RETURN \/ OP_Meta \/ OP_CONCAT
  \/ Finish \/ luaV_finishOp \/ lua_pcallk \/ finishpcall \/ lua_resume

VMSpec == VMInit /\ [][VMNext]_vmVars

=============================================================================
