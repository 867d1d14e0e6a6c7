----------------------------- MODULE LuaPrograms -----------------------------
(***************************************************************************)
(* The compiler and the virtual machine, LuaVM, against LuaMeaning: the    *)
(* programs they are given, and what has to hold when they have run.       *)
(***************************************************************************)
EXTENDS LuaVM, LuaMeaning

CONSTANTS
  Wrappers,  \* which of Wrapped(_, ...) the programs use,
  Firsts,    \* and which fragments, first
  Seconds    \* and second

va == Var("a")
vb == Var("b")
vf == Var("f")
vt == Var("t")
vx == Var("x")
vn == Var("n")
CallVar(x, es) == Apply(Var(x), es)
Emit(es) == CallVar("g", es)
Item(e) == <<"item", e>>
Pair(x, e) == <<"pair", Str(x), e>>
Function(xs, es) == Fun(xs, FALSE, <<Return(es)>>)
WithMeta(fs, events) == CallVar("setmetatable", <<Tab(fs), Tab(events)>>)

Fragment(name) ==
  CASE name = "conflict" ->        \* t[a], a = a, b
         <<Assign(<<At2(vt, va), va>>, <<va, vb>>)>>
    [] name = "tables" ->          \* t[2], t, b = 6, {b, g(a, 7)}, a
         <<Assign(<<At2(vt, Num(2)), vt, vb>>, <<Num(6), Tab(<<<<"item", vb>>, <<"item", Emit(<<va, Num(7)>>)>>>>), va>>)>>
    [] name = "capture" ->         \* do local x = a; f = function() x = x + 1 return x, a end end
         <<Do(<<Locals(<<"x">>, <<va>>),
                Set1("f", Fun(<<>>, FALSE, <<Set1("x", Op2("+", vx, Num(1))), Return(<<vx, va>>)>>)),
                Run(Emit(<<Apply(vf, <<>>)>>))>>)>>
    [] name = "fresh" ->           \* local x, y; if x then b = b + 5 end; x = 1
         <<Locals(<<"x", "y">>, <<>>),
           If(vx, <<Set1("b", Op2("+", vb, Num(5)))>>, <<>>), Set1("x", Num(1))>>
    [] name = "logic" ->           \* a = a < b and b - a or not (a == 2) and 4 or 5
         <<Set1("a", Op2("or", Op2("or", Op2("and", Op2("<", va, vb), Op2("-", vb, va)),
                                         Op2("and", Op1("not", Paren(Op2("==", va, Num(2)))), Num(4))),
                          Num(5)))>>
    [] name = "truth" ->           \* g(a > b, not (a and f), a ~= b or nil, a >= b == false)
         <<Run(Emit(<<Op2(">", va, vb), Op1("not", Paren(Op2("and", va, vf))),
                   Op2("or", Op2("~=", va, vb), Lit("nil")),
                   Op2("==", Paren(Op2(">=", va, vb)), Lit("false"))>>))>>
    [] name = "spread" ->          \* t = {g(a, b), ["k"] = b, 0, g(b, a)}; b = #t + t.k
         <<Set1("t", Tab(<<<<"item", Emit(<<va, vb>>)>>, <<"pair", Str("x"), vb>>, <<"item", Num(0)>>,
                           <<"item", Emit(<<vb, va>>)>>>>)),
           Set1("b", Op2("+", Op1("#", vt), Dot(vt, "x")))>>
    [] name = "tail" ->            \* local function r(n, ...) if n > 1 then return r(n - 1, n, ...) end return ... end
         <<LocalFun("r", Fun(<<"n">>, TRUE,
             <<If(Op2(">", vn, Num(1)),
                  <<Return(<<Apply(Var("r"), <<Op2("-", vn, Num(1)), vn, Dots>>)>>)>>, <<>>),
               Return(<<Dots>>)>>)),
           Assign(<<va, vb>>, <<Apply(Var("r"), <<Num(3)>>)>>)>>
    [] name = "method" ->          \* local o = {x = b}; o.m = function(s, y) s.x = s.x + y return s.x end; a = o:m(a)
         <<Locals(<<"o">>, <<Tab(<<<<"pair", Str("x"), vb>>>>)>>),
           Assign(<<Dot(Var("o"), "m")>>,
                  <<Fun(<<"s", "y">>, FALSE,
                        <<Assign(<<Dot(Var("s"), "x")>>, <<Op2("+", Dot(Var("s"), "x"), Var("y"))>>),
                          Return(<<Dot(Var("s"), "x")>>)>>)>>),
           Set1("a", Method(Var("o"), "m", <<va>>))>>
    [] name = "text" ->            \* g('x' .. a .. b, #'x')
         <<Run(Emit(<<Op2("..", Str("x"), Op2("..", va, vb)), Op1("#", Str("x"))>>))>>
    [] name = "counts" ->          \* for i = 3, 1, -2 do if i == 1 then f = function() return i, b end end a = a + i end
         <<For("i", <<Num(3), Num(1), Op1("-", Num(2))>>,
               <<If(Op2("==", Var("i"), Num(1)),
                    <<Set1("f", Fun(<<>>, FALSE, <<Return(<<Var("i"), vb>>)>>))>>, <<>>),
                 Set1("a", Op2("+", va, Var("i")))>>)>>
    [] name = "skip" ->            \* do local x; if a == 1 then goto over end; a = 1; ::over:: end
         <<Do(<<Locals(<<"x">>, <<>>), If(Op2("==", va, Num(1)), <<Goto("over")>>, <<>>),
                Set1("a", Num(1)), Label("over")>>)>>
    [] name = "fold" ->            \* b = 7 // 2 * b - -4 % 3
         <<Set1("b", Op2("-", Op2("*", Op2("//", Num(7), Num(2)), vb), Op2("%", Op1("-", Num(4)), Num(3))))>>
    [] name = "fails" ->           \* b = t[9] + 1
         <<Set1("b", Op2("+", At2(vt, Num(9)), Num(1)))>>
    [] name = "events" ->          \* local o = setmetatable({}, {__index = function(o, k) g(k) return g end, __newindex = ...,
                                   \*   __add = ..., __unm = ..., __len = ..., __call = ...})
                                   \* o.x = a; o:x(b, (function() return o.x end)() == g); a = o + b; b = #o - -o + o(a, b)
         <<Locals(<<"o">>, <<WithMeta(<<>>,
             <<Pair("__index", Fun(<<"o", "k">>, FALSE, <<Run(Emit(<<Var("k")>>)), Return(<<Var("g")>>)>>)),
               Pair("__newindex", Fun(<<"o", "k", "v">>, FALSE, <<Set1("b", Emit(<<Var("v"), Var("k")>>))>>)),
               Pair("__add", Function(<<"x", "y">>, <<Emit(<<Num(3), Var("y")>>)>>)),
               Pair("__unm", Function(<<"x">>, <<Op2("+", Num(1), Paren(Emit(<<Num(7)>>)))>>)),
               Pair("__len", Var("g")),
               Pair("__eq", Function(<<>>, <<>>)),
               Pair("__sub", Function(<<"x", "y">>, <<Paren(Emit(<<Var("y")>>))>>)),
               Pair("__call", Fun(<<"o">>, TRUE, <<Return(<<Emit(<<Dots>>)>>)>>))>>)>>),
           Assign(<<Dot(Var("o"), "x")>>, <<va>>),
           Run(Method(Var("o"), "x", <<vb, Op2("==", Apply(Paren(Function(<<>>, <<Dot(Var("o"), "x")>>)), <<>>),
                                               Var("g"))>>)),
           Set1("a", Op2("+", Var("o"), vb)),
           Set1("b", Op2("+", Op2("-", Op1("#", Var("o")), Op1("-", Var("o"))), CallVar("o", <<va, vb>>)))>>
    [] name = "orders" ->          \* local m = {__lt = function(x, y) return g(x.n < y.n) end, __eq = ...}
                                   \* local p, q = setmetatable({n = a}, m), setmetatable({n = b}, m)
                                   \* g(p <= q, p == q, p > q); if q <= p then b = 7 elseif ... end; while p ~= q do p.n = p.n + 1 ... end
         <<Locals(<<"m">>, <<Tab(
             <<Pair("__lt", Function(<<"x", "y">>, <<Emit(<<Op2("<", Dot(vx, "n"), Dot(Var("y"), "n"))>>)>>)),
               Pair("__eq", Function(<<"x", "y">>, <<Emit(<<Op2("==", Dot(vx, "n"), Dot(Var("y"), "n"))>>)>>))>>)>>),
           Locals(<<"p", "q">>, <<CallVar("setmetatable", <<Tab(<<Pair("n", Num(1))>>), Var("m")>>),
                                  CallVar("setmetatable", <<Tab(<<Pair("n", Num(2))>>), Var("m")>>)>>),
           Run(Emit(<<Op2("<=", Var("p"), Var("q")), Op2("==", Var("p"), Var("q")), Op2(">", Var("p"), Var("q"))>>)),
           If(Op2("<=", Var("q"), Var("p")), <<Set1("b", Num(7))>>, <<Set1("a", Num(8))>>),
           While(Op2("~=", Var("p"), Var("q")),
                 <<Assign(<<Dot(Var("p"), "n")>>, <<Op2("+", Dot(Var("p"), "n"), Num(1))>>)>>)>>
    [] name = "joins" ->           \* local o = setmetatable({}, {__concat = function(x, y) return g('z', y) end})
                                   \* g(a .. o .. 'x' .. b, 'x' .. o)
         <<Locals(<<"o">>, <<WithMeta(<<>>,
             <<Pair("__concat", Function(<<"x", "y">>, <<Emit(<<Str("z"), Var("y")>>)>>))>>)>>),
           Run(Emit(<<Op2("..", va, Op2("..", Var("o"), Op2("..", Str("x"), vb))),
                      Op2("..", Str("x"), Var("o"))>>))>>
    [] name = "class" ->           \* local c = {get = function(s, y) return s.x .. y end}; local o = {x = b}
                                   \* setmetatable(o, setmetatable({__index = c, __newindex = t}, {})); o[2] = a; g(o:get(a), o.y)
         <<Locals(<<"c", "o">>, <<Tab(<<Pair("get", Function(<<"s", "y">>, <<Op2("..", Dot(Var("s"), "x"), Var("y"))>>))>>),
                                  Tab(<<Pair("x", vb)>>)>>),
           Run(CallVar("setmetatable", <<Var("o"), WithMeta(<<Pair("__index", Var("c")), Pair("__newindex", vt)>>, <<>>)>>)),
           Assign(<<At2(Var("o"), Num(2))>>, <<va>>),
           Run(Emit(<<Method(Var("o"), "get", <<va>>), Dot(Var("o"), "y")>>))>>
    [] name = "endless" ->         \* local o = {}; setmetatable(o, {__index = o}); a = o.x
         <<Locals(<<"o">>, <<Tab(<<>>)>>),
           Run(CallVar("setmetatable", <<Var("o"), Tab(<<Pair("__index", Var("o"))>>)>>)),
           Set1("a", Dot(Var("o"), "x"))>>
    [] name = "deep" ->            \* local function r(n) return 1 + r(n) end; g(pcall(r, a))
         <<LocalFun("r", Function(<<"n">>, <<Op2("+", Num(1), CallVar("r", <<vn>>))>>)),
           Run(Emit(<<CallVar("pcall", <<Var("r"), va>>)>>))>>
    [] name = "protected" ->       \* local ok, e = pcall(function(x) local y = x; f = function() return y end; y = g(y) + 1; error(y) end, a)
                                   \* b = e; g(ok, pcall(g, a, b))
         <<Locals(<<"ok", "e">>,
             <<CallVar("pcall",
                 <<Fun(<<"x">>, FALSE,
                       <<Locals(<<"y">>, <<vx>>), Set1("f", Function(<<>>, <<Var("y")>>)),
                         Set1("y", Op2("+", Emit(<<Var("y")>>), Num(1))), Run(CallVar("error", <<Var("y")>>))>>),
                   va>>)>>),
           Set1("b", Var("e")), Run(Emit(<<Var("ok"), CallVar("pcall", <<Var("g"), va, vb>>)>>))>>
    [] name = "nested" ->          \* local function h(n) if n == 0 then return t.x.y end return pcall(h, n - 1) end; g(h(2)); g(pcall(error, 5))
         <<LocalFun("h", Fun(<<"n">>, FALSE,
             <<If(Op2("==", vn, Num(0)), <<Return(<<Dot(Dot(vt, "x"), "y")>>)>>, <<>>),
               Return(<<CallVar("pcall", <<Var("h"), Op2("-", vn, Num(1))>>)>>)>>)),
           Run(Emit(<<CallVar("h", <<Num(2)>>)>>)),
           Run(Emit(<<CallVar("pcall", <<Var("error"), Num(5)>>)>>)),
           Run(Emit(<<CallVar("pcall", <<>>)>>))>>
    [] name = "iterates" ->        \* for x, n in pcall, g do g(x, n) break end; for x in g do end
         <<ForIn(<<"x", "n">>, <<Var("pcall"), Var("g")>>, <<Run(Emit(<<vx, vn>>)), Break>>),
           ForIn(<<"x">>, <<Var("g"), Lit("nil"), va>>, <<Set1("b", Num(9))>>)>>

\* Statements s, in a loop, a function, ...
Wrapped(wrapper, s) ==
  CASE wrapper = "plain" -> s
    [] wrapper = "if" -> <<If(Op2("<", vb, va), <<Set1("b", va)>>, s)>>
    [] wrapper = "while" ->        \* local n = 0; while true do n = n + 1; if n > 2 then break end; s end
         <<Locals(<<"n">>, <<Num(0)>>),
           While(Lit("true"), <<Set1("n", Op2("+", vn, Num(1))),
                                If(Op2(">", vn, Num(2)), <<Break>>, <<>>)>> \o s)>>
    [] wrapper = "repeat" ->       \* local n; repeat s; n = (n or 0) + 1; local m = n until m >= 2
         <<Locals(<<"n">>, <<>>),
           Repeat(s \o <<Set1("n", Op2("+", Paren(Op2("or", vn, Num(0))), Num(1))),
                         Locals(<<"m">>, <<vn>>)>>, Op2(">=", Var("m"), Num(2)))>>
    [] wrapper = "for" -> <<For("i", <<va, vb>>, s)>>
    [] wrapper = "forin" ->        \* for x, n in function(s, c) if c < s then return g(c + 1, s) end end, 2, 0 do s end
         <<ForIn(<<"x", "n">>,
                 <<Fun(<<"s", "c">>, FALSE,
                       <<If(Op2("<", Var("c"), Var("s")),
                            <<Return(<<Emit(<<Op2("+", Var("c"), Num(1)), Var("s")>>)>>)>>, <<>>)>>),
                   Num(2), Num(0)>>, s \o <<Run(Emit(<<vx, vn>>))>>)>>
    [] wrapper = "function" ->     \* local function h(a, ...) s; return a, ... end; a = (h(b, a))
         <<LocalFun("h", Fun(<<"a">>, TRUE, s \o <<Return(<<va, Dots>>)>>)),
           Set1("a", Paren(Apply(Var("h"), <<vb, va>>)))>>
    [] wrapper = "again" ->        \* local n = 0 ::top:: n = n + 1; local x = n; s; f = f or function() return x end; if n < 2 then goto top end
         <<Locals(<<"n">>, <<Num(0)>>), Label("top"), Set1("n", Op2("+", vn, Num(1))),
           Locals(<<"x">>, <<vn>>)>> \o s \o
         <<Set1("f", Op2("or", vf, Fun(<<>>, FALSE, <<Return(<<vx>>)>>))),
           If(Op2("<", vn, Num(2)), <<Goto("top")>>, <<>>)>>

\* local a, b, t, f = 1, 2, {3, 4, 5}; ...; if f then g(f()) end; return a, b, t[1], t[2], t[3]
Tree(p) ==
  <<Locals(<<"a", "b", "t", "f">>,
           <<Num(1), Num(2), Tab(<<<<"item", Num(3)>>, <<"item", Num(4)>>, <<"item", Num(5)>>>>)>>)>>
    \o Wrapped(p.wrapper, Fragment(p.first) \o Fragment(p.second))
    \o <<If(vf, <<Run(Emit(<<Apply(vf, <<>>)>>))>>, <<>>),
         Return(<<va, vb, At2(vt, Num(1)), At2(vt, Num(2)), At2(vt, Num(3))>>)>>

\* Each is run by a call, and as a coroutine.
AllPrograms ==
  [wrapper : Wrappers, first : Firsts, second : Seconds, yields : BOOLEAN]
SourceText(p) == TextOfBlock(Tree(p))

-----------------------------------------------------------------------------

\* What has become of a program that has ended.
Ending ==
  [status |-> status,
   result |-> IF status = "done" THEN Shown(StackValues(0, top)) ELSE <<>>,
   trace |-> [i \in DOMAIN trace |-> Shown(trace[i])]]

\* A program is accepted; when it has run, or failed, its results and its calls
\* of the host's function are those the program means, whether that function
\* returns at once or the program is a coroutine that yields there.
RunsAsWritten ==
  [][/\ status' # "rejected"
     /\ status' \in {"done", "error"} => Ending' = Meaning(Tree(program))]_vmVars

\* The highest register an instruction of this function names.
Highest(i) ==
  CASE i.op \in {"JMP", "EQ", "LT", "LE", "SETTABUP", "SETUPVAL"} -> 0
    [] i.op = "LOADNIL" -> i.A + i.B
    [] i.op \in {"CALL", "TAILCALL"} -> i.A + (IF i.B = 0 THEN 0 ELSE i.B - 1)
    [] i.op = "SELF" -> i.A + 1
    [] i.op \in {"FORPREP", "FORLOOP"} -> i.A + 3
    [] i.op = "TFORCALL" -> i.A + 2 + (IF i.C > 3 THEN i.C ELSE 3)
    [] OTHER -> i.A

\* What the compiler asserts about registers and jump lists holds, and a frame
\* has room for what its instructions name.
CodeIsSound ==
  /\ sound
  /\ status = "running" /\ Frame.name = "lua" /\ ~Frame.waits => Highest(I) < P.maxstacksize

=============================================================================
