----------------------------- MODULE LuaMeaning -----------------------------
(***************************************************************************)
(* What a Lua program means, with no registers, jumps or captured stack    *)
(* slots: the promise the compiler and the virtual machine have to keep.   *)
(*                                                                         *)
(* Programs are trees of the constructors below, and Text gives a tree's   *)
(* tokens.  Every variable is a location of its own, env is the sequence   *)
(* of the <<name, location>> in scope, and a function keeps the env it was *)
(* made in.                                                                *)
(***************************************************************************)
EXTENDS Integers, Sequences, FiniteSets, SequencesExt, TLC

-----------------------------------------------------------------------------
(* Trees: expressions, *)

Var(x) == <<"var", x>>
Num(n) == <<"num", n>>
Str(x) == <<"str", x>>
Lit(x) == <<"lit", x>>                    \* nil, true or false
Dots == <<"dots">>
Op2(op, a, b) == <<"op2", op, a, b>>
Op1(op, a) == <<"op1", op, a>>
At2(t, k) == <<"at", t, k>>               \* t[k]
Dot(t, x) == <<"dot", t, x>>              \* t.x
Apply(f, args) == <<"apply", f, args>>
Method(o, x, args) == <<"method", o, x, args>>
Fun(params, vararg, b) == <<"fun", params, vararg, b>>
Tab(fs) == <<"tab", fs>>                  \* fields <<"item", e>> or <<"pair", k, e>>
Paren(e) == <<"paren", e>>

(* and statements. *)
Locals(xs, es) == <<"locals", xs, es>>
Assign(vs, es) == <<"assign", vs, es>>
Do(b) == <<"do", b>>
While(c, b) == <<"while", c, b>>
Repeat(b, c) == <<"repeat", b, c>>
If(c, b, else) == <<"if", c, b, else>>    \* <<>>: no else
For(x, es, b) == <<"for", x, es, b>>
ForIn(xs, es, b) == <<"forin", xs, es, b>>
LocalFun(x, f) == <<"localfun", x, f>>
Return(es) == <<"return", es>>
Break == <<"break">>
Goto(l) == <<"goto", l>>
Label(l) == <<"label", l>>
Run(call) == <<"run", call>>
Set1(x, e) == Assign(<<Var(x)>>, <<e>>)

-----------------------------------------------------------------------------
(* Text *)

Commas(texts) ==
  IF texts = <<>> THEN <<>>
  ELSE FoldLeft(LAMBDA a, b : a \o <<",">> \o b, Head(texts), Tail(texts))
Names(xs) == Commas([i \in DOMAIN xs |-> <<xs[i]>>])

RECURSIVE Text(_)
Texts(es) == Commas([i \in DOMAIN es |-> Text(es[i])])
TextOfBlock(b) == FlattenSeq([i \in DOMAIN b |-> Text(b[i])])
TextOfFun(f) ==
  <<"(">> \o Commas([i \in DOMAIN f[2] |-> <<f[2][i]>>] \o (IF f[3] THEN <<<<"...">>>> ELSE <<>>))
          \o <<")">> \o TextOfBlock(f[4]) \o <<"end">>

Text(e) ==
  CASE e[1] \in {"var", "lit"} -> <<e[2]>>
    [] e[1] = "num" -> <<ToString(e[2])>>
    [] e[1] = "str" -> <<"'" \o e[2] \o "'">>
    [] e[1] = "dots" -> <<"...">>
    [] e[1] = "op2" -> Text(e[3]) \o <<e[2]>> \o Text(e[4])
    [] e[1] = "op1" -> <<e[2]>> \o Text(e[3])
    [] e[1] = "at" -> Text(e[2]) \o <<"[">> \o Text(e[3]) \o <<"]">>
    [] e[1] = "dot" -> Text(e[2]) \o <<".", e[3]>>
    [] e[1] = "apply" -> Text(e[2]) \o <<"(">> \o Texts(e[3]) \o <<")">>
    [] e[1] = "method" -> Text(e[2]) \o <<":", e[3], "(">> \o Texts(e[4]) \o <<")">>
    [] e[1] = "fun" -> <<"function">> \o TextOfFun(e)
    [] e[1] = "tab" -> <<"{">> \o Texts(e[2]) \o <<"}">>
    [] e[1] = "item" -> Text(e[2])
    [] e[1] = "pair" -> <<"[">> \o Text(e[2]) \o <<"]", "=">> \o Text(e[3])
    [] e[1] = "paren" -> <<"(">> \o Text(e[2]) \o <<")">>
    [] e[1] = "locals" -> <<"local">> \o Names(e[2]) \o
                          (IF e[3] = <<>> THEN <<>> ELSE <<"=">> \o Texts(e[3]))
    [] e[1] = "assign" -> Texts(e[2]) \o <<"=">> \o Texts(e[3])
    [] e[1] = "do" -> <<"do">> \o TextOfBlock(e[2]) \o <<"end">>
    [] e[1] = "while" -> <<"while">> \o Text(e[2]) \o <<"do">> \o TextOfBlock(e[3]) \o <<"end">>
    [] e[1] = "repeat" -> <<"repeat">> \o TextOfBlock(e[2]) \o <<"until">> \o Text(e[3])
    [] e[1] = "if" -> <<"if">> \o Text(e[2]) \o <<"then">> \o TextOfBlock(e[3]) \o
                      (IF e[4] = <<>> THEN <<"end">>
                       ELSE <<"else">> \o TextOfBlock(e[4]) \o <<"end">>)
    [] e[1] = "for" -> <<"for", e[2], "=">> \o Texts(e[3]) \o <<"do">> \o TextOfBlock(e[4]) \o <<"end">>
    [] e[1] = "forin" -> <<"for">> \o Names(e[2]) \o <<"in">> \o Texts(e[3]) \o <<"do">> \o
                         TextOfBlock(e[4]) \o <<"end">>
    [] e[1] = "localfun" -> <<"local", "function", e[2]>> \o TextOfFun(e[3])
    [] e[1] = "return" -> <<"return">> \o Texts(e[2]) \o <<";">>
    [] e[1] = "break" -> <<"break">>
    [] e[1] = "goto" -> <<"goto", e[2]>>
    [] e[1] = "label" -> <<"::", e[2], "::">>
    [] e[1] = "run" -> Text(e[2])

-----------------------------------------------------------------------------
(* Meaning                                                                 *)
(*                                                                         *)
(* m = [cell, tab, meta, fun, trace, ok, err, env, out, vs, depth] is:     *)
(* env is the scope, out what comes next ("next", "break", "return" or a   *)
(* goto's label), vs the values of the last expression, meta the metatable *)
(* of each table, depth the calls it is in.  ~m.ok: the error err.         *)

NIL == <<"nil", 0>>
INT(n) == <<"integer", n>>
BOOL(b) == <<"boolean", b>>
STR(x) == <<"string", x>>
Global == <<"table", 1>>
False(v) == v \in {NIL, BOOL(FALSE)}
Callable(v) == v[1] \in {"function", "host"}
Printable(v) == v[1] \in {"integer", "string"}
InText(v) == IF v[1] = "integer" THEN ToString(v[2]) ELSE v[2]

One(m) == IF m.vs = <<>> THEN NIL ELSE m.vs[1]
Gives(m, vs) == [m EXCEPT !.vs = vs]
Fails(m, v) == [m EXCEPT !.ok = FALSE, !.vs = <<NIL>>, !.err = IF m.ok THEN v ELSE @]
Wrong(m) == Fails(m, STR("error"))
Fill(vs, n) == [i \in 1 .. n |-> IF i <= Len(vs) THEN vs[i] ELSE NIL]

\* New variables xs with values vs.
Bind(m, xs, vs) ==
  [m EXCEPT !.cell = @ \o Fill(vs, Len(xs)),
            !.env = @ \o [i \in DOMAIN xs |-> <<xs[i], Len(m.cell) + i>>]]
Location(m, x) == LET i == SelectLastInSeq(m.env, LAMBDA b : b[1] = x)
                  IN  IF i = 0 THEN 0 ELSE m.env[i][2]
Look(m, t, k) == IF k \in DOMAIN m.tab[t[2]] THEN m.tab[t[2]][k] ELSE NIL
Store(m, t, k, v) ==
  IF m.ok /\ k # NIL THEN [m EXCEPT !.tab[t[2]] = (k :> v) @@ @] ELSE Wrong(m)
Border(m, t) == CHOOSE n \in 0 .. Cardinality(DOMAIN m.tab[t[2]]) :
                  /\ Look(m, t, INT(n + 1)) = NIL
                  /\ \A i \in 1 .. n : Look(m, t, INT(i)) # NIL

\* What v's metatable, or one of two, says of an event.
Says(m, v, event) ==
  IF v[1] = "table" /\ m.meta[v[2]] # NIL THEN Look(m, m.meta[v[2]], STR(event)) ELSE NIL
OneSays(m, a, b, event) ==
  IF Says(m, a, event) # NIL THEN Says(m, a, event) ELSE Says(m, b, event)

RECURSIVE Eval(_, _), Exec(_, _), ExecFrom(_, _, _, _), Loop(_, _, _), CallOf(_, _, _)

\* The values of a list: one of each, all of the last.
Evals(m, es) ==
  LET Next1(n, i) ==
        LET v == Eval(n, es[i])
        IN  Gives(v, n.vs \o (IF i = Len(es) THEN v.vs ELSE <<One(v)>>))
  IN  FoldLeft(Next1, Gives(m, <<>>), [i \in DOMAIN es |-> i])

ExecBlock(m, b) == [ExecFrom(m, b, 1, [i \in DOMAIN b |-> <<>>]) EXCEPT !.env = m.env]

HostCall(m, name, args) ==
  LET called == CallOf(m, args[1], Tail(args))
  IN  CASE name = "g" -> [m EXCEPT !.trace = Append(@, args), !.vs = args]
        [] name = "pcall" /\ args # <<>> ->
             IF called.ok THEN Gives(called, <<BOOL(TRUE)>> \o called.vs)
             ELSE [called EXCEPT !.ok = TRUE, !.vs = <<BOOL(FALSE), called.err>>,
                                 !.env = m.env, !.out = "next", !.depth = m.depth]
        [] name = "error" -> Fails(m, Fill(args, 1)[1])
        [] name = "setmetatable" /\ Len(args) = 2 ->
             IF args[1][1] = "table" /\ args[2][1] = "table"
               THEN [m EXCEPT !.meta[args[1][2]] = args[2], !.vs = <<args[1]>>] ELSE Wrong(m)
        [] OTHER -> Wrong(m)

\* No call is nested deeper: only a program without end gets there.
Deepest == 9

CallOf(m, f, args) ==
  LET fun == m.fun[f[2]]
      n == Len(fun.params)
      rest == SubSeq(args, n + 1, Len(args))
      in == Bind([m EXCEPT !.env = Append(fun.env, <<"...", rest>>), !.depth = @ + 1], fun.params, args)
      done == ExecBlock(in, fun.body)
  IN  CASE ~m.ok -> m
        [] m.ok /\ f[1] = "host" -> HostCall(m, f[2], args)
        [] m.ok /\ f[1] = "function" /\ m.depth = Deepest -> Wrong(m)
        [] m.ok /\ f[1] = "function" /\ m.depth < Deepest ->
             [done EXCEPT !.depth = m.depth, !.env = m.env, !.out = "next", !.vs = IF done.out = "return" THEN @ ELSE <<>>]
        [] m.ok /\ ~Callable(f) ->
             IF Callable(Says(m, f, "__call")) THEN CallOf(m, Says(m, f, "__call"), <<f>> \o args)
             ELSE Wrong(m)

Ask(m, f, args) ==
  LET r == CallOf(m, f, args)
  IN  IF f = NIL THEN Wrong(m) ELSE Gives(r, <<One(r)>>)
Decide(m, f, args, wanted) ==
  LET r == Ask(m, f, args) IN Gives(r, <<BOOL(False(One(r)) # wanted)>>)

\* v[k]; seen are the values already asked.
RECURSIVE Index(_, _, _, _), SetIndex(_, _, _, _, _)
Index(m, v, k, seen) ==
  LET f == Says(m, v, "__index")
  IN  IF ~m.ok \/ v \in seen THEN Wrong(m)
      ELSE IF v[1] = "table" /\ (f = NIL \/ Look(m, v, k) # NIL) THEN Gives(m, <<Look(m, v, k)>>)
      ELSE IF Callable(f) \/ f = NIL THEN Ask(m, f, <<v, k>>)
      ELSE Index(m, f, k, seen \cup {v})

SetIndex(m, v, k, new, seen) ==
  LET f == Says(m, v, "__newindex")
  IN  IF ~m.ok \/ v \in seen THEN Wrong(m)
      ELSE IF v[1] = "table" /\ (f = NIL \/ Look(m, v, k) # NIL) THEN Store(m, v, k, new)
      ELSE IF Callable(f) \/ f = NIL THEN Ask(m, f, <<v, k, new>>)
      ELSE SetIndex(m, f, k, new, seen \cup {v})

Arithmetic == "+" :> "__add" @@ "-" :> "__sub" @@ "*" :> "__mul" @@ "%" :> "__mod" @@ "//" :> "__idiv"

Compute(op, x, y) ==
  LET quotient == IF y > 0 THEN x \div y ELSE (-x) \div (-y)
  IN  CASE op = "+" -> x + y
        [] op = "-" -> x - y
        [] op = "*" -> x * y
        [] op = "//" -> quotient
        [] op = "%" -> x - y * quotient

RECURSIVE Binary(_, _, _, _)
Binary(m, op, a, b) ==
  LET ints == a[1] = "integer" /\ b[1] = "integer"
      Bool1(x) == Gives(m, <<BOOL(x)>>)
      asked == a[1] = "table" /\ b[1] = "table" /\ a # b /\ OneSays(m, a, b, "__eq") # NIL
      lt == OneSays(m, b, a, "__lt")
      le == OneSays(m, a, b, "__le")
  IN  CASE op = "==" -> IF asked THEN Decide(m, OneSays(m, a, b, "__eq"), <<a, b>>, TRUE) ELSE Bool1(a = b)
        [] op = "~=" -> IF asked THEN Decide(m, OneSays(m, a, b, "__eq"), <<a, b>>, FALSE) ELSE Bool1(a # b)
        [] op = ".." -> IF Printable(a) /\ Printable(b) THEN Gives(m, <<STR(InText(a) \o InText(b))>>)
                        ELSE Ask(m, OneSays(m, a, b, "__concat"), <<a, b>>)
        [] op \in DOMAIN Arithmetic ->
             IF ~ints THEN Ask(m, OneSays(m, a, b, Arithmetic[op]), <<a, b>>)
             ELSE IF op \in {"//", "%"} /\ b[2] = 0 THEN Wrong(m)
             ELSE Gives(m, <<INT(Compute(op, a[2], b[2]))>>)
        [] op = "<" -> IF ints THEN Bool1(a[2] < b[2])
                       ELSE Decide(m, OneSays(m, a, b, "__lt"), <<a, b>>, TRUE)
        [] op = "<=" -> IF ints THEN Bool1(a[2] <= b[2])
                        ELSE IF le # NIL THEN Decide(m, le, <<a, b>>, TRUE)
                        ELSE Decide(m, lt, <<b, a>>, FALSE)
        [] op = ">" -> Binary(m, "<", b, a)
        [] op = ">=" -> Binary(m, "<=", b, a)

Unary(m, op, a) ==
  CASE op = "not" -> Gives(m, <<BOOL(False(a))>>)
    [] op = "-" -> IF a[1] = "integer" THEN Gives(m, <<INT(-a[2])>>)
                   ELSE Ask(m, Says(m, a, "__unm"), <<a, a>>)
    [] op = "#" -> CASE a[1] = "table" /\ Says(m, a, "__len") = NIL -> Gives(m, <<INT(Border(m, a))>>)
                     [] a[1] = "string" -> Gives(m, <<INT(Len(a[2]))>>)
                     [] OTHER -> Ask(m, Says(m, a, "__len"), <<a, a>>)

NewFun(m, f) ==
  [m EXCEPT !.fun = Append(@, [params |-> f[2], body |-> f[4], env |-> m.env]),
            !.vs = <<<<"function", Len(m.fun) + 1>>>>]

\* The fields of a constructor, n positional ones so far.
Field(m, t, fs, i) ==
  LET f == fs[i]
      before == Cardinality({j \in 1 .. i - 1 : fs[j][1] = "item"})
      k == Eval(m, f[2])
      v == Eval(k, f[3])
      vs == IF i = Len(fs) THEN k.vs ELSE <<One(k)>>
  IN  IF f[1] = "pair" THEN Store(v, t, One(k), One(v))
      ELSE FoldLeft(LAMBDA n, j : Store(n, t, INT(before + j), vs[j]), k, [j \in DOMAIN vs |-> j])

Eval(m, e) ==
  LET a == Eval(m, e[3]) IN
  CASE ~m.ok -> Wrong(m)
    [] m.ok /\ e[1] = "num" -> Gives(m, <<INT(e[2])>>)
    [] m.ok /\ e[1] = "str" -> Gives(m, <<STR(e[2])>>)
    [] m.ok /\ e[1] = "lit" -> Gives(m, <<IF e[2] = "nil" THEN NIL ELSE BOOL(e[2] = "true")>>)
    [] m.ok /\ e[1] = "dots" -> Gives(m, Location(m, "..."))
    [] m.ok /\ e[1] = "var" ->
         Gives(m, <<IF Location(m, e[2]) = 0 THEN Look(m, Global, STR(e[2]))
                    ELSE m.cell[Location(m, e[2])]>>)
    [] m.ok /\ e[1] = "paren" -> LET v == Eval(m, e[2]) IN Gives(v, <<One(v)>>)
    [] m.ok /\ e[1] = "op2" /\ e[2] \in {"and", "or"} ->
         IF False(One(a)) = (e[2] = "and") THEN Gives(a, <<One(a)>>)
         ELSE LET b == Eval(a, e[4]) IN Gives(b, <<One(b)>>)
    [] m.ok /\ e[1] = "op2" /\ e[2] \notin {"and", "or"} ->
         LET b == Eval(a, e[4]) IN IF b.ok THEN Binary(b, e[2], One(a), One(b)) ELSE b
    [] m.ok /\ e[1] = "op1" -> IF a.ok THEN Unary(a, e[2], One(a)) ELSE a
    [] m.ok /\ e[1] \in {"at", "dot"} ->
         LET t == Eval(m, e[2])
             k == IF e[1] = "at" THEN Eval(t, e[3]) ELSE Gives(t, <<STR(e[3])>>)
         IN  Index(k, One(t), One(k), {})
    [] m.ok /\ e[1] = "apply" ->
         LET f == Eval(m, e[2])
             as == Evals(f, e[3])
         IN  CallOf(as, One(f), as.vs)
    [] m.ok /\ e[1] = "method" ->
         LET o == Eval(m, e[2])
             f == Index(o, One(o), STR(e[3]), {})
             as == Evals(f, e[4])
         IN  CallOf(as, One(f), <<One(o)>> \o as.vs)
    [] m.ok /\ e[1] = "fun" -> NewFun(m, e)
    [] m.ok /\ e[1] = "tab" ->
         LET t == <<"table", Len(m.tab) + 1>>
             new == [m EXCEPT !.tab = Append(@, <<>>), !.meta = Append(@, NIL)]
         IN  Gives(FoldLeft(LAMBDA n, i : Field(n, t, e[2], i), new, [i \in DOMAIN e[2] |-> i]), <<t>>)

\* Where an assignment stores: the table and key are evaluated before the values.
Target(m, v) ==
  LET t == Eval(m, v[2])
      k == IF v[1] = "at" THEN Eval(t, v[3]) ELSE Gives(t, <<STR(v[3])>>)
  IN  CASE v[1] = "var" /\ Location(m, v[2]) # 0 -> [m |-> m, cell |-> Location(m, v[2])]
        [] v[1] = "var" /\ Location(m, v[2]) = 0 -> [m |-> m, cell |-> 0, t |-> Global, k |-> STR(v[2])]
        [] OTHER -> [m |-> k, cell |-> 0, t |-> One(t), k |-> One(k)]

StoreAt(m, p, v) ==
  IF p.cell # 0 /\ m.ok THEN [m EXCEPT !.cell[p.cell] = v]
  ELSE SetIndex(m, p.t, p.k, v, {})

ExecAssign(m, vs, es) ==
  LET places == FoldLeft(LAMBDA acc, v : LET p == Target(acc.m, v)
                                         IN  [m |-> p.m, ps |-> Append(acc.ps, p)],
                         [m |-> m, ps |-> <<>>], vs)
      r == Evals(places.m, es)
      n == Len(vs)
  IN  FoldLeft(LAMBDA x, j : StoreAt(x, places.ps[n + 1 - j], Fill(r.vs, n)[n + 1 - j]),
               r, [j \in 1 .. n |-> j])

\* A loop whose body has ended: does it go on?
Ended(m) == ~m.ok \/ m.out # "next"
LeftLoop(m, env) == [m EXCEPT !.env = env, !.out = IF @ = "break" THEN "next" ELSE @]

\* kind and parts of a loop, from the state at its test.
Loop(m, s, n) ==
  LET c == Eval(m, s[2])
      w == ExecBlock(c, s[3])
      body == ExecFrom(m, s[2], 1, [i \in DOMAIN s[2] |-> <<>>])   \* its locals are in scope
      u == Eval(body, s[3])
      f == ExecBlock(Bind(m, <<s[2]>>, <<INT(n.i)>>), s[4])
      call == CallOf(m, n.f, <<n.s, n.c>>)
      g == ExecBlock(Bind(call, s[2], call.vs), s[4])
      Scope(x) == [x EXCEPT !.env = m.env]
  IN  CASE s[1] = "while" ->
             IF ~c.ok \/ False(One(c)) THEN c
             ELSE IF Ended(w) THEN LeftLoop(w, m.env) ELSE Loop(w, s, n)
        [] s[1] = "repeat" ->
             IF Ended(body) THEN LeftLoop(body, m.env)
             ELSE IF ~u.ok \/ ~False(One(u)) THEN Scope(u) ELSE Loop(Scope(u), s, n)
        [] s[1] = "for" ->
             IF (IF n.step > 0 THEN n.i > n.limit ELSE n.i < n.limit) THEN m
             ELSE IF Ended(f) THEN LeftLoop(f, m.env)
             ELSE Loop(Scope(f), s, [n EXCEPT !.i = @ + n.step])
        [] s[1] = "forin" ->
             IF ~call.ok \/ One(call) = NIL THEN call
             ELSE IF Ended(g) THEN LeftLoop(g, m.env)
             ELSE Loop(Scope(g), s, [n EXCEPT !.c = One(call)])

Exec(m, s) ==
  CASE s[1] = "locals" -> LET r == Evals(m, s[3]) IN Bind(r, s[2], r.vs)
    [] s[1] = "assign" -> ExecAssign(m, s[2], s[3])
    [] s[1] = "do" -> ExecBlock(m, s[2])
    [] s[1] \in {"while", "repeat"} -> Loop(m, s, 0)
    [] s[1] = "if" ->
         LET c == Eval(m, s[2])
         IN  IF ~c.ok THEN c ELSE ExecBlock(c, IF False(One(c)) THEN s[4] ELSE s[3])
    [] s[1] = "for" ->
         LET r == Evals(m, s[3])
             vs == IF Len(s[3]) = 2 THEN <<r.vs[1], r.vs[2], INT(1)>> ELSE r.vs
         IN  IF r.ok /\ \A i \in 1 .. 3 : vs[i][1] = "integer"
               THEN Loop(r, s, [i |-> vs[1][2], limit |-> vs[2][2], step |-> vs[3][2]])
               ELSE Wrong(r)
    [] s[1] = "forin" ->
         LET r == Evals(m, s[3])
             vs == Fill(r.vs, 3)
         IN  IF r.ok THEN Loop(r, s, [f |-> vs[1], s |-> vs[2], c |-> vs[3]]) ELSE r
    [] s[1] = "localfun" ->
         LET b == Bind(m, <<s[2]>>, <<>>)
             f == NewFun(b, s[3])
         IN  [f EXCEPT !.cell[Len(b.cell)] = One(f)]
    [] s[1] = "return" -> [Evals(m, s[2]) EXCEPT !.out = "return"]
    [] s[1] = "break" -> [m EXCEPT !.out = "break"]
    [] s[1] = "goto" -> [m EXCEPT !.out = s[2]]
    [] s[1] = "label" -> m
    [] s[1] = "run" -> Eval(m, s[2])

\* Statements i, i + 1, ... of block b; envs: the scope at each that was
\* reached.  A goto goes on at its label, if it is in this block, with what
\* was in scope there.
ExecFrom(m, b, i, envs) ==
  LET seen == [envs EXCEPT ![i] = m.env]
      n == Exec(m, b[i])
      l == SelectInSeq(b, LAMBDA s : s[1] = "label" /\ s[2] = n.out)
  IN  IF i > Len(b) THEN m
      ELSE IF ~n.ok THEN n
      ELSE IF n.out = "next" THEN ExecFrom(n, b, i + 1, seen)
      ELSE IF l # 0 THEN ExecFrom([n EXCEPT !.out = "next",
                                            !.env = IF l <= i THEN seen[l] ELSE m.env], b, l, seen)
      ELSE n

\* What an observer sees of a value: no identities.
Shown(vs) ==
  [i \in DOMAIN vs |-> IF vs[i][1] \in {"table", "function"} THEN <<vs[i][1], 0>> ELSE vs[i]]

HostFunctions ==
  [k \in {STR(x) : x \in {"g", "pcall", "error", "setmetatable"}} |-> <<"host", k[2]>>]

Meaning(b) ==
  LET m == ExecBlock([cell |-> <<>>, tab |-> <<HostFunctions>>, meta |-> <<NIL>>, fun |-> <<>>,
                      trace |-> <<>>, ok |-> TRUE, err |-> NIL, env |-> <<<<"...", <<>>>>>>, out |-> "next",
                      vs |-> <<>>, depth |-> 0], b)
  IN  [status |-> IF m.ok THEN "done" ELSE "error",
       result |-> IF m.ok /\ m.out = "return" THEN Shown(m.vs) ELSE <<>>,
       trace |-> [i \in DOMAIN m.trace |-> Shown(m.trace[i])]]

=============================================================================
