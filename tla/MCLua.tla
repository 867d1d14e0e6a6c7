------------------------------- MODULE MCLua -------------------------------
(***************************************************************************)
(* The parts of the Lua interpreter, one subject per behaviour: the        *)
(* collector with its heap, a table with the program that uses it, and the *)
(* compiler and virtual machine with the programs they are given.          *)
(***************************************************************************)
EXTENDS LuaGc, LuaTable, LuaPrograms
CONSTANTS o1, o2, o3

VARIABLE subject

luaVars == <<subject, gcVars, tableVars, vmVars>>

FirstHeap == CHOOSE h \in Heaps : TRUE
FirstProgram == CHOOSE p \in Programs : TRUE

LuaInit ==
  /\ subject \in {"gc", "table", "code"}
  /\ TableInit
  /\ GcInit
  /\ subject # "gc" => kind = FirstHeap.kind
  /\ VMInit
  /\ subject # "code" => program = FirstProgram

About(s, others) == subject = s /\ UNCHANGED <<subject, others>>

LuaNext ==
  \/ About("gc", <<tableVars, vmVars>>) /\ GcNext
  \/ About("table", <<gcVars, vmVars>>) /\ TableNext
  \/ About("code", <<gcVars, tableVars>>) /\ VMNext
  \/ About("code", vmVars) /\ status \in {"done", "error", "rejected"} /\ UNCHANGED <<gcVars, tableVars>>

LuaSpec == LuaInit /\ [][LuaNext]_luaVars

-----------------------------------------------------------------------------
(* Instances *)

\* A heap whose objects have these kinds, with what differs from an empty one.
Kinds3(x, y, z) == o1 :> x @@ o2 :> y @@ o3 :> z
HeapOf(ks, r, up, m, lists) ==
  [kind |-> ks,
   refs |-> r @@ [o \in All |-> {}],
   open |-> up @@ [o \in Object |-> Null],
   mode |-> m @@ [o \in All |-> "strong"],
   allgc |-> lists[1] \o <<Registry>>, finobj |-> lists[2]]

On(S) == {<<Null, v>> : v \in S}
None == [o \in {} |-> Null]
Strong == [o \in {} |-> "strong"]

H1 == HeapOf(Kinds3("table", "table", "string"), Main :> On({o1, o2}) @@ Registry :> On({o3}), None, Strong, <<<<o1, o2, o3>>, <<>>>>)
H2 == HeapOf(Kinds3("table", "table", "table"), Main :> On({o1, o2}) @@ o1 :> {<<o2, o3>>}, None, o1 :> "k", <<<<o1, o2, o3>>, <<>>>>)
H3 == HeapOf(Kinds3("closure", "coroutine", "closure"), Main :> On({o1, o2}) @@ o2 :> On({o3}), o1 :> o2, Strong, <<<<o1, o2, o3>>, <<>>>>)
H4 == HeapOf(Kinds3("udata", "udata", "string"), Main :> On({o1, o2}) @@ o1 :> On({o2}) @@ o2 :> On({o3}), None, Strong, <<<<o2, o3>>, <<o1>>>>)
MCHeaps == {H1, H2, H3, H4}

MCKey == {IntKey(n) : n \in {1, 2, 3}}
           \cup {[kind |-> "float", n |-> 2, hash |-> 2],
                 [kind |-> "pow2", n |-> 0, hash |-> 1], [kind |-> "mod", n |-> 2, hash |-> 2]}
=============================================================================
