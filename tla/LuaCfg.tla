-------------------------------- MODULE LuaCfg --------------------------------
(***************************************************************************)
(* rc_server/CLuaCfg: a configuration file read through a Lua state.  One  *)
(* caller, no threads; what is hard is the Lua stack, which outlives every *)
(* call, the state's own life, and table2file, which replaces the file     *)
(* while the process, the disk or a read can fail.                         *)
(*                                                                         *)
(* A file is the set of its tables, each with the version last written, or *)
(* Torn.  How a table is found in the text is in CfgText.tla, what a       *)
(* setting holds in Value.tla.                                             *)
(***************************************************************************)
EXTENDS Naturals, Sequences

CONSTANTS
  Table,       \* names of tables
  Path,        \* paths the caller may set
  Home,        \* the one of them where the file is
  Half,        \* stands for a table of which only a part was written
  MaxStack,    \* bound: readers are called while less is on the stack
  MaxVersion   \* bound: calls of table2file

ASSUME CfgAssumption ==
  /\ Home \in Path
  /\ Half \notin Table
  /\ MaxStack \in Nat \ {0} /\ MaxVersion \in Nat

VARIABLES
  L,        \* m_L: "open", "used" after lua_close; "aborted": Lua has panicked
  stack,    \* what is left on its stack, bottom first
  isReady,
  luaPath,  \* m_luaPath: the paths appended to it
  length_of,  \* history: what index 1 was when an array was last measured
  cfg, tmp, \* the files m_luaPath and m_luaPath.tmp
  pc,       \* table2file: its next step
  content,     \* what it has read
  job,      \* the table it writes, with its version
  last,     \* versions given out
  saved,    \* history: the tables written so far, at their latest version
  mishap    \* history: a file operation has failed

luaVars == <<L, stack, isReady, luaPath, length_of>>
diskVars == <<cfg, tmp, saved, mishap>>
cfgVars == <<L, stack, isReady, luaPath, length_of, cfg, tmp, pc, content,
          job, last, saved, mishap>>

Starts == {<<>>} \cup {<<p>> : p \in Path}
Torn == {<<Half, 0>>}
Entry == Table \X (1 .. MaxVersion)
Content == (SUBSET Entry) \cup {Torn}

CfgTypeOK ==
  /\ L \in {"open", "used", "aborted"}
  /\ stack \in Seq({"nil", "table", "message"}) /\ Len(stack) <= MaxStack
  /\ isReady \in BOOLEAN
  /\ luaPath \in Seq(Path) /\ Len(luaPath) <= 2
  /\ length_of \in {"none", "own", "other"}
  /\ cfg \in Content /\ tmp \in Content /\ content \in Content /\ saved \in Content
  /\ pc \in {"idle", "write", "move", "reload"}
  /\ job \in Table \X (0 .. MaxVersion)
  /\ last \in 0 .. MaxVersion
  /\ mishap \in BOOLEAN

-----------------------------------------------------------------------------
(* The Lua library *)

\* luaL_dofile finds a file and it is a program.
Loads(path) == path = <<Home>> /\ cfg # Torn

\* A failing luaL_dofile leaves its message on the stack.
AfterDofile(s, path) == IF Loads(path) THEN s ELSE Append(s, "message")

Room == Len(stack) < MaxStack

\* CLuaCfg(), which opens nothing, and CLuaCfg(luaPath).
Constructed(path) ==
  /\ L = "open"
  /\ luaPath = path
  /\ stack = IF path = <<>> THEN <<>> ELSE AfterDofile(<<>>, path)
  /\ isReady = Loads(path)
  /\ length_of = "none"
  /\ pc = "idle" /\ content = {}

CfgInit ==
  /\ cfg = {} /\ tmp = {} /\ saved = {}
  /\ mishap = FALSE
  /\ last = 0
  /\ \E t \in Table : job = <<t, 0>>
  /\ \E path \in Starts : Constructed(path)

-----------------------------------------------------------------------------
(* Readers *)

Calls == L = "open" /\ pc = "idle" /\ Room

\* The early returns: no such table, and one pop of two where the item has
\* another type.
EarlyReturns == {Append(stack, "nil"), Append(stack, "table")}

\* Mutant: without the last lua_pop, table and value stay.
ReadTableFromItemMutant ==
  /\ Calls
  /\ \/ stack' = stack \o <<"table", "value">>
     \/ stack' \in EarlyReturns
  /\ UNCHANGED <<L, isReady, luaPath, length_of, diskVars, pc, content, job, last>>

\* ReadTableFromItem, for each type of value.  Found: two pushed, two popped.
ReadTableFromItem ==
  /\ Calls
  /\ \/ stack' = stack
     \/ stack' \in EarlyReturns
  /\ UNCHANGED <<L, isReady, luaPath, length_of, diskVars, pc, content, job, last>>

\* Mutant: without lua_settop(m_L, 0).
EmptiedWithMutant(v) == Append(stack, v)

\* lua_settop(m_L, 0), then lua_getglobal.
EmptiedWith(v) == <<v>>

\* ReadTableArrayFromItem: luaL_len measures index 1, the pushes index the top;
\* in every outcome what lua_getglobal pushed is left.
ReadTableArrayFromItem ==
  /\ Calls
  /\ \E v \in {"nil", "table"} :
       /\ stack' = EmptiedWith(v)
       /\ length_of' = IF v = "nil" THEN length_of
                         ELSE IF Len(stack') = 1 THEN "own" ELSE "other"
  /\ UNCHANGED <<L, isReady, luaPath, diskVars, pc, content, job, last>>

\* traverse_table: one is left only when the name is no table.  A number that is
\* a key lua_tostring makes a string in place, which lua_next then does not find
\* in the table: an error outside any protected call, which ends the process.
traverse_table ==
  /\ Calls
  /\ \/ stack' \in {stack, Append(stack, "nil")} /\ UNCHANGED L
     \/ L' = "aborted" /\ UNCHANGED stack
  /\ UNCHANGED <<isReady, luaPath, length_of, diskVars, pc, content, job, last>>

\* setCfgPath: a ready state is closed, and then used; the path is appended.
setCfgPath(p) ==
  /\ Calls
  /\ Len(luaPath) < 2
  /\ luaPath' = Append(luaPath, p)
  /\ IF isReady
       THEN L' = "used" /\ isReady' = FALSE /\ stack' = <<>>
       ELSE /\ L' = L
            /\ isReady' = Loads(luaPath')
            /\ stack' = AfterDofile(stack, luaPath')
  /\ UNCHANGED <<length_of, diskVars, pc, content, job, last>>

-----------------------------------------------------------------------------
(* table2file *)

\* getAllTextFromFile: a file that cannot be read is an empty one.
ReadText ==
  \/ content' = cfg /\ UNCHANGED mishap
  \/ content' = {} /\ mishap' = TRUE

table2file(t) ==
  /\ L = "open" /\ pc = "idle" /\ last < MaxVersion
  /\ luaPath = <<Home>>
  /\ job' = <<t, last + 1>> /\ last' = last + 1
  /\ ReadText
  /\ pc' = "write"
  /\ UNCHANGED <<luaVars, cfg, tmp, saved>>

\* The text with the table replaced, or behind it.
Replaced(c) ==
  IF c = Torn THEN Torn ELSE {e \in c : e[1] # job[1]} \cup {job}

\* Mutant: no temporary file, the configuration itself is opened and written.
write_tmpMutant ==
  /\ pc = "write"
  /\ \/ cfg' = Torn /\ pc' = "write" /\ UNCHANGED mishap
     \/ cfg' = Replaced(content) /\ pc' = "move" /\ UNCHANGED mishap
     \/ cfg' = Torn /\ pc' = "move" /\ mishap' = TRUE
     \/ pc' = "idle" /\ mishap' = TRUE /\ UNCHANGED cfg
  /\ tmp' = Replaced(content)
  /\ UNCHANGED <<luaVars, saved, content, job, last>>

\* ofstream out: it truncates, writes, and may fail at each; a failed open is
\* reported, a failed write is not looked at.
write_tmp ==
  /\ pc = "write"
  /\ \/ tmp' = Torn /\ pc' = "write" /\ UNCHANGED mishap
     \/ tmp' = Replaced(content) /\ pc' = "move" /\ UNCHANGED mishap
     \/ tmp' = Torn /\ pc' = "move" /\ mishap' = TRUE
     \/ pc' = "idle" /\ mishap' = TRUE /\ UNCHANGED tmp
  /\ UNCHANGED <<luaVars, cfg, saved, content, job, last>>

\* mvFile: rename, atomic, its result not looked at.
mvFile ==
  /\ pc = "move"
  /\ pc' = "reload"
  /\ \/ cfg' = tmp /\ tmp' = {} /\ saved' = Replaced(saved) /\ UNCHANGED mishap
     \/ mishap' = TRUE /\ UNCHANGED <<cfg, tmp, saved>>
  /\ UNCHANGED <<luaVars, content, job, last>>

\* A new state for the new file; m_isReady is only ever set.
reload ==
  /\ pc = "reload"
  /\ pc' = "idle" /\ content' = {}
  /\ L' = "open"
  /\ stack' = AfterDofile(<<>>, luaPath)
  /\ isReady' = (isReady \/ Loads(luaPath))
  /\ UNCHANGED <<luaPath, length_of, diskVars, job, last>>

\* The process ends, in any state, and starts again with a path.
Restart ==
  \E path \in Starts :
    /\ L' = "open" /\ pc' = "idle" /\ content' = {}
    /\ luaPath' = path
    /\ stack' = IF path = <<>> THEN <<>> ELSE AfterDofile(<<>>, path)
    /\ isReady' = Loads(path)
    /\ length_of' = "none"
    /\ UNCHANGED <<diskVars, job, last>>

CfgNext ==
  \/ ReadTableFromItem \/ ReadTableArrayFromItem \/ traverse_table
  \/ \E p \in Path : setCfgPath(p)
  \/ \E t \in Table : table2file(t)
  \/ write_tmp \/ mvFile \/ reload
  \/ Restart


-----------------------------------------------------------------------------
(* Properties *)

\* table2file: as long as no file operation fails, a process that ends at any
\* point leaves every table there, at its old or its new version.
NothingLost == ~mishap => cfg = saved

\* ReadTableArrayFromItem reads the length of the table it was asked for,
\* whatever earlier calls that failed have left on the stack.
MeasuresItsTable == length_of # "other"

=============================================================================
