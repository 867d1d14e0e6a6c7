# A TLA+ model of rc_work

rc_work drives a model car over the Internet: a Raspberry Pi on the car (the
*rover*), a phone or desktop program (the *controller*) and a relay server with
a public address that both talk to over UDP. This directory holds TLA+
specifications of that system, TLC configurations that model-check them, and
proofs that TLAPS checks. Line numbers refer to the sources they were
translated from.

1. [The system](#1-the-system)
2. [What is hard here](#2-what-is-hard-here)
3. [Modules and the code](#3-modules-and-the-code)
4. [Runs: questions, bounds, results](#4-runs)
5. [Fairness](#5-fairness)
6. [What is proved](#6-what-is-proved)
7. [Disagreements found](#7-disagreements-found)
8. [What is not modelled, and the plan](#8-what-is-not-modelled-and-the-plan)

To run: `tlc -config MCRelay.cfg MCRelay` (and the same for the other
configurations), `tlapm RelayProofs.tla` (and the other modules `...Proofs`).

## 1. The system

| component | source | state it keeps | operations |
|---|---|---|---|
| relay server | `rc_server/UdpServerBase` | `groups`: per uid the last address of each role and the time of the last datagram | `udp_cb` per datagram, `timer_1000ms_cb` once a second, `startServer`, `stopServer`, `join` |
| RcClient | `rasp-rc-client/RcClient` (`client-libs` has the same file) | `send_list`, `running`, `client_thread`, uid and addresses | `thread_start`, `stop`, `join`, `send_data`, `set_*`; on its loop thread `timer_check_cb`, `udp_cb`, `process` |
| rover command path | `rasp-rc-client/main.cpp` | `command_g/t/b/n`, `turn_close`, the output pins | `recv_callback` and `parse_command` on the loop thread, `StartDoCommandTask` on the main thread |
| software PWM | `rasp-rc-client/pwm` | per handle `ccr`, `begin_microsecond`, `index`, `status` | `change_crr`, `add_pwm_handle`, the runner `pwm_run_50hz` |
| telemetry | `rasp-rc-client/ina226` | six floats | a measuring thread, `get_ina226_info` from the reporting thread |
| configuration | `rc_server/CLuaCfg` | a Lua state and its stack, the path, the file | readers, `table2file`, `setCfgPath`; not called by the server today |
| dynamic value | `rc_server/CValue` | a type, and a number or an owning pointer | constructors, assignments, moves, readers |
| helpers | `rc_server/CFileUtil`, `CTimeUtil` | none | path, directory and calendar functions, mostly not called |
| Lua 5.3.1 | `rc_server/luasrc`, compiled into `rc_server` | the heap and its collector, tables, a program's code, stack, frames and upvalues | everything `CLuaCfg` reaches by loading a file: lexer, compiler, virtual machine, collector, tables, libraries |

How they interact. Every client sends `4byte(uid)|1byte(role)|body` datagrams;
the relay remembers the address each role of a uid last spoke from and passes a
body on to the address of the other role. A client that has nothing to send
sends a heartbeat every 10 ms, which keeps its group and its address on file.
On the rover the RcClient loop thread calls `recv_callback`, which stores
`[command, value]` pairs into global structs; the main thread polls the structs
every 5 ms, drives pins and calls `change_crr`; the PWM runner thread turns the
handles into pulses; a fourth and a fifth thread measure the battery and hand
the report to `send_data`. Of all this shared state only `send_list` has a lock.
`CLuaCfg` runs a configuration file as a Lua program and reads the tables it
leaves; so a configuration is right only if the interpreter, which the
repository carries as source, translates and runs it right and its collector
keeps what is still used.

What makes each part correct:

- *relay*: a body goes only to an endpoint that joined the same group in the
  other role; a group is forgotten in time and completely; heartbeats keep a
  live one through every sweep; a broken session heals by itself.
- *RcClient*: messages are tried in order, once, none is dropped before; after
  `stop` nothing of the session is used any more; `stop` returns; no legal
  sequence of calls ends the process.
- *command path*: without a controller the motors stop; the outputs say what
  the last command said; a centred servo is released.
- *PWM*: a channel at 0 is silent, however late its runner is; a channel left
  alone keeps its pulses; the duty asked for is the duty given.
- *telemetry*: no field of a report is more than one measurement older than a
  field read before it.
- *configuration*: the length of an array is the array's, the file is never lost,
  a table is found where it is. *value*: every string has one owner, a copy is
  independent, a move empties, and the readers of an object agree where their
  code lets them. *helpers*: paths come apart right; a match that is affirmed is
  one; a date is right exactly when stated.
- *Lua*: nothing in use is freed, what is not in use is; a table is a map and a
  traversal is complete; a program does what it says, when it yields in the
  middle of an instruction, too; library functions do what their manual says.

## 2. What is hard here

`PROJECT.json` lists every hazard at its line. They fall into these groups:

- **One handler at a time, any order of events** (relay): datagrams arrive late
  or twice, clients move, the sweep runs at any phase against the 2000 ms test,
  the process restarts with an empty map.
- **A flag, a lock and a thread's life** (RcClient): `running` is polled,
  `send_list` outlives sessions, `client_thread` must be joined exactly once.
- **Unlocked shared structs** (command path, PWM, telemetry): stores of one
  command become visible in any order, `count++` loses updates, a test and its
  action are separated by another thread's store, `ccr` is read twice.
- **Periods and clocks** (PWM): restarting a period on every refresh, a wall
  clock that is set back.
- **Steps that fail in the middle** (configuration file, `make_dirs`, the server's
  start): a crash between writing and renaming, another process in between.
- **A mutator between any two steps** (collector, table traversal): the program
  changes what the collector, or the loop over a table, has already passed.
- **One pass and a stack** (compiler, virtual machine): registers freed in
  reverse order, jumps patched later, slots captured by closures that outlive
  them, control that leaves an instruction by an error or a yield.

## 3. Modules and the code

    Rendezvous <= Relay <- Session          Outbox <= RcClient
    Rover          Pwm                      Cells  <= Value
    LuaCfg   Telemetry   Helpers <- FileUtil, TimeUtil, CfgText
    LuaLibrary  <- LuaPattern, LuaLexer, LuaTabLib <- LuaChars, LuaUtf8
    LuaPrograms <- LuaVM <- LuaDump <- LuaParser <- LuaCode;  LuaMeaning
    Selections <- LuaGc, Rover, FileUtil
    LuaTable

`A <= B`: B is shown to implement A (INSTANCE, with a refinement mapping).
`B <- A`: B extends, and composes, A. `Rover` and `Pwm` meet only in
`change_crr`, which `Rover` calls and `Pwm` takes from its environment.

**Relay.tla** — one action per handler outcome: `RejectDatagram`, `AddGroup`,
`UpdateGroup` (the three ways through `udp_cb`, lines 50-102),
`timer_1000ms_cb` (234-246), and `Tick` for time. `groups` is the map's key set,
`addr[u][r]` the NET of a role, `age[u]` is `now - last_recv_time_ms`, the only
form in which the code reads it. A datagram is its header and one of three kinds
of body: data, the heartbeat `#`, or empty. `send_data` may fail at will, as
`sendto` may. `timer` counts down to the sweep; `Slack` is how late the loop may
run it. `heard` is history: who registered since the group was created.

**Rendezvous.tla** — the promise without maps and timers: a datagram registers
its sender and is dropped or handed to *one* registered peer of the other role
of the same group; sessions are forgotten at any time. `Relay` implements it
with `known <- heard`, `delivered <- out`.

**Session.tla** — extends `Relay`. `up` and `down` are sets of datagrams in
flight, so they arrive in any order; `Lose` drops them, `Arrive` may leave a
duplicate behind. `Switch`, `Rebind` and `Crash` turn clients off, move them to
another address and end the server process, whose life `main` of `rc_server`
drives: `UdpServerBase` (the constructor), `initUdpServer`, which may fail at
any of its calls, `startServer`, or `main_returns` after a failed start that
`main` does not look at; whoever runs the process runs it again. A failed
`initUdpServer` goes on to its end: it makes descriptor 0 non-blocking and
starts the watcher on it (`watched = "stdin"`) before it answers false. The
clients are RcClient loops seen from outside: while on, they send one of the
bodies of `Says[r]`, where the heartbeat may be among them. `Hears(r)` is the
arrival of a body at the present address of a client that is on.
`InSession(r)`: the server heard `r` less than `Gap` ticks ago; the network is
assumed not to keep a client in session from the server for `Gap` ticks, `Gap
<= Timeout + 1`, which is the assumption heartbeats are sent for.

**RcClient.tla** — three parties: the owner (`set_server_ip_port`, `set_uid`,
`thread_start`, `stop`, `join`, `joined`, `destroy`), senders (`send_data`) and
the loop thread (`timer_check_cb`, `drain`, `heartbeat`, `udp_cb`,
`uv_run_returns`, `process_tail`). `drain` is one step because the code holds
`send_list_mx` throughout; the heartbeat is another, after the unlock.
`thread_start(ok)` has the code's failing path (running set, no thread). A join
of a thread that is not joinable, and an assignment to or destruction of one
that is, lead to `"aborted"` (std::terminate). `Careful` chooses between an
owner who believes `thread_start`'s result and the owner of `README.md`.

**Outbox.tla** — the promise: a queue that takes messages at any time and is
flushed, whole and in order, while a session is open. `queue <- send_list`,
`sent <- tried`, `open <- joinable`.

**Rover.tla** — receiver: `recv_callback` (with the code's one pair too many,
read from what older messages left in `udpRecvBuf`), `parse_command` (its four
stores), `store` (one becomes visible, in any order). Main thread: one action
per access that can race, in program order: `stby_g`, `stby_b`, `wheel_go`,
`set_turn`, `wheel_back`, `set_turn_centre`, then per struct `count_read`,
`count_write`, `expire_test`, `expire_clear`. A tick is one round of the loop.
Commands G/B and T/N share no field, so they are checked as two slices of the
same module (`Commands`). `calm` and `slow` are history: for how many whole
ticks the receiver has stayed out, and whether one message outlasted a tick.

**Pwm.tla** — one handle. Runner: `sample`, `take_index`, `take_state`, `drive`,
one access to shared memory each (the build has no optimisation flags, so `ccr`
really is read again for the second comparison). Setter: `change_crr`, then
`store_ccr` and `store_begin` in either order. `Tick` and `SetBack` are the wall
clock. Instants are kept as distances to the present (`since`, `stale`, `held`),
folded to two periods. `Lag` bounds how long the scheduler keeps either thread
from its next step; nothing in the code makes it small (the block that asks for
SCHED_FIFO is under `#if 0`), so what is claimed is claimed for any `Lag`.
`calm` and `met` are history: for how long there has been no store and no clock
set back, and whether in that time a pass has met step 0 of the period, where
the pin is written whatever `status` says.

**LuaCfg.tla** — one caller, no threads. `L` is the life of `m_L`, `stack` what
the calls have left on its Lua stack, one action per reader (`ReadTableFromItem`
for its five types, `ReadTableArrayFromItem`, `traverse_table`), `setCfgPath`,
and `table2file` in its four steps: read the text, write `m_luaPath.tmp`,
rename, reload. Writing can be seen half done and can fail, and so can reading
and renaming; `Restart` ends the process at any point and constructs a new
object. `traverse_table` has three outcomes: not a table, all read, or, after a
key that is a number, `L = "aborted"` (`lua_tostring` turns the key on the stack
into a text, `lua_next` no longer finds it and raises an error outside any
protected call). A file is the set of its tables, each at a version. `table2file` is
modelled for an object whose path is the file's. Where it finds a table in the
text is **CfgText.tla**: `findBeginOfTable` and `findEndOfTable` as scanners
that take one character after another (`Step`, `Skip`).

**Value.tla** — `CValue` with explicit memory: `heap[p]` is `Free` or a string,
`obj[x]` a type and a field that holds a number or a pointer. `clear`, `reset`
and `Allocate` are the private functions, `SetNumber`, `SetText`, `Assign`,
`Move` and `Destroy` the public ones, on an object that exists or is just being
constructed (`Born`). Numbers are cut to `Word` and `Byte` where the code
converts. A real number is counted in parts, `Unit` of them to 1, so that it can
have a fraction, which conversion drops and `asBool` does not; a conversion its
target cannot hold may give anything. A text is any text: `Decimal[s]` is the
number its beginning says, 0 for a word, and `FalseText` are the two that
`asBool` takes for false (numbers beyond a word, where `strtoul` saturates, are
left out). **Cells.tla** is the promise without pointers: `Value` implements it
with `val` read through the pointer.

**Telemetry.tla** — the measuring thread stores its six statics in program order
(`ina226_read`), the reporting thread reads them one by one
(`get_ina226_info`), then `send`s. A float is the number of its measurement.

**FileUtil.tla**, **TimeUtil.tla**, **Helpers.tla** — `make_dirs` and
`touchFile` as two processes, one system call per step, on a file system of
directories and one plain file; `AddSec`, month and year off as in the code,
and `GetTimeByFormat`, which like `strncasecmp` does not tell capitals from
small letters, as operators.
`Helpers` has `strpp` and the functions on names, and calls each helper with one
argument after another.

**LuaGc.tla** — the collector. `g` is `global_State`: the marks, the lists, the
state of the cycle; `refs` what each object holds. `CollectorSteps` are
`singlestep` and, taken apart into its stages, `atomic`; between any two steps
`ProgramSteps` allocates, stores (with `luaC_barrier` or `luaC_barrierback`, as
`lapi.c`, `lvm.c` and `lfunc.c` do), pushes and pops, opens and closes upvalues,
makes tables weak, sets finalizers, which `GCTM` calls, and runs a full cycle in
an emergency. `reallymark` marks strings and userdata at once, and with a
userdata its uservalue, along a chain of them, too (`Userdata`); a sweep passes
up to `SweepMax` objects, `GCSWEEPMAX` (`lgc.c:42`), and `luaC_checkfinalizer`
and `udata2finalize` move `sweepgc` along when they take the object it stands at.
A heap to start from is one a program has made (`WellFormed`). A closure has one
upvalue of its own: two that share one are left out. `doomed` is history: what
was out of reach when the cycle began and is still there. An object leaves it
when it is freed, or with `Spare` when it is needed again: it and all it keeps,
together with what was never doomed. That happens when the program reads a weak
table, when a table changes its mode, and when `atomic` brings back what a
finalizer is called with. `Kept` says what an object keeps; a string is never
cleared from a weak table (`iscleared`), so an ephemeron keeps the values of
its string keys.

**LuaTable.tla** — array part, nodes and their chains, `luaH_newkey` with
Brent's variation, `rehash` and `luaH_resize`, `luaH_getn` and its
`unbound_search`, `luaH_next`. Keys are chosen to collide, by both hash methods.
`map` is history: what was stored last; `walk` is a traversal during which
fields are changed and cleared and the collector turns cleared keys into dead
ones. What the source does in loops is a recursive function of the round: the
nodes a search comes to (`Path`), the tables on the way through `luaH_resize`
(`new`), the binary search (`Halve`). A search stops at the first node of its path that is in
the set it looks for, and a path is as long as there are nodes.

**LuaLexer.tla**, **LuaPattern.tla**, **LuaUtf8.tla**, **LuaTabLib.tla** — pure
functions of the interpreter, each on a record of its C state (`LexState`,
`MatchState`); **LuaLibrary.tla** calls them and defines, independently, what a
pattern means (all ways to match, in the order of preference), what UTF-8 is,
which tokens a text is made of, what sorting is.

**LuaCode.tla**, **LuaParser.tla**, **LuaDump.tla**, **LuaVM.tla** — `lcode.c`,
`lparser.c`, `ldump.c` with `lundump.c`, and `lvm.c` with `ldo.c`, `ltm.c` and
`lfunc.c`. The compiler is one recursive descent over tokens that returns the
`FuncState`. `sound` remembers whether what the code asserts held. A program run
as a coroutine is first dumped, stripped, and loaded again. In the machine an
action is an instruction, or a group of instructions with the same effect on
control (`OP_Compute` for those that put a value in a register, their result
being `OutcomeOf` the instruction). An instruction whose metamethod or iterator
is a call is two steps: `OP_Meta`, `OP_TFORCALL` or `OP_CONCAT`, and after the
return `Finish` or, when the C stack is gone, `luaV_finishOp`. What loading a
program comes to is the constant `Loaded`, which the configuration sets to
`f_parser`. **LuaMeaning.tla** is the promise: a tree of a program and its
meaning, where every variable is a location of its own and nothing is a register
or a jump. **LuaPrograms.tla** makes the programs and compares.

**Selections.tla** — one operator, `Those(s, T)`: the elements of a sequence that
are in a set, in their order (`SelectSeq`, in a form that can be reasoned about).

**RelayProofs.tla** (with `Session`), **RoverProofs.tla**, **PwmProofs.tla**,
**HostProofs.tla** (`Telemetry`, `LuaCfg`, `FileUtil`, `Value` and `RcClient`),
**GcProofs.tla**, **GarbageProofs.tla** (both of `LuaGc`), **TableProofs.tla**
(`LuaTable`), **SelectionProofs.tla** — theorems; see section 6.

**MC\*.tla** — model values. `MCHost` and `MCLua` also put parts that share no
state next to each other: a behaviour is about one `subject`, all others stay as
they began.

## 4. Runs

Every property of a passing run has a mutant: a plausible slip in one mapped
definition (kept beside it, named `...Mutant`) under which TLC refutes the
property.

| run | question | instance | result |
|---|---|---|---|
| `relay` | isolation, expiry, complete forgetting, refinement of `Rendezvous` | 2 uids, 4 addresses, one of them used in both groups, one client with two addresses, one header with a bad role; `Timeout` 4, `Period` 2, `Slack` 1 | holds, 6 thousand states |
| `session` | does a session survive sweeps, and does each client hear the other again? | one group, a rover with two addresses; `Timeout` 2, `Period` 1, `Slack` 1, `Gap` 3, two troubles (restart, rebind, switch-off, duplicate) in any mix; both clients send data, the controller heartbeats, too | holds, 91 thousand |
| `rc_client` | conservation, quiet after stop, stop returns, refinement of `Outbox` | 2 uids, 3 sends, any number of sessions and failing starts, careful owner | holds, 7 thousand |
| `rc_client_readme` | the same owner, as README.md writes him | `Careful = FALSE` | `NeverAborts` violated |
| `rover` | dead man's handle, outputs follow commands, servo released | two slices: G at two values (one above the clamp) and B; T and N, alone and behind a drive pair. `Slots` 3, `Expire` 1, `CountCap` 2, `TurnClose` 2 | holds, 1.5 million |
| `rover_stale_pair` | N centres | the steering slice | `NCentres` violated |
| `rover_dropped` | a received G drives | the drive slice | `GDrives` violated |
| `pwm` | a channel at 0 is silent, one left alone pulses | period 12, refresh every 3, duties 0 and 3, clock set back by up to 2, `Lag` 2 | holds, 215 thousand |
| `pwm_duty` | the duty given is the duty asked for | duty 4 of 12, refresh every 3, no clock change, `Lag` 1 | `Rests` violated |
| `pwm_torn` | a quiet pass leaves the pin as ccr says | as `pwm`, duties 0 and 1, `Lag` 1 | `PinFollowsCcr` violated |
| `host` | the parts beside relay and rover, see below | below | holds, 0.3 million |
| `lua` | collector, tables, compiler and machine, see below | below | holds, 0.3 million |

`host`, subject by subject. *config* (`CfgTypeOK`, `NothingLost`,
`MeasuresItsTable`): 2 tables, 2 paths, versions up to 3, a stack of 3. *value*
(`OneOwner`, `ReadsAgree`, `ImplementsCells`): 3 objects and 4 strings, one more
than there are objects, so that memory lasts; numbers with and without a
fraction; texts that are a number, `false` and empty, which reads like a word without a
number; a word of 4 bits and a byte of 2, so that conversions cut. *telemetry* (`NearlyOne`): 4
measurements, the two threads at any pace. *files* (`MakesDirs`): 2 processes,
relative and absolute paths, with `//` and with a plain file in the way.
*helpers* (`HelpersAgree`, `FindsItsTable`): texts of up to 3 characters,
patterns of up to 4, paths of up to 4, the 1st, 2nd, 14th and 28th to last of
every month with steps of a second and a day to either side, of 0, two weeks and
two months, formats of 3 fields in capitals, small letters and both,
configurations of 3 items (tables, comments of both kinds, texts that mention
the table, tables whose names begin or end with its name).
*library* (`LibraryAgrees`): every pattern of up to 3 items out of 12, and 4 or
5 of them around a capture, on texts of up to 3 bytes; 2 code points around each
limit, 3 arbitrary bytes; two tokens with every kind of space between; lists of
up to 8 elements sorted by *every* relation on three values, sound or not.

`lua`, subject by subject. *gc* (`NoDangling`, `TriColour`, `GarbageGoes`,
`FinalizerFirst`): 3 objects besides the main thread and the registry, in four
heaps (tables and a string; an ephemeron table; two closures, one of them open
on a coroutine; two userdata, one with a finalizer that refers to the other, and
a string); two steps of the program at any places of a cycle, entries for one
key, a stack of 2, one object to a `sweepstep`. *table* (`TableIsAMap`,
`TraversalIsComplete`): keys 1 to 3, the float 2.0, which is the key 2, and two
keys that collide with them, one of each kind of hash; sizes up to 4. *code* (`RunsAsWritten`,
`CodeIsSound`): programs of a first and a second fragment (23 and 4 of them) in
one of 8 wrappers (plain, if, while, repeat, both fors, a function, a loop
made with goto), each called and as a coroutine that yields wherever
its function `g` is called: 1472 programs. The fragments are chosen for what is
hard to compile: conflicting assignments, captured loop variables, `and`/`or`
with jump lists, varargs, tail calls, goto, folding, constructors longer than
`FieldsPerFlush` 2 and constants beyond `MaxRK` 3, metamethods of every event
incl. those inside comparisons and concatenations, nested pcalls, errors in
each, a stack that overflows (`StackSize` 45) and an `__index` chain that does
not end (`MaxTagLoop` 3).

Why the bounds are enough. The relay's handlers touch one group each; a second
group shows interference, and the shared address shows that nothing depends on
addresses being unique. Its times enter only by comparison, so what matters is
that the timeout is more than one period, not a multiple of period plus
lateness, and that sweeps can be early, on time and late: 4/2/1 has all of
these, and the theorems cover the rest. Two troubles reach every pair (a restart
after a rebind, a late duplicate after a switch). Three sends allow one before,
one during and one after a drain or across two sessions. In the rover runs a
command can expire, be renewed at every point of the loop, and reach the cap;
the real 100 and 200 only make the same loop longer. The PWM keeps the code's
proportion of four refreshes to a period; with `Lag` 2 the runner can pass over
any single step, step 0 among them, and a duty of 3 is one it cannot pass over.
The theorems cover every other `Lag`. With `Period` 1 in `session` a group is
swept at every tick or a tick late, and with `Gap = Timeout + 1` a client is
heard just in time. Three versions over two tables give a
table that is written, overtaken and written again. Three objects make the
shortest chain in which the program can hide an object from the collector, by
moving it from an object not yet marked behind one already black. Keys 1 to 3
and four more nodes make both parts of a table grow, shrink and collide. A
pattern's items interact only with their neighbours and with captures around
them. The bounds of the interpreter (`LUAI_MAXSTACK`, `MAXINDEXRK`,
`LFIELDS_PER_FLUSH`, `MAXTAGLOOP`) are parameters, and small, so that programs
of a few lines reach every one of them.

Deadlock is checked except in the RcClient runs, where the owner may destroy the
client and everything really ends. A Lua program that has ended may stutter.

## 5. Fairness

- *Relay*: weak fairness of time and of the sweep: the loop never ends while the
  process lives and libev runs an expired timer. Nothing of the clients.
- *Session*: in addition, for each role: a client that is on keeps sending data
  (its 10 ms timer, and a user who keeps talking), a datagram sent again and again
  gets through to the server again and again, with a `sendto` that does not fail
  each time, and what the server sends again and again to a client's present
  address is received there again and again (strong fairness: a fair lossy
  channel in each direction). The server is run again when it has ended, and does
  not fail to bind for ever. Troubles are never fair: they happen or not, within
  the budget. `Heals` is conditional on both clients staying on, and promises
  that *each* of them hears the other; for one of them it would not follow from
  the other, since an address may be stale on one side only.
- *RcClient*: weak fairness of the loop thread's own steps and of a join whose
  thread has ended. Nothing of owner, senders, network.
- *Rover*: weak fairness of each thread. Nothing of the controller.
- *Pwm*: weak fairness of runner, started stores and time. The setter need not
  call again. `Pulses` speaks of duties from `Lag` to `Arr - Lag`: a runner that
  is kept off the processor for longer than a pulse, or a rest, may miss it.
- *host and lua*: none; their properties are safety.

## 6. What is proved

TLAPS checks these for every value of the constants allowed by the named
assumption of the module.

**RelayProofs** (`ConstantsAssumption` of `Relay`). The invariant
`IInv == TypeOK /\ AgePhase /\ AddrHeard /\ HeardOnFile /\ Isolation`. None of
the wanted invariants is inductive alone. `BoundedResidency` says nothing of the
timer: `AgePhase`, `age[u] + timer <= Timeout + Period`, relates a group's age
to the phase of the sweep; a tick keeps the sum, a sweep removes the groups that
would break it, and with `timer >= -Slack` the bound follows. `Isolation` and
`AddressesAreEarned` need that every address on file was heard (`AddrHeard`) and
everybody heard is still on file (`HeardOnFile`). One lemma per action
(`RejectIInv` ... `SweepIInv`), `NextIInv` combines them. Theorems:
`TypeCorrect`, `GroupsAreIsolated`, `ResidencyIsBounded`, `AddressesEarned`, and
`RelayImplementsRendezvous`, whose step lemmas map `AddGroup` and `UpdateGroup`
to `Register`, the sweep to `Forget` and everything else to a stutter or an
empty `Forget`.

**HostProofs**, client (`ConstantsAssumption` of `RcClient`). The invariant
`ClientInv` adds `LoopIsJoinable` (a loop thread that has begun and not ended has a joinable
`client_thread`: without it `QuietWhenStopped` is not kept by `drain`) and
`BeliefIsTrue` (a careful owner's belief is `joinable`, also after a failed
start: this is what keeps `stop` from aborting). Theorems: `ClientTypes`,
`MessagesConserved`, `StoppedIsQuiet`, `CarefulNeverAborts` (assuming
`Careful`), and `ClientImplementsOutbox`, the safety part of the refinement.

**RelayProofs**, second part (of `Session`, adds `SessionAssumption`). `SInv == IInv /\ ClientsOK /\
Fresh`: `SessionSurvives` says nothing of ages, and a sweep would break it;
`Fresh` says that the group of a client in session is on file with its address
and no older than what the server last heard of that client. A sweep then
removes no such group, because a client in session was heard less than
`Gap <= Timeout + 1` ticks ago; a crash ends every session. `IInv` is carried
along, so the relay's lemmas are used as they are, and its safety
(`SessionIsolated`) holds of a server that crashes and is started again, too.
Theorems: `SessionsSurvive`, `SessionIsolated`.

**RoverProofs** (`ConstantsAssumption` of `Rover`). `DeadMan` says nothing of
the counts; `DInv == RoverOK /\ AllAged /\ Standby` does. `AllAged`: the count of
an effective command has reached the number of calm ticks, one more once
`count_read` and `count_write` have passed its struct (`Reached`), the register
holds as much in between, and a struct that expiry has passed is not effective
or younger than `Expire`. A store sets `calm` back to 0 or -1 and thereby all
of this (`DisturbDInv`), also when `count_write` writes over it; `Standby` says
how long `stby` may lag behind. For `EffectiveIsApplied`, `AInv` adds that two
opposite commands are effective only while the store that ends one of them is
pending (`Exclusive`), that a store waiting at the end of a tick keeps `calm` at
0 (`Waiting`), and, step by step of the tick, which outputs already show their
commands in a tick without stores (`Shown`). One lemma per step or group of
steps. The types (`TInv`) need that every pair still to be parsed is of a command of the
slice: a `parse_command` of another would store outside the structs. That is a
fact about `Those`, and about the pair beyond the message, for which `udpRecvBuf`
has room. Theorems: `MotorsStandBy`, `RaceLastsOneTick`, `TypeCorrect`, for any
`Expire` below `CountCap`, any `TurnClose` and any messages.

**PwmProofs** (`ConstantsAssumption` of `Pwm`). `TInv` adds to `TypeOK` how far
each instant can be from the clock (`Clocks`). `SilentWhenOff` says what a pass
leaves when `calm` has run out; the invariant has to say what a pass knows at
each of its accesses. Two samples after the last store the runner's sample was
taken since (`FreshSample`), and `begin_microsecond` is not ahead of it
(`NotBehind`, which rests on `CaughtUp`: a call's stores and a clock set back are
over when `calm` begins to count). So `index` is the step that was sampled
(`IndexIsStep`), and at `ccr` 0 a finished pass leaves `status` true, which
stands for LOW (`StatusTells`). A torn pass, which read a `ccr` above 0
for its second comparison only, may still have left the pin HIGH; the passes
after it see no change and do not write it, until one meets step 0 of the period
(`MetIsFresh`) and writes it on its way (`MetPass`). No step of this needs the
runner to be on time, only `met`. Theorems: `TypeCorrect`, `OffIsSilent`, both
for any `Lag`.

**HostProofs**, telemetry. `RInv` adds to `NearlyOne` where the writer is
(`WriterInPlace`: fields before `nextField` are of this round, the others of the
one before, the two computed ones as old as what they are computed from) and
that the reader took nothing from the future (`NoFuture`). Theorem:
`ReportsNearlyOne`, for any number of rounds.

**HostProofs**, configuration (`CfgAssumption` of `LuaCfg`). `InPlace` says what `table2file`
holds while nothing has failed: at `write` the text read is the file's, at
`move` the temporary file is the whole new text. So the one `rename` is the only
step at which the file changes, and `Restart` may come anywhere. `TInv` adds to
`CfgTypeOK` that a version is given out before anything is written. Theorems:
`NoTableLost`, `MeasuresOwnTable`, `TypeCorrect`.

**HostProofs**, files (`PathsAssumption` of `FileUtil`: paths are sequences, and
not empty). `MakesDirs` says what an answer means when it is given; the
invariant `CallOK` has to say what a process knows on the way: everything behind
it is there (`Passed`), and a directory that was missing when it looked and is
there now was made by another (`NotMine`). `StepMInv` is the frame: nothing is
ever removed, and who made a directory is not forgotten (`Grown`), so a step of
one process keeps what the others know. That the components are a sequence rests
on `ThoseProperties`. Theorem: `DirsAreMade`.

**HostProofs**, values (`ValueAssumption` of `Value`, and `EnoughMemory`: more strings than
objects, stated as: no assignment of strings to objects is one to one). `Good`
says that the type of an object that holds a pointer is STRING, that its string
is its own, and that every allocated string has an owner; one lemma per private
function (`clear`, `reset`, `Allocate`), used by one per public one. For the
refinement, `Untouched` says what an operation on `x` leaves of all other
objects and of their strings, which rests on `Good` (a string freed or written is
nobody else's), and `Plain` that an object that is no STRING holds a number.
`ReadersAgree` rests on arithmetic: `InRange` says that the number an object
holds is one of its type's, after any chain of conversions, and `Decimal` reads a
text as one of a word, signed or not (`Numeral`); `DivMod`, `ModShift` and
`ModMod` that remainders by `Word` and by its divisor `Byte` agree. Real numbers
and texts are any: the theorem says where the readers agree, and where `asBool`
and the others do not, namely on texts and real numbers only. Theorems: `StringsHaveOneOwner`,
`ValueImplementsCells`, `ReadersAgree`.

**GcProofs** (`GcAssumption` of `LuaGc`, and `MaxFinal <= SweepMax`: no more
objects have finalizers than one sweep step passes, 85 in the source; see
section 7 for what happens otherwise). `NoDangling` and `TriColour` speak of what
is reachable and of single references, and no step keeps them by themselves:
whether an object that is freed was reachable depends on where the whole cycle
stands. The invariant `IInv` has three parts.

- `Core`. `Coverage` is the heart: while objects are being marked, each marked
  one is either going to be visited (`Pending`) or is `Covered`, all it refers
  to being marked; a weak table is covered by the list it is in, an open upvalue
  by its coroutine being `touched`. `Closed` and `RootsLive`: what lives refers
  to what lives. `Whites`: outside marking, what a sweep has passed is white
  again, and what is dead is still ahead of it. `Grays`, `Lists` and `Threads`
  tie colours to lists, `Types` and `Shape` say what a heap is.
- `Rest`, where the collector is (`Phase`) and what the stages of the atomic step
  have done so far (`RootsMarked`, `Atomic`, `Resurrected`).
- `Rounds`, for `convergeephemerons`: when a round has changed nothing, nothing
  is gray and every ephemeron has its values marked where its keys are.

At the end of the atomic step nothing is pending any more, so what is marked is
closed under reference, the white flips and `Closed` holds of what is marked:
everything unmarked may go. The module has one lemma per kind of change (marking
a set, visiting an object, unlinking, prepending, freeing) and one per action.
That `NoDangling`'s reachability stays within what lives needs no induction: it
is defined as the least set that is closed, and what lives is closed.
`FinalizersFirst` follows step by step from which lists a step touches
(`SameFinal`). Theorems: `Invariant`, `NothingDangles`, `ColoursHold`,
`FinalizersFirst`; for any heap a program has made, any number of objects,
entries, steps of the program and of the collector.

**GarbageProofs** (the same assumptions). That the collector collects is about
what it does *not* mark, of which `IInv` says nothing. `GarbageGoes` speaks of
the moment between two cycles only; the invariant `GInv` follows `doomed` through
the cycle as a fence around it.

- While objects are being marked, what is not doomed keeps nothing that is
  (`Sealed`), each entry by the rules for its table's mode, and what is marked,
  or hangs on a touched upvalue, is not doomed (`Fenced`). The program can hand
  on only what it has at hand, and that is never doomed (`OnThisSide`); what it
  pulls over the fence from a weak table takes with it all that it keeps
  (`Spared`, since `ReachableFrom` is the least closed set).
- So each stage marks on this side only: `VisitFits` for an object of any kind,
  `WeakFits` for the three kinds of weak table, `MarkFits` for a set with the
  uservalues behind it. An ephemeron is where `Kept` and the code have to say
  the same: its value is marked only where its key is, and a key that is not
  doomed may be white still, but its value is not doomed either.
- When the whites are exchanged the doomed are white, so they are dead
  (`FlipGarbage`); `Doom` says they stay so: sweeping, allocating, the barriers
  of a sweep, an object that gets a finalizer and `GCTM` make white only what
  lives, and `internshrstr` only strings.
- When no list is left to be swept, all that is on a list is white (`Whites` of
  `IInv`), so nothing doomed is there (`NoneLeft`).

An emergency collection breaks the cycle off and nothing is doomed until the next
begins. To prove this the model had to be put right in three places, where TLC's
small heaps had not told the difference: what is spared takes with it what it
keeps *together with* what was never doomed (the key of an ephemeron may come
from either side), strings count as kept keys, and a heap to start from has
modes other than strong on tables only (`WellFormed`). Theorem: `GarbageIsFreed`.

**TableProofs** (`TableAssumption` of `LuaTable`: finitely many keys, and an
integer key is its own hash; any two others may collide). That each key reads
what was stored says nothing of how the nodes are linked, and an insertion that
moves a node needs just that. The invariant `TableOK` of a table and what it
should hold has three parts.

- `Shape`, of single nodes: a next leads to a node with a key, what was never
  used lies below `lastfree`, a dead key has no value.
- `Chains`, of the next fields: no two lead to the same node, so there is one
  node before each; none comes back (`Ranks`); a main position is used by a key of
  its own as soon as any key has it; every key is on the chain of its main
  position, and a live key before the dead ones like it, for one key can be both
  live and dead. That node b is behind node a on a chain is `Comes(t, a, b)`: b is in every set
  that holds a and is closed under next, so that no recursion is needed.
- `Content`, that the cells and live nodes hold what the map says.

`SearchFinds` and `SearchFails` say what the loop of a search does on such
chains (it passes no node twice, so it ends within as many steps as there are
nodes). There is one lemma per way to place a key: in the array (`PlaceInArray`),
in a node it has (`PlaceInNode`), in its free main position (`PlaceInMain`),
behind the node there (`PlaceBehind`), and by moving that node (`PlaceMoved`).
`rehash` is safe because luaH_resize never runs out of nodes on the way
(`RoomIsLeft`: while nodes are filled with different keys and there are at
least as many nodes as keys, one is free, by counting); what it puts in again is
all there was (`AgainIsAll`), and what it counts is at least what it puts in
(`RehashKeeps`). That `luaH_getn` is a border rests on
`HalvingFinds` and on `SomeTriedIsAbsent`: among more doublings than keys one is
absent. Theorem: `MapKept`.

For the traversal, `IsAt` is the place of a key in it, the same for a dead key
as for a live one, and `GoingOn` says that what was seen lies at rising places
and what stays and was not seen lies behind the last. What is allowed during a
traversal moves no key (`StandsStill`). Theorem: `TraversalComplete`.

**SelectionProofs**. `Those` is a recursive function, and what it returns needs
induction on the naturals, which the library states for a predicate that no
installed prover can instantiate. It is proved here for sets of naturals:
`LeastNumber` from the well-foundedness of inclusion on finite sets,
`SetInduction` from that, `SelectionExists` (the recursion defines a function)
and `ThoseProperties`, `ThoseSplit` from this.

Only model-checked, not proved:

- all liveness (`SilentGroupExpires`, `Heals`, `StopReturns`,
  `CentredServoReleased`, `Pulses`, the fairness of `Outbox`), which is out of
  the prover's reach;
- what the recursive definitions of the Lua modules, `Helpers` and `CfgText`
  compute (`RunsAsWritten`, `CodeIsSound`, `LibraryAgrees`, `HelpersAgree`,
  `FindsItsTable`): `RECURSIVE` operators take the SMT backend
  away, and an induction over data needs the library's theorems.

## 7. Disagreements found

- `main.cpp:471`, run `rover_stale_pair`. The pair loop runs while `i < len`
  although `data` has been moved past the type byte, so one pair more than was
  received is parsed. After `G 30, T 50` a bare `N 0` is followed by the old
  `T 50` from the buffer: the wheels stay turned, against README.md's "N 0 回正".
- `main.cpp:278`, run `rover_dropped`. The task tests the old count, the
  receiver stores a fresh G, the task clears it. The rover misses one command;
  the next repetition repairs it.
- `RcClient.cpp:189`, run `rc_client_readme`. README.md ignores
  `thread_start`'s result and later calls `stop()`; after a failed start that
  throws and the program terminates.
- `pwm.cpp:154`, run `pwm_duty`. `change_crr` restarts the 20 ms period and the
  task calls it every 5 ms: from a quarter of the range on the pin is always
  HIGH, against "duty == 0~100" at `main.cpp:161`.
- `pwm.cpp:75`, run `pwm_torn`. `ccr` is compared twice; a store in between
  leaves the pin HIGH while `status` says LOW, and it stays so until a pass
  meets the start of a period, against `pwm.h:21`. `SilentWhenOff` says for that
  reason when a channel at 0 is silent: once a pass has met step 0 of the period
  (20 us of 20 ms). The runner is an ordinary thread; if it is preempted, or the
  clock is set, at each of these steps, the channel stays HIGH.

More are in the models without a run of their own, because no line of the
repository says otherwise or nothing calls the code:

- `CLuaCfg.cpp:58`, `:65`: readers that return early leave the table, or the
  value that is none, on the Lua stack, and only the array readers ever empty
  it: `stack` grows with every failing read, where Lua grants 20 slots
  (`luasrc/lua.h:78`).
- `CLuaCfg.cpp:485`: `traverse_table` takes a key that is a number for a text and
  asks for it as one, which changes the key on the stack; `lua_next` (`:473`) then
  raises "invalid key to 'next'" with nothing to catch it, and the process ends
  (`L = "aborted"`). One entry without a name is enough.
- `CLuaCfg.cpp:40`: on an object that has loaded a file, `setCfgPath` uses the
  Lua state it has just closed (`L = "used"`) and appends the path to the old
  one, against `CLuaCfg.h:45`.
- `CLuaCfg.cpp:402`: `findBeginOfTable` takes a table whose name only begins
  with the name asked for, so `table2file` replaces a table `tx` that stands
  before `t`, or instead of it; `FindsItsTable` says which table it finds. By the
  same test (`i > found` looks again from `i`) a name that ends in the one asked
  for is taken, too, if its letter comes twice (`t` in `xtt`); the names of the
  run have no such one.
- `CFileUtil.cpp:198`: `strpp` denies some texts that a format with `*` fits,
  because it does not come back to an earlier `*`, although the comment at
  line 197 has false mean no match. `PatternIsSound` says what is right: what it
  affirms always, what it denies for formats without `*` and for those like the
  comment's `ab*f*`, single characters between stars and a star at the end, which
  stands for one character at least. `getFileNameWithOutPostfix` cuts a name without a dot,
  `make_dirs("")` throws, and a plain file in the way counts as a directory
  that exists.
- `CTimeUtil.cpp:23`: `GetSec` leaves `tm_isdst` as it finds it; the model has no
  summer time. `AddSec` hands year and month to `mktime` as they are printed.
  `AddSecIsExact` says exactly when that is right: the date's month is as long as
  the result's, and the result's day exists in the month after. For all other
  dates it is wrong, for example one second after the last day of January.
- `main.cpp:273`: `count ++` of the main thread may write over the receiver's
  `count = 0`, so a command just stored can expire at once. The next repetition
  repairs it, as after `rover_dropped`; `DeadMan` bounds the other direction, a
  command that stays too long.
- `CFileUtil.cpp`: `make_dirs` answers -1 when another process makes a directory
  between its test and its `mkdir`, although the directory is there; `MakesDirs`
  says what the answers 0 and -1 mean, and allows for this one.
- `CLuaCfg.cpp`, `table2file`: a write that fails, as opposed to a crash, is not
  noticed, and the half-written text is renamed over the file; `NothingLost` is
  about crashes (`~mishap`).
- `CValue.cpp:494` against `:379`, `:514` against `:347`: a text such as `true`,
  and a real number below 1, are true as a bool and 0 as an integer; `ReadsAgree`
  says that nothing else is.
- `UdpServerBase.cpp:181`: after a failed step `initUdpServer` goes on, makes
  descriptor 0 non-blocking, says OK and watches it, then answers false. `watched`
  shows it; nobody runs the loop then, so no callback sees standard input, but the
  terminal stays non-blocking after the process has ended.
- `main.cpp:93` of `rc_server`: `log_path` is declared without an argument, and
  line 110 uses its argument.
- `lgc.c:785-795`: when more objects have finalizers than one `sweeplist` passes
  (`GCSWEEPMAX`, 85), `GCTM` may run between two steps of the sweep of
  `tobefnz`. `udata2finalize` then takes the object `sweepgc` stands at to
  `allgc`, `sweepgc` goes on there, and the rest of `tobefnz` begins the next
  cycle black, against `lgc.h:57-58` ("The invariant is restored when sweep ends
  and all objects are white again"). With `MaxFinal = 2` and `SweepMax = 1` TLC
  finds `TriColour` and `NoDangling` violated. The program's few finalizers
  (`io`'s files, `package`'s list of libraries) stay far below; the theorems of
  `GcProofs` and `GarbageProofs` assume `MaxFinal <= SweepMax`.
- `lparser.c`, three ways to compile a program wrongly, all repaired in later
  releases of Lua 5.3: `if c then goto L ::L:: ... end`, where
  `test_then_block` jumps past the label's statements (from line 1379 on); a generic
  for with more than three expressions (`adjust_assign`); a label between local
  definitions (`labelstat`, 1220-1235), where `luaK_nil` merges two LOADNILs
  across it. The programs of the run have none of these.
- `lstrlib.c:1480`, `lutf8lib.c:242`: the length functions are registered as
  `data_length`, and `gmatch` takes `^` as a character.

## 8. What is not modelled, and the plan

Left out on purpose:

- option parsing, logging, daemonising and wiringPi's set-up: straight-line code
  before any thread exists; libev, libuv, wiringPi and glog themselves;
- floating point: the sensor's registers, Lua's floats, `math`;
- leaks of memory and descriptors that need no interleaving; the body of a
  datagram beyond what the relay tells apart;
- `stopServer` and the destructor of a running server, and `RcClient::stop` from
  its own callback: no program of the repository calls them so;
- of Lua: operators on bits, `string.format`, `pack` and `unpack`, the limits
  on C calls (`MAXCCALLS`, `matchdepth`), hooks and debug information, the wrap
  of numerals to 64 bits, the pacing of the collector (`GCdebt`) and its
  prototypes and their cache, the string table, and the libraries that wrap C's
  (`io`, `os`, `math`, `debug`, `package`);
- the C API and `lauxlib` as such: modelled only where a modelled part goes
  through them.

What a next extension would add: `stop` from the callback in `RcClient`; upvalues
that closures share, and prototypes and their cache, in the collector;
`string.format`.
