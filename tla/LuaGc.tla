-------------------------------- MODULE LuaGc --------------------------------
(***************************************************************************)
(* The collector of the Lua interpreter that reads the configuration,      *)
(* luasrc/lgc.c: incremental, three colours, two whites.  Between any two  *)
(* of its steps the program goes on: it allocates, moves references        *)
(* between its stack, tables, closures and userdata, opens and closes      *)
(* upvalues, makes tables weak and sets finalizers; the barriers of lgc.c  *)
(* must keep the collector from freeing what is still used.                *)
(*                                                                         *)
(* The program works on what is on its stack, and does so MaxWork times    *)
(* from some heap on.  An object is a name that can be allocated again     *)
(* once it was freed.  A step of the collector is one singlestep; the      *)
(* atomic one is taken apart into stages in which the program does not     *)
(* run.  The white of the present cycle is "white", the other "other".     *)
(***************************************************************************)
EXTENDS Selections, FiniteSets, SequencesExt

CONSTANTS
  Main, Registry,   \* the main thread, and the table every program has
  Object,           \* what else can be allocated
  Heaps,            \* the heaps to start from: kind, refs, open, mode as below,
                    \* allgc and finobj as in global_State
  Null,              \* no object; a key that is not collectable
  MaxEntry,         \* bound: entries of a table
  MaxStack,         \* bound: values on the stack of the program
  MaxWork,          \* bound: steps of the program
  MaxFinal,         \* bound: objects whose finalizer is set, at a time
  SweepMax          \* GCSWEEPMAX

All == Object \cup {Main, Registry}
Kinds == {"table", "closure", "coroutine", "udata", "string"}
Modes == {"strong", "k", "v", "kv"}

\* Bound: one upvalue at most is open on a coroutine, and no closures share it.
Shared(opens, c, d) == opens[c] # Null /\ opens[c] = opens[d]

\* A heap to start from is one that a program has made: what is allocated refers
\* to what is allocated, and an upvalue is open on an allocated coroutine.
WellFormed(h) ==
  LET allocated == Range(h.allgc) \cup Range(h.finobj) \cup {Main}
  IN  /\ h.kind \in [Object -> Kinds]
      /\ h.refs \in [All -> SUBSET ((Object \cup {Null}) \X Object)]
      /\ h.open \in [Object -> Object \cup {Null}]
      /\ h.mode \in [All -> Modes]
      /\ \A o \in All : h.mode[o] # "strong" => o \in Object /\ h.kind[o] = "table"
      /\ h.allgc \in Seq(Object \cup {Registry}) /\ Registry \in Range(h.allgc)
      /\ h.finobj \in Seq(Object) /\ Len(h.finobj) <= MaxFinal
      /\ \A o \in All : \A e \in h.refs[o] :
           /\ o \in allocated /\ {e[1], e[2]} \ {Null} \subseteq allocated
           /\ o \in Object => h.kind[o] # "string" /\ (h.kind[o] = "table" \/ e[1] = Null)
           /\ o = Main => e[1] = Null
      /\ \A c \in Object : h.open[c] # Null =>
           /\ h.kind[c] = "closure" /\ h.kind[h.open[c]] = "coroutine"
           /\ {c, h.open[c]} \subseteq allocated /\ h.refs[c] = {}
      /\ \A c, d \in Object : Shared(h.open, c, d) => c = d

ASSUME GcAssumption ==
  /\ Main \notin Object /\ Registry \notin Object /\ Main # Registry
  /\ Null \notin All
  /\ MaxEntry \in Nat /\ MaxStack \in Nat /\ MaxWork \in Nat
  /\ MaxFinal \in Nat /\ SweepMax \in Nat \ {0}
  /\ \A h \in Heaps : WellFormed(h)

VARIABLES
  kind,  \* kind[o], fixed
  refs,  \* refs[o]: the entries <<key, value>> of a table; for the others
         \* <<Null, value>>: stack, uservalue, closed upvalue
  open,  \* open[c]: the coroutine on whose stack the upvalue of closure c is
  mode,  \* mode[t]: "strong", or what __mode makes of the table
  g,     \* global_State, as far as the collector goes
  work,  \* steps the program has left
  doomed \* history: what was out of reach when the cycle began and is there

gcVars == <<kind, refs, open, mode, g, work, doomed>>

KindOf(o) == IF o = Main THEN "thread" ELSE IF o = Registry THEN "table" ELSE kind[o]
Values(o) == {e[2] : e \in refs[o]}
KeysOf(o) == {e[1] : e \in refs[o]} \ {Null}
Upvalue(c) == IF open[c] = Null THEN Values(c) ELSE Values(open[c])

Listed(h) == Range(h.allgc) \cup Range(h.finobj) \cup Range(h.tobefnz)
Allocated == Listed(g) \cup {Main}

IsWhite(h, o) == h.mark[o] \in {"white", "other"}
isdead(h, o) == h.mark[o] = "other"
makewhite(h, o) == [h EXCEPT !.mark[o] = "white"]
issweepphase(h) == h.state \in {"swpallgc", "swpfinobj", "swptobefnz", "swpend"}
keepinvariant(h) == h.state \in {"propagate", "atomic"}

\* No list, or what is left of it begins behind `skip' elements.
NoSweep == [list |-> "none", skip |-> 0]

\* The lists are those of global_State; the order of the gray ones is left
\* open.  twups are the threads in that list, openupval those with an open
\* upvalue, touched the ones whose upvalue is.  stage is what the atomic step is
\* about to do, next, changed, saved, origweak and origall are its variables.
NoGray(h) ==
  [h EXCEPT !.gray = {}, !.grayagain = {}, !.weak = {}, !.allweak = {}, !.ephemeron = {},
            !.next = {}, !.saved = {}, !.origweak = {}, !.origall = {}]

GcInit ==
  /\ work = MaxWork /\ doomed = {}
  /\ \E h \in Heaps :
       LET opened == {h.open[c] : c \in Object} \ {Null}
       IN  /\ kind = h.kind /\ refs = h.refs /\ open = h.open /\ mode = h.mode
           /\ g = [state |-> "pause", stage |-> "none",
                   mark |-> [o \in All |-> "white"],
                   allgc |-> h.allgc, finobj |-> h.finobj, tobefnz |-> <<>>,
                   sweepgc |-> NoSweep,
                   twups |-> opened, openupval |-> opened, touched |-> opened,
                   gray |-> {}, grayagain |-> {}, weak |-> {}, allweak |-> {},
                   ephemeron |-> {}, next |-> {}, changed |-> FALSE, saved |-> {},
                   origweak |-> {}, origall |-> {}]

-----------------------------------------------------------------------------
(* Marking *)

\* Strings and userdata are marked at once, and with a userdata its uservalue,
\* which may be a userdata again: the least set that is closed under it.
AtOnce(o) == KindOf(o) \in {"string", "udata"}

Userdata(h, S) ==
  LET W == {u \in All : IsWhite(h, u) /\ KindOf(u) = "udata"}
  IN  {u \in W : \A T \in SUBSET W :
         W \cap S \subseteq T /\ (\A t \in T : Values(t) \cap W \subseteq T) => u \in T}

reallymark(h, S) ==
  LET new == {o \in S \cup UNION {Values(u) : u \in Userdata(h, S)} : IsWhite(h, o)}
  IN  [h EXCEPT !.mark = [o \in All |-> IF o \notin new THEN h.mark[o]
                                         ELSE IF AtOnce(o) THEN "black" ELSE "gray"],
                !.gray = @ \cup {o \in new : ~AtOnce(o)}]

restartcollection(h) ==
  reallymark([NoGray(h) EXCEPT !.state = "propagate"],
             {Main, Registry} \cup Range(h.tobefnz))

\* iscleared, of anything but a string, which it marks instead.
Cleared(h, o) == o # Null /\ IsWhite(h, o) /\ KindOf(o) # "string"
StringsIn(S) == {o \in S \ {Null} : KindOf(o) = "string"}

\* Weak tables stay gray and are seen again in the atomic phase.
traverseweakvalue(h, t) ==
  LET m == reallymark(h, KeysOf(t) \cup StringsIn(Values(t)))
  IN  IF h.state = "propagate" THEN [m EXCEPT !.grayagain = @ \cup {t}]
      ELSE IF \E v \in Values(t) : Cleared(m, v) THEN [m EXCEPT !.weak = @ \cup {t}]
      ELSE m

EphemeronValues(h, t) == {e[2] : e \in {e \in refs[t] : ~Cleared(h, e[1])}}

traverseephemeron(h, t) ==
  LET m == reallymark(h, StringsIn(KeysOf(t)) \cup EphemeronValues(h, t))
      weakly == {e \in refs[t] : Cleared(h, e[1])}
  IN  IF h.state = "propagate" THEN [m EXCEPT !.grayagain = @ \cup {t}]
      ELSE IF \E e \in weakly : IsWhite(h, e[2]) THEN [m EXCEPT !.ephemeron = @ \cup {t}]
      ELSE IF weakly # {} THEN [m EXCEPT !.allweak = @ \cup {t}]
      ELSE m

traversetable(h, t) ==
  LET keptGray == [h EXCEPT !.mark[t] = "gray"]
  IN  CASE mode[t] = "strong" -> reallymark(h, KeysOf(t) \cup Values(t))
        [] mode[t] = "v" -> traverseweakvalue(keptGray, t)
        [] mode[t] = "k" -> traverseephemeron(keptGray, t)
        [] mode[t] = "kv" -> [keptGray EXCEPT !.allweak = @ \cup {t}]

\* An open upvalue is left to its thread, but for the atomic phase.
traverseLclosure(h, c) ==
  IF open[c] # Null /\ h.state # "inside"
    THEN [h EXCEPT !.touched = @ \cup {open[c]}]
    ELSE reallymark(h, Upvalue(c))

\* A thread is never black: its stack is written without barriers.
traversethread(h, k) ==
  LET m == reallymark([h EXCEPT !.mark[k] = "gray", !.grayagain = @ \cup {k}], Values(k))
  IN  IF h.state = "inside" /\ k \in h.openupval THEN [m EXCEPT !.twups = @ \cup {k}] ELSE m

propagatemark(h, o) ==
  LET b == [h EXCEPT !.mark[o] = "black", !.gray = @ \ {o}]
  IN  CASE KindOf(o) = "table" -> traversetable(b, o)
        [] KindOf(o) = "closure" -> traverseLclosure(b, o)
        [] OTHER -> traversethread(b, o)

\* Mutant: no remarking, as if the thread of an open upvalue were always found.
remarkupvalsMutant(h) == h

\* Open upvalues that a marked closure has seen, of threads nobody has marked.
remarkupvals(h) ==
  LET kept == {k \in h.twups : h.mark[k] = "gray" /\ k \in h.openupval}
      seen == (h.twups \ kept) \cap h.touched
  IN  [reallymark(h, UNION {Values(k) : k \in seen})
        EXCEPT !.twups = kept, !.touched = @ \ seen]

-----------------------------------------------------------------------------
(* Sweeping *)

ListOf(h, name) == CASE name = "allgc" -> h.allgc
                     [] name = "finobj" -> h.finobj
                     [] OTHER -> h.tobefnz
SetList(h, name, s) == CASE name = "allgc" -> [h EXCEPT !.allgc = s]
                         [] name = "finobj" -> [h EXCEPT !.finobj = s]
                         [] OTHER -> [h EXCEPT !.tobefnz = s]

\* Where sweepgc is left: behind `skip' elements, or nowhere at the end.
At(h, name, skip) ==
  [h EXCEPT !.sweepgc = IF skip >= Len(ListOf(h, name)) THEN NoSweep
                                   ELSE [list |-> name, skip |-> skip]]

Alive(h) == {o \in All : ~isdead(h, o)}

\* At most SweepMax elements from sweepgc on.
sweeplist(h) ==
  LET name == h.sweepgc.list
      skip == h.sweepgc.skip
      s == ListOf(h, name)
      to == IF skip + SweepMax <= Len(s) THEN skip + SweepMax ELSE Len(s)
      kept == Those(SubSeq(s, skip + 1, to), Alive(h))
      rest == SubSeq(s, 1, skip) \o kept \o SubSeq(s, to + 1, Len(s))
      white == [o \in All |-> IF o \in Range(kept) THEN "white" ELSE h.mark[o]]
  IN  At(SetList([h EXCEPT !.mark = white], name, rest), name, skip + Len(kept))

\* Sweep on from `skip' up to and including the first that lives.
sweeptolive(h, name, skip) ==
  LET s == ListOf(h, name)
      live == {i \in skip + 1 .. Len(s) : ~isdead(h, s[i])}
      i == CHOOSE i \in live : \A j \in live : i <= j
  IN  IF live = {} THEN [SetList(h, name, SubSeq(s, 1, skip)) EXCEPT !.sweepgc = NoSweep]
      ELSE At(makewhite(SetList(h, name, SubSeq(s, 1, skip) \o SubSeq(s, i, Len(s))), s[i]),
              name, skip + 1)

entersweep(h) == sweeptolive([h EXCEPT !.state = "swpallgc", !.stage = "none"], "allgc", 0)

\* New elements go to the head of a list, in front of a sweepgc inside it.
Prepend(h, name, o) ==
  LET l == SetList(h, name, <<o>> \o ListOf(h, name))
  IN  IF h.sweepgc.list = name /\ h.sweepgc.skip > 0 THEN [l EXCEPT !.sweepgc.skip = @ + 1]
      ELSE l

\* What freeobj does: an object's contents go, and a thread's upvalues are
\* closed first.  `cleared' is what the collector has made of refs before.
Heap(to, cleared) ==
  \E h \in {to} :
    LET freed == Listed(g) \ Listed(h)
        closing == {c \in Object \ freed : open[c] \in freed}
    IN  /\ g' = [h EXCEPT !.openupval = @ \ freed, !.touched = @ \ freed,
                         !.mark = [o \in All |-> IF o \in freed THEN "white" ELSE @[o]]]
        /\ refs' = [o \in All |-> IF o \in freed THEN {}
                                   ELSE IF o \in closing THEN cleared[open[o]]
                                   ELSE cleared[o]]
        /\ open' = [c \in Object |-> IF c \in freed \cup closing THEN Null ELSE open[c]]
        /\ mode' = [o \in All |-> IF o \in freed THEN "strong" ELSE mode[o]]
        /\ UNCHANGED kind

\* A step of the collector.
Freeing(h, cleared) ==
  /\ Heap(h, cleared)
  /\ doomed' = doomed \cap Listed(h)
  /\ UNCHANGED work

Collector(h) == Freeing(h, refs)

-----------------------------------------------------------------------------
(* What the program can get at *)

\* What an object keeps, given what is kept already: an ephemeron its values
\* for the keys that are kept, and for strings, which are never cleared.
Kept(o, S) ==
  LET lasting == S \cup {Null} \cup StringsIn(KeysOf(o))
      e == IF mode[o] = "strong" THEN refs[o]
           ELSE IF mode[o] = "k" THEN {p \in refs[o] : p[1] \in lasting} ELSE {}
      keys == IF mode[o] \in {"k", "kv"} THEN {} ELSE KeysOf(o)
  IN  {p[2] : p \in e} \cup keys
        \cup (IF KindOf(o) = "closure" THEN Upvalue(o) ELSE {})

\* The least set with the roots and all that its elements keep.
ReachableFrom(Roots) ==
  {o \in All : \A S \in SUBSET All :
     Roots \subseteq S /\ (\A p \in S : Kept(p, S) \subseteq S) => o \in S}

Roots(h) == {Main, Registry} \cup Range(h.tobefnz)

\* What is left of doomed when the objects of S are needed again: also what they
\* keep, together with all that was never in it.
Spare(S) == doomed \ ReachableFrom((All \ doomed) \cup S)

-----------------------------------------------------------------------------
(* The collector's steps *)

Between == g.stage = "none"

pause ==
  /\ Between /\ g.state = "pause"
  /\ Heap(restartcollection(g), refs)
  /\ LET spared == UNION {Values(k) : k \in g.touched}
     IN  doomed' = {o \in Listed(g) \ ReachableFrom(Roots(g) \cup spared) :
                      KindOf(o) # "string"}
  /\ UNCHANGED work

propagate ==
  /\ Between /\ g.state = "propagate"
  /\ \E o \in g.gray :
       LET h == propagatemark(g, o)
       IN  Collector([h EXCEPT !.state = IF h.gray = {} THEN "atomic" ELSE @])

\* propagateall, before and within atomic.
propagateall ==
  /\ g.stage # "none" /\ g.gray # {}
  /\ \E o \in g.gray : Collector(propagatemark(g, o))

Emptied(stage) == g.stage = stage /\ g.gray = {}

atomic_enter ==
  /\ Between /\ g.state = "atomic"
  /\ Collector([g EXCEPT !.stage = "enter"])

atomic_roots ==
  /\ Emptied("enter")
  /\ LET h == reallymark([g EXCEPT !.saved = g.grayagain, !.state = "inside"], {Main, Registry})
     IN  Collector([remarkupvals(h) EXCEPT !.stage = "roots"])

atomic_again ==
  /\ Emptied("roots")
  /\ Collector([g EXCEPT !.gray = g.saved, !.stage = "again"])

\* The rounds of convergeephemerons, until one of them marks nothing.
Round(h) == [h EXCEPT !.next = h.ephemeron, !.ephemeron = {}, !.changed = FALSE]

converge_enter ==
  /\ Emptied("again")
  /\ Collector([Round(g) EXCEPT !.stage = "converge"])

converge ==
  /\ g.stage \in {"converge", "converge again"} /\ g.gray = {}
  /\ \/ \E t \in g.next :
          LET marks == \E v \in EphemeronValues(g, t) : IsWhite(g, v)
          IN  Collector([traverseephemeron([g EXCEPT !.next = @ \ {t}], t)
                          EXCEPT !.changed = @ \/ marks])
     \/ g.next = {} /\ g.changed /\ Collector(Round(g))

Converged(stage) == Emptied(stage) /\ g.next = {} /\ ~g.changed

\* clearvalues and clearkeys, with the strings that iscleared marks.
WithoutValues(h, r, ts) ==
  [o \in All |-> IF o \in ts THEN {e \in r[o] : ~Cleared(h, e[2])} ELSE r[o]]
WithoutKeys(h, r, ts) ==
  [o \in All |-> IF o \in ts THEN {e \in r[o] : ~Cleared(h, e[1])} ELSE r[o]]
StringsOf(ts) == StringsIn(UNION {Values(t) \cup KeysOf(t) : t \in ts})

\* separatetobefnz, without `all'.
separatetobefnz(h) ==
  LET white == {o \in All : IsWhite(h, o)}
  IN  [h EXCEPT !.tobefnz = @ \o Those(h.finobj, white),
                !.finobj = Those(@, All \ white)]

\* Mutant: what is to be finalized is not marked.
SeparateMutant(h) == separatetobefnz(h)

\* What is to be finalized is marked, to be there for its finalizer.
Separate(h) ==
  LET s == separatetobefnz(h)
  IN  reallymark(s, Range(s.tobefnz))

atomic_clear ==
  /\ Converged("converge")
  /\ LET ts == g.weak \cup g.allweak
         h == reallymark(g, StringsIn(UNION {Values(t) : t \in ts}))
         s == Separate(h)
     IN  /\ Heap([s EXCEPT !.origweak = g.weak, !.origall = g.allweak, !.stage = "resurrect"],
                 WithoutValues(h, refs, ts))
         /\ doomed' = Spare(Range(s.tobefnz))
         /\ UNCHANGED work

converge_again ==
  /\ Emptied("resurrect")
  /\ Collector([Round(g) EXCEPT !.stage = "converge again"])

\* Mutant: the whites are not exchanged.
flipMutant(h) == h

\* The end of atomic, with the whites exchanged, and entersweep.  The gray
\* lists have no meaning until the next cycle.
flip(h) ==
  [h EXCEPT !.mark = [o \in All |-> IF h.mark[o] = "white" THEN "other"
                                    ELSE IF h.mark[o] = "other" THEN "white"
                                    ELSE h.mark[o]]]

atomic_flip ==
  /\ Converged("converge again")
  /\ LET byKey == g.ephemeron \cup g.allweak
         byValue == (g.weak \ g.origweak) \cup (g.allweak \ g.origall)
         h == reallymark(g, StringsOf(byKey \cup byValue))
     IN  Freeing(entersweep(flip(NoGray(h))),
                 WithoutValues(h, WithoutKeys(h, refs, byKey), byValue))

\* What follows a list: the next state, and the list it begins with.
Sweeps == [swpallgc |-> <<"swpfinobj", "finobj">>,
           swpfinobj |-> <<"swptobefnz", "tobefnz">>,
           swptobefnz |-> <<"swpend", "none">>]

sweepstep ==
  /\ Between /\ g.state \in DOMAIN Sweeps
  /\ LET h == IF g.sweepgc = NoSweep THEN g ELSE sweeplist(g)
         to == Sweeps[g.state]
     IN  Collector(IF h.sweepgc # NoSweep THEN h
                   ELSE [h EXCEPT !.state = to[1],
                                  !.sweepgc = [list |-> to[2], skip |-> 0]])

swpend ==
  /\ Between /\ g.state = "swpend"
  /\ Collector([makewhite(g, Main) EXCEPT !.state = "callfin", !.sweepgc = NoSweep])

callfin ==
  /\ Between /\ g.state = "callfin"
  /\ g.tobefnz = <<>>
  /\ Collector([g EXCEPT !.state = "pause"])

CollectorSteps ==
  \/ pause \/ propagate \/ atomic_enter \/ propagateall \/ atomic_roots \/ atomic_again
  \/ converge_enter \/ converge \/ atomic_clear \/ converge_again \/ atomic_flip
  \/ sweepstep \/ swpend \/ callfin

\* udata2finalize: the first object to be finalized is an object like the others
\* again.  A sweepgc inside it goes with it.
udata2finalize(h) ==
  LET p == h.sweepgc
      l == Prepend([h EXCEPT !.tobefnz = Tail(@)], "allgc", Head(h.tobefnz))
  IN  IF p.list # "tobefnz" \/ p.skip = 0 THEN l
      ELSE [l EXCEPT !.sweepgc = IF p.skip = 1 THEN [list |-> "allgc", skip |-> 1]
                                  ELSE [p EXCEPT !.skip = @ - 1]]

\* It is on the stack, as the argument of its finalizer.
GCTM ==
  /\ Between /\ g.tobefnz # <<>> /\ g.state # "pause"
  /\ LET o == Head(g.tobefnz)
         h == udata2finalize(g)
     IN  /\ g' = IF issweepphase(g) THEN makewhite(h, o) ELSE h
         /\ refs' = [refs EXCEPT ![Main] = @ \cup {<<Null, o>>}]
  /\ UNCHANGED <<kind, open, mode, work, doomed>>

-----------------------------------------------------------------------------
(* The program *)

Running == Between /\ work > 0 /\ work' = work - 1
Stack == Values(Main)
Pushed(v) == [refs EXCEPT ![Main] = @ \cup {<<Null, v>>}]
HasRoom == Cardinality(Stack) < MaxStack
Holds(o, k) == o \in Stack /\ KindOf(o) = k
TableAt(t) == t = Registry \/ Holds(t, "table")

Put(h, r) == g' = h /\ refs' = r
SameShape == UNCHANGED <<kind, open, mode, doomed>>

\* luaC_newobj; a closure may be born with an upvalue on a coroutine's stack,
\* which luaF_findupval finds or opens.
luaC_newobj(o) ==
  LET h == makewhite(Prepend(g, "allgc", o), o)
  IN  /\ Running /\ HasRoom /\ o \notin Allocated
      /\ refs' = Pushed(o)
      /\ \/ g' = h /\ UNCHANGED open
         \/ \E k \in Stack :
              /\ KindOf(k) = "coroutine" /\ KindOf(o) = "closure"
              /\ open' = [open EXCEPT ![o] = k]
              /\ \A c \in Object : Shared(open', c, o) => c = o
              /\ g' = IF k \in g.openupval THEN h
                      ELSE [h EXCEPT !.openupval = @ \cup {k}, !.touched = @ \cup {k},
                                     !.twups = @ \cup {k}]
      /\ UNCHANGED <<kind, mode, doomed>>

\* internshrstr finds a string that is already there, perhaps a dead one.
internshrstr(s) ==
  /\ Running /\ HasRoom
  /\ s \in Listed(g) \ Stack /\ KindOf(s) = "string"
  /\ Put(IF isdead(g, s) THEN makewhite(g, s) ELSE g, Pushed(s))
  /\ SameShape

\* Reading a table, an upvalue, a uservalue, or from a coroutine.
Load(o, v) ==
  /\ Running /\ HasRoom
  /\ o \in Stack \cup {Registry} /\ v \notin Stack
  /\ v \in IF KindOf(o) = "closure" THEN Upvalue(o) ELSE Values(o) \cup KeysOf(o)
  /\ Put(g, Pushed(v))
  /\ doomed' = Spare({v})
  /\ UNCHANGED <<kind, open, mode>>

Pop(v) ==
  /\ Running /\ v \in Stack
  /\ Put(g, [refs EXCEPT ![Main] = @ \ {<<Null, v>>}])
  /\ SameShape

\* Mutant: the barrier looks at the value only, not at a new key.
luaC_barrierbackMutant(h, t, news) ==
  LET vs == {e[2] : e \in news}
  IN  IF h.mark[t] = "black" /\ \E v \in vs : IsWhite(h, v)
        THEN [h EXCEPT !.mark[t] = "gray",
                       !.grayagain = IF keepinvariant(h) THEN @ \cup {t} ELSE @]
        ELSE h

\* (In a sweep phase grayagain has no meaning.)
luaC_barrierback(h, t, news) ==
  LET vs == UNION {{e[1], e[2]} \ {Null} : e \in news}
  IN  IF h.mark[t] = "black" /\ \E v \in vs : IsWhite(h, v)
        THEN [h EXCEPT !.mark[t] = "gray",
                       !.grayagain = IF keepinvariant(h) THEN @ \cup {t} ELSE @]
        ELSE h

\* t[k] = v: luaH_newkey has a barrier for the key, the caller for the value.
SetTable(t, k, v) ==
  LET rest == {e \in refs[t] : e[1] # k}
  IN  /\ Running /\ TableAt(t)
      /\ k \in Stack \cup {Null} /\ v \in Stack
      /\ Cardinality(rest) < MaxEntry /\ <<k, v>> \notin refs[t]
      /\ Put(luaC_barrierback(g, t, {<<k, v>>}), [refs EXCEPT ![t] = rest \cup {<<k, v>>}])
      /\ SameShape

\* t[k] = nil
Unset(t, e) ==
  /\ Running /\ TableAt(t) /\ e \in refs[t]
  /\ Put(g, [refs EXCEPT ![t] = @ \ {e}])
  /\ SameShape

\* lua_setmetatable, of a metatable with a __mode that everybody has.
SetMode(t, m) ==
  /\ Running /\ Holds(t, "table") /\ m # mode[t]
  /\ mode' = [mode EXCEPT ![t] = m]
  /\ doomed' = Spare(Values(t) \cup KeysOf(t))
  /\ UNCHANGED <<kind, refs, open, g>>

\* luaC_barrier_, and in a sweep phase the object is swept instead.
luaC_barrier(h, o, v) ==
  IF h.mark[o] # "black" \/ ~IsWhite(h, v) THEN h
  ELSE IF keepinvariant(h) THEN reallymark(h, {v})
  ELSE makewhite(h, o)

lua_setuservalue(u, v) ==
  /\ Running /\ Holds(u, "udata") /\ v \in Stack /\ v \notin Values(u)
  /\ Put(luaC_barrier(g, u, v), [refs EXCEPT ![u] = {<<Null, v>>}])
  /\ SameShape

luaC_upvalbarrier(h, vs) == IF keepinvariant(h) THEN reallymark(h, vs) ELSE h

\* OP_SETUPVAL: an open upvalue is a slot of its coroutine's stack.
SetUpvalue(c, v) ==
  /\ Running /\ Holds(c, "closure") /\ v \in Stack /\ v \notin Upvalue(c)
  /\ IF open[c] # Null THEN Put(g, [refs EXCEPT ![open[c]] = {<<Null, v>>}])
     ELSE Put(luaC_upvalbarrier(g, {v}), [refs EXCEPT ![c] = {<<Null, v>>}])
  /\ SameShape

\* lua_xmove: a coroutine's stack has no barrier.
lua_xmove(k, v) ==
  /\ Running /\ Holds(k, "coroutine") /\ v \in Stack /\ v \notin Values(k)
  /\ Put(g, [refs EXCEPT ![k] = {<<Null, v>>}])
  /\ SameShape

\* The coroutine leaves the block of the variable.
luaF_close(k) ==
  LET cs == {c \in Object : open[c] = k}
      h == [g EXCEPT !.openupval = @ \ {k}, !.touched = @ \ {k}]
  IN  /\ Running /\ Holds(k, "coroutine") /\ k \in g.openupval
      /\ Put(IF cs = {} THEN h ELSE luaC_upvalbarrier(h, Values(k)),
             [o \in All |-> IF o = k THEN {} ELSE IF o \in cs THEN refs[k] ELSE refs[o]])
      /\ open' = [c \in Object |-> IF c \in cs THEN Null ELSE open[c]]
      /\ UNCHANGED <<kind, mode, doomed>>

\* Where in a list an object is.
PlaceOf(s, o) == CHOOSE i \in DOMAIN s : s[i] = o

\* o moves from allgc to finobj; a sweepgc behind it must not go with it.
luaC_checkfinalizer(o) ==
  LET swept == IF issweepphase(g) THEN makewhite(g, o) ELSE g
      behind == /\ issweepphase(g) /\ g.sweepgc.list = "allgc" /\ g.sweepgc.skip > 0
                /\ g.allgc[g.sweepgc.skip] = o
      h == IF behind THEN sweeptolive(swept, "allgc", g.sweepgc.skip) ELSE swept
      i == PlaceOf(h.allgc, o)
      passed == h.sweepgc.list = "allgc" /\ i <= h.sweepgc.skip
      out == [h EXCEPT !.allgc = RemoveAt(@, i),
                       !.sweepgc.skip = IF passed THEN @ - 1 ELSE @]
  IN  /\ Running
      /\ Holds(o, "udata") \/ Holds(o, "table")
      /\ o \in Range(g.allgc) /\ Len(g.finobj) + Len(g.tobefnz) < MaxFinal
      /\ Heap(Prepend(out, "finobj", o), refs)
      /\ doomed' = doomed \cap Listed(out)

\* What an emergency collection does in between: it turns all objects white
\* where they may be black, and leaves the finalizers for later.
luaC_fullgc ==
  /\ Running
  /\ \/ keepinvariant(g) /\ Heap(entersweep(g), refs)
     \/ g.state = "callfin" /\ g.tobefnz # <<>> /\ Heap([g EXCEPT !.state = "pause"], refs)
  /\ doomed' = {}

ProgramSteps ==
  \/ \E o \in Object :
       luaC_newobj(o) \/ internshrstr(o) \/ Pop(o) \/ luaF_close(o) \/ luaC_checkfinalizer(o)
  \/ \E o \in Object \cup {Registry}, v \in Object : Load(o, v)
  \/ \E t \in Object \cup {Registry} :
       \/ \E k \in Object \cup {Null}, v \in Object : SetTable(t, k, v)
       \/ \E e \in refs[t] : Unset(t, e)
       \/ \E m \in Modes : SetMode(t, m)
  \/ \E o, v \in Object : lua_setuservalue(o, v) \/ SetUpvalue(o, v) \/ lua_xmove(o, v)

GcNext == CollectorSteps \/ GCTM \/ ProgramSteps \/ luaC_fullgc

GcSpec == GcInit /\ [][GcNext]_gcVars

-----------------------------------------------------------------------------
(* Properties *)

\* The collector against a program that changes the heap between any two of
\* its steps: whatever the program can read next, in a weak table too, has not
\* been freed and is not about to be; neither is a thread in twups.
NoDangling ==
  LET held(o) == Values(o) \cup KeysOf(o)
                   \cup (IF KindOf(o) = "closure" THEN Upvalue(o) ELSE {})
  IN  Between =>
        /\ \A o \in ReachableFrom(Roots(g)) :
             /\ o \in Allocated
             /\ \A v \in held(o) : v \in Allocated /\ ~isdead(g, v)
        /\ g.twups \subseteq Allocated

\* lgc.h: while objects are being marked a black one never points to a white
\* one, and a gray one is in a gray list; the next cycle starts with all white.
TriColour ==
  Between =>
    /\ keepinvariant(g) =>
         \A o \in Allocated :
           /\ g.mark[o] = "black" =>
                \A v \in Values(o) \cup KeysOf(o) : ~IsWhite(g, v)
           /\ g.mark[o] = "gray" =>
                o \in g.gray \cup g.grayagain \cup g.weak \cup g.allweak \cup g.ephemeron
    /\ g.state \in {"pause", "callfin"} => \A o \in Allocated : IsWhite(g, o)

\* An object whose finalizer is set is never freed before the finalizer got it:
\* only GCTM takes it out of the two lists.
FinalizerFirst ==
  [][ LET waiting == Range(g.finobj) \cup Range(g.tobefnz)
      IN  waiting \ (Range(g.finobj) \cup Range(g.tobefnz))' # {} => GCTM ]_gcVars

\* What is out of reach when a cycle begins is freed in that cycle, whatever
\* the program does meanwhile, unless the program reads it back from a weak
\* table or changes the mode of the table that holds it, or an object with a
\* finalizer does.  Strings, which weak tables keep, are left out, and so is what a
\* touched upvalue of a dead coroutine holds: remarkupvals keeps it a cycle longer.
GarbageGoes == g.state = "pause" => doomed = {}

=============================================================================
