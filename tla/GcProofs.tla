------------------------------- MODULE GcProofs -------------------------------
(***************************************************************************)
(* Safety of the collector for every heap that a program has made, every   *)
(* number of objects, entries and steps, and every interleaving of the     *)
(* program with the steps of the collector: nothing the program can reach  *)
(* is freed, the tri-colour invariant of lgc.h holds, and no object is     *)
(* freed before its finalizer got it.                                      *)
(*                                                                         *)
(* The one assumption, MaxFinal <= SweepMax, is that no more objects have  *)
(* finalizers than one sweeplist gets through (GCSWEEPMAX, 85).  With      *)
(* more of them GCTM may run between two steps of the sweep of tobefnz and *)
(* leave a part of that list black: the theorems are false then.           *)
(*                                                                         *)
(* The module goes through the collector in this order: the invariant;     *)
(* marking; visiting an object; the steps that mark; sweeping; the end of  *)
(* the atomic phase; the program's steps; finalizers.                      *)
(***************************************************************************)
EXTENDS LuaGc, SelectionProofs

(***************************************************************************)
(* The invariant, of a heap given by its parts: k the kinds, r the         *)
(* references, op the open upvalues, h the collector's state.              *)
(***************************************************************************)
States == {"pause", "propagate", "atomic", "inside", "swpallgc", "swpfinobj", "swptobefnz",
           "swpend", "callfin"}
Converging == {"converge", "converge again"}
Resurrecting == {"resurrect", "converge again"}
Stages == {"none", "enter", "roots", "again", "converge", "resurrect", "converge again"}
Places == [list : {"none", "allgc", "finobj", "tobefnz"}, skip : Nat]
GState ==
  [state : States, stage : Stages, mark : [All -> {"white", "other", "gray", "black"}],
   allgc : Seq(Object \cup {Registry}), finobj : Seq(Object), tobefnz : Seq(Object),
   sweepgc : Places, twups : SUBSET All, openupval : SUBSET All, touched : SUBSET All,
   gray : SUBSET All, grayagain : SUBSET All, weak : SUBSET All, allweak : SUBSET All,
   ephemeron : SUBSET All, next : SUBSET All, changed : BOOLEAN, saved : SUBSET All,
   origweak : SUBSET All, origall : SUBSET All]

KindIn(k, o) == IF o = Main THEN "thread" ELSE IF o = Registry THEN "table" ELSE k[o]
Thread(k, o) == KindIn(k, o) \in {"thread", "coroutine"}
Val(r, o) == {e[2] : e \in r[o]}
Key(r, o) == {e[1] : e \in r[o]} \ {Null}
Objs(h) == Listed(h) \cup {Main}
NW(h) == {o \in All : ~IsWhite(h, o)}
Live(h) == {o \in Objs(h) : ~isdead(h, o)}

Marking(h) == h.state \in {"propagate", "atomic", "inside"}
Early(h) == h.state # "inside"

Types(k, r, op, m, h) ==
  /\ h \in GState
  /\ k \in [Object -> Kinds]
  /\ r \in [All -> SUBSET ((Object \cup {Null}) \X Object)]
  /\ op \in [Object -> Object \cup {Null}]
  /\ m \in [All -> Modes]

\* What a heap looks like, whatever the collector does.
Shape(k, r, op, h) ==
  /\ Registry \in Range(h.allgc)
  /\ Len(h.finobj) + Len(h.tobefnz) <= MaxFinal
  /\ \A o \in All :
       /\ KindIn(k, o) # "table" => Key(r, o) = {}
       /\ KindIn(k, o) = "string" => r[o] = {}
       /\ o \notin Objs(h) => r[o] = {} /\ o \notin NW(h)
  /\ \A c \in Object : op[c] # Null =>
       /\ k[c] = "closure" /\ k[op[c]] = "coroutine" /\ r[c] = {}
       /\ c \in Objs(h) /\ op[c] \in h.openupval
  /\ h.openupval \subseteq {c \in Objs(h) : KindIn(k, c) = "coroutine"}

\* What lives refers to what lives.
Closed(r, op, h) ==
  \A o \in Live(h) :
    /\ Val(r, o) \cup Key(r, o) \subseteq Live(h)
    /\ o \in Object /\ op[o] # Null => Val(r, op[o]) \subseteq Live(h)

RootsLive(h) ==
  {Main, Registry} \cup Range(h.finobj) \cup Range(h.tobefnz) \cup h.twups \subseteq Live(h)

Behind(h, name) ==
  LET s == ListOf(h, name)
  IN  IF h.sweepgc.list = name THEN {s[i] : i \in h.sweepgc.skip + 1 .. Len(s)} ELSE {}

\* What a sweep has not come to yet.
Unswept(h) ==
  CASE h.state = "swpallgc" ->
         Behind(h, "allgc") \cup Range(h.finobj) \cup Range(h.tobefnz) \cup {Main}
    [] h.state = "swpfinobj" -> Behind(h, "finobj") \cup Range(h.tobefnz) \cup {Main}
    [] h.state = "swptobefnz" -> Behind(h, "tobefnz") \cup {Main}
    [] h.state = "swpend" -> {Main}
    [] OTHER -> {}

Whites(h) ==
  IF Marking(h) THEN Live(h) = Objs(h)
  ELSE /\ \A o \in Objs(h) \ Unswept(h) : h.mark[o] = "white"
       /\ \A i \in 1 .. h.sweepgc.skip : h.mark[ListOf(h, h.sweepgc.list)[i]] = "white"

\* Where the collector is.
Phase(h) ==
  /\ h.stage # "none" <=> h.state = "inside" \/ h.stage = "enter"
  /\ h.stage = "enter" => h.state = "atomic"
  /\ h.sweepgc.skip <= Len(ListOf(h, h.sweepgc.list))
  /\ h.state = "swpallgc" => h.sweepgc.list \in {"none", "allgc"}
  /\ h.state = "swpfinobj" => h.sweepgc.list = "finobj"
  /\ h.state = "swptobefnz" => h.sweepgc = [list |-> "tobefnz", skip |-> 0]
  /\ h.state \notin {"swpallgc", "swpfinobj", "swptobefnz"} => h.sweepgc = NoSweep
  /\ h.sweepgc.list = "none" => h.sweepgc.skip = 0

\* A thread with open upvalues that lives is in twups.
Threads(k, h) ==
  /\ h.state # "inside" => h.openupval \cap Live(h) \subseteq h.twups
  /\ Marking(h) => \A o \in NW(h) : Thread(k, o) => h.mark[o] = "gray"

\* Of what is marked, what will be visited.
Pending(h) ==
  h.gray \cup (IF Early(h) THEN h.grayagain
              ELSE IF h.stage \in {"enter", "roots"} THEN h.saved ELSE {})

\* What a visit has left marked.
Covered(k, r, op, h, o) ==
  /\ \/ Val(r, o) \cup Key(r, o) \subseteq NW(h)
     \/ /\ KindIn(k, o) = "table"
        /\ \/ o \in h.weak /\ Key(r, o) \subseteq NW(h)
           \/ o \in h.allweak \cup h.ephemeron \cup h.next
  /\ o \in Object /\ op[o] # Null =>
       IF Early(h) THEN op[o] \in h.touched
       ELSE op[o] \in NW(h) \/ Val(r, op[o]) \subseteq NW(h)

\* (Here and below, X is what is just being visited.)
Coverage(k, r, op, h, X) ==
  Marking(h) => \A o \in NW(h) \ X : o \in Pending(h) \/ Covered(k, r, op, h, o)

GrayLists(h) ==
  h.gray \cup h.grayagain \cup h.weak \cup h.allweak \cup h.ephemeron \cup h.next \cup h.saved

Grays(k, h) ==
  Marking(h) =>
    /\ GrayLists(h) \subseteq NW(h)
    /\ \A o \in h.gray \cup h.grayagain \cup h.saved :
         KindIn(k, o) \notin {"string", "udata"}
    /\ \A o \in h.allweak \cup h.ephemeron \cup h.next : KindIn(k, o) = "table"
    /\ Early(h) => \A o \in NW(h) : Thread(k, o) => o \in h.gray \cup h.grayagain
    /\ h.stage \notin Converging => h.next = {}

\* Between two steps each gray object is in one list, and a black one in none.
Lists(h, X) ==
  Marking(h) /\ h.stage = "none" =>
    /\ h.weak = {} /\ h.ephemeron = {}
    /\ h.gray \cap h.grayagain = {}
    /\ (h.gray \cup h.grayagain) \cap h.allweak = {}
    /\ \A o \in NW(h) \ X :
         h.mark[o] = "gray" <=> o \in h.gray \cup h.grayagain \cup h.allweak

Core(k, r, op, m, h, X) ==
  /\ Types(k, r, op, m, h) /\ Shape(k, r, op, h) /\ Closed(r, op, h) /\ RootsLive(h)
  /\ Whites(h) /\ Threads(k, h) /\ Coverage(k, r, op, h, X) /\ Grays(k, h) /\ Lists(h, X)

RootsMarked(h) ==
  Marking(h) => {Main, Registry} \cup Range(h.tobefnz) \subseteq NW(h)

\* Within the atomic phase, where only threads that are marked stay in twups.
Atomic(h, X) ==
  h.state = "inside" =>
    /\ h.twups \subseteq NW(h)
    /\ h.openupval \cap NW(h) \subseteq h.twups \cup Pending(h) \cup X

\* An ephemeron's values are marked where its keys are, unless a round goes on.
Clear(k, h, o) == o # Null /\ o \notin NW(h) /\ KindIn(k, o) # "string"
Settled(k, r, h, t) == \A e \in r[t] : Clear(k, h, e[1]) \/ e[2] \in NW(h)

Rounds(k, r, h) ==
  h.stage \in Converging /\ ~h.changed =>
    h.gray = {} /\ \A t \in h.ephemeron : Settled(k, r, h, t)

\* What waits for its finalizer is marked, and weak tables have lost their values.
Resurrected(r, h) ==
  h.stage \in Resurrecting =>
    /\ Range(h.finobj) \subseteq NW(h)
    /\ \A t \in h.origweak \cup h.origall : Val(r, t) \subseteq NW(h)

Rest(r, h, X) == Phase(h) /\ RootsMarked(h) /\ Atomic(h, X) /\ Resurrected(r, h)

Inv(k, r, op, m, h) == Core(k, r, op, m, h, {}) /\ Rest(r, h, {}) /\ Rounds(k, r, h)

IInv == Inv(kind, refs, open, mode, g)

-----------------------------------------------------------------------------
(* Marking.  What reallymark does, told by what is marked before and after. *)

Marks == [All -> {"white", "other", "gray", "black"}]

SameLists(h, m) ==
  /\ m.allgc = h.allgc /\ m.finobj = h.finobj /\ m.tobefnz = h.tobefnz

SamePlace(h, m) ==
  m.state = h.state /\ m.stage = h.stage /\ m.sweepgc = h.sweepgc

SameThreads(h, m) ==
  m.twups = h.twups /\ m.openupval = h.openupval /\ m.touched = h.touched

SameGrays(h, m) ==
  /\ m.grayagain = h.grayagain /\ m.weak = h.weak /\ m.allweak = h.allweak
  /\ m.ephemeron = h.ephemeron /\ m.next = h.next /\ m.saved = h.saved
  /\ m.origweak = h.origweak /\ m.origall = h.origall /\ m.changed = h.changed

Marked(h, m, S) ==
  /\ m \in GState
  /\ SameLists(h, m) /\ SamePlace(h, m) /\ SameThreads(h, m) /\ SameGrays(h, m)
  /\ S \cup NW(h) \subseteq NW(m)
  /\ \A o \in All : m.mark[o] = IF o \in NW(h) \/ o \notin NW(m) THEN h.mark[o]
                                ELSE IF AtOnce(o) THEN "black" ELSE "gray"
  /\ \A o \in NW(m) \ NW(h) : AtOnce(o) => Values(o) \subseteq NW(m)
  /\ m.gray = h.gray \cup {o \in NW(m) \ NW(h) : ~AtOnce(o)}
  /\ \A A \in SUBSET All :
       S \subseteq A /\ (\A u \in A \ NW(h) : Values(u) \subseteq A)
         => NW(m) \subseteq NW(h) \cup A

\* What marking asks of the heap.
Tidy(h) ==
  /\ h \in GState
  /\ \A o \in All : /\ Values(o) \subseteq Object
                    /\ KindOf(o) = "string" => Values(o) = {}

\* The main thread, the registry and the objects are different things.
LEMMA Constants ==
  /\ Main \in All /\ Registry \in All /\ Object \subseteq All /\ Null \notin All
  /\ Main \notin Object /\ Registry \notin Object /\ Main # Registry
BY GcAssumption DEF All

\* The white userdata that marking S comes to, one from the other: they are white,
\* closed under what they hold, and within all that is closed.
LEMMA ChainIs ==
  ASSUME NEW h \in GState, NEW S \in SUBSET All, \A o \in All : Values(o) \subseteq Object
  PROVE  /\ Userdata(h, S) \subseteq {u \in All : IsWhite(h, u) /\ KindOf(u) = "udata"}
         /\ \A u \in S : u \in All /\ IsWhite(h, u) /\ KindOf(u) = "udata" => u \in Userdata(h, S)
         /\ \A u \in Userdata(h, S) : \A v \in Values(u) :
              IsWhite(h, v) /\ KindOf(v) = "udata" => v \in Userdata(h, S)
         /\ \A A \in SUBSET All :
              S \subseteq A /\ (\A u \in A \ NW(h) : Values(u) \subseteq A)
                => Userdata(h, S) \subseteq A
<1> DEFINE W == {u \in All : IsWhite(h, u) /\ KindOf(u) = "udata"}
           C == Userdata(h, S)
           Holds1(T) == W \cap S \subseteq T /\ \A t \in T : Values(t) \cap W \subseteq T
<1>1. C = {u \in W : \A T \in SUBSET W : Holds1(T) => u \in T}
  BY DEF Userdata
<1>2. C \subseteq W
  BY <1>1
<1>3. ASSUME NEW u \in S, u \in W PROVE u \in C
  BY <1>1, <1>3
<1>4. ASSUME NEW u \in C, NEW v \in Values(u), v \in W PROVE v \in C
  BY <1>1, <1>4
<1>5. ASSUME NEW A \in SUBSET All, S \subseteq A, \A u \in A \ NW(h) : Values(u) \subseteq A
      PROVE  C \subseteq A
  <2>1. W \cap A \subseteq A \ NW(h)
    BY DEF NW
  <2>2. Holds1(W \cap A)
    BY <1>5, <2>1
  <2> QED BY <1>1, <2>2
<1> HIDE DEF C
<1>6. \A u \in C : \A v \in Values(u) : v \in All
  BY <1>2, Constants
<1>7. \A u \in S : u \in All /\ IsWhite(h, u) /\ KindOf(u) = "udata" => u \in C
  BY <1>3
<1>8. \A u \in C : \A v \in Values(u) : IsWhite(h, v) /\ KindOf(v) = "udata" => v \in C
  BY <1>4, <1>6
<1> QED BY <1>2, <1>5, <1>7, <1>8 DEF C

\* reallymark marks S, what the userdata in it hold, and nothing twice.
LEMMA ReallymarkMarks ==
  ASSUME NEW h, Tidy(h), NEW S \in SUBSET All
  PROVE  Marked(h, reallymark(h, S), S)
<1> DEFINE C == Userdata(h, S)
           new == {o \in S \cup UNION {Values(u) : u \in C} : IsWhite(h, o)}
           mk == [o \in All |-> IF o \notin new THEN h.mark[o]
                                ELSE IF AtOnce(o) THEN "black" ELSE "gray"]
           late == {o \in new : ~AtOnce(o)}
           m == reallymark(h, S)
<1>1. h \in GState /\ \A o \in All : /\ Values(o) \subseteq Object
                                     /\ KindOf(o) = "string" => Values(o) = {}
  BY DEF Tidy
<1>2. /\ C \subseteq {u \in All : IsWhite(h, u) /\ KindOf(u) = "udata"}
      /\ \A u \in S : u \in All /\ IsWhite(h, u) /\ KindOf(u) = "udata" => u \in C
      /\ \A u \in C : \A v \in Values(u) : IsWhite(h, v) /\ KindOf(v) = "udata" => v \in C
      /\ \A A \in SUBSET All :
              S \subseteq A /\ (\A u \in A \ NW(h) : Values(u) \subseteq A) => C \subseteq A
  BY <1>1, ChainIs
<1>3. m = [h EXCEPT !.mark = mk, !.gray = @ \cup late]
  BY DEF reallymark
<1> HIDE DEF C
<1>4. new \subseteq All /\ late \subseteq All
  BY <1>1, <1>2, Constants
<1>5. mk \in Marks /\ h.mark \in Marks
  BY <1>1 DEF Marks, GState
<1> HIDE DEF new, mk, late, m
<1>6. m \in GState /\ m.mark = mk /\ m.gray = h.gray \cup late
  BY <1>1, <1>3, <1>4, <1>5 DEF GState, Marks
<1>7. SameLists(h, m) /\ SamePlace(h, m) /\ SameThreads(h, m) /\ SameGrays(h, m)
  BY <1>1, <1>3 DEF GState, SameLists, SamePlace, SameThreads, SameGrays
<1>8. \A o \in All : o \in new => o \notin NW(h)
  BY DEF NW, new
<1>9. NW(m) = NW(h) \cup new
  <2>1. \A o \in All : ~IsWhite(m, o) <=> ~IsWhite(h, o) \/ o \in new
    <3>1. \A o \in All : m.mark[o] = IF o \notin new THEN h.mark[o]
                                     ELSE IF AtOnce(o) THEN "black" ELSE "gray"
      BY <1>6 DEF mk
    <3>2. \A o \in new : IsWhite(h, o)
      BY DEF new
    <3> QED BY <3>1, <3>2 DEF IsWhite
  <2> QED BY <1>4, <2>1 DEF NW
<1>10. S \subseteq NW(m)
  BY <1>9 DEF new, NW
<1>11. \A o \in All : m.mark[o] = IF o \in NW(h) \/ o \notin NW(m) THEN h.mark[o]
                                 ELSE IF AtOnce(o) THEN "black" ELSE "gray"
  BY <1>6, <1>8, <1>9 DEF mk
<1>12. ASSUME NEW o \in NW(m) \ NW(h), AtOnce(o) PROVE Values(o) \subseteq NW(m)
  <2>1. o \in new /\ o \in All
    BY <1>4, <1>9
  <2>2. CASE KindOf(o) = "string"
    BY <1>1, <2>1, <2>2
  <2>3. CASE KindOf(o) = "udata"
    <3>1. o \in C
      BY <1>2, <2>1, <2>3 DEF new
    <3>2. \A v \in Values(o) : IsWhite(h, v) => v \in new
      BY <3>1 DEF new
    <3>3. \A v \in Values(o) : v \in All
      BY <1>1, <2>1, Constants
    <3> QED BY <1>9, <3>2, <3>3 DEF NW
  <2> QED BY <1>12, <2>2, <2>3 DEF AtOnce
<1>13. m.gray = h.gray \cup {o \in NW(m) \ NW(h) : ~AtOnce(o)}
  <2>1. late = {o \in NW(m) \ NW(h) : ~AtOnce(o)}
    BY <1>4, <1>8, <1>9 DEF late
  <2> QED BY <1>6, <2>1
<1>14. ASSUME NEW A \in SUBSET All, S \subseteq A, \A u \in A \ NW(h) : Values(u) \subseteq A
       PROVE  NW(m) \subseteq NW(h) \cup A
  <2>1. C \subseteq A
    BY <1>2, <1>14
  <2>2. \A u \in C : u \notin NW(h)
    BY <1>2 DEF NW
  <2>3. new \subseteq A
    BY <1>14, <2>1, <2>2 DEF new
  <2> QED BY <1>9, <2>3
<1>15. Marked(h, m, S)
  BY <1>6, <1>7, <1>9, <1>10, <1>11, <1>12, <1>13, <1>14 DEF Marked
<1> QED BY <1>15 DEF m

\* The operators of the invariant, of the present heap.
LEMMA Reading ==
  ASSUME NEW o
  PROVE  KindOf(o) = KindIn(kind, o) /\ Values(o) = Val(refs, o) /\ KeysOf(o) = Key(refs, o)
BY DEF KindOf, KindIn, Values, Val, KeysOf, Key

\* An object's kind is the one it was made with.
LEMMA KindInObject ==
  ASSUME NEW k, NEW o \in Object
  PROVE  KindIn(k, o) = k[o]
BY Constants DEF KindIn

\* What the types of the heap's parts say of what is read from them.
LEMMA TypeFacts ==
  ASSUME NEW k, NEW r, NEW op, NEW m, NEW h, Types(k, r, op, m, h)
  PROVE  /\ h \in GState /\ h.mark \in Marks
         /\ \A o \in All : Val(r, o) \subseteq Object /\ Key(r, o) \subseteq Object
         /\ Objs(h) \subseteq All
         /\ Range(h.finobj) \subseteq Object /\ Range(h.tobefnz) \subseteq Object
         /\ Range(h.allgc) \subseteq Object \cup {Registry}
         /\ \A c \in Object : op[c] \in Object \cup {Null}
         /\ NW(h) \subseteq All /\ h.twups \subseteq All /\ h.openupval \subseteq All
<1>1. h \in GState /\ r \in [All -> SUBSET ((Object \cup {Null}) \X Object)]
      /\ op \in [Object -> Object \cup {Null}]
  BY DEF Types
<1>2. h.mark \in Marks /\ h.twups \subseteq All /\ h.openupval \subseteq All
  BY <1>1 DEF GState, Marks
<1>3. /\ Range(h.finobj) \subseteq Object /\ Range(h.tobefnz) \subseteq Object
      /\ Range(h.allgc) \subseteq Object \cup {Registry}
  <2>1. h.finobj \in Seq(Object) /\ h.tobefnz \in Seq(Object)
        /\ h.allgc \in Seq(Object \cup {Registry})
    BY <1>1 DEF GState
  <2> QED BY <2>1, RangeOfSeq
<1>4. ASSUME NEW o \in All PROVE Val(r, o) \subseteq Object /\ Key(r, o) \subseteq Object
  <2>1. \A e \in r[o] : e[1] \in Object \cup {Null} /\ e[2] \in Object
    BY <1>1
  <2> QED BY <2>1 DEF Val, Key
<1>5. Objs(h) \subseteq All
  BY <1>3, Constants DEF Objs, Listed, All
<1> QED BY <1>1, <1>2, <1>3, <1>4, <1>5 DEF NW

\* A heap of the right shape is one that reallymark can be told about.
LEMMA CoreTidy ==
  ASSUME NEW h, Types(kind, refs, open, mode, h), Shape(kind, refs, open, h)
  PROVE  Tidy(h)
<1>1. \A o \in All : KindOf(o) = "string" => Values(o) = {}
  BY Reading DEF Shape, Val
<1> QED BY <1>1, TypeFacts, Reading DEF Tidy

\* Marking only what is there leaves the heap as it has to be, but for X.
LEMMA MarkedCore ==
  ASSUME NEW h, NEW m, NEW S, NEW X, Core(kind, refs, open, mode, h, X), Marking(h),
         S \subseteq Objs(h), Marked(h, m, S)
  PROVE  Core(kind, refs, open, mode, m, X)
<1> USE DEF Core
<1>1. /\ Objs(m) = Objs(h) /\ Marking(m) /\ (Early(m) <=> Early(h))
      /\ m.stage = h.stage /\ m.state = h.state
  BY DEF Marked, SameLists, SamePlace, Objs, Listed, Marking, Early
<1> DEFINE new == NW(m) \ NW(h)
<1>2. /\ h \in GState /\ h.mark \in Marks /\ m \in GState /\ m.mark \in Marks
      /\ \A o \in All : Values(o) \subseteq Object /\ KeysOf(o) \subseteq Object
      /\ Objs(h) \subseteq All /\ NW(m) \subseteq All /\ NW(h) \subseteq NW(m)
      /\ \A c \in Object : open[c] \in Object \cup {Null}
  BY TypeFacts, Reading DEF Marked, NW, GState, Marks
<1>3. Types(kind, refs, open, mode, m)
  BY DEF Types, Marked
<1>4. NW(m) \subseteq Objs(h)
  <2>1. Live(h) = Objs(h)
    BY DEF Whites
  <2>2. \A u \in Objs(h) : Values(u) \subseteq Objs(h)
    BY <2>1, Reading DEF Closed
  <2>3. NW(h) \subseteq Objs(h)
    BY DEF Shape, NW
  <2> QED BY <1>2, <2>2, <2>3 DEF Marked
<1>5. \A o \in All : o \in NW(h) \/ o \notin NW(m) => m.mark[o] = h.mark[o]
  BY DEF Marked
<1>6. \A o \in new : m.mark[o] = IF AtOnce(o) THEN "black" ELSE "gray"
  BY <1>2 DEF Marked
<1>7. Live(m) = Objs(m) /\ Live(m) = Live(h)
  <2>1. \A o \in Objs(h) : h.mark[o] # "other" /\ o \in All
    BY <1>2 DEF Whites, Live, isdead
  <2>2. \A o \in Objs(h) : m.mark[o] # "other"
    BY <1>5, <1>6, <2>1
  <2> QED BY <1>1, <2>1, <2>2 DEF Live, isdead
<1>8. Shape(kind, refs, open, m)
  BY <1>1, <1>4 DEF Shape, Marked, SameLists, SameThreads
<1>9. Closed(refs, open, m) /\ RootsLive(m) /\ Whites(m)
  BY <1>1, <1>7 DEF Closed, RootsLive, Marked, SameLists, SameThreads, Whites
<1>10. Threads(kind, m)
  <2>1. \A o \in new : Thread(kind, o) => ~AtOnce(o)
    BY Reading DEF Thread, AtOnce
  <2>2. \A o \in NW(m) : Thread(kind, o) => m.mark[o] = "gray"
    BY <1>1, <1>2, <1>5, <1>6, <2>1 DEF Threads
  <2> QED BY <1>1, <1>7, <2>2 DEF Threads, Marked, SameThreads
<1>11. \A o \in new : o \in m.gray \/ AtOnce(o)
  BY DEF Marked
<1>12. Pending(h) \subseteq Pending(m)
  BY <1>1 DEF Pending, Marked, SameGrays
<1>13. Coverage(kind, refs, open, m, X)
  <2> SUFFICES ASSUME NEW o \in NW(m) \ X, o \notin Pending(m)
               PROVE  Covered(kind, refs, open, m, o)
    BY <1>1 DEF Coverage
  <2>1. CASE o \in new
    <3>1. AtOnce(o) /\ Values(o) \subseteq NW(m)
      BY <1>11, <2>1 DEF Marked, Pending
    <3>2. KindIn(kind, o) \in {"string", "udata"}
      BY <3>1, Reading DEF AtOnce
    <3>3. Val(refs, o) \cup Key(refs, o) \subseteq NW(m)
      BY <1>2, <3>1, <3>2, Reading DEF Shape
    <3>4. o \in Object => open[o] = Null
      BY <3>2 DEF Shape, KindIn
    <3> QED BY <3>3, <3>4 DEF Covered
  <2>2. CASE o \in NW(h)
    <3>1. Covered(kind, refs, open, h, o)
      BY <1>1, <1>12, <2>2 DEF Coverage
    <3>2. \/ Val(refs, o) \cup Key(refs, o) \subseteq NW(m)
          \/ /\ KindIn(kind, o) = "table"
             /\ \/ o \in m.weak /\ Key(refs, o) \subseteq NW(m)
                \/ o \in m.allweak \cup m.ephemeron \cup m.next
      BY <1>2, <3>1 DEF Covered, Marked, SameGrays
    <3>3. o \in Object /\ open[o] # Null =>
            IF Early(m) THEN open[o] \in m.touched
            ELSE open[o] \in NW(m) \/ Val(refs, open[o]) \subseteq NW(m)
      BY <1>1, <1>2, <3>1 DEF Covered, Marked, SameThreads
    <3> QED BY <3>2, <3>3 DEF Covered
  <2> QED BY <2>1, <2>2
<1>14. Grays(kind, m)
  <2>1. GrayLists(h) \subseteq NW(h) /\ GrayLists(m) \subseteq NW(m)
    BY <1>1 DEF Grays, Marked, SameGrays, GrayLists
  <2>2. \A o \in m.gray \cup m.grayagain \cup m.saved : KindIn(kind, o) \notin {"string", "udata"}
    BY <1>1, Reading DEF Grays, Marked, SameGrays, AtOnce
  <2>3. \A o \in m.allweak \cup m.ephemeron \cup m.next : KindIn(kind, o) = "table"
    BY <1>1 DEF Grays, Marked, SameGrays
  <2>4. Early(m) => \A o \in NW(m) : Thread(kind, o) => o \in m.gray \cup m.grayagain
    <3>1. \A o \in new : Thread(kind, o) => ~AtOnce(o)
      BY Reading DEF Thread, AtOnce
    <3> QED BY <1>1, <1>11, <3>1 DEF Grays, Marked, SameGrays
  <2>5. m.stage \notin Converging => m.next = {}
    BY <1>1 DEF Grays, Marked, SameGrays
  <2> QED BY <2>1, <2>2, <2>3, <2>4, <2>5 DEF Grays
<1>15. Lists(m, X)
  <2> SUFFICES ASSUME m.stage = "none"
               PROVE  /\ m.weak = {} /\ m.ephemeron = {}
                      /\ m.gray \cap m.grayagain = {}
                      /\ (m.gray \cup m.grayagain) \cap m.allweak = {}
                      /\ \A o \in NW(m) \ X :
                           m.mark[o] = "gray" <=> o \in m.gray \cup m.grayagain \cup m.allweak
    BY DEF Lists
  <2>1. /\ h.weak = {} /\ h.ephemeron = {} /\ h.gray \cap h.grayagain = {}
        /\ (h.gray \cup h.grayagain) \cap h.allweak = {}
        /\ \A o \in NW(h) \ X :
             h.mark[o] = "gray" <=> o \in h.gray \cup h.grayagain \cup h.allweak
    BY <1>1 DEF Lists
  <2>2. h.gray \cup h.grayagain \cup h.allweak \subseteq NW(h)
    BY <1>1 DEF Grays, GrayLists
  <2>3. /\ m.weak = h.weak /\ m.ephemeron = h.ephemeron /\ m.grayagain = h.grayagain
        /\ m.allweak = h.allweak /\ m.gray = h.gray \cup {o \in new : ~AtOnce(o)}
    BY DEF Marked, SameGrays
  <2> HIDE DEF new
  <2>4. new \cap NW(h) = {} /\ NW(m) = NW(h) \cup new
    BY <1>2 DEF new
  <2>5. ASSUME NEW o \in NW(m) \ X
        PROVE  m.mark[o] = "gray" <=> o \in m.gray \cup m.grayagain \cup m.allweak
    <3>1. CASE o \in new
      BY <1>6, <2>2, <2>3, <2>4, <3>1
    <3>2. CASE o \notin new
      <4>1. o \in NW(h) /\ m.mark[o] = h.mark[o]
        BY <1>2, <1>5, <2>4, <2>5, <3>2
      <4> QED BY <2>1, <2>3, <3>2, <4>1
    <3> QED BY <3>1, <3>2
  <2> QED BY <2>1, <2>2, <2>3, <2>4, <2>5
<1> QED BY <1>3, <1>8, <1>9, <1>10, <1>13, <1>14, <1>15

\* Marking more takes the collector nowhere else.
LEMMA MarkedRest ==
  ASSUME NEW h, NEW m, NEW S, NEW X, Core(kind, refs, open, mode, h, X), Marking(h),
         Marked(h, m, S), Rest(refs, h, X)
  PROVE  Rest(refs, m, X)
<1>1. /\ SameLists(h, m) /\ SamePlace(h, m) /\ SameThreads(h, m) /\ SameGrays(h, m)
      /\ NW(h) \subseteq NW(m) /\ m.gray = h.gray \cup {o \in NW(m) \ NW(h) : ~AtOnce(o)}
  BY DEF Marked
<1>2. Phase(m)
  <2>1. \A name : ListOf(m, name) = ListOf(h, name)
    BY <1>1 DEF ListOf, SameLists
  <2> QED BY <1>1, <2>1 DEF Rest, Phase, SamePlace
<1>3. RootsMarked(m)
  BY <1>1 DEF Rest, RootsMarked, Marking, SameLists, SamePlace
<1>4. Atomic(m, X)
  <2> SUFFICES ASSUME h.state = "inside" PROVE Atomic(m, X)
    BY <1>1 DEF Atomic, SamePlace
  <2>1. Pending(h) \subseteq Pending(m)
    BY <1>1 DEF Pending, Early, SamePlace, SameGrays
  <2>2. \A o \in h.openupval : ~AtOnce(o)
    BY Reading DEF Core, Shape, AtOnce
  <2>3. m.openupval \cap NW(m) \subseteq m.twups \cup Pending(m) \cup X
    <3>1. m.gray \subseteq Pending(m)
      BY DEF Pending
    <3> QED BY <1>1, <2>1, <2>2, <3>1 DEF Rest, Atomic, SameThreads
  <2>4. m.twups \subseteq NW(m)
    BY <1>1 DEF Rest, Atomic, SameThreads
  <2> QED BY <2>3, <2>4 DEF Atomic
<1>5. Resurrected(refs, m)
  BY <1>1 DEF Rest, Resurrected, SameLists, SamePlace, SameGrays
<1> QED BY <1>2, <1>3, <1>4, <1>5 DEF Rest

\* The two together: reallymark keeps what a step of marking needs.
LEMMA Mark ==
  ASSUME NEW h, NEW S, NEW X, Core(kind, refs, open, mode, h, X), Marking(h),
         Rest(refs, h, X), S \subseteq Objs(h)
  PROVE  /\ Core(kind, refs, open, mode, reallymark(h, S), X)
         /\ Rest(refs, reallymark(h, S), X) /\ Marking(reallymark(h, S))
         /\ Marked(h, reallymark(h, S), S)
<1>1. S \in SUBSET All
  BY TypeFacts DEF Core
<1>2. Marked(h, reallymark(h, S), S)
  BY <1>1, CoreTidy, ReallymarkMarks DEF Core
<1> QED BY <1>2, MarkedCore, MarkedRest DEF Marked, SamePlace, Marking

-----------------------------------------------------------------------------
(* Visiting: what propagatemark does to an object o. *)

\* o is put in some of the lists.
Noted(m, p, o) ==
  /\ p \in GState /\ SameLists(m, p) /\ SamePlace(m, p)
  /\ p.mark = m.mark /\ p.gray = m.gray /\ p.openupval = m.openupval /\ p.next = m.next
  /\ p.saved = m.saved /\ p.changed = m.changed
  /\ p.origweak = m.origweak /\ p.origall = m.origall
  /\ m.touched \subseteq p.touched
  /\ m.grayagain \subseteq p.grayagain /\ p.grayagain \subseteq m.grayagain \cup {o}
  /\ m.weak \subseteq p.weak /\ p.weak \subseteq m.weak \cup {o}
  /\ m.allweak \subseteq p.allweak /\ p.allweak \subseteq m.allweak \cup {o}
  /\ m.ephemeron \subseteq p.ephemeron /\ p.ephemeron \subseteq m.ephemeron \cup {o}
  /\ m.twups \subseteq p.twups /\ p.twups \subseteq m.twups \cup {o}

\* A visit that ends with o covered or pending, and with its mark as its list has it.
Settles(p, o) ==
  /\ o \in Pending(p) \/ Covered(kind, refs, open, p, o)
  /\ p.stage = "none" =>
       /\ o \notin p.weak \cup p.ephemeron \cup p.gray
       /\ ~ (o \in p.grayagain /\ o \in p.allweak)
       /\ p.mark[o] = "gray" <=> o \in p.grayagain \cup p.allweak
  /\ p.state = "inside" /\ o \in p.openupval => o \in p.twups

\* A visit ends when o is covered or in a list that will be visited again: then
\* nothing is left out of the coverage.
LEMMA VisitEnds ==
  ASSUME NEW m, NEW p, NEW o \in NW(m), Core(kind, refs, open, mode, m, {o}),
         Rest(refs, m, {o}), Marking(m), Noted(m, p, o), Settles(p, o),
         KindOf(o) = "table" \/ (/\ p.weak = m.weak /\ p.allweak = m.allweak
                                 /\ p.ephemeron = m.ephemeron /\ p.grayagain = m.grayagain)
  PROVE  Core(kind, refs, open, mode, p, {}) /\ Rest(refs, p, {}) /\ Marking(p)
<1> USE DEF Core
<1>1. /\ p.mark = m.mark /\ p.gray = m.gray /\ p.openupval = m.openupval /\ p.next = m.next
      /\ p.saved = m.saved /\ p.origweak = m.origweak /\ p.origall = m.origall
      /\ p.state = m.state /\ p.stage = m.stage /\ p.sweepgc = m.sweepgc
      /\ p.allgc = m.allgc /\ p.finobj = m.finobj /\ p.tobefnz = m.tobefnz
  BY DEF Noted, SameLists, SamePlace
<1>2. /\ NW(p) = NW(m) /\ Objs(p) = Objs(m) /\ Marking(p) /\ (Early(p) <=> Early(m))
  BY <1>1 DEF NW, IsWhite, Objs, Listed, Marking, Early
<1>3. Live(p) = Live(m)
  BY <1>1, <1>2 DEF Live, isdead
<1>4. Types(kind, refs, open, mode, p) /\ Shape(kind, refs, open, p)
  BY <1>1, <1>2 DEF Types, Shape, Noted
<1>5. o \in Live(m) /\ NW(m) \subseteq Objs(m)
  BY DEF Shape, NW, Whites
<1>6. Closed(refs, open, p) /\ RootsLive(p) /\ Whites(p)
  BY <1>1, <1>2, <1>3, <1>5 DEF Closed, RootsLive, Noted, Whites
<1>7. Threads(kind, p)
  BY <1>1, <1>2, <1>3 DEF Threads, Noted
<1>8. Coverage(kind, refs, open, p, {})
  <2> SUFFICES ASSUME NEW x \in NW(p), x \notin Pending(p)
               PROVE  Covered(kind, refs, open, p, x)
    BY DEF Coverage
  <2>1. CASE x = o
    BY <2>1 DEF Settles
  <2>2. CASE x # o
    <3>1. x \notin Pending(m)
      BY <1>1, <1>2 DEF Pending, Noted
    <3>2. Covered(kind, refs, open, m, x)
      BY <1>2, <2>2, <3>1 DEF Coverage
    <3>3. p.next = m.next /\ m.weak \subseteq p.weak /\ m.allweak \subseteq p.allweak
          /\ m.ephemeron \subseteq p.ephemeron /\ m.touched \subseteq p.touched
      BY DEF Noted
    <3> QED BY <1>2, <3>2, <3>3 DEF Covered
  <2> QED BY <2>1, <2>2
<1>9. Grays(kind, p)
  <2>1. \A q \in All : KindIn(kind, q) = "table" => ~Thread(kind, q)
    BY DEF Thread
  <2> QED BY <1>1, <1>2, <2>1, Reading DEF Grays, GrayLists, Noted
<1>10. Lists(p, {})
  <2> SUFFICES ASSUME m.stage = "none" PROVE Lists(p, {})
    BY <1>1 DEF Lists
  <2>1. ASSUME NEW x \in NW(p)
        PROVE  p.mark[x] = "gray" <=> x \in p.gray \cup p.grayagain \cup p.allweak
    <3>1. CASE x = o
      BY <1>1, <3>1 DEF Settles
    <3>2. CASE x # o
      BY <1>1, <1>2, <3>2 DEF Lists, Noted
    <3> QED BY <3>1, <3>2
  <2>2. p.weak = {} /\ p.ephemeron = {}
    BY <1>1, <1>2 DEF Lists, Noted, Settles
  <2>3. p.gray \cap p.grayagain = {} /\ (p.gray \cup p.grayagain) \cap p.allweak = {}
    BY <1>1, <1>2 DEF Lists, Noted, Settles
  <2> QED BY <2>1, <2>2, <2>3 DEF Lists
<1>11. Phase(p)
  <2>1. \A name : ListOf(p, name) = ListOf(m, name)
    BY <1>1 DEF ListOf
  <2> QED BY <1>1, <2>1 DEF Rest, Phase
<1>12. RootsMarked(p) /\ Resurrected(refs, p)
  BY <1>1, <1>2 DEF Rest, RootsMarked, Resurrected
<1>13. Atomic(p, {})
  <2> SUFFICES ASSUME p.state = "inside" PROVE Atomic(p, {})
    BY DEF Atomic
  <2>1. Pending(p) = Pending(m)
    BY <1>1, <1>2 DEF Pending, Early
  <2>2. m.twups \subseteq NW(m) /\ m.openupval \cap NW(m) \subseteq m.twups \cup Pending(m) \cup {o}
    BY <1>1 DEF Rest, Atomic
  <2> QED BY <1>1, <1>2, <2>1, <2>2 DEF Atomic, Noted, Settles
<1> QED BY <1>2, <1>4, <1>6, <1>7, <1>8, <1>9, <1>10, <1>11, <1>12, <1>13 DEF Rest

\* o is just being visited.
Visiting(h, o) ==
  /\ Core(kind, refs, open, mode, h, {o}) /\ Rest(refs, h, {o}) /\ Marking(h)
  /\ o \in NW(h) \ h.gray
  /\ h.stage = "none" => /\ h.state = "propagate"
                         /\ o \notin h.weak \cup h.ephemeron \cup h.allweak
                         /\ o \in h.grayagain => Thread(kind, o)

\* o has been visited.
Visited(h, p) ==
  /\ Core(kind, refs, open, mode, p, {}) /\ Rest(refs, p, {}) /\ Marking(p)
  /\ SamePlace(h, p) /\ SameLists(h, p) /\ NW(h) \subseteq NW(p)
  /\ p.openupval = h.openupval /\ p.changed = h.changed /\ p.next = h.next

\* What a visit marks, and what it may look at.
LEMMA VisitMarks ==
  ASSUME NEW h, NEW o, NEW S, Visiting(h, o),
         S \subseteq Values(o) \cup KeysOf(o) \/ (S \subseteq Upvalue(o) /\ o \in Object),
         NEW m, m = reallymark(h, S)
  PROVE  /\ Core(kind, refs, open, mode, m, {o}) /\ Rest(refs, m, {o}) /\ Marking(m)
         /\ Marked(h, m, S) /\ m \in GState
         /\ o \in NW(m) /\ o \notin m.gray
<1>1. NW(h) \subseteq Live(h) /\ Live(h) = Objs(h)
  BY DEF Visiting, Core, Whites, Shape, NW
<1>2. Values(o) \cup KeysOf(o) \subseteq Objs(h)
  BY <1>1, Reading DEF Visiting, Core, Closed
<1>3. o \in Object => Upvalue(o) \subseteq Objs(h)
  <2>1. o \in Live(h)
    BY <1>1 DEF Visiting
  <2> SUFFICES ASSUME o \in Object, open[o] # Null PROVE Values(open[o]) \subseteq Objs(h)
    BY <1>2 DEF Upvalue
  <2> QED BY <1>1, <2>1, Reading DEF Visiting, Core, Closed
<1>4. S \subseteq Objs(h)
  BY <1>2, <1>3
<1>5. /\ Core(kind, refs, open, mode, m, {o}) /\ Rest(refs, m, {o}) /\ Marking(m)
      /\ Marked(h, m, S)
  BY <1>4, Mark DEF Visiting
<1>6. o \in NW(h) /\ o \in All /\ o \notin h.gray
  BY DEF Visiting, NW
<1>7. m \in GState /\ o \in NW(m) /\ o \notin m.gray
  BY <1>5, <1>6 DEF Marked
<1> QED BY <1>5, <1>7

\* All that o refers to is marked.
LEMMA VisitStrong ==
  ASSUME NEW h, NEW o, Visiting(h, o), h.mark[o] = "black",
         KindOf(o) = "table" \/ (KindOf(o) = "closure" /\ (open[o] = Null \/ h.state = "inside")),
         NEW S, S = IF KindOf(o) = "table" THEN KeysOf(o) \cup Values(o) ELSE Upvalue(o),
         NEW p, p = reallymark(h, S)
  PROVE  Visited(h, p)
<1>2. KindOf(o) # "table" => o \in Object
  <2>1. o \in All
    BY DEF Visiting, NW
  <2> QED BY <2>1 DEF KindOf, All
<1>3. S \subseteq Values(o) \cup KeysOf(o) \/ (S \subseteq Upvalue(o) /\ o \in Object)
  <2>1. CASE KindOf(o) = "table"
    BY <2>1
  <2>2. CASE KindOf(o) # "table"
    <3>1. S = Upvalue(o) /\ o \in Object
      BY <1>2, <2>2
    <3> QED BY <3>1
  <2> QED BY <2>1, <2>2
<1>4. /\ Core(kind, refs, open, mode, p, {o}) /\ Rest(refs, p, {o}) /\ Marking(p)
      /\ Marked(h, p, S) /\ p \in GState /\ o \in NW(p) /\ o \notin p.gray
      /\ p.mark[o] = "black"
  <2>1. /\ Core(kind, refs, open, mode, p, {o}) /\ Rest(refs, p, {o}) /\ Marking(p)
        /\ Marked(h, p, S) /\ p \in GState /\ o \in NW(p) /\ o \notin p.gray
    BY <1>3, VisitMarks
  <2>2. o \in NW(h) /\ o \in All
    BY DEF Visiting, NW
  <2>3. p.mark[o] = h.mark[o]
    BY <2>1, <2>2 DEF Marked
  <2> QED BY <2>1, <2>3
<1>5. SameLists(h, p) /\ SamePlace(h, p) /\ SameThreads(h, p) /\ SameGrays(h, p)
      /\ S \subseteq NW(p) /\ NW(h) \subseteq NW(p)
  BY <1>4 DEF Marked
<1>6. Noted(p, p, o)
  BY <1>4 DEF Noted, SameLists, SamePlace
<1>7. Covered(kind, refs, open, p, o)
  <2>1. CASE KindOf(o) = "table"
    <3>1. Val(refs, o) \cup Key(refs, o) \subseteq NW(p)
      BY <1>5, <2>1, Reading
    <3>2. o \in Object => open[o] = Null
      BY <2>1, Reading, KindInObject DEF Visiting, Core, Shape
    <3> QED BY <3>1, <3>2 DEF Covered
  <2>2. CASE KindOf(o) = "closure"
    <3>1. o \in Object /\ KeysOf(o) = {}
      BY <1>2, <2>2, Reading, Constants DEF Visiting, Core, Shape
    <3>2. CASE open[o] = Null
      <4>1. Val(refs, o) \cup Key(refs, o) \subseteq NW(p)
        BY <1>5, <2>2, <3>1, <3>2, Reading DEF Upvalue
      <4> QED BY <3>2, <4>1 DEF Covered
    <3>3. CASE open[o] # Null
      <4>1. Val(refs, o) = {}
        BY <3>1, <3>3 DEF Visiting, Core, Shape, Val
      <4>2. Val(refs, open[o]) \subseteq NW(p)
        BY <1>5, <2>2, <3>3, Reading DEF Upvalue
      <4>3. ~Early(p)
        BY <1>5, <2>2, <3>3 DEF SamePlace, Early
      <4> QED BY <3>1, <4>1, <4>2, <4>3, Reading DEF Covered
    <3> QED BY <3>2, <3>3
  <2> QED BY <2>1, <2>2
<1>8. Settles(p, o)
  <2>1. p.stage = "none" =>
          o \notin p.weak \cup p.ephemeron \cup p.gray \cup p.grayagain \cup p.allweak
    <3>1. ~Thread(kind, o)
      BY Reading DEF Thread
    <3> QED BY <1>4, <1>5, <3>1 DEF Visiting, SameGrays, SamePlace
  <2>2. o \notin p.openupval
    BY <1>4, Reading DEF Core, Shape
  <2> QED BY <1>4, <1>7, <2>1, <2>2 DEF Settles
<1>9. Core(kind, refs, open, mode, p, {}) /\ Rest(refs, p, {}) /\ Marking(p)
  BY <1>4, <1>6, <1>8, VisitEnds
<1> QED BY <1>5, <1>9 DEF Visited, SameThreads, SameGrays

\* A visit of a table marks some of its contents, and puts it in a list.
LEMMA VisitTable ==
  ASSUME NEW h, NEW t, Visiting(h, t), KindOf(t) = "table",
         NEW S, S \subseteq Values(t) \cup KeysOf(t), NEW m, m = reallymark(h, S),
         NEW p, Noted(m, p, t), Settles(p, t)
  PROVE  Visited(h, p)
<1>1. /\ Core(kind, refs, open, mode, m, {t}) /\ Rest(refs, m, {t}) /\ Marking(m)
      /\ Marked(h, m, S) /\ t \in NW(m)
  BY VisitMarks
<1>2. Core(kind, refs, open, mode, p, {}) /\ Rest(refs, p, {}) /\ Marking(p)
  BY <1>1, VisitEnds
<1>3. /\ SameLists(h, m) /\ SamePlace(h, m) /\ SameThreads(h, m) /\ SameGrays(h, m)
      /\ NW(h) \subseteq NW(m)
  BY <1>1 DEF Marked
<1>4. NW(p) = NW(m)
  BY DEF Noted, NW, IsWhite
<1>5. SamePlace(h, p) /\ SameLists(h, p)
  BY <1>3 DEF Noted, SamePlace, SameLists
<1>6. p.openupval = h.openupval /\ p.changed = h.changed /\ p.next = h.next
  BY <1>3 DEF Noted, SameThreads, SameGrays
<1> QED BY <1>2, <1>3, <1>4, <1>5, <1>6 DEF Visited

\* What holds of a table that is just being visited.
LEMMA TableIsNoThread ==
  ASSUME NEW h, NEW t, Visiting(h, t), KindOf(t) = "table"
  PROVE  /\ ~Thread(kind, t) /\ t \notin h.openupval
         /\ t \in Object => open[t] = Null
         /\ t \in All /\ t \in NW(h) /\ t \notin h.gray
         /\ h.state = "propagate" <=> h.stage = "none"
         /\ h.state # "propagate" => h.stage # "none"
         /\ h.stage = "none" => t \notin h.grayagain \cup h.weak \cup h.ephemeron \cup h.allweak
<1>1. ~Thread(kind, t)
  BY Reading DEF Thread
<1>2. t \notin h.openupval
  BY Reading DEF Visiting, Core, Shape
<1>3. t \in Object => open[t] = Null
  BY Reading, KindInObject DEF Visiting, Core, Shape
<1>4. h.state = "propagate" <=> h.stage = "none"
  BY DEF Visiting, Rest, Phase
<1> QED BY <1>1, <1>2, <1>3, <1>4 DEF Visiting, NW

\* The list t is put in, and why it may be there.
LEMMA ListsTable ==
  ASSUME NEW h, NEW t, Visiting(h, t), KindOf(t) = "table",
         NEW S, NEW m, Marked(h, m, S), h.stage = "none" => h.mark[t] = "gray",
         NEW p, \/ h.state = "propagate" /\ p = [m EXCEPT !.grayagain = @ \cup {t}]
                \/ /\ h.state # "propagate" /\ Key(refs, t) \subseteq NW(m)
                   /\ p = [m EXCEPT !.weak = @ \cup {t}]
                \/ h.state # "propagate" /\ p = [m EXCEPT !.ephemeron = @ \cup {t}]
                \/ p = [m EXCEPT !.allweak = @ \cup {t}]
                \/ /\ h.state # "propagate" /\ Val(refs, t) \cup Key(refs, t) \subseteq NW(m)
                   /\ p = m
  PROVE  Noted(m, p, t) /\ Settles(p, t)
<1>1. /\ m \in GState /\ SameThreads(h, m) /\ SamePlace(h, m) /\ SameGrays(h, m)
      /\ m.gray = h.gray \cup {o \in NW(m) \ NW(h) : ~AtOnce(o)}
  BY DEF Marked
<1>2. /\ ~Thread(kind, t) /\ t \notin h.openupval
      /\ t \in Object => open[t] = Null
      /\ t \in All /\ t \in NW(h) /\ t \notin h.gray
      /\ h.state # "propagate" => h.stage # "none"
      /\ h.stage = "none" => t \notin h.grayagain \cup h.weak \cup h.ephemeron \cup h.allweak
      /\ h.state = "propagate" <=> h.stage = "none"
  BY TableIsNoThread
<1>3. t \notin m.gray /\ t \notin m.openupval
  BY <1>1, <1>2 DEF SameThreads
<1>4. /\ m.state = h.state /\ m.stage = h.stage
      /\ m.stage = "none" => t \notin m.grayagain \cup m.weak \cup m.ephemeron \cup m.allweak
  BY <1>1, <1>2 DEF SamePlace, SameGrays
<1>5. m.stage = "none" => m.mark[t] = "gray"
  BY <1>2, <1>4 DEF Marked
<1>6. /\ p \in GState /\ NW(p) = NW(m) /\ p.openupval = m.openupval /\ p.gray = m.gray
      /\ p.state = m.state /\ p.stage = m.stage /\ p.mark = m.mark
      /\ p.grayagain = m.grayagain \/ p.grayagain = m.grayagain \cup {t}
      /\ p.allweak = m.allweak \/ p.allweak = m.allweak \cup {t}
      /\ p.ephemeron = m.ephemeron \/ p.ephemeron = m.ephemeron \cup {t}
  <2>1. p \in GState /\ p.openupval = m.openupval /\ p.gray = m.gray
        /\ p.state = m.state /\ p.stage = m.stage /\ p.mark = m.mark
    <3>1. m.grayagain \cup {t} \in SUBSET All /\ m.weak \cup {t} \in SUBSET All
          /\ m.ephemeron \cup {t} \in SUBSET All /\ m.allweak \cup {t} \in SUBSET All
      BY <1>1, <1>2 DEF GState
    <3>2. CASE p = [m EXCEPT !.grayagain = @ \cup {t}]
      BY <1>1, <3>1, <3>2 DEF GState
    <3>3. CASE p = [m EXCEPT !.weak = @ \cup {t}]
      BY <1>1, <3>1, <3>3 DEF GState
    <3>4. CASE p = [m EXCEPT !.ephemeron = @ \cup {t}]
      BY <1>1, <3>1, <3>4 DEF GState
    <3>5. CASE p = [m EXCEPT !.allweak = @ \cup {t}]
      BY <1>1, <3>1, <3>5 DEF GState
    <3>6. CASE p = m
      BY <1>1, <3>6
    <3> QED BY <3>2, <3>3, <3>4, <3>5, <3>6
  <2>2. /\ p.grayagain = m.grayagain \/ p.grayagain = m.grayagain \cup {t}
        /\ p.allweak = m.allweak \/ p.allweak = m.allweak \cup {t}
        /\ p.ephemeron = m.ephemeron \/ p.ephemeron = m.ephemeron \cup {t}
    BY <1>1, <1>2 DEF GState
  <2> QED BY <2>1, <2>2 DEF NW, IsWhite
<1>7. Noted(m, p, t)
  <2>1. p.touched = m.touched /\ p.twups = m.twups /\ p.next = m.next /\ p.saved = m.saved
        /\ p.changed = m.changed /\ p.origweak = m.origweak /\ p.origall = m.origall
    BY <1>1 DEF GState
  <2>2. p.weak = m.weak \/ p.weak = m.weak \cup {t}
    BY <1>1 DEF GState
  <2>3. SameLists(m, p) /\ SamePlace(m, p)
    BY <1>1 DEF GState, SameLists, SamePlace
  <2> QED BY <1>6, <2>1, <2>2, <2>3 DEF Noted
<1>8. KindIn(kind, t) = "table"
  BY Reading
<1>9. t \in Pending(p) \/ Covered(kind, refs, open, p, t)
  <2>1. CASE h.state = "propagate" /\ p = [m EXCEPT !.grayagain = @ \cup {t}]
    <3>1. t \in p.grayagain /\ Early(p)
      BY <1>1, <1>4, <1>6, <2>1 DEF GState, Early
    <3> QED BY <3>1 DEF Pending
  <2>2. CASE Key(refs, t) \subseteq NW(m) /\ p = [m EXCEPT !.weak = @ \cup {t}]
    <3>1. t \in p.weak
      BY <1>1, <2>2 DEF GState
    <3> QED BY <1>2, <1>6, <1>8, <2>2, <3>1 DEF Covered
  <2>3. CASE p = [m EXCEPT !.ephemeron = @ \cup {t}]
    <3>1. t \in p.ephemeron
      BY <1>1, <2>3 DEF GState
    <3> QED BY <1>2, <1>8, <3>1 DEF Covered
  <2>4. CASE p = [m EXCEPT !.allweak = @ \cup {t}]
    <3>1. t \in p.allweak
      BY <1>1, <2>4 DEF GState
    <3> QED BY <1>2, <1>8, <3>1 DEF Covered
  <2>5. CASE Val(refs, t) \cup Key(refs, t) \subseteq NW(m) /\ p = m
    BY <1>2, <2>5 DEF Covered
  <2> QED BY <2>1, <2>2, <2>3, <2>4, <2>5
<1>10. p.stage = "none" =>
         /\ t \notin p.weak \cup p.ephemeron \cup p.gray
         /\ ~ (t \in p.grayagain /\ t \in p.allweak)
         /\ p.mark[t] = "gray" <=> t \in p.grayagain \cup p.allweak
  <2> SUFFICES ASSUME h.stage = "none"
               PROVE  /\ t \notin p.weak \cup p.ephemeron \cup p.gray
                      /\ ~ (t \in p.grayagain /\ t \in p.allweak)
                      /\ t \in p.grayagain \cup p.allweak
    BY <1>4, <1>5, <1>6
  <2>1. h.state = "propagate" /\ t \notin m.grayagain \cup m.weak \cup m.ephemeron \cup m.allweak
    BY <1>2, <1>4
  <2>2. CASE p = [m EXCEPT !.grayagain = @ \cup {t}]
    BY <1>1, <1>3, <2>1, <2>2 DEF GState
  <2>3. CASE p = [m EXCEPT !.allweak = @ \cup {t}]
    BY <1>1, <1>3, <2>1, <2>3 DEF GState
  <2> QED BY <2>1, <2>2, <2>3
<1>11. Settles(p, t)
  BY <1>3, <1>6, <1>9, <1>10 DEF Settles
<1> QED BY <1>7, <1>11

\* A table with weak values is left in grayagain, in weak, or nowhere.
LEMMA VisitWeakValue ==
  ASSUME NEW h, NEW t, Visiting(h, t), KindOf(t) = "table", h.mark[t] = "gray"
  PROVE  Visited(h, traverseweakvalue(h, t))
<1> DEFINE S == KeysOf(t) \cup StringsIn(Values(t))
           m == reallymark(h, S)
           p == traverseweakvalue(h, t)
<1>1. S \subseteq Values(t) \cup KeysOf(t)
  BY DEF StringsIn
<1>2. p = IF h.state = "propagate" THEN [m EXCEPT !.grayagain = @ \cup {t}]
          ELSE IF \E v \in Values(t) : Cleared(m, v) THEN [m EXCEPT !.weak = @ \cup {t}]
          ELSE m
  BY DEF traverseweakvalue
<1> HIDE DEF p, m, S
<1>3. Marked(h, m, S)
  <2> SUFFICES \A q : q = reallymark(h, S) => Marked(h, q, S)
    BY DEF m
  <2> QED BY <1>1, VisitMarks
<1>4. KeysOf(t) \subseteq NW(m) /\ StringsIn(Values(t)) \subseteq NW(m)
  BY <1>3 DEF Marked, S
<1>5. (\A v \in Values(t) : ~Cleared(m, v)) => Values(t) \subseteq NW(m)
  <2>1. Values(t) \subseteq Object
    BY TableIsNoThread, TypeFacts, Reading DEF Visiting, Core
  <2> QED BY <1>4, <2>1, Constants DEF Cleared, NW, StringsIn, All
<1>6. Noted(m, p, t) /\ Settles(p, t)
  <2>1. \/ h.state = "propagate" /\ p = [m EXCEPT !.grayagain = @ \cup {t}]
        \/ /\ h.state # "propagate" /\ Key(refs, t) \subseteq NW(m)
           /\ p = [m EXCEPT !.weak = @ \cup {t}]
        \/ /\ h.state # "propagate" /\ Val(refs, t) \cup Key(refs, t) \subseteq NW(m)
           /\ p = m
    BY <1>2, <1>4, <1>5, Reading
  <2> QED BY <1>3, <2>1, ListsTable
<1>7. Visited(h, p)
  BY <1>1, <1>6, VisitTable DEF m
<1> QED BY <1>7 DEF p

\* An ephemeron is left in grayagain, ephemeron, allweak, or nowhere.
LEMMA VisitEphemeron ==
  ASSUME NEW h, NEW t, Visiting(h, t), KindOf(t) = "table",
         h.stage = "none" => h.mark[t] = "gray"
  PROVE  /\ Visited(h, traverseephemeron(h, t))
         /\ LET S == StringsIn(KeysOf(t)) \cup EphemeronValues(h, t)
            IN  /\ Marked(h, reallymark(h, S), S) /\ S \subseteq Values(t) \cup KeysOf(t)
                /\ Noted(reallymark(h, S), traverseephemeron(h, t), t)
<1> DEFINE S == StringsIn(KeysOf(t)) \cup EphemeronValues(h, t)
           m == reallymark(h, S)
           p == traverseephemeron(h, t)
           weakly == {e \in refs[t] : Cleared(h, e[1])}
<1>1. S \subseteq Values(t) \cup KeysOf(t)
  BY DEF StringsIn, EphemeronValues, Values
<1>2. p = IF h.state = "propagate" THEN [m EXCEPT !.grayagain = @ \cup {t}]
          ELSE IF \E e \in weakly : IsWhite(h, e[2]) THEN [m EXCEPT !.ephemeron = @ \cup {t}]
          ELSE IF weakly # {} THEN [m EXCEPT !.allweak = @ \cup {t}]
          ELSE m
  BY DEF traverseephemeron
<1> HIDE DEF p, m, S
<1>3. Marked(h, m, S)
  <2> SUFFICES \A q : q = reallymark(h, S) => Marked(h, q, S)
    BY DEF m
  <2> QED BY <1>1, VisitMarks
<1>4. /\ StringsIn(KeysOf(t)) \subseteq NW(m) /\ EphemeronValues(h, t) \subseteq NW(m)
      /\ NW(h) \subseteq NW(m)
  BY <1>3 DEF Marked, S
<1>5. weakly = {} => Values(t) \cup KeysOf(t) \subseteq NW(m)
  <2> SUFFICES ASSUME weakly = {} PROVE Values(t) \cup KeysOf(t) \subseteq NW(m)
    OBVIOUS
  <2>1. \A e \in refs[t] : ~Cleared(h, e[1])
    OBVIOUS
  <2>2. Values(t) \subseteq NW(m)
    BY <1>4, <2>1 DEF Values, EphemeronValues
  <2>3. KeysOf(t) \subseteq Object
    BY TableIsNoThread, TypeFacts, Reading DEF Visiting, Core
  <2>4. ASSUME NEW o \in KeysOf(t) PROVE o \in NW(m)
    <3>1. o # Null /\ ~Cleared(h, o) /\ o \in All
      BY <2>1, <2>3, Constants DEF KeysOf
    <3> QED BY <1>4, <3>1 DEF Cleared, NW, StringsIn
  <2> QED BY <2>2, <2>4
<1>6. Noted(m, p, t) /\ Settles(p, t)
  <2>1. \/ h.state = "propagate" /\ p = [m EXCEPT !.grayagain = @ \cup {t}]
        \/ h.state # "propagate" /\ p = [m EXCEPT !.ephemeron = @ \cup {t}]
        \/ p = [m EXCEPT !.allweak = @ \cup {t}]
        \/ /\ h.state # "propagate" /\ Val(refs, t) \cup Key(refs, t) \subseteq NW(m)
           /\ p = m
    BY <1>2, <1>5, Reading
  <2> QED BY <1>3, <2>1, ListsTable
<1>7. Visited(h, p)
  BY <1>1, <1>6, VisitTable DEF m
<1> QED BY <1>1, <1>3, <1>6, <1>7 DEF p, m, S

\* Nothing in a table with weak keys and values is marked.
LEMMA VisitAllWeak ==
  ASSUME NEW h, NEW t, Visiting(h, t), KindOf(t) = "table", h.mark[t] = "gray"
  PROVE  Visited(h, [h EXCEPT !.allweak = @ \cup {t}])
<1> DEFINE p == [h EXCEPT !.allweak = @ \cup {t}]
<1>1. Marked(h, h, {})
  BY DEF Marked, Visiting, Core, Types, SameLists, SamePlace, SameThreads, SameGrays, NW
<1> HIDE DEF p
<1>2. Noted(h, p, t) /\ Settles(p, t)
  BY <1>1, ListsTable DEF p
<1>3. t \in NW(h)
  BY DEF Visiting
<1>4. Core(kind, refs, open, mode, p, {}) /\ Rest(refs, p, {}) /\ Marking(p)
  BY <1>2, <1>3, VisitEnds DEF Visiting
<1>5. NW(p) = NW(h)
  BY <1>2 DEF Noted, NW, IsWhite
<1>6. Visited(h, p)
  BY <1>2, <1>4, <1>5 DEF Visited, Noted
<1> QED BY <1>6 DEF p

\* The first step of a visit: o leaves the gray list, with c for its mark.
Begun(h, b, o, c, G) ==
  /\ b \in GState /\ SameLists(h, b) /\ SamePlace(h, b) /\ SameThreads(h, b)
  /\ \A x \in All : b.mark[x] = IF x = o THEN c ELSE h.mark[x]
  /\ b.gray = h.gray \ {o} /\ b.grayagain = h.grayagain \cup G
  /\ b.weak = h.weak /\ b.allweak = h.allweak /\ b.ephemeron = h.ephemeron
  /\ b.next = h.next /\ b.saved = h.saved /\ b.changed = h.changed
  /\ b.origweak = h.origweak /\ b.origall = h.origall

\* Once o has left the gray list it is the only one that is not covered.
LEMMA VisitBegins ==
  ASSUME NEW h, NEW o \in h.gray, Core(kind, refs, open, mode, h, {}), Rest(refs, h, {}),
         Marking(h), h.state = "propagate" \/ h.stage # "none",
         NEW c \in {"black", "gray"}, NEW G,
         (Thread(kind, o) /\ c = "gray" /\ G = {o}) \/ (~Thread(kind, o) /\ G = {}),
         NEW b, Begun(h, b, o, c, G)
  PROVE  Visiting(b, o) /\ NW(h) = NW(b)
<1> USE DEF Core
<1>1. h \in GState /\ h.mark \in Marks /\ h.gray \subseteq NW(h) /\ o \in All /\ o \in NW(h)
  BY TypeFacts DEF Grays, GrayLists, NW
<1>2. b \in GState /\ b.gray = h.gray \ {o} /\ b.grayagain = h.grayagain \cup G
  BY DEF Begun
<1>3. /\ SameLists(h, b) /\ SamePlace(h, b) /\ SameThreads(h, b)
      /\ b.weak = h.weak /\ b.allweak = h.allweak /\ b.ephemeron = h.ephemeron
      /\ b.next = h.next /\ b.saved = h.saved /\ b.changed = h.changed
      /\ b.origweak = h.origweak /\ b.origall = h.origall
  BY DEF Begun
<1>4. \A x \in All : x # o => b.mark[x] = h.mark[x]
  BY DEF Begun
<1>5. b.mark[o] = c
  BY <1>1 DEF Begun
<1>6. NW(b) = NW(h)
  <2>1. \A x \in All : IsWhite(b, x) <=> IsWhite(h, x)
    BY <1>1, <1>4, <1>5 DEF IsWhite, NW
  <2> QED BY <2>1 DEF NW
<1>7. /\ Objs(b) = Objs(h) /\ Marking(b) /\ (Early(b) <=> Early(h))
  BY <1>3 DEF SameLists, SamePlace, Objs, Listed, Marking, Early
<1>8. Live(b) = Live(h)
  <2>1. \A x \in All : isdead(b, x) <=> isdead(h, x)
    BY <1>1, <1>4, <1>5 DEF isdead, NW, IsWhite
  <2>2. Objs(h) \subseteq All
    BY TypeFacts
  <2> QED BY <1>7, <2>1, <2>2 DEF Live
<1>9. Types(kind, refs, open, mode, b) /\ Shape(kind, refs, open, b)
  BY <1>2, <1>3, <1>6, <1>7 DEF Types, Shape, SameLists, SameThreads
<1>10. Closed(refs, open, b) /\ RootsLive(b) /\ Whites(b)
  BY <1>3, <1>7, <1>8 DEF Closed, RootsLive, Whites, SameLists, SameThreads
<1>11. Threads(kind, b)
  <2>1. \A x \in NW(h) : x \in All
    BY DEF NW
  <2>2. \A x \in NW(b) : Thread(kind, x) => b.mark[x] = "gray"
    BY <1>4, <1>5, <1>6, <2>1 DEF Threads
  <2> QED BY <1>3, <1>7, <1>8, <2>2 DEF Threads, SameThreads, SamePlace
<1>12. Coverage(kind, refs, open, b, {o})
  <2> SUFFICES ASSUME NEW x \in NW(b) \ {o}, x \notin Pending(b)
               PROVE  Covered(kind, refs, open, b, x)
    BY DEF Coverage
  <2>1. x \notin Pending(h)
    BY <1>2, <1>3, <1>7 DEF Pending, SamePlace
  <2>2. Covered(kind, refs, open, h, x)
    BY <1>6, <2>1 DEF Coverage
  <2> QED BY <1>3, <1>6, <1>7, <2>2 DEF Covered, SameThreads
<1>13. Grays(kind, b)
  <2>1. Thread(kind, o) => KindIn(kind, o) \notin {"string", "udata"}
    BY DEF Thread
  <2> QED BY <1>1, <1>2, <1>3, <1>6, <1>7, <2>1 DEF Grays, GrayLists, SamePlace
<1>14. Lists(b, {o})
  BY <1>2, <1>3, <1>4, <1>6, <1>7 DEF Lists, SamePlace, NW
<1>15. Phase(b)
  <2>1. \A name : ListOf(b, name) = ListOf(h, name)
    BY <1>3 DEF ListOf, SameLists
  <2> QED BY <1>3, <2>1 DEF Rest, Phase, SamePlace
<1>16. RootsMarked(b) /\ Resurrected(refs, b)
  BY <1>3, <1>6, <1>7 DEF Rest, RootsMarked, Resurrected, SameLists, SamePlace
<1>17. Atomic(b, {o})
  BY <1>2, <1>3, <1>6, <1>7 DEF Rest, Atomic, Pending, SameThreads, SamePlace
<1>18. b.stage = "none" => /\ b.state = "propagate"
                           /\ o \notin b.weak \cup b.ephemeron \cup b.allweak
                           /\ o \in b.grayagain => Thread(kind, o)
  BY <1>2, <1>3 DEF Lists, SamePlace
<1>19. Visiting(b, o)
  BY <1>1, <1>2, <1>6, <1>7, <1>9, <1>10, <1>11, <1>12, <1>13, <1>14, <1>15, <1>16,
     <1>17, <1>18 DEF Visiting, Rest
<1> QED BY <1>6, <1>19

\* A closure before the atomic phase, whose open upvalue it leaves to the thread.
LEMMA VisitOpen ==
  ASSUME NEW h, NEW c, Visiting(h, c), KindOf(c) = "closure", open[c] # Null,
         h.state # "inside", h.mark[c] = "black"
  PROVE  Visited(h, [h EXCEPT !.touched = @ \cup {open[c]}])
<1> DEFINE p == [h EXCEPT !.touched = @ \cup {open[c]}]
<1>1. c \in Object
  <2>1. c \in All
    BY DEF Visiting, NW
  <2> QED BY <2>1 DEF KindOf, All
<1>2. h \in GState /\ c \in NW(h) /\ c \notin h.gray /\ open[c] \in All
  <2>1. open[c] \in h.openupval /\ h.openupval \subseteq All
    BY <1>1, TypeFacts DEF Visiting, Core, Shape
  <2> QED BY <2>1 DEF Visiting, Core, Types
<1>3. /\ p \in GState /\ p.touched = h.touched \cup {open[c]}
      /\ SameLists(h, p) /\ SamePlace(h, p) /\ SameGrays(h, p) /\ p.mark = h.mark
      /\ p.gray = h.gray /\ p.twups = h.twups /\ p.openupval = h.openupval
  BY <1>2 DEF GState, SameLists, SamePlace, SameGrays
<1> HIDE DEF p
<1>4. Noted(h, p, c)
  BY <1>3 DEF Noted, SameGrays
<1>5. Covered(kind, refs, open, p, c)
  <2>1. Val(refs, c) = {} /\ Key(refs, c) = {}
    BY <1>1 DEF Visiting, Core, Shape, Val, Key
  <2>2. Early(p)
    BY <1>3 DEF Early, SamePlace
  <2> QED BY <1>3, <2>1, <2>2 DEF Covered
<1>6. Settles(p, c)
  <2>1. ~Thread(kind, c) /\ c \notin h.openupval
    BY Reading DEF Thread, Visiting, Core, Shape
  <2>2. p.stage = "none" =>
          c \notin p.weak \cup p.ephemeron \cup p.gray \cup p.grayagain \cup p.allweak
    BY <1>2, <1>3, <2>1 DEF Visiting, SamePlace, SameGrays
  <2>3. p.mark[c] = "black"
    BY <1>3
  <2> QED BY <1>3, <1>5, <2>1, <2>2, <2>3 DEF Settles
<1>7. Core(kind, refs, open, mode, p, {}) /\ Rest(refs, p, {}) /\ Marking(p)
  BY <1>2, <1>3, <1>4, <1>6, VisitEnds DEF Visiting, SameGrays
<1>8. NW(p) = NW(h)
  BY <1>3 DEF NW, IsWhite
<1>9. Visited(h, p)
  BY <1>3, <1>7, <1>8 DEF Visited, SameGrays
<1> QED BY <1>9 DEF p

\* A thread is never covered: it stays in grayagain.
LEMMA VisitThread ==
  ASSUME NEW h, NEW k, Visiting(h, k), Thread(kind, k), k \in h.grayagain, h.mark[k] = "gray",
         NEW m, m = reallymark(h, Values(k)),
         NEW p, p = IF h.state = "inside" /\ k \in h.openupval
                      THEN [m EXCEPT !.twups = @ \cup {k}] ELSE m
  PROVE  Visited(h, p)
<1>1. /\ Core(kind, refs, open, mode, m, {k}) /\ Rest(refs, m, {k}) /\ Marking(m)
      /\ Marked(h, m, Values(k)) /\ m \in GState /\ k \in NW(m) /\ k \notin m.gray
  BY VisitMarks
<1>2. /\ SameLists(h, m) /\ SamePlace(h, m) /\ SameThreads(h, m) /\ SameGrays(h, m)
      /\ NW(h) \subseteq NW(m) /\ Values(k) \subseteq NW(m)
  BY <1>1 DEF Marked
<1>3. k \in All /\ m.mark[k] = "gray"
  BY <1>1 DEF Visiting, NW, Marked
<1>4. /\ p \in GState /\ SameLists(m, p) /\ SamePlace(m, p) /\ SameGrays(m, p)
      /\ p.mark = m.mark /\ p.gray = m.gray /\ p.openupval = m.openupval
      /\ p.touched = m.touched
  BY <1>1, <1>3 DEF GState, SameLists, SamePlace, SameGrays
<1>5. p.twups = IF h.state = "inside" /\ k \in h.openupval THEN m.twups \cup {k} ELSE m.twups
  BY <1>1 DEF GState
<1>6. Noted(m, p, k)
  BY <1>4, <1>5 DEF Noted, SameGrays
<1>7. NW(p) = NW(m)
  BY <1>4 DEF NW, IsWhite
<1>8. Covered(kind, refs, open, p, k)
  <2>1. Key(refs, k) = {}
    BY <1>3 DEF Visiting, Core, Shape, Thread
  <2>2. k \in Object => open[k] = Null
    BY KindInObject DEF Visiting, Core, Shape, Thread
  <2> QED BY <1>2, <1>7, <2>1, <2>2, Reading DEF Covered
<1>9. Settles(p, k)
  <2>1. p.stage = "none" =>
         /\ k \notin p.weak \cup p.ephemeron \cup p.gray
         /\ ~ (k \in p.grayagain /\ k \in p.allweak)
         /\ p.mark[k] = "gray" <=> k \in p.grayagain \cup p.allweak
    BY <1>1, <1>2, <1>3, <1>4 DEF Visiting, SameGrays, SamePlace
  <2>2. p.state = "inside" /\ k \in p.openupval => k \in p.twups
    BY <1>2, <1>4, <1>5 DEF SamePlace, SameThreads
  <2> QED BY <1>8, <2>1, <2>2 DEF Settles
<1>10. Core(kind, refs, open, mode, p, {}) /\ Rest(refs, p, {}) /\ Marking(p)
  <2>1. /\ p.weak = m.weak /\ p.allweak = m.allweak
        /\ p.ephemeron = m.ephemeron /\ p.grayagain = m.grayagain
    BY <1>4 DEF SameGrays
  <2> QED BY <1>1, <1>6, <1>9, <2>1, VisitEnds
<1> QED BY <1>2, <1>4, <1>7, <1>10
        DEF Visited, SameLists, SamePlace, SameThreads, SameGrays

\* Any object in the gray list can be visited.
LEMMA Visit ==
  ASSUME NEW h, NEW o \in h.gray, Core(kind, refs, open, mode, h, {}), Rest(refs, h, {}),
         Marking(h), h.state = "propagate" \/ h.stage # "none"
  PROVE  Visited(h, propagatemark(h, o))
<1> DEFINE b == [h EXCEPT !.mark[o] = "black", !.gray = @ \ {o}]
           t == [b EXCEPT !.mark[o] = "gray"]
           k == [b EXCEPT !.mark[o] = "gray", !.grayagain = @ \cup {o}]
           p == propagatemark(h, o)
<1>1. h \in GState /\ o \in All /\ h.mark \in Marks
  BY TypeFacts DEF Core, GState
<1>2. KindOf(o) \in {"table", "closure", "thread", "coroutine"}
  <2>1. kind \in [Object -> Kinds]
    BY DEF Core, Types
  <2>2. KindOf(o) \notin {"string", "udata"}
    BY Reading DEF Core, Grays
  <2>3. KindOf(o) \in Kinds \cup {"thread"}
    BY <1>1, <2>1 DEF KindOf, Kinds, All
  <2> QED BY <2>2, <2>3 DEF Kinds
<1>3. CASE KindOf(o) = "table"
  <2>1. ~Thread(kind, o)
    BY <1>3, Reading DEF Thread
  <2>2. Begun(h, b, o, "black", {})
    BY <1>1 DEF GState, Marks, Begun, SameLists, SamePlace, SameThreads
  <2>3. Begun(h, t, o, "gray", {})
    BY <1>1 DEF GState, Marks, Begun, SameLists, SamePlace, SameThreads
  <2> HIDE DEF b, t
  <2>4. Visiting(b, o) /\ NW(h) = NW(b)
    BY <1>1, <2>1, <2>2, VisitBegins
  <2>5. Visiting(t, o) /\ NW(h) = NW(t)
    BY <1>1, <2>1, <2>3, VisitBegins
  <2>6. /\ b.next = h.next /\ b.changed = h.changed /\ b.openupval = h.openupval
        /\ t.next = h.next /\ t.changed = h.changed /\ t.openupval = h.openupval
        /\ b.mark[o] = "black" /\ t.mark[o] = "gray"
        /\ SamePlace(h, b) /\ SameLists(h, b) /\ SamePlace(h, t) /\ SameLists(h, t)
    BY <1>1, <2>2, <2>3 DEF Begun, SameThreads
  <2>7. /\ p = CASE mode[o] = "strong" -> reallymark(b, KeysOf(o) \cup Values(o))
                 [] mode[o] = "v" -> traverseweakvalue(t, o)
                 [] mode[o] = "k" -> traverseephemeron(t, o)
                 [] mode[o] = "kv" -> [t EXCEPT !.allweak = @ \cup {o}]
        /\ mode[o] \in {"strong", "k", "v", "kv"}
    BY <1>1, <1>3 DEF propagatemark, traversetable, b, t, Core, Types, Modes
  <2>8. Visited(b, reallymark(b, KeysOf(o) \cup Values(o)))
    <3>1. \A S : S = KeysOf(o) \cup Values(o) => Visited(b, reallymark(b, S))
      BY <1>3, <2>4, <2>6, VisitStrong
    <3> QED BY <3>1
  <2>9. Visited(t, traverseweakvalue(t, o))
    BY <1>3, <2>5, <2>6, VisitWeakValue
  <2>10. Visited(t, traverseephemeron(t, o))
    BY <1>3, <2>5, <2>6, VisitEphemeron
  <2>11. Visited(t, [t EXCEPT !.allweak = @ \cup {o}])
    BY <1>3, <2>5, <2>6, VisitAllWeak
  <2>12. Visited(b, p) \/ Visited(t, p)
    BY <2>7, <2>8, <2>9, <2>10, <2>11
  <2> QED BY <2>4, <2>5, <2>6, <2>12 DEF Visited, SamePlace, SameLists, p
<1>4. CASE KindOf(o) = "closure"
  <2>1. ~Thread(kind, o)
    BY <1>4, Reading DEF Thread
  <2>2. Begun(h, b, o, "black", {})
    BY <1>1 DEF GState, Marks, Begun, SameLists, SamePlace, SameThreads
  <2> HIDE DEF b
  <2>3. Visiting(b, o) /\ NW(h) = NW(b)
    BY <1>1, <2>1, <2>2, VisitBegins
  <2>4. /\ b.next = h.next /\ b.changed = h.changed /\ b.openupval = h.openupval
        /\ b.mark[o] = "black" /\ SamePlace(h, b) /\ SameLists(h, b)
    BY <1>1, <2>2 DEF Begun, SameThreads
  <2>5. p = traverseLclosure(b, o)
    BY <1>4 DEF propagatemark, b
  <2>6. CASE open[o] # Null /\ b.state # "inside"
    <3>1. p = [b EXCEPT !.touched = @ \cup {open[o]}]
      BY <2>5, <2>6 DEF traverseLclosure
    <3>2. Visited(b, p)
      BY <1>4, <2>3, <2>4, <2>6, <3>1, VisitOpen
    <3> QED BY <2>3, <2>4, <3>2 DEF Visited, SamePlace, SameLists, p
  <2>7. CASE ~(open[o] # Null /\ b.state # "inside")
    <3>1. p = reallymark(b, Upvalue(o))
      BY <2>5, <2>7 DEF traverseLclosure
    <3>2. \A S : S = Upvalue(o) => Visited(b, reallymark(b, S))
      BY <1>4, <2>3, <2>4, <2>7, VisitStrong
    <3>3. Visited(b, p)
      BY <3>1, <3>2
    <3> QED BY <2>3, <2>4, <3>3 DEF Visited, SamePlace, SameLists, p
  <2> QED BY <2>6, <2>7
<1>5. CASE KindOf(o) \notin {"table", "closure"}
  <2>1. Thread(kind, o)
    BY <1>2, <1>5, Reading DEF Thread
  <2>2. Begun(h, k, o, "gray", {o})
    BY <1>1 DEF GState, Marks, Begun, SameLists, SamePlace, SameThreads
  <2>3. p = traversethread(b, o)
    BY <1>5 DEF propagatemark
  <2>4. p = LET m == reallymark(k, Values(o))
            IN  IF b.state = "inside" /\ o \in b.openupval THEN [m EXCEPT !.twups = @ \cup {o}]
                ELSE m
    BY <2>3 DEF traversethread
  <2>5. b.state = h.state /\ b.openupval = h.openupval
    BY <1>1 DEF GState
  <2> HIDE DEF b, k
  <2>6. Visiting(k, o) /\ NW(h) = NW(k)
    BY <1>1, <2>1, <2>2, VisitBegins
  <2>7. /\ k.next = h.next /\ k.changed = h.changed /\ k.openupval = h.openupval
        /\ k.mark[o] = "gray" /\ SamePlace(h, k) /\ SameLists(h, k) /\ o \in k.grayagain
    BY <1>1, <2>2 DEF Begun, SameThreads
  <2>8. Visited(k, p)
    BY <2>1, <2>4, <2>5, <2>6, <2>7, VisitThread DEF SamePlace
  <2> QED BY <2>6, <2>7, <2>8 DEF Visited, SamePlace, SameLists, p
<1> QED BY <1>3, <1>4, <1>5

-----------------------------------------------------------------------------
(* The steps that mark. *)

\* A step that frees nothing.
LEMMA Quiet ==
  ASSUME NEW h \in GState, NEW c \in [All -> SUBSET ((Object \cup {Null}) \X Object)],
         Types(kind, refs, open, mode, g), Listed(g) \subseteq Listed(h), Heap(h, c)
  PROVE  g' = h /\ refs' = c /\ open' = open /\ mode' = mode /\ kind' = kind
<1>1. open \in [Object -> Object \cup {Null}] /\ mode \in [All -> Modes]
  BY DEF Types
<1>2. /\ g' = [h EXCEPT !.openupval = @ \ {}, !.touched = @ \ {},
                         !.mark = [o \in All |-> IF o \in {} THEN "white" ELSE @[o]]]
      /\ refs' = [o \in All |-> IF o \in {} THEN {} ELSE IF o \in {} THEN c[open[o]] ELSE c[o]]
      /\ open' = [o \in Object |-> IF o \in {} \cup {} THEN Null ELSE open[o]]
      /\ mode' = [o \in All |-> IF o \in {} THEN "strong" ELSE mode[o]]
      /\ kind' = kind
  <2>1. Listed(g) \ Listed(h) = {}
    OBVIOUS
  <2>2. {o \in Object \ {} : open[o] \in {}} = {}
    OBVIOUS
  <2> QED BY <2>1, <2>2 DEF Heap
<1>3. g' = h
  BY <1>2 DEF GState
<1>4. refs' = c /\ open' = open /\ mode' = mode
  BY <1>1, <1>2
<1> QED BY <1>2, <1>3, <1>4

\* A step to a heap that is in order, and that frees nothing.
LEMMA QuietStep ==
  ASSUME NEW h, IInv, Listed(g) \subseteq Listed(h), Heap(h, refs),
         Inv(kind, refs, open, mode, h)
  PROVE  IInv'
<1>1. Types(kind, refs, open, mode, g) /\ h \in GState
      /\ refs \in [All -> SUBSET ((Object \cup {Null}) \X Object)]
  BY DEF IInv, Inv, Core, Types
<1>2. g' = h /\ refs' = refs /\ open' = open /\ mode' = mode /\ kind' = kind
  BY <1>1, Quiet
<1> QED BY <1>2 DEF IInv

\* Equal lists list the same objects.
LEMMA ListedSame ==
  ASSUME NEW h, NEW m, SameLists(h, m)
  PROVE  Listed(h) = Listed(m)
BY DEF SameLists, Listed

\* A visit within the atomic phase.
LEMMA Propagateall ==
  ASSUME IInv, propagateall
  PROVE  IInv'
<1>1. PICK o \in g.gray : Collector(propagatemark(g, o))
  BY DEF propagateall
<1> DEFINE h == propagatemark(g, o)
<1>2. g.stage # "none" /\ Marking(g)
  BY DEF propagateall, IInv, Inv, Rest, Phase, Marking
<1>3. Visited(g, h)
  BY <1>2, Visit DEF IInv, Inv
<1> HIDE DEF h
<1>4. Rounds(kind, refs, h)
  BY <1>3 DEF IInv, Inv, Rounds, Visited, SamePlace
<1>5. Inv(kind, refs, open, mode, h)
  BY <1>3, <1>4 DEF Visited, Inv
<1>6. Listed(g) = Listed(h)
  BY <1>3, ListedSame DEF Visited
<1>7. Heap(h, refs)
  BY <1>1 DEF Collector, Freeing, h
<1> QED BY <1>5, <1>6, <1>7, QuietStep

\* A visit in the propagate state, and with the last one the state is atomic.
LEMMA Propagate ==
  ASSUME IInv, propagate
  PROVE  IInv'
<1>1. PICK o \in g.gray :
        Collector([propagatemark(g, o) EXCEPT
                     !.state = IF propagatemark(g, o).gray = {} THEN "atomic" ELSE @])
  BY DEF propagate
<1> DEFINE p == propagatemark(g, o)
           h == [p EXCEPT !.state = IF p.gray = {} THEN "atomic" ELSE @]
<1>2. g.state = "propagate" /\ g.stage = "none" /\ Marking(g)
  BY DEF propagate, Between, Marking
<1>3. Visited(g, p)
  BY <1>2, Visit DEF IInv, Inv
<1> HIDE DEF p
<1>4. /\ p \in GState /\ p.state = "propagate" /\ p.stage = "none"
      /\ Core(kind, refs, open, mode, p, {}) /\ Rest(refs, p, {})
  BY <1>2, <1>3 DEF Visited, SamePlace, Core, Types
<1>5. /\ h \in GState /\ h.state \in {"propagate", "atomic"} /\ h.stage = "none"
      /\ SameLists(p, h) /\ SameThreads(p, h) /\ SameGrays(p, h) /\ h.sweepgc = p.sweepgc
      /\ h.mark = p.mark /\ h.gray = p.gray
  BY <1>4 DEF GState, SameLists, SameThreads, SameGrays, States
<1> HIDE DEF h
<1>6. /\ NW(h) = NW(p) /\ Objs(h) = Objs(p) /\ Live(h) = Live(p) /\ Marking(h) /\ Marking(p)
      /\ Early(h) /\ Early(p) /\ Pending(h) = Pending(p)
  BY <1>4, <1>5 DEF NW, IsWhite, Objs, Listed, SameLists, Live, isdead, Marking, Early,
     Pending, SameGrays
<1>7. Core(kind, refs, open, mode, h, {})
  <2>1. \A x : Covered(kind, refs, open, h, x) <=> Covered(kind, refs, open, p, x)
    BY <1>5, <1>6 DEF Covered, SameGrays, SameThreads
  <2>2. Types(kind, refs, open, mode, h) /\ Shape(kind, refs, open, h)
    BY <1>4, <1>5, <1>6 DEF Core, Types, Shape, SameLists, SameThreads
  <2>3. Closed(refs, open, h) /\ RootsLive(h) /\ Whites(h) /\ Threads(kind, h)
    BY <1>4, <1>5, <1>6 DEF Core, Closed, RootsLive, Whites, Threads, SameLists, SameThreads
  <2>4. Coverage(kind, refs, open, h, {})
    BY <1>4, <1>6, <2>1 DEF Core, Coverage
  <2>5. Grays(kind, h) /\ Lists(h, {})
    BY <1>4, <1>5, <1>6 DEF Core, Grays, GrayLists, Lists, SameGrays
  <2> QED BY <2>2, <2>3, <2>4, <2>5 DEF Core
<1>8. Rest(refs, h, {}) /\ Rounds(kind, refs, h)
  <2>1. \A name : ListOf(h, name) = ListOf(p, name)
    BY <1>5 DEF ListOf, SameLists
  <2>2. Phase(h)
    BY <1>4, <1>5, <2>1 DEF Rest, Phase
  <2>3. RootsMarked(h) /\ Atomic(h, {}) /\ Resurrected(refs, h) /\ Rounds(kind, refs, h)
    BY <1>4, <1>5, <1>6 DEF Rest, RootsMarked, Atomic, Resurrected, Rounds, Resurrecting,
       Converging, SameLists
  <2> QED BY <2>2, <2>3 DEF Rest
<1>9. Listed(g) = Listed(h)
  BY <1>3, <1>5 DEF Visited, SameLists, Listed
<1>10. Heap(h, refs)
  BY <1>1 DEF Collector, Freeing, h, p
<1> QED BY <1>7, <1>8, <1>9, <1>10, QuietStep DEF Inv

\* A step of the atomic phase that only moves objects between its lists.
LEMMA Turn ==
  ASSUME NEW p, NEW h, Core(kind, refs, open, mode, p, {}), Rest(refs, p, {}), Marking(p),
         h \in GState, SameLists(p, h), SameThreads(p, h), h.mark = p.mark,
         h.sweepgc = p.sweepgc, h.state = p.state,
         \/ h.stage = "enter" /\ h.state = "atomic"
         \/ h.stage \notin {"none", "enter"} /\ h.state = "inside",
         h.weak = p.weak, h.allweak = p.allweak, h.ephemeron \cup h.next = p.ephemeron \cup p.next,
         Pending(h) = Pending(p),
         h.gray \cup h.grayagain \cup h.saved = p.gray \cup p.grayagain \cup p.saved,
         Early(h) => h.gray = p.gray /\ h.grayagain = p.grayagain,
         h.stage \notin Converging => h.next = {},
         Rounds(kind, refs, h), Resurrected(refs, h)
  PROVE  Inv(kind, refs, open, mode, h)
<1>1. /\ NW(h) = NW(p) /\ Objs(h) = Objs(p) /\ Live(h) = Live(p) /\ Marking(h)
      /\ (Early(h) <=> Early(p))
  BY DEF NW, IsWhite, Objs, Listed, SameLists, Live, isdead, Marking, Early
<1>2. Types(kind, refs, open, mode, h) /\ Shape(kind, refs, open, h)
  BY <1>1 DEF Core, Types, Shape, SameLists, SameThreads
<1>3. Closed(refs, open, h) /\ RootsLive(h) /\ Whites(h) /\ Threads(kind, h)
  BY <1>1 DEF Core, Closed, RootsLive, Whites, Threads, SameLists, SameThreads
<1>4. \A x : Covered(kind, refs, open, p, x) => Covered(kind, refs, open, h, x)
  BY <1>1 DEF Covered, SameThreads
<1>5. Coverage(kind, refs, open, h, {})
  BY <1>1, <1>4 DEF Core, Coverage
<1>6. Grays(kind, h)
  <2>1. GrayLists(h) = GrayLists(p)
    BY DEF GrayLists
  <2> QED BY <1>1, <2>1 DEF Core, Grays
<1>7. Lists(h, {})
  BY DEF Lists
<1>8. \A name : ListOf(h, name) = ListOf(p, name)
  BY DEF ListOf, SameLists
<1>9. Phase(h)
  BY <1>8 DEF Rest, Phase
<1>10. RootsMarked(h) /\ Atomic(h, {})
  BY <1>1 DEF Rest, RootsMarked, Atomic, SameLists, SameThreads
<1> QED BY <1>2, <1>3, <1>5, <1>6, <1>7, <1>9, <1>10 DEF Inv, Core, Rest

\* The atomic step begins.
LEMMA AtomicEnter ==
  ASSUME IInv, atomic_enter
  PROVE  IInv'
<1> DEFINE h == [g EXCEPT !.stage = "enter"]
<1>1. /\ g \in GState /\ g.stage = "none" /\ g.state = "atomic" /\ Marking(g)
      /\ Core(kind, refs, open, mode, g, {}) /\ Rest(refs, g, {}) /\ Heap(h, refs)
  BY DEF IInv, Inv, Core, Types, atomic_enter, Between, Marking, Collector, Freeing
<1>2. /\ h \in GState /\ SameLists(g, h) /\ SameThreads(g, h) /\ SameGrays(g, h)
      /\ h.mark = g.mark /\ h.gray = g.gray /\ h.sweepgc = g.sweepgc
      /\ h.state = "atomic" /\ h.stage = "enter"
  BY <1>1 DEF GState, Stages, SameLists, SameThreads, SameGrays
<1> HIDE DEF h
<1>3. Pending(h) = Pending(g) /\ Early(h)
  BY <1>1, <1>2 DEF Pending, Early, SameGrays
<1>4. Rounds(kind, refs, h) /\ Resurrected(refs, h)
  BY <1>2 DEF Rounds, Resurrected, Converging, Resurrecting
<1>5. h.next = {}
  BY <1>1, <1>2 DEF Core, Grays, SameGrays, Converging
<1>6. /\ h.gray \cup h.grayagain \cup h.saved = g.gray \cup g.grayagain \cup g.saved
      /\ h.ephemeron \cup h.next = g.ephemeron \cup g.next
      /\ h.weak = g.weak /\ h.allweak = g.allweak /\ h.grayagain = g.grayagain
  BY <1>2 DEF SameGrays
<1>7. /\ \/ h.stage = "enter" /\ h.state = "atomic"
         \/ h.stage \notin {"none", "enter"} /\ h.state = "inside"
      /\ Early(h) => h.gray = g.gray /\ h.grayagain = g.grayagain
      /\ h.state = g.state
  BY <1>1, <1>2, <1>6
<1>8. Inv(kind, refs, open, mode, h)
  BY <1>1, <1>2, <1>3, <1>4, <1>5, <1>6, <1>7, Turn
<1> QED BY <1>1, <1>2, <1>8, ListedSame, QuietStep

\* The threads and tables of grayagain are visited again.
LEMMA AtomicAgain ==
  ASSUME IInv, atomic_again
  PROVE  IInv'
<1> DEFINE h == [g EXCEPT !.gray = g.saved, !.stage = "again"]
<1>1. /\ g \in GState /\ g.stage = "roots" /\ g.gray = {} /\ g.state = "inside"
      /\ Marking(g)
      /\ Core(kind, refs, open, mode, g, {}) /\ Rest(refs, g, {}) /\ Heap(h, refs)
  BY DEF IInv, Inv, Core, Types, atomic_again, Emptied, Marking, Collector, Freeing, Rest,
     Phase
<1>2. /\ h \in GState /\ SameLists(g, h) /\ SameThreads(g, h) /\ SameGrays(g, h)
      /\ h.mark = g.mark /\ h.gray = g.saved /\ h.sweepgc = g.sweepgc
      /\ h.state = "inside" /\ h.stage = "again"
  BY <1>1 DEF GState, Stages, SameLists, SameThreads, SameGrays
<1> HIDE DEF h
<1>3. Pending(h) = Pending(g) /\ ~Early(h)
  BY <1>1, <1>2 DEF Pending, Early, SameGrays
<1>4. Rounds(kind, refs, h) /\ Resurrected(refs, h)
  BY <1>2 DEF Rounds, Resurrected, Converging, Resurrecting
<1>5. h.next = {}
  BY <1>1, <1>2 DEF Core, Grays, SameGrays, Converging
<1>6. h.gray \cup h.grayagain \cup h.saved = g.gray \cup g.grayagain \cup g.saved
  BY <1>1, <1>2 DEF SameGrays
<1>7. Inv(kind, refs, open, mode, h)
  BY <1>1, <1>2, <1>3, <1>4, <1>5, <1>6, Turn DEF SameGrays
<1> QED BY <1>1, <1>2, <1>7, ListedSame, QuietStep

\* A round of convergeephemerons begins.
LEMMA RoundBegins ==
  ASSUME IInv, NEW stage \in Converging, NEW h, h = [Round(g) EXCEPT !.stage = stage],
         g.stage \in {"again", "resurrect"} \cup Converging, g.gray = {},
         g.next = {}, stage = "converge again" => g.stage \in Resurrecting, Heap(h, refs)
  PROVE  IInv'
<1>1. /\ g \in GState /\ g.state = "inside" /\ Marking(g)
      /\ Core(kind, refs, open, mode, g, {}) /\ Rest(refs, g, {})
  BY DEF IInv, Inv, Core, Types, Marking, Rest, Phase, Converging
<1>2. /\ h \in GState /\ SameLists(g, h) /\ SameThreads(g, h)
      /\ h.mark = g.mark /\ h.gray = g.gray /\ h.sweepgc = g.sweepgc
      /\ h.state = "inside" /\ h.stage = stage /\ h.next = g.ephemeron /\ h.ephemeron = {}
      /\ h.grayagain = g.grayagain /\ h.weak = g.weak /\ h.allweak = g.allweak
      /\ h.saved = g.saved /\ h.origweak = g.origweak /\ h.origall = g.origall
  BY <1>1 DEF GState, Stages, SameLists, SameThreads, Round, Converging
<1>3. Pending(h) = Pending(g) /\ ~Early(h)
  BY <1>1, <1>2 DEF Pending, Early, Converging
<1>4. NW(h) = NW(g)
  BY <1>2 DEF NW, IsWhite
<1>5. Resurrected(refs, h)
  BY <1>1, <1>2, <1>4 DEF Rest, Resurrected, SameLists, Resurrecting, Converging
<1>6. Rounds(kind, refs, h)
  BY <1>2 DEF Rounds
<1>7. Inv(kind, refs, open, mode, h)
  BY <1>1, <1>2, <1>3, <1>5, <1>6, Turn DEF Converging
<1> QED BY <1>2, <1>7, ListedSame, QuietStep

\* A first round, before the finalizers are looked at or after that.
LEMMA ConvergeEnter ==
  ASSUME IInv, converge_enter \/ converge_again
  PROVE  IInv'
<1>1. g.next = {}
  BY DEF converge_enter, converge_again, Emptied, IInv, Inv, Core, Grays, Rest, Phase,
     Converging, Marking
<1>2. CASE converge_enter
  BY <1>1, <1>2, RoundBegins DEF converge_enter, Emptied, Converging, Collector, Freeing
<1>3. CASE converge_again
  BY <1>1, <1>3, RoundBegins DEF converge_again, Emptied, Converging, Resurrecting,
     Collector, Freeing
<1> QED BY <1>2, <1>3

\* One table of a round.
LEMMA ConvergeOne ==
  ASSUME IInv, NEW t \in g.next, g.stage \in Converging, g.gray = {},
         NEW h, h = [traverseephemeron([g EXCEPT !.next = @ \ {t}], t)
                       EXCEPT !.changed = @ \/ \E v \in EphemeronValues(g, t) : IsWhite(g, v)],
         Heap(h, refs)
  PROVE  IInv'
<1> DEFINE b == [g EXCEPT !.next = @ \ {t}]
           marks == \E v \in EphemeronValues(g, t) : IsWhite(g, v)
           p == traverseephemeron(b, t)
           S == StringsIn(KeysOf(t)) \cup EphemeronValues(b, t)
           m == reallymark(b, S)
<1>1. /\ g \in GState /\ g.state = "inside" /\ Marking(g) /\ g.stage # "none"
      /\ Core(kind, refs, open, mode, g, {}) /\ Rest(refs, g, {})
  BY DEF IInv, Inv, Core, Types, Marking, Rest, Phase, Converging
<1>2. /\ t \in NW(g) /\ t \in All /\ KindOf(t) = "table"
  BY <1>1, Reading DEF Core, Grays, GrayLists, NW
<1>3. /\ b \in GState /\ SameLists(g, b) /\ SameThreads(g, b) /\ SamePlace(g, b)
      /\ b.mark = g.mark /\ b.gray = g.gray /\ b.next = g.next \ {t}
      /\ b.grayagain = g.grayagain /\ b.weak = g.weak /\ b.allweak = g.allweak
      /\ b.ephemeron = g.ephemeron /\ b.changed = g.changed
      /\ b.saved = g.saved /\ b.origweak = g.origweak /\ b.origall = g.origall
  BY <1>1 DEF GState, SameLists, SameThreads, SamePlace
<1> HIDE DEF b
<1>4. /\ NW(b) = NW(g) /\ Objs(b) = Objs(g) /\ Live(b) = Live(g) /\ Marking(b)
      /\ ~Early(b) /\ ~Early(g) /\ Pending(b) = Pending(g)
      /\ \A o : Cleared(b, o) <=> Cleared(g, o)
  BY <1>1, <1>3 DEF NW, IsWhite, Objs, Listed, SameLists, Live, isdead, Marking, Early,
     Pending, SamePlace, Cleared
<1>5. Core(kind, refs, open, mode, b, {t})
  <2>1. Types(kind, refs, open, mode, b) /\ Shape(kind, refs, open, b)
    BY <1>1, <1>3, <1>4 DEF Core, Types, Shape, SameLists, SameThreads
  <2>2. Closed(refs, open, b) /\ RootsLive(b) /\ Whites(b) /\ Threads(kind, b)
    BY <1>1, <1>3, <1>4 DEF Core, Closed, RootsLive, Whites, Threads, SameLists,
       SameThreads, SamePlace
  <2>3. ASSUME NEW x \in NW(b) \ {t}, Covered(kind, refs, open, g, x)
        PROVE  Covered(kind, refs, open, b, x)
    BY <1>3, <1>4, <2>3 DEF Covered
  <2>4. Coverage(kind, refs, open, b, {t})
    BY <1>1, <1>4, <2>3 DEF Core, Coverage
  <2>5. Grays(kind, b)
    BY <1>1, <1>3, <1>4 DEF Core, Grays, GrayLists, SamePlace
  <2>6. Lists(b, {t})
    BY <1>1, <1>3 DEF Lists, SamePlace
  <2> QED BY <2>1, <2>2, <2>4, <2>5, <2>6 DEF Core
<1>6. Rest(refs, b, {t})
  <2>1. \A name : ListOf(b, name) = ListOf(g, name)
    BY <1>3 DEF ListOf, SameLists
  <2>2. Phase(b)
    BY <1>1, <1>3, <2>1 DEF Rest, Phase, SamePlace
  <2>3. RootsMarked(b) /\ Atomic(b, {t}) /\ Resurrected(refs, b)
    BY <1>1, <1>3, <1>4 DEF Rest, RootsMarked, Atomic, Resurrected, SameLists, SameThreads,
       SamePlace
  <2> QED BY <2>2, <2>3 DEF Rest
<1>7. Visiting(b, t)
  BY <1>1, <1>2, <1>3, <1>4, <1>5, <1>6 DEF Visiting, SamePlace
<1>8. b.stage # "none"
  BY <1>1, <1>3 DEF SamePlace
<1>9. Visited(b, p) /\ Marked(b, m, S) /\ Noted(m, p, t)
  <2>1. Visited(b, traverseephemeron(b, t))
    BY <1>2, <1>7, <1>8, VisitEphemeron
  <2>2. /\ Marked(b, reallymark(b, StringsIn(KeysOf(t)) \cup EphemeronValues(b, t)),
                  StringsIn(KeysOf(t)) \cup EphemeronValues(b, t))
        /\ Noted(reallymark(b, StringsIn(KeysOf(t)) \cup EphemeronValues(b, t)),
                 traverseephemeron(b, t), t)
    BY <1>2, <1>7, <1>8, VisitEphemeron
  <2> QED BY <2>1, <2>2
<1>10. EphemeronValues(b, t) = EphemeronValues(g, t)
  BY <1>4 DEF EphemeronValues
<1>11. h = [p EXCEPT !.changed = @ \/ marks]
  BY DEF b
<1> HIDE DEF p, m, S, marks
<1>12. p \in GState /\ p.changed = g.changed
  BY <1>3, <1>9 DEF Visited, Core, Types
<1>13. /\ h \in GState /\ SameLists(p, h) /\ SameThreads(p, h) /\ SamePlace(p, h)
       /\ h.mark = p.mark /\ h.gray = p.gray /\ h.next = p.next
       /\ h.grayagain = p.grayagain /\ h.weak = p.weak /\ h.allweak = p.allweak
       /\ h.ephemeron = p.ephemeron
       /\ h.saved = p.saved /\ h.origweak = p.origweak /\ h.origall = p.origall
       /\ h.changed = (p.changed \/ marks)
  <2>1. marks \in BOOLEAN
    BY DEF marks
  <2> QED BY <1>11, <1>12, <2>1 DEF GState, SameLists, SameThreads, SamePlace
<1>14. /\ h.state = "inside" /\ h.stage = g.stage /\ Marking(p)
       /\ Core(kind, refs, open, mode, p, {}) /\ Rest(refs, p, {})
       /\ p.state = "inside" /\ p.stage = g.stage
  BY <1>1, <1>3, <1>9, <1>13 DEF Visited, SamePlace
<1>15. NW(h) = NW(p) /\ Pending(h) = Pending(p) /\ ~Early(h)
  BY <1>13, <1>14 DEF NW, IsWhite, Pending, Early, SamePlace
<1>16. Rounds(kind, refs, h)
  <2> SUFFICES ASSUME ~h.changed
               PROVE  h.gray = {} /\ \A x \in h.ephemeron : Settled(kind, refs, h, x)
    BY DEF Rounds
  <2>1. ~g.changed /\ ~marks
    BY <1>12, <1>13
  <2>2. g.gray = {} /\ \A x \in g.ephemeron : Settled(kind, refs, g, x)
    BY <2>1 DEF IInv, Inv, Rounds
  <2>3. EphemeronValues(b, t) \subseteq NW(b)
    <3>1. EphemeronValues(b, t) \subseteq All
      <4>1. Values(t) \subseteq Object
        BY <1>1, <1>2, TypeFacts, Reading DEF Core
      <4> QED BY <4>1, Constants DEF EphemeronValues, Values
    <3> QED BY <1>4, <1>10, <2>1, <3>1 DEF marks, NW
  <2> DEFINE A == StringsIn(KeysOf(t)) \cup NW(b)
  <2>4. NW(m) \subseteq NW(b) \cup A
    <3>1. A \in SUBSET All
      <4>1. KeysOf(t) \subseteq Object
        BY <1>1, <1>2, TypeFacts, Reading DEF Core
      <4> QED BY <4>1, Constants DEF StringsIn, NW
    <3>2. S \subseteq A
      BY <2>3 DEF S
    <3>3. \A u \in A \ NW(b) : Values(u) = {}
      BY <1>1, <3>1, CoreTidy DEF StringsIn, Core, Tidy
    <3> QED BY <1>9, <3>1, <3>2, <3>3 DEF Marked
  <2>5. NW(h) = NW(m) /\ h.gray = m.gray
    BY <1>9, <1>13 DEF Noted, NW, IsWhite
  <2>6. \A o \in NW(h) \ NW(g) : KindIn(kind, o) = "string"
    BY <1>4, <2>4, <2>5, Reading DEF StringsIn
  <2>7. h.gray = {}
    <3>1. \A o \in NW(m) \ NW(b) : AtOnce(o)
      BY <1>4, <2>5, <2>6, Reading DEF AtOnce
    <3> QED BY <1>3, <1>9, <2>2, <2>5, <3>1 DEF Marked
  <2>8. NW(g) \subseteq NW(h)
    BY <1>4, <1>9, <1>15 DEF Visited
  <2>9. h.ephemeron \subseteq g.ephemeron \cup {t}
    BY <1>3, <1>9, <1>13 DEF Noted, Marked, SameGrays
  <2>10. \A x \in g.ephemeron : Settled(kind, refs, h, x)
    BY <2>2, <2>6, <2>8 DEF Settled, Clear
  <2>11. Settled(kind, refs, h, t)
    <3>1. ASSUME NEW e \in refs[t], ~Clear(kind, h, e[1]) PROVE e[2] \in NW(h)
      <4>0. e[1] \in All \cup {Null}
        BY <1>1, <1>2, Constants DEF Core, Types
      <4>1. ~Cleared(b, e[1])
        BY <1>4, <2>6, <2>8, <3>1, <4>0, Reading DEF Clear, Cleared, NW
      <4> QED BY <1>4, <2>3, <2>8, <4>1 DEF EphemeronValues
    <3> QED BY <3>1 DEF Settled
  <2> QED BY <2>7, <2>9, <2>10, <2>11
<1>17. Resurrected(refs, h)
  BY <1>13, <1>14, <1>15 DEF Rest, Resurrected, SameLists, SamePlace
<1>18. Inv(kind, refs, open, mode, h)
  BY <1>1, <1>13, <1>14, <1>15, <1>16, <1>17, Turn DEF SamePlace, Converging
<1>19. Listed(g) = Listed(h)
  BY <1>3, <1>9, <1>13 DEF Visited, SameLists, Listed
<1> QED BY <1>18, <1>19, QuietStep

\* A round goes on, begins again, or is the last one: then every ephemeron's
\* values are marked where its keys are.
LEMMA Converge ==
  ASSUME IInv, converge
  PROVE  IInv'
<1>1. g.stage \in Converging /\ g.gray = {} /\ g \in GState
  BY DEF converge, Converging, IInv, Inv, Core, Types
<1>2. CASE \E t \in g.next :
             Collector([traverseephemeron([g EXCEPT !.next = @ \ {t}], t)
                 EXCEPT !.changed = @ \/ \E v \in EphemeronValues(g, t) : IsWhite(g, v)])
  <2>1. PICK t \in g.next :
          Collector([traverseephemeron([g EXCEPT !.next = @ \ {t}], t)
                 EXCEPT !.changed = @ \/ \E v \in EphemeronValues(g, t) : IsWhite(g, v)])
    BY <1>2
  <2> DEFINE h == [traverseephemeron([g EXCEPT !.next = @ \ {t}], t)
                 EXCEPT !.changed = @ \/ \E v \in EphemeronValues(g, t) : IsWhite(g, v)]
  <2>2. Heap(h, refs)
    BY <2>1 DEF Collector, Freeing
  <2> QED BY <1>1, <2>2, ConvergeOne
<1>3. CASE g.next = {} /\ g.changed /\ Collector(Round(g))
  <2>1. Round(g) = [Round(g) EXCEPT !.stage = g.stage]
    BY <1>1 DEF Round, GState
  <2>2. Heap(Round(g), refs)
    BY <1>3 DEF Collector, Freeing
  <2>3. \A s : s = g.stage => Heap([Round(g) EXCEPT !.stage = s], refs)
    BY <2>1, <2>2
  <2> QED BY <1>1, <1>3, <2>3, RoundBegins DEF Converging, Resurrecting
<1> QED BY <1>2, <1>3 DEF converge

\* Marking what is marked changes nothing.
LEMMA MarkedAlready ==
  ASSUME NEW h, NEW m, NEW S, h \in GState, Marked(h, m, S), S \subseteq NW(h)
  PROVE  /\ NW(m) = NW(h) /\ m.gray = h.gray
         /\ \A o \in All : m.mark[o] = h.mark[o]
<1>1. NW(h) \in SUBSET All /\ \A u \in NW(h) \ NW(h) : Values(u) \subseteq NW(h)
  BY DEF NW
<1>2. NW(m) \subseteq NW(h) \cup NW(h)
  BY <1>1 DEF Marked
<1>3. NW(m) = NW(h)
  BY <1>2 DEF Marked
<1> QED BY <1>3 DEF Marked

\* The roots are marked again, and remarkupvals the upvalues of lost threads.
LEMMA AtomicRoots ==
  ASSUME IInv, atomic_roots
  PROVE  IInv'
<1> DEFINE X == {c \in Object : open[c] # Null}
           b == [g EXCEPT !.saved = g.grayagain, !.state = "inside"]
           h == reallymark(b, {Main, Registry})
           kept == {k \in h.twups : h.mark[k] = "gray" /\ k \in h.openupval}
           seen == (h.twups \ kept) \cap h.touched
           S == UNION {Values(k) : k \in seen}
           m == reallymark(h, S)
           f == [remarkupvals(h) EXCEPT !.stage = "roots"]
<1>1. /\ g \in GState /\ g.stage = "enter" /\ g.gray = {} /\ g.state = "atomic"
      /\ Marking(g)
      /\ Core(kind, refs, open, mode, g, {}) /\ Rest(refs, g, {}) /\ Heap(f, refs)
  BY DEF IInv, Inv, Core, Types, atomic_roots, Emptied, Marking, Collector, Freeing, Rest,
     Phase
<1>2. /\ b \in GState /\ SameLists(g, b) /\ SameThreads(g, b) /\ b.sweepgc = g.sweepgc
      /\ b.mark = g.mark /\ b.gray = {} /\ b.next = g.next
      /\ b.grayagain = g.grayagain /\ b.weak = g.weak /\ b.allweak = g.allweak
      /\ b.ephemeron = g.ephemeron /\ b.saved = g.grayagain
      /\ b.state = "inside" /\ b.stage = "enter"
  BY <1>1 DEF GState, SameLists, SameThreads, States
<1> HIDE DEF b
<1>3. /\ NW(b) = NW(g) /\ Objs(b) = Objs(g) /\ Live(b) = Live(g) /\ Marking(b)
      /\ ~Early(b) /\ Early(g) /\ Pending(b) = Pending(g)
  BY <1>1, <1>2 DEF NW, IsWhite, Objs, Listed, SameLists, Live, isdead, Marking, Early,
     Pending
<1>4. Core(kind, refs, open, mode, b, X)
  <2>1. Types(kind, refs, open, mode, b) /\ Shape(kind, refs, open, b)
    BY <1>1, <1>2, <1>3 DEF Core, Types, Shape, SameLists, SameThreads
  <2>2. Closed(refs, open, b) /\ RootsLive(b) /\ Whites(b) /\ Threads(kind, b)
    BY <1>1, <1>2, <1>3 DEF Core, Closed, RootsLive, Whites, Threads, SameLists, SameThreads
  <2>3. ASSUME NEW x \in NW(b) \ X, Covered(kind, refs, open, g, x)
        PROVE  Covered(kind, refs, open, b, x)
    BY <1>2, <1>3, <2>3 DEF Covered
  <2>4. Coverage(kind, refs, open, b, X)
    BY <1>1, <1>3, <2>3 DEF Core, Coverage
  <2>5. Grays(kind, b)
    BY <1>1, <1>2, <1>3 DEF Core, Grays, GrayLists
  <2>6. Lists(b, X)
    BY <1>2 DEF Lists
  <2> QED BY <2>1, <2>2, <2>4, <2>5, <2>6 DEF Core
<1>5. {Main, Registry} \subseteq NW(b) /\ {Main, Registry} \in SUBSET All
  BY <1>1, <1>3, Constants DEF Rest, RootsMarked
<1>6. Marked(b, h, {Main, Registry})
  BY <1>4, <1>5, CoreTidy, ReallymarkMarks DEF Core
<1> HIDE DEF h
<1>7. /\ NW(h) = NW(g) /\ h.gray = {} /\ \A o \in All : h.mark[o] = g.mark[o]
  BY <1>2, <1>3, <1>5, <1>6, MarkedAlready
<1>8. {Main, Registry} \subseteq Objs(b)
  BY <1>1, <1>3 DEF Core, Shape, Objs, Listed
<1>9. Core(kind, refs, open, mode, h, X) /\ Marking(h)
  BY <1>3, <1>4, <1>6, <1>8, MarkedCore DEF Marked, SamePlace, Marking
<1>10. SameLists(b, h) /\ SameThreads(b, h) /\ SameGrays(b, h) /\ SamePlace(b, h)
  BY <1>6 DEF Marked
<1>11. Objs(h) = Live(h) /\ Objs(h) = Objs(g) /\ Objs(h) \subseteq All
  BY <1>3, <1>9, <1>10, TypeFacts DEF Core, Whites, SameLists, Objs, Listed
<1>12. seen \subseteq Objs(h) /\ S \subseteq Objs(h)
  <2>1. h.twups \subseteq Objs(h)
    BY <1>9, <1>11 DEF Core, RootsLive
  <2>2. \A k \in Objs(h) : Values(k) \subseteq Objs(h)
    BY <1>9, <1>11, Reading DEF Core, Closed
  <2> QED BY <2>1, <2>2
<1>13. Marked(h, m, S)
  BY <1>9, <1>11, <1>12, CoreTidy, ReallymarkMarks DEF Core
<1>14. Core(kind, refs, open, mode, m, X) /\ Marking(m)
  <2> HIDE DEF m, S, X
  <2>1. Core(kind, refs, open, mode, m, X)
    BY <1>9, <1>12, <1>13, MarkedCore
  <2>2. Marking(m)
    BY <1>9, <1>13 DEF Marked, SamePlace, Marking
  <2> QED BY <2>1, <2>2
<1>15. SameLists(h, m) /\ SameThreads(h, m) /\ SameGrays(h, m) /\ SamePlace(h, m) /\ m \in GState
       /\ m.gray = h.gray \cup {o \in NW(m) \ NW(h) : ~AtOnce(o)}
       /\ NW(h) \subseteq NW(m) /\ S \subseteq NW(m)
  BY <1>13 DEF Marked
<1>16. kept \in SUBSET All /\ m.touched \ seen \in SUBSET All
  BY <1>15 DEF GState, SameThreads
<1>17. f = [m EXCEPT !.twups = kept, !.touched = @ \ seen, !.stage = "roots"]
  BY DEF remarkupvals
<1> HIDE DEF m, f, kept, seen, S
<1>18. /\ f \in GState /\ SameLists(m, f) /\ SameGrays(m, f) /\ f.mark = m.mark
       /\ f.gray = m.gray
       /\ f.sweepgc = m.sweepgc /\ f.openupval = m.openupval /\ f.twups = kept
       /\ f.state = m.state /\ f.stage = "roots"
  BY <1>15, <1>16, <1>17 DEF GState, SameLists, SameGrays, Stages
<1>19. f.state = "inside" /\ m.state = "inside" /\ m.stage = "enter"
  BY <1>2, <1>10, <1>15, <1>18 DEF SamePlace
<1>20. /\ NW(f) = NW(m) /\ Objs(f) = Objs(m) /\ Live(f) = Live(m) /\ Marking(f)
       /\ ~Early(f) /\ ~Early(m) /\ Pending(f) = Pending(m)
  BY <1>18, <1>19 DEF NW, IsWhite, Objs, Listed, SameLists, Live, isdead, Marking, Early,
     Pending, SameGrays
<1>21. h.openupval = g.openupval /\ h.twups = g.twups /\ h.touched = g.touched
       /\ m.openupval = g.openupval
  BY <1>2, <1>10, <1>15 DEF SameThreads
<1>22. g.openupval \subseteq g.twups /\ g.openupval \subseteq All
  <2>1. g.openupval \subseteq Live(g)
    BY <1>1 DEF Core, Shape, Whites
  <2> QED BY <1>1, <2>1, TypeFacts DEF Core, Threads
<1>23. \A k \in g.openupval : k \in NW(g) => k \in kept
  <2>1. \A k \in g.openupval : Thread(kind, k)
    BY <1>1 DEF Core, Shape, Thread
  <2>2. \A k \in g.openupval : k \in NW(g) => g.mark[k] = "gray"
    BY <1>1, <2>1 DEF Core, Threads
  <2> QED BY <1>7, <1>21, <1>22, <2>2 DEF kept
<1>24. ASSUME NEW c \in X, c \in NW(f), c \notin Pending(f)
       PROVE  Covered(kind, refs, open, f, c)
  <2>1. c \in NW(g) /\ c \notin Pending(g)
    <3>1. KindIn(kind, c) = "closure"
      BY <1>1, KindInObject DEF Core, Shape
    <3>2. c \in NW(h)
      BY <1>15, <1>18, <1>20, <1>24, <3>1, Reading DEF Pending, AtOnce
    <3>3. Pending(g) \subseteq Pending(f)
      BY <1>2, <1>3, <1>10, <1>15, <1>18, <1>19 DEF Pending, Early, SameGrays, SamePlace
    <3> QED BY <1>7, <1>24, <3>2, <3>3
  <2>2. Covered(kind, refs, open, g, c)
    BY <1>1, <2>1 DEF Core, Coverage
  <2>3. open[c] \in g.touched /\ open[c] \in g.openupval
    BY <1>1, <1>3, <2>2 DEF Covered, Core, Shape
  <2>4. open[c] \in NW(f) \/ Val(refs, open[c]) \subseteq NW(f)
    <3>1. CASE open[c] \in kept
      <4>1. open[c] \in All /\ h.mark[open[c]] = "gray"
        BY <1>22, <2>3, <3>1 DEF kept
      <4>2. open[c] \in NW(h)
        BY <4>1 DEF NW, IsWhite
      <4> QED BY <1>15, <1>20, <4>2
    <3>2. CASE open[c] \notin kept
      <4>1. open[c] \in seen
        BY <1>21, <1>22, <2>3, <3>2 DEF seen
      <4> QED BY <1>15, <1>20, <4>1, Reading DEF S
    <3> QED BY <3>1, <3>2
  <2>5. Val(refs, c) = {} /\ Key(refs, c) = {}
    BY <1>1 DEF Core, Shape, Val, Key
  <2> QED BY <1>20, <2>4, <2>5 DEF Covered
<1>25. Core(kind, refs, open, mode, f, {})
  <2>1. Types(kind, refs, open, mode, f) /\ Shape(kind, refs, open, f)
    BY <1>14, <1>18, <1>20 DEF Core, Types, Shape, SameLists
  <2>2. Closed(refs, open, f) /\ Whites(f) /\ Threads(kind, f)
    BY <1>14, <1>18, <1>19, <1>20 DEF Core, Closed, Whites, Threads
  <2>3. RootsLive(f)
    <3>1. kept \subseteq m.twups
      BY <1>15 DEF kept, SameThreads
    <3> QED BY <1>14, <1>18, <1>20, <3>1 DEF Core, RootsLive, SameLists
  <2>4. ASSUME NEW x \in NW(f) \ X, x \notin Pending(f)
        PROVE  Covered(kind, refs, open, f, x)
    <3>1. Covered(kind, refs, open, m, x)
      BY <1>14, <1>20, <2>4 DEF Core, Coverage
    <3> QED BY <1>18, <1>20, <2>4, <3>1 DEF Covered, SameGrays
  <2>5. Coverage(kind, refs, open, f, {})
    BY <1>24, <2>4 DEF Coverage
  <2>6. Grays(kind, f)
    <3>1. m.next = {}
      BY <1>14, <1>19 DEF Core, Grays, Converging
    <3> QED BY <1>14, <1>18, <1>20, <3>1 DEF Core, Grays, GrayLists, SameGrays
  <2>7. Lists(f, {})
    BY <1>18 DEF Lists
  <2> QED BY <2>1, <2>2, <2>3, <2>5, <2>6, <2>7 DEF Core
<1>26. Rest(refs, f, {}) /\ Rounds(kind, refs, f)
  <2>1. SameLists(g, f) /\ f.sweepgc = g.sweepgc
    BY <1>2, <1>10, <1>15, <1>18 DEF SameLists, SamePlace
  <2>2. \A name : ListOf(f, name) = ListOf(g, name)
    BY <2>1 DEF ListOf, SameLists
  <2>3. Phase(f)
    BY <1>1, <1>18, <1>19, <2>1, <2>2 DEF Rest, Phase
  <2>4. RootsMarked(f)
    BY <1>1, <1>7, <1>15, <1>20, <2>1 DEF Rest, RootsMarked, SameLists
  <2>5. Atomic(f, {})
    <3>1. kept \subseteq NW(f)
      <4>1. kept \subseteq All
        BY <1>16
      <4>2. kept \subseteq NW(h)
        BY <4>1 DEF kept, NW, IsWhite
      <4> QED BY <1>15, <1>20, <4>2
    <3>2. \A k \in f.openupval : k \in NW(f) => k \in kept \/ k \in f.gray
      <4>1. \A k \in g.openupval : ~AtOnce(k)
        BY <1>1, Reading DEF Core, Shape, AtOnce
      <4> QED BY <1>7, <1>15, <1>18, <1>20, <1>21, <1>23, <4>1
    <3> QED BY <1>18, <3>1, <3>2 DEF Atomic, Pending
  <2>6. Resurrected(refs, f) /\ Rounds(kind, refs, f)
    BY <1>18 DEF Resurrected, Rounds, Resurrecting, Converging
  <2> QED BY <2>3, <2>4, <2>5, <2>6 DEF Rest
<1>27. Listed(g) = Listed(f)
  BY <1>2, <1>10, <1>15, <1>18 DEF SameLists, Listed
<1> QED BY <1>1, <1>25, <1>26, <1>27, QuietStep DEF Inv

\* References that are taken away do no harm.
LEMMA Shrink ==
  ASSUME NEW k, NEW r, NEW op, NEW md, NEW h, NEW X, Core(k, r, op, md, h, X),
         NEW c \in [All -> SUBSET ((Object \cup {Null}) \X Object)],
         \A o \in All : c[o] \subseteq r[o]
  PROVE  Core(k, c, op, md, h, X)
<1>1. \A o \in All : Val(c, o) \subseteq Val(r, o) /\ Key(c, o) \subseteq Key(r, o)
  BY DEF Val, Key
<1>2. Types(k, c, op, md, h)
  BY DEF Core, Types
<1>3. Objs(h) \subseteq All /\ NW(h) \subseteq All /\ \A o \in Object : op[o] \in Object \cup {Null}
  BY TypeFacts DEF Core
<1>4. Shape(k, c, op, h)
  <2>1. \A o \in All : /\ KindIn(k, o) # "table" => Key(c, o) = {}
                       /\ KindIn(k, o) = "string" => c[o] = {}
                       /\ o \notin Objs(h) => c[o] = {} /\ o \notin NW(h)
    BY <1>1 DEF Core, Shape
  <2>2. \A o \in Object : op[o] # Null => c[o] = {}
    BY Constants DEF Core, Shape
  <2> QED BY <2>1, <2>2 DEF Core, Shape
<1>5. Closed(c, op, h)
  <2> SUFFICES ASSUME NEW o \in Live(h)
               PROVE  /\ Val(c, o) \cup Key(c, o) \subseteq Live(h)
                      /\ o \in Object /\ op[o] # Null => Val(c, op[o]) \subseteq Live(h)
    BY DEF Closed
  <2>1. o \in All
    BY <1>3 DEF Live
  <2>2. o \in Object /\ op[o] # Null => op[o] \in All
    BY <1>3, Constants
  <2> QED BY <1>1, <2>1, <2>2 DEF Core, Closed
<1>6. Coverage(k, c, op, h, X)
  <2> SUFFICES ASSUME NEW o \in NW(h) \ X, Covered(k, r, op, h, o)
               PROVE  Covered(k, c, op, h, o)
    BY DEF Core, Coverage
  <2>1. o \in All
    BY <1>3
  <2>2. o \in Object /\ op[o] # Null => op[o] \in All
    BY <1>3, Constants
  <2> QED BY <1>1, <2>1, <2>2 DEF Covered
<1> QED BY <1>2, <1>4, <1>5, <1>6 DEF Core

\* Taking objects out of finobj leaves everything as it was, but for the roots.
LEMMA Separated ==
  ASSUME NEW h, Core(kind, refs, open, mode, h, {}), Rest(refs, h, {}), h.state = "inside",
         h.stage = "converge", NEW s, s = separatetobefnz(h)
  PROVE  /\ Core(kind, refs, open, mode, s, {}) /\ Marking(s)
         /\ Range(s.finobj) \subseteq NW(s) /\ Listed(s) = Listed(h) /\ NW(s) = NW(h)
         /\ SamePlace(h, s) /\ SameThreads(h, s) /\ SameGrays(h, s) /\ s.gray = h.gray
         /\ s \in GState /\ Range(s.tobefnz) \subseteq Objs(s)
<1> DEFINE white == {o \in All : IsWhite(h, o)}
           taken == Those(h.finobj, white)
           left == Those(h.finobj, All \ white)
<1>1. h \in GState /\ h.finobj \in Seq(Object) /\ h.tobefnz \in Seq(Object)
  BY DEF Core, Types, GState
<1>2. /\ taken \in Seq(Object) /\ Range(taken) = Range(h.finobj) \cap white
      /\ left \in Seq(Object) /\ Range(left) = Range(h.finobj) \cap (All \ white)
  BY <1>1, ThoseProperties
<1>3. Range(h.finobj) \subseteq All
  BY <1>1, RangeOfSeq, Constants
<1>4. Len(taken) + Len(left) = Len(h.finobj)
  BY <1>1, <1>3, ThoseSplit
<1>5. s = [h EXCEPT !.tobefnz = @ \o taken, !.finobj = left]
  BY DEF separatetobefnz
<1>6. /\ h.tobefnz \o taken \in Seq(Object)
      /\ Len(h.tobefnz \o taken) = Len(h.tobefnz) + Len(taken)
      /\ Range(h.tobefnz \o taken) = Range(h.tobefnz) \cup Range(taken)
  <2> HIDE DEF taken, left
  <2> QED BY <1>1, <1>2, ConcatProperties, RangeConcatenation
<1> HIDE DEF taken, left
<1>7. /\ s \in GState /\ s.tobefnz = h.tobefnz \o taken /\ s.finobj = left
      /\ s.allgc = h.allgc
      /\ SamePlace(h, s) /\ SameThreads(h, s) /\ SameGrays(h, s)
      /\ s.mark = h.mark /\ s.gray = h.gray
  BY <1>1, <1>2, <1>5, <1>6 DEF GState, SamePlace, SameThreads, SameGrays
<1>8. Range(s.finobj) \cup Range(s.tobefnz) = Range(h.finobj) \cup Range(h.tobefnz)
  BY <1>2, <1>3, <1>6, <1>7
<1>9. Listed(s) = Listed(h)
  BY <1>7, <1>8 DEF Listed
<1>10. /\ NW(s) = NW(h) /\ Objs(s) = Objs(h) /\ Live(s) = Live(h) /\ Marking(s)
       /\ Marking(h)
       /\ Pending(s) = Pending(h) /\ ~Early(s) /\ ~Early(h)
  BY <1>7, <1>9 DEF NW, IsWhite, Objs, Live, isdead, Marking, Pending, Early, SamePlace,
     SameGrays
<1>11. Len(s.finobj) + Len(s.tobefnz) = Len(h.finobj) + Len(h.tobefnz)
  <2>1. /\ Len(taken) \in Nat /\ Len(left) \in Nat /\ Len(h.tobefnz) \in Nat
    BY <1>1, <1>2, LenProperties
  <2>2. Len(s.finobj) = Len(left) /\ Len(s.tobefnz) = Len(h.tobefnz) + Len(taken)
    BY <1>6, <1>7
  <2>3. PICK a \in Nat, b \in Nat, d \in Nat : a = Len(taken) /\ b = Len(left) /\ d = Len(h.tobefnz)
    BY <2>1
  <2>4. Len(h.finobj) = a + b /\ Len(s.finobj) = b /\ Len(s.tobefnz) = d + a
    BY <1>4, <2>2, <2>3
  <2>5. b + (d + a) = (a + b) + d
    OBVIOUS
  <2> QED BY <2>3, <2>4, <2>5
<1>12. Core(kind, refs, open, mode, s, {})
  <2>1. Types(kind, refs, open, mode, s)
    BY <1>7 DEF Core, Types
  <2>2. Shape(kind, refs, open, s)
    BY <1>7, <1>10, <1>11 DEF Core, Shape, SameThreads
  <2>3. Closed(refs, open, s) /\ Whites(s) /\ Threads(kind, s)
    BY <1>7, <1>10 DEF Core, Closed, Whites, Threads, SameThreads, SamePlace
  <2>4. RootsLive(s)
    BY <1>7, <1>8, <1>10 DEF Core, RootsLive, SameThreads
  <2>5. \A x : Covered(kind, refs, open, h, x) <=> Covered(kind, refs, open, s, x)
    BY <1>7, <1>10 DEF Covered, SameGrays
  <2>6. Coverage(kind, refs, open, s, {})
    BY <1>10, <2>5 DEF Core, Coverage
  <2>7. Grays(kind, s) /\ Lists(s, {})
    BY <1>7, <1>10 DEF Core, Grays, GrayLists, Lists, SameGrays, SamePlace
  <2> QED BY <2>1, <2>2, <2>3, <2>4, <2>6, <2>7 DEF Core
<1>13. Range(s.finobj) \subseteq NW(s)
  BY <1>2, <1>7, <1>10 DEF NW
<1>14. Range(s.tobefnz) \subseteq Objs(s)
  BY DEF Objs, Listed
<1> QED BY <1>7, <1>9, <1>10, <1>12, <1>13, <1>14

\* Weak values go, and what waits for its finalizer is marked.
LEMMA AtomicClear ==
  ASSUME IInv, atomic_clear
  PROVE  IInv'
<1> DEFINE ts == g.weak \cup g.allweak
           strings == StringsIn(UNION {Values(t) : t \in ts})
           h == reallymark(g, strings)
           c == WithoutValues(h, refs, ts)
           b == separatetobefnz(h)
           s == reallymark(b, Range(b.tobefnz))
           f == [s EXCEPT !.origweak = g.weak, !.origall = g.allweak, !.stage = "resurrect"]
<1>1. /\ g \in GState /\ g.stage = "converge" /\ g.state = "inside" /\ Marking(g)
      /\ Core(kind, refs, open, mode, g, {}) /\ Rest(refs, g, {}) /\ g.next = {}
      /\ g.gray = {}
      /\ Heap(f, c)
  BY DEF IInv, Inv, Core, Types, atomic_clear, Converged, Emptied, Marking, Rest, Phase,
     Separate
<1>2. strings \subseteq Objs(g)
  <2>1. ts \subseteq Live(g) /\ Live(g) = Objs(g)
    BY <1>1 DEF Core, Grays, GrayLists, Shape, Whites, NW
  <2> QED BY <1>1, <2>1, Reading DEF Core, Closed, StringsIn
<1>3. /\ Core(kind, refs, open, mode, h, {}) /\ Rest(refs, h, {}) /\ Marking(h)
      /\ Marked(g, h, strings)
  BY <1>1, <1>2, Mark
<1> HIDE DEF h, b
<1>4. /\ h \in GState /\ SameLists(g, h) /\ SamePlace(g, h) /\ SameThreads(g, h)
      /\ SameGrays(g, h)
      /\ strings \subseteq NW(h)
  BY <1>3 DEF Marked
<1>5. /\ Core(kind, refs, open, mode, b, {}) /\ Marking(b)
      /\ Range(b.finobj) \subseteq NW(b) /\ Listed(b) = Listed(h) /\ NW(b) = NW(h)
      /\ SamePlace(h, b) /\ SameThreads(h, b) /\ SameGrays(h, b) /\ b.gray = h.gray
      /\ b \in GState /\ Range(b.tobefnz) \subseteq Objs(b)
  BY <1>1, <1>3, <1>4, Separated DEF b, SamePlace
<1>6. Marked(b, s, Range(b.tobefnz))
  <2>1. Range(b.tobefnz) \in SUBSET All
    BY <1>5, TypeFacts DEF Core
  <2> QED BY <1>5, <2>1, CoreTidy, ReallymarkMarks DEF Core
<1> HIDE DEF s
<1>7. Core(kind, refs, open, mode, s, {})
  BY <1>5, <1>6, MarkedCore
<1>8. /\ s \in GState /\ SameLists(b, s) /\ SamePlace(b, s) /\ SameThreads(b, s)
      /\ SameGrays(b, s)
      /\ NW(b) \subseteq NW(s) /\ Range(b.tobefnz) \subseteq NW(s)
      /\ s.gray = b.gray \cup {o \in NW(s) \ NW(b) : ~AtOnce(o)}
  BY <1>6 DEF Marked
<1>9. s.state = "inside" /\ s.stage = "converge" /\ s.sweepgc = NoSweep
  BY <1>1, <1>4, <1>5, <1>8 DEF SamePlace, Rest, Phase
<1>10. /\ f \in GState /\ SameLists(s, f) /\ SameThreads(s, f) /\ f.mark = s.mark
       /\ f.gray = s.gray
       /\ f.sweepgc = s.sweepgc /\ f.state = "inside" /\ f.stage = "resurrect"
       /\ f.weak = s.weak /\ f.allweak = s.allweak /\ f.ephemeron = s.ephemeron
       /\ f.next = s.next /\ f.saved = s.saved /\ f.grayagain = s.grayagain
       /\ f.origweak = g.weak /\ f.origall = g.allweak
  BY <1>1, <1>8, <1>9 DEF GState, SameLists, SameThreads, Stages
<1> HIDE DEF f
<1>11. /\ NW(f) = NW(s) /\ Objs(f) = Objs(s) /\ Live(f) = Live(s) /\ Marking(f)
       /\ Marking(s)
       /\ Pending(f) = Pending(s) /\ ~Early(f) /\ ~Early(s)
  BY <1>9, <1>10 DEF NW, IsWhite, Objs, Listed, SameLists, Live, isdead, Marking, Pending,
     Early
<1>12. s.next = {}
  BY <1>1, <1>4, <1>5, <1>8 DEF SameGrays
<1>13. Core(kind, refs, open, mode, f, {})
  <2>1. Types(kind, refs, open, mode, f) /\ Shape(kind, refs, open, f)
    BY <1>7, <1>10, <1>11 DEF Core, Types, Shape, SameLists, SameThreads
  <2>2. Closed(refs, open, f) /\ RootsLive(f) /\ Whites(f) /\ Threads(kind, f)
    BY <1>7, <1>9, <1>10, <1>11 DEF Core, Closed, RootsLive, Whites, Threads, SameLists,
       SameThreads
  <2>3. \A x : Covered(kind, refs, open, s, x) <=> Covered(kind, refs, open, f, x)
    BY <1>10, <1>11 DEF Covered
  <2>4. Coverage(kind, refs, open, f, {})
    BY <1>7, <1>11, <2>3 DEF Core, Coverage
  <2>5. Grays(kind, f) /\ Lists(f, {})
    BY <1>7, <1>10, <1>11, <1>12 DEF Core, Grays, GrayLists, Lists
  <2> QED BY <2>1, <2>2, <2>4, <2>5 DEF Core
<1>14. /\ c \in [All -> SUBSET ((Object \cup {Null}) \X Object)]
       /\ \A o \in All : c[o] \subseteq refs[o]
  <2>1. refs \in [All -> SUBSET ((Object \cup {Null}) \X Object)]
    BY <1>1 DEF Core, Types
  <2> QED BY <2>1 DEF WithoutValues
<1>15. \A t \in ts : Val(c, t) \subseteq NW(h)
  <2> SUFFICES ASSUME NEW t \in ts, NEW e \in c[t] PROVE e[2] \in NW(h)
    BY DEF Val
  <2>1. t \in All
    BY <1>1 DEF GState
  <2>2. e \in refs[t] /\ ~Cleared(h, e[2])
    BY <2>1 DEF WithoutValues
  <2>3. e[2] \in Values(t) /\ e[2] \in Object
    BY <1>1, <2>1, <2>2 DEF Values, Core, Types
  <2>4. e[2] # Null /\ e[2] \in All
    BY <2>3, Constants
  <2> QED BY <1>4, <2>2, <2>3, <2>4 DEF Cleared, NW, StringsIn
<1> HIDE DEF c, ts
<1>16. Core(kind, c, open, mode, f, {})
  BY <1>13, <1>14, Shrink
<1>17. Rest(c, f, {}) /\ Rounds(kind, c, f)
  <2>1. NW(h) \subseteq NW(f)
    BY <1>5, <1>8, <1>11
  <2>2. Phase(f)
    <3>1. Len(ListOf(f, "none")) \in Nat
      BY <1>10, LenProperties DEF ListOf, GState
    <3> QED BY <1>9, <1>10, <3>1 DEF Phase, NoSweep
  <2>3. RootsMarked(f)
    BY <1>3, <1>8, <1>10, <1>11, <2>1 DEF RootsMarked, Rest, SameLists
  <2>4. Atomic(f, {})
    <3>1. h.state = "inside"
      BY <1>1, <1>4 DEF SamePlace
    <3>2. h.twups \subseteq NW(h) /\ h.openupval \cap NW(h) \subseteq h.twups \cup Pending(h)
      BY <1>3, <3>1 DEF Rest, Atomic
    <3>3. f.twups = h.twups /\ f.openupval = h.openupval
      BY <1>5, <1>8, <1>10 DEF SameThreads
    <3>4. Pending(h) = h.gray
      BY <1>1, <1>4 DEF Pending, Early, SamePlace
    <3>5. Pending(f) = f.gray /\ f.gray = h.gray \cup {o \in NW(s) \ NW(b) : ~AtOnce(o)}
      BY <1>5, <1>8, <1>10, <1>11 DEF Pending
    <3>6. \A k \in h.openupval : ~AtOnce(k)
      BY <1>3, Reading DEF Core, Shape, AtOnce
    <3>7. f.openupval \cap NW(f) \subseteq f.twups \cup Pending(f)
      BY <1>5, <1>11, <3>2, <3>3, <3>4, <3>5, <3>6
    <3>8. f.twups \subseteq NW(f)
      BY <2>1, <3>2, <3>3
    <3> QED BY <3>7, <3>8 DEF Atomic
  <2>5. Resurrected(c, f)
    <3>1. Range(f.finobj) \subseteq NW(f)
      BY <1>5, <1>8, <1>10, <1>11 DEF SameLists
    <3>2. \A t \in f.origweak \cup f.origall : Val(c, t) \subseteq NW(f)
      BY <1>10, <1>15, <2>1 DEF ts
    <3> QED BY <3>1, <3>2 DEF Resurrected
  <2>6. Rounds(kind, c, f)
    BY <1>10 DEF Rounds, Converging
  <2> QED BY <2>2, <2>3, <2>4, <2>5, <2>6 DEF Rest
<1>18. Listed(g) = Listed(f)
  BY <1>4, <1>5, <1>8, <1>10 DEF SameLists, Listed
<1>19. g' = f /\ refs' = c /\ open' = open /\ mode' = mode /\ kind' = kind
  BY <1>1, <1>10, <1>14, <1>18, Quiet DEF Core
<1> QED BY <1>16, <1>17, <1>19 DEF IInv, Inv

\* All that there is is white when a cycle begins.
LEMMA Pause ==
  ASSUME IInv, pause
  PROVE  IInv'
<1> DEFINE b == [NoGray(g) EXCEPT !.state = "propagate"]
           S == {Main, Registry} \cup Range(g.tobefnz)
           h == reallymark(b, S)
<1>1. /\ g \in GState /\ g.state = "pause" /\ g.stage = "none" /\ ~Marking(g)
      /\ Core(kind, refs, open, mode, g, {}) /\ Rest(refs, g, {})
      /\ Heap(h, refs)
  BY DEF IInv, Inv, Core, Types, pause, Between, Marking, restartcollection
<1>2. /\ b \in GState /\ SameLists(g, b) /\ SameThreads(g, b) /\ b.mark = g.mark
      /\ b.state = "propagate" /\ b.stage = "none" /\ b.sweepgc = g.sweepgc
      /\ b.gray = {} /\ b.grayagain = {} /\ b.weak = {} /\ b.allweak = {}
      /\ b.ephemeron = {} /\ b.next = {} /\ b.saved = {}
  BY <1>1 DEF GState, NoGray, States, SameLists, SameThreads
<1> HIDE DEF b
<1>3. /\ NW(b) = NW(g) /\ Objs(b) = Objs(g) /\ Live(b) = Live(g) /\ Marking(b) /\ Early(b)
  BY <1>2 DEF NW, IsWhite, Objs, Listed, SameLists, Live, isdead, Marking, Early
<1>4. \A o \in Objs(g) : g.mark[o] = "white"
  BY <1>1 DEF Core, Whites, Unswept
<1>5. Objs(g) \subseteq All
  BY <1>1, TypeFacts DEF Core
<1>6. NW(g) = {} /\ Live(g) = Objs(g)
  BY <1>1, <1>4, <1>5 DEF Core, Shape, NW, IsWhite, Live, isdead
<1>7. Core(kind, refs, open, mode, b, {})
  <2>1. Types(kind, refs, open, mode, b) /\ Shape(kind, refs, open, b)
    BY <1>1, <1>2, <1>3 DEF Core, Types, Shape, SameLists, SameThreads
  <2>2. Closed(refs, open, b) /\ RootsLive(b)
    BY <1>1, <1>2, <1>3 DEF Core, Closed, RootsLive, SameLists, SameThreads
  <2>3. Whites(b) /\ Threads(kind, b)
    BY <1>1, <1>2, <1>3, <1>6 DEF Core, Whites, Threads, SameThreads
  <2>4. Coverage(kind, refs, open, b, {}) /\ Lists(b, {}) /\ Grays(kind, b)
    BY <1>2, <1>3, <1>6 DEF Coverage, Lists, Grays, GrayLists
  <2> QED BY <2>1, <2>2, <2>3, <2>4 DEF Core
<1>8. S \subseteq Objs(b) /\ S \in SUBSET All
  BY <1>1, <1>3, <1>5 DEF Core, RootsLive, Live
<1>9. Marked(b, h, S)
  BY <1>7, <1>8, CoreTidy, ReallymarkMarks DEF Core
<1> HIDE DEF h, S
<1>10. Core(kind, refs, open, mode, h, {})
  BY <1>3, <1>7, <1>8, <1>9, MarkedCore
<1>11. /\ h \in GState /\ SameLists(b, h) /\ SamePlace(b, h) /\ SameThreads(b, h)
       /\ S \subseteq NW(h)
  BY <1>9 DEF Marked
<1>12. h.state = "propagate" /\ h.stage = "none" /\ h.sweepgc = NoSweep
  BY <1>1, <1>2, <1>11 DEF SamePlace, Rest, Phase
<1>13. Phase(h)
  <2>1. Len(ListOf(h, "none")) \in Nat
    BY <1>11, LenProperties DEF ListOf, GState
  <2> QED BY <1>12, <2>1 DEF Phase, NoSweep
<1>14. RootsMarked(h)
  BY <1>2, <1>11 DEF RootsMarked, SameLists, S
<1>15. Atomic(h, {}) /\ Resurrected(refs, h) /\ Rounds(kind, refs, h)
  BY <1>12 DEF Atomic, Resurrected, Rounds, Resurrecting, Converging
<1>16. Listed(g) = Listed(h)
  BY <1>2, <1>11 DEF SameLists, Listed
<1> QED BY <1>1, <1>10, <1>13, <1>14, <1>15, <1>16, QuietStep DEF Inv, Rest

-----------------------------------------------------------------------------
(* Sweeping.  Outside the marking only part of the invariant says something. *)

Calm(k, r, op, m, h) ==
  /\ Types(k, r, op, m, h) /\ Shape(k, r, op, h) /\ Closed(r, op, h) /\ RootsLive(h)
  /\ Whites(h) /\ Phase(h) /\ ~Marking(h)
  /\ h.openupval \cap Live(h) \subseteq h.twups

\* Outside the marking the invariant is only this.
LEMMA CalmInv ==
  ASSUME NEW k, NEW r, NEW op, NEW m, NEW h, ~Marking(h)
  PROVE  Inv(k, r, op, m, h) <=> Calm(k, r, op, m, h)
<1>1. Phase(h) => h.stage = "none"
  BY DEF Phase, Marking
<1>2. Phase(h) => Rest(r, h, {}) /\ Rounds(k, r, h)
  BY <1>1 DEF Rest, RootsMarked, Atomic, Resurrected, Rounds, Resurrecting, Converging,
     Marking
<1>3. Coverage(k, r, op, h, {}) /\ Grays(k, h) /\ Lists(h, {})
  BY DEF Coverage, Grays, Lists
<1>4. Threads(k, h) <=> h.openupval \cap Live(h) \subseteq h.twups
  BY DEF Threads, Marking
<1> QED BY <1>2, <1>3, <1>4 DEF Inv, Core, Calm, Rest

\* A sweep takes away what is dead, and makes white what lives.
Swept(b, h) ==
  /\ h \in GState /\ SameThreads(b, h)
  /\ Listed(h) \subseteq Listed(b) /\ Live(b) \subseteq Objs(h)
  /\ Range(h.finobj) \cup Range(h.tobefnz) \subseteq Live(b)
  /\ Registry \in Range(h.allgc)
  /\ Len(h.finobj) + Len(h.tobefnz) <= MaxFinal
  /\ \A o \in All : \/ h.mark[o] \in {"white", "other", "gray", "black"} /\ h.mark[o] = b.mark[o]
                    \/ o \in Live(b) /\ h.mark[o] = "white"
  /\ Whites(h) /\ Phase(h) /\ ~Marking(h)

\* A sweep, and freeing what it took off the lists, keep the invariant.
LEMMA Freed ==
  ASSUME NEW b, NEW h, NEW c, Calm(kind, c, open, mode, b), mode \in [All -> Modes],
         Listed(b) = Listed(g), Swept(b, h), Heap(h, c)
  PROVE  IInv'
<1> DEFINE freed == Listed(g) \ Listed(h)
           closing == {o \in Object \ freed : open[o] \in freed}
<1>1. /\ b \in GState /\ h \in GState /\ open \in [Object -> Object \cup {Null}]
      /\ kind \in [Object -> Kinds]
      /\ c \in [All -> SUBSET ((Object \cup {Null}) \X Object)]
      /\ Objs(b) \subseteq All
      /\ \A o \in All : Val(c, o) \subseteq Object
  BY TypeFacts DEF Calm, Types, Swept
<1>2. /\ Objs(b) = Listed(b) \cup {Main} /\ Main \notin Listed(b) /\ Listed(b) \subseteq All
  <2>1. Range(b.allgc) \cup Range(b.finobj) \cup Range(b.tobefnz) \subseteq Object \cup {Registry}
    BY TypeFacts DEF Calm
  <2> QED BY <2>1, Constants DEF Objs, Listed
<1>3. Objs(h) = Objs(b) \ freed /\ freed \subseteq Objs(b) /\ freed \subseteq All
  BY <1>2 DEF Objs, Swept
<1>4. Live(h) = Live(b)
  BY <1>1, <1>2, <1>3 DEF Live, isdead, Swept
<1>5. freed \cap Live(b) = {}
  BY <1>3 DEF Swept, Live
<1>6. /\ g' = [h EXCEPT !.openupval = @ \ freed, !.touched = @ \ freed,
                         !.mark = [o \in All |-> IF o \in freed THEN "white" ELSE @[o]]]
      /\ refs' = [o \in All |-> IF o \in freed THEN {}
                                ELSE IF o \in closing THEN c[open[o]] ELSE c[o]]
      /\ open' = [o \in Object |-> IF o \in freed \cup closing THEN Null ELSE open[o]]
      /\ mode' = [o \in All |-> IF o \in freed THEN "strong" ELSE mode[o]]
      /\ kind' = kind
  BY DEF Heap
<1> DEFINE G == g'
           R == refs'
           P == open'
<1>7. closing \subseteq Object /\ \A o \in closing : /\ kind[o] = "closure" /\ o \in Objs(h)
                                                    /\ open[o] \in Object /\ open[o] # Null
                                                    /\ kind[open[o]] = "coroutine"
  <2> SUFFICES ASSUME NEW o \in closing
               PROVE  /\ kind[o] = "closure" /\ o \in Objs(h)
                      /\ open[o] \in Object /\ open[o] # Null
                      /\ kind[open[o]] = "coroutine"
    OBVIOUS
  <2>1. open[o] \in Object /\ open[o] # Null
    BY <1>1, <1>3, Constants
  <2>2. kind[o] = "closure" /\ kind[open[o]] = "coroutine" /\ o \in Objs(b)
    BY <2>1 DEF Calm, Shape
  <2> QED BY <1>3, <2>1, <2>2
<1>8. /\ G \in GState /\ SameLists(h, G) /\ SamePlace(h, G) /\ G.twups = h.twups
      /\ G.openupval = h.openupval \ freed
      /\ \A o \in All : G.mark[o] = IF o \in freed THEN "white" ELSE h.mark[o]
  <2> HIDE DEF freed
  <2>1. [o \in All |-> IF o \in freed THEN "white" ELSE h.mark[o]] \in Marks
    BY <1>1 DEF GState, Marks
  <2> QED BY <1>1, <1>6, <2>1 DEF GState, Marks, SameLists, SamePlace
<1>9. /\ \A o \in All : R[o] = IF o \in freed THEN {}
                                ELSE IF o \in closing THEN c[open[o]] ELSE c[o]
      /\ \A o \in Object : P[o] = IF o \in freed \cup closing THEN Null ELSE open[o]
  BY <1>6
<1>10. Types(kind, R, P, mode', G)
  <2> HIDE DEF freed, closing
  <2>1. mode' \in [All -> Modes]
    BY <1>6 DEF Modes
  <2>2. P \in [Object -> Object \cup {Null}]
    BY <1>1, <1>6
  <2>3. \A o \in closing : open[o] \in All
    BY <1>7, Constants
  <2>4. R \in [All -> SUBSET ((Object \cup {Null}) \X Object)]
    BY <1>1, <1>6, <2>3
  <2> QED BY <1>1, <1>8, <2>1, <2>2, <2>4 DEF Types
<1> HIDE DEF freed, closing, G, R, P
<1>11. Objs(G) = Objs(h) /\ (Marking(G) <=> Marking(h)) /\ Listed(G) = Listed(h)
  BY <1>8 DEF Objs, Listed, SameLists, SamePlace, Marking
<1>12. Live(G) = Live(b)
  BY <1>1, <1>3, <1>4, <1>8, <1>11 DEF Live, isdead
<1>13. \A o \in All : o \in closing => o \notin freed
  BY DEF closing
<1>14. Shape(kind, R, P, G)
  <2>1. Registry \in Range(G.allgc) /\ Len(G.finobj) + Len(G.tobefnz) <= MaxFinal
    BY <1>8 DEF SameLists, Swept
  <2>2. ASSUME NEW o \in All
        PROVE  /\ KindIn(kind, o) # "table" => Key(R, o) = {}
               /\ KindIn(kind, o) = "string" => R[o] = {}
               /\ o \notin Objs(G) => R[o] = {} /\ o \notin NW(G)
    <3>1. CASE o \in freed
      BY <1>8, <1>9, <3>1 DEF Key, NW, IsWhite
    <3>2. CASE o \in closing
      <4>1. R[o] = c[open[o]] /\ o \in Objs(G) /\ open[o] \in All
        BY <1>7, <1>9, <1>11, <1>13, <3>2, Constants
      <4>2. KindIn(kind, o) = "closure" /\ KindIn(kind, open[o]) = "coroutine"
        BY <1>7, <3>2, KindInObject
      <4>3. Key(c, open[o]) = {}
        BY <4>1, <4>2 DEF Calm, Shape
      <4> QED BY <4>1, <4>2, <4>3 DEF Key
    <3>3. CASE o \notin freed \cup closing
      <4>1. R[o] = c[o] /\ G.mark[o] = h.mark[o]
        BY <1>8, <1>9, <3>3
      <4>2. o \notin Objs(G) => o \notin Objs(b)
        BY <1>3, <1>11, <3>3
      <4>3. o \notin Objs(G) => G.mark[o] = b.mark[o]
        BY <4>1, <4>2 DEF Swept, Live
      <4> QED BY <4>1, <4>2, <4>3 DEF Calm, Shape, Key, NW, IsWhite
    <3> QED BY <3>1, <3>2, <3>3
  <2>3. ASSUME NEW o \in Object, P[o] # Null
        PROVE  /\ kind[o] = "closure" /\ kind[P[o]] = "coroutine" /\ R[o] = {}
               /\ o \in Objs(G) /\ P[o] \in G.openupval
    <3>1. o \notin freed \cup closing /\ P[o] = open[o] /\ open[o] \notin freed
      BY <1>9, <2>3 DEF closing
    <3>2. R[o] = c[o]
      BY <1>9, <3>1, Constants
    <3>3. /\ kind[o] = "closure" /\ kind[open[o]] = "coroutine" /\ c[o] = {}
          /\ o \in Objs(b) /\ open[o] \in b.openupval
      BY <2>3, <3>1 DEF Calm, Shape
    <3> QED BY <1>3, <1>8, <1>11, <3>1, <3>2, <3>3 DEF Swept, SameThreads
  <2>4. G.openupval \subseteq {o \in Objs(G) : KindIn(kind, o) = "coroutine"}
    BY <1>3, <1>8, <1>11 DEF Calm, Shape, Swept, SameThreads
  <2> QED BY <2>1, <2>2, <2>3, <2>4 DEF Shape
<1>15. Closed(R, P, G)
  <2> SUFFICES ASSUME NEW o \in Live(b)
               PROVE  /\ Val(R, o) \cup Key(R, o) \subseteq Live(b)
                      /\ o \in Object /\ P[o] # Null => Val(R, P[o]) \subseteq Live(b)
    BY <1>12 DEF Closed
  <2>1. o \notin freed /\ o \in All
    BY <1>1, <1>5 DEF Live
  <2>2. CASE o \in closing
    <3>1. R[o] = c[open[o]] /\ P[o] = Null /\ open[o] \in All /\ o \in Object /\ open[o] # Null
      BY <1>7, <1>9, <2>1, <2>2, Constants
    <3>2. Val(c, open[o]) \subseteq Live(b)
      BY <3>1 DEF Calm, Closed
    <3>3. KindIn(kind, open[o]) = "coroutine"
      BY <1>7, <2>2, KindInObject
    <3>4. Key(c, open[o]) = {}
      BY <3>1, <3>3 DEF Calm, Shape
    <3> QED BY <3>1, <3>2, <3>4 DEF Val, Key
  <2>3. CASE o \notin closing
    <3>1. R[o] = c[o]
      BY <1>9, <2>1, <2>3
    <3>2. Val(R, o) \cup Key(R, o) \subseteq Live(b)
      BY <3>1 DEF Calm, Closed, Val, Key
    <3>3. ASSUME o \in Object, P[o] # Null PROVE Val(R, P[o]) \subseteq Live(b)
      <4>1. P[o] = open[o] /\ open[o] \notin freed /\ open[o] # Null
        BY <1>9, <2>1, <2>3, <3>3 DEF closing
      <4>2. kind[open[o]] = "coroutine" /\ open[o] \in Object
        BY <1>1, <3>3, <4>1 DEF Calm, Shape
      <4>3. open[o] \notin closing
        BY <1>7, <4>2
      <4>4. R[open[o]] = c[open[o]]
        BY <1>9, <4>1, <4>2, <4>3, Constants
      <4>5. Val(c, open[o]) \subseteq Live(b)
        BY <3>3, <4>1 DEF Calm, Closed
      <4> QED BY <4>1, <4>4, <4>5 DEF Val
    <3> QED BY <3>2, <3>3
  <2> QED BY <2>2, <2>3
<1>16. RootsLive(G)
  BY <1>8, <1>12 DEF Calm, RootsLive, Swept, SameLists, SameThreads
<1>17. \A name : ListOf(G, name) = ListOf(h, name)
  BY <1>8 DEF ListOf, SameLists
<1>18. Whites(G)
  <2>1. Unswept(G) = Unswept(h)
    <3>1. ASSUME NEW name PROVE Behind(G, name) = Behind(h, name)
      <4>1. ListOf(G, name) = ListOf(h, name) /\ G.sweepgc = h.sweepgc
        BY <1>8, <1>17 DEF SamePlace
      <4> QED BY <4>1 DEF Behind
    <3>2. G.state = h.state /\ G.finobj = h.finobj /\ G.tobefnz = h.tobefnz
      BY <1>8 DEF SameLists, SamePlace
    <3> QED BY <3>1, <3>2 DEF Unswept
  <2>2. \A o \in All : h.mark[o] = "white" => G.mark[o] = "white"
    BY <1>8
  <2>3. Objs(h) \subseteq All
    BY <1>1, <1>3
  <2>4. \A o \in Objs(G) \ Unswept(G) : G.mark[o] = "white"
    BY <1>11, <2>1, <2>2, <2>3 DEF Swept, Whites
  <2>5. \A i \in 1 .. G.sweepgc.skip : G.mark[ListOf(G, G.sweepgc.list)[i]] = "white"
    <3> SUFFICES ASSUME NEW i \in 1 .. h.sweepgc.skip
                 PROVE  G.mark[ListOf(h, h.sweepgc.list)[i]] = "white"
      BY <1>8, <1>17 DEF SamePlace
    <3> DEFINE s == ListOf(h, h.sweepgc.list)
    <3>1. h.mark[s[i]] = "white"
      BY DEF Swept, Whites
    <3>2. s \in Seq(All) /\ h.sweepgc.skip <= Len(s) /\ h.sweepgc.skip \in Nat
      <4>1. h.sweepgc.skip <= Len(s) /\ h.sweepgc.skip \in Nat
        BY <1>1 DEF Swept, Phase, GState, Places
      <4>2. /\ h.allgc \in Seq(Object \cup {Registry})
            /\ h.finobj \in Seq(Object) /\ h.tobefnz \in Seq(Object)
        BY <1>1 DEF GState
      <4>3. \A x \in Seq(Object) : x \in Seq(All)
        BY Constants, SeqMonotonic
      <4>4. \A x \in Seq(Object \cup {Registry}) : x \in Seq(All)
        BY Constants, SeqMonotonic
      <4> QED BY <4>1, <4>2, <4>3, <4>4 DEF ListOf
    <3>3. s[i] \in All
      <4> HIDE DEF s
      <4>1. i \in 1 .. Len(s)
        BY <3>2, LenProperties
      <4> QED BY <3>2, <4>1, ElementOfSeq
    <3> QED BY <2>2, <3>1, <3>3
  <2> QED BY <1>11, <2>4, <2>5 DEF Whites, Swept
<1>19. Phase(G)
  BY <1>8, <1>17 DEF Swept, Phase, SamePlace
<1>20. G.openupval \cap Live(G) \subseteq G.twups
  BY <1>8, <1>12 DEF Calm, Swept, SameThreads
<1>21. Calm(kind, R, P, mode', G)
  BY <1>10, <1>11, <1>14, <1>15, <1>16, <1>18, <1>19, <1>20 DEF Calm, Swept
<1>22. Inv(kind', R, P, mode', G)
  BY <1>6, <1>11, <1>21, CalmInv DEF Swept
<1> QED BY <1>22 DEF IInv, G, R, P

\* A part of a sequence.
LEMMA Part ==
  ASSUME NEW S, NEW s \in Seq(S), NEW a \in Nat, NEW b \in Nat, 1 <= a, b <= Len(s)
  PROVE  /\ SubSeq(s, a, b) \in Seq(S)
         /\ Len(SubSeq(s, a, b)) = IF a <= b THEN b - a + 1 ELSE 0
         /\ \A i \in 1 .. b - a + 1 : SubSeq(s, a, b)[i] = s[a + i - 1]
         /\ Range(SubSeq(s, a, b)) = {s[i] : i \in a .. b}
<1>1. Len(s) \in Nat /\ \A i \in a .. b : s[i] \in S
  <2>1. Len(s) \in Nat
    BY LenProperties
  <2>2. \A i \in a .. b : i \in 1 .. Len(s)
    BY <2>1
  <2> QED BY <2>1, <2>2, ElementOfSeq
<1> DEFINE t == SubSeq(s, a, b)
<1>2. /\ t \in Seq(S) /\ Len(t) = IF a <= b THEN b - a + 1 ELSE 0
      /\ \A i \in 1 .. b - a + 1 : t[i] = s[a + i - 1]
  BY <1>1, SubSeqProperties
<1> HIDE DEF t
<1>3. Range(t) = {t[i] : i \in 1 .. Len(t)}
  BY <1>2, RangeEquality
<1>4. \A i \in 1 .. Len(t) : a + i - 1 \in a .. b /\ t[i] = s[a + i - 1]
  BY <1>2
<1>5. \A j \in a .. b : j - a + 1 \in 1 .. Len(t) /\ t[j - a + 1] = s[j]
  BY <1>2
<1>6. Range(t) = {s[i] : i \in a .. b}
  <2>1. ASSUME NEW x \in Range(t) PROVE x \in {s[i] : i \in a .. b}
    <3>1. PICK i \in 1 .. Len(t) : x = t[i]
      BY <1>3
    <3> QED BY <1>4, <3>1
  <2>2. ASSUME NEW i \in a .. b PROVE s[i] \in Range(t)
    BY <1>3, <1>5
  <2> QED BY <2>1, <2>2
<1> QED BY <1>2, <1>6 DEF t

\* A sequence without its elements between a and i.
Without(s, a, i) == SubSeq(s, 1, a) \o SubSeq(s, i, Len(s))

\* Its elements.
LEMMA Cut ==
  ASSUME NEW S, NEW s \in Seq(S), NEW a \in Nat, NEW i \in Nat, a < i, i <= Len(s) + 1
  PROVE  /\ Without(s, a, i) \in Seq(S) /\ Len(Without(s, a, i)) = a + (Len(s) - i + 1)
         /\ \A j \in 1 .. a : Without(s, a, i)[j] = s[j]
         /\ \A j \in a + 1 .. Len(Without(s, a, i)) : Without(s, a, i)[j] = s[j - a + i - 1]
         /\ Range(Without(s, a, i)) = {s[j] : j \in 1 .. a} \cup {s[j] : j \in i .. Len(s)}
<1> DEFINE t == Without(s, a, i)
           u == SubSeq(s, 1, a)
           v == SubSeq(s, i, Len(s))
<1>1. PICK N \in Nat : N = Len(s)
  BY LenProperties
<1>2. /\ u \in Seq(S) /\ Len(u) = a /\ \A j \in 1 .. a : u[j] = s[j]
      /\ Range(u) = {s[j] : j \in 1 .. a}
  <2>1. /\ u \in Seq(S) /\ Len(u) = (IF 1 <= a THEN a - 1 + 1 ELSE 0)
        /\ \A j \in 1 .. a - 1 + 1 : u[j] = s[1 + j - 1]
        /\ Range(u) = {s[j] : j \in 1 .. a}
    BY <1>1, Part
  <2> HIDE DEF u
  <2>2. Len(u) = a
    BY <2>1
  <2>3. \A j \in 1 .. a : 1 + j - 1 = j /\ a - 1 + 1 = a
    OBVIOUS
  <2> QED BY <2>1, <2>2, <2>3
<1>3. /\ v \in Seq(S) /\ Len(v) = N - i + 1 /\ \A j \in 1 .. N - i + 1 : v[j] = s[i + j - 1]
      /\ Range(v) = {s[j] : j \in i .. Len(s)}
  <2>1. 1 <= i /\ N <= Len(s)
    BY <1>1
  <2>2. /\ v \in Seq(S) /\ Len(v) = (IF i <= N THEN N - i + 1 ELSE 0)
        /\ \A j \in 1 .. N - i + 1 : v[j] = s[i + j - 1]
        /\ Range(v) = {s[j] : j \in i .. N}
    BY <1>1, <2>1, Part
  <2> HIDE DEF v
  <2> QED BY <1>1, <2>2
<1> HIDE DEF t, u, v
<1>4. /\ t \in Seq(S) /\ Len(t) = Len(u) + Len(v) /\ Range(t) = Range(u) \cup Range(v)
      /\ \A j \in 1 .. Len(u) + Len(v) : t[j] = IF j <= Len(u) THEN u[j] ELSE v[j - Len(u)]
  <2>1. t = u \o v
    BY DEF t, u, v, Without
  <2>2. /\ u \o v \in Seq(S) /\ Len(u \o v) = Len(u) + Len(v)
        /\ \A j \in 1 .. Len(u) + Len(v) :
             (u \o v)[j] = IF j <= Len(u) THEN u[j] ELSE v[j - Len(u)]
    BY <1>2, <1>3, ConcatProperties
  <2>3. Range(u \o v) = Range(u) \cup Range(v)
    BY <1>2, <1>3, RangeConcatenation
  <2> QED BY <2>1, <2>2, <2>3
<1>5. Len(t) = a + (N - i + 1)
  BY <1>2, <1>3, <1>4
<1>6. \A j \in 1 .. a + (N - i + 1) : t[j] = IF j <= a THEN u[j] ELSE v[j - a]
  BY <1>2, <1>3, <1>4
<1>7. \A j \in 1 .. a : t[j] = s[j]
  <2>1. \A j \in 1 .. a : j \in 1 .. a + (N - i + 1) /\ j <= a
    BY <1>1
  <2> QED BY <1>2, <1>6, <2>1
<1>8. ASSUME NEW j \in a + 1 .. a + (N - i + 1) PROVE t[j] = s[j - a + i - 1]
  <2>1. j \in 1 .. a + (N - i + 1) /\ ~ (j <= a) /\ j - a \in 1 .. N - i + 1
        /\ i + (j - a) - 1 = j - a + i - 1
    BY <1>1
  <2> QED BY <1>3, <1>6, <2>1
<1> QED BY <1>1, <1>2, <1>3, <1>4, <1>5, <1>7, <1>8 DEF t

\* A sequence with its elements from a + 1 to b replaced.
Spliced(s, k, a, b) == SubSeq(s, 1, a) \o k \o SubSeq(s, b + 1, Len(s))

\* Its elements.
LEMMA Splice ==
  ASSUME NEW S, NEW s \in Seq(S), NEW k \in Seq(S), NEW a \in Nat, NEW b \in Nat,
         a <= b, b <= Len(s)
  PROVE  /\ Spliced(s, k, a, b) \in Seq(S)
         /\ Len(Spliced(s, k, a, b)) = a + Len(k) + (Len(s) - b)
         /\ \A j \in 1 .. a : Spliced(s, k, a, b)[j] = s[j]
         /\ \A j \in 1 .. Len(k) : Spliced(s, k, a, b)[a + j] = k[j]
         /\ \A j \in 1 .. Len(s) - b : Spliced(s, k, a, b)[a + Len(k) + j] = s[b + j]
         /\ Range(k) \subseteq Range(Spliced(s, k, a, b))
         /\ Range(Spliced(s, k, a, b)) \subseteq Range(s) \cup Range(k)
         /\ \A j \in 1 .. Len(s) : j <= a \/ b < j => s[j] \in Range(Spliced(s, k, a, b))
<1> DEFINE t == Spliced(s, k, a, b)
           u == SubSeq(s, 1, a)
           v == SubSeq(s, b + 1, Len(s))
           w == u \o k
<1>1. PICK N \in Nat, K \in Nat : N = Len(s) /\ K = Len(k)
  BY LenProperties
<1>2. /\ u \in Seq(S) /\ Len(u) = a /\ \A j \in 1 .. a : u[j] = s[j]
      /\ Range(u) = {s[j] : j \in 1 .. a}
  <2>1. /\ u \in Seq(S) /\ Len(u) = (IF 1 <= a THEN a - 1 + 1 ELSE 0)
        /\ \A j \in 1 .. a - 1 + 1 : u[j] = s[1 + j - 1]
        /\ Range(u) = {s[j] : j \in 1 .. a}
    BY <1>1, Part
  <2> HIDE DEF u
  <2>2. Len(u) = a
    BY <2>1
  <2>3. \A j \in 1 .. a : 1 + j - 1 = j /\ a - 1 + 1 = a
    OBVIOUS
  <2> QED BY <2>1, <2>2, <2>3
<1>3. /\ v \in Seq(S) /\ Len(v) = N - b /\ \A j \in 1 .. N - b : v[j] = s[b + j]
      /\ Range(v) = {s[j] : j \in b + 1 .. N}
  <2>1. PICK B \in Nat : B = b + 1 /\ 1 <= B /\ N <= Len(s)
    BY <1>1
  <2>2. v = SubSeq(s, B, N)
    BY <1>1, <2>1
  <2> HIDE DEF v
  <2>3. 1 <= B /\ N <= Len(s)
    BY <2>1
  <2>4. /\ SubSeq(s, B, N) \in Seq(S) /\ Len(SubSeq(s, B, N)) = (IF B <= N THEN N - B + 1 ELSE 0)
        /\ \A j \in 1 .. N - B + 1 : SubSeq(s, B, N)[j] = s[B + j - 1]
        /\ Range(SubSeq(s, B, N)) = {s[j] : j \in B .. N}
    BY <2>3, Part
  <2>5. /\ v \in Seq(S) /\ Len(v) = (IF b + 1 <= N THEN N - (b + 1) + 1 ELSE 0)
        /\ \A j \in 1 .. N - (b + 1) + 1 : v[j] = s[b + 1 + j - 1]
        /\ Range(v) = {s[j] : j \in b + 1 .. N}
    BY <2>1, <2>2, <2>4
  <2> HIDE DEF v
  <2>6. \A j \in 1 .. N - b : b + 1 + j - 1 = b + j /\ j \in 1 .. N - (b + 1) + 1
    BY <1>1
  <2>7. Len(v) = N - b
    BY <1>1, <2>5
  <2> QED BY <1>1, <2>5, <2>6, <2>7
<1> HIDE DEF t, u, v
<1>4. /\ w \in Seq(S) /\ Len(w) = Len(u) + Len(k) /\ Range(w) = Range(u) \cup Range(k)
      /\ \A j \in 1 .. Len(u) + Len(k) : w[j] = IF j <= Len(u) THEN u[j] ELSE k[j - Len(u)]
  BY <1>2, ConcatProperties, RangeConcatenation
<1>5. /\ t \in Seq(S) /\ Len(t) = Len(w) + Len(v) /\ Range(t) = Range(w) \cup Range(v)
      /\ \A j \in 1 .. Len(w) + Len(v) : t[j] = IF j <= Len(w) THEN w[j] ELSE v[j - Len(w)]
  <2>1. t = w \o v
    BY DEF t, u, v, Spliced
  <2> HIDE DEF w
  <2>2. w \in Seq(S) /\ v \in Seq(S)
    BY <1>3, <1>4
  <2>3. /\ w \o v \in Seq(S) /\ Len(w \o v) = Len(w) + Len(v)
        /\ \A j \in 1 .. Len(w) + Len(v) :
             (w \o v)[j] = IF j <= Len(w) THEN w[j] ELSE v[j - Len(w)]
    BY <2>2, ConcatProperties
  <2>4. Range(w \o v) = Range(w) \cup Range(v)
    BY <2>2, RangeConcatenation
  <2> QED BY <2>1, <2>3, <2>4
<1> HIDE DEF w
<1>6. Len(w) = a + K /\ Len(t) = a + K + (N - b) /\ N - b \in Nat
  <2>1. Len(w) = a + K
    BY <1>1, <1>2, <1>4
  <2>2. N - b \in Nat
    BY <1>1
  <2>3. Len(t) = Len(w) + (N - b)
    BY <1>3, <1>5
  <2> QED BY <2>1, <2>2, <2>3
<1>7. \A j \in 1 .. a + K : w[j] = IF j <= a THEN u[j] ELSE k[j - a]
  BY <1>1, <1>2, <1>4
<1>8. \A j \in 1 .. a + K + (N - b) : t[j] = IF j <= a + K THEN w[j] ELSE v[j - (a + K)]
  BY <1>3, <1>5, <1>6
<1>9. ASSUME NEW j \in 1 .. a PROVE t[j] = s[j]
  <2>1. j \in 1 .. a + K /\ j \in 1 .. a + K + (N - b) /\ j <= a /\ j <= a + K
    BY <1>1, <1>6
  <2> QED BY <1>2, <1>7, <1>8, <2>1
<1>10. ASSUME NEW j \in 1 .. K PROVE t[a + j] = k[j]
  <2>1. a + j \in 1 .. a + K /\ a + j \in 1 .. a + K + (N - b) /\ ~ (a + j <= a) /\ a + j <= a + K
        /\ (a + j) - a = j
    BY <1>1, <1>6
  <2> QED BY <1>7, <1>8, <2>1
<1>11. ASSUME NEW j \in 1 .. N - b PROVE t[a + K + j] = s[b + j]
  <2>1. /\ a + K + j \in 1 .. a + K + (N - b) /\ ~ (a + K + j <= a + K)
        /\ (a + K + j) - (a + K) = j
    BY <1>1, <1>6
  <2> QED BY <1>3, <1>8, <2>1
<1>12. /\ Range(k) \subseteq Range(t) /\ Range(t) \subseteq Range(s) \cup Range(k)
       /\ \A j \in 1 .. N : j <= a \/ b < j => s[j] \in Range(t)
  <2>1. Range(t) = Range(u) \cup Range(k) \cup Range(v)
    BY <1>4, <1>5
  <2>2. Range(s) = {s[j] : j \in 1 .. N}
    BY <1>1, RangeEquality
  <2>3. Range(u) \subseteq Range(s)
    <3>1. \A j \in 1 .. a : j \in 1 .. N
      BY <1>1
    <3> QED BY <1>2, <2>2, <3>1
  <2>4. Range(v) \subseteq Range(s)
    <3>1. \A j \in b + 1 .. N : j \in 1 .. N
      BY <1>1
    <3> QED BY <1>3, <2>2, <3>1
  <2>5. ASSUME NEW j \in 1 .. N, j <= a \/ b < j PROVE s[j] \in Range(t)
    <3>1. CASE j <= a
      BY <1>2, <2>1, <3>1
    <3>2. CASE b < j
      BY <1>3, <2>1, <3>2
    <3> QED BY <2>5, <3>1, <3>2
  <2> QED BY <2>1, <2>3, <2>4, <2>5
<1> QED BY <1>1, <1>5, <1>6, <1>9, <1>10, <1>11, <1>12 DEF t

-----------------------------------------------------------------------------
(* Sweeping on to the first object that lives. *)

\* A sweep of allgc that stops where what comes before is white.
LEMMA AllgcSwept ==
  ASSUME NEW h \in GState, h.state = "swpallgc", h.stage = "none", NEW n \in Nat,
         h.sweepgc = IF n >= Len(h.allgc) THEN NoSweep ELSE [list |-> "allgc", skip |-> n],
         \A j \in 1 .. Len(h.allgc) : j <= n => h.mark[h.allgc[j]] = "white"
  PROVE  Whites(h) /\ Phase(h) /\ ~Marking(h)
<1> DEFINE s == h.allgc
<1>1. PICK N \in Nat : N = Len(s) /\ Range(s) = {s[j] : j \in 1 .. N}
  <2>1. s \in Seq(Object \cup {Registry})
    BY DEF GState
  <2> QED BY <2>1, LenProperties, RangeEquality
<1>2. ~Marking(h)
  BY DEF Marking
<1>3. Phase(h)
  <2>1. Len(ListOf(h, "none")) \in Nat
    BY LenProperties DEF ListOf, GState
  <2>2. CASE n >= Len(h.allgc)
    BY <2>1, <2>2 DEF Phase, NoSweep
  <2>3. CASE ~ (n >= Len(h.allgc))
    BY <1>1, <2>3 DEF Phase, ListOf, NoSweep
  <2> QED BY <2>2, <2>3
<1>4. \A j \in 1 .. N : j <= n => h.mark[s[j]] = "white"
  BY <1>1
<1> HIDE DEF s
<1>5. Unswept(h) = Behind(h, "allgc") \cup Range(h.finobj) \cup Range(h.tobefnz) \cup {Main}
  BY DEF Unswept
<1>6. ASSUME NEW o \in Objs(h) \ Unswept(h) PROVE h.mark[o] = "white"
  <2>1. o \in Range(s)
    BY <1>5 DEF Objs, Listed, s
  <2>2. PICK j \in 1 .. N : o = s[j]
    BY <1>1, <2>1
  <2>3. CASE n >= N
    BY <1>4, <2>2, <2>3
  <2>4. CASE ~ (n >= N)
    <3>1. h.sweepgc.list = "allgc" /\ h.sweepgc.skip = n
      BY <1>1, <2>4 DEF s
    <3>2. Behind(h, "allgc") = {s[i] : i \in n + 1 .. N}
      BY <1>1, <3>1 DEF Behind, ListOf, s
    <3>3. ~ (j \in n + 1 .. N)
      BY <1>5, <2>2, <3>2
    <3> QED BY <1>4, <2>2, <3>3
  <2> QED BY <2>3, <2>4
<1>7. ASSUME NEW i \in 1 .. h.sweepgc.skip PROVE h.mark[ListOf(h, h.sweepgc.list)[i]] = "white"
  <2>1. CASE n >= N
    <3>1. h.sweepgc.skip = 0
      BY <1>1, <2>1 DEF NoSweep, s
    <3> QED BY <3>1
  <2>2. CASE ~ (n >= N)
    <3>1. h.sweepgc.list = "allgc" /\ h.sweepgc.skip = n
      BY <1>1, <2>2 DEF s
    <3>2. i \in 1 .. N /\ i <= n
      BY <2>2, <3>1
    <3> QED BY <1>4, <3>1, <3>2 DEF ListOf, s
  <2> QED BY <2>1, <2>2
<1> QED BY <1>2, <1>3, <1>6, <1>7 DEF Whites

\* What comes before `skip' stays, and so do the other lists.
SweptFrom(b, h, skip) ==
  /\ h.finobj = b.finobj /\ h.tobefnz = b.tobefnz
  /\ skip <= Len(h.allgc) /\ \A j \in 1 .. skip : h.allgc[j] = b.allgc[j]

\* sweeptolive takes off what is dead, and no other than that.
LEMMA SweepToLive ==
  ASSUME NEW b, NEW d, NEW c, NEW skip \in Nat, Calm(kind, c, open, mode, b),
         b.state = "swpallgc", b.sweepgc = [list |-> "allgc", skip |-> skip],
         d \in GState, SameLists(b, d), SameThreads(b, d), d.mark = b.mark,
         d.state = b.state, d.stage = b.stage,
         NEW h, h = sweeptolive(d, "allgc", skip)
  PROVE  Swept(b, h) /\ SweptFrom(b, h, skip)
<1> DEFINE s == b.allgc
           l == ListOf(d, "allgc")
           live == {j \in skip + 1 .. Len(l) : ~isdead(d, l[j])}
           i == CHOOSE i \in live : \A j \in live : i <= j
<1>1. h = IF live = {} THEN [SetList(d, "allgc", SubSeq(l, 1, skip)) EXCEPT !.sweepgc = NoSweep]
          ELSE At(makewhite(SetList(d, "allgc", SubSeq(l, 1, skip) \o SubSeq(l, i, Len(l))), l[i]),
                  "allgc", skip + 1)
  BY DEF sweeptolive
<1>2. l = s
  BY DEF ListOf, SameLists
<1> HIDE DEF l, i
<1>3. /\ b \in GState /\ b.stage = "none" /\ s \in Seq(Object \cup {Registry})
      /\ d.allgc = s
      /\ Live(b) \subseteq Objs(b) /\ Objs(b) \subseteq All
      /\ \A j \in 1 .. skip : b.mark[s[j]] = "white"
  <2>1. b \in GState /\ b.stage = "none"
    BY DEF Calm, Types, Phase
  <2>2. Objs(b) \subseteq All
    BY TypeFacts DEF Calm
  <2> QED BY <2>1, <2>2 DEF GState, SameLists, Live, Calm, Whites, ListOf
<1>4. PICK N \in Nat : N = Len(s) /\ Range(s) = {s[j] : j \in 1 .. N}
  BY <1>3, LenProperties, RangeEquality
<1>5. skip <= N
  BY <1>4 DEF Calm, Phase, ListOf
<1>6. \A j \in 1 .. N : s[j] \in All
  BY <1>3, <1>4, ElementOfSeq, Constants
<1>7. \A j : j \in live <=> j \in skip + 1 .. N /\ ~isdead(b, s[j])
  BY <1>4, <1>2 DEF isdead
<1>8. live \in SUBSET Nat
  BY <1>4, <1>7
<1> HIDE DEF live
<1>9. /\ Registry \in Range(s) /\ Registry \in Live(b)
      /\ Len(b.finobj) + Len(b.tobefnz) <= MaxFinal
  BY DEF Calm, Shape, RootsLive
\* What is to be shown of the new list t and the marks m.
<1> DEFINE Done(t, m) ==
             /\ t \in Seq(Object \cup {Registry}) /\ Range(t) \subseteq Range(s)
             /\ Range(s) \cap Live(b) \subseteq Range(t)
             /\ m \in Marks
             /\ \A o \in All : m[o] = b.mark[o] \/ (o \in Live(b) /\ m[o] = "white")
<1>10. ASSUME NEW t, NEW m, Done(t, m), h \in GState, SameThreads(d, h), h.mark = m, h.allgc = t,
             h.finobj = d.finobj, h.tobefnz = d.tobefnz, Whites(h), Phase(h), ~Marking(h)
      PROVE  Swept(b, h)
  <2>1. h.finobj = b.finobj /\ h.tobefnz = b.tobefnz
    BY <1>10 DEF SameLists
  <2>2. Listed(h) \subseteq Listed(b)
    BY <1>10, <2>1 DEF Listed
  <2>3. Live(b) \subseteq Objs(h)
    BY <1>3, <1>10, <2>1 DEF Objs, Listed
  <2>4. \A o \in All : \/ h.mark[o] \in {"white", "other", "gray", "black"} /\ h.mark[o] = b.mark[o]
                       \/ o \in Live(b) /\ h.mark[o] = "white"
    BY <1>10 DEF Marks
  <2>5. SameThreads(b, h)
    BY <1>10 DEF SameThreads
  <2>6. Registry \in Range(h.allgc)
    BY <1>9, <1>10
  <2>7. Range(h.finobj) \cup Range(h.tobefnz) \subseteq Live(b)
    BY <2>1 DEF Calm, RootsLive
  <2> QED BY <1>9, <1>10, <2>1, <2>2, <2>3, <2>4, <2>5, <2>6, <2>7 DEF Swept
<1>11. CASE live = {}
  <2> DEFINE t == SubSeq(s, 1, skip)
  <2>1. h = [[d EXCEPT !.allgc = t] EXCEPT !.sweepgc = NoSweep]
    BY <1>11, <1>1, <1>2 DEF SetList
  <2>2. /\ t \in Seq(Object \cup {Registry}) /\ Len(t) = skip
        /\ \A j \in 1 .. skip : t[j] = s[j]
        /\ Range(t) = {s[j] : j \in 1 .. skip}
    <3>1. 1 \in Nat /\ skip <= Len(s)
      BY <1>4, <1>5
    <3>2. /\ t \in Seq(Object \cup {Registry}) /\ Len(t) = (IF 1 <= skip THEN skip - 1 + 1 ELSE 0)
          /\ \A j \in 1 .. skip - 1 + 1 : t[j] = s[1 + j - 1]
          /\ Range(t) = {s[j] : j \in 1 .. skip}
      BY <1>3, <3>1, Part
    <3> HIDE DEF t
    <3>3. \A j \in 1 .. skip : 1 + j - 1 = j /\ skip - 1 + 1 = skip
      OBVIOUS
    <3>4. Len(t) = skip
      BY <3>2
    <3> QED BY <3>2, <3>3, <3>4
  <2> HIDE DEF t, s
  <2>3. /\ h \in GState /\ SameThreads(d, h) /\ h.mark = b.mark /\ h.allgc = t
        /\ h.finobj = d.finobj /\ h.tobefnz = d.tobefnz /\ h.sweepgc = NoSweep
        /\ h.state = "swpallgc" /\ h.stage = "none"
    <3>1. NoSweep \in Places
      BY DEF NoSweep, Places
    <3>2. d \in GState /\ d.state = "swpallgc" /\ d.stage = "none" /\ d.mark = b.mark
      BY <1>3
    <3> QED BY <2>1, <2>2, <3>1, <3>2 DEF GState, SameThreads
  <2>4. Range(s) \cap Live(b) \subseteq Range(t)
    <3> SUFFICES ASSUME NEW j \in 1 .. N, s[j] \in Live(b) PROVE s[j] \in Range(t)
      BY <1>4
    <3>1. j \in 1 .. skip
      BY <1>5, <1>7, <1>11 DEF Live
    <3> QED BY <2>2, <3>1
  <2>5. Done(t, b.mark)
    <3>1. Range(t) \subseteq Range(s)
      BY <1>4, <1>5, <2>2
    <3> QED BY <1>3, <2>2, <2>4, <3>1 DEF GState, Marks
  <2>6. Whites(h) /\ Phase(h) /\ ~Marking(h)
    <3>1. \A j \in 1 .. Len(h.allgc) : j <= skip => h.mark[h.allgc[j]] = "white"
      BY <1>3, <2>2, <2>3 DEF s
    <3>2. skip >= Len(h.allgc)
      BY <2>2, <2>3
    <3> QED BY <2>3, <3>1, <3>2, AllgcSwept
  <2> HIDE DEF Done
  <2>7. Swept(b, h)
    BY <1>10, <2>3, <2>5, <2>6
  <2>8. skip <= Len(h.allgc)
    BY <2>2, <2>3
  <2> QED BY <2>2, <2>3, <2>7, <2>8 DEF s, SameLists, SweptFrom
<1>12. CASE live # {}
  <2> DEFINE t == SubSeq(s, 1, skip) \o SubSeq(s, i, Len(s))
             mk == [b.mark EXCEPT ![s[i]] = "white"]
  <2>1. i \in live
    <3>1. \E m \in live : \A j \in live : m <= j
      BY <1>12, <1>8, LeastNumber
    <3> QED BY <3>1 DEF i
  <2>2. i \in Nat /\ skip < i /\ i <= N /\ ~isdead(b, s[i])
    BY <1>4, <1>7, <1>8, <2>1
  <2>3. h = At(makewhite([d EXCEPT !.allgc = t], s[i]), "allgc", skip + 1)
    BY <1>12, <1>1, <1>2 DEF SetList
  <2>4. /\ t \in Seq(Object \cup {Registry}) /\ Len(t) = skip + (N - i + 1)
        /\ \A j \in 1 .. skip : t[j] = s[j]
        /\ \A j \in skip + 1 .. Len(t) : t[j] = s[j - skip + i - 1]
        /\ Range(t) = {s[j] : j \in 1 .. skip} \cup {s[j] : j \in i .. N}
    <3>1. i <= Len(s) + 1
      BY <1>4, <2>2
    <3>2. s \in Seq(Object \cup {Registry}) /\ i \in Nat /\ skip < i
      BY <1>3, <2>2
    <3> HIDE DEF s
    <3>3. t = Without(s, skip, i)
      BY DEF Without
    <3> HIDE DEF t
    <3>4. /\ t \in Seq(Object \cup {Registry}) /\ Len(t) = skip + (Len(s) - i + 1)
          /\ \A j \in 1 .. skip : t[j] = s[j]
          /\ \A j \in skip + 1 .. Len(t) : t[j] = s[j - skip + i - 1]
          /\ Range(t) = {s[j] : j \in 1 .. skip} \cup {s[j] : j \in i .. Len(s)}
      <4> DEFINE w == Without(s, skip, i)
      <4>1. /\ w \in Seq(Object \cup {Registry}) /\ Len(w) = skip + (Len(s) - i + 1)
            /\ \A j \in 1 .. skip : w[j] = s[j]
            /\ \A j \in skip + 1 .. Len(w) : w[j] = s[j - skip + i - 1]
            /\ Range(w) = {s[j] : j \in 1 .. skip} \cup {s[j] : j \in i .. Len(s)}
        BY <3>1, <3>2, Cut
      <4> HIDE DEF w
      <4>2. t = w
        BY <3>3 DEF w
      <4> QED BY <4>1, <4>2
    <3> QED BY <1>4, <3>4
  <2> HIDE DEF t
  <2>5. s[i] \in All /\ s[i] \in Live(b) /\ mk \in Marks /\ b.mark \in Marks
    <3>1. s[i] \in Range(s)
      BY <1>4, <2>2
    <3>2. s[i] \in Objs(b)
      BY <3>1 DEF Objs, Listed
    <3>3. b.mark \in Marks
      BY <1>3 DEF GState, Marks
    <3> QED BY <1>3, <2>2, <3>2, <3>3 DEF Live, Marks
  <2>6. \A o \in All : mk[o] = IF o = s[i] THEN "white" ELSE b.mark[o]
    BY <2>5 DEF Marks
  <2> HIDE DEF s, mk
  <2> DEFINE e == [[d EXCEPT !.allgc = t] EXCEPT !.mark[s[i]] = "white"]
  <2>7. /\ e \in GState /\ SameThreads(d, e) /\ e.mark = mk /\ e.allgc = t
        /\ e.finobj = d.finobj /\ e.tobefnz = d.tobefnz
        /\ e.state = "swpallgc" /\ e.stage = "none"
    <3>1. e = [d EXCEPT !.allgc = t, !.mark = mk]
      BY <1>3 DEF GState, mk
    <3> HIDE DEF e
    <3> QED BY <1>3, <2>4, <2>5, <3>1 DEF GState, SameThreads, Marks
  <2>8. h = [e EXCEPT !.sweepgc = IF skip + 1 >= Len(t) THEN NoSweep
                                  ELSE [list |-> "allgc", skip |-> skip + 1]]
    <3>1. h = At(e, "allgc", skip + 1)
      BY <2>3 DEF makewhite
    <3> HIDE DEF e
    <3> QED BY <2>7, <3>1 DEF At, ListOf
  <2> HIDE DEF e
  <2>9. /\ h \in GState /\ SameThreads(d, h) /\ h.mark = mk /\ h.allgc = t
        /\ h.finobj = d.finobj /\ h.tobefnz = d.tobefnz
        /\ h.sweepgc = (IF skip + 1 >= Len(t) THEN NoSweep
                        ELSE [list |-> "allgc", skip |-> skip + 1])
        /\ h.state = "swpallgc" /\ h.stage = "none"
    <3> DEFINE w == IF skip + 1 >= Len(t) THEN NoSweep ELSE [list |-> "allgc", skip |-> skip + 1]
    <3>1. w \in Places
      BY DEF NoSweep, Places
    <3> HIDE DEF w
    <3>2. h = [e EXCEPT !.sweepgc = w]
      BY <2>8 DEF w
    <3>3. /\ h \in GState /\ SameThreads(e, h) /\ h.mark = e.mark /\ h.allgc = e.allgc
          /\ h.finobj = e.finobj /\ h.tobefnz = e.tobefnz
          /\ h.sweepgc = w /\ h.state = e.state /\ h.stage = e.stage
      BY <2>7, <3>1, <3>2 DEF GState, SameThreads
    <3> QED BY <2>7, <3>3 DEF w, SameThreads
  <2>10. Range(s) \cap Live(b) \subseteq Range(t)
    <3> SUFFICES ASSUME NEW j \in 1 .. N, s[j] \in Live(b) PROVE s[j] \in Range(t)
      BY <1>4
    <3>1. CASE j <= skip
      BY <2>4, <3>1
    <3>2. CASE ~ (j <= skip)
      <4>1. j \in live
        BY <1>7, <3>2 DEF Live
      <4>2. i <= j
        <5>1. \E m \in live : \A n \in live : m <= n
          BY <1>12, <1>8, LeastNumber
        <5>2. \A n \in live : i <= n
          BY <5>1 DEF i
        <5> QED BY <4>1, <5>2
      <4> QED BY <2>2, <2>4, <4>2
    <3> QED BY <3>1, <3>2
  <2>11. Done(t, mk)
    <3>1. Range(t) \subseteq Range(s)
      BY <1>4, <1>5, <2>2, <2>4
    <3> QED BY <2>4, <2>5, <2>6, <2>10, <3>1
  <2>12. Whites(h) /\ Phase(h) /\ ~Marking(h)
    <3>1. ASSUME NEW j \in 1 .. Len(t), j <= skip + 1 PROVE mk[t[j]] = "white"
      <4>1. CASE j <= skip
        <5>1. t[j] = s[j] /\ s[j] \in All /\ b.mark[s[j]] = "white"
          BY <1>3, <1>5, <1>6, <2>4, <4>1 DEF s
        <5> QED BY <2>6, <5>1
      <4>2. CASE j = skip + 1
        <5>1. t[j] = s[j - skip + i - 1] /\ j - skip + i - 1 = i
          BY <2>2, <2>4, <4>2
        <5> QED BY <2>5, <2>6, <5>1
      <4> QED BY <3>1, <4>1, <4>2
    <3> QED BY <2>9, <3>1, AllgcSwept
  <2> HIDE DEF Done
  <2>13. Swept(b, h)
    BY <1>10, <2>9, <2>11, <2>12
  <2>14. skip <= Len(h.allgc)
    BY <2>2, <2>4, <2>9
  <2> QED BY <2>4, <2>9, <2>13, <2>14 DEF s, SameLists, SweptFrom
<1> QED BY <1>11, <1>12

-----------------------------------------------------------------------------
(* The steps of a sweep. *)

Names == {"allgc", "finobj", "tobefnz"}
Contents(name) == IF name = "allgc" THEN Object \cup {Registry} ELSE Object

\* The three lists, by their names.
LEMMA ListedIs ==
  ASSUME NEW h \in GState
  PROVE  /\ \A o : o \in Listed(h) <=> \E name \in Names : o \in Range(ListOf(h, name))
         /\ \A name \in Names : ListOf(h, name) \in Seq(Contents(name))
         /\ ListOf(h, "allgc") = h.allgc /\ ListOf(h, "finobj") = h.finobj
         /\ ListOf(h, "tobefnz") = h.tobefnz
<1>1. /\ ListOf(h, "allgc") = h.allgc /\ ListOf(h, "finobj") = h.finobj
      /\ ListOf(h, "tobefnz") = h.tobefnz
  BY DEF ListOf
<1>2. /\ h.allgc \in Seq(Object \cup {Registry}) /\ h.finobj \in Seq(Object)
      /\ h.tobefnz \in Seq(Object)
  BY DEF GState
<1>3. \A name \in Names : ListOf(h, name) \in Seq(Contents(name))
  BY <1>1, <1>2 DEF Names, Contents
<1>4. ASSUME NEW o PROVE o \in Listed(h) <=> \E name \in Names : o \in Range(ListOf(h, name))
  BY <1>1 DEF Listed, Names
<1> QED BY <1>1, <1>3, <1>4

\* What SetList changes.
LEMMA SetListIs ==
  ASSUME NEW h \in GState, NEW name \in Names, NEW t \in Seq(Contents(name))
  PROVE  /\ SetList(h, name, t) \in GState
         /\ \A other \in Names :
              ListOf(SetList(h, name, t), other) = IF other = name THEN t ELSE ListOf(h, other)
         /\ SamePlace(h, SetList(h, name, t)) /\ SameThreads(h, SetList(h, name, t))
         /\ SetList(h, name, t).mark = h.mark
<1> DEFINE f == SetList(h, name, t)
<1>1. CASE name = "allgc"
  <2>1. f = [h EXCEPT !.allgc = t] /\ t \in Seq(Object \cup {Registry})
    BY <1>1 DEF SetList, Contents
  <2> HIDE DEF f
  <2>2. /\ f \in GState /\ f.allgc = t /\ f.finobj = h.finobj /\ f.tobefnz = h.tobefnz
        /\ SamePlace(h, f) /\ SameThreads(h, f) /\ f.mark = h.mark
    BY <2>1 DEF GState, SamePlace, SameThreads
  <2>3. \A other \in Names : ListOf(f, other) = IF other = name THEN t ELSE ListOf(h, other)
    BY <1>1, <2>2 DEF ListOf, Names
  <2> QED BY <2>2, <2>3 DEF f
<1>2. CASE name = "finobj"
  <2>1. f = [h EXCEPT !.finobj = t] /\ t \in Seq(Object)
    BY <1>2 DEF SetList, Contents
  <2> HIDE DEF f
  <2>2. /\ f \in GState /\ f.finobj = t /\ f.allgc = h.allgc /\ f.tobefnz = h.tobefnz
        /\ SamePlace(h, f) /\ SameThreads(h, f) /\ f.mark = h.mark
    BY <2>1 DEF GState, SamePlace, SameThreads
  <2>3. \A other \in Names : ListOf(f, other) = IF other = name THEN t ELSE ListOf(h, other)
    BY <1>2, <2>2 DEF ListOf, Names
  <2> QED BY <2>2, <2>3 DEF f
<1>3. CASE name = "tobefnz"
  <2>1. f = [h EXCEPT !.tobefnz = t] /\ t \in Seq(Object)
    BY <1>3 DEF SetList, Contents
  <2> HIDE DEF f
  <2>2. /\ f \in GState /\ f.tobefnz = t /\ f.allgc = h.allgc /\ f.finobj = h.finobj
        /\ SamePlace(h, f) /\ SameThreads(h, f) /\ f.mark = h.mark
    BY <2>1 DEF GState, SamePlace, SameThreads
  <2>3. \A other \in Names : ListOf(f, other) = IF other = name THEN t ELSE ListOf(h, other)
    BY <1>3, <2>2 DEF ListOf, Names
  <2> QED BY <2>2, <2>3 DEF f
<1> QED BY <1>1, <1>2, <1>3 DEF Names

\* What comes after the list that is being swept.
Later(h) ==
  CASE h.state = "swpallgc" -> Range(h.finobj) \cup Range(h.tobefnz) \cup {Main}
    [] h.state = "swpfinobj" -> Range(h.tobefnz) \cup {Main}
    [] OTHER -> {Main}

SweepOf == [swpallgc |-> "allgc", swpfinobj |-> "finobj", swptobefnz |-> "tobefnz"]

\* To the next list, when all of this one is white.
LEMMA Advance ==
  ASSUME NEW d \in GState, d.stage = "none", d.state \in DOMAIN Sweeps,
         \A o \in Objs(d) \ Later(d) : d.mark[o] = "white",
         NEW f, f = [d EXCEPT !.state = Sweeps[d.state][1],
                              !.sweepgc = [list |-> Sweeps[d.state][2], skip |-> 0]]
  PROVE  /\ f \in GState /\ SameLists(d, f) /\ SameThreads(d, f) /\ f.mark = d.mark
         /\ Whites(f) /\ Phase(f) /\ ~Marking(f)
<1>1. d.state \in {"swpallgc", "swpfinobj", "swptobefnz"}
  BY DEF Sweeps
<1>2. Sweeps[d.state][1] \in States /\ Sweeps[d.state][2] \in {"none", "allgc", "finobj", "tobefnz"}
  BY <1>1 DEF Sweeps, States
<1>3. [list |-> Sweeps[d.state][2], skip |-> 0] \in Places
  BY <1>2 DEF Places
<1>4. /\ f \in GState /\ SameLists(d, f) /\ SameThreads(d, f) /\ f.mark = d.mark
      /\ f.stage = "none" /\ f.state = Sweeps[d.state][1]
      /\ f.sweepgc.list = Sweeps[d.state][2] /\ f.sweepgc.skip = 0
      /\ f.sweepgc = [list |-> Sweeps[d.state][2], skip |-> 0]
  BY <1>2, <1>3 DEF GState, SameLists, SameThreads
<1>5. /\ d.state = "swpallgc" => f.state = "swpfinobj" /\ f.sweepgc.list = "finobj"
      /\ d.state = "swpfinobj" => f.state = "swptobefnz" /\ f.sweepgc.list = "tobefnz"
      /\ d.state = "swptobefnz" => f.state = "swpend" /\ f.sweepgc.list = "none"
  BY <1>4 DEF Sweeps
<1>6. ~Marking(f)
  BY <1>1, <1>5 DEF Marking
<1>7. Phase(f)
  <2>1. ASSUME NEW name \in {"none", "allgc", "finobj", "tobefnz"} PROVE 0 <= Len(ListOf(f, name))
    <3>1. Len(f.allgc) \in Nat /\ Len(f.finobj) \in Nat /\ Len(f.tobefnz) \in Nat
      BY <1>4, LenProperties DEF GState
    <3> QED BY <3>1 DEF ListOf
  <2>2. f.sweepgc.skip <= Len(ListOf(f, f.sweepgc.list))
    BY <1>2, <1>4, <2>1
  <2>3. d.state = "swptobefnz" => f.sweepgc = NoSweep
    BY <1>4, <1>5 DEF NoSweep
  <2>4. d.state = "swpfinobj" => f.sweepgc = [list |-> "tobefnz", skip |-> 0]
    BY <1>4, <1>5
  <2> QED BY <1>1, <1>4, <1>5, <2>2, <2>3, <2>4 DEF Phase
<1>8. Objs(f) = Objs(d)
  BY <1>4 DEF Objs, Listed, SameLists
<1>9. Unswept(f) = Later(d)
  <2>1. /\ Range(f.finobj) = {f.finobj[i] : i \in 1 .. Len(f.finobj)}
        /\ Range(f.tobefnz) = {f.tobefnz[i] : i \in 1 .. Len(f.tobefnz)}
    BY <1>4, RangeEquality DEF GState
  <2>2. f.finobj = d.finobj /\ f.tobefnz = d.tobefnz
    BY <1>4 DEF SameLists
  <2>3. CASE d.state = "swpallgc"
    <3>1. Behind(f, "finobj") = Range(d.finobj)
      BY <1>4, <1>5, <2>1, <2>2, <2>3 DEF Behind, ListOf
    <3> QED BY <1>5, <2>2, <2>3, <3>1 DEF Unswept, Later
  <2>4. CASE d.state = "swpfinobj"
    <3>1. Behind(f, "tobefnz") = Range(d.tobefnz)
      BY <1>4, <1>5, <2>1, <2>2, <2>4 DEF Behind, ListOf
    <3> QED BY <1>5, <2>4, <3>1 DEF Unswept, Later
  <2>5. CASE d.state = "swptobefnz"
    BY <1>5, <2>5 DEF Unswept, Later
  <2> QED BY <1>1, <2>3, <2>4, <2>5
<1>10. Whites(f)
  BY <1>4, <1>6, <1>8, <1>9 DEF Whites
<1> QED BY <1>4, <1>6, <1>7, <1>10

\* What sweeplist keeps, and what it makes of the list it is at.
KeptOf(b, name, skip, to) == Those(SubSeq(ListOf(b, name), skip + 1, to), Alive(b))
SweptOf(b, name, skip, to) ==
  SubSeq(ListOf(b, name), 1, skip) \o KeptOf(b, name, skip, to)
    \o SubSeq(ListOf(b, name), to + 1, Len(ListOf(b, name)))

\* sweeplist takes nothing off its list that lives.
LEMMA SweptPart ==
  ASSUME NEW b \in GState, NEW name \in Names, NEW skip \in Nat, NEW to \in Nat,
         skip <= to, to <= Len(ListOf(b, name)),
         Range(ListOf(b, name)) \subseteq All
  PROVE  /\ SweptOf(b, name, skip, to) \in Seq(Contents(name))
         /\ KeptOf(b, name, skip, to) \in Seq(Contents(name))
         /\ Len(SweptOf(b, name, skip, to)) <= Len(ListOf(b, name))
         /\ Len(KeptOf(b, name, skip, to)) <= to - skip
         /\ Range(SweptOf(b, name, skip, to)) \subseteq Range(ListOf(b, name))
         /\ \A o \in Range(ListOf(b, name)) : 
              ~isdead(b, o) => o \in Range(SweptOf(b, name, skip, to))
         /\ \A o \in Range(KeptOf(b, name, skip, to)) :
              o \in Range(ListOf(b, name)) /\ ~isdead(b, o)
         /\ Len(SweptOf(b, name, skip, to)) =
              skip + Len(KeptOf(b, name, skip, to)) + (Len(ListOf(b, name)) - to)
         /\ \A j \in 1 .. Len(SweptOf(b, name, skip, to)) :
              j <= skip + Len(KeptOf(b, name, skip, to)) =>
                IF j <= skip THEN SweptOf(b, name, skip, to)[j] = ListOf(b, name)[j]
                ELSE SweptOf(b, name, skip, to)[j] \in Range(KeptOf(b, name, skip, to))
<1> DEFINE s == ListOf(b, name)
           k == KeptOf(b, name, skip, to)
           t == SweptOf(b, name, skip, to)
           U == Contents(name)
           p == SubSeq(s, skip + 1, to)
<1>1. s \in Seq(U)
  BY ListedIs
<1>2. PICK N \in Nat : N = Len(s) /\ Range(s) = {s[j] : j \in 1 .. N}
  BY <1>1, LenProperties, RangeEquality
<1>3. to <= Len(s) /\ Range(s) \subseteq All
  OBVIOUS
<1>4. k = Those(p, Alive(b)) /\ t = Spliced(s, k, skip, to)
  BY DEF KeptOf, SweptOf, Spliced
<1> HIDE DEF U, s, k, t
<1>5. /\ p \in Seq(U) /\ Len(p) = to - skip /\ Range(p) = {s[j] : j \in skip + 1 .. to}
  <2>1. PICK a \in Nat : a = skip + 1 /\ 1 <= a
    OBVIOUS
  <2>2. 1 <= a /\ to <= Len(s)
    BY <1>3, <2>1
  <2>3. /\ SubSeq(s, a, to) \in Seq(U)
        /\ Len(SubSeq(s, a, to)) = (IF a <= to THEN to - a + 1 ELSE 0)
        /\ Range(SubSeq(s, a, to)) = {s[i] : i \in a .. to}
    BY <1>1, <1>3, <2>2, Part
  <2>4. p = SubSeq(s, a, to)
    BY <2>1
  <2> HIDE DEF p
  <2> QED BY <2>1, <2>3, <2>4
<1>6. k \in Seq(U) /\ Range(k) = Range(p) \cap Alive(b) /\ Len(k) <= Len(p)
  <2> HIDE DEF p
  <2> QED BY <1>5, <1>4, ThoseProperties
<1> HIDE DEF p
<1>7. PICK K \in Nat : K = Len(k)
  BY <1>6, LenProperties
<1>8. /\ t \in Seq(U) /\ Len(t) = skip + Len(k) + (Len(s) - to)
      /\ \A j \in 1 .. skip : t[j] = s[j]
      /\ \A j \in 1 .. Len(k) : t[skip + j] = k[j]
      /\ Range(k) \subseteq Range(t) /\ Range(t) \subseteq Range(s) \cup Range(k)
      /\ \A j \in 1 .. Len(s) : j <= skip \/ to < j => s[j] \in Range(t)
  <2> DEFINE w == Spliced(s, k, skip, to)
  <2>1. /\ w \in Seq(U) /\ Len(w) = skip + Len(k) + (Len(s) - to)
        /\ \A j \in 1 .. skip : w[j] = s[j]
        /\ \A j \in 1 .. Len(k) : w[skip + j] = k[j]
        /\ Range(k) \subseteq Range(w) /\ Range(w) \subseteq Range(s) \cup Range(k)
        /\ \A j \in 1 .. Len(s) : j <= skip \/ to < j => s[j] \in Range(w)
    <3>1. s \in Seq(U) /\ k \in Seq(U) /\ to <= Len(s)
      BY <1>1, <1>6, <1>3
    <3>2. w \in Seq(U)
      BY <3>1, Splice
    <3>3. Len(w) = skip + Len(k) + (Len(s) - to)
      BY <3>1, Splice
    <3>4. \A j \in 1 .. skip : w[j] = s[j]
      BY <3>1, Splice
    <3>5. \A j \in 1 .. Len(k) : w[skip + j] = k[j]
      BY <3>1, Splice
    <3>6. Range(k) \subseteq Range(w) /\ Range(w) \subseteq Range(s) \cup Range(k)
      BY <3>1, Splice
    <3>7. \A j \in 1 .. Len(s) : j <= skip \/ to < j => s[j] \in Range(w)
      BY <3>1, Splice
    <3> QED BY <3>2, <3>3, <3>4, <3>5, <3>6, <3>7
  <2>2. t = w
    BY <1>4
  <2> HIDE DEF w
  <2> QED BY <2>1, <2>2
<1>9. K <= to - skip /\ Len(t) = skip + K + (N - to) /\ to <= N
  BY <1>2, <1>5, <1>6, <1>7, <1>8, <1>3
<1>10. Len(t) <= Len(s)
  <2>1. skip + K + (N - to) <= N
    BY <1>9
  <2> QED BY <1>2, <1>9, <2>1
<1>11. \A o \in Range(k) : o \in Range(s) /\ ~isdead(b, o)
  <2>1. \A j \in skip + 1 .. to : j \in 1 .. N
    BY <1>9
  <2> QED BY <1>2, <1>5, <1>6, <2>1 DEF Alive
<1>12. Range(t) \subseteq Range(s)
  BY <1>8, <1>11
<1>13. ASSUME NEW o \in Range(s), ~isdead(b, o) PROVE o \in Range(t)
  <2>1. PICK j \in 1 .. N : o = s[j]
    BY <1>2
  <2>2. CASE j <= skip
    BY <1>2, <1>8, <2>1, <2>2
  <2>3. CASE j > to
    BY <1>2, <1>8, <2>1, <2>3
  <2>4. CASE skip < j /\ j <= to
    <3>1. o \in Range(p)
      BY <1>5, <2>1, <2>4
    <3>2. o \in Alive(b)
      BY <1>13, <1>3 DEF Alive
    <3> QED BY <1>6, <1>8, <3>1, <3>2
  <2> QED BY <2>2, <2>3, <2>4
<1>14. ASSUME NEW j \in 1 .. Len(t), j <= skip + Len(k)
       PROVE  IF j <= skip THEN t[j] = s[j] ELSE t[j] \in Range(k)
  <2>1. j \in Nat /\ 1 <= j /\ j <= skip + K
    BY <1>7, <1>9, <1>14
  <2>2. CASE j <= skip
    BY <1>8, <2>1, <2>2
  <2>3. CASE ~ (j <= skip)
    <3>1. j - skip \in 1 .. K /\ skip + (j - skip) = j
      BY <2>1, <2>3
    <3>2. t[j] = k[j - skip]
      BY <1>7, <1>8, <3>1
    <3>3. k[j - skip] \in Range(k)
      BY <1>6, <1>7, <3>1, RangeEquality
    <3> QED BY <2>3, <3>2, <3>3
  <2> QED BY <2>2, <2>3
<1> QED BY <1>5, <1>6, <1>8, <1>10, <1>11, <1>12, <1>13, <1>14 DEF U, s, k, t

\* What lives stays in its list.
Stay(b, h) ==
  \A x \in Names : Range(ListOf(b, x)) \cap Live(b) \subseteq Range(ListOf(h, x))

\* What one sweeplist leaves, before the state is advanced at the end of a list.
PartSwept(b, h) ==
  /\ h \in GState /\ SameThreads(b, h) /\ h.state = b.state /\ h.stage = "none"
  /\ Listed(h) \subseteq Listed(b) /\ Live(b) \subseteq Objs(h)
  /\ Range(h.finobj) \subseteq Range(b.finobj)
  /\ Range(h.tobefnz) \subseteq Range(b.tobefnz)
  /\ Stay(b, h)
  /\ Registry \in Range(h.allgc)
  /\ Len(h.finobj) + Len(h.tobefnz) <= MaxFinal
  /\ \A o \in All : \/ h.mark[o] \in {"white", "other", "gray", "black"} /\ h.mark[o] = b.mark[o]
                    \/ o \in Live(b) /\ h.mark[o] = "white"
  /\ IF h.sweepgc = NoSweep THEN \A o \in Objs(h) \ Later(h) : h.mark[o] = "white"
     ELSE Whites(h) /\ Phase(h)

\* One sweeplist, with SweepMax elements at most: it is done with tobefnz at once.
LEMMA Sweeplist ==
  ASSUME NEW b, NEW c, Calm(kind, c, open, mode, b), MaxFinal <= SweepMax,
         b.state \in DOMAIN Sweeps, b.sweepgc # NoSweep,
         NEW h, h = sweeplist(b)
  PROVE  PartSwept(b, h)
<1> DEFINE name == b.sweepgc.list
           skip == b.sweepgc.skip
           s == ListOf(b, name)
           to == IF skip + SweepMax <= Len(s) THEN skip + SweepMax ELSE Len(s)
           k == KeptOf(b, name, skip, to)
           t == SweptOf(b, name, skip, to)
           mk == [o \in All |-> IF o \in Range(k) THEN "white" ELSE b.mark[o]]
           e == SetList([b EXCEPT !.mark = mk], name, t)
<1>1. /\ b \in GState /\ b.stage = "none" /\ b.sweepgc \in Places /\ Objs(b) \subseteq All
      /\ Live(b) \subseteq Objs(b)
  <2>1. b \in GState /\ b.stage = "none"
    BY DEF Calm, Types, Phase, Marking
  <2>2. Objs(b) \subseteq All
    BY TypeFacts DEF Calm
  <2> QED BY <2>1, <2>2 DEF GState, Live
<1>2. /\ name = SweepOf[b.state] /\ name \in Names /\ skip \in Nat /\ skip <= Len(s)
      /\ b.state \in {"swpallgc", "swpfinobj", "swptobefnz"}
      /\ b.state = "swptobefnz" => skip = 0
  <2>1. b.state \in {"swpallgc", "swpfinobj", "swptobefnz"}
    BY DEF Sweeps
  <2>2. skip \in Nat /\ name \in {"none", "allgc", "finobj", "tobefnz"}
    BY <1>1 DEF Places
  <2>3. name # "none"
    <3>1. name = "none" => b.sweepgc = NoSweep
      BY <1>1 DEF Calm, Phase, NoSweep, Places
    <3> QED BY <3>1
  <2> QED BY <2>1, <2>2, <2>3 DEF Calm, Phase, Names, SweepOf
<1>3. h = At(e, name, skip + Len(k))
  BY DEF sweeplist, KeptOf, SweptOf
<1>4. /\ \A o : o \in Listed(b) <=> \E x \in Names : o \in Range(ListOf(b, x))
      /\ \A x \in Names : ListOf(b, x) \in Seq(Contents(x))
      /\ ListOf(b, "allgc") = b.allgc /\ ListOf(b, "finobj") = b.finobj
      /\ ListOf(b, "tobefnz") = b.tobefnz
  BY <1>1, ListedIs
<1>5. PICK N \in Nat, M \in Nat, T \in Nat : 
        N = Len(s) /\ M = SweepMax /\ T = to /\ skip <= T /\ T <= N
                                   /\ (T = N \/ T = skip + M)
  <2>1. Len(s) \in Nat
    BY <1>2, <1>4, LenProperties
  <2>2. SweepMax \in Nat
    BY GcAssumption
  <2> HIDE DEF s, skip
  <2> QED BY <1>2, <2>1, <2>2
<1>6. Range(s) \subseteq Listed(b) /\ Listed(b) \subseteq Objs(b) /\ Range(s) \subseteq All
  BY <1>1, <1>2, <1>4 DEF Objs
<1>7. /\ t \in Seq(Contents(name)) /\ k \in Seq(Contents(name)) /\ Len(t) <= Len(s)
      /\ Range(t) \subseteq Range(s)
      /\ \A o \in Range(s) : ~isdead(b, o) => o \in Range(t)
      /\ \A o \in Range(k) : o \in Range(s) /\ ~isdead(b, o)
      /\ Len(t) = skip + Len(k) + (Len(s) - to)
      /\ Len(k) <= to - skip
      /\ \A j \in 1 .. Len(t) : j <= skip + Len(k) =>
           IF j <= skip THEN t[j] = s[j] ELSE t[j] \in Range(k)
  <2>1. to \in Nat /\ skip <= to /\ to <= Len(s)
    BY <1>5
  <2>2. Range(ListOf(b, name)) \subseteq All /\ to <= Len(ListOf(b, name))
    BY <1>6, <2>1
  <2> HIDE DEF to, name, skip
  <2> QED BY <1>1, <1>2, <2>1, <2>2, SweptPart
<1>8. PICK n \in Nat : n = skip + Len(k)
  <2>1. Len(k) \in Nat
    BY <1>7, LenProperties
  <2> QED BY <1>2, <2>1
<1> HIDE DEF t, to, k, s
<1>9. mk \in Marks /\ \A o \in All : mk[o] = IF o \in Range(k) THEN "white" ELSE b.mark[o]
  <2>1. b.mark \in Marks
    BY <1>1 DEF GState, Marks
  <2> QED BY <2>1 DEF Marks
<1> HIDE DEF mk
<1>10. /\ e \in GState /\ SamePlace(b, e) /\ SameThreads(b, e) /\ e.mark = mk
       /\ \A x \in Names : ListOf(e, x) = IF x = name THEN t ELSE ListOf(b, x)
  <2> DEFINE d == [b EXCEPT !.mark = mk]
  <2>1. /\ d \in GState /\ SamePlace(b, d) /\ SameThreads(b, d) /\ d.mark = mk
        /\ SameLists(b, d)
    BY <1>1, <1>9 DEF GState, Marks, SamePlace, SameThreads, SameLists
  <2>2. e = SetList(d, name, t)
    OBVIOUS
  <2> HIDE DEF d, e
  <2>3. \A x : ListOf(d, x) = ListOf(b, x)
    BY <2>1 DEF ListOf, SameLists
  <2>4. /\ SetList(d, name, t) \in GState
        /\ \A x \in Names :
             ListOf(SetList(d, name, t), x) = IF x = name THEN t ELSE ListOf(d, x)
        /\ SamePlace(d, SetList(d, name, t)) /\ SameThreads(d, SetList(d, name, t))
        /\ SetList(d, name, t).mark = d.mark
    BY <1>2, <1>7, <2>1, SetListIs
  <2> QED BY <2>1, <2>2, <2>3, <2>4 DEF SamePlace, SameThreads
<1> HIDE DEF e
<1>11. /\ h \in GState /\ SameThreads(b, h) /\ h.state = b.state /\ h.stage = "none"
       /\ h.mark = mk /\ \A x \in Names : ListOf(h, x) = IF x = name THEN t ELSE ListOf(b, x)
       /\ h.sweepgc = IF n >= Len(t) THEN NoSweep ELSE [list |-> name, skip |-> n]
  <2> DEFINE w == IF n >= Len(t) THEN NoSweep ELSE [list |-> name, skip |-> n]
  <2>1. w \in Places
    BY <1>2 DEF NoSweep, Places, Names
  <2>2. h = [e EXCEPT !.sweepgc = w]
    BY <1>2, <1>3, <1>8, <1>10 DEF At
  <2> HIDE DEF w
  <2>3. /\ h \in GState /\ SameThreads(e, h) /\ h.mark = e.mark /\ SameLists(e, h)
        /\ h.sweepgc = w /\ h.state = e.state /\ h.stage = e.stage
    BY <1>10, <2>1, <2>2 DEF GState, SameThreads, SameLists
  <2>4. \A x : ListOf(h, x) = ListOf(e, x)
    BY <2>3 DEF ListOf, SameLists
  <2> QED BY <1>1, <1>10, <2>3, <2>4 DEF w, SameThreads, SamePlace
<1>12. /\ \A o : o \in Listed(h) <=> \E x \in Names : o \in Range(ListOf(h, x))
       /\ ListOf(h, "allgc") = h.allgc /\ ListOf(h, "finobj") = h.finobj
       /\ ListOf(h, "tobefnz") = h.tobefnz
  BY <1>11, ListedIs
<1>13. \A x \in Names : Range(ListOf(h, x)) \subseteq Range(ListOf(b, x))
  BY <1>7, <1>11 DEF s
<1>14. \A x \in Names : \A o \in Range(ListOf(b, x)) : ~isdead(b, o) => o \in Range(ListOf(h, x))
  BY <1>7, <1>11 DEF s
<1>15. Stay(b, h)
  BY <1>14 DEF Live, Stay
<1>16. Listed(h) \subseteq Listed(b)
  BY <1>4, <1>12, <1>13
<1>17. Live(b) \subseteq Objs(h)
  BY <1>4, <1>12, <1>14 DEF Live, Objs
<1>18. /\ Range(h.finobj) \subseteq Range(b.finobj)
       /\ Range(h.tobefnz) \subseteq Range(b.tobefnz)
  BY <1>4, <1>12, <1>13 DEF Names
<1>19. Registry \in Range(h.allgc)
  <2>1. Registry \in Range(b.allgc) /\ ~isdead(b, Registry)
    BY DEF Calm, Shape, RootsLive, Live
  <2> QED BY <1>4, <1>12, <1>14, <2>1 DEF Names
<1>20. Len(h.finobj) + Len(h.tobefnz) <= MaxFinal
  <2>1. Len(h.finobj) <= Len(b.finobj) /\ Len(h.tobefnz) <= Len(b.tobefnz)
    <3>1. \A x \in Names : Len(ListOf(h, x)) <= Len(ListOf(b, x))
      <4>1. \A x \in Names : Len(ListOf(b, x)) \in Nat
        BY <1>4, LenProperties
      <4> QED BY <1>7, <1>11, <4>1 DEF s
    <3> QED BY <1>4, <1>12, <3>1 DEF Names
  <2>2. PICK u \in Nat, v \in Nat, x \in Nat, y \in Nat :
          u = Len(h.finobj) /\ v = Len(h.tobefnz) /\ x = Len(b.finobj) /\ y = Len(b.tobefnz)
    BY <1>1, <1>11, LenProperties DEF GState
  <2>3. x + y <= MaxFinal /\ MaxFinal \in Nat
    BY <2>2, GcAssumption DEF Calm, Shape
  <2>4. u <= x /\ v <= y
    BY <2>1, <2>2
  <2>5. u + v <= MaxFinal
    BY <2>3, <2>4
  <2> QED BY <2>2, <2>5
<1>21. \A o \in All : \/ h.mark[o] \in {"white", "other", "gray", "black"} /\ h.mark[o] = b.mark[o]
                      \/ o \in Live(b) /\ h.mark[o] = "white"
  <2>1. \A o \in Range(k) : o \in Live(b)
    BY <1>6, <1>7 DEF Live
  <2> QED BY <1>9, <1>11, <2>1 DEF Marks
<1>22. \A o \in All : b.mark[o] = "white" => h.mark[o] = "white"
  BY <1>9, <1>11
<1>23. \A j \in 1 .. Len(t) : j <= n => h.mark[t[j]] = "white"
  <2> SUFFICES ASSUME NEW j \in 1 .. Len(t), j <= n PROVE h.mark[t[j]] = "white"
    OBVIOUS
  <2>1. IF j <= skip THEN t[j] = s[j] ELSE t[j] \in Range(k)
    BY <1>7, <1>8
  <2>2. CASE j <= skip
    <3>1. j \in 1 .. skip
      BY <1>2, <2>2
    <3>2. b.mark[s[j]] = "white"
      BY <1>2, <3>1 DEF Calm, Whites, s
    <3>3. s[j] \in All
      <4>1. j \in 1 .. N
        BY <1>2, <1>5, <3>1
      <4>2. s[j] \in Range(s)
        BY <1>2, <1>4, <1>5, <4>1, RangeEquality DEF s
      <4> QED BY <1>6, <4>2
    <3> QED BY <1>22, <2>1, <2>2, <3>2, <3>3
  <2>3. CASE ~ (j <= skip)
    <3>1. t[j] \in Range(k) /\ t[j] \in All
      BY <1>6, <1>7, <2>1, <2>3
    <3> QED BY <1>9, <1>11, <3>1
  <2> QED BY <2>2, <2>3
<1>24. PICK L \in Nat : L = Len(t) /\ Range(t) = {t[j] : j \in 1 .. L}
  BY <1>7, LenProperties, RangeEquality
\* What is not in the list being swept was not, or was white already.
<1>25. ASSUME NEW o \in Objs(h), o \notin Later(h), o \notin Range(t) PROVE h.mark[o] = "white"
  <2>1. o \in Objs(b) /\ o \in All
    BY <1>1, <1>16, <1>25 DEF Objs
  <2>2. Later(b) = Later(h)
    <3>1. b.state = "swpallgc" => h.finobj = b.finobj /\ h.tobefnz = b.tobefnz
      BY <1>2, <1>4, <1>11, <1>12 DEF Names, SweepOf
    <3>2. b.state = "swpfinobj" => h.tobefnz = b.tobefnz
      BY <1>2, <1>4, <1>11, <1>12 DEF Names, SweepOf
    <3> QED BY <1>2, <1>11, <3>1, <3>2 DEF Later
  <2>3. o \notin Range(s)
    <3>1. CASE b.state = "swpallgc"
      <4>1. o # Main /\ o \notin Range(h.finobj) /\ o \notin Range(h.tobefnz)
        BY <1>11, <1>25, <3>1 DEF Later
      <4>2. o \in Listed(h)
        BY <1>25, <4>1 DEF Objs
      <4>3. o \in Range(h.allgc)
        BY <4>1, <4>2 DEF Listed
      <4>4. h.allgc = t
        BY <1>2, <1>11, <1>12, <3>1 DEF Names, SweepOf
      <4> QED BY <1>25, <4>3, <4>4
    <3>2. CASE b.state # "swpallgc"
      <4>1. name \in {"finobj", "tobefnz"}
        BY <1>2, <3>2 DEF SweepOf
      <4>2. Range(s) \subseteq Live(b)
        BY <1>4, <4>1 DEF s, Calm, RootsLive
      <4>3. \A x \in Range(s) : ~isdead(b, x)
        BY <4>2 DEF Live
      <4> QED BY <1>7, <1>25, <4>3
    <3> QED BY <3>1, <3>2
  <2>4. o \notin Unswept(b)
    <3>1. Behind(b, name) \subseteq Range(s)
      <4>1. Behind(b, name) = {s[i] : i \in skip + 1 .. N}
        BY <1>5 DEF Behind, s
      <4>2. \A i \in skip + 1 .. N : i \in 1 .. N
        BY <1>2
      <4>3. Range(s) = {s[i] : i \in 1 .. N}
        BY <1>2, <1>4, <1>5, RangeEquality DEF s
      <4> QED BY <4>1, <4>2, <4>3
    <3>2. Unswept(b) = Behind(b, name) \cup Later(b)
      <4>1. CASE b.state = "swpallgc"
        <5>1. name = "allgc"
          BY <1>2, <4>1 DEF SweepOf
        <5> QED BY <4>1, <5>1 DEF Unswept, Later
      <4>2. CASE b.state = "swpfinobj"
        <5>1. name = "finobj"
          BY <1>2, <4>2 DEF SweepOf
        <5> QED BY <4>2, <5>1 DEF Unswept, Later
      <4>3. CASE b.state = "swptobefnz"
        <5>1. name = "tobefnz"
          BY <1>2, <4>3 DEF SweepOf
        <5> QED BY <4>3, <5>1 DEF Unswept, Later
      <4> QED BY <1>2, <4>1, <4>2, <4>3
    <3> QED BY <1>25, <2>2, <2>3, <3>1, <3>2
  <2>5. b.mark[o] = "white"
    BY <1>2, <2>1, <2>4 DEF Calm, Whites
  <2> QED BY <1>22, <2>1, <2>5
<1>26. CASE n >= L
  <2>1. h.sweepgc = NoSweep
    BY <1>11, <1>24, <1>26
  <2>2. \A o \in Range(t) : h.mark[o] = "white"
    BY <1>23, <1>24, <1>26
  <2>3. \A o \in Objs(h) \ Later(h) : h.mark[o] = "white"
    BY <1>25, <2>2
  <2> QED BY <1>15, <1>11, <1>16, <1>17, <1>18, <1>19, <1>20, <1>21, <2>1, <2>3
             DEF PartSwept
<1>27. CASE ~ (n >= L)
  <2>1. h.sweepgc = [list |-> name, skip |-> n]
    BY <1>11, <1>24, <1>27
  <2>2. h.sweepgc # NoSweep /\ h.sweepgc.list = name /\ h.sweepgc.skip = n
    BY <1>2, <2>1 DEF NoSweep, Names
  <2>3. name # "tobefnz"
    <3> SUFFICES ASSUME name = "tobefnz" PROVE FALSE
      OBVIOUS
    <3>1. skip = 0
      BY <1>2 DEF SweepOf
    <3>2. N <= M
      <4>1. PICK u \in Nat, v \in Nat : u = Len(b.finobj) /\ v = Len(b.tobefnz)
        BY <1>1, LenProperties DEF GState
      <4>2. u + v <= MaxFinal /\ MaxFinal \in Nat /\ MaxFinal <= M
        BY <1>5, <4>1, GcAssumption DEF Calm, Shape
      <4>3. N = v
        BY <1>4, <1>5, <4>1 DEF s
      <4>4. v <= M
        BY <4>2
      <4> QED BY <4>3, <4>4
    <3>3. T = N
      BY <1>5, <3>1, <3>2
    <3>4. L = n
      BY <1>5, <1>7, <1>8, <1>24, <3>3
    <3> QED BY <1>27, <3>4
  <2>4. ListOf(h, name) = t
    BY <1>2, <1>11
  <2>5. Phase(h)
    <3>1. h.state = b.state /\ h.stage = "none"
      BY <1>11
    <3>2. n <= Len(ListOf(h, name))
      BY <1>24, <1>27, <2>4
    <3>3. name = SweepOf[b.state] /\ b.state \in {"swpallgc", "swpfinobj", "swptobefnz"}
          /\ b.state # "swptobefnz"
      BY <1>2, <2>3 DEF SweepOf
    <3> QED BY <2>2, <3>1, <3>2, <3>3 DEF Phase, SweepOf
  <2>6. ~Marking(h)
    BY <1>2, <1>11 DEF Marking
  <2>7. \A o \in Objs(h) \ Unswept(h) : h.mark[o] = "white"
    <3>1. Behind(h, name) = {t[i] : i \in n + 1 .. L}
      BY <1>24, <2>2, <2>4 DEF Behind
    <3>2. Unswept(h) = Behind(h, name) \cup Later(h)
      <4>1. CASE b.state = "swpallgc"
        <5>1. name = "allgc" /\ h.state = "swpallgc"
          BY <1>2, <1>11, <4>1 DEF SweepOf
        <5> QED BY <5>1 DEF Unswept, Later
      <4>2. CASE b.state = "swpfinobj"
        <5>1. name = "finobj" /\ h.state = "swpfinobj"
          BY <1>2, <1>11, <4>2 DEF SweepOf
        <5> QED BY <5>1 DEF Unswept, Later
      <4> QED BY <1>2, <2>3, <4>1, <4>2 DEF SweepOf
    <3> SUFFICES ASSUME NEW o \in Objs(h), o \notin Behind(h, name), o \notin Later(h)
                 PROVE  h.mark[o] = "white"
      BY <3>2
    <3>3. CASE o \in Range(t)
      <4>1. PICK j \in 1 .. L : o = t[j]
        BY <1>24, <3>3
      <4>2. ~ (j \in n + 1 .. L)
        BY <3>1, <4>1
      <4>3. j <= n
        BY <4>2
      <4> QED BY <1>23, <1>24, <4>1, <4>3
    <3> QED BY <1>25, <3>3
  <2>8. \A i \in 1 .. h.sweepgc.skip : h.mark[ListOf(h, h.sweepgc.list)[i]] = "white"
    <3> SUFFICES ASSUME NEW i \in 1 .. n PROVE h.mark[t[i]] = "white"
      BY <2>2, <2>4
    <3>1. i \in 1 .. Len(t) /\ i <= n
      BY <1>24, <1>27
    <3> QED BY <1>23, <3>1
  <2>9. Whites(h)
    BY <2>6, <2>7, <2>8 DEF Whites
  <2> QED BY <1>15, <1>11, <1>16, <1>17, <1>18, <1>19, <1>20, <1>21, <2>2, <2>5, <2>9
             DEF PartSwept
<1> QED BY <1>26, <1>27

\* A step of the sweep.
LEMMA Sweeping ==
  ASSUME IInv, MaxFinal <= SweepMax, sweepstep
  PROVE  Calm(kind, refs, open, mode, g) /\ \E s : Swept(g, s) /\ Collector(s)
<1> DEFINE h == IF g.sweepgc = NoSweep THEN g ELSE sweeplist(g)
           to == Sweeps[g.state]
           f == [h EXCEPT !.state = to[1], !.sweepgc = [list |-> to[2], skip |-> 0]]
<1>1. /\ g.stage = "none" /\ g.state \in DOMAIN Sweeps
      /\ Collector(IF h.sweepgc # NoSweep THEN h ELSE f)
  BY DEF sweepstep, Between
<1>2. g.state \in {"swpallgc", "swpfinobj", "swptobefnz"} /\ ~Marking(g)
  BY <1>1 DEF Sweeps, Marking
<1>3. Calm(kind, refs, open, mode, g)
  BY <1>2, CalmInv DEF IInv
<1>4. g \in GState /\ mode \in [All -> Modes] /\ Objs(g) \subseteq All
  BY <1>3, TypeFacts DEF Calm, Types
<1>5. CASE g.sweepgc = NoSweep
  <2> DEFINE e == [g EXCEPT !.state = to[1], !.sweepgc = [list |-> to[2], skip |-> 0]]
  <2>1. Collector(e)
    BY <1>1, <1>5
  <2>2. \A o \in Objs(g) \ Later(g) : g.mark[o] = "white"
    <3>1. \A name \in Names : Behind(g, name) = {}
      BY <1>5 DEF Behind, NoSweep, Names
    <3>2. Unswept(g) = Later(g)
      BY <1>2, <3>1 DEF Unswept, Later, Names
    <3> QED BY <1>2, <1>3, <3>2 DEF Calm, Whites
  <2>3. /\ e \in GState /\ SameLists(g, e) /\ SameThreads(g, e) /\ e.mark = g.mark
        /\ Whites(e) /\ Phase(e) /\ ~Marking(e)
    BY <1>1, <1>4, <2>2, Advance
  <2> HIDE DEF e
  <2>4. Swept(g, e)
    <3>1. Listed(e) = Listed(g) /\ Objs(e) = Objs(g)
      BY <2>3 DEF SameLists, Listed, Objs
    <3>2. \A o \in All : e.mark[o] \in {"white", "other", "gray", "black"} /\ e.mark[o] = g.mark[o]
      BY <1>4, <2>3 DEF GState
    <3>3. Registry \in Range(e.allgc) /\ Len(e.finobj) + Len(e.tobefnz) <= MaxFinal
      BY <1>3, <2>3 DEF Calm, Shape, SameLists
    <3>4. Range(e.finobj) \cup Range(e.tobefnz) \subseteq Live(g)
      BY <1>3, <2>3 DEF Calm, RootsLive, SameLists
    <3> QED BY <2>3, <3>1, <3>2, <3>3, <3>4 DEF Swept, Live
  <2> QED BY <1>3, <2>1, <2>4
<1>6. CASE g.sweepgc # NoSweep
  <2> DEFINE d == sweeplist(g)
             e == [d EXCEPT !.state = to[1], !.sweepgc = [list |-> to[2], skip |-> 0]]
  <2>1. Collector(IF d.sweepgc # NoSweep THEN d ELSE e)
    BY <1>1, <1>6
  <2>0. PartSwept(g, d)
    BY <1>1, <1>3, <1>6, Sweeplist
  <2>2. /\ d \in GState /\ SameThreads(g, d) /\ d.state = g.state /\ d.stage = "none"
        /\ Listed(d) \subseteq Listed(g) /\ Live(g) \subseteq Objs(d)
        /\ Range(d.finobj) \subseteq Range(g.finobj)
        /\ Range(d.tobefnz) \subseteq Range(g.tobefnz)
        /\ Registry \in Range(d.allgc)
        /\ Len(d.finobj) + Len(d.tobefnz) <= MaxFinal
        /\ \A o \in All :
             \/ d.mark[o] \in {"white", "other", "gray", "black"} /\ d.mark[o] = g.mark[o]
             \/ o \in Live(g) /\ d.mark[o] = "white"
        /\ IF d.sweepgc = NoSweep THEN \A o \in Objs(d) \ Later(d) : d.mark[o] = "white"
           ELSE Whites(d) /\ Phase(d)
    BY <2>0 DEF PartSwept
  <2> HIDE DEF d
  <2>5. Range(d.finobj) \cup Range(d.tobefnz) \subseteq Live(g)
    BY <1>3, <2>2 DEF Calm, RootsLive
  <2>3. CASE d.sweepgc # NoSweep
    <3>1. ~Marking(d)
      BY <1>2, <2>2 DEF Marking
    <3>2. Swept(g, d)
      BY <2>2, <2>3, <2>5, <3>1 DEF Swept
    <3>3. Collector(d)
      BY <2>1, <2>3
    <3> QED BY <1>3, <3>2, <3>3
  <2>4. CASE d.sweepgc = NoSweep
    <3>1. Collector(e)
      BY <2>1, <2>4
    <3>2. /\ e \in GState /\ SameLists(d, e) /\ SameThreads(d, e) /\ e.mark = d.mark
          /\ Whites(e) /\ Phase(e) /\ ~Marking(e)
      BY <1>1, <2>2, <2>4, Advance
    <3> HIDE DEF e
    <3>3. Listed(e) = Listed(d) /\ Objs(e) = Objs(d)
      BY <3>2 DEF SameLists, Listed, Objs
    <3>4. Swept(g, e)
      BY <2>2, <2>5, <3>2, <3>3 DEF Swept, SameLists, SameThreads
    <3> QED BY <1>3, <3>1, <3>4
  <2> QED BY <2>3, <2>4
<1> QED BY <1>5, <1>6

\* The main thread is made white, after all the others.
LEMMA SweepEnds ==
  ASSUME IInv, swpend
  PROVE  Calm(kind, refs, open, mode, g) /\ \E s : Swept(g, s) /\ Collector(s)
<1> DEFINE h == [makewhite(g, Main) EXCEPT !.state = "callfin", !.sweepgc = NoSweep]
<1>1. g.state = "swpend" /\ Collector(h) /\ ~Marking(g) /\ g.stage = "none"
  BY DEF swpend, Marking, Between
<1>2. Calm(kind, refs, open, mode, g)
  BY <1>1, CalmInv DEF IInv
<1>3. g \in GState /\ mode \in [All -> Modes] /\ Objs(g) \subseteq All
  BY <1>2, TypeFacts DEF Calm, Types
<1>4. /\ h \in GState /\ SameLists(g, h) /\ SameThreads(g, h) /\ h.state = "callfin"
      /\ h.stage = "none" /\ h.sweepgc = NoSweep
      /\ h.mark = [g.mark EXCEPT ![Main] = "white"]
  BY <1>1, <1>3, Constants
     DEF GState, makewhite, SameLists, SameThreads, States, Places, NoSweep
<1> HIDE DEF h
<1>5. \A o \in All : h.mark[o] = IF o = Main THEN "white" ELSE g.mark[o]
  BY <1>3, <1>4, Constants DEF GState
<1>6. Listed(h) = Listed(g) /\ Objs(h) = Objs(g) /\ ~Marking(h)
  BY <1>4 DEF SameLists, Listed, Objs, Marking
<1>7. Whites(h)
  <2>1. Unswept(g) = {Main} /\ Unswept(h) = {}
    BY <1>1, <1>4 DEF Unswept
  <2>2. \A o \in Objs(h) : h.mark[o] = "white"
    BY <1>1, <1>2, <1>3, <1>5, <1>6, <2>1 DEF Calm, Whites
  <2>3. h.sweepgc.skip = 0
    BY <1>4 DEF NoSweep
  <2> QED BY <1>6, <2>2, <2>3 DEF Whites
<1>8. Phase(h)
  <2>1. Len(ListOf(h, "none")) \in Nat
    BY <1>4, LenProperties DEF ListOf, GState
  <2> QED BY <1>4, <2>1 DEF Phase, NoSweep
<1>9. Swept(g, h)
  <2>1. Main \in Live(g)
    BY <1>2 DEF Calm, RootsLive
  <2>2. \A o \in All : g.mark[o] \in {"white", "other", "gray", "black"}
    BY <1>3 DEF GState
  <2>3. Registry \in Range(h.allgc) /\ Len(h.finobj) + Len(h.tobefnz) <= MaxFinal
    BY <1>2, <1>4 DEF Calm, Shape, SameLists
  <2>4. Range(h.finobj) \cup Range(h.tobefnz) \subseteq Live(g)
    BY <1>2, <1>4 DEF Calm, RootsLive, SameLists
  <2> QED BY <1>4, <1>5, <1>6, <1>7, <1>8, <2>1, <2>2, <2>3, <2>4 DEF Swept, Live, SameLists
<1> QED BY <1>1, <1>2, <1>9

\* A step of the sweep keeps the invariant.
LEMMA SweepStep ==
  ASSUME IInv, MaxFinal <= SweepMax, sweepstep \/ swpend
  PROVE  IInv'
<1>1. Calm(kind, refs, open, mode, g) /\ \E s : Swept(g, s) /\ Collector(s)
  BY Sweeping, SweepEnds
<1>2. mode \in [All -> Modes]
  BY <1>1 DEF Calm, Types
<1> QED BY <1>1, <1>2, Freed DEF Collector, Freeing

\* A state in which all that is there is white, be it callfin or pause.
LEMMA ToPause ==
  ASSUME IInv, g.state = "callfin", Heap([g EXCEPT !.state = "pause"], refs)
  PROVE  IInv'
<1> DEFINE h == [g EXCEPT !.state = "pause"]
<1>1. ~Marking(g)
  BY DEF Marking
<1>2. Calm(kind, refs, open, mode, g)
  BY <1>1, CalmInv DEF IInv
<1>3. g \in GState
  BY <1>2 DEF Calm, Types
<1>4. /\ h \in GState /\ SameLists(g, h) /\ SameThreads(g, h) /\ h.state = "pause"
      /\ h.stage = g.stage /\ h.sweepgc = g.sweepgc /\ h.mark = g.mark
  BY <1>3 DEF GState, SameLists, SameThreads, States
<1>5. Heap(h, refs)
  OBVIOUS
<1> HIDE DEF h
<1>6. /\ Listed(h) = Listed(g) /\ Objs(h) = Objs(g) /\ ~Marking(h) /\ Live(h) = Live(g)
      /\ \A name : ListOf(h, name) = ListOf(g, name)
  BY <1>4 DEF SameLists, Listed, Objs, Marking, Live, isdead, ListOf
<1>7. Types(kind, refs, open, mode, h) /\ Shape(kind, refs, open, h)
  <2>1. NW(h) = NW(g)
    BY <1>4 DEF NW, IsWhite
  <2> QED BY <1>2, <1>4, <1>6, <2>1 DEF Calm, Types, Shape, SameLists, SameThreads
<1>8. Closed(refs, open, h) /\ RootsLive(h)
  BY <1>2, <1>4, <1>6 DEF Calm, Closed, RootsLive, SameLists, SameThreads
<1>9. Whites(h)
  <2>1. Unswept(g) = {} /\ Unswept(h) = {}
    BY <1>4 DEF Unswept
  <2> QED BY <1>1, <1>2, <1>4, <1>6, <2>1 DEF Calm, Whites
<1>10. Phase(h)
  BY <1>2, <1>4, <1>6 DEF Calm, Phase
<1>11. h.openupval \cap Live(h) \subseteq h.twups
  BY <1>2, <1>4, <1>6 DEF Calm, SameThreads
<1>12. Inv(kind, refs, open, mode, h)
  BY <1>6, <1>7, <1>8, <1>9, <1>10, <1>11, CalmInv DEF Calm
<1> QED BY <1>5, <1>6, <1>12, QuietStep

\* The cycle ends when there is nothing to finalize.
LEMMA Callfin ==
  ASSUME IInv, callfin
  PROVE  IInv'
BY ToPause DEF callfin, Collector, Freeing

\* entersweep, from a heap in which what lives is what a sweep has to leave.
LEMMA Entering ==
  ASSUME NEW x, NEW c, Types(kind, c, open, mode, x), Shape(kind, c, open, x),
         Closed(c, open, x), RootsLive(x), x.openupval \cap Live(x) \subseteq x.twups
  PROVE  \E y : /\ Calm(kind, c, open, mode, y) /\ Swept(y, entersweep(x))
                /\ y.mark = x.mark /\ Listed(y) = Listed(x)
<1> DEFINE d == [x EXCEPT !.state = "swpallgc", !.stage = "none"]
           b == [d EXCEPT !.sweepgc = [list |-> "allgc", skip |-> 0]]
           h == sweeptolive(d, "allgc", 0)
<1>1. x \in GState
  BY DEF Types
<1>2. /\ d \in GState /\ SameLists(x, d) /\ SameThreads(x, d) /\ d.mark = x.mark
      /\ d.state = "swpallgc" /\ d.stage = "none"
  BY <1>1 DEF GState, SameLists, SameThreads, States, Stages
<1>3. h = entersweep(x)
  BY DEF entersweep
<1> HIDE DEF d
<1>4. /\ b \in GState /\ SameLists(d, b) /\ SameThreads(d, b) /\ b.mark = d.mark
      /\ b.state = "swpallgc" /\ b.stage = "none"
      /\ b.sweepgc = [list |-> "allgc", skip |-> 0]
  <2>1. [list |-> "allgc", skip |-> 0] \in Places
    BY DEF Places
  <2> QED BY <1>2, <2>1 DEF GState, SameLists, SameThreads
<1> HIDE DEF b, h
<1>5. /\ Listed(b) = Listed(x) /\ Objs(b) = Objs(x) /\ ~Marking(b) /\ Live(b) = Live(x)
      /\ NW(b) = NW(x)
      /\ b.allgc = x.allgc /\ b.finobj = x.finobj /\ b.tobefnz = x.tobefnz
      /\ b.openupval = x.openupval /\ b.twups = x.twups
  BY <1>2, <1>4 DEF SameLists, SameThreads, Listed, Objs, Marking, Live, isdead, NW, IsWhite
<1>6. Types(kind, c, open, mode, b) /\ Shape(kind, c, open, b)
  BY <1>4, <1>5 DEF Types, Shape
<1>7. Closed(c, open, b) /\ RootsLive(b) /\ b.openupval \cap Live(b) \subseteq b.twups
  BY <1>5 DEF Closed, RootsLive
<1>8. Phase(b)
  <2>1. 0 <= Len(ListOf(b, "allgc"))
    <3>1. Len(b.allgc) \in Nat
      BY <1>4, LenProperties DEF GState
    <3> QED BY <3>1 DEF ListOf
  <2> QED BY <1>4, <2>1 DEF Phase
<1>9. Whites(b)
  <2>1. Range(b.allgc) = {b.allgc[i] : i \in 1 .. Len(b.allgc)}
    BY <1>4, RangeEquality DEF GState
  <2>2. Behind(b, "allgc") = Range(b.allgc)
    BY <1>4, <2>1 DEF Behind, ListOf
  <2>3. Objs(b) \subseteq Unswept(b)
    BY <1>4, <2>2 DEF Unswept, Objs, Listed
  <2> QED BY <1>4, <1>5, <2>3 DEF Whites
<1>10. Calm(kind, c, open, mode, b)
  BY <1>5, <1>6, <1>7, <1>8, <1>9 DEF Calm
<1>11. Swept(b, h)
  <2>1. SameLists(b, d) /\ SameThreads(b, d) /\ d.mark = b.mark /\ d.state = b.state
        /\ d.stage = b.stage
    BY <1>2, <1>4 DEF SameLists, SameThreads
  <2>2. h = sweeptolive(d, "allgc", 0)
    BY DEF h
  <2> QED BY <1>2, <1>4, <1>10, <2>1, <2>2, SweepToLive
<1> QED BY <1>2, <1>3, <1>4, <1>5, <1>10, <1>11

\* Entering the sweep phase keeps the invariant.
LEMMA EnterSweep ==
  ASSUME NEW x, NEW c, Types(kind, c, open, mode, x), Shape(kind, c, open, x),
         Closed(c, open, x), RootsLive(x), x.openupval \cap Live(x) \subseteq x.twups,
         Listed(x) = Listed(g), Heap(entersweep(x), c)
  PROVE  IInv'
<1>1. mode \in [All -> Modes]
  BY DEF Types
<1> QED BY <1>1, Entering, Freed

\* An emergency collection turns all objects white first.
LEMMA Fullgc ==
  ASSUME IInv, luaC_fullgc
  PROVE  IInv'
<1>1. CASE keepinvariant(g) /\ Heap(entersweep(g), refs)
  <2>1. /\ Types(kind, refs, open, mode, g) /\ Shape(kind, refs, open, g)
        /\ Closed(refs, open, g) /\ RootsLive(g) /\ Threads(kind, g)
    BY DEF IInv, Inv, Core
  <2>2. g.openupval \cap Live(g) \subseteq g.twups
    BY <1>1, <2>1 DEF Threads, keepinvariant
  <2> QED BY <1>1, <2>1, <2>2, EnterSweep
<1>2. CASE g.state = "callfin" /\ Heap([g EXCEPT !.state = "pause"], refs)
  BY <1>2, ToPause
<1> QED BY <1>1, <1>2 DEF luaC_fullgc

-----------------------------------------------------------------------------
(* The end of the atomic phase: what is not marked is what is dead. *)

\* What clearvalues and clearkeys leave in a table is marked.
LEMMA Uncleared ==
  ASSUME NEW h, NEW T, \A o \in StringsOf(T) : o \in NW(h), NEW t \in T, NEW e \in refs[t],
         e[1] \in Object \cup {Null}, e[2] \in Object
  PROVE  /\ ~Cleared(h, e[1]) => e[1] = Null \/ e[1] \in NW(h)
         /\ ~Cleared(h, e[2]) => e[2] \in NW(h)
<1>1. e[2] \in All /\ e[2] # Null /\ (e[1] # Null => e[1] \in All)
  BY Constants
<1>2. e[2] \in Values(t) /\ (e[1] # Null => e[1] \in KeysOf(t))
  BY DEF Values, KeysOf
<1>3. KindOf(e[2]) = "string" => e[2] \in NW(h)
  BY <1>1, <1>2 DEF StringsOf, StringsIn
<1>4. e[1] # Null /\ KindOf(e[1]) = "string" => e[1] \in NW(h)
  BY <1>2 DEF StringsOf, StringsIn
<1> QED BY <1>1, <1>3, <1>4 DEF Cleared, NW

\* The whites change places: what is not marked is dead from now on, and nothing
\* that lives refers to it, since weak tables have been cleared.
LEMMA Flipping ==
  ASSUME IInv, atomic_flip
  PROVE  \E y, r : /\ Types(kind, r, open, mode, y) /\ Shape(kind, r, open, y)
                   /\ Closed(r, open, y) /\ RootsLive(y)
                   /\ y.openupval \cap Live(y) \subseteq y.twups /\ Listed(y) = Listed(g)
                   /\ \A o \in Live(y) : o \in NW(g) \/ KindOf(o) = "string"
                   /\ Freeing(entersweep(y), r)
<1> DEFINE byKey == g.ephemeron \cup g.allweak
           byValue == (g.weak \ g.origweak) \cup (g.allweak \ g.origall)
           S == StringsOf(byKey \cup byValue)
           h == reallymark(g, S)
           x == flip(NoGray(h))
           c == WithoutValues(h, WithoutKeys(h, refs, byKey), byValue)
<1>1. /\ g \in GState /\ g.stage = "converge again" /\ g.gray = {} /\ g.next = {}
      /\ ~g.changed
      /\ g.state = "inside" /\ Marking(g)
      /\ Core(kind, refs, open, mode, g, {}) /\ Rest(refs, g, {}) /\ Rounds(kind, refs, g)
      /\ Freeing(entersweep(x), c)
  BY DEF IInv, Inv, Core, Types, atomic_flip, Converged, Emptied, Rest, Phase, Marking
<1>2. /\ refs \in [All -> SUBSET ((Object \cup {Null}) \X Object)]
      /\ open \in [Object -> Object \cup {Null}] /\ kind \in [Object -> Kinds]
      /\ mode \in [All -> Modes]
      /\ Objs(g) \subseteq All /\ NW(g) \subseteq All
  BY <1>1, TypeFacts DEF Core, Types
<1>3. byKey \cup byValue \subseteq NW(g) /\ NW(g) \subseteq Objs(g) /\ Live(g) = Objs(g)
  BY <1>1 DEF Core, Grays, GrayLists, Shape, NW, Whites
<1>4. S \subseteq Objs(g)
  <2>1. \A t \in byKey \cup byValue : Values(t) \cup KeysOf(t) \subseteq Objs(g)
    BY <1>1, <1>3, Reading DEF Core, Closed
  <2> QED BY <2>1 DEF StringsOf, StringsIn
<1>5. /\ Core(kind, refs, open, mode, h, {}) /\ Rest(refs, h, {}) /\ Marking(h)
      /\ Marked(g, h, S)
  BY <1>1, <1>4, Mark
<1> HIDE DEF h
<1>6. /\ h \in GState /\ SameLists(g, h) /\ SamePlace(g, h) /\ SameThreads(g, h)
      /\ SameGrays(g, h)
      /\ S \cup NW(g) \subseteq NW(h)
      /\ h.gray = g.gray \cup {o \in NW(h) \ NW(g) : ~AtOnce(o)}
  BY <1>5 DEF Marked
<1>7. NW(h) \subseteq NW(g) \cup S
  <2>1. \A o \in S : o \in All /\ KindOf(o) = "string"
    BY <1>2, <1>4 DEF StringsOf, StringsIn
  <2>2. \A u \in S : Values(u) = {}
    <3> TAKE u \in S
    <3>1. u \in All /\ KindIn(kind, u) = "string"
      BY <2>1, Reading
    <3> HIDE DEF S
    <3>2. refs[u] = {}
      BY <1>1, <3>1 DEF Core, Shape
    <3> QED BY <3>2 DEF Values
  <2>3. S \in SUBSET All /\ \A u \in S \ NW(g) : Values(u) \subseteq S
    BY <2>1, <2>2
  <2> HIDE DEF S
  <2> QED BY <1>5, <2>3 DEF Marked
<1>8. \A o \in NW(h) \ NW(g) : KindOf(o) = "string"
  BY <1>7 DEF StringsOf, StringsIn
<1>9. Pending(h) = {} /\ ~Early(h)
  <2>1. h.gray = {}
    BY <1>1, <1>6, <1>8 DEF AtOnce
  <2> QED BY <1>1, <1>6, <2>1 DEF Pending, Early, SamePlace
<1>10. /\ x \in GState /\ SameLists(h, x) /\ SameThreads(h, x)
       /\ \A o \in All : x.mark[o] = IF h.mark[o] = "white" THEN "other"
                                     ELSE IF h.mark[o] = "other" THEN "white" ELSE h.mark[o]
  <2> DEFINE mk == [o \in All |-> IF h.mark[o] = "white" THEN "other"
                                  ELSE IF h.mark[o] = "other" THEN "white" ELSE h.mark[o]]
             n == NoGray(h)
  <2>1. n \in GState /\ SameLists(h, n) /\ SameThreads(h, n) /\ n.mark = h.mark
    BY <1>6 DEF GState, NoGray, SameLists, SameThreads
  <2>2. x = [n EXCEPT !.mark = mk]
    BY <2>1 DEF flip
  <2>3. mk \in Marks
    BY <1>6 DEF GState, Marks
  <2> HIDE DEF n, x
  <2>4. x \in GState /\ SameLists(n, x) /\ SameThreads(n, x) /\ x.mark = mk
    <3> HIDE DEF mk
    <3> QED BY <2>1, <2>2, <2>3 DEF GState, Marks, SameLists, SameThreads
  <2> QED BY <2>1, <2>4 DEF SameLists, SameThreads
<1> HIDE DEF x
<1>11. Listed(x) = Listed(h) /\ Objs(x) = Objs(h) /\ Listed(h) = Listed(g) /\ Objs(h) = Objs(g)
  BY <1>6, <1>10 DEF SameLists, Listed, Objs
<1>12. NW(x) = NW(h)
  <2>1. \A o \in All : IsWhite(x, o) <=> IsWhite(h, o)
    BY <1>6, <1>10 DEF IsWhite
  <2> QED BY <2>1 DEF NW
<1>13. Live(x) = NW(h)
  <2>1. \A o \in Objs(h) : h.mark[o] # "other"
    BY <1>5 DEF Core, Whites, Live, isdead
  <2>2. NW(h) \subseteq Objs(h) /\ Objs(h) \subseteq All
    BY <1>2, <1>5, <1>11 DEF Core, Shape, NW
  <2>3. \A o \in Objs(h) : x.mark[o] # "other" <=> ~IsWhite(h, o)
    BY <1>10, <2>1, <2>2 DEF IsWhite
  <2> QED BY <1>11, <2>2, <2>3 DEF Live, isdead, NW
<1>14. /\ c \in [All -> SUBSET ((Object \cup {Null}) \X Object)]
       /\ \A o \in All : /\ c[o] \subseteq refs[o]
                         /\ o \in byKey => \A e \in c[o] : ~Cleared(h, e[1])
                         /\ o \in byValue => \A e \in c[o] : ~Cleared(h, e[2])
  <2> HIDE DEF byKey, byValue
  <2>1. WithoutKeys(h, refs, byKey) \in [All -> SUBSET ((Object \cup {Null}) \X Object)]
    BY <1>2 DEF WithoutKeys
  <2>2. c \in [All -> SUBSET ((Object \cup {Null}) \X Object)]
    BY <2>1 DEF WithoutValues
  <2>3. ASSUME NEW o \in All
        PROVE  /\ c[o] \subseteq WithoutKeys(h, refs, byKey)[o]
               /\ o \in byValue => \A e \in c[o] : ~Cleared(h, e[2])
    BY DEF WithoutValues
  <2>4. ASSUME NEW o \in All
        PROVE  /\ WithoutKeys(h, refs, byKey)[o] \subseteq refs[o]
               /\ o \in byKey => \A e \in WithoutKeys(h, refs, byKey)[o] : ~Cleared(h, e[1])
    BY DEF WithoutKeys
  <2> HIDE DEF c
  <2> QED BY <2>2, <2>3, <2>4
<1> HIDE DEF c
<1>15. \A o \in All : Val(c, o) \subseteq Val(refs, o) /\ Key(c, o) \subseteq Key(refs, o)
  BY <1>14 DEF Val, Key
<1>16. ASSUME NEW o \in NW(h) PROVE Val(c, o) \cup Key(c, o) \subseteq NW(h)
  <2>1. o \in All
    BY DEF NW
  <2>2. Covered(kind, refs, open, h, o)
    BY <1>5, <1>9 DEF Core, Coverage
  <2>3. h.weak = g.weak /\ h.allweak = g.allweak /\ h.ephemeron = g.ephemeron /\ h.next = {}
    BY <1>1, <1>6 DEF SameGrays
  <2>4. \A t \in g.origweak \cup g.origall : Val(refs, t) \subseteq NW(h)
    BY <1>1, <1>6 DEF Rest, Resurrected, Resurrecting
  <2>5. \A e \in c[o] : e \in refs[o] /\ e[1] \in Object \cup {Null} /\ e[2] \in Object
    BY <1>2, <1>14, <2>1
  <2>6. \A s \in StringsOf(byKey \cup byValue) : s \in NW(h)
    BY <1>6
  <2>7. o \in byKey => Key(c, o) \subseteq NW(h)
    <3> SUFFICES ASSUME o \in byKey, NEW e \in c[o], e[1] # Null PROVE e[1] \in NW(h)
      BY DEF Key
    <3> QED BY <1>14, <2>1, <2>5, <2>6, Uncleared
  <2>8. o \in byValue => Val(c, o) \subseteq NW(h)
    <3> SUFFICES ASSUME o \in byValue, NEW e \in c[o] PROVE e[2] \in NW(h)
      BY DEF Val
    <3> QED BY <1>14, <2>1, <2>5, <2>6, Uncleared
  <2>9. CASE Val(refs, o) \cup Key(refs, o) \subseteq NW(h)
    BY <1>15, <2>1, <2>9
  <2>10. CASE o \in g.weak /\ Key(refs, o) \subseteq NW(h)
    BY <1>15, <2>1, <2>4, <2>8, <2>10
  <2>11. CASE o \in g.allweak
    BY <1>15, <2>1, <2>4, <2>7, <2>8, <2>11
  <2>12. CASE o \in g.ephemeron
    <3>1. o \in byKey
      BY <2>12
    <3>2. Settled(kind, refs, g, o)
      BY <1>1, <2>12 DEF Rounds, Converging
    <3>3. ASSUME NEW e \in c[o] PROVE e[2] \in NW(h)
      <4>1. e \in refs[o] /\ ~Cleared(h, e[1]) /\ e[1] \in Object \cup {Null}
        BY <1>14, <2>1, <2>5, <3>1
      <4>2. CASE e[2] \in NW(g)
        BY <1>6, <4>2
      <4>3. CASE Clear(kind, g, e[1])
        <5>1. e[1] # Null /\ e[1] \notin NW(g) /\ KindOf(e[1]) # "string" /\ e[1] \in All
          BY <4>1, <4>3, Reading, Constants DEF Clear
        <5>2. e[1] \notin NW(h)
          BY <1>8, <5>1
        <5>3. Cleared(h, e[1])
          BY <5>1, <5>2 DEF Cleared, NW
        <5> QED BY <4>1, <5>3
      <4> QED BY <3>2, <4>1, <4>2, <4>3 DEF Settled
    <3>4. Val(c, o) \subseteq NW(h)
      BY <3>3 DEF Val
    <3> QED BY <2>7, <3>1, <3>4
  <2> QED BY <2>2, <2>3, <2>9, <2>10, <2>11, <2>12 DEF Covered
<1>17. Types(kind, c, open, mode, x)
  BY <1>2, <1>10, <1>14 DEF Types
<1>18. Shape(kind, c, open, x)
  <2>1. Shape(kind, refs, open, h)
    BY <1>5 DEF Core
  <2>2. \A o \in All : /\ KindIn(kind, o) # "table" => Key(c, o) = {}
                       /\ KindIn(kind, o) = "string" => c[o] = {}
                       /\ o \notin Objs(x) => c[o] = {} /\ o \notin NW(x)
    BY <1>11, <1>12, <1>14, <1>15, <2>1 DEF Shape
  <2>3. \A o \in Object : open[o] # Null => c[o] = {}
    BY <1>14, <2>1, Constants DEF Shape
  <2> QED BY <1>10, <1>11, <2>1, <2>2, <2>3 DEF Shape, SameLists, SameThreads
<1>19. Closed(c, open, x)
  <2> SUFFICES ASSUME NEW o \in NW(h), o \in Object, open[o] # Null
               PROVE  Val(c, open[o]) \subseteq NW(h)
    BY <1>13, <1>16 DEF Closed
  <2>1. Covered(kind, refs, open, h, o)
    BY <1>5, <1>9 DEF Core, Coverage
  <2>2. open[o] \in All
    BY <1>2, Constants
  <2>3. open[o] \in NW(h) \/ Val(refs, open[o]) \subseteq NW(h)
    BY <1>9, <2>1 DEF Covered
  <2> QED BY <1>15, <1>16, <2>2, <2>3
<1>20. RootsLive(x)
  <2>1. {Main, Registry} \cup Range(h.tobefnz) \subseteq NW(h)
    BY <1>5 DEF Rest, RootsMarked
  <2>2. Range(h.finobj) \subseteq NW(h)
    BY <1>1, <1>5, <1>6 DEF Rest, Resurrected, Resurrecting, SamePlace
  <2>3. h.twups \subseteq NW(h)
    BY <1>1, <1>5, <1>6 DEF Rest, Atomic, SamePlace
  <2> QED BY <1>10, <1>13, <2>1, <2>2, <2>3 DEF RootsLive, SameLists, SameThreads
<1>21. x.openupval \cap Live(x) \subseteq x.twups
  <2>1. h.openupval \cap NW(h) \subseteq h.twups \cup Pending(h)
    BY <1>1, <1>5, <1>6 DEF Rest, Atomic, SamePlace
  <2> QED BY <1>9, <1>10, <1>13, <2>1 DEF SameThreads
<1>22. \A o \in Live(x) : o \in NW(g) \/ KindOf(o) = "string"
  BY <1>8, <1>13
<1> QED BY <1>1, <1>11, <1>17, <1>18, <1>19, <1>20, <1>21, <1>22

\* Exchanging the whites and entering the sweep phase keep the invariant.
LEMMA AtomicFlip ==
  ASSUME IInv, atomic_flip
  PROVE  IInv'
BY Flipping, EnterSweep DEF Freeing

-----------------------------------------------------------------------------
(* What the program does, between two steps of the collector. *)

\* What the invariant says between two steps of the collector.
LEMMA Idle ==
  ASSUME NEW k, NEW r, NEW op, NEW m, NEW h, h.stage = "none"
  PROVE  Inv(k, r, op, m, h) <=> Core(k, r, op, m, h, {}) /\ Phase(h) /\ RootsMarked(h)
BY DEF Inv, Rest, Phase, Atomic, Resurrected, Rounds, Resurrecting, Converging

\* One object's references are written.
LEMMA Write ==
  ASSUME NEW op, NEW h, Inv(kind, refs, op, mode, h), h.stage = "none", NEW p \in Objs(h),
         NEW c \in [All -> SUBSET ((Object \cup {Null}) \X Object)],
         \A o \in All \ {p} : c[o] = refs[o],
         Val(c, p) \cup Key(c, p) \subseteq Live(h),
         KindIn(kind, p) # "string", KindIn(kind, p) = "table" \/ Key(c, p) = {},
         p \in Object => op[p] = Null,
         Marking(h) /\ p \in NW(h) =>
           \/ p \in Pending(h) \/ Val(c, p) \cup Key(c, p) \subseteq NW(h)
           \/ p \in h.allweak
  PROVE  Inv(kind, c, op, mode, h)
<1>1. Core(kind, refs, op, mode, h, {}) /\ Phase(h) /\ RootsMarked(h) /\ Early(h)
  BY Idle DEF Phase, Early
<1>2. /\ Objs(h) \subseteq All /\ NW(h) \subseteq All
      /\ op \in [Object -> Object \cup {Null}]
      /\ p \in All /\ kind \in [Object -> Kinds]
  BY <1>1, TypeFacts DEF Core, Types
<1>3. Types(kind, c, op, mode, h)
  BY <1>1 DEF Core, Types
<1>4. Shape(kind, c, op, h)
  <2>1. ASSUME NEW o \in All
        PROVE  /\ KindIn(kind, o) # "table" => Key(c, o) = {}
               /\ KindIn(kind, o) = "string" => c[o] = {}
               /\ o \notin Objs(h) => c[o] = {} /\ o \notin NW(h)
    <3>1. CASE o = p
      <4>1. o \in Objs(h)
        BY <3>1
      <4> QED BY <3>1, <4>1
    <3>2. CASE o # p
      BY <1>1, <3>2 DEF Core, Shape, Key
    <3> QED BY <3>1, <3>2
  <2>2. \A o \in Object : op[o] # Null => c[o] = {}
    BY <1>1, Constants DEF Core, Shape
  <2> QED BY <1>1, <2>1, <2>2 DEF Core, Shape
<1>5. Closed(c, op, h)
  <2> SUFFICES ASSUME NEW o \in Live(h)
               PROVE  /\ Val(c, o) \cup Key(c, o) \subseteq Live(h)
                      /\ o \in Object /\ op[o] # Null => Val(c, op[o]) \subseteq Live(h)
    BY DEF Closed
  <2>1. o \in All
    BY <1>2 DEF Live
  <2>2. o \in Object /\ op[o] # Null => op[o] \in All
    BY <1>2, Constants
  <2>3. Val(c, o) \cup Key(c, o) \subseteq Live(h)
    <3>1. CASE o = p
      BY <3>1
    <3>2. CASE o # p
      BY <1>1, <2>1, <3>2 DEF Core, Closed, Val, Key
    <3> QED BY <3>1, <3>2
  <2>4. ASSUME o \in Object, op[o] # Null PROVE Val(c, op[o]) \subseteq Live(h)
    <3>1. CASE op[o] = p
      BY <3>1
    <3>2. CASE op[o] # p
      BY <1>1, <2>2, <2>4, <3>2 DEF Core, Closed, Val
    <3> QED BY <3>1, <3>2
  <2> QED BY <2>3, <2>4
<1>6. Coverage(kind, c, op, h, {})
  <2> SUFFICES ASSUME Marking(h), NEW o \in NW(h), o \notin Pending(h)
               PROVE  Covered(kind, c, op, h, o)
    BY DEF Coverage
  <2>1. Covered(kind, refs, op, h, o)
    BY <1>1 DEF Core, Coverage
  <2>2. CASE o = p
    <3>1. \/ Val(c, o) \cup Key(c, o) \subseteq NW(h)
          \/ o \in h.allweak
      BY <2>2
    <3>2. o \in h.allweak => KindIn(kind, o) = "table"
      BY <1>1 DEF Core, Grays
    <3>3. o \in Object => op[o] = Null
      BY <2>2
    <3> QED BY <3>1, <3>2, <3>3 DEF Covered
  <2>3. CASE o # p
    <3>1. c[o] = refs[o]
      BY <1>2, <2>3
    <3> QED BY <1>1, <2>1, <3>1 DEF Covered, Val, Key
  <2> QED BY <2>2, <2>3
<1>7. Core(kind, c, op, mode, h, {})
  BY <1>1, <1>3, <1>4, <1>5, <1>6 DEF Core
<1> QED BY <1>1, <1>7, Idle

\* What the program has at hand lives.
LEMMA AtHand ==
  ASSUME IInv
  PROVE  /\ {Main, Registry} \cup Stack \subseteq Live(g) /\ Stack \subseteq Object
         /\ \A o \in Live(g) : /\ o \in All /\ o \in Objs(g)
                               /\ Values(o) \cup KeysOf(o) \subseteq Live(g)
                               /\ Values(o) \cup KeysOf(o) \subseteq Object
         /\ \A o \in Live(g) \cap Object : Upvalue(o) \subseteq Live(g)
<1>1. Types(kind, refs, open, mode, g) /\ Closed(refs, open, g) /\ RootsLive(g)
  BY DEF IInv, Inv, Core
<1>2. Objs(g) \subseteq All /\ \A o \in All : Values(o) \cup KeysOf(o) \subseteq Object
  BY <1>1, TypeFacts, Reading
<1>3. \A o \in Live(g) : o \in Objs(g) /\ o \in All
  BY <1>2 DEF Live
<1>4. \A o \in Live(g) : Values(o) \cup KeysOf(o) \subseteq Live(g)
  BY <1>1, Reading DEF Closed
<1>5. Main \in Live(g) /\ Registry \in Live(g)
  BY <1>1 DEF RootsLive
<1>6. \A o \in Live(g) \cap Object : Upvalue(o) \subseteq Live(g)
  <2>1. \A o \in Live(g) \cap Object : open[o] # Null => Val(refs, open[o]) \subseteq Live(g)
    BY <1>1 DEF Closed
  <2> QED BY <1>4, <2>1, Reading DEF Upvalue
<1> QED BY <1>2, <1>3, <1>4, <1>5, <1>6 DEF Stack

\* References that the program takes away do no harm.
LEMMA Taken ==
  ASSUME IInv, g.stage = "none", NEW c \in [All -> SUBSET ((Object \cup {Null}) \X Object)],
         \A o \in All : c[o] \subseteq refs[o]
  PROVE  Inv(kind, c, open, mode, g)
<1>1. Core(kind, refs, open, mode, g, {}) /\ Phase(g) /\ RootsMarked(g)
  BY Idle DEF IInv
<1>2. Core(kind, c, open, mode, g, {})
  BY <1>1, Shrink
<1> QED BY <1>1, <1>2, Idle

\* The types, of the present state.
LEMMA RefsType ==
  ASSUME IInv
  PROVE  /\ refs \in [All -> SUBSET ((Object \cup {Null}) \X Object)]
         /\ kind \in [Object -> Kinds] /\ open \in [Object -> Object \cup {Null}]
         /\ mode \in [All -> Modes] /\ g \in GState
BY DEF IInv, Inv, Core, Types

\* A value leaves the program's stack.
LEMMA PopStep ==
  ASSUME IInv, NEW v, Pop(v)
  PROVE  IInv'
<1>1. /\ g.stage = "none" /\ refs' = [refs EXCEPT ![Main] = @ \ {<<Null, v>>}]
      /\ UNCHANGED <<kind, open, mode, g>>
  BY DEF Pop, Running, Between, Put, SameShape
<1>2. refs' \in [All -> SUBSET ((Object \cup {Null}) \X Object)]
      /\ \A o \in All : refs'[o] \subseteq refs[o]
  BY <1>1, RefsType, Constants
<1>3. Inv(kind, refs', open, mode, g)
  BY <1>1, <1>2, Taken
<1> QED BY <1>1, <1>3 DEF IInv

\* An entry of a table is removed.
LEMMA UnsetStep ==
  ASSUME IInv, NEW t \in Object \cup {Registry}, NEW e \in refs[t], Unset(t, e)
  PROVE  IInv'
<1>1. /\ g.stage = "none" /\ refs' = [refs EXCEPT ![t] = @ \ {e}]
      /\ UNCHANGED <<kind, open, mode, g>>
  BY DEF Unset, Running, Between, Put, SameShape
<1>2. t \in All
  BY Constants
<1>3. refs' \in [All -> SUBSET ((Object \cup {Null}) \X Object)]
      /\ \A o \in All : refs'[o] \subseteq refs[o]
  BY <1>1, <1>2, RefsType
<1>4. Inv(kind, refs', open, mode, g)
  BY <1>1, <1>3, Taken
<1> QED BY <1>1, <1>4 DEF IInv

\* A table gets another mode: no mark or reference changes.
LEMMA SetModeStep ==
  ASSUME IInv, NEW t \in Object \cup {Registry}, NEW m \in Modes, SetMode(t, m)
  PROVE  IInv'
<1>1. /\ g.stage = "none" /\ mode' = [mode EXCEPT ![t] = m]
      /\ UNCHANGED <<kind, refs, open, g>>
  BY DEF SetMode, Running, Between
<1>2. mode' \in [All -> Modes]
  BY <1>1, RefsType
<1>3. Types(kind, refs, open, mode', g)
  BY <1>2 DEF IInv, Inv, Core, Types
<1>4. Inv(kind, refs, open, mode', g)
  BY <1>3 DEF IInv, Inv, Core
<1> QED BY <1>1, <1>4 DEF IInv

\* A thread is written to without a barrier: it is gray, and visited again.
LEMMA WriteThread ==
  ASSUME NEW op, NEW h, Inv(kind, refs, op, mode, h), h.stage = "none",
         NEW p \in Objs(h), Thread(kind, p),
         NEW c \in [All -> SUBSET ((Object \cup {Null}) \X Object)],
         \A o \in All \ {p} : c[o] = refs[o],
         Val(c, p) \subseteq Live(h), Key(c, p) = {}
  PROVE  Inv(kind, c, op, mode, h)
<1>1. Core(kind, refs, op, mode, h, {}) /\ Phase(h) /\ RootsMarked(h) /\ Early(h)
  BY Idle DEF Phase, Early
<1>2. KindIn(kind, p) # "string"
  BY DEF Thread
<1>3. p \in Object => op[p] = Null
  BY KindInObject DEF Thread, Shape, Inv, Core
<1>4. Marking(h) /\ p \in NW(h) => p \in Pending(h)
  BY <1>1 DEF Core, Grays, Pending
<1> QED BY <1>2, <1>3, <1>4, Write

\* A value that lives comes on the program's stack.
LEMMA Push ==
  ASSUME NEW op, NEW h, Inv(kind, refs, op, mode, h), h.stage = "none",
         NEW v \in Live(h) \cap Object
  PROVE  Inv(kind, Pushed(v), op, mode, h)
<1> DEFINE c == Pushed(v)
<1>0. /\ refs \in [All -> SUBSET ((Object \cup {Null}) \X Object)]
      /\ Closed(refs, op, h) /\ RootsLive(h) /\ Shape(kind, refs, op, h)
  BY DEF Inv, Core, Types
<1>1. /\ c \in [All -> SUBSET ((Object \cup {Null}) \X Object)]
      /\ \A o \in All \ {Main} : c[o] = refs[o]
      /\ c[Main] = refs[Main] \cup {<<Null, v>>}
  BY <1>0, Constants DEF Pushed
<1> HIDE DEF c
<1>2. Val(c, Main) = Val(refs, Main) \cup {v} /\ Key(c, Main) = Key(refs, Main)
  <2>1. Val(c, Main) = Val(refs, Main) \cup {v}
    <3>1. <<Null, v>>[2] = v
      OBVIOUS
    <3> QED BY <1>1, <3>1 DEF Val
  <2>2. Key(c, Main) = Key(refs, Main)
    <3>1. <<Null, v>>[1] = Null
      OBVIOUS
    <3> QED BY <1>1, <3>1 DEF Key
  <2> QED BY <2>1, <2>2
<1>3. Val(c, Main) \subseteq Live(h)
  <2>1. Main \in Live(h)
    BY <1>0 DEF RootsLive
  <2> QED BY <1>0, <1>2, <2>1 DEF Closed
<1>4. KindIn(kind, Main) = "thread" /\ Main \in Objs(h)
  BY DEF KindIn, Objs
<1>5. Key(c, Main) = {}
  BY <1>0, <1>2, <1>4, Constants DEF Shape
<1>6. Thread(kind, Main)
  BY <1>4 DEF Thread
<1>7. Inv(kind, c, op, mode, h)
  BY <1>1, <1>3, <1>4, <1>5, <1>6, WriteThread
<1> QED BY <1>7 DEF c

\* What is read comes from an object that lives, so it lives.
LEMMA LoadStep ==
  ASSUME IInv, NEW o \in Object \cup {Registry}, NEW v \in Object, Load(o, v)
  PROVE  IInv'
<1>1. /\ g.stage = "none" /\ refs' = Pushed(v) /\ UNCHANGED <<kind, open, mode, g>>
      /\ o \in Stack \cup {Registry}
      /\ v \in IF KindOf(o) = "closure" THEN Upvalue(o) ELSE Values(o) \cup KeysOf(o)
  BY DEF Load, Running, Between, Put
<1>2. o \in Live(g)
  BY <1>1, AtHand
<1>3. KindOf(o) = "closure" => o \in Object
  BY Constants DEF KindOf
<1>4. v \in Live(g)
  BY <1>1, <1>2, <1>3, AtHand
<1>5. Inv(kind, Pushed(v), open, mode, g)
  BY <1>1, <1>4, Push DEF IInv
<1> QED BY <1>1, <1>5 DEF IInv

\* One value in the place of all that an object of no table referred to.
LEMMA One ==
  ASSUME IInv, NEW p \in All, NEW v \in Object
  PROVE  /\ [refs EXCEPT ![p] = {<<Null, v>>}] \in [All -> SUBSET ((Object \cup {Null}) \X Object)]
         /\ \A o \in All \ {p} : [refs EXCEPT ![p] = {<<Null, v>>}][o] = refs[o]
         /\ Val([refs EXCEPT ![p] = {<<Null, v>>}], p) = {v}
         /\ Key([refs EXCEPT ![p] = {<<Null, v>>}], p) = {}
<1>1. [refs EXCEPT ![p] = {<<Null, v>>}][p] = {<<Null, v>>}
  BY RefsType
<1> QED BY <1>1, RefsType DEF Val, Key

\* A value goes to a coroutine, without a barrier.
LEMMA XmoveStep ==
  ASSUME IInv, NEW k \in Object, NEW v \in Object, lua_xmove(k, v)
  PROVE  IInv'
<1> DEFINE c == [refs EXCEPT ![k] = {<<Null, v>>}]
<1>1. /\ g.stage = "none" /\ refs' = c /\ UNCHANGED <<kind, open, mode, g>>
      /\ k \in Stack /\ KindOf(k) = "coroutine" /\ v \in Stack
  BY DEF lua_xmove, Running, Between, Put, SameShape, Holds
<1>2. k \in Live(g) /\ k \in Objs(g) /\ k \in All /\ v \in Live(g)
  BY <1>1, AtHand
<1>3. Thread(kind, k)
  BY <1>1, Reading DEF Thread
<1>4. /\ c \in [All -> SUBSET ((Object \cup {Null}) \X Object)]
      /\ \A o \in All \ {k} : c[o] = refs[o]
      /\ Val(c, k) = {v} /\ Key(c, k) = {}
  BY <1>2, One
<1> HIDE DEF c
<1>5. Inv(kind, c, open, mode, g)
  BY <1>1, <1>2, <1>3, <1>4, WriteThread DEF IInv
<1> QED BY <1>1, <1>5 DEF IInv

\* What the sweep has passed are objects.
LEMMA PlaceIn ==
  ASSUME NEW h \in GState, Phase(h), NEW i \in 1 .. h.sweepgc.skip
  PROVE  ListOf(h, h.sweepgc.list)[i] \in All
<1> DEFINE s == ListOf(h, h.sweepgc.list)
<1>1. h.sweepgc.skip <= Len(s) /\ h.sweepgc.skip \in Nat
  BY DEF Phase, GState, Places
<1>2. /\ h.allgc \in Seq(Object \cup {Registry})
      /\ h.finobj \in Seq(Object) /\ h.tobefnz \in Seq(Object)
  BY DEF GState
<1>3. \A x \in Seq(Object) : x \in Seq(All)
  BY Constants, SeqMonotonic
<1>4. \A x \in Seq(Object \cup {Registry}) : x \in Seq(All)
  BY Constants, SeqMonotonic
<1>5. s \in Seq(All)
  BY <1>2, <1>3, <1>4 DEF ListOf
<1> HIDE DEF s
<1>6. i \in 1 .. Len(s)
  BY <1>1, <1>5, LenProperties
<1>7. s[i] \in All
  BY <1>5, <1>6, ElementOfSeq
<1> QED BY <1>7 DEF s

\* The lists are of objects.
LEMMA ListedAll ==
  ASSUME NEW h \in GState
  PROVE  Listed(h) \subseteq All
<1>1. /\ Range(h.finobj) \subseteq Object /\ Range(h.tobefnz) \subseteq Object
      /\ Range(h.allgc) \subseteq Object \cup {Registry}
  <2>1. h.finobj \in Seq(Object) /\ h.tobefnz \in Seq(Object)
        /\ h.allgc \in Seq(Object \cup {Registry})
    BY DEF GState
  <2> QED BY <2>1, RangeOfSeq
<1> QED BY <1>1, Constants DEF Listed

\* The tri-colour invariant, of what is marked between two steps.
LEMMA Colours ==
  ASSUME IInv, g.stage = "none", Marking(g), NEW o \in NW(g)
  PROVE  /\ g.mark[o] \in {"gray", "black"}
         /\ g.mark[o] = "black" => Val(refs, o) \cup Key(refs, o) \subseteq NW(g)
         /\ g.mark[o] = "gray" => o \in Pending(g) \cup g.allweak
         /\ g.mark[o] = "gray" => KindIn(kind, o) \notin {"string", "udata"}
<1>1. Core(kind, refs, open, mode, g, {}) /\ Phase(g) /\ Early(g)
  BY Idle DEF Phase, Early, IInv
<1>2. o \in All /\ g.mark[o] \in {"white", "other", "gray", "black"} /\ ~IsWhite(g, o)
  BY RefsType DEF GState, NW
<1>3. Pending(g) = g.gray \cup g.grayagain
  BY <1>1 DEF Pending
<1>4. g.mark[o] = "gray" <=> o \in g.gray \cup g.grayagain \cup g.allweak
  BY <1>1 DEF Core, Lists
<1>5. g.weak = {} /\ g.ephemeron = {} /\ g.next = {}
  BY <1>1 DEF Core, Lists, Grays, Converging
<1>6. ASSUME g.mark[o] = "black" PROVE Val(refs, o) \cup Key(refs, o) \subseteq NW(g)
  <2>1. o \notin Pending(g) /\ o \notin g.allweak
    BY <1>3, <1>4, <1>6
  <2>2. Covered(kind, refs, open, g, o)
    BY <1>1, <2>1 DEF Core, Coverage
  <2> QED BY <1>5, <2>1, <2>2 DEF Covered
<1>7. g.mark[o] = "gray" => KindIn(kind, o) \notin {"string", "udata"}
  BY <1>1, <1>4 DEF Core, Grays
<1> QED BY <1>2, <1>3, <1>4, <1>6, <1>7 DEF IsWhite

\* A barrier that marks goes before the reference is written.
LEMMA Barrier ==
  ASSUME IInv, g.stage = "none", keepinvariant(g), NEW S, S \subseteq Objs(g)
  PROVE  /\ Inv(kind, refs, open, mode, reallymark(g, S))
         /\ reallymark(g, S).stage = "none" /\ S \subseteq NW(reallymark(g, S))
         /\ Objs(reallymark(g, S)) = Objs(g) /\ Live(reallymark(g, S)) = Objs(g)
         /\ \A o \in NW(g) : o \in NW(reallymark(g, S))
         /\ reallymark(g, S) \in GState /\ Marked(g, reallymark(g, S), S)
<1> DEFINE h == reallymark(g, S)
<1>1. Core(kind, refs, open, mode, g, {}) /\ Phase(g) /\ RootsMarked(g) /\ Rest(refs, g, {})
      /\ Marking(g)
  BY Idle DEF IInv, Inv, keepinvariant, Marking
<1>2. /\ Core(kind, refs, open, mode, h, {}) /\ Rest(refs, h, {}) /\ Marking(h)
      /\ Marked(g, h, S)
  BY <1>1, Mark
<1> HIDE DEF h
<1>3. h.stage = "none" /\ SameLists(g, h)
  BY <1>2 DEF Marked, SamePlace
<1>4. Inv(kind, refs, open, mode, h)
  BY <1>2, <1>3, Idle DEF Rest
<1>5. Objs(h) = Objs(g)
  BY <1>3 DEF SameLists, Objs, Listed
<1>6. Live(h) = Objs(h)
  BY <1>2 DEF Core, Whites
<1>7. S \subseteq NW(h) /\ NW(g) \subseteq NW(h) /\ h \in GState
  BY <1>2 DEF Marked
<1> QED BY <1>2, <1>3, <1>4, <1>5, <1>6, <1>7 DEF h

\* What makewhite changes.
LEMMA Whitened ==
  ASSUME NEW h \in GState, NEW o \in All
  PROVE  /\ makewhite(h, o) \in GState /\ SameLists(h, makewhite(h, o))
         /\ SamePlace(h, makewhite(h, o)) /\ SameThreads(h, makewhite(h, o))
         /\ SameGrays(h, makewhite(h, o)) /\ makewhite(h, o).gray = h.gray
         /\ \A p \in All : makewhite(h, o).mark[p] = IF p = o THEN "white" ELSE h.mark[p]
         /\ Phase(h) => Phase(makewhite(h, o))
         /\ Phase(h) /\ Whites(h) /\ ~Marking(h) => Whites(makewhite(h, o))
<1> DEFINE n == makewhite(h, o)
<1>1. /\ n \in GState /\ SameLists(h, n) /\ SamePlace(h, n) /\ SameThreads(h, n)
      /\ SameGrays(h, n) /\ n.gray = h.gray
      /\ \A p \in All : n.mark[p] = IF p = o THEN "white" ELSE h.mark[p]
  BY DEF GState, makewhite, SameLists, SamePlace, SameThreads, SameGrays
<1> HIDE DEF n
<1>2. Objs(n) = Objs(h) /\ Listed(n) = Listed(h) /\ (Marking(n) <=> Marking(h))
  BY <1>1 DEF SameLists, SamePlace, Objs, Listed, Marking
<1>3. \A name : ListOf(n, name) = ListOf(h, name)
  BY <1>1 DEF ListOf, SameLists
<1>4. Phase(h) => Phase(n)
  BY <1>1, <1>3 DEF Phase, SamePlace
<1>5. ASSUME Phase(h), Whites(h), ~Marking(h) PROVE Whites(n)
  <2>1. Unswept(n) = Unswept(h)
    <3>1. ASSUME NEW name PROVE Behind(n, name) = Behind(h, name)
      <4>1. ListOf(n, name) = ListOf(h, name) /\ n.sweepgc = h.sweepgc
        BY <1>1, <1>3 DEF SamePlace
      <4> QED BY <4>1 DEF Behind
    <3>2. n.state = h.state /\ n.finobj = h.finobj /\ n.tobefnz = h.tobefnz
      BY <1>1 DEF SameLists, SamePlace
    <3> QED BY <3>1, <3>2 DEF Unswept
  <2>2. Listed(h) \subseteq All
    BY ListedAll
  <2>3. \A p \in Objs(n) \ Unswept(n) : n.mark[p] = "white"
    BY <1>1, <1>2, <1>5, <2>1, <2>2, Constants DEF Whites, Objs
  <2>4. ASSUME NEW i \in 1 .. h.sweepgc.skip
        PROVE  n.mark[ListOf(h, h.sweepgc.list)[i]] = "white"
    <3> DEFINE s == ListOf(h, h.sweepgc.list)
    <3>1. h.mark[s[i]] = "white"
      BY <1>5 DEF Whites
    <3>2. s[i] \in All
      BY <1>5, PlaceIn
    <3> QED BY <1>1, <3>1, <3>2
  <2>5. \A i \in 1 .. n.sweepgc.skip : n.mark[ListOf(n, n.sweepgc.list)[i]] = "white"
    BY <1>1, <1>3, <2>4 DEF SamePlace
  <2> QED BY <1>2, <1>5, <2>3, <2>5 DEF Whites
<1> QED BY <1>1, <1>4, <1>5 DEF n

\* What makes an object white again: in a sweep it is then as if swept.
LEMMA Whiten ==
  ASSUME NEW k, NEW r, NEW op, NEW m, NEW h, Calm(k, r, op, m, h), NEW o \in Objs(h),
         Val(r, o) \cup Key(r, o) \subseteq Live(h),
         o \in Object /\ op[o] # Null => Val(r, op[o]) \subseteq Live(h),
         o \in h.openupval => o \in h.twups
  PROVE  /\ Calm(k, r, op, m, makewhite(h, o))
         /\ Live(makewhite(h, o)) = Live(h) \cup {o} /\ Objs(makewhite(h, o)) = Objs(h)
<1> DEFINE n == makewhite(h, o)
<1>1. h \in GState /\ Objs(h) \subseteq All /\ o \in All /\ Phase(h) /\ ~Marking(h) /\ Whites(h)
  BY TypeFacts DEF Calm, Types
<1>2. /\ n \in GState /\ SameLists(h, n) /\ SamePlace(h, n) /\ SameThreads(h, n)
      /\ \A p \in All : n.mark[p] = IF p = o THEN "white" ELSE h.mark[p]
      /\ Phase(n) /\ Whites(n)
  BY <1>1, Whitened
<1> HIDE DEF n
<1>3. Objs(n) = Objs(h) /\ Listed(n) = Listed(h) /\ ~Marking(n)
  BY <1>2 DEF SameLists, SamePlace, Objs, Listed, Marking, Calm
<1>4. Live(n) = Live(h) \cup {o}
  BY <1>1, <1>2, <1>3 DEF Live, isdead
<1>5. Types(k, r, op, m, n)
  BY <1>2 DEF Calm, Types
<1>6. Shape(k, r, op, n)
  <2>1. NW(n) \subseteq NW(h)
    BY <1>2 DEF NW, IsWhite
  <2> QED BY <1>2, <1>3, <2>1 DEF Calm, Shape, SameLists, SameThreads
<1>7. Closed(r, op, n)
  BY <1>4 DEF Calm, Closed
<1>8. RootsLive(n)
  BY <1>2, <1>4 DEF Calm, RootsLive, SameLists, SameThreads
<1>9. n.openupval \cap Live(n) \subseteq n.twups
  BY <1>2, <1>4 DEF Calm, SameThreads
<1>10. Calm(k, r, op, m, n)
  BY <1>2, <1>3, <1>5, <1>6, <1>7, <1>8, <1>9 DEF Calm
<1> QED BY <1>3, <1>4, <1>10 DEF n

\* Between two steps the collector marks while keepinvariant holds.
LEMMA NotMarking ==
  ASSUME IInv, g.stage = "none"
  PROVE  keepinvariant(g) <=> Marking(g)
BY DEF IInv, Inv, Rest, Phase, keepinvariant, Marking

\* OP_SETUPVAL with its barrier.
LEMMA SetUpvalueStep ==
  ASSUME IInv, NEW c \in Object, NEW v \in Object, SetUpvalue(c, v)
  PROVE  IInv'
<1>1. /\ g.stage = "none" /\ UNCHANGED <<kind, open, mode>>
      /\ c \in Stack /\ KindOf(c) = "closure" /\ v \in Stack
      /\ IF open[c] # Null THEN g' = g /\ refs' = [refs EXCEPT ![open[c]] = {<<Null, v>>}]
         ELSE g' = luaC_upvalbarrier(g, {v}) /\ refs' = [refs EXCEPT ![c] = {<<Null, v>>}]
  BY DEF SetUpvalue, Running, Between, Put, SameShape, Holds
<1>2. c \in Live(g) /\ c \in Objs(g) /\ c \in All /\ v \in Live(g) /\ v \in Objs(g)
  BY <1>1, AtHand
<1>3. CASE open[c] # Null
  <2> DEFINE p == open[c]
             r == [refs EXCEPT ![p] = {<<Null, v>>}]
  <2>1. p \in Object /\ kind[p] = "coroutine" /\ p \in Objs(g)
    <3>1. p \in Object
      BY <1>3, RefsType
    <3>2. Shape(kind, refs, open, g)
      BY DEF IInv, Inv, Core
    <3>3. kind[p] = "coroutine" /\ p \in g.openupval
      BY <1>3, <3>2 DEF Shape
    <3> QED BY <3>1, <3>2, <3>3 DEF Shape
  <2>2. p \in All /\ Thread(kind, p)
    BY <2>1, Constants, KindInObject DEF Thread
  <2>3. /\ r \in [All -> SUBSET ((Object \cup {Null}) \X Object)]
        /\ \A o \in All \ {p} : r[o] = refs[o]
        /\ Val(r, p) = {v} /\ Key(r, p) = {}
    BY <2>2, One
  <2>4. g' = g /\ refs' = r
    BY <1>1, <1>3
  <2> HIDE DEF r, p
  <2>5. Inv(kind, r, open, mode, g)
    BY <1>1, <1>2, <2>1, <2>2, <2>3, WriteThread DEF IInv
  <2> QED BY <1>1, <2>4, <2>5 DEF IInv
<1>4. CASE open[c] = Null
  <2> DEFINE r == [refs EXCEPT ![c] = {<<Null, v>>}]
             h == luaC_upvalbarrier(g, {v})
  <2>1. /\ r \in [All -> SUBSET ((Object \cup {Null}) \X Object)]
        /\ \A o \in All \ {c} : r[o] = refs[o]
        /\ Val(r, c) = {v} /\ Key(r, c) = {}
    BY <1>2, One
  <2>2. g' = h /\ refs' = r
    BY <1>1, <1>4
  <2>3. KindIn(kind, c) = "closure"
    BY <1>1, Reading
  <2>4. /\ Inv(kind, refs, open, mode, h) /\ h.stage = "none" /\ c \in Objs(h)
        /\ v \in Live(h)
        /\ Marking(h) => v \in NW(h)
    <3>1. CASE keepinvariant(g)
      <4>1. h = reallymark(g, {v})
        BY <3>1 DEF luaC_upvalbarrier
      <4>2. {v} \subseteq Objs(g)
        BY <1>2
      <4>3. /\ Inv(kind, refs, open, mode, reallymark(g, {v}))
            /\ reallymark(g, {v}).stage = "none"
            /\ {v} \subseteq NW(reallymark(g, {v}))
            /\ Objs(reallymark(g, {v})) = Objs(g) /\ Live(reallymark(g, {v})) = Objs(g)
        BY <1>1, <3>1, <4>2, Barrier
      <4> QED BY <1>2, <4>1, <4>3
    <3>2. CASE ~keepinvariant(g)
      <4>1. h = g
        BY <3>2 DEF luaC_upvalbarrier
      <4>2. ~Marking(g)
        BY <1>1, <3>2, NotMarking
      <4> QED BY <1>1, <1>2, <4>1, <4>2 DEF IInv
    <3> QED BY <3>1, <3>2
  <2> HIDE DEF r, h
  <2>5. KindIn(kind, c) # "string" /\ (KindIn(kind, c) = "table" \/ Key(r, c) = {})
    BY <2>1, <2>3
  <2>6. Marking(h) /\ c \in NW(h) =>
          c \in Pending(h) \/ Val(r, c) \cup Key(r, c) \subseteq NW(h) \/ c \in h.allweak
    BY <2>1, <2>4
  <2>7. Val(r, c) \cup Key(r, c) \subseteq Live(h)
    BY <2>1, <2>4
  <2>8. Inv(kind, r, open, mode, h)
    BY <1>4, <2>1, <2>4, <2>5, <2>6, <2>7, Write
  <2> QED BY <1>1, <2>2, <2>8 DEF IInv
<1> QED BY <1>3, <1>4

\* lua_setuservalue with its barrier.
LEMMA SetuservalueStep ==
  ASSUME IInv, NEW u \in Object, NEW v \in Object, lua_setuservalue(u, v)
  PROVE  IInv'
<1> DEFINE r == [refs EXCEPT ![u] = {<<Null, v>>}]
           h == luaC_barrier(g, u, v)
<1>1. /\ g.stage = "none" /\ UNCHANGED <<kind, open, mode>>
      /\ u \in Stack /\ KindOf(u) = "udata" /\ v \in Stack
      /\ g' = h /\ refs' = r
  BY DEF lua_setuservalue, Running, Between, Put, SameShape, Holds
<1>2. u \in Live(g) /\ u \in Objs(g) /\ u \in All /\ v \in Live(g) /\ v \in Objs(g) /\ v \in All
  BY <1>1, AtHand
<1>3. /\ r \in [All -> SUBSET ((Object \cup {Null}) \X Object)]
      /\ \A o \in All \ {u} : r[o] = refs[o]
      /\ Val(r, u) = {v} /\ Key(r, u) = {}
  BY <1>2, One
<1>4. KindIn(kind, u) = "udata" /\ kind[u] = "udata"
  BY <1>1, Reading, KindInObject
<1>5. open[u] = Null
  BY <1>4 DEF IInv, Inv, Core, Shape
<1>6. /\ Inv(kind, refs, open, mode, h) /\ h.stage = "none" /\ u \in Objs(h)
      /\ v \in Live(h)
      /\ Marking(h) /\ u \in NW(h) => v \in NW(h)
  <2>1. CASE g.mark[u] # "black" \/ ~IsWhite(g, v)
    <3>1. h = g
      BY <2>1 DEF luaC_barrier
    <3>2. ASSUME Marking(g), u \in NW(g) PROVE v \in NW(g)
      <4>1. g.mark[u] = "black"
        BY <1>1, <1>4, <3>2, Colours
      <4> QED BY <1>2, <2>1, <4>1 DEF NW
    <3> QED BY <1>1, <1>2, <3>1, <3>2 DEF IInv
  <2>2. CASE g.mark[u] = "black" /\ IsWhite(g, v) /\ keepinvariant(g)
    <3>1. h = reallymark(g, {v})
      BY <2>2 DEF luaC_barrier
    <3>2. {v} \subseteq Objs(g)
      BY <1>2
    <3>3. /\ Inv(kind, refs, open, mode, reallymark(g, {v}))
          /\ reallymark(g, {v}).stage = "none"
          /\ {v} \subseteq NW(reallymark(g, {v}))
          /\ Objs(reallymark(g, {v})) = Objs(g) /\ Live(reallymark(g, {v})) = Objs(g)
      BY <1>1, <2>2, <3>2, Barrier
    <3> QED BY <1>2, <3>1, <3>3
  <2>3. CASE g.mark[u] = "black" /\ IsWhite(g, v) /\ ~keepinvariant(g)
    <3>1. h = makewhite(g, u)
      BY <2>3 DEF luaC_barrier
    <3>2. ~Marking(g)
      BY <1>1, <2>3, NotMarking
    <3>3. Calm(kind, refs, open, mode, g)
      BY <3>2, CalmInv DEF IInv
    <3>4. Val(refs, u) \cup Key(refs, u) \subseteq Live(g)
      BY <1>2, <3>3 DEF Calm, Closed
    <3>5. u \notin g.openupval
      BY <1>4, <3>3 DEF Calm, Shape
    <3>6. /\ Calm(kind, refs, open, mode, makewhite(g, u))
          /\ Live(makewhite(g, u)) = Live(g) \cup {u} /\ Objs(makewhite(g, u)) = Objs(g)
      BY <1>2, <1>5, <3>3, <3>4, <3>5, Whiten
    <3>7. Calm(kind, refs, open, mode, h) /\ Live(h) = Live(g) \cup {u} /\ Objs(h) = Objs(g)
      BY <3>1, <3>6
    <3> HIDE DEF h
    <3>8. ~Marking(h) /\ h.stage = "none"
      BY <3>7 DEF Calm, Phase, Marking
    <3> QED BY <1>2, <3>7, <3>8, CalmInv
  <2> QED BY <2>1, <2>2, <2>3
<1> HIDE DEF r, h
<1>7. KindIn(kind, u) # "string" /\ (KindIn(kind, u) = "table" \/ Key(r, u) = {})
  BY <1>3, <1>4
<1>8. Val(r, u) \cup Key(r, u) \subseteq Live(h)
  BY <1>3, <1>6
<1>9. Marking(h) /\ u \in NW(h) =>
        u \in Pending(h) \/ Val(r, u) \cup Key(r, u) \subseteq NW(h) \/ u \in h.allweak
  BY <1>3, <1>6
<1>10. Inv(kind, r, open, mode, h)
  BY <1>3, <1>5, <1>6, <1>7, <1>8, <1>9, Write
<1> QED BY <1>1, <1>10 DEF IInv

GrayAgain(h, t) == [h EXCEPT !.mark[t] = "gray", !.grayagain = @ \cup {t}]
Grayed(h, t) == [h EXCEPT !.mark[t] = "gray", !.grayagain = @]

\* The barrier that goes back: a black table is gray again, and visited again.
LEMMA Back ==
  ASSUME IInv, g.stage = "none", Marking(g), NEW t \in Objs(g), g.mark[t] = "black",
         KindIn(kind, t) = "table"
  PROVE  /\ Inv(kind, refs, open, mode, GrayAgain(g, t)) /\ GrayAgain(g, t).stage = "none"
         /\ t \in Pending(GrayAgain(g, t))
         /\ Objs(GrayAgain(g, t)) = Objs(g) /\ Live(GrayAgain(g, t)) = Live(g)
<1> DEFINE h == GrayAgain(g, t)
<1>1. Core(kind, refs, open, mode, g, {}) /\ Phase(g) /\ RootsMarked(g) /\ Early(g) /\ g \in GState
  BY Idle, RefsType DEF Phase, Early, IInv
<1>2. Objs(g) \subseteq All /\ t \in All /\ NW(g) \subseteq All
  BY <1>1, TypeFacts DEF Core
<1>3. /\ h \in GState /\ SameLists(g, h) /\ SamePlace(g, h) /\ SameThreads(g, h)
      /\ h.gray = g.gray /\ h.weak = g.weak /\ h.allweak = g.allweak
      /\ h.ephemeron = g.ephemeron /\ h.next = g.next /\ h.saved = g.saved
      /\ h.grayagain = g.grayagain \cup {t}
      /\ \A o \in All : h.mark[o] = IF o = t THEN "gray" ELSE g.mark[o]
  <2>1. h = [g EXCEPT !.mark = [g.mark EXCEPT ![t] = "gray"], !.grayagain = g.grayagain \cup {t}]
    BY <1>1 DEF GState, GrayAgain
  <2>2. [g.mark EXCEPT ![t] = "gray"] \in Marks /\ g.grayagain \cup {t} \in SUBSET All
    BY <1>1, <1>2 DEF GState, Marks
  <2> HIDE DEF h
  <2>3. h \in GState
    BY <1>1, <2>1, <2>2 DEF GState, Marks
  <2>4. h.mark = [g.mark EXCEPT ![t] = "gray"]
    BY <1>1, <2>1 DEF GState
  <2>5. \A o \in All : h.mark[o] = IF o = t THEN "gray" ELSE g.mark[o]
    BY <1>1, <1>2, <2>4 DEF GState
  <2>6. h.grayagain = g.grayagain \cup {t}
    BY <1>1, <2>1 DEF GState
  <2> QED BY <1>1, <2>1, <2>3, <2>5, <2>6 DEF GState, SameLists, SamePlace, SameThreads
<1> HIDE DEF h
<1>4. /\ Objs(h) = Objs(g) /\ Listed(h) = Listed(g) /\ Marking(h) /\ Early(h)
      /\ h.stage = "none"
  BY <1>1, <1>3 DEF SameLists, SamePlace, Objs, Listed, Marking, Early
<1>5. Live(h) = Live(g)
  BY <1>2, <1>3, <1>4 DEF Live, isdead
<1>6. NW(h) = NW(g)
  BY <1>3 DEF NW, IsWhite
<1>7. t \in NW(g)
  BY <1>2 DEF NW, IsWhite
<1>8. Pending(h) = Pending(g) \cup {t}
  BY <1>1, <1>3, <1>4 DEF Pending
<1>9. Types(kind, refs, open, mode, h) /\ Shape(kind, refs, open, h) /\ Closed(refs, open, h)
      /\ RootsLive(h) /\ Whites(h)
  <2>1. Types(kind, refs, open, mode, h)
    BY <1>1, <1>3 DEF Core, Types
  <2>2. Shape(kind, refs, open, h)
    BY <1>1, <1>3, <1>4, <1>6 DEF Core, Shape, SameLists, SameThreads
  <2>3. Closed(refs, open, h) /\ RootsLive(h)
    BY <1>1, <1>3, <1>5 DEF Core, Closed, RootsLive, SameLists, SameThreads
  <2>4. Whites(h)
    BY <1>1, <1>4, <1>5 DEF Core, Whites
  <2> QED BY <2>1, <2>2, <2>3, <2>4
<1>10. Threads(kind, h)
  <2>1. \A o \in NW(h) : Thread(kind, o) => h.mark[o] = "gray"
    BY <1>1, <1>2, <1>3, <1>6 DEF Core, Threads
  <2> QED BY <1>1, <1>3, <1>5, <2>1 DEF Core, Threads, SameThreads, SamePlace
<1>11. Coverage(kind, refs, open, h, {})
  <2> SUFFICES ASSUME NEW o \in NW(g), o \notin Pending(g), Covered(kind, refs, open, g, o)
               PROVE  Covered(kind, refs, open, h, o)
    BY <1>1, <1>6, <1>8 DEF Core, Coverage
  <2> QED BY <1>1, <1>3, <1>4, <1>6 DEF Covered, SameThreads
<1>12. Grays(kind, h)
  <2>1. GrayLists(h) \subseteq NW(h)
    <3>1. GrayLists(g) \subseteq NW(g)
      BY <1>1 DEF Core, Grays
    <3> QED BY <1>3, <1>6, <1>7, <3>1 DEF GrayLists
  <2>2. \A o \in h.gray \cup h.grayagain \cup h.saved : KindIn(kind, o) \notin {"string", "udata"}
    <3>1. \A o \in g.gray \cup g.grayagain \cup g.saved : KindIn(kind, o) \notin {"string", "udata"}
      BY <1>1 DEF Core, Grays
    <3> QED BY <1>3, <3>1
  <2>3. \A o \in h.allweak \cup h.ephemeron \cup h.next : KindIn(kind, o) = "table"
    BY <1>1, <1>3 DEF Core, Grays
  <2>4. \A o \in NW(h) : Thread(kind, o) => o \in h.gray \cup h.grayagain
    BY <1>1, <1>3, <1>6 DEF Core, Grays
  <2>5. h.stage \notin Converging => h.next = {}
    BY <1>1, <1>3 DEF Core, Grays, SamePlace
  <2> QED BY <2>1, <2>2, <2>3, <2>4, <2>5 DEF Grays
<1>13. Lists(h, {})
  <2>1. /\ g.weak = {} /\ g.ephemeron = {} /\ g.gray \cap g.grayagain = {}
        /\ (g.gray \cup g.grayagain) \cap g.allweak = {}
        /\ \A o \in NW(g) : g.mark[o] = "gray" <=> o \in g.gray \cup g.grayagain \cup g.allweak
    BY <1>1 DEF Core, Lists
  <2>2. t \notin g.gray \cup g.grayagain \cup g.allweak
    BY <1>7, <2>1
  <2>3. \A o \in NW(h) : h.mark[o] = "gray" <=> o \in h.gray \cup h.grayagain \cup h.allweak
    <3> TAKE o \in NW(h)
    <3>1. o \in All /\ o \in NW(g)
      BY <1>2, <1>6
    <3>2. CASE o = t
      BY <1>2, <1>3, <3>2
    <3>3. CASE o # t
      <4>1. h.mark[o] = g.mark[o]
        BY <1>3, <3>1, <3>3
      <4> QED BY <1>3, <2>1, <3>1, <3>3, <4>1
    <3> QED BY <3>2, <3>3
  <2> QED BY <1>3, <2>1, <2>2, <2>3 DEF Lists
<1>14. Core(kind, refs, open, mode, h, {})
  BY <1>9, <1>10, <1>11, <1>12, <1>13 DEF Core
<1>15. Phase(h)
  <2>1. \A name : ListOf(h, name) = ListOf(g, name)
    BY <1>3 DEF ListOf, SameLists
  <2> QED BY <1>1, <1>3, <2>1 DEF Phase, SamePlace
<1>16. RootsMarked(h)
  BY <1>1, <1>3, <1>4, <1>6 DEF RootsMarked, SameLists
<1> QED BY <1>4, <1>5, <1>8, <1>14, <1>15, <1>16, Idle DEF h

\* In a sweep phase it does not matter.
LEMMA BackInSweep ==
  ASSUME NEW k, NEW r, NEW op, NEW m, NEW b, Calm(k, r, op, m, b), NEW t \in Objs(b),
         b.mark[t] = "black"
  PROVE  /\ Calm(k, r, op, m, Grayed(b, t))
         /\ Objs(Grayed(b, t)) = Objs(b) /\ Live(Grayed(b, t)) = Live(b)
<1> DEFINE h == Grayed(b, t)
<1>1. b \in GState /\ Objs(b) \subseteq All /\ t \in All
  BY TypeFacts DEF Calm, Types
<1>2. /\ h \in GState /\ SameLists(b, h) /\ SamePlace(b, h) /\ SameThreads(b, h)
      /\ \A o \in All : h.mark[o] = IF o = t THEN "gray" ELSE b.mark[o]
  <2>1. h = [b EXCEPT !.mark = [b.mark EXCEPT ![t] = "gray"]]
    BY <1>1 DEF GState, Grayed
  <2>2. [b.mark EXCEPT ![t] = "gray"] \in Marks
    BY <1>1 DEF GState, Marks
  <2> HIDE DEF h
  <2>3. h \in GState
    BY <1>1, <2>1, <2>2 DEF GState, Marks
  <2>4. h.mark = [b.mark EXCEPT ![t] = "gray"]
    BY <1>1, <2>1 DEF GState
  <2>5. \A o \in All : h.mark[o] = IF o = t THEN "gray" ELSE b.mark[o]
    BY <1>1, <2>4 DEF GState
  <2> QED BY <1>1, <2>1, <2>3, <2>5 DEF GState, SameLists, SamePlace, SameThreads
<1> HIDE DEF h
<1>3. Objs(h) = Objs(b) /\ Listed(h) = Listed(b) /\ ~Marking(h)
  BY <1>2 DEF SameLists, SamePlace, Objs, Listed, Marking, Calm
<1>4. Live(h) = Live(b) /\ NW(h) = NW(b)
  BY <1>1, <1>2, <1>3 DEF Live, isdead, NW, IsWhite
<1>5. \A name : ListOf(h, name) = ListOf(b, name)
  BY <1>2 DEF ListOf, SameLists
<1>6. Types(k, r, op, m, h) /\ Shape(k, r, op, h) /\ Closed(r, op, h) /\ RootsLive(h) /\ Phase(h)
      /\ h.openupval \cap Live(h) \subseteq h.twups
  <2>1. Types(k, r, op, m, h)
    BY <1>2 DEF Calm, Types
  <2>2. Shape(k, r, op, h)
    BY <1>2, <1>3, <1>4 DEF Calm, Shape, SameLists, SameThreads
  <2>3. Closed(r, op, h) /\ RootsLive(h)
    BY <1>2, <1>4 DEF Calm, Closed, RootsLive, SameLists, SameThreads
  <2>4. Phase(h)
    BY <1>2, <1>5 DEF Calm, Phase, SamePlace
  <2> QED BY <1>2, <1>4, <2>1, <2>2, <2>3, <2>4 DEF Calm, SameThreads
<1>7. Whites(h)
  <2>1. Unswept(h) = Unswept(b)
    <3>1. ASSUME NEW name PROVE Behind(h, name) = Behind(b, name)
      <4>1. ListOf(h, name) = ListOf(b, name) /\ h.sweepgc = b.sweepgc
        BY <1>2, <1>5 DEF SamePlace
      <4> QED BY <4>1 DEF Behind
    <3>2. h.state = b.state /\ h.finobj = b.finobj /\ h.tobefnz = b.tobefnz
      BY <1>2 DEF SameLists, SamePlace
    <3> QED BY <3>1, <3>2 DEF Unswept
  <2>2. \A o \in All : b.mark[o] = "white" => h.mark[o] = "white"
    BY <1>2
  <2>3. \A o \in Objs(h) \ Unswept(h) : h.mark[o] = "white"
    BY <1>1, <1>3, <2>1, <2>2 DEF Calm, Whites
  <2>4. ASSUME NEW i \in 1 .. b.sweepgc.skip
        PROVE  h.mark[ListOf(b, b.sweepgc.list)[i]] = "white"
    <3> DEFINE s == ListOf(b, b.sweepgc.list)
    <3>1. b.mark[s[i]] = "white"
      BY DEF Calm, Whites
    <3>2. s[i] \in All
      BY <1>1, PlaceIn DEF Calm
    <3> QED BY <2>2, <3>1, <3>2
  <2>5. \A i \in 1 .. h.sweepgc.skip : h.mark[ListOf(h, h.sweepgc.list)[i]] = "white"
    BY <1>2, <1>5, <2>4 DEF SamePlace
  <2> QED BY <1>3, <2>3, <2>5 DEF Whites
<1> QED BY <1>3, <1>4, <1>6, <1>7 DEF Calm, h

\* Storing in a table with the barriers for key and value.
LEMMA SetTableStep ==
  ASSUME IInv, NEW t \in Object \cup {Registry}, NEW k \in Object \cup {Null}, NEW v \in Object,
         SetTable(t, k, v)
  PROVE  IInv'
<1> DEFINE e == <<k, v>>
           r == [refs EXCEPT ![t] = {p \in refs[t] : p[1] # k} \cup {e}]
           h == luaC_barrierback(g, t, {e})
           vs == {k, v} \ {Null}
<1>1. /\ g.stage = "none" /\ UNCHANGED <<kind, open, mode>>
      /\ TableAt(t) /\ k \in Stack \cup {Null} /\ v \in Stack
      /\ g' = h /\ refs' = r
  BY DEF SetTable, Running, Between, Put, SameShape
<1>2. /\ t \in Live(g) /\ t \in Objs(g) /\ t \in All
      /\ vs \subseteq Live(g) /\ vs \subseteq Objs(g) /\ vs \subseteq All
  <2>1. t \in Stack \cup {Registry}
    BY <1>1 DEF TableAt, Holds
  <2>2. vs \subseteq Stack
    BY <1>1
  <2> HIDE DEF vs
  <2> QED BY <2>1, <2>2, AtHand
<1>3. KindIn(kind, t) = "table"
  <2>1. CASE t = Registry
    BY <2>1, Constants DEF KindIn
  <2>2. CASE t # Registry
    BY <1>1, <2>2, Reading DEF TableAt, Holds
  <2> QED BY <2>1, <2>2
<1>4. t \in Object => open[t] = Null
  <2>1. t \in Object => kind[t] = "table"
    BY <1>3, KindInObject
  <2> QED BY <2>1 DEF IInv, Inv, Core, Shape
<1>5. /\ r \in [All -> SUBSET ((Object \cup {Null}) \X Object)]
      /\ \A o \in All \ {t} : r[o] = refs[o]
      /\ r[t] = {p \in refs[t] : p[1] # k} \cup {e}
  BY <1>2, RefsType
<1>6. Val(r, t) \cup Key(r, t) \subseteq Val(refs, t) \cup Key(refs, t) \cup vs
  <2>1. e[1] = k /\ e[2] = v /\ v # Null
    BY Constants
  <2>2. \A p \in r[t] : p \in refs[t] \/ p = e
    BY <1>5
  <2> HIDE DEF r, e
  <2> QED BY <2>1, <2>2 DEF Val, Key
<1>7. UNION {{p[1], p[2]} \ {Null} : p \in {e}} = vs
  <2>1. e[1] = k /\ e[2] = v
    OBVIOUS
  <2> HIDE DEF e
  <2> QED BY <2>1
<1>8. h = IF g.mark[t] = "black" /\ \E x \in vs : IsWhite(g, x)
            THEN IF keepinvariant(g) THEN GrayAgain(g, t) ELSE Grayed(g, t)
            ELSE g
  BY <1>7 DEF luaC_barrierback, GrayAgain, Grayed
<1> HIDE DEF r, h, vs, e
<1>9. Val(refs, t) \cup Key(refs, t) \subseteq Live(g)
  BY <1>2, AtHand, Reading
<1>10. /\ Inv(kind, refs, open, mode, h) /\ h.stage = "none" /\ Objs(h) = Objs(g)
       /\ Live(h) = Live(g)
       /\ Marking(h) /\ t \in NW(h) =>
            \/ t \in Pending(h) \/ Val(r, t) \cup Key(r, t) \subseteq NW(h)
            \/ t \in h.allweak
  <2>1. CASE ~ (g.mark[t] = "black" /\ \E x \in vs : IsWhite(g, x))
    <3>1. h = g
      BY <1>8, <2>1
    <3>2. ASSUME Marking(g), t \in NW(g), t \notin Pending(g), t \notin g.allweak
          PROVE  Val(r, t) \cup Key(r, t) \subseteq NW(g)
      <4>1. g.mark[t] = "black" /\ Val(refs, t) \cup Key(refs, t) \subseteq NW(g)
        BY <1>1, <3>2, Colours
      <4>2. vs \subseteq NW(g)
        BY <1>2, <2>1, <4>1 DEF NW
      <4> QED BY <1>6, <4>1, <4>2
    <3> QED BY <1>1, <3>1, <3>2 DEF IInv
  <2>2. CASE g.mark[t] = "black" /\ (\E x \in vs : IsWhite(g, x)) /\ keepinvariant(g)
    <3>1. h = GrayAgain(g, t)
      BY <1>8, <2>2
    <3>2. Marking(g)
      BY <1>1, <2>2, NotMarking
    <3> QED BY <1>1, <1>2, <1>3, <2>2, <3>1, <3>2, Back
  <2>3. CASE g.mark[t] = "black" /\ (\E x \in vs : IsWhite(g, x)) /\ ~keepinvariant(g)
    <3>1. h = Grayed(g, t)
      BY <1>8, <2>3
    <3>2. ~Marking(g)
      BY <1>1, <2>3, NotMarking
    <3>3. Calm(kind, refs, open, mode, g)
      BY <3>2, CalmInv DEF IInv
    <3>4. Calm(kind, refs, open, mode, h) /\ Objs(h) = Objs(g) /\ Live(h) = Live(g)
      BY <1>2, <2>3, <3>1, <3>3, BackInSweep
    <3>5. ~Marking(h) /\ h.stage = "none"
      BY <3>4 DEF Calm, Phase, Marking
    <3> QED BY <3>4, <3>5, CalmInv
  <2> QED BY <2>1, <2>2, <2>3
<1>11. Val(r, t) \cup Key(r, t) \subseteq Live(h) /\ t \in Objs(h)
  BY <1>2, <1>6, <1>9, <1>10
<1>12. KindIn(kind, t) # "string" /\ (KindIn(kind, t) = "table" \/ Key(r, t) = {})
  BY <1>3
<1>13. Inv(kind, r, open, mode, h)
  BY <1>4, <1>5, <1>10, <1>11, <1>12, Write
<1> QED BY <1>1, <1>13 DEF IInv

-----------------------------------------------------------------------------
(* New objects, and objects that go from one list to another. *)

\* All but the lists, the marks and the place of the sweep is the same.
Untouched(h, p) ==
  /\ p \in GState /\ p.state = h.state /\ p.stage = h.stage
  /\ SameThreads(h, p) /\ SameGrays(h, p) /\ p.gray = h.gray

\* SetList leaves the gray lists alone.
LEMMA SetListGrays ==
  ASSUME NEW h \in GState, NEW name \in Names, NEW t \in Seq(Contents(name))
  PROVE  SameGrays(h, SetList(h, name, t)) /\ SetList(h, name, t).gray = h.gray
<1>1. CASE name = "allgc"
  BY <1>1 DEF GState, SetList, SameGrays
<1>2. CASE name = "finobj"
  BY <1>2 DEF GState, SetList, SameGrays
<1>3. CASE name = "tobefnz"
  BY <1>3 DEF GState, SetList, SameGrays
<1> QED BY <1>1, <1>2, <1>3 DEF Names

\* A sequence with one more element at its head.
LEMMA InFront ==
  ASSUME NEW S, NEW s \in Seq(S), NEW o \in S
  PROVE  /\ <<o>> \o s \in Seq(S) /\ Len(<<o>> \o s) = 1 + Len(s)
         /\ (<<o>> \o s)[1] = o /\ \A i \in 1 .. Len(s) : (<<o>> \o s)[1 + i] = s[i]
         /\ Range(<<o>> \o s) = {o} \cup Range(s)
<1>1. PICK N \in Nat : N = Len(s)
  BY LenProperties
<1>2. <<o>> \in Seq(S) /\ Len(<<o>>) = 1 /\ <<o>>[1] = o
  OBVIOUS
<1>3. Range(<<o>>) = {o}
  <2>1. Range(<<o>>) = {<<o>>[i] : i \in 1 .. 1}
    BY <1>2, RangeEquality
  <2> QED BY <1>2, <2>1
<1> DEFINE u == <<o>>
<1> HIDE DEF u
<1>4. u \in Seq(S) /\ Len(u) = 1 /\ u[1] = o /\ Range(u) = {o}
  BY <1>2, <1>3 DEF u
<1>5. /\ u \o s \in Seq(S) /\ Len(u \o s) = 1 + N
      /\ \A j \in 1 .. 1 + N : (u \o s)[j] = IF j <= 1 THEN u[j] ELSE s[j - 1]
  <2>1. /\ u \o s \in Seq(S) /\ Len(u \o s) = Len(u) + Len(s)
        /\ \A j \in 1 .. Len(u) + Len(s) : (u \o s)[j] = IF j <= Len(u) THEN u[j] ELSE s[j - Len(u)]
    BY <1>4, ConcatProperties
  <2> QED BY <1>1, <1>4, <2>1
<1>6. Range(u \o s) = {o} \cup Range(s)
  BY <1>4, RangeConcatenation
<1>7. (u \o s)[1] = o
  BY <1>4, <1>5
<1>8. ASSUME NEW i \in 1 .. N PROVE (u \o s)[1 + i] = s[i]
  <2>1. 1 + i \in 1 .. 1 + N /\ ~ (1 + i <= 1) /\ (1 + i) - 1 = i
    OBVIOUS
  <2> QED BY <1>5, <2>1
<1> QED BY <1>1, <1>5, <1>6, <1>7, <1>8 DEF u

\* What Prepend changes: o is in front, and the sweep is where it was.
LEMMA Prepended ==
  ASSUME NEW h \in GState, Phase(h), NEW name \in {"allgc", "finobj"}, NEW o \in Object
  PROVE  /\ Untouched(h, Prepend(h, name, o)) /\ Prepend(h, name, o).mark = h.mark
         /\ \A other \in Names :
              ListOf(Prepend(h, name, o), other) =
                IF other = name THEN <<o>> \o ListOf(h, name) ELSE ListOf(h, other)
         /\ Range(ListOf(Prepend(h, name, o), name)) = {o} \cup Range(ListOf(h, name))
         /\ Len(ListOf(Prepend(h, name, o), name)) = 1 + Len(ListOf(h, name))
         /\ Listed(Prepend(h, name, o)) = Listed(h) \cup {o}
         /\ Phase(Prepend(h, name, o))
         /\ Whites(h) /\ ~Marking(h) /\ h.mark[o] = "white" => Whites(Prepend(h, name, o))
<1> DEFINE p == Prepend(h, name, o)
           s == ListOf(h, name)
           t == <<o>> \o s
           l == SetList(h, name, t)
           in == h.sweepgc.list = name /\ h.sweepgc.skip > 0
<1>1. name \in Names /\ o \in Contents(name)
  BY DEF Names, Contents
<1>2. s \in Seq(Contents(name))
  BY <1>1, ListedIs
<1>3. /\ t \in Seq(Contents(name)) /\ Len(t) = 1 + Len(s) /\ Range(t) = {o} \cup Range(s)
      /\ t[1] = o /\ \A i \in 1 .. Len(s) : t[1 + i] = s[i]
  <2> HIDE DEF s
  <2> QED BY <1>1, <1>2, InFront
<1>4. h.sweepgc \in Places /\ h.sweepgc.skip \in Nat
      /\ h.sweepgc.list \in {"none", "allgc", "finobj", "tobefnz"}
  BY DEF GState, Places
<1>5. p = IF in THEN [l EXCEPT !.sweepgc.skip = @ + 1] ELSE l
  BY DEF Prepend
<1> HIDE DEF s, t
<1>6. /\ l \in GState /\ SamePlace(h, l) /\ SameThreads(h, l) /\ l.mark = h.mark
      /\ SameGrays(h, l) /\ l.gray = h.gray
      /\ \A other \in Names : ListOf(l, other) = IF other = name THEN t ELSE ListOf(h, other)
  <2> HIDE DEF l
  <2>1. /\ SetList(h, name, t) \in GState
        /\ \A other \in Names :
              ListOf(SetList(h, name, t), other) = IF other = name THEN t ELSE ListOf(h, other)
        /\ SamePlace(h, SetList(h, name, t)) /\ SameThreads(h, SetList(h, name, t))
        /\ SetList(h, name, t).mark = h.mark
    BY <1>1, <1>3, SetListIs
  <2>2. SameGrays(h, SetList(h, name, t)) /\ SetList(h, name, t).gray = h.gray
    BY <1>1, <1>3, SetListGrays
  <2>3. l = SetList(h, name, t)
    BY DEF l
  <2> QED BY <2>1, <2>2, <2>3
<1> HIDE DEF l, p, in
<1>7. /\ Untouched(h, p) /\ p.mark = h.mark
      /\ \A other \in Names : ListOf(p, other) = IF other = name THEN t ELSE ListOf(h, other)
      /\ p.sweepgc.list = h.sweepgc.list
      /\ p.sweepgc.skip = IF in THEN h.sweepgc.skip + 1 ELSE h.sweepgc.skip
      /\ p.sweepgc = [list |-> h.sweepgc.list,
                      skip |-> IF in THEN h.sweepgc.skip + 1 ELSE h.sweepgc.skip]
  <2>1. CASE in
    <3>1. p = [l EXCEPT !.sweepgc = [list |-> h.sweepgc.list, skip |-> h.sweepgc.skip + 1]]
      <4>1. l.sweepgc = h.sweepgc
        BY <1>6 DEF SamePlace
      <4>2. [l.sweepgc EXCEPT !.skip = l.sweepgc.skip + 1]
              = [list |-> h.sweepgc.list, skip |-> h.sweepgc.skip + 1]
        BY <1>4, <4>1 DEF Places
      <4>3. p = [l EXCEPT !.sweepgc = [l.sweepgc EXCEPT !.skip = l.sweepgc.skip + 1]]
        BY <1>5, <2>1
      <4> QED BY <4>2, <4>3
    <3>2. [list |-> h.sweepgc.list, skip |-> h.sweepgc.skip + 1] \in Places
      BY <1>4 DEF Places
    <3>3. /\ p \in GState /\ p.state = l.state /\ p.stage = l.stage /\ SameThreads(l, p)
          /\ SameGrays(l, p) /\ p.gray = l.gray /\ p.mark = l.mark
          /\ p.allgc = l.allgc /\ p.finobj = l.finobj /\ p.tobefnz = l.tobefnz
          /\ p.sweepgc = [list |-> h.sweepgc.list, skip |-> h.sweepgc.skip + 1]
      BY <1>6, <3>1, <3>2 DEF GState, SameThreads, SameGrays
    <3>4. \A other : ListOf(p, other) = ListOf(l, other)
      BY <3>3 DEF ListOf
    <3> QED BY <1>6, <2>1, <3>3, <3>4 DEF Untouched, SamePlace, SameThreads, SameGrays
  <2>2. CASE ~in
    <3>1. p = l
      BY <1>5, <2>2
    <3>2. p.sweepgc = h.sweepgc
      BY <1>6, <3>1 DEF SamePlace
    <3>3. h.sweepgc = [list |-> h.sweepgc.list, skip |-> h.sweepgc.skip]
      BY <1>4 DEF Places
    <3> QED BY <1>6, <2>2, <3>1, <3>2, <3>3 DEF Untouched, SamePlace
  <2> QED BY <2>1, <2>2
<1>8. ListOf(p, name) = t /\ p \in GState
  BY <1>1, <1>7 DEF Untouched
<1>9. Listed(p) = Listed(h) \cup {o}
  <2>1. \A x : x \in Listed(p) <=> \E n \in Names : x \in Range(ListOf(p, n))
    BY <1>8, ListedIs
  <2>2. \A x : x \in Listed(h) <=> \E n \in Names : x \in Range(ListOf(h, n))
    BY ListedIs
  <2>3. \A x : x \in Range(t) <=> x = o \/ x \in Range(s)
    BY <1>3
  <2>4. \A x : x \in Listed(p) <=> x \in Listed(h) \/ x = o
    BY <1>1, <1>7, <2>1, <2>2, <2>3 DEF s
  <2> QED BY <2>4
<1>10. Len(s) \in Nat /\ Len(t) = 1 + Len(s)
  BY <1>2, <1>3, LenProperties
<1>11. h.sweepgc.list # "none" => h.sweepgc.list \in Names
  BY <1>4 DEF Names
<1>12. Phase(p)
  <2>1. p.sweepgc.skip <= Len(ListOf(p, p.sweepgc.list))
    <3>1. h.sweepgc.skip <= Len(ListOf(h, h.sweepgc.list))
      BY DEF Phase
    <3>2. CASE h.sweepgc.list = name
      <4>1. h.sweepgc.skip <= Len(s) /\ p.sweepgc.list = name
        BY <1>7, <3>1, <3>2 DEF s
      <4>2. p.sweepgc.skip <= Len(t)
        BY <1>4, <1>7, <1>10, <4>1
      <4> QED BY <1>8, <4>1, <4>2
    <3>3. CASE h.sweepgc.list # name /\ h.sweepgc.list # "none"
      BY <1>7, <1>11, <3>1, <3>3 DEF in
    <3>4. CASE h.sweepgc.list = "none"
      <4>1. p.sweepgc.skip = 0 /\ p.sweepgc.list = "none"
        BY <1>1, <1>7, <3>4 DEF Phase, in
      <4>2. p.tobefnz \in Seq(Object)
        BY <1>8 DEF GState
      <4>3. Len(p.tobefnz) \in Nat
        BY <4>2, LenProperties
      <4> QED BY <4>1, <4>3 DEF ListOf
    <3> QED BY <3>2, <3>3, <3>4
  <2>2. h.state = "swptobefnz" => ~in
    BY DEF Phase, in
  <2>3. h.state \notin {"swpallgc", "swpfinobj", "swptobefnz"} => ~in
    BY DEF Phase, NoSweep, in
  <2>4. h.sweepgc.list = "none" => ~in
    BY DEF in
  <2>5. ~in => p.sweepgc = h.sweepgc
    BY <1>4, <1>7 DEF Places
  <2> QED BY <1>7, <2>1, <2>2, <2>3, <2>4, <2>5 DEF Phase, Untouched
<1>13. ASSUME Whites(h), ~Marking(h), h.mark[o] = "white" PROVE Whites(p)
  <2>1. ASSUME NEW n \in Names, NEW x \in Behind(h, n) PROVE x \in Behind(p, n)
    <3>1. /\ h.sweepgc.list = n /\ p.sweepgc.list = n
          /\ x \in {ListOf(h, n)[i] : i \in h.sweepgc.skip + 1 .. Len(ListOf(h, n))}
      BY <1>7, <2>1 DEF Behind
    <3>2. CASE n = name
      <4>1. PICK i \in h.sweepgc.skip + 1 .. Len(s) : x = s[i]
        BY <3>1, <3>2 DEF s
      <4>2. i \in 1 .. Len(s) /\ 1 + i \in p.sweepgc.skip + 1 .. Len(t)
        BY <1>4, <1>7, <1>10, <4>1
      <4>3. t[1 + i] = x
        BY <1>3, <4>1, <4>2
      <4>4. x \in {t[j] : j \in p.sweepgc.skip + 1 .. Len(t)}
        BY <4>2, <4>3
      <4> QED BY <1>8, <3>1, <3>2, <4>4 DEF Behind
    <3>3. CASE n # name
      <4>1. ListOf(p, n) = ListOf(h, n) /\ p.sweepgc.skip = h.sweepgc.skip
        BY <1>7, <3>1, <3>3 DEF in
      <4> QED BY <3>1, <4>1 DEF Behind
    <3> QED BY <3>2, <3>3
  <2>2. \A n \in Names : Range(ListOf(h, n)) \subseteq Range(ListOf(p, n))
    BY <1>3, <1>7 DEF s
  <2>3. /\ ListOf(h, "finobj") = h.finobj /\ ListOf(p, "finobj") = p.finobj
        /\ ListOf(h, "tobefnz") = h.tobefnz /\ ListOf(p, "tobefnz") = p.tobefnz
    BY DEF ListOf
  <2>4. Range(h.finobj) \subseteq Range(p.finobj) /\ Range(h.tobefnz) \subseteq Range(p.tobefnz)
    BY <2>2, <2>3 DEF Names
  <2>5. \A x \in Unswept(h) : x \in Unswept(p)
    <3>1. p.state = h.state
      BY <1>7 DEF Untouched
    <3>2. "allgc" \in Names /\ "finobj" \in Names /\ "tobefnz" \in Names
      BY DEF Names
    <3> QED BY <2>1, <2>4, <3>1, <3>2 DEF Unswept
  <2>6. \A x \in Objs(p) \ Unswept(p) : p.mark[x] = "white"
    BY <1>7, <1>9, <1>13, <2>5 DEF Objs, Whites
  <2>7. ASSUME NEW i \in 1 .. p.sweepgc.skip
        PROVE  p.mark[ListOf(p, p.sweepgc.list)[i]] = "white"
    <3>1. \A j \in 1 .. h.sweepgc.skip : h.mark[ListOf(h, h.sweepgc.list)[j]] = "white"
      BY <1>13 DEF Whites
    <3>2. CASE in
      <4>1. h.sweepgc.list = name /\ h.sweepgc.skip <= Len(s)
        BY <3>2 DEF in, Phase, s
      <4>2. ListOf(p, p.sweepgc.list) = t
        BY <1>7, <1>8, <4>1
      <4>3. CASE i = 1
        BY <1>3, <1>7, <1>13, <4>2, <4>3
      <4>4. CASE i # 1
        <5>1. i - 1 \in 1 .. h.sweepgc.skip /\ i - 1 \in 1 .. Len(s) /\ 1 + (i - 1) = i
          BY <1>4, <1>7, <1>10, <3>2, <4>1, <4>4
        <5>2. t[i] = s[i - 1]
          BY <1>3, <5>1
        <5>3. h.mark[s[i - 1]] = "white"
          BY <3>1, <4>1, <5>1 DEF s
        <5> QED BY <1>7, <4>2, <5>2, <5>3
      <4> QED BY <4>3, <4>4
    <3>3. CASE ~in
      <4>1. p.sweepgc.skip = h.sweepgc.skip /\ p.sweepgc.list = h.sweepgc.list
        BY <1>7, <3>3
      <4>2. h.sweepgc.list # name /\ h.sweepgc.list # "none"
        BY <1>4, <3>3, <4>1 DEF in, Phase
      <4>3. ListOf(p, p.sweepgc.list) = ListOf(h, h.sweepgc.list)
        BY <1>7, <1>11, <4>1, <4>2
      <4> QED BY <1>7, <3>1, <4>1, <4>3
    <3> QED BY <3>2, <3>3
  <2>8. ~Marking(p)
    BY <1>7, <1>13 DEF Marking, Untouched
  <2> QED BY <2>6, <2>7, <2>8 DEF Whites
<1> QED BY <1>3, <1>7, <1>8, <1>9, <1>12, <1>13 DEF p, s, t

\* Objects may go from list to list, and new white ones come, so long as what has
\* a finalizer lives and the sweep keeps its place.
LEMMA Relist ==
  ASSUME NEW h, Inv(kind, refs, open, mode, h), h.stage = "none",
         NEW p, Untouched(h, p), Objs(h) \subseteq Objs(p),
         \A o \in Objs(h) : p.mark[o] = h.mark[o],
         \A o \in All \ Objs(h) : IsWhite(p, o),
         \A o \in Objs(p) \ Objs(h) : p.mark[o] = "white",
         Registry \in Range(p.allgc), Len(p.finobj) + Len(p.tobefnz) <= MaxFinal,
         Range(p.finobj) \subseteq Live(h), Range(p.tobefnz) \subseteq Range(h.tobefnz),
         Phase(p), ~Marking(h) => Whites(p)
  PROVE  Inv(kind, refs, open, mode, p)
<1>1. Core(kind, refs, open, mode, h, {}) /\ Phase(h) /\ RootsMarked(h)
  BY Idle
<1>2. /\ p \in GState /\ p.state = h.state /\ p.stage = "none" /\ SameThreads(h, p)
      /\ SameGrays(h, p) /\ p.gray = h.gray
  BY DEF Untouched
<1>3. /\ Objs(h) \subseteq All /\ Objs(p) \subseteq All /\ NW(h) \subseteq Objs(h)
  <2>1. Objs(h) \subseteq All
    BY <1>1, TypeFacts DEF Core
  <2>2. Objs(p) \subseteq All
    BY <1>2, ListedAll, Constants DEF Objs
  <2>3. NW(h) \subseteq Objs(h)
    BY <1>1 DEF Core, Shape, NW
  <2> QED BY <2>1, <2>2, <2>3
<1>4. Live(p) = Live(h) \cup (Objs(p) \ Objs(h))
  BY DEF Live, isdead
<1>5. NW(p) = NW(h)
  BY <1>3 DEF NW, IsWhite
<1>6. (Marking(p) <=> Marking(h)) /\ (Early(p) <=> Early(h))
  BY <1>2 DEF Marking, Early
<1>7. \A o \in Objs(p) \ Objs(h) : refs[o] = {} /\ (o \in Object => open[o] = Null)
  BY <1>1, <1>3 DEF Core, Shape
<1>8. Types(kind, refs, open, mode, p)
  BY <1>1, <1>2 DEF Core, Types
<1>9. Shape(kind, refs, open, p)
  BY <1>1, <1>2, <1>5 DEF Core, Shape, SameThreads
<1>10. Closed(refs, open, p)
  <2> SUFFICES ASSUME NEW o \in Live(p)
               PROVE  /\ Val(refs, o) \cup Key(refs, o) \subseteq Live(p)
                      /\ o \in Object /\ open[o] # Null => Val(refs, open[o]) \subseteq Live(p)
    BY DEF Closed
  <2>1. CASE o \in Live(h)
    BY <1>1, <1>4, <2>1 DEF Core, Closed
  <2>2. CASE o \notin Live(h)
    BY <1>4, <1>7, <2>2 DEF Val, Key
  <2> QED BY <2>1, <2>2
<1>11. RootsLive(p)
  <2>1. {Main, Registry} \cup Range(h.tobefnz) \cup h.twups \subseteq Live(h)
    BY <1>1 DEF Core, RootsLive
  <2> QED BY <1>2, <1>4, <2>1 DEF RootsLive, SameThreads
<1>12. Whites(p)
  <2>1. CASE Marking(h)
    BY <1>1, <1>4, <1>6, <2>1 DEF Core, Whites
  <2>2. CASE ~Marking(h)
    BY <2>2
  <2> QED BY <2>1, <2>2
<1>13. Threads(kind, p)
  <2>1. h.openupval \subseteq Objs(h)
    BY <1>1 DEF Core, Shape
  <2>2. p.state # "inside" => p.openupval \cap Live(p) \subseteq p.twups
    BY <1>1, <1>2, <1>4, <2>1 DEF Core, Threads, SameThreads
  <2> QED BY <1>1, <1>3, <1>5, <1>6, <2>2 DEF Core, Threads
<1>14. Coverage(kind, refs, open, p, {})
  <2>1. Pending(p) = Pending(h)
    BY <1>2, <1>6 DEF Pending, SameGrays
  <2>2. \A o : Covered(kind, refs, open, h, o) => Covered(kind, refs, open, p, o)
    BY <1>2, <1>5, <1>6 DEF Covered, SameGrays, SameThreads
  <2> QED BY <1>1, <1>5, <1>6, <2>1, <2>2 DEF Core, Coverage
<1>15. Grays(kind, p)
  <2>1. GrayLists(p) = GrayLists(h)
    BY <1>2 DEF GrayLists, SameGrays
  <2> QED BY <1>1, <1>2, <1>5, <1>6, <2>1 DEF Core, Grays, SameGrays
<1>16. Lists(p, {})
  BY <1>1, <1>2, <1>3, <1>5, <1>6 DEF Core, Lists, SameGrays
<1>17. RootsMarked(p)
  BY <1>1, <1>5, <1>6 DEF RootsMarked
<1>18. Core(kind, refs, open, mode, p, {})
  BY <1>8, <1>9, <1>10, <1>11, <1>12, <1>13, <1>14, <1>15, <1>16 DEF Core
<1> QED BY <1>2, <1>17, <1>18, Idle

\* An upvalue on the stack of a coroutine that lives.
LEMMA Opened ==
  ASSUME NEW h, Inv(kind, refs, open, mode, h), h.stage = "none",
         NEW o \in Object, o \in Objs(h), o \notin NW(h), refs[o] = {}, kind[o] = "closure",
         NEW k \in Object, k \in Live(h), kind[k] = "coroutine",
         NEW p \in GState, SameLists(h, p), SamePlace(h, p), SameGrays(h, p), p.gray = h.gray,
         p.mark = h.mark, p.openupval = h.openupval \cup {k}, p.twups = h.twups \cup {k},
         h.touched \subseteq p.touched
  PROVE  Inv(kind, refs, [open EXCEPT ![o] = k], mode, p)
<1> DEFINE op == [open EXCEPT ![o] = k]
<1>1. Core(kind, refs, open, mode, h, {}) /\ Phase(h) /\ RootsMarked(h) /\ Early(h)
  BY Idle DEF Phase, Early
<1>2. /\ Objs(p) = Objs(h) /\ Live(p) = Live(h) /\ NW(p) = NW(h)
      /\ (Marking(p) <=> Marking(h)) /\ Early(p) /\ p.stage = "none" /\ p.state = h.state
  BY <1>1 DEF SameLists, SamePlace, Objs, Listed, Live, isdead, NW, IsWhite, Marking, Early
<1>3. /\ op \in [Object -> Object \cup {Null}] /\ op[o] = k
      /\ \A c \in Object : c # o => op[c] = open[c]
  BY <1>1 DEF Core, Types
<1> HIDE DEF op
<1>4. Objs(h) \subseteq All /\ k \in Objs(h) /\ k # Null
  BY <1>1, TypeFacts, Constants DEF Core, Live
<1>5. Types(kind, refs, op, mode, p)
  BY <1>1, <1>3 DEF Core, Types
<1>6. Shape(kind, refs, op, p)
  <2>1. \A c \in Object : op[c] # Null =>
          /\ kind[c] = "closure" /\ kind[op[c]] = "coroutine" /\ refs[c] = {}
          /\ c \in Objs(p) /\ op[c] \in p.openupval
    <3> SUFFICES ASSUME NEW c \in Object, op[c] # Null
                 PROVE  /\ kind[c] = "closure" /\ kind[op[c]] = "coroutine" /\ refs[c] = {}
                        /\ c \in Objs(p) /\ op[c] \in p.openupval
      OBVIOUS
    <3>1. CASE c = o
      BY <1>2, <1>3, <3>1
    <3>2. CASE c # o
      BY <1>1, <1>2, <1>3, <3>2 DEF Core, Shape
    <3> QED BY <3>1, <3>2
  <2>2. KindIn(kind, k) = "coroutine"
    BY KindInObject
  <2>3. p.openupval \subseteq {c \in Objs(p) : KindIn(kind, c) = "coroutine"}
    BY <1>1, <1>2, <1>4, <2>2 DEF Core, Shape
  <2> QED BY <1>1, <1>2, <2>1, <2>3 DEF Core, Shape, SameLists
<1>7. Closed(refs, op, p)
  <2>1. Val(refs, k) \subseteq Live(h)
    BY <1>1 DEF Core, Closed
  <2> QED BY <1>1, <1>2, <1>3, <2>1 DEF Core, Closed
<1>8. RootsLive(p) /\ Whites(p)
  <2>1. RootsLive(p)
    BY <1>1, <1>2 DEF Core, RootsLive, SameLists
  <2>2. \A name : ListOf(p, name) = ListOf(h, name)
    BY DEF ListOf, SameLists
  <2>3. Unswept(p) = Unswept(h)
    <3>1. ASSUME NEW name PROVE Behind(p, name) = Behind(h, name)
      <4>1. ListOf(p, name) = ListOf(h, name) /\ p.sweepgc = h.sweepgc
        BY <2>2 DEF SamePlace
      <4> QED BY <4>1 DEF Behind
    <3>2. p.state = h.state /\ p.finobj = h.finobj /\ p.tobefnz = h.tobefnz
      BY DEF SameLists, SamePlace
    <3> QED BY ONLY <3>1, <3>2 DEF Unswept
  <2>4. Whites(p)
    BY <1>1, <1>2, <2>2, <2>3 DEF Core, Whites, SamePlace
  <2> QED BY <2>1, <2>4
<1>9. Threads(kind, p)
  BY <1>1, <1>2 DEF Core, Threads
<1>10. Coverage(kind, refs, op, p, {})
  <2>1. Pending(p) = Pending(h)
    BY <1>1, <1>2 DEF Pending, SameGrays
  <2>2. \A c \in NW(h) : Covered(kind, refs, open, h, c) => Covered(kind, refs, op, p, c)
    BY <1>1, <1>2, <1>3 DEF Covered, SameGrays
  <2> QED BY <1>1, <1>2, <2>1, <2>2 DEF Core, Coverage
<1>11. Grays(kind, p) /\ Lists(p, {})
  <2>1. GrayLists(p) = GrayLists(h)
    BY DEF GrayLists, SameGrays
  <2>2. Grays(kind, p)
    BY <1>1, <1>2, <2>1 DEF Core, Grays, SameGrays
  <2>3. Lists(p, {})
    BY <1>1, <1>2 DEF Core, Lists, SameGrays
  <2> QED BY <2>2, <2>3
<1>12. Phase(p) /\ RootsMarked(p)
  <2>1. \A name : ListOf(p, name) = ListOf(h, name)
    BY DEF ListOf, SameLists
  <2> QED BY <1>1, <1>2, <2>1 DEF Phase, RootsMarked, SamePlace, SameLists
<1>13. Core(kind, refs, op, mode, p, {})
  BY <1>5, <1>6, <1>7, <1>8, <1>9, <1>10, <1>11 DEF Core
<1>14. Inv(kind, refs, op, mode, p)
  BY <1>2, <1>12, <1>13, Idle
<1> QED BY <1>14 DEF op

\* It does not matter which is done first.
LEMMA WhitePrepended ==
  ASSUME NEW h \in GState, NEW name \in {"allgc", "finobj"}, NEW o
  PROVE  makewhite(Prepend(h, name, o), o) = Prepend(makewhite(h, o), name, o)
<1>1. CASE name = "allgc"
  BY <1>1 DEF makewhite, Prepend, SetList, ListOf, GState
<1>2. CASE name = "finobj"
  BY <1>2 DEF makewhite, Prepend, SetList, ListOf, GState
<1> QED BY <1>1, <1>2

\* A new object is white, and referred to from the stack only.
LEMMA NewobjStep ==
  ASSUME IInv, NEW o \in Object, luaC_newobj(o)
  PROVE  IInv'
<1> DEFINE w == makewhite(g, o)
           h == makewhite(Prepend(g, "allgc", o), o)
<1>1. /\ g.stage = "none" /\ o \notin Allocated /\ refs' = Pushed(o) /\ kind' = kind
      /\ mode' = mode
      /\ \/ g' = h /\ open' = open
         \/ \E k \in Stack :
              /\ KindOf(k) = "coroutine" /\ KindOf(o) = "closure"
              /\ open' = [open EXCEPT ![o] = k]
              /\ g' = IF k \in g.openupval THEN h
                      ELSE [h EXCEPT !.openupval = @ \cup {k}, !.touched = @ \cup {k},
                                     !.twups = @ \cup {k}]
  BY DEF luaC_newobj, Running, Between
<1>2. /\ Core(kind, refs, open, mode, g, {}) /\ Phase(g) /\ g \in GState
      /\ Shape(kind, refs, open, g)
      /\ RootsLive(g) /\ o \in All /\ Whites(g) /\ Threads(kind, g)
  BY <1>1, Idle, Constants DEF IInv, Core, Types
<1>3. o \notin Objs(g) /\ o \notin Listed(g) /\ refs[o] = {} /\ open[o] = Null /\ o \notin NW(g)
  BY <1>1, <1>2 DEF Allocated, Objs, Shape
<1>4. h = Prepend(w, "allgc", o)
  BY <1>2, WhitePrepended
<1>5. /\ w \in GState /\ SameLists(g, w) /\ SamePlace(g, w) /\ SameThreads(g, w)
      /\ SameGrays(g, w) /\ w.gray = g.gray
      /\ \A p \in All : w.mark[p] = IF p = o THEN "white" ELSE g.mark[p]
      /\ Phase(w) /\ (Marking(w) <=> Marking(g)) /\ (~Marking(g) => Whites(w))
  <2>1. Marking(w) <=> Marking(g)
    BY <1>2, Whitened DEF Marking, SamePlace
  <2> QED BY <1>2, <2>1, Whitened
<1> HIDE DEF w, h
<1>6. /\ Untouched(w, h) /\ h.mark = w.mark
      /\ \A other \in Names :
              ListOf(h, other) =
                IF other = "allgc" THEN <<o>> \o ListOf(w, "allgc") ELSE ListOf(w, other)
      /\ Range(ListOf(h, "allgc")) = {o} \cup Range(ListOf(w, "allgc"))
      /\ Listed(h) = Listed(w) \cup {o} /\ Phase(h)
      /\ (~Marking(g) => Whites(h))
  BY <1>2, <1>4, <1>5, Prepended
<1>7. /\ Range(h.allgc) = {o} \cup Range(g.allgc) /\ h.finobj = g.finobj
      /\ h.tobefnz = g.tobefnz
      /\ Listed(w) = Listed(g)
  BY <1>5, <1>6 DEF ListOf, Names, SameLists, Listed
<1>8. /\ Untouched(g, h) /\ Objs(h) = Objs(g) \cup {o}
  BY <1>5, <1>6, <1>7 DEF Untouched, SamePlace, SameThreads, SameGrays, Objs
<1>9. Objs(g) \subseteq All
  BY <1>2, TypeFacts DEF Core
<1>10. Inv(kind, refs, open, mode, h) /\ h.stage = "none" /\ h \in GState
  <2>1. \A x \in Objs(g) : h.mark[x] = g.mark[x]
    BY <1>3, <1>5, <1>6, <1>9
  <2>2. \A x \in All \ Objs(g) : IsWhite(h, x)
    <3>1. \A x \in All \ Objs(g) : x \notin NW(g)
      BY <1>2 DEF Shape
    <3> QED BY <1>5, <1>6, <3>1 DEF IsWhite, NW
  <2>3. \A x \in Objs(h) \ Objs(g) : h.mark[x] = "white"
    BY <1>2, <1>5, <1>6, <1>8
  <2>4. Registry \in Range(h.allgc) /\ Len(h.finobj) + Len(h.tobefnz) <= MaxFinal
    BY <1>2, <1>7 DEF Shape
  <2>5. Range(h.finobj) \subseteq Live(g) /\ Range(h.tobefnz) \subseteq Range(g.tobefnz)
    BY <1>2, <1>7 DEF RootsLive
  <2>6. Inv(kind, refs, open, mode, g)
    BY DEF IInv
  <2>7. Inv(kind, refs, open, mode, h)
    BY <1>1, <1>6, <1>8, <2>1, <2>2, <2>3, <2>4, <2>5, <2>6, Relist
  <2> QED BY <1>1, <1>8, <2>7 DEF Untouched
<1>11. /\ o \in Objs(h) /\ h.mark[o] = "white" /\ o \in Live(h) /\ o \notin NW(h)
       /\ \A x \in Live(g) : x \in Live(h)
  <2>1. o \in Objs(h) /\ h.mark[o] = "white"
    BY <1>2, <1>5, <1>6, <1>8
  <2>2. \A x \in Objs(g) : x \in Objs(h) /\ h.mark[x] = g.mark[x]
    BY <1>3, <1>5, <1>6, <1>8, <1>9
  <2> QED BY <2>1, <2>2 DEF Live, isdead, NW, IsWhite
<1>12. CASE g' = h /\ open' = open
  <2>1. Inv(kind, Pushed(o), open, mode, h)
    BY <1>10, <1>11, Push
  <2> QED BY <1>1, <1>12, <2>1 DEF IInv
<1>13. ASSUME NEW k \in Stack, KindOf(k) = "coroutine", KindOf(o) = "closure",
              open' = [open EXCEPT ![o] = k],
              g' = IF k \in g.openupval THEN h
                   ELSE [h EXCEPT !.openupval = @ \cup {k}, !.touched = @ \cup {k},
                                  !.twups = @ \cup {k}]
       PROVE  IInv'
  <2>1. k \in Object /\ k \in Live(g) /\ k \in Live(h) /\ k \in All
    BY <1>11, AtHand
  <2>2. kind[k] = "coroutine" /\ kind[o] = "closure"
    BY <1>13, <2>1, Reading, KindInObject
  <2>3. h.openupval = g.openupval /\ h.twups = g.twups
    BY <1>8 DEF Untouched, SameThreads
  <2> DEFINE p == g'
  <2>4. /\ p \in GState /\ SameLists(h, p) /\ SamePlace(h, p) /\ SameGrays(h, p)
        /\ p.gray = h.gray
        /\ p.mark = h.mark /\ p.openupval = h.openupval \cup {k}
        /\ p.twups = h.twups \cup {k}
        /\ h.touched \subseteq p.touched
    <3>1. CASE k \in g.openupval
      <4>1. p = h
        BY <1>13, <3>1
      <4>2. g.state # "inside"
        BY <1>1, <1>2 DEF Phase
      <4>3. k \in g.twups
        BY <1>2, <2>1, <3>1, <4>2 DEF Threads
      <4> QED BY <1>10, <2>3, <3>1, <4>1, <4>3 DEF SameLists, SamePlace, SameGrays
    <3>2. CASE k \notin g.openupval
      <4>1. p = [h EXCEPT !.openupval = @ \cup {k}, !.touched = @ \cup {k}, !.twups = @ \cup {k}]
        BY <1>13, <3>2
      <4> HIDE DEF p
      <4> QED BY <1>10, <2>1, <4>1 DEF GState, SameLists, SamePlace, SameGrays
    <3> QED BY <3>1, <3>2
  <2> HIDE DEF p
  <2>5. Inv(kind, refs, [open EXCEPT ![o] = k], mode, p)
    BY <1>3, <1>10, <1>11, <2>1, <2>2, <2>4, Opened
  <2>6. p.stage = "none" /\ o \in Live(p)
    BY <1>10, <1>11, <2>4 DEF SamePlace, SameLists, Live, Objs, Listed, isdead
  <2>7. Inv(kind, Pushed(o), [open EXCEPT ![o] = k], mode, p)
    BY <2>5, <2>6, Push
  <2> QED BY <1>1, <1>13, <2>7 DEF IInv, p
<1> QED BY <1>1, <1>12, <1>13

\* A string that is found again is made alive, should it be dead.
LEMMA InternshrstrStep ==
  ASSUME IInv, NEW s \in Object, internshrstr(s)
  PROVE  IInv'
<1> DEFINE h == IF isdead(g, s) THEN makewhite(g, s) ELSE g
<1>1. /\ g.stage = "none" /\ s \in Listed(g) /\ KindOf(s) = "string"
      /\ g' = h /\ refs' = Pushed(s) /\ UNCHANGED <<kind, open, mode>>
  BY DEF internshrstr, Running, Between, Put, SameShape
<1>2. s \in Objs(g) /\ s \in All /\ kind[s] = "string" /\ KindIn(kind, s) = "string"
  BY <1>1, Constants, Reading, KindInObject DEF Objs
<1>3. Inv(kind, refs, open, mode, h) /\ h.stage = "none" /\ s \in Live(h)
  <2>1. CASE isdead(g, s)
    <3>1. ~Marking(g)
      BY <1>2, <2>1 DEF IInv, Inv, Core, Whites, Live
    <3>2. Calm(kind, refs, open, mode, g)
      BY <3>1, CalmInv DEF IInv
    <3>3. refs[s] = {} /\ open[s] = Null /\ s \notin g.openupval
      BY <1>2, <3>2 DEF Calm, Shape
    <3>4. Val(refs, s) \cup Key(refs, s) \subseteq Live(g)
      BY <3>3 DEF Val, Key
    <3>5. /\ Calm(kind, refs, open, mode, makewhite(g, s))
          /\ Live(makewhite(g, s)) = Live(g) \cup {s}
      BY <1>2, <3>2, <3>3, <3>4, Whiten
    <3>6. h = makewhite(g, s)
      BY <2>1
    <3> HIDE DEF h
    <3>7. ~Marking(h) /\ h.stage = "none"
      BY <3>5, <3>6 DEF Calm, Phase, Marking
    <3> QED BY <3>5, <3>6, <3>7, CalmInv
  <2>2. CASE ~isdead(g, s)
    BY <1>1, <1>2, <2>2 DEF IInv, Live
  <2> QED BY <2>1, <2>2
<1> HIDE DEF h
<1>4. Inv(kind, Pushed(s), open, mode, h)
  BY <1>3, Push
<1> QED BY <1>1, <1>4 DEF IInv

\* The head and the tail of a sequence.
LEMMA HeadAndTail ==
  ASSUME NEW S, NEW s \in Seq(S), s # <<>>
  PROVE  /\ Head(s) \in S /\ Tail(s) \in Seq(S) /\ Len(Tail(s)) <= Len(s)
         /\ Range(s) = {Head(s)} \cup Range(Tail(s))
<1>1. PICK N \in Nat : N = Len(s) /\ N # 0
  BY LenProperties, EmptySeq
<1> DEFINE t == Tail(s)
<1>2. /\ Head(s) \in S /\ t \in Seq(S) /\ Len(t) = N - 1
      /\ \A i \in 1 .. N - 1 : t[i] = s[i + 1]
  BY <1>1, HeadTailProperties
<1>3. Head(s) = s[1]
  BY DEF Head
<1> HIDE DEF t
<1>4. /\ Range(s) = {s[i] : i \in 1 .. N} /\ Range(t) = {t[i] : i \in 1 .. N - 1}
  BY <1>1, <1>2, RangeEquality
<1>5. ASSUME NEW x \in Range(s), x # Head(s) PROVE x \in Range(t)
  <2>1. PICK i \in 1 .. N : x = s[i]
    BY <1>4
  <2>2. i # 1
    BY <1>3, <1>5, <2>1
  <2>3. i - 1 \in 1 .. N - 1 /\ (i - 1) + 1 = i
    BY <2>2
  <2>4. x = t[i - 1]
    BY <1>2, <2>1, <2>3
  <2> QED BY <1>4, <2>3, <2>4
<1>6. ASSUME NEW x \in Range(t) PROVE x \in Range(s)
  <2>1. PICK i \in 1 .. N - 1 : x = t[i]
    BY <1>4
  <2>2. i + 1 \in 1 .. N /\ x = s[i + 1]
    BY <1>2, <2>1
  <2> QED BY <1>4, <2>2
<1>7. Head(s) \in Range(s)
  BY <1>1, <1>3, <1>4
<1>8. Range(s) = {Head(s)} \cup Range(t)
  BY <1>5, <1>6, <1>7
<1> QED BY <1>1, <1>2, <1>8 DEF t

\* The first object that waits is an object like the others again.
LEMMA GCTMStep ==
  ASSUME IInv, GCTM
  PROVE  /\ IInv' /\ Untouched(g, g') /\ Listed(g') = Listed(g)
         /\ Head(g.tobefnz) \in Live(g) /\ (Marking(g) => Head(g.tobefnz) \in NW(g))
         /\ \A x \in All : g'.mark[x] = IF x = Head(g.tobefnz) /\ issweepphase(g) THEN "white"
                                       ELSE g.mark[x]
<1> DEFINE o == Head(g.tobefnz)
           d == [g EXCEPT !.tobefnz = Tail(@)]
           base == IF issweepphase(g) THEN makewhite(g, o) ELSE g
           e == IF issweepphase(g) THEN makewhite(d, o) ELSE d
           p == g'
<1>1. /\ g.stage = "none" /\ g.tobefnz # <<>> /\ g.state # "pause"
      /\ g' = IF issweepphase(g) THEN makewhite(udata2finalize(g), o) ELSE udata2finalize(g)
      /\ refs' = Pushed(o) /\ UNCHANGED <<kind, open, mode>>
  BY DEF GCTM, Between, Pushed
<1>2. /\ Core(kind, refs, open, mode, g, {}) /\ Phase(g) /\ g \in GState
      /\ Shape(kind, refs, open, g)
      /\ RootsLive(g) /\ Whites(g) /\ RootsMarked(g) /\ Types(kind, refs, open, mode, g)
  BY <1>1, Idle DEF IInv, Core, Types
<1>3. /\ g.tobefnz \in Seq(Object)
      /\ g.sweepgc.list = "tobefnz" => g.sweepgc.skip = 0
      /\ g.sweepgc \in Places
  BY <1>2 DEF GState, Phase, NoSweep
<1>4. /\ o \in Object /\ Tail(g.tobefnz) \in Seq(Object)
      /\ Len(Tail(g.tobefnz)) <= Len(g.tobefnz)
      /\ Range(g.tobefnz) = {o} \cup Range(Tail(g.tobefnz))
  BY <1>1, <1>3, HeadAndTail
<1>5. o \in All /\ o \in Live(g) /\ o \in Objs(g) /\ (Marking(g) => o \in NW(g))
  BY <1>2, <1>4, Constants DEF RootsLive, RootsMarked, Live
<1>6. udata2finalize(g) = Prepend(d, "allgc", o)
  BY <1>3 DEF udata2finalize
<1> HIDE DEF o
<1>7. /\ d \in GState /\ SamePlace(g, d) /\ SameThreads(g, d) /\ SameGrays(g, d)
      /\ d.gray = g.gray /\ d.mark = g.mark
      /\ d.allgc = g.allgc /\ d.finobj = g.finobj /\ d.tobefnz = Tail(g.tobefnz)
  BY <1>2, <1>4 DEF GState, SamePlace, SameThreads, SameGrays
<1>8. p = Prepend(e, "allgc", o)
  <2>1. makewhite(Prepend(d, "allgc", o), o) = Prepend(makewhite(d, o), "allgc", o)
    BY <1>7, WhitePrepended
  <2> QED BY <1>1, <1>6, <2>1
<1> HIDE DEF d
<1>9. /\ e \in GState /\ SameLists(d, e) /\ SamePlace(g, e) /\ SameThreads(g, e)
      /\ SameGrays(g, e) /\ e.gray = g.gray
      /\ \A x \in All : e.mark[x] = IF x = o /\ issweepphase(g) THEN "white" ELSE g.mark[x]
  <2>1. CASE issweepphase(g)
    <3>1. e = makewhite(d, o)
      BY <2>1
    <3>2. /\ makewhite(d, o) \in GState /\ SameLists(d, makewhite(d, o))
          /\ SamePlace(d, makewhite(d, o)) /\ SameThreads(d, makewhite(d, o))
          /\ SameGrays(d, makewhite(d, o)) /\ makewhite(d, o).gray = d.gray
          /\ \A x \in All : makewhite(d, o).mark[x] = IF x = o THEN "white" ELSE d.mark[x]
      BY <1>5, <1>7, Whitened
    <3> HIDE DEF e
    <3> QED BY <1>7, <2>1, <3>1, <3>2 DEF SamePlace, SameThreads, SameGrays
  <2>2. CASE ~issweepphase(g)
    <3>1. e = d
      BY <2>2
    <3> QED BY <1>7, <2>2, <3>1 DEF SameLists
  <2> QED BY <2>1, <2>2
<1> HIDE DEF e
<1>10. Phase(e)
  <2>1. \A name : name # "tobefnz" /\ name # "none" =>
          ListOf(e, name) = ListOf(g, name) \/ name \notin Names
    BY <1>7, <1>9 DEF ListOf, SameLists, Names
  <2>2. e.sweepgc.skip <= Len(ListOf(e, e.sweepgc.list))
    <3>1. CASE g.sweepgc.list \in {"allgc", "finobj"}
      BY <1>2, <1>7, <1>9, <3>1 DEF Phase, ListOf, SameLists, SamePlace
    <3>2. CASE g.sweepgc.list \notin {"allgc", "finobj"}
      <4>1. g.sweepgc.list \in {"none", "tobefnz"}
        BY <1>3, <3>2 DEF Places
      <4>2. e.sweepgc.skip = 0 /\ e.sweepgc.list \in {"none", "tobefnz"}
        BY <1>2, <1>3, <1>9, <4>1 DEF Phase, SamePlace
      <4>3. Len(e.tobefnz) \in Nat
        BY <1>9, LenProperties DEF GState
      <4> QED BY <4>2, <4>3 DEF ListOf
    <3> QED BY <3>1, <3>2
  <2> QED BY <1>2, <1>9, <2>2 DEF Phase, SamePlace
<1>11. /\ Untouched(e, p) /\ p.mark = e.mark
       /\ Range(p.allgc) = {o} \cup Range(g.allgc)
       /\ p.finobj = g.finobj /\ p.tobefnz = Tail(g.tobefnz)
       /\ Phase(p) /\ (Whites(e) /\ ~Marking(e) /\ e.mark[o] = "white" => Whites(p))
       /\ Listed(p) = Listed(e) \cup {o}
  <2>1. /\ Untouched(e, Prepend(e, "allgc", o)) /\ Prepend(e, "allgc", o).mark = e.mark
        /\ \A other \in Names :
              ListOf(Prepend(e, "allgc", o), other) =
                IF other = "allgc" THEN <<o>> \o ListOf(e, "allgc") ELSE ListOf(e, other)
        /\ Range(ListOf(Prepend(e, "allgc", o), "allgc")) = {o} \cup Range(ListOf(e, "allgc"))
        /\ Listed(Prepend(e, "allgc", o)) = Listed(e) \cup {o}
        /\ Phase(Prepend(e, "allgc", o))
        /\ Whites(e) /\ ~Marking(e) /\ e.mark[o] = "white" => Whites(Prepend(e, "allgc", o))
    BY <1>4, <1>9, <1>10, Prepended
  <2> HIDE DEF p
  <2>2. /\ p.finobj = e.finobj /\ p.tobefnz = e.tobefnz
        /\ Range(p.allgc) = {o} \cup Range(e.allgc)
    BY <1>8, <2>1 DEF ListOf, Names
  <2>3. e.allgc = g.allgc /\ e.finobj = g.finobj /\ e.tobefnz = Tail(g.tobefnz)
    BY <1>7, <1>9 DEF SameLists
  <2> QED BY <1>8, <2>1, <2>2, <2>3
<1> HIDE DEF p
<1>12. Objs(p) = Objs(g) /\ Listed(p) = Listed(g)
  <2>1. Listed(e) = Range(g.allgc) \cup Range(g.finobj) \cup Range(Tail(g.tobefnz))
    BY <1>7, <1>9 DEF Listed, SameLists
  <2> QED BY <1>4, <1>11, <2>1 DEF Objs, Listed
<1>13. ASSUME ~Marking(g) PROVE Whites(p)
  <2>1. ~Marking(e)
    BY <1>9, <1>13 DEF Marking, SamePlace
  <2>2. Listed(g) \subseteq All /\ Objs(g) \subseteq All
    BY <1>2, <1>5, ListedAll, TypeFacts
  <2>3. \A name \in Names : name # "tobefnz" => ListOf(e, name) = ListOf(g, name)
    BY <1>7, <1>9 DEF ListOf, SameLists, Names
  <2>4. \A name \in Names : \A x \in Behind(g, name) : x \in Behind(e, name) \/ x = o
    <3> SUFFICES ASSUME NEW name \in Names, NEW x \in Behind(g, name)
                 PROVE  x \in Behind(e, name) \/ x = o
      OBVIOUS
    <3>1. g.sweepgc.list = name
      BY DEF Behind
    <3>2. CASE name # "tobefnz"
      <4>1. ListOf(e, name) = ListOf(g, name) /\ e.sweepgc = g.sweepgc
        BY <1>9, <2>3, <3>2 DEF SamePlace
      <4> QED BY <4>1 DEF Behind
    <3>3. CASE name = "tobefnz"
      <4>1. g.sweepgc.skip = 0 /\ e.sweepgc.skip = 0 /\ e.sweepgc.list = "tobefnz"
        BY <1>3, <1>9, <3>1, <3>3 DEF SamePlace
      <4>2. ListOf(g, name) = g.tobefnz /\ ListOf(e, name) = Tail(g.tobefnz)
        BY <1>7, <1>9, <3>3 DEF ListOf, SameLists
      <4>3. /\ Range(g.tobefnz) = {g.tobefnz[i] : i \in 1 .. Len(g.tobefnz)}
            /\ Range(Tail(g.tobefnz)) = {Tail(g.tobefnz)[i] : i \in 1 .. Len(Tail(g.tobefnz))}
        BY <1>3, <1>4, RangeEquality
      <4>4. x \in Range(g.tobefnz)
        BY <3>1, <4>1, <4>2, <4>3 DEF Behind
      <4>5. x \in Range(Tail(g.tobefnz)) \/ x = o
        BY <1>4, <4>4
      <4>6. ASSUME NEW i \in 1 .. Len(Tail(g.tobefnz)) PROVE Tail(g.tobefnz)[i] \in Behind(e, name)
        <5>1. i \in e.sweepgc.skip + 1 .. Len(ListOf(e, name)) /\ e.sweepgc.list = name
          BY <3>3, <4>1, <4>2
        <5> QED BY <4>2, <5>1 DEF Behind
      <4> QED BY <4>3, <4>5, <4>6
    <3> QED BY <3>2, <3>3
  <2>5. \A x \in Unswept(g) : x \in Unswept(e) \/ x = o
    <3>1. e.state = g.state /\ e.finobj = g.finobj /\ e.tobefnz = Tail(g.tobefnz)
      BY <1>7, <1>9 DEF SamePlace, SameLists
    <3>2. "allgc" \in Names /\ "finobj" \in Names /\ "tobefnz" \in Names
      BY DEF Names
    <3> QED BY <1>4, <2>4, <3>1, <3>2 DEF Unswept
  <2>6. e.mark[o] = "white"
    <3>1. CASE issweepphase(g)
      BY <1>5, <1>9, <3>1
    <3>2. CASE ~issweepphase(g)
      <4>1. g.state = "callfin"
        BY <1>1, <1>2, <1>13, <3>2 DEF issweepphase, Marking, GState, States
      <4>2. Unswept(g) = {}
        BY <4>1 DEF Unswept
      <4>3. g.mark[o] = "white"
        BY <1>2, <1>5, <1>13, <4>2 DEF Whites
      <4> QED BY <1>5, <1>9, <4>3
    <3> QED BY <3>1, <3>2
  <2>7. \A x \in All : g.mark[x] = "white" => e.mark[x] = "white"
    BY <1>9
  <2>8. \A x \in Objs(e) \ Unswept(e) : e.mark[x] = "white"
    <3>1. Objs(e) \subseteq Objs(g)
      BY <1>11, <1>12 DEF Objs
    <3>2. \A x \in Objs(g) \ Unswept(g) : g.mark[x] = "white"
      BY <1>2, <1>13 DEF Whites
    <3> QED BY <2>2, <2>5, <2>6, <2>7, <3>1, <3>2
  <2>9. ASSUME NEW i \in 1 .. e.sweepgc.skip PROVE e.mark[ListOf(e, e.sweepgc.list)[i]] = "white"
    <3>1. e.sweepgc = g.sweepgc
      BY <1>9 DEF SamePlace
    <3>2. g.sweepgc.list \in Names /\ g.sweepgc.list # "tobefnz"
      BY <1>2, <1>3, <2>9, <3>1 DEF Places, Names, Phase
    <3>3. ListOf(e, e.sweepgc.list) = ListOf(g, g.sweepgc.list)
      BY <2>3, <3>1, <3>2
    <3>4. g.mark[ListOf(g, g.sweepgc.list)[i]] = "white"
      BY <1>2, <1>13, <2>9, <3>1 DEF Whites
    <3>5. ListOf(g, g.sweepgc.list)[i] \in All
      BY <1>2, <2>9, <3>1, PlaceIn
    <3> QED BY <2>7, <3>3, <3>4, <3>5
  <2>10. Whites(e)
    BY <2>1, <2>8, <2>9 DEF Whites
  <2> QED BY <1>11, <2>1, <2>6, <2>10
<1>14. /\ Inv(kind, refs, open, mode, base) /\ base.stage = "none"
       /\ SameLists(g, base) /\ SamePlace(g, base) /\ SameThreads(g, base)
       /\ SameGrays(g, base)
       /\ base.gray = g.gray /\ Live(base) = Live(g)
       /\ \A x \in All : base.mark[x] = IF x = o /\ issweepphase(g) THEN "white" ELSE g.mark[x]
  <2>1. CASE issweepphase(g)
    <3>1. ~Marking(g)
      BY <2>1 DEF issweepphase, Marking
    <3>2. Calm(kind, refs, open, mode, g)
      BY <3>1, CalmInv DEF IInv
    <3>3. /\ Val(refs, o) \cup Key(refs, o) \subseteq Live(g)
          /\ open[o] # Null => Val(refs, open[o]) \subseteq Live(g)
      BY <1>4, <1>5, <3>2 DEF Calm, Closed
    <3>4. o \in g.openupval => o \in g.twups
      BY <1>5, <3>2 DEF Calm
    <3>5. /\ Calm(kind, refs, open, mode, makewhite(g, o))
          /\ Live(makewhite(g, o)) = Live(g) \cup {o}
      BY <1>5, <3>2, <3>3, <3>4, Whiten
    <3>6. base = makewhite(g, o)
      BY <2>1
    <3> HIDE DEF base
    <3>7. ~Marking(base) /\ base.stage = "none"
      BY <3>5, <3>6 DEF Calm, Phase, Marking
    <3>8. /\ SameLists(g, base) /\ SamePlace(g, base) /\ SameThreads(g, base)
          /\ SameGrays(g, base)
          /\ base.gray = g.gray
          /\ \A x \in All : base.mark[x] = IF x = o THEN "white" ELSE g.mark[x]
      BY <1>2, <1>5, <3>6, Whitened
    <3>9. Live(base) = Live(g)
      BY <1>5, <3>5, <3>6
    <3>10. Inv(kind, refs, open, mode, base)
      BY <3>5, <3>6, <3>7, CalmInv
    <3> QED BY <2>1, <3>7, <3>8, <3>9, <3>10
  <2>2. CASE ~issweepphase(g)
    <3>1. base = g
      BY <2>2
    <3> HIDE DEF base
    <3> QED BY <1>1, <2>2, <3>1 DEF IInv, SameLists, SamePlace, SameThreads, SameGrays
  <2> QED BY <2>1, <2>2
<1> HIDE DEF base
<1>15. Objs(base) = Objs(g) /\ (Marking(base) <=> Marking(g))
  BY <1>14 DEF SameLists, SamePlace, Objs, Listed, Marking
<1>16. Untouched(base, p)
  BY <1>9, <1>11, <1>14 DEF Untouched, SamePlace, SameThreads, SameGrays
<1>17. Inv(kind, refs, open, mode, p) /\ p.stage = "none" /\ o \in Live(p)
  <2>1. Objs(g) \subseteq All
    BY <1>2, TypeFacts
  <2>2. \A x \in All : p.mark[x] = base.mark[x]
    BY <1>9, <1>11, <1>14
  <2>3. \A x \in Objs(base) : p.mark[x] = base.mark[x]
    BY <1>15, <2>1, <2>2
  <2>4. \A x \in All \ Objs(base) : IsWhite(p, x)
    <3>1. \A x \in All \ Objs(base) : x \notin NW(base)
      BY <1>14 DEF Inv, Core, Shape
    <3> QED BY <2>2, <3>1 DEF NW, IsWhite
  <2>5. Registry \in Range(p.allgc) /\ Len(p.finobj) + Len(p.tobefnz) <= MaxFinal
    <3>1. Len(p.tobefnz) <= Len(g.tobefnz)
      BY <1>4, <1>11
    <3>2. PICK a \in Nat, b \in Nat, c \in Nat :
            a = Len(g.finobj) /\ b = Len(g.tobefnz) /\ c = Len(p.tobefnz)
      BY <1>2, <1>4, <1>11, LenProperties DEF GState
    <3>3. MaxFinal \in Nat
      BY GcAssumption
    <3>4. p.finobj = g.finobj
      BY <1>11
    <3>5. a + b <= MaxFinal /\ c <= b
      BY <1>2, <3>1, <3>2 DEF Shape
    <3>6. a + c <= MaxFinal
      <4>1. a \in Nat /\ b \in Nat /\ c \in Nat
        OBVIOUS
      <4> QED BY ONLY <4>1, <3>3, <3>5
    <3>7. Len(p.finobj) + Len(p.tobefnz) <= MaxFinal
      BY <3>2, <3>4, <3>6
    <3> QED BY <1>2, <1>11, <3>7 DEF Shape
  <2>6. Range(p.finobj) \subseteq Live(base) /\ Range(p.tobefnz) \subseteq Range(base.tobefnz)
    BY <1>2, <1>4, <1>11, <1>14 DEF RootsLive, SameLists
  <2>7. Objs(base) \subseteq Objs(p) /\ \A x \in Objs(p) \ Objs(base) : p.mark[x] = "white"
    BY <1>12, <1>15
  <2>8. Phase(p) /\ (~Marking(base) => Whites(p))
    BY <1>11, <1>13, <1>15
  <2>9. Inv(kind, refs, open, mode, p)
    BY <1>14, <1>16, <2>3, <2>4, <2>5, <2>6, <2>7, <2>8, Relist
  <2>10. p.stage = "none"
    BY <1>14, <1>16 DEF Untouched
  <2>11. o \in Live(p)
    BY <1>5, <1>12, <1>14, <1>15, <2>3 DEF Live, isdead
  <2> QED BY <2>9, <2>10, <2>11
<1>18. Inv(kind, Pushed(o), open, mode, p)
  BY <1>4, <1>17, Push
<1>19. Untouched(g, p)
  BY <1>14, <1>16 DEF Untouched, SamePlace, SameThreads, SameGrays
<1>20. \A x \in All : p.mark[x] = IF x = o /\ issweepphase(g) THEN "white" ELSE g.mark[x]
  BY <1>9, <1>11
<1> QED BY <1>1, <1>5, <1>12, <1>18, <1>19, <1>20 DEF IInv, o, p

\* Marking looks at the marks only, and changes nothing else.
Painted(h, m) == [h EXCEPT !.mark = m.mark, !.gray = m.gray]

\* Marking looks at the marks only, and changes nothing but them and the gray list.
LEMMA SameMarking ==
  ASSUME NEW h \in GState, NEW p \in GState, p.mark = h.mark, p.gray = h.gray, NEW S
  PROVE  reallymark(p, S) = Painted(p, reallymark(h, S))
<1> DEFINE W(x) == {u \in All : IsWhite(x, u) /\ KindOf(u) = "udata"}
           new(x) == {o \in S \cup UNION {Values(u) : u \in Userdata(x, S)} : IsWhite(x, o)}
           mk(x) == [o \in All |-> IF o \notin new(x) THEN x.mark[o]
                                   ELSE IF AtOnce(o) THEN "black" ELSE "gray"]
           gr(x) == x.gray \cup {o \in new(x) : ~AtOnce(o)}
<1>1. W(p) = W(h)
  BY DEF IsWhite
<1>2. Userdata(p, S) = Userdata(h, S)
  <2>1. \A x : Userdata(x, S) = {u \in W(x) : \A T \in SUBSET W(x) :
              W(x) \cap S \subseteq T /\ (\A t \in T : Values(t) \cap W(x) \subseteq T) => u \in T}
    BY DEF Userdata
  <2> HIDE DEF W
  <2> QED BY <1>1, <2>1
<1>3. new(p) = new(h)
  BY <1>2 DEF IsWhite
<1>4. mk(p) = mk(h) /\ gr(p) = gr(h)
  <2> HIDE DEF new
  <2> QED BY <1>3
<1>5. \A x : reallymark(x, S) = [x EXCEPT !.mark = mk(x), !.gray = gr(x)]
  BY DEF reallymark
<1> HIDE DEF mk, gr
<1>6. ASSUME NEW x \in GState
      PROVE  reallymark(x, S).mark = mk(x) /\ reallymark(x, S).gray = gr(x)
  <2>1. \A a, b : /\ [x EXCEPT !.mark = a, !.gray = b].mark = a
                  /\ [x EXCEPT !.mark = a, !.gray = b].gray = b
    BY DEF GState
  <2>2. reallymark(x, S) = [x EXCEPT !.mark = mk(x), !.gray = gr(x)]
    BY <1>5
  <2> QED BY <2>1, <2>2
<1>7. reallymark(p, S) = [p EXCEPT !.mark = mk(h), !.gray = gr(h)]
  BY <1>4, <1>5
<1>8. reallymark(h, S).mark = mk(h) /\ reallymark(h, S).gray = gr(h)
  BY <1>6
<1> QED BY <1>7, <1>8 DEF Painted

\* The upvalues of a coroutine take their value with them.
LEMMA FcloseStep ==
  ASSUME IInv, NEW k \in Object, luaF_close(k)
  PROVE  IInv'
<1> DEFINE cs == {c \in Object : open[c] = k}
           h == [g EXCEPT !.openupval = @ \ {k}, !.touched = @ \ {k}]
           marks == cs # {} /\ keepinvariant(g)
           m == IF marks THEN reallymark(g, Values(k)) ELSE g
           p == g'
           r == refs'
           op == open'
<1>1. /\ g.stage = "none" /\ k \in Stack /\ KindOf(k) = "coroutine"
      /\ g' = IF cs = {} THEN h ELSE luaC_upvalbarrier(h, Values(k))
      /\ refs' = [o \in All |-> IF o = k THEN {} ELSE IF o \in cs THEN refs[k] ELSE refs[o]]
      /\ open' = [c \in Object |-> IF c \in cs THEN Null ELSE open[c]]
      /\ UNCHANGED <<kind, mode>>
  BY DEF luaF_close, Running, Between, Put, Holds
<1>2. /\ refs \in [All -> SUBSET ((Object \cup {Null}) \X Object)] /\ g \in GState
      /\ kind \in [Object -> Kinds] /\ open \in [Object -> Object \cup {Null}]
      /\ mode \in [All -> Modes] /\ k \in All /\ k \in Live(g) /\ Shape(kind, refs, open, g)
      /\ kind[k] = "coroutine" /\ k # Null
  <2>1. k \in All /\ k \in Live(g)
    BY <1>1, AtHand
  <2>2. kind[k] = "coroutine"
    BY <1>1, Reading, KindInObject
  <2> QED BY <2>1, <2>2, RefsType, Constants DEF IInv, Inv, Core
<1>3. /\ Inv(kind, refs, open, mode, m) /\ m.stage = "none" /\ m \in GState
      /\ SameLists(g, m) /\ SamePlace(g, m) /\ SameThreads(g, m) /\ SameGrays(g, m)
      /\ (Marking(m) /\ cs # {} => Values(k) \subseteq NW(m))
  <2>1. CASE marks
    <3>1. Values(k) \subseteq Objs(g)
      BY <1>2, AtHand
    <3>2. /\ Inv(kind, refs, open, mode, reallymark(g, Values(k)))
          /\ reallymark(g, Values(k)).stage = "none"
          /\ Values(k) \subseteq NW(reallymark(g, Values(k)))
          /\ reallymark(g, Values(k)) \in GState
          /\ Marked(g, reallymark(g, Values(k)), Values(k))
      BY <1>1, <2>1, <3>1, Barrier
    <3>3. m = reallymark(g, Values(k))
      BY <2>1
    <3> HIDE DEF m
    <3> QED BY <3>2, <3>3 DEF Marked
  <2>2. CASE ~marks
    <3>1. m = g
      BY <2>2
    <3>2. Marking(g) => cs = {}
      BY <1>1, <2>2, NotMarking
    <3> HIDE DEF m
    <3> QED BY <1>1, <1>2, <3>1, <3>2 DEF IInv, SameLists, SamePlace, SameThreads, SameGrays
  <2> QED BY <2>1, <2>2
<1>4. /\ h \in GState /\ h.mark = g.mark /\ h.gray = g.gray /\ h.state = g.state
      /\ SameLists(g, h) /\ SamePlace(g, h) /\ SameGrays(g, h) /\ h.twups = g.twups
      /\ h.openupval = g.openupval \ {k} /\ h.touched = g.touched \ {k}
  BY <1>2 DEF GState, SameLists, SamePlace, SameGrays
<1>5. /\ p \in GState /\ SameLists(m, p) /\ SamePlace(m, p) /\ SameGrays(m, p)
      /\ p.gray = m.gray /\ p.mark = m.mark /\ p.twups = m.twups
      /\ p.openupval = m.openupval \ {k} /\ p.touched = m.touched \ {k}
  <2>1. CASE marks
    <3>1. p = reallymark(h, Values(k)) /\ m = reallymark(g, Values(k))
      BY <1>1, <1>4, <2>1 DEF luaC_upvalbarrier, keepinvariant
    <3> HIDE DEF p, m, h
    <3>2. p = [h EXCEPT !.mark = m.mark, !.gray = m.gray]
      <4>1. reallymark(h, Values(k)) = Painted(h, reallymark(g, Values(k)))
        BY <1>2, <1>4, SameMarking
      <4> QED BY <3>1, <4>1 DEF Painted
    <3>3. p \in GState /\ p.mark = m.mark /\ p.gray = m.gray
      BY <1>3, <1>4, <3>2 DEF GState
    <3>4. /\ SameLists(h, p) /\ SamePlace(h, p) /\ SameThreads(h, p) /\ SameGrays(h, p)
      BY <1>4, <3>2 DEF GState, SameLists, SamePlace, SameThreads, SameGrays
    <3> QED BY <1>3, <1>4, <3>3, <3>4 DEF SameLists, SamePlace, SameThreads, SameGrays
  <2>2. CASE ~marks
    <3>1. p = h /\ m = g
      BY <1>1, <1>4, <2>2 DEF luaC_upvalbarrier, keepinvariant
    <3> HIDE DEF p, m, h
    <3> QED BY <1>4, <3>1
  <2> QED BY <2>1, <2>2
<1>6. /\ \A o \in All : r[o] = IF o = k THEN {} ELSE IF o \in cs THEN refs[k] ELSE refs[o]
      /\ \A c \in Object : op[c] = IF c \in cs THEN Null ELSE open[c]
      /\ r \in [All -> SUBSET ((Object \cup {Null}) \X Object)]
      /\ op \in [Object -> Object \cup {Null}]
  BY <1>1, <1>2
<1>7. \A c \in Object : c \in cs <=> open[c] = k
  OBVIOUS
<1> HIDE DEF p, r, op, m, cs, h
<1>8. \A c \in cs : /\ c \in Object /\ kind[c] = "closure" /\ KindIn(kind, c) = "closure" /\ c # k
                    /\ c \in Objs(m) /\ refs[c] = {}
  <2>1. Objs(m) = Objs(g)
    BY <1>3 DEF SameLists, Objs, Listed
  <2>2. \A c \in cs : c \in Object /\ open[c] = k
    BY DEF cs
  <2>3. \A c \in cs : kind[c] = "closure" /\ c \in Objs(g) /\ refs[c] = {}
    BY <1>2, <2>2 DEF Shape
  <2> QED BY <1>2, <2>1, <2>2, <2>3, KindInObject
<1>9. /\ Objs(p) = Objs(m) /\ Live(p) = Live(m) /\ NW(p) = NW(m)
      /\ (Marking(p) <=> Marking(m)) /\ p.stage = "none" /\ p.state = m.state
  BY <1>3, <1>5 DEF SameLists, SamePlace, Objs, Listed, Live, isdead, NW, IsWhite, Marking
<1>10. /\ Core(kind, refs, open, mode, m, {}) /\ Phase(m) /\ RootsMarked(m) /\ Early(m)
       /\ Early(p)
  BY <1>3, <1>9, Idle DEF Phase, Early
<1>11. /\ KindIn(kind, k) = "coroutine" /\ Key(refs, k) = {} /\ k \in Live(m)
       /\ Val(refs, k) \subseteq Live(m) /\ Val(refs, k) = Values(k)
  <2>1. KindIn(kind, k) = "coroutine"
    BY <1>2, KindInObject
  <2>2. Key(refs, k) = {}
    BY <1>2, <2>1 DEF Shape
  <2>3. k \in Live(m)
    <3>1. k \in Objs(m) /\ m.twups = g.twups
      BY <1>2, <1>3 DEF Live, SameLists, Objs, Listed, SameThreads
    <3>2. CASE marks
      <4>1. Marking(m)
        BY <1>3, <3>2 DEF keepinvariant, Marking, SamePlace
      <4> QED BY <1>10, <3>1, <4>1 DEF Core, Whites
    <3>3. CASE ~marks
      BY <1>2, <3>3 DEF m
    <3> QED BY <3>2, <3>3
  <2>4. Val(refs, k) \subseteq Live(m)
    BY <1>10, <2>3 DEF Core, Closed
  <2> QED BY <2>1, <2>2, <2>3, <2>4, Reading
<1> HIDE DEF marks
<1>12. Types(kind, r, op, mode, p)
  BY <1>2, <1>5, <1>6 DEF Types
<1>13. Shape(kind, r, op, p)
  <2>1. ASSUME NEW o \in All
        PROVE  /\ KindIn(kind, o) # "table" => Key(r, o) = {}
               /\ KindIn(kind, o) = "string" => r[o] = {}
               /\ o \notin Objs(p) => r[o] = {} /\ o \notin NW(p)
    <3>1. CASE o = k
      BY <1>2, <1>6, <1>9, <1>11, <3>1 DEF Key, Live
    <3>2. CASE o \in cs
      BY <1>6, <1>8, <1>9, <1>11, <3>2 DEF Key
    <3>3. CASE o # k /\ o \notin cs
      <4>1. r[o] = refs[o]
        BY <1>6, <3>3
      <4> QED BY <1>9, <1>10, <4>1 DEF Core, Shape, Key
    <3> QED BY <3>1, <3>2, <3>3
  <2>2. ASSUME NEW c \in Object, op[c] # Null
        PROVE  /\ kind[c] = "closure" /\ kind[op[c]] = "coroutine" /\ r[c] = {}
               /\ c \in Objs(p) /\ op[c] \in p.openupval
    <3>1. c \notin cs /\ op[c] = open[c] /\ open[c] # k
      BY <1>6, <1>7, <2>2
    <3>2. /\ kind[c] = "closure" /\ kind[open[c]] = "coroutine" /\ refs[c] = {}
          /\ c \in Objs(m) /\ open[c] \in m.openupval
      BY <1>10, <2>2, <3>1 DEF Core, Shape
    <3>3. r[c] = {}
      BY <1>6, <3>1, <3>2, Constants
    <3> QED BY <1>5, <1>9, <3>1, <3>2, <3>3
  <2>3. Registry \in Range(p.allgc) /\ Len(p.finobj) + Len(p.tobefnz) <= MaxFinal
    BY <1>5, <1>10 DEF Core, Shape, SameLists
  <2>4. p.openupval \subseteq {c \in Objs(p) : KindIn(kind, c) = "coroutine"}
    BY <1>5, <1>9, <1>10 DEF Core, Shape
  <2> QED BY <2>1, <2>2, <2>3, <2>4 DEF Shape
<1>14. Closed(r, op, p)
  <2> SUFFICES ASSUME NEW o \in Live(m)
               PROVE  /\ Val(r, o) \cup Key(r, o) \subseteq Live(m)
                      /\ o \in Object /\ op[o] # Null => Val(r, op[o]) \subseteq Live(m)
    BY <1>9 DEF Closed
  <2>1. o \in All
    <3>1. Objs(m) \subseteq All
      BY <1>10, TypeFacts DEF Core
    <3> QED BY <3>1 DEF Live
  <2>2. Val(r, o) \cup Key(r, o) \subseteq Live(m)
    <3>1. CASE o = k
      BY <1>6, <2>1, <3>1 DEF Val, Key
    <3>2. CASE o \in cs
      <4>1. r[o] = refs[k]
        BY <1>6, <1>8, <2>1, <3>2
      <4> QED BY <1>11, <4>1 DEF Val, Key
    <3>3. CASE o # k /\ o \notin cs
      <4>1. r[o] = refs[o]
        BY <1>6, <2>1, <3>3
      <4> QED BY <1>10, <4>1 DEF Core, Closed, Val, Key
    <3> QED BY <3>1, <3>2, <3>3
  <2>3. ASSUME o \in Object, op[o] # Null PROVE Val(r, op[o]) \subseteq Live(m)
    <3>1. o \notin cs /\ op[o] = open[o] /\ open[o] # k
      BY <1>6, <1>7, <2>3
    <3>2. kind[open[o]] = "coroutine" /\ open[o] \in Object /\ open[o] \in All
      BY <1>2, <2>3, <3>1, Constants DEF Shape
    <3>3. open[o] \notin cs
      BY <1>8, <3>2
    <3>4. r[open[o]] = refs[open[o]]
      BY <1>6, <3>1, <3>2, <3>3
    <3>5. Val(refs, open[o]) \subseteq Live(m)
      BY <1>10, <2>3, <3>1 DEF Core, Closed
    <3> QED BY <3>1, <3>4, <3>5 DEF Val
  <2> QED BY <2>2, <2>3
<1>15. RootsLive(p) /\ Whites(p)
  <2>1. RootsLive(p)
    BY <1>5, <1>9, <1>10 DEF Core, RootsLive, SameLists
  <2>2. \A name : ListOf(p, name) = ListOf(m, name)
    BY <1>5 DEF ListOf, SameLists
  <2>3. Unswept(p) = Unswept(m)
    <3>1. ASSUME NEW name PROVE Behind(p, name) = Behind(m, name)
      <4>1. ListOf(p, name) = ListOf(m, name) /\ p.sweepgc = m.sweepgc
        BY <1>5, <2>2 DEF SamePlace
      <4> QED BY <4>1 DEF Behind
    <3>2. p.state = m.state /\ p.finobj = m.finobj /\ p.tobefnz = m.tobefnz
      BY <1>5 DEF SameLists, SamePlace
    <3> QED BY ONLY <3>1, <3>2 DEF Unswept
  <2>4. Whites(p)
    BY <1>5, <1>9, <1>10, <2>2, <2>3 DEF Core, Whites, SamePlace
  <2> QED BY <2>1, <2>4
<1>16. Threads(kind, p)
  BY <1>5, <1>9, <1>10 DEF Core, Threads
<1>17. Coverage(kind, r, op, p, {})
  <2>1. Pending(p) = Pending(m)
    BY <1>5, <1>10 DEF Pending, SameGrays
  <2> SUFFICES ASSUME Marking(m), NEW o \in NW(m), o \notin Pending(m)
               PROVE  Covered(kind, r, op, p, o)
    BY <1>9, <2>1 DEF Coverage
  <2>2. o \in All
    BY DEF NW
  <2>3. Covered(kind, refs, open, m, o)
    BY <1>10 DEF Core, Coverage
  <2>4. CASE o = k
    <3>1. r[o] = {} /\ open[o] = Null /\ op[o] = Null
      BY <1>2, <1>6, <2>2, <2>4 DEF Shape
    <3> QED BY <3>1 DEF Covered, Val, Key
  <2>5. CASE o \in cs
    <3>1. r[o] = refs[k] /\ op[o] = Null
      BY <1>6, <1>8, <2>2, <2>5
    <3>2. Val(refs, k) \subseteq NW(m)
      BY <1>3, <1>11, <2>5
    <3> QED BY <1>9, <1>11, <3>1, <3>2 DEF Covered, Val, Key
  <2>6. CASE o # k /\ o \notin cs
    <3>1. r[o] = refs[o] /\ (o \in Object => op[o] = open[o] /\ open[o] # k)
      BY <1>6, <1>7, <2>2, <2>6
    <3> QED BY <1>5, <1>9, <1>10, <2>3, <3>1 DEF Covered, Val, Key, SameGrays
  <2> QED BY <2>4, <2>5, <2>6
<1>18. Grays(kind, p) /\ Lists(p, {})
  <2>1. GrayLists(p) = GrayLists(m)
    BY <1>5 DEF GrayLists, SameGrays
  <2>2. /\ p.gray = m.gray /\ p.mark = m.mark /\ p.allweak = m.allweak
        /\ p.ephemeron = m.ephemeron
        /\ p.next = m.next /\ p.weak = m.weak /\ p.grayagain = m.grayagain
        /\ p.saved = m.saved
        /\ p.origweak = m.origweak /\ p.origall = m.origall /\ p.state = m.state
        /\ p.stage = m.stage
    BY <1>3, <1>5, <1>9 DEF SameGrays
  <2>3. Grays(kind, m) /\ Lists(m, {})
    BY <1>10 DEF Core
  <2>4. Grays(kind, p)
    BY ONLY <1>9, <1>10, <2>1, <2>2, <2>3 DEF Grays
  <2>5. Lists(p, {})
    BY ONLY <1>9, <2>1, <2>2, <2>3 DEF Lists
  <2> QED BY <2>4, <2>5
<1>19. Phase(p) /\ RootsMarked(p)
  <2>1. \A name : ListOf(p, name) = ListOf(m, name)
    BY <1>5 DEF ListOf, SameLists
  <2> QED BY <1>5, <1>9, <1>10, <2>1 DEF Phase, RootsMarked, SamePlace, SameLists
<1>20. Core(kind, r, op, mode, p, {})
  BY <1>12, <1>13, <1>14, <1>15, <1>16, <1>17, <1>18 DEF Core
<1>21. Inv(kind, r, op, mode, p)
  BY <1>9, <1>19, <1>20, Idle
<1> QED BY <1>1, <1>21 DEF IInv, p, r, op

\* An object leaves allgc; a sweepgc behind it goes on where it was.
Unlinked(h, o) ==
  LET i == PlaceOf(h.allgc, o)
      passed == h.sweepgc.list = "allgc" /\ i <= h.sweepgc.skip
  IN  [h EXCEPT !.allgc = RemoveAt(@, i), !.sweepgc.skip = IF passed THEN @ - 1 ELSE @]

\* What Unlinked changes.
LEMMA UnlinkedIs ==
  ASSUME NEW h \in GState, Phase(h), NEW o \in Object, o \in Range(h.allgc)
  PROVE  /\ Untouched(h, Unlinked(h, o)) /\ Unlinked(h, o).mark = h.mark
         /\ Unlinked(h, o).finobj = h.finobj /\ Unlinked(h, o).tobefnz = h.tobefnz
         /\ Range(Unlinked(h, o).allgc) \subseteq Range(h.allgc)
         /\ Range(h.allgc) \subseteq Range(Unlinked(h, o).allgc) \cup {o}
         /\ Phase(Unlinked(h, o))
         /\ Whites(h) /\ ~Marking(h) /\ h.mark[o] = "white" => Whites(Unlinked(h, o))
<1> DEFINE p == Unlinked(h, o)
           s == h.allgc
           i == PlaceOf(s, o)
           t == Without(s, i - 1, i + 1)
           skip == h.sweepgc.skip
           passed == h.sweepgc.list = "allgc" /\ i <= skip
           to == IF passed THEN skip - 1 ELSE skip
<1>1. PICK N \in Nat : N = Len(s) /\ Range(s) = {s[j] : j \in 1 .. N} /\ DOMAIN s = 1 .. N
  BY LenProperties, RangeEquality DEF GState
<1>2. i \in 1 .. N /\ s[i] = o
  <2>1. \E j \in DOMAIN s : s[j] = o
    BY <1>1
  <2> QED BY <1>1, <2>1 DEF PlaceOf
<1>3. /\ s \in Seq(Object \cup {Registry}) /\ skip \in Nat /\ h.sweepgc \in Places
      /\ skip <= Len(ListOf(h, h.sweepgc.list))
      /\ h.sweepgc.list = "allgc" => skip <= N
  BY <1>1 DEF GState, Places, Phase, ListOf
<1>4. p = [h EXCEPT !.allgc = t, !.sweepgc.skip = to]
  BY DEF Unlinked, RemoveAt, Without
<1> HIDE DEF p, i, t
<1>5. PICK I \in Nat : I = i /\ 1 <= I /\ I <= N /\ I - 1 \in Nat /\ I + 1 \in Nat
                      /\ I - 1 < I + 1 /\ I + 1 <= N + 1
  BY <1>2
<1>6. /\ t \in Seq(Object \cup {Registry}) /\ Len(t) = N - 1
      /\ \A j \in 1 .. I - 1 : t[j] = s[j]
      /\ \A j \in I .. N - 1 : t[j] = s[j + 1]
      /\ Range(t) = {s[j] : j \in 1 .. I - 1} \cup {s[j] : j \in I + 1 .. N}
  <2>1. PICK a \in Nat, b \in Nat : a = I - 1 /\ b = I + 1
    BY <1>5
  <2>2. a < b /\ b <= Len(s) + 1
    BY <1>1, <1>5, <2>1
  <2>3. s \in Seq(Object \cup {Registry})
    BY <1>3
  <2> HIDE DEF s
  <2> DEFINE w == Without(s, a, b)
  <2>4. /\ w \in Seq(Object \cup {Registry}) /\ Len(w) = a + (Len(s) - b + 1)
        /\ \A j \in 1 .. a : w[j] = s[j]
        /\ \A j \in a + 1 .. Len(w) : w[j] = s[j - a + b - 1]
        /\ Range(w) = {s[j] : j \in 1 .. a} \cup {s[j] : j \in b .. Len(s)}
    BY <2>2, <2>3, Cut
  <2>5. t = w
    BY <1>5, <2>1 DEF t
  <2> HIDE DEF w
  <2>6. Len(w) = N - 1
    BY <1>1, <1>5, <2>1, <2>4
  <2>7. \A j \in I .. N - 1 : j \in a + 1 .. N - 1 /\ j - a + b - 1 = j + 1
    BY <1>5, <2>1
  <2> QED BY <1>1, <2>1, <2>4, <2>5, <2>6, <2>7
<1>7. to \in Nat /\ (passed => to = skip - 1 /\ I <= skip) /\ (~passed => to = skip)
  BY <1>3, <1>5
<1> HIDE DEF to
<1>8. /\ p \in GState /\ Untouched(h, p) /\ p.mark = h.mark /\ p.finobj = h.finobj
      /\ p.tobefnz = h.tobefnz /\ p.allgc = t
      /\ p.sweepgc.list = h.sweepgc.list /\ p.sweepgc.skip = to
      /\ p.sweepgc \in Places
  <2> DEFINE q == [h.sweepgc EXCEPT !.skip = to]
  <2>1. q \in Places /\ q.list = h.sweepgc.list /\ q.skip = to
    BY <1>3, <1>7 DEF Places
  <2>2. p = [h EXCEPT !.allgc = t, !.sweepgc = q]
    BY <1>4
  <2> HIDE DEF q
  <2> QED BY <1>6, <2>1, <2>2 DEF GState, Untouched, SameThreads, SameGrays
<1>9. Range(t) \subseteq Range(s) /\ Range(s) \subseteq Range(t) \cup {o}
  <2>1. \A j \in 1 .. N : j \in 1 .. I - 1 \/ j \in I + 1 .. N \/ j = I
    BY <1>5
  <2>2. \A j \in 1 .. I - 1 : j \in 1 .. N
    BY <1>5
  <2>3. \A j \in I + 1 .. N : j \in 1 .. N
    BY <1>5
  <2> QED BY <1>1, <1>2, <1>5, <1>6, <2>1, <2>2, <2>3
<1>10. h.sweepgc.list # "allgc" => to = skip /\ p.sweepgc = h.sweepgc
  BY <1>3, <1>7, <1>8 DEF Places
<1>11. h.sweepgc.list = "allgc" => to <= N - 1
  BY <1>3, <1>5, <1>7
<1>12. Phase(p)
  <2>1. p.state = h.state /\ p.stage = h.stage
    BY <1>8 DEF Untouched
  <2>2. CASE h.sweepgc.list = "allgc"
    <3>1. ListOf(p, p.sweepgc.list) = t
      BY <1>8, <2>2 DEF ListOf
    <3>2. p.sweepgc.skip <= Len(ListOf(p, p.sweepgc.list))
      BY <1>6, <1>8, <1>11, <2>2, <3>1
    <3>3. h.state = "swpallgc" /\ h.sweepgc.list # "none"
      BY <2>2 DEF Phase, NoSweep
    <3> QED BY <1>8, <2>1, <2>2, <3>2, <3>3 DEF Phase
  <2>3. CASE h.sweepgc.list # "allgc"
    <3>1. ListOf(p, p.sweepgc.list) = ListOf(h, h.sweepgc.list)
      BY <1>8, <1>10, <2>3 DEF ListOf
    <3>2. p.sweepgc = h.sweepgc
      BY <1>10, <2>3
    <3> QED BY <2>1, <3>1, <3>2 DEF Phase
  <2> QED BY <2>2, <2>3
<1>13. ASSUME Whites(h), ~Marking(h), h.mark[o] = "white" PROVE Whites(p)
  <2>1. ~Marking(p)
    BY <1>8, <1>13 DEF Untouched, Marking
  <2>2. Objs(p) \subseteq Objs(h)
    BY <1>8, <1>9 DEF Objs, Listed
  <2>3. ASSUME NEW name \in Names, NEW x \in Behind(h, name)
        PROVE  x \in Behind(p, name) \/ x = o
    <3>1. CASE name # "allgc" \/ h.sweepgc.list # "allgc"
      <4>1. CASE name # "allgc"
        <5>1. ListOf(p, name) = ListOf(h, name)
          BY <1>8, <4>1 DEF ListOf
        <5>2. CASE h.sweepgc.list = name
          <6>1. p.sweepgc = h.sweepgc
            BY <1>10, <4>1, <5>2
          <6> QED BY <2>3, <5>1, <6>1 DEF Behind
        <5>3. CASE h.sweepgc.list # name
          BY <2>3, <5>3 DEF Behind
        <5> QED BY <5>2, <5>3
      <4>2. CASE name = "allgc" /\ h.sweepgc.list # "allgc"
        BY <2>3, <4>2 DEF Behind
      <4> QED BY <3>1, <4>1, <4>2
    <3>2. CASE name = "allgc" /\ h.sweepgc.list = "allgc"
      <4>1. ListOf(h, name) = s /\ ListOf(p, name) = t
        BY <1>8, <3>2 DEF ListOf
      <4>2. PICK j \in skip + 1 .. N : x = s[j]
        BY <1>1, <2>3, <3>2, <4>1 DEF Behind
      <4>3. Behind(p, name) = {t[n] : n \in to + 1 .. N - 1}
        BY <1>6, <1>8, <3>2, <4>1 DEF Behind
      <4>4. j \in Nat /\ skip + 1 <= j /\ j <= N
        BY <1>3, <4>2
      <4>5. CASE j < I
        <5>1. ~passed /\ to = skip
          BY <1>3, <1>5, <1>7, <4>4, <4>5
        <5>2. j \in 1 .. I - 1 /\ j \in to + 1 .. N - 1
          BY <1>3, <1>5, <4>4, <4>5, <5>1
        <5>3. t[j] = s[j]
          BY <1>6, <5>2
        <5> QED BY <4>2, <4>3, <5>2, <5>3
      <4>6. CASE j = I
        BY <1>2, <1>5, <4>2, <4>6
      <4>7. CASE j > I
        <5>1. j - 1 \in I .. N - 1 /\ (j - 1) + 1 = j
          BY <1>5, <4>4, <4>7
        <5>2. t[j - 1] = s[j]
          BY <1>6, <5>1
        <5>3. j - 1 \in to + 1 .. N - 1
          <6>1. CASE passed
            BY <1>3, <1>7, <4>4, <6>1
          <6>2. CASE ~passed
            <7>1. skip < I
              BY <1>3, <1>5, <3>2, <6>2
            <7> QED BY <1>3, <1>5, <1>7, <4>4, <4>7, <6>2, <7>1
          <6> QED BY <6>1, <6>2
        <5> QED BY <4>2, <4>3, <5>2, <5>3
      <4> QED BY <1>5, <4>4, <4>5, <4>6, <4>7
    <3> QED BY <3>1, <3>2
  <2>4. \A x \in Unswept(h) : x \in Unswept(p) \/ x = o
    <3>1. p.state = h.state /\ p.finobj = h.finobj /\ p.tobefnz = h.tobefnz
      BY <1>8 DEF Untouched
    <3>2. "allgc" \in Names /\ "finobj" \in Names /\ "tobefnz" \in Names
      BY DEF Names
    <3> QED BY <2>3, <3>1, <3>2 DEF Unswept
  <2>5. \A x \in Objs(p) \ Unswept(p) : p.mark[x] = "white"
    BY <1>8, <1>13, <2>2, <2>4 DEF Whites
  <2>6. ASSUME NEW n \in 1 .. p.sweepgc.skip
        PROVE  p.mark[ListOf(p, p.sweepgc.list)[n]] = "white"
    <3>1. \A j \in 1 .. skip : h.mark[ListOf(h, h.sweepgc.list)[j]] = "white"
      BY <1>13 DEF Whites
    <3>2. n \in 1 .. to
      BY <1>8
    <3>3. CASE h.sweepgc.list # "allgc"
      <4>1. ListOf(p, p.sweepgc.list) = ListOf(h, h.sweepgc.list) /\ to = skip
        BY <1>8, <1>10, <3>3 DEF ListOf
      <4> QED BY <1>8, <3>1, <3>2, <4>1
    <3>4. CASE h.sweepgc.list = "allgc"
      <4>1. ListOf(h, h.sweepgc.list) = s /\ ListOf(p, p.sweepgc.list) = t
        BY <1>8, <3>4 DEF ListOf
      <4>2. n \in Nat /\ 1 <= n /\ n <= to /\ to <= N - 1
        BY <1>7, <1>11, <3>2, <3>4
      <4>3. CASE n < I
        <5>1. n \in 1 .. I - 1 /\ n \in 1 .. skip
          BY <1>3, <1>5, <1>7, <4>2, <4>3
        <5>2. t[n] = s[n]
          BY <1>6, <5>1
        <5> QED BY <1>8, <3>1, <4>1, <5>1, <5>2
      <4>4. CASE n >= I
        <5>1. n \in I .. N - 1
          BY <1>5, <1>7, <4>2, <4>4
        <5>2. t[n] = s[n + 1]
          BY <1>6, <5>1
        <5>3. passed
          BY <1>3, <1>5, <1>7, <3>4, <4>2, <4>4
        <5>4. n + 1 \in 1 .. skip
          BY <1>3, <1>7, <4>2, <5>3
        <5> QED BY <1>8, <3>1, <4>1, <5>2, <5>4
      <4> QED BY <1>5, <4>2, <4>3, <4>4
    <3> QED BY <3>3, <3>4
  <2> QED BY <2>1, <2>5, <2>6 DEF Whites
<1> QED BY <1>8, <1>9, <1>12, <1>13 DEF p

\* What is unlinked goes to the head of finobj.
Refinalized(h, o) == Prepend(Unlinked(h, o), "finobj", o)

\* What Refinalized changes.
LEMMA RefinalizedIs ==
  ASSUME NEW h \in GState, Phase(h), NEW o \in Object, o \in Range(h.allgc)
  PROVE  /\ Untouched(h, Refinalized(h, o)) /\ Refinalized(h, o).mark = h.mark
         /\ Range(Refinalized(h, o).finobj) = {o} \cup Range(h.finobj)
         /\ Len(Refinalized(h, o).finobj) = 1 + Len(h.finobj)
         /\ Refinalized(h, o).tobefnz = h.tobefnz
         /\ Listed(Refinalized(h, o)) = Listed(h)
         /\ Range(h.allgc) \subseteq Range(Refinalized(h, o).allgc) \cup {o}
         /\ Phase(Refinalized(h, o))
         /\ Whites(h) /\ ~Marking(h) /\ h.mark[o] = "white" => Whites(Refinalized(h, o))
<1> DEFINE out == Unlinked(h, o)
           p == Refinalized(h, o)
<1>1. /\ Untouched(h, out) /\ out.mark = h.mark
      /\ out.finobj = h.finobj /\ out.tobefnz = h.tobefnz
      /\ Range(out.allgc) \subseteq Range(h.allgc)
      /\ Range(h.allgc) \subseteq Range(out.allgc) \cup {o}
      /\ Phase(out)
      /\ Whites(h) /\ ~Marking(h) /\ h.mark[o] = "white" => Whites(out)
  BY UnlinkedIs
<1>2. p = Prepend(out, "finobj", o) /\ out \in GState
  BY <1>1 DEF Refinalized, Untouched
<1> HIDE DEF out, p
<1>3. /\ Untouched(out, p) /\ p.mark = out.mark
      /\ \A other \in Names :
           ListOf(p, other) = IF other = "finobj" THEN <<o>> \o ListOf(out, "finobj")
                              ELSE ListOf(out, other)
      /\ Range(ListOf(p, "finobj")) = {o} \cup Range(ListOf(out, "finobj"))
      /\ Len(ListOf(p, "finobj")) = 1 + Len(ListOf(out, "finobj"))
      /\ Listed(p) = Listed(out) \cup {o}
      /\ Phase(p)
      /\ Whites(out) /\ ~Marking(out) /\ out.mark[o] = "white" => Whites(p)
  BY <1>1, <1>2, Prepended
<1>4. p.finobj = ListOf(p, "finobj") /\ out.finobj = ListOf(out, "finobj")
      /\ p.allgc = out.allgc /\ p.tobefnz = out.tobefnz
  BY <1>3 DEF ListOf, Names
<1>5. Untouched(h, p)
  BY <1>1, <1>3 DEF Untouched, SameThreads, SameGrays
<1>6. Listed(p) = Listed(h)
  BY <1>1, <1>3 DEF Listed
<1>7. Marking(out) <=> Marking(h)
  BY <1>1 DEF Untouched, Marking
<1> QED BY <1>1, <1>3, <1>4, <1>5, <1>6, <1>7 DEF p

\* An object gets a finalizer, between two steps of a sweep or elsewhere.
LEMMA Refinalizing ==
  ASSUME IInv, NEW o \in Object, luaC_checkfinalizer(o)
  PROVE  \E x, y :
           /\ Heap(y, refs) /\ o \in Live(g) \cap Stack
           /\ doomed' \subseteq doomed \cap Listed(y)
           /\ doomed \cap Listed(y) \subseteq doomed' \cup {o}
           /\ \/ /\ ~Marking(g) /\ Calm(kind, refs, open, mode, x) /\ Listed(x) = Listed(g)
                 /\ Swept(x, y) /\ \A z \in All : z = o \/ x.mark[z] = g.mark[z]
              \/ /\ Inv(kind, refs, open, mode, y) /\ Listed(y) = Listed(g)
                 /\ Untouched(g, y) /\ y.mark = g.mark
<1> DEFINE b == IF issweepphase(g) THEN makewhite(g, o) ELSE g
           behind == /\ issweepphase(g) /\ g.sweepgc.list = "allgc" /\ g.sweepgc.skip > 0
                     /\ g.allgc[g.sweepgc.skip] = o
           h == IF behind THEN sweeptolive(b, "allgc", g.sweepgc.skip) ELSE b
           p == Refinalized(h, o)
<1>1. /\ g.stage = "none" /\ o \in Stack /\ o \in Range(g.allgc)
      /\ Len(g.finobj) + Len(g.tobefnz) < MaxFinal
      /\ Heap(p, refs) /\ doomed' = doomed \cap Listed(Unlinked(h, o))
  BY DEF luaC_checkfinalizer, Running, Between, Holds, Refinalized, Unlinked
<1>2. /\ g \in GState /\ Core(kind, refs, open, mode, g, {}) /\ Phase(g)
      /\ Shape(kind, refs, open, g) /\ RootsLive(g) /\ Closed(refs, open, g)
      /\ Objs(g) \subseteq All
  <2>1. Core(kind, refs, open, mode, g, {}) /\ Phase(g)
    BY DEF IInv, Inv, Rest
  <2> QED BY <2>1, TypeFacts DEF Core, Types
<1>3. o \in Live(g) /\ o \in Objs(g) /\ o \in All /\ o # Registry /\ o # Main
  <2>1. o \in Live(g)
    BY <1>1, AtHand
  <2> QED BY <1>2, <2>1, Constants DEF Live
<1>4. Len(g.finobj) + 1 + Len(g.tobefnz) <= MaxFinal
  <2>1. PICK x \in Nat, y \in Nat : x = Len(g.finobj) /\ y = Len(g.tobefnz)
    BY <1>2, LenProperties DEF GState
  <2>2. MaxFinal \in Nat
    BY GcAssumption
  <2>3. x + y < MaxFinal
    BY <1>1, <2>1
  <2>4. x + 1 + y <= MaxFinal
    <3>1. x \in Nat /\ y \in Nat
      OBVIOUS
    <3> QED BY ONLY <2>2, <2>3, <3>1
  <2> QED BY <2>1, <2>4
<1>7. ASSUME h \in GState, Phase(h), o \in Range(h.allgc) 
      PROVE  /\ doomed' \subseteq doomed \cap Listed(p)
             /\ doomed \cap Listed(p) \subseteq doomed' \cup {o}
  <2>1. /\ Range(Unlinked(h, o).allgc) \subseteq Range(h.allgc)
        /\ Range(h.allgc) \subseteq Range(Unlinked(h, o).allgc) \cup {o}
        /\ Unlinked(h, o).finobj = h.finobj /\ Unlinked(h, o).tobefnz = h.tobefnz
    BY <1>7, UnlinkedIs
  <2>2. Listed(p) = Listed(h)
    BY <1>7, RefinalizedIs
  <2>3. doomed' = doomed \cap Listed(Unlinked(h, o))
    BY <1>1
  <2> HIDE DEF h, p
  <2> QED BY <2>1, <2>2, <2>3 DEF Listed
<1> HIDE DEF h, p
<1>5. CASE issweepphase(g)
  <2>1. ~Marking(g) /\ Calm(kind, refs, open, mode, g)
    <3>1. ~Marking(g)
      BY <1>5 DEF issweepphase, Marking
    <3> QED BY <3>1, CalmInv DEF IInv
  <2>2. b = makewhite(g, o)
    BY <1>5
  <2>3. /\ Calm(kind, refs, open, mode, b) /\ Objs(b) = Objs(g) /\ Live(b) = Live(g)
    <3>1. /\ Val(refs, o) \cup Key(refs, o) \subseteq Live(g)
          /\ o \in Object /\ open[o] # Null => Val(refs, open[o]) \subseteq Live(g)
          /\ o \in g.openupval => o \in g.twups
      BY <1>2, <1>3, <2>1 DEF Calm, Closed
    <3>2. /\ Calm(kind, refs, open, mode, makewhite(g, o))
          /\ Live(makewhite(g, o)) = Live(g) \cup {o} /\ Objs(makewhite(g, o)) = Objs(g)
      BY <1>3, <2>1, <3>1, Whiten
    <3> QED BY <1>3, <2>2, <3>2
  <2>4. /\ b \in GState /\ SameLists(g, b) /\ SamePlace(g, b)
        /\ \A x \in All : b.mark[x] = IF x = o THEN "white" ELSE g.mark[x]
    BY <1>2, <1>3, <2>2, Whitened
  <2> HIDE DEF b
  <2>5. /\ b.mark[o] = "white" /\ o \in Range(b.allgc) /\ Listed(b) = Listed(g)
        /\ ~Marking(b) /\ RootsLive(b) /\ o \in Live(b) /\ Phase(b) /\ Whites(b)
    BY <1>1, <1>3, <2>3, <2>4 DEF SameLists, Listed, Calm
  <2>6. /\ Swept(b, h) /\ h.mark[o] = "white" /\ o \in Range(h.allgc)
        /\ Len(h.finobj) <= Len(b.finobj) /\ Len(h.tobefnz) <= Len(b.tobefnz)
    <3>1. CASE behind
      <4> DEFINE skip == g.sweepgc.skip
      <4>1. /\ skip \in Nat /\ skip > 0 /\ g.sweepgc.list = "allgc" /\ g.allgc[skip] = o
            /\ g.sweepgc \in Places /\ g.state = "swpallgc" /\ b.sweepgc = g.sweepgc
            /\ b.state = "swpallgc" /\ b.allgc = g.allgc
        <5>1. g.sweepgc \in Places /\ g.sweepgc.list = "allgc"
          BY <1>2, <3>1 DEF GState
        <5>2. g.state = "swpallgc"
          BY <1>2, <5>1 DEF Phase, NoSweep
        <5> QED BY <2>4, <3>1, <5>1, <5>2 DEF Places, SamePlace, SameLists
      <4>2. g.sweepgc = [list |-> "allgc", skip |-> skip]
        BY <4>1 DEF Places
      <4> HIDE DEF skip
      <4>3. SameThreads(b, b) /\ SameLists(b, b) /\ h = sweeptolive(b, "allgc", skip)
        BY <3>1 DEF SameThreads, SameLists, h, skip
      <4>4. /\ Swept(b, h) /\ h.finobj = b.finobj /\ h.tobefnz = b.tobefnz
            /\ skip <= Len(h.allgc) /\ \A j \in 1 .. skip : h.allgc[j] = b.allgc[j]
        <5>1. b.sweepgc = [list |-> "allgc", skip |-> skip]
          BY <4>1, <4>2
        <5> HIDE DEF behind
        <5>2. /\ skip \in Nat /\ Calm(kind, refs, open, mode, b) /\ b.state = "swpallgc"
              /\ b \in GState /\ SameLists(b, b) /\ SameThreads(b, b)
              /\ h = sweeptolive(b, "allgc", skip)
          BY <2>3, <2>4, <4>1, <4>3
        <5>3. Swept(b, h) /\ SweptFrom(b, h, skip)
          BY ONLY <5>1, <5>2, SweepToLive
        <5> QED BY ONLY <5>3 DEF SweptFrom
      <4>5. h.mark[o] = "white"
        BY <1>3, <2>5, <4>4 DEF Swept
      <4>6. o \in Range(h.allgc)
        <5>1. h.allgc \in Seq(Object \cup {Registry})
          BY <4>4 DEF Swept, GState
        <5>2. PICK N \in Nat : N = Len(h.allgc) /\ Range(h.allgc) = {h.allgc[j] : j \in 1 .. N}
          BY <5>1, LenProperties, RangeEquality
        <5>3. skip \in 1 .. N /\ skip \in 1 .. skip
          BY <4>1, <4>4, <5>2
        <5>4. h.allgc[skip] = o
          BY <4>1, <4>4, <5>3
        <5> QED BY <5>2, <5>3, <5>4
      <4>7. Len(b.finobj) \in Nat /\ Len(b.tobefnz) \in Nat
        BY <2>4, LenProperties DEF GState
      <4> QED BY <4>4, <4>5, <4>6, <4>7
    <3>2. CASE ~behind
      <4>1. h = b
        BY <3>2 DEF h
      <4>2. \A x \in All : b.mark[x] \in {"white", "other", "gray", "black"}
        BY <2>4 DEF GState
      <4>3. Live(b) \subseteq Objs(b)
        BY DEF Live
      <4>4. Swept(b, b)
        BY <2>3, <2>4, <2>5, <4>2, <4>3 DEF Swept, SameThreads, Calm, Shape, RootsLive
      <4>5. Len(b.finobj) \in Nat /\ Len(b.tobefnz) \in Nat
        BY <2>4, LenProperties DEF GState
      <4> QED BY <2>5, <4>1, <4>4, <4>5
    <3> QED BY <3>1, <3>2
  <2>7. /\ Untouched(h, p) /\ p.mark = h.mark /\ Listed(p) = Listed(h)
        /\ Range(p.finobj) = {o} \cup Range(h.finobj) /\ Len(p.finobj) = 1 + Len(h.finobj)
        /\ p.tobefnz = h.tobefnz /\ Range(h.allgc) \subseteq Range(p.allgc) \cup {o}
        /\ Phase(p) /\ Whites(p)
    <3>1. h \in GState /\ Phase(h) /\ Whites(h) /\ ~Marking(h)
      BY <2>6 DEF Swept
    <3> QED BY <2>6, <3>1, RefinalizedIs DEF p
  <2>8. p \in GState /\ SameThreads(b, p) /\ ~Marking(p)
    BY <2>6, <2>7 DEF Untouched, Swept, SameThreads, Marking
  <2>9. Listed(p) \subseteq Listed(b) /\ Live(b) \subseteq Objs(p)
    BY <2>6, <2>7 DEF Swept, Objs
  <2>10. Range(p.finobj) \cup Range(p.tobefnz) \subseteq Live(b)
    BY <2>5, <2>6, <2>7 DEF Swept
  <2>11. Registry \in Range(p.allgc)
    BY <1>3, <2>6, <2>7 DEF Swept
  <2>12. Len(p.finobj) + Len(p.tobefnz) <= MaxFinal
    <3>1. PICK u \in Nat, v \in Nat, x \in Nat, y \in Nat, z \in Nat :
            /\ u = Len(h.finobj) /\ v = Len(h.tobefnz) /\ x = Len(g.finobj)
            /\ y = Len(g.tobefnz)
            /\ z = Len(p.finobj)
      BY <1>2, <2>6, <2>8, LenProperties DEF GState, Swept
    <3>2. u <= x /\ v <= y /\ z = 1 + u /\ x + 1 + y <= MaxFinal /\ MaxFinal \in Nat
      BY <1>4, <2>4, <2>6, <2>7, <3>1, GcAssumption DEF SameLists
    <3>3. z + v <= MaxFinal
      <4>1. u \in Nat /\ v \in Nat /\ x \in Nat /\ y \in Nat /\ z \in Nat
        OBVIOUS
      <4> QED BY ONLY <3>2, <4>1
    <3> QED BY <2>7, <3>1, <3>3
  <2>13. Swept(b, p)
    BY <2>6, <2>7, <2>8, <2>9, <2>10, <2>11, <2>12 DEF Swept
  <2>14. doomed' \subseteq doomed \cap Listed(p) /\ doomed \cap Listed(p) \subseteq doomed' \cup {o}
    BY <1>7, <2>6 DEF Swept
  <2> QED BY <1>1, <1>3, <2>1, <2>3, <2>4, <2>5, <2>13, <2>14
<1>6. CASE ~issweepphase(g)
  <2>1. b = g /\ h = g
    BY <1>6 DEF h
  <2> HIDE DEF b
  <2>2. ~Marking(g) => g.mark[o] = "white"
    <3>1. ASSUME ~Marking(g) PROVE g.mark[o] = "white"
      <4>1. g.state \in {"pause", "callfin"}
        BY <1>2, <1>6, <3>1 DEF issweepphase, Marking, GState, States
      <4>2. Unswept(g) = {}
        BY <4>1 DEF Unswept
      <4> QED BY <1>2, <1>3, <3>1, <4>2 DEF Core, Whites
    <3> QED BY <3>1
  <2>3. /\ Untouched(g, p) /\ p.mark = g.mark /\ Listed(p) = Listed(g)
        /\ Range(p.finobj) = {o} \cup Range(g.finobj) /\ Len(p.finobj) = 1 + Len(g.finobj)
        /\ p.tobefnz = g.tobefnz /\ Range(g.allgc) \subseteq Range(p.allgc) \cup {o}
        /\ Phase(p) /\ (~Marking(g) => Whites(p))
    BY <1>1, <1>2, <2>1, <2>2, RefinalizedIs DEF Core, p
  <2>4. Objs(p) = Objs(g)
    BY <2>3 DEF Objs
  <2>5. \A x \in All \ Objs(g) : IsWhite(p, x)
    BY <1>2, <2>3 DEF Shape, NW, IsWhite
  <2>6. Registry \in Range(p.allgc)
    BY <1>2, <1>3, <2>3 DEF Shape
  <2>7. Len(p.finobj) + Len(p.tobefnz) <= MaxFinal
    <3>1. PICK x \in Nat, y \in Nat : x = Len(g.finobj) /\ y = Len(g.tobefnz)
      BY <1>2, LenProperties DEF GState
    <3>2. x + 1 + y <= MaxFinal /\ MaxFinal \in Nat
      BY <1>4, <3>1, GcAssumption
    <3>3. 1 + x + y <= MaxFinal
      <4>1. x \in Nat /\ y \in Nat
        OBVIOUS
      <4> QED BY ONLY <3>2, <4>1
    <3> QED BY <2>3, <3>1, <3>3
  <2>8. Range(p.finobj) \subseteq Live(g)
    BY <1>2, <1>3, <2>3 DEF RootsLive
  <2>9. Inv(kind, refs, open, mode, p)
    BY <1>1, <2>3, <2>4, <2>5, <2>6, <2>7, <2>8, Relist DEF IInv
  <2>10. doomed' \subseteq doomed \cap Listed(p) /\ doomed \cap Listed(p) \subseteq doomed' \cup {o}
    BY <1>1, <1>2, <1>7, <2>1
  <2> QED BY <1>1, <1>3, <2>3, <2>9, <2>10
<1> QED BY <1>5, <1>6

\* Setting a finalizer keeps the invariant.
LEMMA CheckfinalizerStep ==
  ASSUME IInv, NEW o \in Object, luaC_checkfinalizer(o)
  PROVE  IInv'
BY Refinalizing, RefsType, Freed, QuietStep

-----------------------------------------------------------------------------
(* The whole. *)

\* A heap that a program has made, before the first cycle, is in order.
LEMMA Begins ==
  ASSUME GcInit
  PROVE  IInv
<1> DEFINE opened == {open[c] : c \in Object} \ {Null}
<1>1. PICK h \in Heaps :
        /\ kind = h.kind /\ refs = h.refs /\ open = h.open /\ mode = h.mode
        /\ g = [state |-> "pause", stage |-> "none",
                mark |-> [o \in All |-> "white"],
                allgc |-> h.allgc, finobj |-> h.finobj, tobefnz |-> <<>>,
                sweepgc |-> NoSweep,
                twups |-> opened, openupval |-> opened, touched |-> opened,
                gray |-> {}, grayagain |-> {}, weak |-> {}, allweak |-> {},
                ephemeron |-> {}, next |-> {}, changed |-> FALSE, saved |-> {},
                origweak |-> {}, origall |-> {}]
  BY DEF GcInit
<1> DEFINE allocated == Range(g.allgc) \cup Range(g.finobj) \cup {Main}
<1>2. /\ g.state = "pause" /\ g.stage = "none" /\ g.mark = [o \in All |-> "white"]
      /\ g.allgc = h.allgc /\ g.finobj = h.finobj /\ g.tobefnz = <<>>
      /\ g.sweepgc = NoSweep
      /\ g.twups = opened /\ g.openupval = opened /\ g.touched = opened
  BY <1>1
<1>3. WellFormed(h)
  BY GcAssumption
<1>4. /\ kind \in [Object -> Kinds]
      /\ refs \in [All -> SUBSET ((Object \cup {Null}) \X Object)]
      /\ open \in [Object -> Object \cup {Null}] /\ mode \in [All -> Modes]
      /\ g.allgc \in Seq(Object \cup {Registry}) /\ Registry \in Range(g.allgc)
      /\ g.finobj \in Seq(Object) /\ Len(g.finobj) <= MaxFinal
      /\ \A o \in All : \A e \in refs[o] :
           /\ o \in allocated /\ {e[1], e[2]} \ {Null} \subseteq allocated
           /\ o \in Object => kind[o] # "string" /\ (kind[o] = "table" \/ e[1] = Null)
           /\ o = Main => e[1] = Null
      /\ \A c \in Object : open[c] # Null =>
           /\ kind[c] = "closure" /\ kind[open[c]] = "coroutine"
           /\ {c, open[c]} \subseteq allocated /\ refs[c] = {}
  BY <1>1, <1>2, <1>3 DEF WellFormed
<1>5. opened \subseteq Object /\ opened \subseteq All
  BY <1>4, Constants
<1>6. <<>> \in Seq(Object) /\ Range(<<>>) = {} /\ Len(<<>>) = 0
  BY EmptySeq DEF Range
<1>7. g \in GState
  <2>1. NoSweep \in Places
    BY DEF NoSweep, Places
  <2>2. [o \in All |-> "white"] \in [All -> {"white", "other", "gray", "black"}]
    OBVIOUS
  <2>3. h.allgc \in Seq(Object \cup {Registry}) /\ h.finobj \in Seq(Object)
    BY <1>2, <1>4
  <2> HIDE DEF opened, allocated
  <2> QED BY <1>1, <1>5, <1>6, <2>1, <2>2, <2>3 DEF GState, States, Stages
<1> HIDE DEF opened
<1>8. Objs(g) = allocated /\ allocated \subseteq All
  <2>1. Objs(g) = allocated
    BY <1>2, <1>6 DEF Objs, Listed
  <2> QED BY <1>7, <2>1, ListedAll, Constants DEF Objs
<1> HIDE DEF allocated
<1>9. Live(g) = Objs(g) /\ NW(g) = {}
  BY <1>2, <1>8 DEF Live, isdead, NW, IsWhite
<1>10. Types(kind, refs, open, mode, g)
  BY <1>4, <1>7 DEF Types
<1>11. \A o \in All : \A e \in refs[o] : e[1] \in Object \cup {Null} /\ e[2] \in Object
  BY <1>4
<1>12. \A c \in Object : open[c] # Null => open[c] \in opened /\ open[c] \in All
  BY <1>4, <1>5 DEF opened
<1>13. Shape(kind, refs, open, g)
  <2>1. ASSUME NEW o \in All
        PROVE  /\ KindIn(kind, o) # "table" => Key(refs, o) = {}
               /\ KindIn(kind, o) = "string" => refs[o] = {}
               /\ o \notin Objs(g) => refs[o] = {} /\ o \notin NW(g)
    <3>1. o \in Object => KindIn(kind, o) = kind[o]
      BY KindInObject
    <3>2. o = Main => KindIn(kind, o) = "thread"
      BY DEF KindIn
    <3>3. o = Registry => KindIn(kind, o) = "table"
      BY Constants DEF KindIn
    <3>4. o \in Object \/ o = Main \/ o = Registry
      BY DEF All
    <3> QED BY <1>4, <1>8, <1>9, <3>1, <3>2, <3>3, <3>4 DEF Key
  <2>2. ASSUME NEW c \in Object, open[c] # Null
        PROVE  /\ kind[c] = "closure" /\ kind[open[c]] = "coroutine" /\ refs[c] = {}
               /\ c \in Objs(g) /\ open[c] \in g.openupval
    BY <1>2, <1>4, <1>8, <1>12, <2>2
  <2>3. g.openupval \subseteq {c \in Objs(g) : KindIn(kind, c) = "coroutine"}
    <3>1. \A k \in opened : k \in Object /\ kind[k] = "coroutine" /\ k \in Objs(g)
      BY <1>4, <1>5, <1>8 DEF opened
    <3> QED BY <1>2, <3>1, KindInObject
  <2>4. Len(g.finobj) + Len(g.tobefnz) <= MaxFinal
    <3>1. Len(g.finobj) \in Nat /\ MaxFinal \in Nat
      BY <1>4, LenProperties, GcAssumption
    <3> QED BY <1>2, <1>4, <1>6, <3>1
  <2> QED BY <1>4, <2>1, <2>2, <2>3, <2>4 DEF Shape
<1>14. Closed(refs, open, g)
  <2>1. \A o \in All : Val(refs, o) \cup Key(refs, o) \subseteq Objs(g)
    <3>1. \A e : e[2] \in Object => e[2] # Null
      BY Constants
    <3> QED BY <1>4, <1>8, <1>11, <3>1 DEF Val, Key
  <2> QED BY <1>8, <1>9, <1>12, <2>1 DEF Closed
<1>15. RootsLive(g)
  <2>1. opened \subseteq Objs(g)
    BY <1>4, <1>8 DEF opened
  <2> QED BY <1>2, <1>4, <1>6, <1>9, <2>1 DEF RootsLive, Objs, Listed
<1>16. Whites(g) /\ ~Marking(g) /\ Phase(g)
  <2>1. ~Marking(g)
    BY <1>2 DEF Marking
  <2>2. Phase(g)
    <3>1. Len(ListOf(g, "none")) \in Nat
      BY <1>7, LenProperties DEF ListOf, GState
    <3> QED BY <1>2, <3>1 DEF Phase, NoSweep
  <2>3. \A o \in Objs(g) : g.mark[o] = "white"
    BY <1>2, <1>8
  <2>4. 1 .. g.sweepgc.skip = {}
    BY <1>2 DEF NoSweep
  <2> QED BY <2>1, <2>2, <2>3, <2>4 DEF Whites
<1>17. Calm(kind, refs, open, mode, g)
  BY <1>2, <1>10, <1>13, <1>14, <1>15, <1>16 DEF Calm
<1> QED BY <1>16, <1>17, CalmInv DEF IInv

\* Nothing changes.
LEMMA Stutters ==
  ASSUME IInv, UNCHANGED gcVars
  PROVE  IInv'
<1>1. kind' = kind /\ refs' = refs /\ open' = open /\ mode' = mode /\ g' = g
  BY DEF gcVars
<1> QED BY <1>1 DEF IInv

\* Every step of the collector and of the program keeps the invariant.
LEMMA Steps ==
  ASSUME MaxFinal <= SweepMax, IInv, [GcNext]_gcVars
  PROVE  IInv'
<1>1. CASE CollectorSteps
  BY <1>1, Pause, Propagate, AtomicEnter, Propagateall, AtomicRoots, AtomicAgain,
     ConvergeEnter, Converge, AtomicClear, AtomicFlip, SweepStep, Callfin
     DEF CollectorSteps
<1>2. CASE GCTM
  BY <1>2, GCTMStep
<1>3. CASE ProgramSteps
  <2>1. ASSUME NEW o \in Object, luaC_newobj(o) \/ internshrstr(o) \/ Pop(o) \/ luaF_close(o)
                                   \/ luaC_checkfinalizer(o)
        PROVE  IInv'
    BY <2>1, NewobjStep, InternshrstrStep, PopStep, FcloseStep, CheckfinalizerStep
  <2>2. ASSUME NEW o \in Object \cup {Registry}, NEW v \in Object, Load(o, v)
        PROVE  IInv'
    BY <2>2, LoadStep
  <2>3. ASSUME NEW t \in Object \cup {Registry}, NEW k \in Object \cup {Null}, NEW v \in Object,
               SetTable(t, k, v)
        PROVE  IInv'
    BY <2>3, SetTableStep
  <2>4. ASSUME NEW t \in Object \cup {Registry}, NEW e \in refs[t], Unset(t, e)
        PROVE  IInv'
    BY <2>4, UnsetStep
  <2>5. ASSUME NEW t \in Object \cup {Registry}, NEW m \in Modes, SetMode(t, m)
        PROVE  IInv'
    BY <2>5, SetModeStep
  <2>6. ASSUME NEW o \in Object, NEW v \in Object,
               lua_setuservalue(o, v) \/ SetUpvalue(o, v) \/ lua_xmove(o, v)
        PROVE  IInv'
    BY <2>6, SetuservalueStep, SetUpvalueStep, XmoveStep
  <2> QED BY <1>3, <2>1, <2>2, <2>3, <2>4, <2>5, <2>6 DEF ProgramSteps
<1>4. CASE luaC_fullgc
  BY <1>4, Fullgc
<1>5. CASE UNCHANGED gcVars
  BY <1>5, Stutters
<1> QED BY <1>1, <1>2, <1>3, <1>4, <1>5 DEF GcNext

\* What is reachable lives, since what lives refers to what lives.
LEMMA ReachableLives ==
  ASSUME IInv
  PROVE  ReachableFrom(Roots(g)) \subseteq Live(g)
<1>1. Live(g) \in SUBSET All
  BY AtHand
<1>2. Roots(g) \subseteq Live(g)
  BY DEF Roots, IInv, Inv, Core, RootsLive
<1>3. ASSUME NEW p \in Live(g) PROVE Kept(p, Live(g)) \subseteq Live(g)
  <2>1. Values(p) \cup KeysOf(p) \subseteq Live(g)
    BY AtHand
  <2>2. KindOf(p) = "closure" => Upvalue(p) \subseteq Live(g)
    <3>1. ASSUME KindOf(p) = "closure" PROVE p \in Object
      <4>1. p \in All
        BY <1>1
      <4> QED BY <3>1, <4>1 DEF KindOf, All
    <3> QED BY <3>1, AtHand
  <2> DEFINE lasting == Live(g) \cup {Null} \cup StringsIn(KeysOf(p))
             e == IF mode[p] = "strong" THEN refs[p]
                  ELSE IF mode[p] = "k" THEN {q \in refs[p] : q[1] \in lasting}
                  ELSE {}
  <2>3. {q[2] : q \in e} \subseteq Values(p)
    BY DEF Values
  <2> HIDE DEF e
  <2>4. Kept(p, Live(g)) \subseteq {q[2] : q \in e} \cup KeysOf(p)
                                      \cup (IF KindOf(p) = "closure" THEN Upvalue(p) ELSE {})
    BY DEF Kept, e
  <2> QED BY <2>1, <2>2, <2>3, <2>4
<1> QED BY <1>1, <1>2, <1>3 DEF ReachableFrom

\* So nothing that can be read next has been freed or is about to be.
LEMMA Safe ==
  ASSUME IInv
  PROVE  NoDangling
<1>1. ReachableFrom(Roots(g)) \subseteq Live(g)
  BY ReachableLives
<1>2. Allocated = Objs(g) /\ g.twups \subseteq Live(g)
  BY DEF Allocated, Objs, IInv, Inv, Core, RootsLive
<1>3. \A o \in Live(g) : o \in Allocated /\ ~isdead(g, o)
  BY <1>2 DEF Live
<1>4. ASSUME NEW o \in Live(g)
      PROVE  Values(o) \cup KeysOf(o) \cup (IF KindOf(o) = "closure" THEN Upvalue(o) ELSE {})
               \subseteq Live(g)
  <2>1. Values(o) \cup KeysOf(o) \subseteq Live(g) /\ o \in All
    BY AtHand
  <2>2. KindOf(o) = "closure" => Upvalue(o) \subseteq Live(g)
    <3>1. KindOf(o) = "closure" => o \in Object
      BY <2>1 DEF KindOf, All
    <3> QED BY <3>1, AtHand
  <2> QED BY <2>1, <2>2
<1> QED BY <1>1, <1>2, <1>3, <1>4 DEF NoDangling

\* The marks and lists of the invariant are the colours lgc.h speaks of.
LEMMA Coloured ==
  ASSUME IInv
  PROVE  TriColour
<1> SUFFICES ASSUME Between, NEW o \in Allocated
             PROVE  /\ keepinvariant(g) =>
                         /\ g.mark[o] = "black" =>
                              \A v \in Values(o) \cup KeysOf(o) : ~IsWhite(g, v)
                         /\ g.mark[o] = "gray" =>
                              o \in g.gray \cup g.grayagain \cup g.weak \cup g.allweak
                                      \cup g.ephemeron
                    /\ g.state \in {"pause", "callfin"} => IsWhite(g, o)
  BY DEF TriColour
<1>1. Core(kind, refs, open, mode, g, {}) /\ g.stage = "none" /\ o \in Objs(g) /\ o \in All
  <2>1. Objs(g) \subseteq All /\ Allocated = Objs(g)
    BY TypeFacts DEF IInv, Inv, Core, Allocated, Objs
  <2> QED BY <2>1 DEF Between, IInv, Inv
<1>2. ASSUME keepinvariant(g), g.mark[o] \in {"gray", "black"}
      PROVE  /\ g.mark[o] = "black" => \A v \in Values(o) \cup KeysOf(o) : ~IsWhite(g, v)
             /\ g.mark[o] = "gray" =>
                  o \in g.gray \cup g.grayagain \cup g.weak \cup g.allweak \cup g.ephemeron
  <2>1. Marking(g) /\ Early(g) /\ o \in NW(g)
    BY <1>1, <1>2 DEF keepinvariant, Marking, Early, NW, IsWhite
  <2>2. /\ g.mark[o] = "black" => Val(refs, o) \cup Key(refs, o) \subseteq NW(g)
        /\ g.mark[o] = "gray" => o \in Pending(g) \cup g.allweak
    BY <1>1, <2>1, Colours
  <2> QED BY <2>1, <2>2, Reading DEF Pending, NW
<1>3. ASSUME g.state \in {"pause", "callfin"} PROVE IsWhite(g, o)
  <2>1. ~Marking(g) /\ Unswept(g) = {}
    BY <1>3 DEF Marking, Unswept
  <2> QED BY <1>1, <2>1 DEF Core, Whites, IsWhite
<1> QED BY <1>2, <1>3

\* The inductive invariant of lgc.c: what lives refers to what lives (Closed), the
\* roots live, what is marked is covered or will be visited (Coverage), and in a
\* sweep all that was passed is white (Whites).
THEOREM Invariant ==
  ASSUME MaxFinal <= SweepMax
  PROVE  GcSpec => []IInv
<1>1. GcInit => IInv
  BY Begins
<1>2. IInv /\ [GcNext]_gcVars => IInv'
  BY Steps
<1> QED BY <1>1, <1>2, PTL DEF GcSpec

\* Whatever the program can read next has not been freed and is not dead, at any
\* point between two steps of the collector: the barriers (luaC_barrier_,
\* luaC_barrierback_, luaC_upvalbarrier_) and the atomic phase miss nothing.
THEOREM NothingDangles ==
  ASSUME MaxFinal <= SweepMax
  PROVE  GcSpec => []NoDangling
<1>1. IInv => NoDangling
  BY Safe
<1> QED BY <1>1, Invariant, PTL

\* The main invariant that lgc.h states: while objects are being marked a black one
\* never points to a white one, a gray one is in a gray list, and all are white
\* when the next cycle starts.
THEOREM ColoursHold ==
  ASSUME MaxFinal <= SweepMax
  PROVE  GcSpec => []TriColour
<1>1. IInv => TriColour
  BY Coloured
<1> QED BY <1>1, Invariant, PTL

-----------------------------------------------------------------------------
(* Finalizers.  Which objects wait for theirs, of any record with the lists. *)

Waiting(h) == Range(h.finobj) \cup Range(h.tobefnz)
Filed(h) == {"finobj", "tobefnz"} \subseteq DOMAIN h
SameFinal(h, p) == Filed(p) /\ p.finobj = h.finobj /\ p.tobefnz = h.tobefnz

\* It is transitive.
LEMMA SameFinalIs ==
  ASSUME NEW h, NEW p, NEW q, SameFinal(h, p), SameFinal(p, q)
  PROVE  SameFinal(h, q)
BY DEF SameFinal

\* Marking leaves the lists of finalizers alone,
LEMMA MarkingKeeps ==
  ASSUME NEW h, Filed(h), NEW S
  PROVE  SameFinal(h, reallymark(h, S))
BY DEF Filed, SameFinal, reallymark

\* as do the visits of weak tables
LEMMA TraversalKeeps ==
  ASSUME NEW h, Filed(h), NEW t
  PROVE  SameFinal(h, traverseephemeron(h, t)) /\ SameFinal(h, traverseweakvalue(h, t))
<1>1. ASSUME NEW S PROVE /\ SameFinal(h, reallymark(h, S))
                         /\ SameFinal(h, [reallymark(h, S) EXCEPT !.grayagain = @ \cup {t}])
                         /\ SameFinal(h, [reallymark(h, S) EXCEPT !.weak = @ \cup {t}])
                         /\ SameFinal(h, [reallymark(h, S) EXCEPT !.ephemeron = @ \cup {t}])
                         /\ SameFinal(h, [reallymark(h, S) EXCEPT !.allweak = @ \cup {t}])
  <2> DEFINE m == reallymark(h, S)
  <2>1. SameFinal(h, m)
    BY MarkingKeeps
  <2> HIDE DEF m
  <2>2. /\ SameFinal(h, [m EXCEPT !.grayagain = @ \cup {t}])
        /\ SameFinal(h, [m EXCEPT !.weak = @ \cup {t}])
        /\ SameFinal(h, [m EXCEPT !.ephemeron = @ \cup {t}])
        /\ SameFinal(h, [m EXCEPT !.allweak = @ \cup {t}])
    BY <2>1 DEF SameFinal, Filed
  <2> QED BY <2>1, <2>2 DEF m
<1>2. SameFinal(h, traverseephemeron(h, t))
  BY <1>1 DEF traverseephemeron
<1>3. SameFinal(h, traverseweakvalue(h, t))
  BY <1>1 DEF traverseweakvalue
<1> QED BY <1>2, <1>3

\* and of all others,
LEMMA PropagatingKeeps ==
  ASSUME NEW h, Filed(h), NEW o, mode[o] \in Modes
  PROVE  SameFinal(h, propagatemark(h, o))
<1> DEFINE b == [h EXCEPT !.mark[o] = "black", !.gray = @ \ {o}]
<1>1. SameFinal(h, b) /\ Filed(b)
  BY DEF SameFinal, Filed
<1> HIDE DEF b
<1>2. SameFinal(b, traversetable(b, o))
  <2> DEFINE k == [b EXCEPT !.mark[o] = "gray"]
  <2>1. SameFinal(b, k) /\ Filed(k) /\ SameFinal(b, [k EXCEPT !.allweak = @ \cup {o}])
    BY <1>1 DEF SameFinal, Filed
  <2> HIDE DEF k
  <2>2. SameFinal(b, traverseephemeron(k, o)) /\ SameFinal(b, traverseweakvalue(k, o))
    BY <2>1, TraversalKeeps, SameFinalIs
  <2>3. SameFinal(b, reallymark(b, KeysOf(o) \cup Values(o)))
    BY <1>1, MarkingKeeps
  <2> QED BY <2>1, <2>2, <2>3 DEF traversetable, k, Modes
<1>3. SameFinal(b, traverseLclosure(b, o))
  <2>1. SameFinal(b, [b EXCEPT !.touched = @ \cup {open[o]}])
    BY <1>1 DEF SameFinal, Filed
  <2>2. SameFinal(b, reallymark(b, Upvalue(o)))
    BY <1>1, MarkingKeeps
  <2> QED BY <2>1, <2>2 DEF traverseLclosure
<1>4. SameFinal(b, traversethread(b, o))
  <2> DEFINE k == [b EXCEPT !.mark[o] = "gray", !.grayagain = @ \cup {o}]
             m == reallymark(k, Values(o))
  <2>1. SameFinal(b, k) /\ Filed(k)
    BY <1>1 DEF SameFinal, Filed
  <2> HIDE DEF k
  <2>2. SameFinal(b, m)
    BY <2>1, MarkingKeeps, SameFinalIs
  <2>3. traversethread(b, o) = IF b.state = "inside" /\ o \in b.openupval
                               THEN [m EXCEPT !.twups = @ \cup {o}] ELSE m
    BY DEF traversethread, k
  <2> HIDE DEF m
  <2> QED BY <2>2, <2>3 DEF SameFinal, Filed
<1>5. propagatemark(h, o) = CASE KindOf(o) = "table" -> traversetable(b, o)
                              [] KindOf(o) = "closure" -> traverseLclosure(b, o)
                              [] OTHER -> traversethread(b, o)
  BY DEF propagatemark, b
<1>6. SameFinal(b, propagatemark(h, o))
  BY <1>2, <1>3, <1>4, <1>5
<1> QED BY <1>1, <1>6, SameFinalIs

\* and freeing,
LEMMA HeapKeeps ==
  ASSUME NEW h, Filed(h), NEW c, Heap(h, c)
  PROVE  SameFinal(h, g')
<1> DEFINE freed == Listed(g) \ Listed(h)
<1>1. g' = [h EXCEPT !.openupval = @ \ freed, !.touched = @ \ freed,
                     !.mark = [o \in All |-> IF o \in freed THEN "white" ELSE @[o]]]
  BY DEF Heap
<1> HIDE DEF freed
<1> QED BY <1>1 DEF SameFinal, Filed

\* and the two together.
LEMMA QuietKeeps ==
  ASSUME NEW h, NEW p, SameFinal(h, p), NEW c, Heap(p, c)
  PROVE  SameFinal(h, g')
BY HeapKeeps, SameFinalIs DEF SameFinal

\* The present state has the lists.
LEMMA FiledIs ==
  ASSUME IInv
  PROVE  Filed(g) /\ SameFinal(g, g)
<1>1. g \in GState
  BY RefsType
<1> QED BY <1>1 DEF GState, Filed, SameFinal

\* A sweep begins with allgc.
LEMMA EntersweepKeeps ==
  ASSUME NEW h, Filed(h), NEW skip
  PROVE  SameFinal(h, sweeptolive(h, "allgc", skip)) /\ SameFinal(h, entersweep(h))
<1>1. ASSUME NEW d, Filed(d), NEW n PROVE SameFinal(d, sweeptolive(d, "allgc", n))
  <2>1. ASSUME NEW s PROVE SameFinal(d, SetList(d, "allgc", s))
    BY <1>1 DEF SetList, SameFinal, Filed
  <2>2. ASSUME NEW e, SameFinal(d, e)
        PROVE  /\ SameFinal(d, [e EXCEPT !.sweepgc = NoSweep])
               /\ \A o : SameFinal(d, makewhite(e, o))
               /\ \A i : SameFinal(d, At(e, "allgc", i))
    BY <2>2 DEF SameFinal, Filed, makewhite, At
  <2> QED BY <2>1, <2>2 DEF sweeptolive
<1>2. SameFinal(h, [h EXCEPT !.state = "swpallgc", !.stage = "none"])
  BY DEF SameFinal, Filed
<1>3. SameFinal(h, entersweep(h))
  BY <1>1, <1>2, SameFinalIs DEF entersweep, SameFinal
<1> QED BY <1>1, <1>3

\* Only GCTM takes an object out of the lists of those that wait.
LEMMA Unchanged ==
  ASSUME NEW h, SameFinal(g, h)
  PROVE  Waiting(g) \subseteq Waiting(h)
BY DEF SameFinal, Waiting

\* The steps that mark leave the lists of finalizers alone.
LEMMA MarkingWaits ==
  ASSUME IInv,
         pause \/ propagate \/ propagateall \/ atomic_enter \/ atomic_roots \/ atomic_again
           \/ converge_enter \/ converge_again \/ converge
  PROVE  SameFinal(g, g')
<1>1. Filed(g) /\ SameFinal(g, g) /\ \A o \in g.gray : mode[o] \in Modes
  BY FiledIs, RefsType DEF GState
<1>2. ASSUME NEW h, SameFinal(g, h), Collector(h) PROVE SameFinal(g, g')
  BY <1>2, QuietKeeps DEF Collector, Freeing
<1>3. ASSUME pause PROVE SameFinal(g, g')
  <2> DEFINE b == [NoGray(g) EXCEPT !.state = "propagate"]
  <2>1. SameFinal(g, b) /\ Filed(b)
    BY <1>1 DEF NoGray, SameFinal, Filed
  <2> HIDE DEF b
  <2>2. SameFinal(g, restartcollection(g))
    BY <2>1, MarkingKeeps, SameFinalIs DEF restartcollection, b
  <2> QED BY <1>3, <2>2, QuietKeeps DEF pause
<1>4. ASSUME propagate \/ propagateall PROVE SameFinal(g, g')
  <2>1. \A o \in g.gray : SameFinal(g, propagatemark(g, o))
    BY <1>1, PropagatingKeeps
  <2>2. ASSUME propagate PROVE SameFinal(g, g')
    <3>1. PICK o \in g.gray :
            Collector([propagatemark(g, o) EXCEPT !.state =
              IF propagatemark(g, o).gray = {} THEN "atomic" ELSE @])
      BY <2>2 DEF propagate
    <3> DEFINE h == propagatemark(g, o)
    <3>2. SameFinal(g, h)
      BY <2>1
    <3> HIDE DEF h
    <3>3. SameFinal(g, [h EXCEPT !.state = IF h.gray = {} THEN "atomic" ELSE @])
      BY <3>2 DEF SameFinal, Filed
    <3> QED BY <1>2, <3>1, <3>3 DEF h
  <2>3. ASSUME propagateall PROVE SameFinal(g, g')
    BY <1>2, <2>1, <2>3 DEF propagateall
  <2> QED BY <1>4, <2>2, <2>3
<1>5. ASSUME atomic_enter \/ atomic_again \/ converge_enter \/ converge_again PROVE SameFinal(g, g')
  <2>1. /\ SameFinal(g, [g EXCEPT !.stage = "enter"])
        /\ SameFinal(g, [g EXCEPT !.gray = g.saved, !.stage = "again"])
        /\ \A s : SameFinal(g, [Round(g) EXCEPT !.stage = s])
    BY <1>1 DEF SameFinal, Filed, Round
  <2> QED BY <1>2, <1>5, <2>1 DEF atomic_enter, atomic_again, converge_enter, converge_again
<1>6. ASSUME atomic_roots PROVE SameFinal(g, g')
  <2> DEFINE b == [g EXCEPT !.saved = g.grayagain, !.state = "inside"]
             h == reallymark(b, {Main, Registry})
             kept == {k \in h.twups : h.mark[k] = "gray" /\ k \in h.openupval}
             seen == (h.twups \ kept) \cap h.touched
             m == reallymark(h, UNION {Values(k) : k \in seen})
  <2>1. SameFinal(g, b) /\ Filed(b)
    BY <1>1 DEF SameFinal, Filed
  <2> HIDE DEF b
  <2>2. SameFinal(g, h) /\ Filed(h)
    BY <2>1, MarkingKeeps, SameFinalIs DEF SameFinal
  <2>3. Collector([remarkupvals(h) EXCEPT !.stage = "roots"])
    BY <1>6 DEF atomic_roots, b
  <2> HIDE DEF h
  <2>4. SameFinal(g, m)
    BY <2>2, MarkingKeeps, SameFinalIs
  <2>5. remarkupvals(h) = [m EXCEPT !.twups = kept, !.touched = @ \ seen]
    BY DEF remarkupvals
  <2> HIDE DEF m, kept, seen
  <2>6. SameFinal(g, [remarkupvals(h) EXCEPT !.stage = "roots"])
    BY <2>4, <2>5 DEF SameFinal, Filed
  <2> QED BY <1>2, <2>3, <2>6
<1>7. ASSUME converge PROVE SameFinal(g, g')
  <2>1. ASSUME NEW t \in g.next, NEW c,
               Collector([traverseephemeron([g EXCEPT !.next = @ \ {t}], t) EXCEPT !.changed = c])
        PROVE  SameFinal(g, g')
    <3> DEFINE b == [g EXCEPT !.next = @ \ {t}]
               m == traverseephemeron(b, t)
    <3>1. SameFinal(g, b) /\ Filed(b)
      BY <1>1 DEF SameFinal, Filed
    <3> HIDE DEF b
    <3>2. SameFinal(g, m)
      BY <3>1, TraversalKeeps, SameFinalIs
    <3> HIDE DEF m
    <3>3. SameFinal(g, [m EXCEPT !.changed = c])
      BY <3>2 DEF SameFinal, Filed
    <3> QED BY <1>2, <2>1, <3>3 DEF m, b
  <2>2. ASSUME Collector(Round(g)) PROVE SameFinal(g, g')
    <3>1. SameFinal(g, Round(g))
      BY <1>1 DEF SameFinal, Filed, Round
    <3> QED BY <1>2, <2>2, <3>1
  <2> DEFINE e(t) == traverseephemeron([g EXCEPT !.next = @ \ {t}], t)
  <2>3. \/ \E t \in g.next : Collector([e(t) EXCEPT !.changed =
                @ \/ (\E v \in EphemeronValues(g, t) : IsWhite(g, v))])
        \/ Collector(Round(g))
    BY <1>7 DEF converge
  <2>4. \A t, w : [e(t) EXCEPT !.changed = @ \/ w] = [e(t) EXCEPT !.changed = e(t).changed \/ w]
    OBVIOUS
  <2> QED BY <2>1, <2>2, <2>3, <2>4
<1> QED BY <1>3, <1>4, <1>5, <1>6, <1>7

\* separatetobefnz moves objects from finobj to tobefnz.
LEMMA ClearingWaits ==
  ASSUME IInv, atomic_clear
  PROVE  Waiting(g) \subseteq Waiting(g')
<1> DEFINE ts == g.weak \cup g.allweak
           h == reallymark(g, StringsIn(UNION {Values(t) : t \in ts}))
           white == {o \in All : IsWhite(h, o)}
           s == separatetobefnz(h)
           m == reallymark(s, Range(s.tobefnz))
           p == [m EXCEPT !.origweak = g.weak, !.origall = g.allweak, !.stage = "resurrect"]
<1>1. Heap(p, WithoutValues(h, refs, ts))
  BY DEF atomic_clear, Separate
<1>2. SameFinal(g, h) /\ Filed(h)
  BY FiledIs, MarkingKeeps DEF SameFinal
<1>3. g.finobj \in Seq(Object) /\ g.tobefnz \in Seq(Object) /\ Range(g.finobj) \subseteq All
  <2>1. g.finobj \in Seq(Object) /\ g.tobefnz \in Seq(Object)
    BY RefsType DEF GState
  <2> QED BY <2>1, RangeOfSeq, Constants
<1> HIDE DEF h
<1>4. /\ s = [h EXCEPT !.tobefnz = @ \o Those(h.finobj, white),
                       !.finobj = Those(@, All \ white)]
  BY DEF separatetobefnz
<1> HIDE DEF white
<1>5. Filed(s) /\ s.finobj = Those(g.finobj, All \ white)
      /\ s.tobefnz = g.tobefnz \o Those(g.finobj, white)
  BY <1>2, <1>4 DEF SameFinal, Filed
<1> HIDE DEF s
<1>6. Waiting(g) \subseteq Waiting(s)
  <2>1. /\ Those(g.finobj, white) \in Seq(Object)
        /\ Range(Those(g.finobj, white)) = Range(g.finobj) \cap white
        /\ Range(Those(g.finobj, All \ white)) = Range(g.finobj) \cap (All \ white)
    BY <1>3, ThoseProperties
  <2>2. Range(g.tobefnz \o Those(g.finobj, white))
          = Range(g.tobefnz) \cup Range(Those(g.finobj, white))
    BY <1>3, <2>1, RangeConcatenation
  <2> QED BY <1>3, <1>5, <2>1, <2>2 DEF Waiting
<1>7. SameFinal(s, m)
  BY <1>5, MarkingKeeps
<1> HIDE DEF m
<1>8. SameFinal(s, p)
  BY <1>7 DEF SameFinal, Filed
<1>9. SameFinal(s, g')
  BY <1>1, <1>8, QuietKeeps
<1> QED BY <1>6, <1>9 DEF SameFinal, Waiting

\* What waits for its finalizer lives, so that no sweep takes it off its list.
LEMMA SweepingWaits ==
  ASSUME IInv, MaxFinal <= SweepMax, atomic_flip \/ sweepstep \/ swpend \/ callfin \/ luaC_fullgc
  PROVE  Waiting(g) \subseteq Waiting(g')
<1>1. Filed(g) /\ SameFinal(g, g) /\ g \in GState
  BY FiledIs, RefsType
<1>2. ASSUME NEW h, SameFinal(g, h), NEW c, Heap(h, c) PROVE Waiting(g) \subseteq Waiting(g')
  <2>1. SameFinal(g, g')
    BY <1>2, QuietKeeps
  <2> QED BY <2>1 DEF SameFinal, Waiting
<1>3. ASSUME atomic_flip PROVE Waiting(g) \subseteq Waiting(g')
  <2> DEFINE byKey == g.ephemeron \cup g.allweak
             byValue == (g.weak \ g.origweak) \cup (g.allweak \ g.origall)
             h == reallymark(g, StringsOf(byKey \cup byValue))
             d == flip(NoGray(h))
  <2>1. \E c : Heap(entersweep(d), c)
    BY <1>3 DEF atomic_flip, Freeing
  <2>2. SameFinal(g, h)
    BY <1>1, MarkingKeeps
  <2> HIDE DEF h
  <2>3. SameFinal(g, d) /\ Filed(d)
    BY <2>2 DEF flip, NoGray, SameFinal, Filed
  <2> HIDE DEF d
  <2>4. SameFinal(g, entersweep(d))
    BY <2>3, EntersweepKeeps, SameFinalIs
  <2> QED BY <1>2, <2>1, <2>4
<1>4. ASSUME swpend \/ callfin PROVE Waiting(g) \subseteq Waiting(g')
  <2>1. /\ SameFinal(g, [makewhite(g, Main) EXCEPT !.state = "callfin", !.sweepgc = NoSweep])
        /\ SameFinal(g, [g EXCEPT !.state = "pause"])
    BY <1>1 DEF SameFinal, Filed, makewhite
  <2> QED BY <1>2, <1>4, <2>1 DEF swpend, callfin, Collector, Freeing
<1>5. ASSUME luaC_fullgc PROVE Waiting(g) \subseteq Waiting(g')
  <2>1. SameFinal(g, entersweep(g)) /\ SameFinal(g, [g EXCEPT !.state = "pause"])
    BY <1>1, EntersweepKeeps DEF SameFinal, Filed
  <2> QED BY <1>2, <1>5, <2>1 DEF luaC_fullgc
<1>6. ASSUME sweepstep PROVE Waiting(g) \subseteq Waiting(g')
  <2> DEFINE h == IF g.sweepgc = NoSweep THEN g ELSE sweeplist(g)
             to == Sweeps[g.state]
             e == [h EXCEPT !.state = to[1], !.sweepgc = [list |-> to[2], skip |-> 0]]
  <2>1. Heap(IF h.sweepgc # NoSweep THEN h ELSE e, refs) /\ g.state \in DOMAIN Sweeps
    BY <1>6 DEF sweepstep, Collector, Freeing
  <2>2. ~Marking(g)
    BY <2>1 DEF Sweeps, Marking
  <2>3. Calm(kind, refs, open, mode, g)
    BY <2>2, CalmInv DEF IInv
  <2>4. Waiting(g) \subseteq Waiting(h) /\ Filed(h)
    <3>1. CASE g.sweepgc = NoSweep
      BY <1>1, <3>1
    <3>2. CASE g.sweepgc # NoSweep
      <4> DEFINE d == sweeplist(g)
      <4>1. /\ d \in GState
            /\ \A x \in Names : Range(ListOf(g, x)) \cap Live(g) \subseteq Range(ListOf(d, x))
        BY <2>1, <2>3, <3>2, Sweeplist DEF PartSwept, Stay
      <4>2. h = d
        BY <3>2
      <4> HIDE DEF h, d
      <4>3. Filed(d)
        BY <4>1 DEF GState, Filed
      <4>4. Waiting(g) \subseteq Live(g)
        BY <2>3 DEF Calm, RootsLive, Waiting
      <4>5. /\ ListOf(g, "finobj") = g.finobj /\ ListOf(g, "tobefnz") = g.tobefnz
            /\ ListOf(d, "finobj") = d.finobj /\ ListOf(d, "tobefnz") = d.tobefnz
        BY DEF ListOf
      <4>6. /\ Range(g.finobj) \cap Live(g) \subseteq Range(d.finobj)
            /\ Range(g.tobefnz) \cap Live(g) \subseteq Range(d.tobefnz)
        BY <4>1, <4>5 DEF Names
      <4> QED BY <4>2, <4>3, <4>4, <4>6 DEF Waiting
    <3> QED BY <3>1, <3>2
  <2> HIDE DEF h
  <2>5. SameFinal(h, h) /\ SameFinal(h, e)
    BY <2>4 DEF SameFinal, Filed
  <2>6. SameFinal(h, g')
    <3>1. SameFinal(h, IF h.sweepgc # NoSweep THEN h ELSE e)
      BY <2>5
    <3> HIDE DEF e
    <3> QED BY <2>1, <3>1, QuietKeeps
  <2> QED BY <2>4, <2>6 DEF SameFinal, Waiting
<1> QED BY <1>3, <1>4, <1>5, <1>6

\* The program only adds objects with finalizers.
LEMMA ProgramWaits ==
  ASSUME IInv, ProgramSteps
  PROVE  Waiting(g) \subseteq Waiting(g')
<1>1. Filed(g) /\ SameFinal(g, g) /\ g.finobj \in Seq(Object)
  BY FiledIs, RefsType DEF GState
<1>2. ASSUME NEW h, SameFinal(g, h), g' = h PROVE Waiting(g) \subseteq Waiting(g')
  BY <1>2 DEF SameFinal, Waiting
<1>3. ASSUME NEW h, Filed(h), NEW o
      PROVE  /\ SameFinal(h, makewhite(h, o)) /\ SameFinal(h, Prepend(h, "allgc", o))
             /\ SameFinal(h, makewhite(Prepend(h, "allgc", o), o))
             /\ \A k : SameFinal(h, [makewhite(Prepend(h, "allgc", o), o)
                          EXCEPT !.openupval = @ \cup {k}, !.touched = @ \cup {k},
                                 !.twups = @ \cup {k}])
  <2> DEFINE l == SetList(h, "allgc", <<o>> \o ListOf(h, "allgc"))
             p == Prepend(h, "allgc", o)
             q == makewhite(p, o)
  <2>1. SameFinal(h, l)
    BY <1>3 DEF SetList, SameFinal, Filed
  <2>2. p = IF h.sweepgc.list = "allgc" /\ h.sweepgc.skip > 0
            THEN [l EXCEPT !.sweepgc.skip = @ + 1] ELSE l
    BY DEF Prepend
  <2> HIDE DEF l, p
  <2>3. SameFinal(h, p)
    BY <2>1, <2>2 DEF SameFinal, Filed
  <2>4. SameFinal(h, q) /\ SameFinal(h, makewhite(h, o))
    BY <1>3, <2>3 DEF SameFinal, Filed, makewhite
  <2> HIDE DEF q
  <2>5. \A k : SameFinal(h, [q EXCEPT !.openupval = @ \cup {k}, !.touched = @ \cup {k},
                                      !.twups = @ \cup {k}])
    BY <2>4 DEF SameFinal, Filed
  <2> QED BY <2>3, <2>4, <2>5 DEF q, p
<1>4. ASSUME NEW o \in Object, luaC_newobj(o) PROVE Waiting(g) \subseteq Waiting(g')
  <2>1. \/ g' = makewhite(Prepend(g, "allgc", o), o)
        \/ \E k : g' = [makewhite(Prepend(g, "allgc", o), o)
                          EXCEPT !.openupval = @ \cup {k}, !.touched = @ \cup {k},
                                 !.twups = @ \cup {k}]
    BY <1>4 DEF luaC_newobj
  <2> QED BY <1>1, <1>2, <1>3, <2>1
<1>5. ASSUME NEW s \in Object, internshrstr(s) PROVE Waiting(g) \subseteq Waiting(g')
  BY <1>1, <1>2, <1>3, <1>5 DEF internshrstr, Put
<1>6. ASSUME g' = g PROVE Waiting(g) \subseteq Waiting(g')
  BY <1>6 DEF Waiting
<1>7. ASSUME NEW k \in Object, luaF_close(k) PROVE Waiting(g) \subseteq Waiting(g')
  <2> DEFINE h == [g EXCEPT !.openupval = @ \ {k}, !.touched = @ \ {k}]
  <2>1. g' = h \/ g' = reallymark(h, Values(k))
    BY <1>7 DEF luaF_close, Put, luaC_upvalbarrier
  <2>2. SameFinal(g, h) /\ Filed(h)
    BY <1>1 DEF SameFinal, Filed
  <2> HIDE DEF h
  <2>3. SameFinal(g, reallymark(h, Values(k)))
    BY <2>2, MarkingKeeps, SameFinalIs
  <2> QED BY <1>2, <2>1, <2>2, <2>3
<1>8. ASSUME NEW o \in Object, luaC_checkfinalizer(o) PROVE Waiting(g) \subseteq Waiting(g')
  <2> DEFINE b == IF issweepphase(g) THEN makewhite(g, o) ELSE g
             h == IF issweepphase(g) /\ g.sweepgc.list = "allgc" /\ g.sweepgc.skip > 0
                     /\ g.allgc[g.sweepgc.skip] = o
                  THEN sweeptolive(b, "allgc", g.sweepgc.skip) ELSE b
             out == Unlinked(h, o)
             l == SetList(out, "finobj", <<o>> \o ListOf(out, "finobj"))
             p == Prepend(out, "finobj", o)
  <2>1. Heap(p, refs)
    BY <1>8 DEF luaC_checkfinalizer, Unlinked
  <2>2. SameFinal(g, b) /\ Filed(b)
    BY <1>1, <1>3 DEF SameFinal
  <2> HIDE DEF b
  <2>3. SameFinal(g, h)
    BY <2>2, EntersweepKeeps, SameFinalIs
  <2> HIDE DEF h
  <2>4. SameFinal(g, out)
    BY <2>3 DEF Unlinked, SameFinal, Filed
  <2> HIDE DEF out
  <2>5. l.finobj = <<o>> \o g.finobj /\ l.tobefnz = g.tobefnz /\ Filed(l)
    BY <2>4 DEF SetList, ListOf, SameFinal, Filed
  <2>6. p = IF out.sweepgc.list = "finobj" /\ out.sweepgc.skip > 0
            THEN [l EXCEPT !.sweepgc.skip = @ + 1] ELSE l
    BY DEF Prepend
  <2> HIDE DEF l, p
  <2>7. p.finobj = <<o>> \o g.finobj /\ p.tobefnz = g.tobefnz /\ Filed(p)
    BY <2>5, <2>6 DEF Filed
  <2>8. Range(<<o>> \o g.finobj) = {o} \cup Range(g.finobj)
    BY <1>1, InFront
  <2>9. SameFinal(p, g')
    BY <2>1, <2>7, HeapKeeps
  <2> QED BY <2>7, <2>8, <2>9 DEF SameFinal, Waiting
<1>9. ASSUME NEW t \in Object \cup {Registry}, NEW k \in Object \cup {Null}, NEW v \in Object,
             SetTable(t, k, v)
      PROVE  Waiting(g) \subseteq Waiting(g')
  <2>1. g' = luaC_barrierback(g, t, {<<k, v>>})
    BY <1>9 DEF SetTable, Put
  <2>2. SameFinal(g, luaC_barrierback(g, t, {<<k, v>>}))
    <3> DEFINE c == /\ g.mark[t] = "black"
                    /\ \E w \in UNION {{e[1], e[2]} \ {Null} : e \in {<<k, v>>}} :
                         IsWhite(g, w)
    <3>1. luaC_barrierback(g, t, {<<k, v>>}) =
            IF c THEN [g EXCEPT !.mark[t] = "gray",
                                !.grayagain = IF keepinvariant(g) THEN @ \cup {t} ELSE @]
            ELSE g
      BY DEF luaC_barrierback
    <3> HIDE DEF c
    <3> QED BY <1>1, <3>1 DEF SameFinal, Filed
  <2> QED BY <1>2, <2>1, <2>2
<1>10. ASSUME NEW u \in Object, NEW v \in Object, lua_setuservalue(u, v)
       PROVE  Waiting(g) \subseteq Waiting(g')
  <2>1. g' = luaC_barrier(g, u, v)
    BY <1>10 DEF lua_setuservalue, Put
  <2>2. SameFinal(g, luaC_barrier(g, u, v))
    BY <1>1, <1>3, MarkingKeeps DEF luaC_barrier
  <2> QED BY <1>2, <2>1, <2>2
<1>11. ASSUME NEW c \in Object, NEW v \in Object, SetUpvalue(c, v)
       PROVE  Waiting(g) \subseteq Waiting(g')
  <2>1. g' = g \/ g' = reallymark(g, {v})
    BY <1>11 DEF SetUpvalue, Put, luaC_upvalbarrier
  <2> QED BY <1>1, <1>2, <2>1, MarkingKeeps
<1>12. ASSUME NEW o, NEW v, Pop(o) \/ Load(o, v) \/ lua_xmove(o, v) \/ Unset(o, v) \/ SetMode(o, v)
       PROVE  g' = g
  BY <1>12 DEF Pop, Load, lua_xmove, Unset, SetMode, Put
<1> QED BY <1>4, <1>5, <1>6, <1>7, <1>8, <1>9, <1>10, <1>11, <1>12 DEF ProgramSteps

\* So only GCTM takes an object out of the two lists.
LEMMA OnlyGCTM ==
  ASSUME MaxFinal <= SweepMax, IInv, [GcNext]_gcVars
  PROVE  Waiting(g) \ Waiting(g)' # {} => GCTM
<1>1. Waiting(g)' = Waiting(g')
  BY DEF Waiting
<1>2. CASE CollectorSteps
  <2>1. CASE atomic_clear
    BY <2>1, ClearingWaits, <1>1
  <2>2. CASE atomic_flip \/ sweepstep \/ swpend \/ callfin
    BY <2>2, SweepingWaits, <1>1
  <2>3. CASE \/ pause \/ propagate \/ propagateall \/ atomic_enter \/ atomic_roots \/ atomic_again
             \/ converge_enter \/ converge_again \/ converge
    <3>1. SameFinal(g, g')
      BY <2>3, MarkingWaits
    <3> QED BY <1>1, <3>1, Unchanged
  <2> QED BY <1>2, <2>1, <2>2, <2>3 DEF CollectorSteps
<1>3. CASE ProgramSteps
  BY <1>1, <1>3, ProgramWaits
<1>4. CASE luaC_fullgc
  BY <1>1, <1>4, SweepingWaits
<1>5. CASE UNCHANGED gcVars
  BY <1>1, <1>5 DEF gcVars
<1> QED BY <1>2, <1>3, <1>4, <1>5 DEF GcNext

\* No object whose finalizer is set (luaC_checkfinalizer) leaves finobj and tobefnz
\* but by GCTM, which calls the finalizer: no sweep of the two lists frees one.
THEOREM FinalizersFirst ==
  ASSUME MaxFinal <= SweepMax
  PROVE  GcSpec => FinalizerFirst
<1>1. IInv /\ [GcNext]_gcVars => [LET waiting == Range(g.finobj) \cup Range(g.tobefnz)
                                  IN  waiting \ (Range(g.finobj) \cup Range(g.tobefnz))' # {}
                                        => GCTM]_gcVars
  BY OnlyGCTM DEF Waiting
<1> QED BY <1>1, Invariant, PTL DEF GcSpec, FinalizerFirst

=============================================================================
