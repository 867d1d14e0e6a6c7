---------------------------- MODULE GarbageProofs ----------------------------
(***************************************************************************)
(* The collector collects: what is out of reach when a cycle begins has    *)
(* been freed when the next one does, for every heap a program has made,   *)
(* every number of objects, entries and steps, and every interleaving of   *)
(* the program with the steps of the collector.                            *)
(*                                                                         *)
(* The argument is about a fence.  While the collector marks, the objects  *)
(* that are not doomed keep nothing that is (Sealed): the program works on *)
(* what is not doomed only, so it cannot give an undoomed object a doomed  *)
(* reference, and what the collector marks lies on this side of the fence  *)
(* (Fenced).  So the doomed are white when the whites are exchanged, dead  *)
(* after that (Doom), and when the sweep has passed all lists none is left *)
(* on them.                                                                *)
(*                                                                         *)
(* The assumption MaxFinal <= SweepMax is that of GcProofs.                *)
(***************************************************************************)
EXTENDS GcProofs

\* Only tables are weak.
Weakly(k, m) == \A o \in All : m[o] # "strong" => o \in Object /\ KindIn(k, o) = "table"

\* What the objects of S keep is in S.
Sealed(r, op, m, S) ==
  \A o \in S :
    /\ \A e \in r[o] :
         /\ m[o] \in {"strong", "v"} /\ e[1] # Null => e[1] \in S
         /\ m[o] = "strong" => e[2] \in S
         /\ m[o] = "k" /\ e[1] \in S \cup {Null} => e[2] \in S
    /\ o \in Object /\ op[o] # Null => Val(r, op[o]) \subseteq S

\* What is marked, and what a touched upvalue may still mark, is in S.
Fenced(r, m, h, S) ==
  /\ NW(h) \subseteq S
  /\ \A c \in h.touched : Val(r, c) \subseteq S
  /\ \A t \in h.ephemeron \cup h.next : m[t] = "k"

\* The invariant, for the doomed objects D.
Doom(k, r, op, m, h, D) ==
  /\ D \subseteq Listed(h)
  /\ \A o \in D : KindIn(k, o) # "string"
  /\ Weakly(k, m)
  /\ Marking(h) => Sealed(r, op, m, All \ D) /\ Fenced(r, m, h, All \ D)
  /\ ~Marking(h) => \A o \in D : isdead(h, o)

GInv == Doom(kind, refs, open, mode, g, doomed)

-----------------------------------------------------------------------------
(* What is kept *)

\* The more is kept, the more does an ephemeron keep.
LEMMA KeptGrows ==
  ASSUME NEW o, NEW S, NEW T, S \subseteq T
  PROVE  Kept(o, S) \subseteq Kept(o, T)
<1> DEFINE lasting(Z) == Z \cup {Null} \cup StringsIn(KeysOf(o))
           e(Z) == IF mode[o] = "strong" THEN refs[o]
                   ELSE IF mode[o] = "k" THEN {p \in refs[o] : p[1] \in lasting(Z)} ELSE {}
           rest == (IF mode[o] \in {"k", "kv"} THEN {} ELSE KeysOf(o))
                     \cup (IF KindOf(o) = "closure" THEN Upvalue(o) ELSE {})
<1>1. \A Z : Kept(o, Z) = {p[2] : p \in e(Z)} \cup rest
  BY DEF Kept
<1>2. lasting(S) \subseteq lasting(T)
  OBVIOUS
<1> HIDE DEF lasting, rest
<1>3. e(S) \subseteq e(T)
  BY <1>2
<1> HIDE DEF e
<1> QED BY <1>1, <1>3

\* No heap keeps what is no object.
LEMMA KeptIsObject ==
  ASSUME IInv, NEW o \in All, NEW S
  PROVE  Kept(o, S) \subseteq Object
<1> DEFINE lasting == S \cup {Null} \cup StringsIn(KeysOf(o))
           e == IF mode[o] = "strong" THEN refs[o]
                ELSE IF mode[o] = "k" THEN {p \in refs[o] : p[1] \in lasting} ELSE {}
<1>1. \A p \in All : Values(p) \subseteq Object /\ KeysOf(p) \subseteq Object
  BY TypeFacts, Reading DEF IInv, Inv, Core
<1>2. {p[2] : p \in e} \subseteq Values(o)
  BY DEF Values
<1>3. KindOf(o) = "closure" => Upvalue(o) \subseteq Object
  <2>1. ASSUME KindOf(o) = "closure" PROVE o \in Object
    BY <2>1 DEF KindOf, All
  <2>2. o \in Object /\ open[o] # Null => open[o] \in All
    BY RefsType, Constants
  <2> QED BY <1>1, <2>1, <2>2 DEF Upvalue
<1> HIDE DEF e
<1>4. Kept(o, S) \subseteq {p[2] : p \in e} \cup KeysOf(o)
                            \cup (IF KindOf(o) = "closure" THEN Upvalue(o) ELSE {})
  BY DEF Kept, e
<1> QED BY <1>1, <1>2, <1>3, <1>4

\* ReachableFrom(X) has X, and what its elements keep.
LEMMA Reached ==
  ASSUME IInv, NEW X \in SUBSET All
  PROVE  /\ X \subseteq ReachableFrom(X) /\ ReachableFrom(X) \subseteq All
         /\ \A p \in ReachableFrom(X) : Kept(p, ReachableFrom(X)) \subseteq ReachableFrom(X)
<1> DEFINE R == ReachableFrom(X)
           Holds1(S) == X \subseteq S /\ \A p \in S : Kept(p, S) \subseteq S
<1>1. R = {o \in All : \A S \in SUBSET All : Holds1(S) => o \in S}
  BY DEF ReachableFrom
<1>2. X \subseteq R /\ R \subseteq All
  BY <1>1
<1> HIDE DEF R
<1>3. ASSUME NEW p \in R, NEW v \in Kept(p, R) PROVE v \in R
  <2>1. v \in All
    BY <1>2, <1>3, KeptIsObject, Constants
  <2>2. ASSUME NEW S \in SUBSET All, Holds1(S) PROVE v \in S
    <3>1. R \subseteq S
      BY <1>1, <2>2
    <3>2. Kept(p, R) \subseteq Kept(p, S)
      BY <3>1, KeptGrows
    <3> QED BY <1>3, <2>2, <3>1, <3>2
  <2> QED BY <1>1, <2>1, <2>2
<1> QED BY <1>2, <1>3 DEF R

\* A set that has what its elements keep is sealed.
LEMMA KeptSeals ==
  ASSUME IInv, NEW S \in SUBSET All, \A p \in S : Kept(p, S) \subseteq S
  PROVE  Sealed(refs, open, mode, S)
<1> SUFFICES ASSUME NEW o \in S
             PROVE  /\ \A e \in refs[o] :
                         /\ mode[o] \in {"strong", "v"} /\ e[1] # Null => e[1] \in S
                         /\ mode[o] = "strong" => e[2] \in S
                         /\ mode[o] = "k" /\ e[1] \in S \cup {Null} => e[2] \in S
                    /\ o \in Object /\ open[o] # Null => Val(refs, open[o]) \subseteq S
  BY DEF Sealed
<1> DEFINE lasting == S \cup {Null} \cup StringsIn(KeysOf(o))
           E == IF mode[o] = "strong" THEN refs[o]
                ELSE IF mode[o] = "k" THEN {p \in refs[o] : p[1] \in lasting} ELSE {}
           keys == IF mode[o] \in {"k", "kv"} THEN {} ELSE KeysOf(o)
           up == IF KindOf(o) = "closure" THEN Upvalue(o) ELSE {}
<1>1. {p[2] : p \in E} \cup keys \cup up \subseteq S
  BY DEF Kept
<1>2. ASSUME NEW e \in refs[o]
      PROVE  /\ mode[o] \in {"strong", "v"} /\ e[1] # Null => e[1] \in S
             /\ mode[o] = "strong" => e[2] \in S
             /\ mode[o] = "k" /\ e[1] \in S \cup {Null} => e[2] \in S
  <2>1. e[1] # Null => e[1] \in KeysOf(o)
    BY DEF KeysOf
  <2>3. mode[o] \in {"strong", "v"} /\ e[1] # Null => e[1] \in S
    BY <1>1, <2>1
  <2>4. mode[o] = "strong" => e[2] \in S
    BY <1>1
  <2>5. ASSUME mode[o] = "k", e[1] \in S \cup {Null} PROVE e[2] \in S
    <3>1. e[1] \in lasting
      BY <2>5
    <3>2. e \in E
      BY <2>5, <3>1
    <3> HIDE DEF E
    <3> QED BY <1>1, <3>2
  <2> QED BY <2>3, <2>4, <2>5
<1>3. ASSUME o \in Object, open[o] # Null PROVE Val(refs, open[o]) \subseteq S
  <2>1. KindOf(o) = "closure"
    BY <1>3, KindInObject, Reading DEF IInv, Inv, Core, Shape
  <2>2. Upvalue(o) = Val(refs, open[o])
    BY <1>3, Reading DEF Upvalue
  <2> QED BY <1>1, <2>1, <2>2
<1> QED BY <1>2, <1>3

\* So is what is not doomed any more when S was spared.
LEMMA Spared ==
  ASSUME IInv, doomed \subseteq All, NEW S \in SUBSET All
  PROVE  /\ Spare(S) \subseteq doomed
         /\ (All \ doomed) \cup S \subseteq All \ Spare(S)
         /\ Sealed(refs, open, mode, All \ Spare(S))
<1> DEFINE X == (All \ doomed) \cup S
           R == ReachableFrom(X)
<1>1. X \subseteq R /\ R \subseteq All /\ \A p \in R : Kept(p, R) \subseteq R
  BY Reached
<1>2. Spare(S) = doomed \ R
  BY DEF Spare
<1> HIDE DEF R
<1>3. All \ Spare(S) = R
  BY <1>1, <1>2
<1>4. Sealed(refs, open, mode, R)
  BY <1>1, KeptSeals
<1> QED BY <1>1, <1>2, <1>3, <1>4

\* References that go, and new ones from S to S, leave S sealed.
LEMMA StaysSealed ==
  ASSUME NEW r, NEW op, NEW m, NEW S, Sealed(r, op, m, S), NEW c, NEW p,
         \A o \in S : \A e \in c[o] : e \in r[o] \/ (e[1] \in S \cup {Null} /\ e[2] \in S),
         \A o \in S \cap Object : p[o] # Null =>
           \A e \in c[p[o]] : e[2] \in S \/ (p[o] = op[o] /\ e \in r[p[o]])
  PROVE  Sealed(c, p, m, S)
<1> SUFFICES ASSUME NEW o \in S
             PROVE  /\ \A e \in c[o] :
                         /\ m[o] \in {"strong", "v"} /\ e[1] # Null => e[1] \in S
                         /\ m[o] = "strong" => e[2] \in S
                         /\ m[o] = "k" /\ e[1] \in S \cup {Null} => e[2] \in S
                    /\ o \in Object /\ p[o] # Null => Val(c, p[o]) \subseteq S
  BY DEF Sealed
<1>1. ASSUME NEW e \in c[o]
      PROVE  /\ m[o] \in {"strong", "v"} /\ e[1] # Null => e[1] \in S
             /\ m[o] = "strong" => e[2] \in S
             /\ m[o] = "k" /\ e[1] \in S \cup {Null} => e[2] \in S
  <2>1. CASE e \in r[o]
    BY <2>1 DEF Sealed
  <2>2. CASE e \notin r[o]
    BY <1>1, <2>2
  <2> QED BY <2>1, <2>2
<1>2. ASSUME o \in Object, p[o] # Null, NEW e \in c[p[o]] PROVE e[2] \in S
  <2>1. CASE p[o] = op[o] /\ e \in r[p[o]]
    <3>1. e[2] \in Val(r, op[o])
      BY <2>1 DEF Val
    <3> QED BY <1>2, <2>1, <3>1 DEF Sealed
  <2> QED BY <1>2, <2>1
<1> QED BY <1>1, <1>2 DEF Val

-----------------------------------------------------------------------------
(* Marking, on this side of the fence *)

\* A heap to mark in, with the objects that are there, whose marks are in S.
Fit(h, S) == Tidy(h) /\ Fenced(refs, mode, h, S) /\ Marking(h) /\ Listed(h) = Listed(g)
Fence(S) ==
  /\ S \subseteq All /\ \A o \in All : KeysOf(o) \subseteq Object
  /\ \A o \in All : KindOf(o) = "string" => o \in S
  /\ Sealed(refs, open, mode, S) /\ Weakly(kind, mode)

\* What a strong object of S refers to, or an open upvalue, is in S.
LEMMA StrongKeeps ==
  ASSUME NEW S, Fence(S), NEW o \in S
  PROVE  /\ KindOf(o) # "table" \/ mode[o] = "strong" => Values(o) \subseteq S
         /\ mode[o] \in {"strong", "v"} => KeysOf(o) \subseteq S
         /\ o \in Object => Upvalue(o) \subseteq S \/ KindOf(o) = "table"
<1>1. KindOf(o) # "table" \/ mode[o] = "strong" => mode[o] = "strong"
  BY Reading DEF Fence, Weakly
<1>2. mode[o] = "strong" => Values(o) \subseteq S
  BY DEF Fence, Sealed, Values
<1>3. mode[o] \in {"strong", "v"} => KeysOf(o) \subseteq S
  BY DEF Fence, Sealed, KeysOf
<1>4. ASSUME o \in Object, KindOf(o) # "table" PROVE Upvalue(o) \subseteq S
  <2>1. CASE open[o] = Null
    BY <1>1, <1>2, <1>4, <2>1 DEF Upvalue
  <2>2. CASE open[o] # Null
    BY <1>4, <2>2, Reading DEF Upvalue, Fence, Sealed
  <2> QED BY <2>1, <2>2
<1> QED BY <1>1, <1>2, <1>3, <1>4

\* Marking what is in S marks nothing else.
LEMMA MarkFits ==
  ASSUME NEW S, Fence(S), NEW h, Fit(h, S), NEW X, X \subseteq S
  PROVE  Fit(reallymark(h, X), S) /\ Marked(h, reallymark(h, X), X)
<1> DEFINE C == Userdata(h, X)
           new == {o \in X \cup UNION {Values(u) : u \in C} : IsWhite(h, o)}
           W == {u \in All : IsWhite(h, u) /\ KindOf(u) = "udata"}
           Holds1(T) == W \cap X \subseteq T /\ \A t \in T : Values(t) \cap W \subseteq T
           mk == [o \in All |-> IF o \notin new THEN h.mark[o]
                                ELSE IF AtOnce(o) THEN "black" ELSE "gray"]
           late == {o \in new : ~AtOnce(o)}
           m == reallymark(h, X)
<1>1. Tidy(h) /\ NW(h) \subseteq S /\ X \in SUBSET All
  BY DEF Fit, Fenced, Fence
<1>2. Marked(h, m, X)
  BY <1>1, ReallymarkMarks
<1>3. C \subseteq W \cap S
  <2>1. C = {u \in W : \A T \in SUBSET W : Holds1(T) => u \in T}
    BY DEF Userdata
  <2>2. Holds1(W \cap S)
    <3>1. \A t \in W \cap S : Values(t) \subseteq S
      BY StrongKeeps
    <3> QED BY <3>1
  <2> QED BY <2>1, <2>2
<1> HIDE DEF C
<1>4. new \subseteq S
  <2>1. \A u \in C : Values(u) \subseteq S
    BY <1>3, StrongKeeps
  <2> QED BY <2>1
<1>5. m = [h EXCEPT !.mark = mk, !.gray = @ \cup late]
  BY DEF reallymark, C
<1> HIDE DEF new, mk, late, m
<1>6. m.mark = mk
  BY <1>1, <1>5 DEF Tidy, GState
<1>7. NW(m) \subseteq NW(h) \cup new
  BY <1>6 DEF mk, NW, IsWhite
<1>8. Fenced(refs, mode, m, S)
  BY <1>1, <1>2, <1>4, <1>7 DEF Fit, Fenced, Marked, SameThreads, SameGrays
<1>9. Tidy(m)
  BY <1>1, <1>2 DEF Marked, Tidy
<1>10. Listed(m) = Listed(g) /\ Marking(m)
  BY <1>2, ListedSame DEF Fit, Marked, SamePlace, Marking
<1> QED BY <1>2, <1>8, <1>9, <1>10 DEF Fit, m

\* What only grays an object of S, or moves it between lists, fits.
LEMMA EditFits ==
  ASSUME NEW S, NEW h, Fit(h, S), NEW p \in GState, Marking(p), Listed(p) = Listed(h),
         NW(p) \subseteq S, p.touched \subseteq h.touched,
         \A t \in p.ephemeron \cup p.next : t \in h.ephemeron \cup h.next \/ mode[t] = "k"
  PROVE  Fit(p, S)
BY DEF Fit, Tidy, Fenced

\* The visits of weak tables.
LEMMA WeakFits ==
  ASSUME NEW S, Fence(S), NEW h, Fit(h, S), NEW t \in S
  PROVE  /\ mode[t] = "v" => Fit(traverseweakvalue(h, t), S)
         /\ mode[t] = "k" => Fit(traverseephemeron(h, t), S)
<1>0. t \in All /\ h \in GState /\ NW(h) \subseteq S
  BY DEF Fence, Fit, Tidy, Fenced
<1>1. ASSUME NEW m, Fit(m, S)
      PROVE  /\ Fit([m EXCEPT !.grayagain = @ \cup {t}], S)
             /\ Fit([m EXCEPT !.weak = @ \cup {t}], S)
             /\ mode[t] = "k" => Fit([m EXCEPT !.ephemeron = @ \cup {t}], S)
             /\ Fit([m EXCEPT !.allweak = @ \cup {t}], S)
  <2>1. m \in GState /\ NW(m) \subseteq S
    BY <1>1 DEF Fit, Tidy, Fenced
  <2>2. ASSUME NEW p \in GState, p.mark = m.mark, p.touched = m.touched, p.next = m.next,
               SameLists(m, p), p.state = m.state,
               p.ephemeron = m.ephemeron \/ (mode[t] = "k" /\ p.ephemeron = m.ephemeron \cup {t})
        PROVE  Fit(p, S)
    <3>1. NW(p) \subseteq S
      BY <2>1, <2>2 DEF NW, IsWhite
    <3>2. Listed(p) = Listed(m) /\ Marking(p)
      BY <1>1, <2>2, ListedSame DEF Fit, Marking
    <3> QED BY <1>1, <2>2, <3>1, <3>2, EditFits
  <2>3. Fit([m EXCEPT !.grayagain = @ \cup {t}], S)
    <3> DEFINE p == [m EXCEPT !.grayagain = @ \cup {t}]
    <3>1. /\ p \in GState /\ p.mark = m.mark /\ p.touched = m.touched /\ p.next = m.next
          /\ SameLists(m, p) /\ p.state = m.state
          /\ p.ephemeron = m.ephemeron
      BY <1>0, <2>1 DEF GState, SameLists
    <3> QED BY <2>2, <3>1
  <2>4. Fit([m EXCEPT !.weak = @ \cup {t}], S)
    <3> DEFINE p == [m EXCEPT !.weak = @ \cup {t}]
    <3>1. /\ p \in GState /\ p.mark = m.mark /\ p.touched = m.touched /\ p.next = m.next
          /\ SameLists(m, p) /\ p.state = m.state
          /\ p.ephemeron = m.ephemeron
      BY <1>0, <2>1 DEF GState, SameLists
    <3> QED BY <2>2, <3>1
  <2>5. Fit([m EXCEPT !.allweak = @ \cup {t}], S)
    <3> DEFINE p == [m EXCEPT !.allweak = @ \cup {t}]
    <3>1. /\ p \in GState /\ p.mark = m.mark /\ p.touched = m.touched /\ p.next = m.next
          /\ SameLists(m, p) /\ p.state = m.state
          /\ p.ephemeron = m.ephemeron
      BY <1>0, <2>1 DEF GState, SameLists
    <3> QED BY <2>2, <3>1
  <2>6. ASSUME mode[t] = "k" PROVE Fit([m EXCEPT !.ephemeron = @ \cup {t}], S)
    <3> DEFINE p == [m EXCEPT !.ephemeron = @ \cup {t}]
    <3>1. /\ p \in GState /\ p.mark = m.mark /\ p.touched = m.touched /\ p.next = m.next
          /\ SameLists(m, p) /\ p.state = m.state
          /\ p.ephemeron = m.ephemeron \cup {t}
      BY <1>0, <2>1 DEF GState, SameLists
    <3> QED BY <2>2, <2>6, <3>1
  <2> QED BY <2>3, <2>4, <2>5, <2>6
<1>2. \A o \in Values(t) \cup KeysOf(t) : o \in All
  BY <1>0, Constants DEF Fit, Tidy, Fence
<1>3. StringsIn(Values(t)) \cup StringsIn(KeysOf(t)) \subseteq S
  BY <1>2 DEF StringsIn, Fence
<1>4. ASSUME mode[t] = "v" PROVE Fit(traverseweakvalue(h, t), S)
  <2> DEFINE m == reallymark(h, KeysOf(t) \cup StringsIn(Values(t)))
  <2>1. Fit(m, S)
    BY <1>3, <1>4, StrongKeeps, MarkFits
  <2>2. traverseweakvalue(h, t) = IF h.state = "propagate" THEN [m EXCEPT !.grayagain = @ \cup {t}]
            ELSE IF \E v \in Values(t) : Cleared(m, v) THEN [m EXCEPT !.weak = @ \cup {t}]
            ELSE m
    BY DEF traverseweakvalue
  <2> HIDE DEF m
  <2> QED BY <1>1, <2>1, <2>2
<1>5. ASSUME mode[t] = "k" PROVE Fit(traverseephemeron(h, t), S)
  <2> DEFINE m == reallymark(h, StringsIn(KeysOf(t)) \cup EphemeronValues(h, t))
             weakly == {e \in refs[t] : Cleared(h, e[1])}
  <2>1. EphemeronValues(h, t) \subseteq S
    <3> SUFFICES ASSUME NEW e \in refs[t], ~Cleared(h, e[1]) PROVE e[2] \in S
      BY DEF EphemeronValues
    <3>1. e[1] # Null => e[1] \in KeysOf(t)
      BY DEF KeysOf
    <3>2. e[1] \in S \cup {Null}
      BY <1>0, <1>2, <3>1 DEF Cleared, NW, Fence
    <3> QED BY <1>5, <3>2 DEF Fence, Sealed
  <2>2. Fit(m, S)
    BY <1>3, <2>1, MarkFits
  <2>3. traverseephemeron(h, t) = IF h.state = "propagate" THEN [m EXCEPT !.grayagain = @ \cup {t}]
            ELSE IF \E e \in weakly : IsWhite(h, e[2]) THEN [m EXCEPT !.ephemeron = @ \cup {t}]
            ELSE IF weakly # {} THEN [m EXCEPT !.allweak = @ \cup {t}]
            ELSE m
    BY DEF traverseephemeron
  <2> HIDE DEF m, weakly
  <2> QED BY <1>1, <1>5, <2>2, <2>3
<1> QED BY <1>4, <1>5

\* A visit of what is marked.
LEMMA VisitFits ==
  ASSUME NEW S, Fence(S), NEW h, Fit(h, S), NEW o \in NW(h), \A p \in All : mode[p] \in Modes,
         \A c \in Object : open[c] \in Object \cup {Null}
  PROVE  Fit(propagatemark(h, o), S)
<1> DEFINE b == [h EXCEPT !.mark[o] = "black", !.gray = @ \ {o}]
<1>1. o \in S /\ o \in All /\ h \in GState /\ NW(h) \subseteq S
  BY DEF Fit, Fenced, Fence, Tidy
<1>2. ASSUME NEW d, Fit(d, S), NEW p \in GState, p.touched = d.touched, p.next = d.next,
             SameLists(d, p), p.state = d.state,
             p.ephemeron = d.ephemeron, NW(p) \subseteq NW(d) \cup {o}
      PROVE  Fit(p, S)
  <2>1. NW(p) \subseteq S
    BY <1>1, <1>2 DEF Fit, Fenced
  <2>2. Listed(p) = Listed(d) /\ Marking(p)
    BY <1>2, ListedSame DEF Fit, Marking
  <2> QED BY <1>2, <2>1, <2>2, EditFits
<1>3. Fit(b, S)
  <2>1. /\ b \in GState /\ b.touched = h.touched /\ b.next = h.next /\ b.ephemeron = h.ephemeron
        /\ b.mark = [h.mark EXCEPT ![o] = "black"] /\ SameLists(h, b) /\ b.state = h.state
    BY <1>1 DEF GState, SameLists
  <2> HIDE DEF b
  <2>2. NW(b) \subseteq NW(h) \cup {o}
    BY <1>1, <2>1 DEF NW, IsWhite, GState
  <2> QED BY <1>2, <2>1, <2>2
<1> HIDE DEF b
<1>4. b \in GState
  BY <1>3 DEF Fit, Tidy
<1>5. ASSUME KindOf(o) = "table" PROVE Fit(traversetable(b, o), S)
  <2> DEFINE k == [b EXCEPT !.mark[o] = "gray"]
  <2>1. /\ k \in GState /\ k.touched = b.touched /\ k.next = b.next /\ k.ephemeron = b.ephemeron
        /\ k.mark = [b.mark EXCEPT ![o] = "gray"] /\ SameLists(b, k) /\ k.state = b.state
    BY <1>1, <1>4 DEF GState, SameLists
  <2>2. traversetable(b, o) =
          CASE mode[o] = "strong" -> reallymark(b, KeysOf(o) \cup Values(o))
            [] mode[o] = "v" -> traverseweakvalue(k, o)
            [] mode[o] = "k" -> traverseephemeron(k, o)
            [] mode[o] = "kv" -> [k EXCEPT !.allweak = @ \cup {o}]
    BY DEF traversetable
  <2> HIDE DEF k
  <2>3. NW(k) \subseteq NW(b) \cup {o}
    BY <1>1, <1>4, <2>1 DEF NW, IsWhite, GState
  <2>4. Fit(k, S)
    BY <1>2, <1>3, <2>1, <2>3
  <2>5. Fit([k EXCEPT !.allweak = @ \cup {o}], S)
    <3> DEFINE q == [k EXCEPT !.allweak = @ \cup {o}]
    <3>0. o \in All /\ k \in GState
      BY <1>1, <2>1
    <3>1. /\ q \in GState /\ q.touched = k.touched /\ q.next = k.next /\ q.ephemeron = k.ephemeron
          /\ q.mark = k.mark /\ SameLists(k, q) /\ q.state = k.state
      BY <3>0 DEF GState, SameLists
    <3> HIDE DEF q
    <3>2. NW(q) \subseteq NW(k) \cup {o}
      BY <3>1 DEF NW, IsWhite
    <3>3. Fit(q, S)
      BY <1>2, <2>4, <3>1, <3>2
    <3> QED BY <3>3 DEF q
  <2>6. mode[o] = "strong" => Fit(reallymark(b, KeysOf(o) \cup Values(o)), S)
    BY <1>1, <1>3, StrongKeeps, MarkFits
  <2>7. /\ mode[o] = "v" => Fit(traverseweakvalue(k, o), S)
        /\ mode[o] = "k" => Fit(traverseephemeron(k, o), S)
    BY <1>1, <2>4, WeakFits
  <2>8. mode[o] \in Modes
    BY <1>1
  <2> QED BY <2>2, <2>5, <2>6, <2>7, <2>8 DEF Modes
<1>6. ASSUME KindOf(o) = "closure" PROVE Fit(traverseLclosure(b, o), S)
  <2>1. o \in Object
    BY <1>1, <1>6 DEF KindOf, All
  <2>2. Upvalue(o) \subseteq S
    BY <1>1, <1>6, <2>1, StrongKeeps
  <2>3. ASSUME open[o] # Null PROVE Fit([b EXCEPT !.touched = @ \cup {open[o]}], S)
    <3> DEFINE q == [b EXCEPT !.touched = @ \cup {open[o]}]
    <3>1. open[o] \in All
      BY <2>1, <2>3, Constants
    <3>2. /\ q \in GState /\ q.touched = b.touched \cup {open[o]} /\ q.next = b.next
          /\ q.ephemeron = b.ephemeron /\ q.mark = b.mark
          /\ SameLists(b, q) /\ q.state = b.state
      BY <1>4, <3>1 DEF GState, SameLists
    <3> HIDE DEF q
    <3>3. NW(q) = NW(b)
      BY <3>2 DEF NW, IsWhite
    <3>4. Val(refs, open[o]) \subseteq S
      BY <2>2, <2>3, Reading DEF Upvalue
    <3>5. Listed(q) = Listed(b)
      BY <3>2, ListedSame
    <3>6. Fit(q, S)
      BY <1>3, <3>2, <3>3, <3>4, <3>5 DEF Fit, Tidy, Fenced, Marking
    <3> QED BY <3>6 DEF q
  <2>4. Fit(reallymark(b, Upvalue(o)), S)
    BY <1>3, <2>2, MarkFits
  <2> QED BY <2>3, <2>4 DEF traverseLclosure
<1>7. ASSUME KindOf(o) # "table" PROVE Fit(traversethread(b, o), S)
  <2> DEFINE k == [b EXCEPT !.mark[o] = "gray", !.grayagain = @ \cup {o}]
             m == reallymark(k, Values(o))
             q == [m EXCEPT !.twups = @ \cup {o}]
  <2>1. /\ k \in GState /\ k.touched = b.touched /\ k.next = b.next /\ k.ephemeron = b.ephemeron
        /\ k.mark = [b.mark EXCEPT ![o] = "gray"] /\ SameLists(b, k) /\ k.state = b.state
    BY <1>1, <1>4 DEF GState, SameLists
  <2>2. traversethread(b, o) = IF b.state = "inside" /\ o \in b.openupval THEN q ELSE m
    BY DEF traversethread
  <2> HIDE DEF k
  <2>3. NW(k) \subseteq NW(b) \cup {o}
    BY <1>1, <1>4, <2>1 DEF NW, IsWhite, GState
  <2>4. Fit(k, S)
    BY <1>2, <1>3, <2>1, <2>3
  <2>5. Fit(m, S)
    BY <1>1, <1>7, <2>4, StrongKeeps, MarkFits
  <2> HIDE DEF m
  <2>6. m \in GState
    BY <2>5 DEF Fit, Tidy
  <2>7. /\ q \in GState /\ q.touched = m.touched /\ q.next = m.next /\ q.ephemeron = m.ephemeron
        /\ q.mark = m.mark /\ SameLists(m, q) /\ q.state = m.state
    BY <1>1, <2>6 DEF GState, SameLists
  <2> HIDE DEF q
  <2>8. NW(q) \subseteq NW(m) \cup {o}
    BY <2>7 DEF NW, IsWhite
  <2>9. Fit(q, S)
    BY <1>2, <2>5, <2>7, <2>8
  <2> QED BY <2>2, <2>5, <2>9
<1>8. propagatemark(h, o) = CASE KindOf(o) = "table" -> traversetable(b, o)
                              [] KindOf(o) = "closure" -> traverseLclosure(b, o)
                              [] OTHER -> traversethread(b, o)
  BY DEF propagatemark, b
<1> QED BY <1>5, <1>6, <1>7, <1>8

-----------------------------------------------------------------------------
(* The steps that mark *)

\* While the collector marks, what is not doomed is behind a fence.
LEMMA Fencing ==
  ASSUME IInv, GInv, Marking(g)
  PROVE  /\ Fence(All \ doomed) /\ Fit(g, All \ doomed)
         /\ doomed \subseteq Objs(g) /\ doomed \subseteq All
<1>1. /\ doomed \subseteq Listed(g) /\ \A o \in doomed : KindOf(o) # "string"
      /\ Weakly(kind, mode) /\ Sealed(refs, open, mode, All \ doomed)
      /\ Fenced(refs, mode, g, All \ doomed)
  BY Reading DEF GInv, Doom
<1>2. Objs(g) \subseteq All /\ \A o \in All : KeysOf(o) \subseteq Object
  BY TypeFacts, Reading DEF IInv, Inv, Core
<1>3. Tidy(g)
  BY CoreTidy DEF IInv, Inv, Core
<1> QED BY <1>1, <1>2, <1>3 DEF Fence, Fit, Objs

\* A step that marks on this side of the fence, and frees nothing.
LEMMA MarkingStep ==
  ASSUME IInv, GInv, Marking(g), NEW h, Fit(h, All \ doomed), Collector(h)
  PROVE  GInv'
<1>1. h \in GState /\ Listed(h) = Listed(g) /\ Marking(h) /\ Fenced(refs, mode, h, All \ doomed)
  BY DEF Fit, Tidy
<1>2. g' = h /\ refs' = refs /\ open' = open /\ mode' = mode /\ kind' = kind
  BY <1>1, RefsType, Quiet DEF Collector, Freeing, IInv, Inv, Core
<1>3. doomed' = doomed
  BY <1>1 DEF Collector, Freeing, GInv, Doom
<1> QED BY <1>1, <1>2, <1>3 DEF GInv, Doom

\* The first part of marking, and within atomic.
LEMMA PropagateGarbage ==
  ASSUME IInv, GInv, propagate \/ propagateall
  PROVE  GInv'
<1>1. Marking(g)
  BY DEF propagate, propagateall, IInv, Inv, Rest, Phase, Marking
<1>2. ASSUME NEW o \in g.gray PROVE Fit(propagatemark(g, o), All \ doomed)
  <2>1. o \in NW(g)
    BY <1>1 DEF IInv, Inv, Core, Grays, GrayLists
  <2> QED BY <1>1, <2>1, Fencing, VisitFits, RefsType
<1>3. ASSUME propagate PROVE GInv'
  <2>1. PICK o \in g.gray :
          Collector([propagatemark(g, o) EXCEPT
                       !.state = IF propagatemark(g, o).gray = {} THEN "atomic" ELSE @])
    BY <1>3 DEF propagate
  <2> DEFINE p == propagatemark(g, o)
             h == [p EXCEPT !.state = IF p.gray = {} THEN "atomic" ELSE @]
  <2>2. Fit(p, All \ doomed)
    BY <1>2
  <2> HIDE DEF p
  <2>3. p \in GState
    BY <2>2 DEF Fit, Tidy
  <2>4. /\ h \in GState /\ h.state \in {p.state, "atomic"} /\ SameLists(p, h) /\ h.mark = p.mark
        /\ h.touched = p.touched /\ h.ephemeron = p.ephemeron /\ h.next = p.next
    BY <2>3 DEF GState, SameLists, States
  <2> HIDE DEF h
  <2>5. Fit(h, All \ doomed)
    <3>1. Listed(h) = Listed(p) /\ NW(h) = NW(p) /\ Marking(h)
      BY <2>2, <2>4, ListedSame DEF NW, IsWhite, Fit, Marking
    <3> QED BY <2>2, <2>4, <3>1, EditFits DEF Fit, Fenced
  <2> QED BY <1>1, <2>1, <2>5, MarkingStep DEF h, p
<1>4. ASSUME propagateall PROVE GInv'
  BY <1>1, <1>2, <1>4, MarkingStep DEF propagateall
<1> QED BY <1>3, <1>4

\* Steps that only move objects between the gray lists.
LEMMA TurnGarbage ==
  ASSUME IInv, GInv, atomic_enter \/ atomic_again \/ converge_enter \/ converge_again
  PROVE  GInv'
<1>1. Marking(g) /\ g \in GState
  BY RefsType DEF atomic_enter, atomic_again, converge_enter, converge_again, Emptied, IInv, Inv,
     Rest, Phase, Marking
<1>2. Fit(g, All \ doomed)
  BY <1>1, Fencing
<1>3. ASSUME NEW h \in GState, SameLists(g, h), h.state = g.state, h.mark = g.mark,
             h.touched = g.touched,
             h.ephemeron \cup h.next \subseteq g.ephemeron \cup g.next, Collector(h)
      PROVE  GInv'
  <2>1. Listed(h) = Listed(g) /\ NW(h) = NW(g) /\ Marking(h)
    BY <1>1, <1>3, ListedSame DEF NW, IsWhite, Marking
  <2>2. Fit(h, All \ doomed)
    BY <1>2, <1>3, <2>1, EditFits DEF Fit, Fenced
  <2> QED BY <1>1, <1>3, <2>2, MarkingStep
<1>4. CASE atomic_enter
  <2> DEFINE h == [g EXCEPT !.stage = "enter"]
  <2>1. /\ h \in GState /\ SameLists(g, h) /\ h.state = g.state /\ h.mark = g.mark
        /\ h.touched = g.touched /\ h.ephemeron \cup h.next \subseteq g.ephemeron \cup g.next
    BY <1>1 DEF GState, SameLists, Stages
  <2>2. Collector(h)
    BY <1>4 DEF atomic_enter
  <2> HIDE DEF h
  <2> QED BY <1>3, <2>1, <2>2
<1>5. CASE atomic_again
  <2> DEFINE h == [g EXCEPT !.gray = g.saved, !.stage = "again"]
  <2>1. /\ h \in GState /\ SameLists(g, h) /\ h.state = g.state /\ h.mark = g.mark
        /\ h.touched = g.touched /\ h.ephemeron \cup h.next \subseteq g.ephemeron \cup g.next
    BY <1>1 DEF GState, SameLists, Stages
  <2>2. Collector(h)
    BY <1>5 DEF atomic_again
  <2> HIDE DEF h
  <2> QED BY <1>3, <2>1, <2>2
<1>6. ASSUME NEW stage \in Stages, Collector([Round(g) EXCEPT !.stage = stage]) PROVE GInv'
  <2> DEFINE h == [Round(g) EXCEPT !.stage = stage]
  <2>1. /\ h \in GState /\ SameLists(g, h) /\ h.state = g.state /\ h.mark = g.mark
        /\ h.touched = g.touched /\ h.ephemeron \cup h.next \subseteq g.ephemeron \cup g.next
    BY <1>1 DEF GState, SameLists, Round
  <2>2. Collector(h)
    BY <1>6
  <2> HIDE DEF h
  <2> QED BY <1>3, <2>1, <2>2
<1> QED BY <1>4, <1>5, <1>6 DEF converge_enter, converge_again, Stages

\* The roots are marked again, and what touched upvalues hold.
LEMMA RootsGarbage ==
  ASSUME IInv, GInv, atomic_roots
  PROVE  GInv'
<1> DEFINE S == All \ doomed
           b == [g EXCEPT !.saved = g.grayagain, !.state = "inside"]
           h == reallymark(b, {Main, Registry})
           kept == {k \in h.twups : h.mark[k] = "gray" /\ k \in h.openupval}
           seen == (h.twups \ kept) \cap h.touched
           m == reallymark(h, UNION {Values(k) : k \in seen})
           f == [remarkupvals(h) EXCEPT !.stage = "roots"]
<1>1. Marking(g) /\ g \in GState /\ Collector(f)
  BY RefsType DEF atomic_roots, Emptied, IInv, Inv, Rest, Phase, Marking
<1>2. Fence(S) /\ Fit(g, S) /\ {Main, Registry} \subseteq S
  <2>1. {Main, Registry} \subseteq NW(g)
    BY <1>1 DEF IInv, Inv, Rest, RootsMarked
  <2> QED BY <1>1, <2>1, Fencing DEF Fit, Fenced
<1> HIDE DEF S
<1>3. /\ b \in GState /\ SameLists(g, b) /\ b.state = "inside" /\ b.mark = g.mark
      /\ b.touched = g.touched /\ b.ephemeron = g.ephemeron /\ b.next = g.next
  BY <1>1 DEF GState, SameLists, States
<1> HIDE DEF b
<1>4. Fit(b, S)
  <2>1. Listed(b) = Listed(g) /\ NW(b) = NW(g) /\ Marking(b)
    BY <1>3, ListedSame DEF NW, IsWhite, Marking
  <2> QED BY <1>2, <1>3, <2>1, EditFits DEF Fit, Fenced
<1>5. Fit(h, S)
  BY <1>2, <1>4, MarkFits
<1> HIDE DEF h
<1>6. Fit(m, S)
  <2>1. \A k \in seen : Values(k) \subseteq S
    BY <1>5, Reading DEF Fit, Fenced
  <2> HIDE DEF seen
  <2> QED BY <1>2, <1>5, <2>1, MarkFits
<1>7. f = [m EXCEPT !.twups = kept, !.touched = @ \ seen, !.stage = "roots"]
  BY DEF remarkupvals
<1>8. kept \in SUBSET All
  BY <1>5 DEF Fit, Tidy, GState
<1> HIDE DEF m, kept, seen, f
<1>9. m \in GState
  BY <1>6 DEF Fit, Tidy
<1>10. /\ f \in GState /\ SameLists(m, f) /\ f.state = m.state /\ f.mark = m.mark
       /\ f.touched \subseteq m.touched /\ f.ephemeron = m.ephemeron /\ f.next = m.next
  BY <1>7, <1>8, <1>9 DEF GState, SameLists, Stages
<1>11. Fit(f, S)
  <2>1. Listed(f) = Listed(m) /\ NW(f) = NW(m) /\ Marking(f)
    BY <1>6, <1>10, ListedSame DEF NW, IsWhite, Marking, Fit
  <2> QED BY <1>6, <1>10, <2>1, EditFits DEF Fit, Fenced
<1> QED BY <1>1, <1>11, MarkingStep DEF S

\* A round of convergeephemerons.
LEMMA ConvergeGarbage ==
  ASSUME IInv, GInv, converge
  PROVE  GInv'
<1>1. Marking(g) /\ g \in GState
  BY RefsType DEF converge, IInv, Inv, Rest, Phase, Marking
<1>2. Fence(All \ doomed) /\ Fit(g, All \ doomed)
  BY <1>1, Fencing
<1>3. ASSUME NEW t \in g.next, NEW w \in BOOLEAN,
             Collector([traverseephemeron([g EXCEPT !.next = @ \ {t}], t) EXCEPT !.changed = w])
      PROVE  GInv'
  <2> DEFINE b == [g EXCEPT !.next = @ \ {t}]
             m == traverseephemeron(b, t)
             h == [m EXCEPT !.changed = w]
  <2>1. /\ b \in GState /\ SameLists(g, b) /\ b.state = g.state /\ b.mark = g.mark
        /\ b.touched = g.touched /\ b.ephemeron = g.ephemeron /\ b.next \subseteq g.next
    BY <1>1 DEF GState, SameLists
  <2> HIDE DEF b
  <2>2. Fit(b, All \ doomed)
    <3>1. Listed(b) = Listed(g) /\ NW(b) = NW(g) /\ Marking(b)
      BY <1>1, <2>1, ListedSame DEF NW, IsWhite, Marking
    <3> QED BY <1>2, <2>1, <3>1, EditFits DEF Fit, Fenced
  <2>3. t \in All \ doomed /\ mode[t] = "k"
    <3>1. t \in NW(g)
      BY <1>1 DEF IInv, Inv, Core, Grays, GrayLists
    <3> QED BY <1>2, <3>1 DEF Fit, Fenced
  <2>4. Fit(m, All \ doomed)
    BY <1>2, <2>2, <2>3, WeakFits
  <2> HIDE DEF m
  <2>5. m \in GState
    BY <2>4 DEF Fit, Tidy
  <2>6. /\ h \in GState /\ SameLists(m, h) /\ h.state = m.state /\ h.mark = m.mark
        /\ h.touched = m.touched /\ h.ephemeron = m.ephemeron /\ h.next = m.next
    BY <2>5 DEF GState, SameLists
  <2>7. Collector(h)
    BY <1>3 DEF m, b
  <2> HIDE DEF h
  <2>8. Fit(h, All \ doomed)
    <3>1. Listed(h) = Listed(m) /\ NW(h) = NW(m) /\ Marking(h)
      BY <2>4, <2>6, ListedSame DEF NW, IsWhite, Marking, Fit
    <3> QED BY <2>4, <2>6, <3>1, EditFits DEF Fit, Fenced
  <2> QED BY <1>1, <2>7, <2>8, MarkingStep
<1>4. ASSUME Collector(Round(g)) PROVE GInv'
  <2> DEFINE h == Round(g)
  <2>1. /\ h \in GState /\ SameLists(g, h) /\ h.state = g.state /\ h.mark = g.mark
        /\ h.touched = g.touched /\ h.ephemeron \cup h.next \subseteq g.ephemeron \cup g.next
    BY <1>1 DEF GState, SameLists, Round
  <2> HIDE DEF h
  <2>2. Fit(h, All \ doomed)
    <3>1. Listed(h) = Listed(g) /\ NW(h) = NW(g) /\ Marking(h)
      BY <1>1, <2>1, ListedSame DEF NW, IsWhite, Marking
    <3> QED BY <1>2, <2>1, <3>1, EditFits DEF Fit, Fenced
  <2> QED BY <1>1, <1>4, <2>2, MarkingStep DEF h
<1> DEFINE e(t) == traverseephemeron([g EXCEPT !.next = @ \ {t}], t)
           w(t) == \E v \in EphemeronValues(g, t) : IsWhite(g, v)
<1>5. \/ \E t \in g.next : Collector([e(t) EXCEPT !.changed = @ \/ w(t)])
      \/ Collector(Round(g))
  BY DEF converge
<1>6. \A t : [e(t) EXCEPT !.changed = @ \/ w(t)] = [e(t) EXCEPT !.changed = e(t).changed \/ w(t)]
  OBVIOUS
<1>7. \A t : (e(t).changed \/ w(t)) \in BOOLEAN
  OBVIOUS
<1> QED BY <1>3, <1>4, <1>5, <1>6, <1>7

\* Keys that make no difference.
LEMMA KeptBounded ==
  ASSUME NEW o, NEW S, NEW T, S \cap KeysOf(o) \subseteq T \cup StringsIn(KeysOf(o))
  PROVE  Kept(o, S) \subseteq Kept(o, T)
<1> DEFINE lasting(Z) == Z \cup {Null} \cup StringsIn(KeysOf(o))
           e(Z) == IF mode[o] = "strong" THEN refs[o]
                   ELSE IF mode[o] = "k" THEN {p \in refs[o] : p[1] \in lasting(Z)} ELSE {}
           rest == (IF mode[o] \in {"k", "kv"} THEN {} ELSE KeysOf(o))
                     \cup (IF KindOf(o) = "closure" THEN Upvalue(o) ELSE {})
<1>1. \A Z : Kept(o, Z) = {p[2] : p \in e(Z)} \cup rest
  BY DEF Kept
<1>2. \A p \in refs[o] : p[1] \in lasting(S) => p[1] \in lasting(T)
  <2>1. \A p \in refs[o] : p[1] # Null => p[1] \in KeysOf(o)
    BY DEF KeysOf
  <2> QED BY <2>1
<1> HIDE DEF lasting, rest
<1>3. e(S) \subseteq e(T)
  BY <1>2
<1> HIDE DEF e
<1> QED BY <1>1, <1>3

\* When a cycle begins the fence is around what can be reached.
LEMMA PauseGarbage ==
  ASSUME IInv, GInv, pause
  PROVE  GInv'
<1> DEFINE X == Roots(g) \cup UNION {Values(k) : k \in g.touched}
           R == ReachableFrom(X)
           D == {o \in Listed(g) \ R : KindOf(o) # "string"}
           S == All \ D
           b == [NoGray(g) EXCEPT !.state = "propagate"]
           N == {Main, Registry} \cup Range(g.tobefnz)
           h == reallymark(b, N)
<1>1. /\ g \in GState /\ g.state = "pause" /\ g.stage = "none" /\ ~Marking(g)
      /\ Core(kind, refs, open, mode, g, {}) /\ Heap(h, refs)
      /\ doomed' = D
  BY DEF IInv, Inv, Core, Types, pause, Between, Marking, restartcollection
<1>2. /\ Objs(g) \subseteq All
      /\ \A o \in All : Values(o) \subseteq Object /\ KeysOf(o) \subseteq Object
  BY <1>1, TypeFacts, Reading DEF Core
<1>3. NW(g) = {} /\ Live(g) = Objs(g)
  <2>1. \A o \in Objs(g) : g.mark[o] = "white"
    BY <1>1 DEF Core, Whites, Unswept
  <2> QED BY <1>1, <1>2, <2>1 DEF Core, Shape, NW, IsWhite, Live, isdead
<1>4. X \in SUBSET All
  <2>1. N \subseteq All
    BY <1>1, <1>2 DEF Core, RootsLive, Live
  <2>2. g.touched \subseteq All
    BY <1>1 DEF GState
  <2> QED BY <1>2, <2>1, <2>2, Constants DEF Roots
<1>5. X \subseteq R /\ R \subseteq All /\ \A p \in R : Kept(p, R) \subseteq R
  BY <1>4, Reached
<1>6. N \subseteq R /\ \A k \in g.touched : Values(k) \subseteq R
  BY <1>5 DEF Roots
<1> HIDE DEF X, R
<1>7. ASSUME NEW p \in S PROVE Kept(p, S) \subseteq S
  <2>1. CASE p \in R
    <3>1. KeysOf(p) \subseteq Listed(g)
      <4>1. p \in All
        BY <1>5, <2>1
      <4>2. CASE p \in Objs(g)
        BY <1>1, <1>2, <1>3, <4>1, <4>2, Reading, Constants DEF Core, Closed, Objs
      <4>3. CASE p \notin Objs(g)
        BY <1>1, <4>1, <4>3 DEF Core, Shape, KeysOf
      <4> QED BY <4>2, <4>3
    <3>2. \A k \in S \cap KeysOf(p) : k \in R \/ KindOf(k) = "string"
      BY <3>1
    <3>3. S \cap KeysOf(p) \subseteq R \cup StringsIn(KeysOf(p))
      BY <3>2 DEF StringsIn, KeysOf
    <3>4. Kept(p, S) \subseteq Kept(p, R)
      BY <3>3, KeptBounded
    <3> QED BY <1>5, <2>1, <3>4
  <2>2. CASE p \notin R
    <3>1. p \in All /\ (p \notin Objs(g) \/ KindOf(p) = "string")
      BY <1>6, <2>2 DEF Objs
    <3>2. refs[p] = {}
      BY <1>1, <3>1, Reading DEF Core, Shape
    <3>3. ASSUME KindOf(p) = "closure" PROVE Upvalue(p) = {}
      <4>1. p \in Object /\ p \notin Objs(g)
        BY <3>1, <3>3 DEF KindOf, All
      <4>2. open[p] = Null
        BY <1>1, <4>1 DEF Core, Shape
      <4> QED BY <3>2, <4>2 DEF Upvalue, Values
    <3>4. Kept(p, S) = {}
      BY <3>2, <3>3 DEF Kept, KeysOf
    <3> QED BY <3>4
  <2> QED BY <2>1, <2>2
<1>8. Fence(S)
  <2>1. Sealed(refs, open, mode, S)
    BY <1>7, KeptSeals
  <2>2. Weakly(kind, mode)
    BY DEF GInv, Doom
  <2> QED BY <1>2, <2>1, <2>2 DEF Fence
<1>9. /\ b \in GState /\ SameLists(g, b) /\ SameThreads(g, b) /\ b.mark = g.mark
      /\ b.state = "propagate" /\ b.ephemeron = {} /\ b.next = {}
  BY <1>1 DEF GState, NoGray, States, SameLists, SameThreads
<1> HIDE DEF b
<1>10. Listed(b) = Listed(g) /\ NW(b) = {}
  BY <1>3, <1>9, ListedSame DEF NW, IsWhite
<1>11. R \subseteq S
  BY <1>5
<1>12. Fit(b, S)
  <2>1. Tidy(b)
    BY <1>1, <1>9, CoreTidy DEF Core, Tidy
  <2>2. Fenced(refs, mode, b, S)
    BY <1>6, <1>9, <1>10, <1>11, Reading DEF Fenced, SameThreads
  <2> QED BY <1>9, <1>10, <2>1, <2>2 DEF Fit, Marking
<1>13. Fit(h, S)
  BY <1>6, <1>8, <1>11, <1>12, MarkFits
<1>14. D \subseteq Listed(g) /\ \A o \in D : KindOf(o) # "string"
  OBVIOUS
<1> HIDE DEF h, D
<1>15. g' = h /\ refs' = refs /\ open' = open /\ mode' = mode /\ kind' = kind
  BY <1>1, <1>13, RefsType, Quiet DEF Core, Fit, Tidy
<1>16. D \subseteq Listed(h) /\ Marking(h) /\ Fenced(refs, mode, h, S)
  BY <1>13, <1>14 DEF Fit
<1> QED BY <1>1, <1>8, <1>14, <1>15, <1>16, Reading DEF GInv, Doom, Fence

\* What is to be finalized is needed again, and weak tables lose values.
LEMMA ClearGarbage ==
  ASSUME IInv, GInv, atomic_clear
  PROVE  GInv'
<1> DEFINE ts == g.weak \cup g.allweak
           strings == StringsIn(UNION {Values(t) : t \in ts})
           h == reallymark(g, strings)
           c == WithoutValues(h, refs, ts)
           b == separatetobefnz(h)
           Z == Range(b.tobefnz)
           D == Spare(Z)
           S == All \ D
           s == reallymark(b, Z)
           f == [s EXCEPT !.origweak = g.weak, !.origall = g.allweak, !.stage = "resurrect"]
<1>1. /\ g \in GState /\ g.stage = "converge" /\ g.state = "inside" /\ Marking(g)
      /\ Core(kind, refs, open, mode, g, {}) /\ Rest(refs, g, {})
      /\ Heap(f, c)
  BY DEF IInv, Inv, Core, Types, atomic_clear, Converged, Emptied, Marking, Rest, Phase,
     Separate
<1>2. strings \subseteq Objs(g)
  <2>1. ts \subseteq Live(g) /\ Live(g) = Objs(g)
    BY <1>1 DEF Core, Grays, GrayLists, Shape, Whites, NW
  <2> QED BY <1>1, <2>1, Reading DEF Core, Closed, StringsIn
<1>3. /\ Core(kind, refs, open, mode, h, {}) /\ Rest(refs, h, {}) /\ Marking(h)
      /\ Marked(g, h, strings)
  BY <1>1, <1>2, Mark
<1>4. /\ c \in [All -> SUBSET ((Object \cup {Null}) \X Object)]
      /\ \A o \in All : c[o] \subseteq refs[o]
  <2>1. refs \in [All -> SUBSET ((Object \cup {Null}) \X Object)]
    BY <1>1 DEF Core, Types
  <2> QED BY <2>1 DEF WithoutValues
<1>5. doomed' = Spare(Range(s.tobefnz))
  BY DEF atomic_clear, Separate
<1> HIDE DEF h, b, c
<1>6. h.state = "inside" /\ h.stage = "converge"
  BY <1>1, <1>3 DEF Marked, SamePlace
<1>7. /\ Core(kind, refs, open, mode, b, {}) /\ Marking(b) /\ Listed(b) = Listed(h)
      /\ NW(b) = NW(h) /\ SameThreads(h, b) /\ SameGrays(h, b)
      /\ b \in GState /\ Z \subseteq Objs(b)
  BY <1>3, <1>6, Separated DEF b
<1>8. Z \in SUBSET All
  BY <1>7, TypeFacts DEF Core
<1> HIDE DEF Z
<1>9. Fence(All \ doomed) /\ Fit(g, All \ doomed) /\ doomed \subseteq All
  BY <1>1, Fencing
<1>10. D \subseteq doomed /\ (All \ doomed) \cup Z \subseteq S /\ Sealed(refs, open, mode, S)
  BY <1>8, <1>9, Spared
<1> HIDE DEF D
<1>11. Fence(S) /\ Fit(g, S)
  BY <1>9, <1>10 DEF Fence, Fit, Fenced
<1>12. Fit(h, S)
  <2>1. strings \subseteq S
    <3>1. strings \subseteq All /\ \A o \in strings : KindOf(o) = "string"
      BY <1>1, <1>2, TypeFacts DEF Core, StringsIn
    <3> HIDE DEF strings
    <3> QED BY <1>11, <3>1 DEF Fence
  <2> HIDE DEF strings, S
  <2> QED BY <1>11, <2>1, MarkFits DEF h
<1>13. Fit(b, S)
  BY <1>7, <1>12, EditFits DEF Fit, Fenced, SameThreads, SameGrays
<1>14. Fit(s, S) /\ Marked(b, s, Z)
  <2> HIDE DEF S
  <2> QED BY <1>10, <1>11, <1>13, MarkFits DEF S
<1> HIDE DEF s
<1>15. s \in GState
  BY <1>14 DEF Fit, Tidy
<1>16. /\ f \in GState /\ SameLists(s, f) /\ f.state = s.state /\ f.mark = s.mark
       /\ f.touched = s.touched /\ f.ephemeron = s.ephemeron /\ f.next = s.next
  BY <1>1, <1>15 DEF GState, SameLists, Stages
<1> HIDE DEF f
<1>17. Fit(f, S)
  <2>1. Listed(f) = Listed(s) /\ NW(f) = NW(s) /\ Marking(f)
    BY <1>14, <1>16, ListedSame DEF NW, IsWhite, Marking, Fit
  <2> QED BY <1>14, <1>16, <2>1, EditFits DEF Fit, Fenced
<1>18. g' = f /\ refs' = c /\ open' = open /\ mode' = mode /\ kind' = kind
  BY <1>1, <1>4, <1>16, <1>17, Quiet DEF Core, Fit
<1>19. doomed' = D
  BY <1>5, <1>14 DEF Marked, SameLists, D, Z
<1>20. Sealed(c, open, mode, S)
  <2>1. \A o \in S : \A e \in c[o] : e \in refs[o]
    BY <1>4
  <2>2. \A o \in S \cap Object : open[o] # Null => \A e \in c[open[o]] : e \in refs[open[o]]
    BY <1>4, RefsType, Constants
  <2> HIDE DEF S
  <2> QED BY <1>10, <2>1, <2>2, StaysSealed
<1>21. Fenced(c, mode, f, S)
  <2>1. f.touched \subseteq All
    BY <1>16 DEF GState
  <2>2. \A k \in All : Val(c, k) \subseteq Val(refs, k)
    BY <1>4 DEF Val
  <2> QED BY <1>17, <2>1, <2>2 DEF Fit, Fenced
<1>22. D \subseteq Listed(f) /\ (\A o \in D : KindIn(kind, o) # "string") /\ Weakly(kind, mode)
  BY <1>10, <1>17 DEF Fit, GInv, Doom
<1> QED BY <1>17, <1>18, <1>19, <1>20, <1>21, <1>22 DEF GInv, Doom, Fit

-----------------------------------------------------------------------------
(* Sweeping.  What is dead stays dead, and goes. *)

\* What there is are objects.
LEMMA DoomedObjects ==
  ASSUME IInv, GInv
  PROVE  doomed \subseteq Listed(g) /\ doomed \subseteq Objs(g) /\ doomed \subseteq All
BY TypeFacts DEF IInv, Inv, Core, GInv, Doom, Objs

\* A step after the marking, by which no doomed object that stays comes back to life.
LEMMA DeadStay ==
  ASSUME IInv, GInv, NEW h \in GState, NEW c, Heap(h, c), ~Marking(h),
         doomed' \subseteq doomed \cap Listed(h), \A o \in doomed' : isdead(h, o)
  PROVE  GInv'
<1> DEFINE freed == Listed(g) \ Listed(h)
<1>1. /\ g' = [h EXCEPT !.openupval = @ \ freed, !.touched = @ \ freed,
                         !.mark = [o \in All |-> IF o \in freed THEN "white" ELSE @[o]]]
      /\ mode' = [o \in All |-> IF o \in freed THEN "strong" ELSE mode[o]]
      /\ kind' = kind
  BY DEF Heap
<1>2. freed \cap Listed(h) = {}
  OBVIOUS
<1> HIDE DEF freed
<1>3. SameLists(h, g') /\ g'.state = h.state
      /\ \A o \in All : o \notin freed => g'.mark[o] = h.mark[o]
  BY <1>1 DEF GState, SameLists
<1>4. Listed(g') = Listed(h) /\ ~Marking(g')
  BY <1>3, ListedSame DEF Marking
<1>5. Weakly(kind', mode')
  <2>1. Weakly(kind, mode)
    BY DEF GInv, Doom
  <2> QED BY <1>1, <2>1 DEF Weakly
<1>6. \A o \in doomed' : isdead(g', o)
  BY <1>2, <1>3, DoomedObjects DEF isdead
<1>7. \A o \in doomed' : KindIn(kind', o) # "string"
  BY <1>1 DEF GInv, Doom
<1> QED BY <1>4, <1>5, <1>6, <1>7 DEF GInv, Doom

\* A sweep makes only white what lives.
LEMMA SweptGarbage ==
  ASSUME IInv, GInv, NEW b, NEW h, NEW c, Swept(b, h), Freeing(h, c),
         \A o \in doomed : isdead(b, o)
  PROVE  GInv'
<1>1. h \in GState /\ ~Marking(h) /\ \A o \in All : h.mark[o] = b.mark[o] \/ o \in Live(b)
  BY DEF Swept
<1>2. \A o \in doomed : isdead(h, o)
  BY <1>1, DoomedObjects DEF isdead, Live
<1> QED BY <1>1, <1>2, DeadStay DEF Freeing

\* The whites change places: the doomed, behind the fence, are dead.
LEMMA FlipGarbage ==
  ASSUME IInv, GInv, atomic_flip
  PROVE  GInv'
<1>1. Marking(g)
  BY DEF atomic_flip, Converged, Emptied, IInv, Inv, Rest, Phase, Marking
<1>2. PICK x, c : /\ Types(kind, c, open, mode, x) /\ Shape(kind, c, open, x)
                  /\ Closed(c, open, x) /\ RootsLive(x)
                  /\ x.openupval \cap Live(x) \subseteq x.twups /\ Listed(x) = Listed(g)
                  /\ \A o \in Live(x) : o \in NW(g) \/ KindOf(o) = "string"
                  /\ Freeing(entersweep(x), c)
  BY Flipping
<1>3. PICK b : Swept(b, entersweep(x)) /\ b.mark = x.mark
  BY <1>2, Entering
<1>4. ASSUME NEW o \in doomed PROVE isdead(x, o)
  <2>1. o \in Objs(x)
    BY <1>2, DoomedObjects DEF Objs
  <2>2. o \notin NW(g)
    BY <1>1, Fencing DEF Fit, Fenced
  <2>3. KindOf(o) # "string"
    BY Reading DEF GInv, Doom
  <2> QED BY <1>2, <2>1, <2>2, <2>3 DEF Live
<1> QED BY <1>2, <1>3, <1>4, SweptGarbage DEF isdead

\* The sweep, to its end.
LEMMA SweepGarbage ==
  ASSUME IInv, GInv, MaxFinal <= SweepMax, sweepstep \/ swpend
  PROVE  GInv'
<1>1. PICK h : Swept(g, h) /\ Collector(h)
  BY Sweeping, SweepEnds
<1>2. g.state \in DOMAIN Sweeps \cup {"swpend"}
  BY DEF sweepstep, swpend
<1>3. ~Marking(g)
  BY <1>2 DEF Sweeps, Marking
<1> QED BY <1>1, <1>3, SweptGarbage DEF GInv, Doom, Collector

\* Between two cycles none of the doomed is left.
LEMMA NoneLeft ==
  ASSUME IInv, GInv, g.state \in {"pause", "callfin"}
  PROVE  doomed = {}
<1>1. ~Marking(g) /\ Unswept(g) = {}
  BY DEF Marking, Unswept
<1>2. \A o \in Objs(g) : g.mark[o] = "white"
  BY <1>1 DEF IInv, Inv, Core, Whites
<1> QED BY <1>1, <1>2, DoomedObjects DEF GInv, Doom, isdead

\* The cycle ends, or the program starts it again.
LEMMA EndGarbage ==
  ASSUME IInv, GInv, callfin \/ luaC_fullgc
  PROVE  GInv'
<1>1. g \in GState
  BY RefsType
<1>2. ASSUME g.state = "callfin", Heap([g EXCEPT !.state = "pause"], refs),
             doomed' = {} \/ doomed' = doomed \cap Listed([g EXCEPT !.state = "pause"])
      PROVE  GInv'
  <2> DEFINE h == [g EXCEPT !.state = "pause"]
  <2>1. h \in GState /\ ~Marking(h)
    BY <1>1 DEF GState, States, Marking
  <2>2. doomed' = {}
    BY <1>2, NoneLeft
  <2> HIDE DEF h
  <2> QED BY <1>2, <2>1, <2>2, DeadStay DEF h
<1>3. CASE callfin
  BY <1>2, <1>3 DEF callfin, Collector, Freeing
<1>4. ASSUME luaC_fullgc, keepinvariant(g), Heap(entersweep(g), refs) PROVE GInv'
  <2>1. /\ Types(kind, refs, open, mode, g) /\ Shape(kind, refs, open, g)
        /\ Closed(refs, open, g) /\ RootsLive(g) /\ Threads(kind, g)
    BY DEF IInv, Inv, Core
  <2>2. g.openupval \cap Live(g) \subseteq g.twups
    BY <1>4, <2>1 DEF Threads, keepinvariant
  <2>3. PICK b : Swept(b, entersweep(g))
    BY <2>1, <2>2, Entering
  <2>4. doomed' = {}
    BY <1>4 DEF luaC_fullgc
  <2> QED BY <1>4, <2>3, <2>4, DeadStay DEF Swept
<1>5. CASE luaC_fullgc
  BY <1>2, <1>4, <1>5 DEF luaC_fullgc
<1> QED BY <1>3, <1>5

-----------------------------------------------------------------------------
(* What the program does *)

\* While the collector marks, the program has nothing doomed at hand.
LEMMA OnThisSide ==
  ASSUME IInv, GInv, Marking(g)
  PROVE  {Main, Registry} \cup Stack \subseteq All \ doomed
<1>1. Fence(All \ doomed) /\ Fit(g, All \ doomed)
  BY Fencing
<1>2. {Main, Registry} \subseteq NW(g)
  BY DEF IInv, Inv, Rest, RootsMarked
<1>3. {Main, Registry} \subseteq All \ doomed
  BY <1>1, <1>2 DEF Fit, Fenced
<1>4. KindOf(Main) # "table"
  BY DEF KindOf
<1> QED BY <1>1, <1>3, <1>4, StrongKeeps DEF Stack

\* A step between those of the collector, that writes what is on this side of the
\* fence, opens upvalues there, and makes no doomed object white.
LEMMA Worked ==
  ASSUME IInv, GInv, kind' = kind, mode' = mode, g'.state = g.state,
         doomed' \subseteq doomed \cap Listed(g'), NEW S, S = All \ doomed',
         Marking(g) =>
           /\ Sealed(refs, open, mode, S) /\ NW(g') \subseteq S
           /\ g'.ephemeron = g.ephemeron /\ g'.next = g.next
           /\ \A c \in g'.touched : c \in All /\ (c \in g.touched \/ Val(refs, c) \subseteq S)
           /\ \A o \in All : \A e \in refs'[o] :
                e \in refs[o] \/ (e[1] \in S \cup {Null} /\ e[2] \in S)
           /\ \A o \in S \cap Object : open'[o] # Null =>
                open'[o] \in All /\ (open'[o] = open[o] \/ Val(refs, open'[o]) \subseteq S),
         ~Marking(g) => \A o \in doomed' : g'.mark[o] = g.mark[o]
  PROVE  GInv'
<1>1. Marking(g') <=> Marking(g)
  BY DEF Marking
<1>2. ASSUME ~Marking(g) PROVE \A o \in doomed' : isdead(g', o)
  BY <1>2 DEF GInv, Doom, isdead
<1>3. ASSUME Marking(g) PROVE Sealed(refs', open', mode, S)
  <2>1. S \subseteq All /\ Sealed(refs, open, mode, S)
    BY <1>3
  <2>2. \A o \in S : \A e \in refs'[o] : e \in refs[o] \/ (e[1] \in S \cup {Null} /\ e[2] \in S)
    BY <1>3
  <2>3. ASSUME NEW o \in S \cap Object, open'[o] # Null, NEW e \in refs'[open'[o]]
        PROVE  e[2] \in S \/ (open'[o] = open[o] /\ e \in refs[open'[o]])
    <3>1. open'[o] \in All /\ (open'[o] = open[o] \/ Val(refs, open'[o]) \subseteq S)
      BY <1>3, <2>3
    <3>2. e \in refs[open'[o]] \/ e[2] \in S
      BY <1>3, <2>3, <3>1
    <3> QED BY <3>1, <3>2 DEF Val
  <2>4. \A o \in S \cap Object : open'[o] # Null =>
          \A e \in refs'[open'[o]] : e[2] \in S \/ (open'[o] = open[o] /\ e \in refs[open'[o]])
    BY <2>3
  <2> QED BY ONLY <2>1, <2>2, <2>4, StaysSealed
<1>4. ASSUME Marking(g) PROVE Fenced(refs', mode, g', S)
  <2>1. Fenced(refs, mode, g, All \ doomed)
    BY <1>3, <1>4 DEF GInv, Doom
  <2>2. ASSUME NEW c \in g'.touched, NEW e \in refs'[c] PROVE e[2] \in S
    <3>1. c \in All /\ Val(refs, c) \subseteq S
      BY <1>4, <2>1, <2>2 DEF Fenced
    <3>2. e \in refs[c] \/ e[2] \in S
      BY <1>4, <2>2, <3>1
    <3> QED BY <3>1, <3>2 DEF Val
  <2> QED BY <1>4, <2>1, <2>2 DEF Fenced, Val
<1>5. doomed' \subseteq Listed(g') /\ \A o \in doomed' : KindIn(kind, o) # "string"
  BY DEF GInv, Doom
<1>6. Weakly(kind, mode)
  BY DEF GInv, Doom
<1> QED BY <1>1, <1>2, <1>3, <1>4, <1>5, <1>6 DEF GInv, Doom

\* The same, with the threads and what is doomed as they were.
LEMMA PlainWork ==
  ASSUME IInv, GInv, kind' = kind, mode' = mode, open' = open, doomed' = doomed,
         g'.state = g.state, SameThreads(g, g'), Listed(g) \subseteq Listed(g'),
         g'.ephemeron = g.ephemeron, g'.next = g.next,
         Marking(g) => NW(g') \subseteq All \ doomed,
         ~Marking(g) => \A o \in doomed : g'.mark[o] = g.mark[o],
         NEW V, Marking(g) => V \subseteq All \ doomed,
         \A o \in All : \A e \in refs'[o] :
           e \in refs[o] \/ (e[1] \in V \cup {Null} /\ e[2] \in V)
  PROVE  GInv'
<1> DEFINE S == All \ doomed'
<1>1. Marking(g) => Sealed(refs, open, mode, S)
  BY DEF GInv, Doom
<1>2. \A c \in g'.touched : c \in All /\ c \in g.touched
  BY RefsType DEF GState, SameThreads
<1>3. \A o \in S \cap Object : open'[o] # Null => open'[o] \in All /\ open'[o] = open[o]
  BY RefsType, Constants
<1>4. doomed' \subseteq doomed \cap Listed(g')
  BY DoomedObjects
<1>5. Marking(g) => V \subseteq S /\ NW(g') \subseteq S
  OBVIOUS
<1>6. ~Marking(g) => \A o \in doomed' : g'.mark[o] = g.mark[o]
  OBVIOUS
<1>7. PICK T : T = S
  OBVIOUS
<1> HIDE DEF S
<1>8. Marking(g) => \A o \in All : \A e \in refs'[o] :
                e \in refs[o] \/ (e[1] \in T \cup {Null} /\ e[2] \in T)
  BY <1>5, <1>7
<1> QED BY <1>1, <1>2, <1>3, <1>4, <1>5, <1>6, <1>7, <1>8, Worked DEF S

\* Steps that leave the collector alone.
LEMMA QuietWork ==
  ASSUME IInv, GInv, kind' = kind, mode' = mode, open' = open, doomed' = doomed, g' = g,
         NEW V, Marking(g) => V \subseteq All \ doomed,
         \A o \in All : \A e \in refs'[o] :
           e \in refs[o] \/ (e[1] \in V \cup {Null} /\ e[2] \in V)
  PROVE  GInv'
<1>1. Marking(g) => NW(g) \subseteq All \ doomed
  BY DEF GInv, Doom, Fenced
<1>2. SameThreads(g, g')
  BY DEF SameThreads
<1>3. /\ g'.state = g.state /\ g'.ephemeron = g.ephemeron /\ g'.next = g.next
      /\ Listed(g) \subseteq Listed(g') /\ \A o \in doomed : g'.mark[o] = g.mark[o]
      /\ (Marking(g) => NW(g') \subseteq All \ doomed)
  BY <1>1
<1> QED BY <1>2, <1>3, PlainWork

\* What a value pushed, or written to o, changes.
LEMMA Entries ==
  ASSUME IInv, NEW p \in All, NEW old, old \subseteq refs[p], NEW k, NEW v
  PROVE  \A o \in All : \A e \in [refs EXCEPT ![p] = old \cup {<<k, v>>}][o] :
           e \in refs[o] \/ (e[1] = k /\ e[2] = v)
BY RefsType

\* The object to be finalized is marked, or lives.
LEMMA GCTMGarbage ==
  ASSUME IInv, GInv, GCTM
  PROVE  GInv'
<1> DEFINE o == Head(g.tobefnz)
<1>1. /\ Untouched(g, g') /\ Listed(g') = Listed(g) /\ o \in Live(g)
      /\ (Marking(g) => o \in NW(g))
      /\ \A x \in All : g'.mark[x] = IF x = o /\ issweepphase(g) THEN "white" ELSE g.mark[x]
  BY GCTMStep
<1>2. /\ kind' = kind /\ mode' = mode /\ open' = open /\ doomed' = doomed
      /\ refs' = [refs EXCEPT ![Main] = @ \cup {<<Null, o>>}]
  BY DEF GCTM
<1> HIDE DEF o
<1>3. \A x \in All : \A e \in refs'[x] : e \in refs[x] \/ (e[1] = Null /\ e[2] = o)
  BY <1>2, Constants, Entries
<1>4. Marking(g) => o \notin doomed /\ NW(g) \subseteq All \ doomed /\ o \in All
  BY <1>1 DEF GInv, Doom, Fenced, NW
<1>5. NW(g') \subseteq NW(g)
  BY <1>1 DEF NW, IsWhite
<1>6. ~Marking(g) => \A x \in doomed : g'.mark[x] = g.mark[x]
  <2>1. ~Marking(g) => o \notin doomed
    BY <1>1 DEF GInv, Doom, Live
  <2> QED BY <1>1, <2>1, DoomedObjects
<1>7. /\ g'.state = g.state /\ SameThreads(g, g') /\ g'.ephemeron = g.ephemeron
      /\ g'.next = g.next
  BY <1>1 DEF Untouched, SameGrays
<1>8. \A x \in All : \A e \in refs'[x] : e \in refs[x] \/ (e[1] \in {o} \cup {Null} /\ e[2] \in {o})
  BY <1>3
<1>9. Marking(g) => {o} \subseteq All \ doomed /\ NW(g') \subseteq All \ doomed
  BY <1>4, <1>5
<1>10. Listed(g) \subseteq Listed(g')
  BY <1>1
<1> QED BY ONLY IInv, GInv, <1>2, <1>6, <1>7, <1>8, <1>9, <1>10, PlainWork

\* A string that is found again, perhaps a dead one.
LEMMA StringGarbage ==
  ASSUME IInv, GInv, NEW s \in Object, internshrstr(s)
  PROVE  GInv'
<1>1. /\ kind' = kind /\ mode' = mode /\ open' = open /\ doomed' = doomed
      /\ refs' = [refs EXCEPT ![Main] = @ \cup {<<Null, s>>}]
      /\ KindOf(s) = "string" /\ g' = IF isdead(g, s) THEN makewhite(g, s) ELSE g
  BY DEF internshrstr, Put, SameShape, Pushed
<1>2. s \in All /\ s \notin doomed /\ g \in GState
  BY <1>1, Constants, Reading, RefsType DEF GInv, Doom
<1>3. /\ SameLists(g, g') /\ SamePlace(g, g') /\ SameThreads(g, g') /\ SameGrays(g, g')
      /\ \A x \in All : g'.mark[x] = g.mark[x] \/ (x = s /\ g'.mark[x] = "white")
  <2>1. CASE isdead(g, s)
    BY <1>1, <1>2, <2>1, Whitened
  <2>2. CASE ~isdead(g, s)
    BY <1>1, <2>2 DEF SameLists, SamePlace, SameThreads, SameGrays
  <2> QED BY <2>1, <2>2
<1>4. Listed(g') = Listed(g) /\ NW(g') \subseteq NW(g)
  BY <1>3, ListedSame DEF NW, IsWhite
<1>5. \A o \in All : \A e \in refs'[o] :
        e \in refs[o] \/ (e[1] \in {s} \cup {Null} /\ e[2] \in {s})
  BY <1>1, Constants, Entries
<1>6. Marking(g) => NW(g') \subseteq All \ doomed /\ {s} \subseteq All \ doomed
  BY <1>2, <1>4 DEF GInv, Doom, Fenced
<1>7. /\ g'.state = g.state /\ g'.ephemeron = g.ephemeron /\ g'.next = g.next
      /\ Listed(g) \subseteq Listed(g') /\ \A x \in doomed : g'.mark[x] = g.mark[x]
  BY <1>2, <1>3, <1>4, DoomedObjects DEF SamePlace, SameGrays
<1> QED BY ONLY IInv, GInv, <1>1, <1>3, <1>5, <1>6, <1>7, PlainWork

\* Steps of the program that the collector does not notice.
LEMMA QuietGarbage ==
  ASSUME IInv, GInv, NEW o \in Object \cup {Registry}, NEW v,
         Pop(v) \/ Unset(o, v) \/ (v \in Object /\ lua_xmove(o, v))
  PROVE  GInv'
<1>1. o \in All /\ refs \in [All -> SUBSET ((Object \cup {Null}) \X Object)]
  BY Constants, RefsType
<1>2. Marking(g) => Stack \subseteq All \ doomed
  BY OnThisSide
<1>3. CASE Pop(v)
  <2>1. /\ kind' = kind /\ mode' = mode /\ open' = open /\ doomed' = doomed /\ g' = g
        /\ refs' = [refs EXCEPT ![Main] = @ \ {<<Null, v>>}]
    BY <1>3 DEF Pop, Put, SameShape
  <2>2. \A x \in All : \A e \in refs'[x] : e \in refs[x]
    BY <1>1, <2>1
  <2> QED BY <1>2, <2>1, <2>2, QuietWork
<1>4. CASE Unset(o, v)
  <2>1. /\ kind' = kind /\ mode' = mode /\ open' = open /\ doomed' = doomed /\ g' = g
        /\ refs' = [refs EXCEPT ![o] = @ \ {v}]
    BY <1>4 DEF Unset, Put, SameShape
  <2>2. \A x \in All : \A e \in refs'[x] : e \in refs[x]
    BY <1>1, <2>1
  <2> QED BY <1>2, <2>1, <2>2, QuietWork
<1>5. CASE v \in Object /\ lua_xmove(o, v)
  <2>1. /\ kind' = kind /\ mode' = mode /\ open' = open /\ doomed' = doomed /\ g' = g
        /\ refs' = [refs EXCEPT ![o] = {} \cup {<<Null, v>>}] /\ v \in Stack
    BY <1>5 DEF lua_xmove, Put, SameShape
  <2>2. \A x \in All : \A e \in refs'[x] : e \in refs[x] \/ (e[1] = Null /\ e[2] = v)
    BY <1>1, <2>1, Entries
  <2> QED BY <1>2, <2>1, <2>2, QuietWork
<1> QED BY <1>3, <1>4, <1>5

\* A table is written, with the barrier that goes back.
LEMMA TableGarbage ==
  ASSUME IInv, GInv, NEW t \in Object \cup {Registry}, NEW k \in Object \cup {Null},
         NEW v \in Object, SetTable(t, k, v)
  PROVE  GInv'
<1> DEFINE rest == {e \in refs[t] : e[1] # k}
           c == /\ g.mark[t] = "black"
                /\ \E w \in UNION {{e[1], e[2]} \ {Null} : e \in {<<k, v>>}} : IsWhite(g, w)
<1>1. /\ kind' = kind /\ mode' = mode /\ open' = open /\ doomed' = doomed
      /\ refs' = [refs EXCEPT ![t] = rest \cup {<<k, v>>}]
      /\ k \in Stack \cup {Null} /\ v \in Stack
      /\ g' = IF c THEN [g EXCEPT !.mark[t] = "gray",
                                  !.grayagain = IF keepinvariant(g) THEN @ \cup {t} ELSE @]
              ELSE g
  BY DEF SetTable, Put, SameShape, luaC_barrierback
<1> HIDE DEF c
<1>2. t \in All /\ g \in GState /\ t \in Live(g)
  <2>1. t \in Stack \cup {Registry}
    BY DEF SetTable, TableAt, Holds
  <2> QED BY <2>1, AtHand, RefsType
<1>3. /\ g'.state = g.state /\ SameLists(g, g') /\ SameThreads(g, g')
      /\ g'.ephemeron = g.ephemeron /\ g'.next = g.next
      /\ \A x \in All : \/ g'.mark[x] = g.mark[x]
                        \/ x = t /\ g.mark[x] = "black" /\ g'.mark[x] = "gray"
  <2>1. CASE c
    <3>1. g.mark[t] = "black"
      BY <2>1 DEF c
    <3>2. g' = [g EXCEPT !.mark[t] = "gray",
                         !.grayagain = IF keepinvariant(g) THEN @ \cup {t} ELSE @]
      BY <1>1, <2>1
    <3> QED BY <1>2, <3>1, <3>2 DEF GState, SameLists, SameThreads
  <2>2. CASE ~c
    BY <1>1, <2>2 DEF SameLists, SameThreads
  <2> QED BY <2>1, <2>2
<1>4. Listed(g') = Listed(g) /\ NW(g') \subseteq NW(g)
  BY <1>3, ListedSame DEF NW, IsWhite
<1>5. \A o \in All : \A e \in refs'[o] :
        e \in refs[o] \/ (e[1] \in Stack \cup {Null} /\ e[2] \in Stack)
  BY <1>1, <1>2, Entries
<1>6. Marking(g) => NW(g') \subseteq All \ doomed /\ Stack \subseteq All \ doomed
  BY <1>4, OnThisSide DEF GInv, Doom, Fenced
<1>7. Listed(g) \subseteq Listed(g')
  BY <1>4
<1>8. ~Marking(g) => \A x \in doomed : g'.mark[x] = g.mark[x]
  BY <1>2, <1>3, DoomedObjects DEF GInv, Doom, Live
<1> QED BY ONLY IInv, GInv, <1>1, <1>3, <1>5, <1>6, <1>7, <1>8, PlainWork

\* A barrier that marks what the program has at hand.
LEMMA BarrierFits ==
  ASSUME IInv, GInv, NEW X, Marking(g) => X \subseteq All \ doomed,
         NEW m, m = g \/ (Marking(g) /\ m = reallymark(g, X))
  PROVE  /\ m.state = g.state /\ SameLists(g, m) /\ SameThreads(g, m)
         /\ m.ephemeron = g.ephemeron /\ m.next = g.next /\ m \in GState
         /\ Marking(g) => NW(m) \subseteq All \ doomed
         /\ ~Marking(g) => m.mark = g.mark
<1> DEFINE S == All \ doomed
<1>1. CASE m = g
  BY <1>1, RefsType DEF SameLists, SameThreads, GInv, Doom, Fenced
<1>2. CASE Marking(g) /\ m = reallymark(g, X)
  <2>1. Fence(S) /\ Fit(g, S)
    BY <1>2, Fencing
  <2>2. Fit(m, S) /\ Marked(g, m, X)
    BY <1>2, <2>1, MarkFits
  <2> QED BY <1>2, <2>2 DEF Fit, Fenced, Marked, SamePlace, SameGrays
<1> QED BY <1>1, <1>2

\* A closed upvalue or a uservalue is written, with the barrier that goes on, or in
\* a sweep with the object that is swept.
LEMMA BarrierGarbage ==
  ASSUME IInv, GInv, NEW o \in Object, NEW v \in Object,
         lua_setuservalue(o, v) \/ SetUpvalue(o, v)
  PROVE  GInv'
<1> DEFINE m == IF keepinvariant(g) THEN reallymark(g, {v}) ELSE g
<1>1. /\ kind' = kind /\ mode' = mode /\ open' = open /\ doomed' = doomed
      /\ g.stage = "none" /\ v \in Stack /\ o \in Stack
  BY DEF lua_setuservalue, SetUpvalue, SameShape, Running, Between, Holds
<1>2. /\ g \in GState /\ o \in All /\ o \in Live(g) /\ (keepinvariant(g) <=> Marking(g))
      /\ open[o] \in Object \cup {Null} /\ Object \subseteq All
  BY <1>1, AtHand, RefsType, NotMarking, Constants
<1>3. Marking(g) => Stack \subseteq All \ doomed
  BY OnThisSide
<1>4. \/ /\ g' = g \/ g' = m
         /\ \E p \in All : refs' = [refs EXCEPT ![p] = {<<Null, v>>}]
      \/ /\ ~keepinvariant(g) /\ g' = makewhite(g, o)
         /\ refs' = [refs EXCEPT ![o] = {<<Null, v>>}]
  <2>1. CASE lua_setuservalue(o, v)
    BY <1>2, <2>1 DEF lua_setuservalue, Put, luaC_barrier
  <2>2. CASE SetUpvalue(o, v) /\ open[o] # Null
    BY <1>2, <2>2 DEF SetUpvalue, Put
  <2>3. CASE SetUpvalue(o, v) /\ open[o] = Null
    BY <1>2, <2>3 DEF SetUpvalue, Put, luaC_upvalbarrier
  <2> QED BY <2>1, <2>2, <2>3
<1>5. \A x \in All : \A e \in refs'[x] :
        e \in refs[x] \/ (e[1] \in Stack \cup {Null} /\ e[2] \in Stack)
  <2>1. PICK p \in All : refs' = [refs EXCEPT ![p] = {} \cup {<<Null, v>>}]
    BY <1>2, <1>4
  <2> QED BY <1>1, <2>1, Entries
<1>6. CASE g' = g \/ g' = m
  <2>1. g' = g \/ (Marking(g) /\ g' = reallymark(g, {v}))
    BY <1>2, <1>6
  <2>2. Marking(g) => {v} \subseteq All \ doomed
    BY <1>1, <1>3
  <2>3. /\ g'.state = g.state /\ SameLists(g, g') /\ SameThreads(g, g')
        /\ g'.ephemeron = g.ephemeron /\ g'.next = g.next
        /\ Marking(g) => NW(g') \subseteq All \ doomed
        /\ ~Marking(g) => g'.mark = g.mark
    BY ONLY IInv, GInv, <2>1, <2>2, BarrierFits
  <2>4. Listed(g) \subseteq Listed(g')
    BY <2>3, ListedSame
  <2>5. ~Marking(g) => \A x \in doomed : g'.mark[x] = g.mark[x]
    BY <2>3
  <2> QED BY ONLY IInv, GInv, <1>1, <1>3, <1>5, <2>3, <2>4, <2>5, PlainWork
<1>7. CASE ~keepinvariant(g) /\ g' = makewhite(g, o)
  <2>1. /\ SameLists(g, g') /\ SamePlace(g, g') /\ SameThreads(g, g') /\ SameGrays(g, g')
        /\ \A x \in All : g'.mark[x] = IF x = o THEN "white" ELSE g.mark[x]
    BY <1>2, <1>7, Whitened
  <2>2. ~Marking(g) /\ o \notin doomed
    BY <1>2, <1>7 DEF GInv, Doom, Live
  <2>3. Listed(g) \subseteq Listed(g') /\ \A x \in doomed : g'.mark[x] = g.mark[x]
    BY <2>1, <2>2, ListedSame, DoomedObjects
  <2>4. g'.state = g.state /\ g'.ephemeron = g.ephemeron /\ g'.next = g.next
    BY <2>1 DEF SamePlace, SameGrays
  <2> QED BY ONLY IInv, GInv, <1>1, <1>3, <1>5, <2>1, <2>2, <2>3, <2>4, PlainWork
<1> QED BY <1>4, <1>6, <1>7

\* A new object is not doomed.
LEMMA NewGarbage ==
  ASSUME IInv, GInv, NEW o \in Object, luaC_newobj(o)
  PROVE  GInv'
<1> DEFINE w == makewhite(g, o)
           h == makewhite(Prepend(g, "allgc", o), o)
           S == All \ doomed
<1>1. /\ g.stage = "none" /\ o \notin Allocated /\ kind' = kind /\ mode' = mode
      /\ doomed' = doomed /\ refs' = [refs EXCEPT ![Main] = @ \cup {<<Null, o>>}]
      /\ \/ g' = h /\ open' = open
         \/ \E k \in Stack :
              /\ KindOf(k) = "coroutine" /\ KindOf(o) = "closure"
              /\ open' = [open EXCEPT ![o] = k]
              /\ g' = IF k \in g.openupval THEN h
                      ELSE [h EXCEPT !.openupval = @ \cup {k}, !.touched = @ \cup {k},
                                     !.twups = @ \cup {k}]
  BY DEF luaC_newobj, Running, Between, Pushed
<1>2. o \in All /\ o \notin doomed /\ g \in GState /\ Phase(g)
  BY <1>1, Constants, RefsType, DoomedObjects DEF Allocated, IInv, Inv, Rest
<1>3. h = Prepend(w, "allgc", o)
  BY <1>2, WhitePrepended
<1>4. /\ w \in GState /\ SameLists(g, w) /\ SamePlace(g, w) /\ SameThreads(g, w)
      /\ SameGrays(g, w) /\ Phase(w)
      /\ \A p \in All : w.mark[p] = IF p = o THEN "white" ELSE g.mark[p]
  BY <1>2, Whitened
<1> HIDE DEF w, h
<1>5. Untouched(w, h) /\ h.mark = w.mark /\ Listed(h) = Listed(w) \cup {o}
  BY <1>3, <1>4, Prepended
<1>6. /\ h \in GState /\ h.state = g.state /\ SameThreads(g, h) /\ h.ephemeron = g.ephemeron
      /\ h.next = g.next /\ Listed(h) = Listed(g) \cup {o} /\ NW(h) \subseteq NW(g)
      /\ \A x \in doomed : h.mark[x] = g.mark[x]
  <2>1. Listed(w) = Listed(g)
    BY <1>4, ListedSame
  <2>2. NW(h) \subseteq NW(g)
    BY <1>4, <1>5 DEF NW, IsWhite
  <2>3. \A x \in doomed : h.mark[x] = g.mark[x]
    BY <1>2, <1>4, <1>5, DoomedObjects
  <2> QED BY <1>4, <1>5, <2>1, <2>2, <2>3 DEF Untouched, SamePlace, SameThreads, SameGrays
<1>7. \A x \in All : \A e \in refs'[x] : e \in refs[x] \/ (e[1] = Null /\ e[2] = o)
  <2>1. refs' = [refs EXCEPT ![Main] = refs[Main] \cup {<<Null, o>>}]
    BY <1>1
  <2>2. Main \in All
    BY Constants
  <2> QED BY <2>1, <2>2, Entries
<1>8. /\ Marking(g) => NW(g) \subseteq S
      /\ Marking(g) => Sealed(refs, open, mode, S)
  BY DEF GInv, Doom, Fenced
<1>9. CASE g' = h /\ open' = open
  <2>1. \A x \in All : \A e \in refs'[x] :
          e \in refs[x] \/ (e[1] \in {o} \cup {Null} /\ e[2] \in {o})
    BY <1>7
  <2>2. Marking(g) => NW(g') \subseteq S /\ {o} \subseteq S
    BY <1>2, <1>6, <1>8, <1>9
  <2>3. /\ Listed(g) \subseteq Listed(g') /\ g'.state = g.state /\ SameThreads(g, g')
        /\ g'.ephemeron = g.ephemeron /\ g'.next = g.next
        /\ \A x \in doomed : g'.mark[x] = g.mark[x]
    BY <1>6, <1>9
  <2> QED BY ONLY IInv, GInv, <1>1, <1>9, <2>1, <2>2, <2>3, PlainWork
<1>10. ASSUME NEW k \in Stack, KindOf(k) = "coroutine", open' = [open EXCEPT ![o] = k],
              g' = IF k \in g.openupval THEN h
                   ELSE [h EXCEPT !.openupval = @ \cup {k}, !.touched = @ \cup {k},
                                  !.twups = @ \cup {k}]
       PROVE  GInv'
  <2>1. k \in Object /\ k \in All /\ open \in [Object -> Object \cup {Null}]
    BY AtHand, Constants, RefsType
  <2>2. /\ SameLists(h, g') /\ g'.state = h.state /\ g'.mark = h.mark
        /\ g'.ephemeron = h.ephemeron /\ g'.next = h.next
        /\ g'.touched \subseteq h.touched \cup {k}
    <3>1. CASE k \in g.openupval
      BY <1>10, <3>1 DEF SameLists
    <3>2. CASE k \notin g.openupval
      BY <1>6, <1>10, <3>2 DEF GState, SameLists
    <3> QED BY <3>1, <3>2
  <2>3. Listed(g') = Listed(g) \cup {o} /\ NW(g') = NW(h)
    BY <1>6, <2>2, ListedSame DEF NW, IsWhite
  <2>4. Marking(g) => Val(refs, k) \subseteq S
    <3>1. Marking(g) => Fence(S) /\ k \in S
      BY Fencing, OnThisSide
    <3> HIDE DEF S
    <3>2. Marking(g) => Values(k) \subseteq S
      BY <1>10, <3>1, StrongKeeps
    <3> QED BY <3>2, Reading
  <2>5. \A c \in g'.touched : c \in All /\ (c \in g.touched \/ c = k)
    BY <1>2, <1>6, <2>1, <2>2 DEF GState, SameThreads
  <2>6. \A p \in Object : open'[p] # Null =>
          open'[p] \in All /\ (open'[p] = open[p] \/ open'[p] = k)
    BY <1>10, <2>1, Constants
  <2>7. \A x \in doomed' : g'.mark[x] = g.mark[x]
    BY <1>1, <1>6, <2>2
  <2>8. doomed' \subseteq doomed \cap Listed(g')
    BY <1>1, <2>3, DoomedObjects
  <2>9. Marking(g) => NW(g') \subseteq S
    BY <1>6, <1>8, <2>3
  <2>10. S = All \ doomed' /\ o \in S
    BY <1>1, <1>2
  <2> HIDE DEF S
  <2>11. Marking(g) => \A x \in All : \A e \in refs'[x] :
           e \in refs[x] \/ (e[1] \in S \cup {Null} /\ e[2] \in S)
    BY <1>7, <2>10
  <2>12. g'.state = g.state /\ g'.ephemeron = g.ephemeron /\ g'.next = g.next
    BY <1>6, <2>2
  <2>13. Marking(g) => \A c \in g'.touched :
           c \in All /\ (c \in g.touched \/ Val(refs, c) \subseteq S)
    BY <2>4, <2>5
  <2>14. Marking(g) => \A p \in S \cap Object : open'[p] # Null =>
           open'[p] \in All /\ (open'[p] = open[p] \/ Val(refs, open'[p]) \subseteq S)
    BY <2>4, <2>6
  <2> QED BY ONLY IInv, GInv, <1>1, <1>8, <2>7, <2>8, <2>9, <2>10, <2>11, <2>12, <2>13, <2>14,
                  Worked
<1> QED BY <1>1, <1>9, <1>10


\* What the program reads is spared, with all it keeps.
LEMMA LoadGarbage ==
  ASSUME IInv, GInv, NEW o \in Object \cup {Registry}, NEW v \in Object, Load(o, v)
  PROVE  GInv'
<1> DEFINE S == All \ doomed'
<1>1. /\ kind' = kind /\ mode' = mode /\ open' = open /\ g' = g
      /\ refs' = [refs EXCEPT ![Main] = refs[Main] \cup {<<Null, v>>}]
      /\ doomed' = Spare({v})
  BY DEF Load, Put, Pushed
<1>2. /\ doomed \subseteq Listed(g) /\ doomed \subseteq All /\ {v} \in SUBSET All
      /\ Main \in All
  BY DoomedObjects, Constants
<1>3. /\ Spare({v}) \subseteq doomed /\ (All \ doomed) \cup {v} \subseteq All \ Spare({v})
      /\ Sealed(refs, open, mode, All \ Spare({v}))
  BY ONLY IInv, <1>2, Spared
<1>4. /\ doomed' \subseteq doomed \cap Listed(g') /\ All \ doomed \subseteq S /\ v \in S
      /\ Sealed(refs, open, mode, S)
  BY <1>1, <1>2, <1>3
<1>5. PICK T : T = S
  OBVIOUS
<1> HIDE DEF S
<1>6. \A x \in All : \A e \in refs'[x] : e \in refs[x] \/ (e[1] = Null /\ e[2] = v)
  BY <1>1, <1>2, Entries
<1>7. \A x \in All : \A e \in refs'[x] :
        e \in refs[x] \/ (e[1] \in S \cup {Null} /\ e[2] \in S)
  BY <1>4, <1>6
<1>8. Marking(g) => NW(g') \subseteq S
  BY <1>1, <1>4 DEF GInv, Doom, Fenced
<1>9. \A c \in g'.touched : c \in All /\ c \in g.touched
  BY <1>1, RefsType DEF GState
<1>10. \A x \in S \cap Object : open'[x] # Null => open'[x] \in All /\ open'[x] = open[x]
  BY <1>1, RefsType, Constants
<1>11. /\ g'.state = g.state /\ g'.ephemeron = g.ephemeron /\ g'.next = g.next
       /\ \A x \in doomed' : g'.mark[x] = g.mark[x]
  BY <1>1
<1> QED BY ONLY IInv, GInv, <1>1, <1>4, <1>7, <1>8, <1>9, <1>10, <1>11, Worked DEF S

\* A table changes its mode: what was in it is spared.
LEMMA SetModeGarbage ==
  ASSUME IInv, GInv, NEW t \in Object \cup {Registry}, NEW m \in Modes, SetMode(t, m)
  PROVE  GInv'
<1> DEFINE S == All \ doomed'
           X == Values(t) \cup KeysOf(t)
<1>1. /\ kind' = kind /\ refs' = refs /\ open' = open /\ g' = g /\ g.stage = "none"
      /\ mode' = [mode EXCEPT ![t] = m] /\ doomed' = Spare(X)
      /\ t \in Stack /\ KindOf(t) = "table"
  BY DEF SetMode, Running, Between, Holds
<1>2. /\ doomed \subseteq Listed(g) /\ doomed \subseteq All /\ t \in Object /\ t \in All
      /\ X \in SUBSET All /\ X \subseteq Object
  BY <1>1, DoomedObjects, AtHand, Constants
<1> HIDE DEF X
<1>3. /\ Spare(X) \subseteq doomed /\ (All \ doomed) \cup X \subseteq All \ Spare(X)
      /\ Sealed(refs, open, mode, All \ Spare(X))
  BY ONLY IInv, <1>2, Spared
<1>4. /\ doomed' \subseteq doomed /\ All \ doomed \subseteq S /\ X \subseteq S
      /\ Sealed(refs, open, mode, S)
  BY <1>1, <1>3
<1> HIDE DEF S
<1>5. Weakly(kind', mode')
  <2>1. Weakly(kind, mode)
    BY DEF GInv, Doom
  <2>2. \A o \in All : mode'[o] = IF o = t THEN m ELSE mode[o]
    BY <1>1, <1>2, RefsType
  <2>3. KindIn(kind, t) = "table"
    BY <1>1, Reading
  <2> QED BY <1>1, <1>2, <2>1, <2>2, <2>3 DEF Weakly
<1>6. ASSUME Marking(g) PROVE Sealed(refs', open', mode', S)
  <2>1. SUFFICES ASSUME NEW o \in S
        PROVE  /\ \A e \in refs[o] :
                    /\ mode'[o] \in {"strong", "v"} /\ e[1] # Null => e[1] \in S
                    /\ mode'[o] = "strong" => e[2] \in S
                    /\ mode'[o] = "k" /\ e[1] \in S \cup {Null} => e[2] \in S
               /\ o \in Object /\ open[o] # Null => Val(refs, open[o]) \subseteq S
    BY <1>1 DEF Sealed
  <2>2. o \in Object /\ open[o] # Null => Val(refs, open[o]) \subseteq S
    BY <1>4 DEF Sealed
  <2>3. o \in All /\ mode'[o] = IF o = t THEN m ELSE mode[o]
    BY <1>1, <1>2, RefsType DEF S
  <2>4. ASSUME NEW e \in refs[o]
        PROVE  /\ mode'[o] \in {"strong", "v"} /\ e[1] # Null => e[1] \in S
               /\ mode'[o] = "strong" => e[2] \in S
               /\ mode'[o] = "k" /\ e[1] \in S \cup {Null} => e[2] \in S
    <3>1. CASE o = t
      <4>1. e[2] \in Values(t) /\ (e[1] # Null => e[1] \in KeysOf(t))
        BY <3>1, <2>4 DEF Values, KeysOf
      <4> QED BY <1>4, <4>1 DEF X
    <3>2. CASE o # t
      BY <1>4, <2>3, <2>4, <3>2 DEF Sealed
    <3> QED BY <3>1, <3>2
  <2> QED BY <2>2, <2>4
<1>7. ASSUME Marking(g) PROVE Fenced(refs', mode', g', S)
  <2>1. g.ephemeron = {} /\ g.next = {}
    BY <1>1, <1>7 DEF IInv, Inv, Core, Lists, Grays, Converging
  <2> QED BY <1>1, <1>4, <1>7, <2>1 DEF GInv, Doom, Fenced
<1>8. ~Marking(g) => \A o \in doomed' : isdead(g', o)
  BY <1>1, <1>4 DEF GInv, Doom
<1>9. doomed' \subseteq Listed(g') /\ \A o \in doomed' : KindIn(kind', o) # "string"
  BY <1>1, <1>2, <1>4 DEF GInv, Doom
<1> QED BY <1>1, <1>5, <1>6, <1>7, <1>8, <1>9 DEF GInv, Doom, S


\* The upvalues of a coroutine take their value with them.
LEMMA FcloseGarbage ==
  ASSUME IInv, GInv, NEW k \in Object, luaF_close(k)
  PROVE  GInv'
<1> DEFINE cs == {c \in Object : open[c] = k}
           h == [g EXCEPT !.openupval = @ \ {k}, !.touched = @ \ {k}]
           S == All \ doomed
<1>1. /\ g.stage = "none" /\ k \in Stack /\ KindOf(k) = "coroutine" /\ kind' = kind
      /\ g' = h \/ g' = IF keepinvariant(h) THEN reallymark(h, Values(k)) ELSE h
      /\ refs' = [o \in All |-> IF o = k THEN {} ELSE IF o \in cs THEN refs[k] ELSE refs[o]]
      /\ open' = [c \in Object |-> IF c \in cs THEN Null ELSE open[c]]
      /\ mode' = mode /\ doomed' = doomed
  BY DEF luaF_close, Running, Between, Put, Holds, luaC_upvalbarrier
<1>2. /\ g \in GState /\ k \in All /\ open \in [Object -> Object \cup {Null}]
      /\ Object \subseteq All /\ Null \notin All
  BY <1>1, AtHand, RefsType, Constants
<1>3. /\ h \in GState /\ h.state = g.state /\ h.mark = g.mark /\ SameLists(g, h)
      /\ h.touched \subseteq g.touched /\ h.ephemeron = g.ephemeron /\ h.next = g.next
  <2>1. g \in GState
    BY <1>2
  <2> QED BY <2>1 DEF GState, SameLists
<1>4. g' = h \/ (Marking(g) /\ g' = reallymark(h, Values(k)))
  <2>1. keepinvariant(h) => Marking(g)
    BY <1>1, <1>3, NotMarking DEF keepinvariant
  <2> QED BY <1>1, <2>1
<1> HIDE DEF h, cs
<1>5. ASSUME Marking(g)
      PROVE  /\ Fit(g', S) /\ g'.state = g.state /\ Values(k) \subseteq S /\ k \in S
             /\ g'.touched \subseteq g.touched
             /\ g'.ephemeron = g.ephemeron /\ g'.next = g.next
  <2>1. Fence(S) /\ Fit(g, S) /\ k \in S
    BY <1>1, <1>5, Fencing, OnThisSide
  <2> HIDE DEF S
  <2>2. Values(k) \subseteq S
    BY <1>1, <2>1, StrongKeeps
  <2>3. Marking(h) /\ Listed(h) = Listed(g) /\ NW(h) \subseteq S
    <3>1. NW(h) = NW(g) /\ NW(g) \subseteq S
      BY <1>3, <2>1 DEF NW, IsWhite, Fit, Fenced
    <3> QED BY <1>3, <1>5, <3>1, ListedSame DEF Marking
  <2>4. Fit(h, S)
    BY ONLY <1>3, <2>1, <2>3, EditFits
  <2>5. CASE g' = h
    BY <1>3, <2>1, <2>2, <2>4, <2>5
  <2>6. CASE g' = reallymark(h, Values(k))
    <3>1. Fit(g', S) /\ Marked(h, g', Values(k))
      BY <2>1, <2>2, <2>4, <2>6, MarkFits
    <3> QED BY <1>3, <2>1, <2>2, <3>1 DEF Marked, SamePlace, SameThreads, SameGrays
  <2> QED BY <1>4, <2>5, <2>6
<1>6. \A e \in refs[k] : e[1] = Null
  BY <1>1, <1>2, Reading DEF IInv, Inv, Core, Shape, Key
<1>7. Marking(g) => \A x \in All : \A e \in refs'[x] :
        e \in refs[x] \/ (e[1] \in S \cup {Null} /\ e[2] \in S)
  <2>1. \A e \in refs[k] : e[2] \in Values(k)
    BY DEF Values
  <2>2. \A x \in All : \A e \in refs'[x] : e \in refs[x] \/ e \in refs[k]
    BY <1>1
  <2> QED BY <1>5, <1>6, <2>1, <2>2
<1>8. \A x \in S \cap Object : open'[x] # Null => open'[x] \in All /\ open'[x] = open[x]
  BY <1>1, <1>2
<1>9. Marking(g) => \A c \in g'.touched : c \in All /\ c \in g.touched
  BY <1>2, <1>5 DEF GState
<1>10. Sealed(refs, open, mode, S) \/ ~Marking(g)
  BY DEF GInv, Doom
<1>11. Listed(g') = Listed(g) /\ g'.state = g.state
  <2>1. CASE g' = h
    BY <1>3, <2>1, ListedSame
  <2>2. CASE Marking(g)
    BY <1>5, <2>2 DEF Fit
  <2> QED BY <1>4, <2>1, <2>2
<1>12. doomed' \subseteq doomed \cap Listed(g') /\ S = All \ doomed'
  BY <1>1, <1>11, DoomedObjects
<1>13. ~Marking(g) => \A x \in doomed' : g'.mark[x] = g.mark[x]
  BY <1>3, <1>4
<1>14. Marking(g) => NW(g') \subseteq S /\ g'.ephemeron = g.ephemeron /\ g'.next = g.next
  BY <1>5 DEF Fit, Fenced
<1> HIDE DEF S
<1> QED BY ONLY IInv, GInv, <1>1, <1>7, <1>8, <1>9, <1>10, <1>11, <1>12, <1>13, <1>14, Worked


\* An object gets a finalizer: the program has it, so it is not doomed.
LEMMA CheckfinalizerGarbage ==
  ASSUME IInv, GInv, NEW o \in Object, luaC_checkfinalizer(o)
  PROVE  GInv'
<1>1. PICK x, y :
        /\ Heap(y, refs) /\ o \in Live(g) \cap Stack
        /\ doomed' \subseteq doomed \cap Listed(y)
        /\ doomed \cap Listed(y) \subseteq doomed' \cup {o}
        /\ \/ /\ ~Marking(g) /\ Calm(kind, refs, open, mode, x) /\ Listed(x) = Listed(g)
              /\ Swept(x, y) /\ \A z \in All : z = o \/ x.mark[z] = g.mark[z]
           \/ /\ Inv(kind, refs, open, mode, y) /\ Listed(y) = Listed(g)
              /\ Untouched(g, y) /\ y.mark = g.mark
  BY Refinalizing
<1>2. y \in GState
  BY <1>1 DEF Swept, Untouched
<1>3. doomed \subseteq All /\ doomed \subseteq Listed(g)
  BY DoomedObjects
<1>4. CASE ~Marking(g)
  <2>1. \A z \in doomed : isdead(g, z) /\ z # o
    BY <1>1, <1>4 DEF GInv, Doom, Live
  <2>2. ~Marking(y) /\ \A z \in doomed : isdead(y, z)
    <3>1. CASE Swept(x, y) /\ \A z \in All : z = o \/ x.mark[z] = g.mark[z]
      <4>1. \A z \in doomed : isdead(x, z)
        BY <1>3, <2>1, <3>1 DEF isdead
      <4> QED BY <1>3, <3>1, <4>1 DEF Swept, isdead, Live
    <3>2. CASE Untouched(g, y) /\ y.mark = g.mark
      BY <1>4, <2>1, <3>2 DEF Untouched, Marking, isdead
    <3> QED BY <1>1, <3>1, <3>2
  <2>3. \A z \in doomed' : isdead(y, z)
    BY <1>1, <2>2
  <2> QED BY <1>1, <1>2, <2>2, <2>3, DeadStay
<1>5. CASE Marking(g)
  <2>1. Listed(y) = Listed(g) /\ Untouched(g, y) /\ y.mark = g.mark
    BY <1>1, <1>5
  <2>2. g' = y /\ refs' = refs /\ open' = open /\ mode' = mode /\ kind' = kind
    BY <1>1, <1>2, <2>1, RefsType, Quiet DEF IInv, Inv, Core
  <2>3. doomed' = doomed
    BY <1>1, <1>3, <1>5, <2>1, OnThisSide
  <2>4. Marking(g) => NW(g') \subseteq All \ doomed
    <3>1. NW(y) = NW(g)
      BY <2>1 DEF NW, IsWhite
    <3> QED BY <2>2, <3>1 DEF GInv, Doom, Fenced
  <2>5. /\ g'.state = g.state /\ SameThreads(g, g') /\ g'.ephemeron = g.ephemeron
        /\ g'.next = g.next /\ Listed(g) \subseteq Listed(g')
        /\ \A z \in doomed : g'.mark[z] = g.mark[z]
    BY <2>1, <2>2 DEF Untouched, SameGrays
  <2>6. \A z \in All : \A e \in refs'[z] : e \in refs[z]
    BY <2>2
  <2>7. {} \subseteq All \ doomed
    OBVIOUS
  <2> QED BY ONLY IInv, GInv, <2>2, <2>3, <2>4, <2>5, <2>6, <2>7, PlainWork
<1> QED BY <1>4, <1>5

-----------------------------------------------------------------------------
(* The theorem *)

\* Every step of the collector and of the program keeps the doomed behind the fence.
LEMMA GarbageSteps ==
  ASSUME MaxFinal <= SweepMax, IInv, GInv, [GcNext]_gcVars
  PROVE  GInv'
<1>1. CASE CollectorSteps
  BY <1>1, PauseGarbage, PropagateGarbage, TurnGarbage, RootsGarbage, ConvergeGarbage,
     ClearGarbage, FlipGarbage, SweepGarbage, EndGarbage DEF CollectorSteps
<1>2. CASE GCTM
  BY <1>2, GCTMGarbage
<1>3. CASE ProgramSteps
  <2>1. ASSUME NEW o \in Object, luaC_newobj(o) \/ internshrstr(o) \/ Pop(o) \/ luaF_close(o)
                                   \/ luaC_checkfinalizer(o)
        PROVE  GInv'
    BY <2>1, NewGarbage, StringGarbage, QuietGarbage, FcloseGarbage, CheckfinalizerGarbage
  <2>2. ASSUME NEW o \in Object \cup {Registry}, NEW v \in Object, Load(o, v)
        PROVE  GInv'
    BY <2>2, LoadGarbage
  <2>3. ASSUME NEW t \in Object \cup {Registry}, NEW k \in Object \cup {Null}, NEW v \in Object,
               SetTable(t, k, v)
        PROVE  GInv'
    BY <2>3, TableGarbage
  <2>4. ASSUME NEW t \in Object \cup {Registry}, NEW e \in refs[t], Unset(t, e)
        PROVE  GInv'
    BY <2>4, QuietGarbage
  <2>5. ASSUME NEW t \in Object \cup {Registry}, NEW m \in Modes, SetMode(t, m)
        PROVE  GInv'
    BY <2>5, SetModeGarbage
  <2>6. ASSUME NEW o \in Object, NEW v \in Object,
               lua_setuservalue(o, v) \/ SetUpvalue(o, v) \/ lua_xmove(o, v)
        PROVE  GInv'
    BY <2>6, BarrierGarbage, QuietGarbage
  <2> QED BY <1>3, <2>1, <2>2, <2>3, <2>4, <2>5, <2>6 DEF ProgramSteps
<1>4. CASE luaC_fullgc
  BY <1>4, EndGarbage
<1>5. CASE UNCHANGED gcVars
  BY <1>5 DEF gcVars, GInv
<1> QED BY <1>1, <1>2, <1>3, <1>4, <1>5 DEF GcNext

\* Nothing is doomed before the first cycle.
LEMMA GarbageBegins ==
  ASSUME GcInit
  PROVE  GInv
<1>1. PICK h \in Heaps : kind = h.kind /\ mode = h.mode
  BY DEF GcInit
<1>2. doomed = {} /\ g.state = "pause"
  BY DEF GcInit
<1>3. Weakly(kind, mode)
  BY <1>1, GcAssumption DEF GcAssumption, WellFormed, Weakly, KindIn
<1>4. ~Marking(g)
  BY <1>2 DEF Marking
<1> QED BY <1>2, <1>3, <1>4 DEF GInv, Doom

\* The collector collects: when a cycle is over and the next has not begun, nothing
\* is left of what was out of reach when it began, except what the program or a
\* finalizer got hold of again; and if an emergency collection broke off the cycle,
\* what is doomed is decided anew (pause, atomic and the sweep states of singlestep).
THEOREM GarbageIsFreed ==
  ASSUME MaxFinal <= SweepMax
  PROVE  GcSpec => []GarbageGoes
<1>1. GcInit => GInv
  BY GarbageBegins
<1>2. IInv /\ GInv /\ [GcNext]_gcVars => GInv'
  BY GarbageSteps
<1>3. IInv /\ GInv => GarbageGoes
  BY NoneLeft DEF GarbageGoes
<1>4. GcSpec => []IInv
  BY Invariant
<1> QED BY <1>1, <1>2, <1>3, <1>4, PTL DEF GcSpec

=============================================================================
