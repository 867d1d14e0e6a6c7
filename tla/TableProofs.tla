------------------------------- MODULE TableProofs -------------------------------
(***************************************************************************)
(* The tables of Lua for any keys, hashes and values: each key reads what  *)
(* was last stored under it, the length is a border, and a traversal is    *)
(* complete.  The invariant says what the next fields are like: chains     *)
(* that do not come back, each key on the chain of its main position, a    *)
(* live key before the dead ones that are like it.                         *)
(***************************************************************************)
EXTENDS LuaTable, SelectionProofs, TLAPS

-----------------------------------------------------------------------------
(* Numbers *)

\* TwoTo on the first n numbers.
Doubling(n, f) ==
  f \in [0 .. n -> Nat] /\ f[0] = 1 /\ \A i \in 1 .. n : f[i] = 2 * f[i - 1]

\* The powers of two.
LEMMA PowersOfTwo ==
  /\ TwoTo \in [Nat -> Nat] /\ TwoTo[0] = 1
  /\ \A i \in Nat : TwoTo[i + 1] = 2 * TwoTo[i] /\ TwoTo[i] > i
<1> DEFINE P == {n \in Nat : \E f : Doubling(n, f)}
<1>1. P = Nat
  <2>1. 0 \in P
    <3>1. Doubling(0, [i \in 0 .. 0 |-> 1])
      BY DEF Doubling
    <3> QED BY <3>1
  <2>2. ASSUME NEW n \in P PROVE n + 1 \in P
    <3>1. PICK f : Doubling(n, f)
      OBVIOUS
    <3> DEFINE g == [i \in 0 .. n + 1 |-> IF i = n + 1 THEN 2 * f[n] ELSE f[i]]
    <3>2. n \in Nat /\ f[n] \in Nat
      BY <3>1 DEF Doubling
    <3>3. g \in [0 .. n + 1 -> Nat] /\ g[0] = 1
      BY <3>1, <3>2 DEF Doubling
    <3>4. ASSUME NEW i \in 1 .. n + 1 PROVE g[i] = 2 * g[i - 1]
      <4>1. CASE i = n + 1
        BY <3>2, <4>1 DEF Doubling
      <4>2. CASE i # n + 1
        <5>1. i \in 1 .. n /\ g[i] = f[i] /\ g[i - 1] = f[i - 1]
          BY <3>2, <4>2
        <5> HIDE DEF g
        <5> QED BY <3>1, <5>1 DEF Doubling
      <4> QED BY <4>1, <4>2
    <3> HIDE DEF g
    <3>5. Doubling(n + 1, g)
      BY <3>3, <3>4 DEF Doubling
    <3> QED BY <3>2, <3>5
  <2>3. P \in SUBSET Nat
    OBVIOUS
  <2> HIDE DEF P
  <2> QED BY <2>1, <2>2, <2>3, SetInduction
<1> DEFINE F(n) == CHOOSE f : Doubling(n, f)
           h == [n \in Nat |-> F(n)[n]]
<1>2. ASSUME NEW n \in Nat
      PROVE  F(n) \in [0 .. n -> Nat] /\ F(n)[0] = 1 /\ \A i \in 1 .. n : F(n)[i] = 2 * F(n)[i - 1]
  <2>1. \E f : Doubling(n, f)
    BY <1>1
  <2>2. Doubling(n, F(n))
    BY <2>1
  <2> HIDE DEF F
  <2> QED BY <2>2 DEF Doubling
<1> HIDE DEF F, P
\* Two of them agree as far as both go.
<1>3. ASSUME NEW n \in Nat PROVE F(n + 1)[n] = F(n)[n]
  <2> DEFINE Q == {i \in Nat : i <= n => F(n + 1)[i] = F(n)[i]}
  <2>1. 0 \in Q
    <3>1. n + 1 \in Nat
      OBVIOUS
    <3> QED BY <1>2, <3>1
  <2>2. ASSUME NEW i \in Q PROVE i + 1 \in Q
    <3>1. CASE i + 1 <= n
      <4>1. i + 1 \in 1 .. n /\ i + 1 \in 1 .. n + 1 /\ (i + 1) - 1 = i /\ n + 1 \in Nat
        BY <3>1
      <4>2. F(n + 1)[i] = F(n)[i]
        BY <3>1
      <4>3. F(n)[i + 1] = 2 * F(n)[i]
        BY <1>2, <4>1
      <4>4. F(n + 1)[i + 1] = 2 * F(n + 1)[i]
        BY <1>2, <4>1
      <4> QED BY <4>1, <4>2, <4>3, <4>4
    <3> QED BY <3>1
  <2>3. Q \in SUBSET Nat
    OBVIOUS
  <2> HIDE DEF Q
  <2>4. Q = Nat
    BY <2>1, <2>2, <2>3, SetInduction
  <2> QED BY <2>4 DEF Q
<1>4. h \in [Nat -> Nat] /\ h[0] = 1 /\ \A n \in Nat : h[n + 1] = 2 * h[n]
  <2>1. \A n \in Nat : h[n] = F(n)[n] /\ n \in 0 .. n
    OBVIOUS
  <2>2. \A n \in Nat : h[n] \in Nat
    BY <1>2, <2>1
  <2>3. ASSUME NEW n \in Nat PROVE h[n + 1] = 2 * h[n]
    <3>1. n + 1 \in Nat /\ n + 1 \in 1 .. n + 1 /\ (n + 1) - 1 = n
      OBVIOUS
    <3>2. F(n + 1)[n + 1] = 2 * F(n + 1)[n]
      BY <1>2, <3>1
    <3> QED BY <1>3, <2>1, <3>1, <3>2
  <2>4. h[0] = 1
    BY <1>2, <2>1
  <2>5. h \in [Nat -> Nat]
    BY <1>2
  <2> HIDE DEF h
  <2> QED BY <2>3, <2>4, <2>5
<1> HIDE DEF h
<1>5. h = [i \in Nat |-> IF i = 0 THEN 1 ELSE 2 * h[i - 1]]
  <2>1. ASSUME NEW i \in Nat PROVE h[i] = IF i = 0 THEN 1 ELSE 2 * h[i - 1]
    <3>1. CASE i # 0
      <4>1. i - 1 \in Nat /\ (i - 1) + 1 = i
        BY <3>1
      <4> QED BY <1>4, <3>1, <4>1
    <3> QED BY <1>4, <3>1
  <2>2. h = [i \in Nat |-> h[i]]
    BY <1>4
  <2> QED BY <2>1, <2>2
<1>6. TwoTo = [i \in Nat |-> IF i = 0 THEN 1 ELSE 2 * TwoTo[i - 1]]
  BY <1>5 DEF TwoTo
<1>7. TwoTo[0] = 1 /\ \A i \in Nat : TwoTo[i + 1] = 2 * TwoTo[i]
  <2>1. TwoTo[0] = 1
    BY <1>6
  <2>2. ASSUME NEW i \in Nat PROVE TwoTo[i + 1] = 2 * TwoTo[i]
    <3>1. i + 1 \in Nat /\ i + 1 # 0 /\ (i + 1) - 1 = i
      OBVIOUS
    <3> QED BY <1>6, <3>1
  <2> QED BY <2>1, <2>2
<1>8. \A i \in Nat : TwoTo[i] \in Nat /\ TwoTo[i] > i
  <2> DEFINE R == {i \in Nat : TwoTo[i] \in Nat /\ TwoTo[i] > i}
  <2>1. 0 \in R
    BY <1>7
  <2>2. ASSUME NEW i \in R PROVE i + 1 \in R
    BY <1>7
  <2>3. R \in SUBSET Nat
    OBVIOUS
  <2> HIDE DEF R
  <2>4. R = Nat
    BY <2>1, <2>2, <2>3, SetInduction
  <2> QED BY <2>4 DEF R
<1>9. TwoTo \in [Nat -> Nat]
  BY <1>6, <1>8
<1> QED BY <1>7, <1>8, <1>9

\* setnodevector makes room for what it is asked for.
LEMMA NodesMade ==
  ASSUME NEW size \in Nat
  PROVE  \E n \in Nat : n >= size /\ Nodes(size) = [i \in 1 .. n |-> FreeNode]
<1>1. CASE size = 0
  <2>1. Nodes(size) = [i \in 1 .. 0 |-> FreeNode]
    BY <1>1 DEF Nodes
  <2>2. 0 \in Nat /\ 0 >= size
    BY <1>1
  <2> QED BY <2>1, <2>2
<1>2. CASE size # 0
  <2> DEFINE T == {l \in Nat : TwoTo[l] >= size}
             Fits(l) == TwoTo[l] >= size /\ (l > 0 => TwoTo[l - 1] < size)
  <2>1. size \in T
    BY PowersOfTwo
  <2>2. PICK l \in T : \A k \in T : l <= k
    <3> HIDE DEF T
    <3>1. T \in SUBSET Nat
      BY DEF T
    <3> QED BY <2>1, <3>1, LeastNumber
  <2>3. l \in 0 .. size /\ Fits(l)
    <3>1. l > 0 => l - 1 \in Nat /\ l - 1 \notin T
      BY <2>2
    <3>2. l > 0 => TwoTo[l - 1] < size
      BY <3>1, PowersOfTwo
    <3> QED BY <2>1, <2>2, <3>2
  <2>4. PICK c : c = CHOOSE l2 \in 0 .. size : Fits(l2)
    OBVIOUS
  <2>5. c \in 0 .. size /\ TwoTo[c] >= size
    BY <2>3, <2>4
  <2>6. Nodes(size) = [i \in 1 .. TwoTo[c] |-> FreeNode]
    BY <1>2, <2>4 DEF Nodes
  <2>7. TwoTo[c] \in Nat
    BY <2>5, PowersOfTwo
  <2> QED BY <2>5, <2>6, <2>7
<1> QED BY <1>1, <1>2

\* A set of numbers up to n has a greatest.
LEMMA GreatestNumber ==
  ASSUME NEW n \in Nat, NEW T \in SUBSET (0 .. n), T # {}
  PROVE  \E m \in T : \A k \in T : k <= m
<1> DEFINE U == {n - k : k \in T}
<1>1. U \in SUBSET Nat /\ U # {}
  <2>1. \A k \in T : k \in 0 .. n
    OBVIOUS
  <2>2. \A k \in 0 .. n : n - k \in Nat
    OBVIOUS
  <2>3. \A k \in T : n - k \in Nat
    BY <2>1, <2>2
  <2> QED BY <2>3
<1>2. PICK u \in U : \A k \in U : u <= k
  <2> HIDE DEF U
  <2> QED BY <1>1, LeastNumber
<1>3. PICK m \in T : u = n - m
  OBVIOUS
<1>4. ASSUME NEW k \in T PROVE k <= m
  <2>1. n - k \in U
    OBVIOUS
  <2>2. n - m <= n - k
    BY <1>2, <1>3, <2>1
  <2>3. k \in Int /\ m \in Int
    OBVIOUS
  <2> QED BY <2>2, <2>3
<1> QED BY <1>4

-----------------------------------------------------------------------------
(* The invariant of a table *)

\* What the nodes of a table and its cells may hold.
TableKey == {Normal(k) : k \in Key}
Value == Datum \cup {Nothing}
Node == [key : TableKey \cup {Nothing}, val : Value, next : Nat, dead : BOOLEAN]
TableRec == [array : Seq(Value), node : Seq(Node), lastfree : Nat]

\* Nodes that have a key, and those that a search for it may stop at.
Keyed(t) == {i \in DOMAIN t.node : t.node[i].key # Nothing}
Live(t) == {i \in Keyed(t) : ~ t.node[i].dead}
Main(t, i) == mainposition(t, t.node[i].key)

\* The record of a table: next leads to a node with a key, a node that was never
\* used lies below lastfree, and a dead key has no value.
Shape(t) ==
  /\ t \in TableRec /\ t.lastfree \in 1 .. Len(t.node) + 1
  /\ \A i \in DOMAIN t.node :
       /\ t.node[i].next # 0 => t.node[i].next \in Keyed(t)
       /\ t.node[i].key = Nothing => /\ t.node[i].next = 0 /\ ~ t.node[i].dead
                                     /\ t.node[i].val = Nothing /\ i < t.lastfree
       /\ t.node[i].dead => t.node[i].val = Nothing

\* A chain from node a comes to node b: b is in every set that a is in and that
\* the next fields do not leave.
Closed(t, S) == \A i \in S : t.node[i].next # 0 => t.node[i].next \in S
Comes(t, a, b) == \A S \in SUBSET DOMAIN t.node : a \in S /\ Closed(t, S) => b \in S

\* No chain comes back to where it was.
Ranks(t, r) ==
  /\ r \in [DOMAIN t.node -> Nat]
  /\ \A i \in DOMAIN t.node : t.node[i].next # 0 => r[i] < r[t.node[i].next]

\* Two chains may meet, but only where one begins inside the other.  A main
\* position in use is used by a key of its own as soon as any key has it; every
\* key is on the chain of its main position, a live one before its dead ones.
Chains(t) ==
  /\ \A i, j \in DOMAIN t.node : t.node[i].next = t.node[j].next /\ t.node[i].next # 0 => i = j
  /\ \E r : Ranks(t, r)
  /\ \A i \in Keyed(t) : Main(t, i) \in Keyed(t) /\ Main(t, Main(t, i)) = Main(t, i)
  /\ \A i \in Keyed(t) : Comes(t, Main(t, i), i)
  /\ \A i \in Live(t), j \in Keyed(t) : t.node[i].key = t.node[j].key => Comes(t, i, j)

\* What the table holds is what m says.
At(m, k) == IF k \in DOMAIN m THEN m[k] ELSE Nothing
Content(t, m) ==
  /\ \A i \in DOMAIN t.array : t.array[i] = At(m, IntKey(i))
  /\ \A i \in Live(t) : ~ InArray(t, t.node[i].key) /\ t.node[i].val = m[t.node[i].key]
  /\ \A k \in TableKey : m[k] # Nothing /\ ~ InArray(t, k) => \E i \in Live(t) : t.node[i].key = k

\* A table that holds what m says.
TableOK(t, m) == m \in [TableKey -> Value] /\ Shape(t) /\ Chains(t) /\ Content(t, m)

-----------------------------------------------------------------------------
(* Search *)

\* Every key is of the kinds there are, and the hash of an integer is itself.
LEMMA KeysAreKeys ==
  /\ TableKey \subseteq AnyKey /\ Nothing \notin TableKey
  /\ \A k \in TableKey : k.kind \in {"int", "pow2", "mod"}
  /\ \A k \in TableKey : k.kind = "int" => k = IntKey(k.n)
<1> SUFFICES ASSUME NEW q \in Key
             PROVE  /\ Normal(q) \in AnyKey /\ Normal(q).kind \in {"int", "pow2", "mod"}
                    /\ Normal(q).kind = "int" => Normal(q) = IntKey(Normal(q).n)
  BY TableAssumption DEF TableKey
<1>1. q \in AnyKey /\ (q.kind \in {"int", "float"} => q.hash = q.n)
  BY TableAssumption
<1>2. CASE q.kind = "float"
  BY <1>1, <1>2 DEF Normal, AnyKey, IntKey
<1>3. CASE q.kind # "float"
  BY <1>1, <1>3 DEF Normal, AnyKey, IntKey
<1> QED BY <1>2, <1>3

\* A position is a node.
LEMMA MainIsANode ==
  ASSUME NEW t \in TableRec, t.node # <<>>, NEW k \in AnyKey
  PROVE  mainposition(t, k) \in DOMAIN t.node
<1>1. Len(t.node) \in Nat /\ DOMAIN t.node = 1 .. Len(t.node) /\ Len(t.node) # 0
  BY DEF TableRec
<1>2. k.hash \in Int
  BY DEF AnyKey
<1> DEFINE n == Len(t.node)
<1>3. CASE k.kind = "mod" /\ n # 1
  <2>1. n - 1 \in Nat /\ n - 1 > 0
    <3>1. n \in Nat /\ n # 0 /\ n # 1
      BY <1>1, <1>3
    <3> HIDE DEF n
    <3> QED BY <3>1
  <2>2. k.hash % (n - 1) \in 0 .. (n - 1) - 1
    BY <1>2, <2>1
  <2>3. mainposition(t, k) = 1 + (k.hash % (n - 1))
    BY <1>3 DEF mainposition
  <2> QED BY <1>1, <2>1, <2>2, <2>3
<1>4. CASE k.kind = "mod" /\ n = 1
  <2>1. k.hash % 1 = 0
    BY <1>2
  <2>2. mainposition(t, k) = 1 + (k.hash % 1)
    BY <1>4 DEF mainposition
  <2> QED BY <1>1, <2>1, <2>2
<1>5. CASE k.kind # "mod"
  <2>1. k.hash % n \in 0 .. n - 1
    BY <1>1, <1>2
  <2>2. mainposition(t, k) = 1 + (k.hash % n)
    BY <1>5 DEF mainposition
  <2> QED BY <1>1, <2>1, <2>2
<1> QED BY <1>3, <1>4, <1>5

\* The function of a search, over its first n steps.
Stepping(t, k, n, f) ==
  f = [i \in 0 .. n |-> IF t.node = <<>> THEN 0
                        ELSE IF i = 0 THEN mainposition(t, k) ELSE Follow(t, f[i - 1])]

\* It is there, step by step.
LEMMA SteppingExists ==
  ASSUME NEW t, NEW k, NEW n \in Nat
  PROVE  \E f : Stepping(t, k, n, f)
<1> DEFINE P == {i \in Nat : \E f : Stepping(t, k, i, f)}
<1>1. 0 \in P
  <2>1. Stepping(t, k, 0, [i \in 0 .. 0 |-> IF t.node = <<>> THEN 0 ELSE mainposition(t, k)])
    BY DEF Stepping
  <2> QED BY <2>1
<1>2. ASSUME NEW i \in P PROVE i + 1 \in P
  <2>1. PICK f : Stepping(t, k, i, f)
    OBVIOUS
  <2> DEFINE new == IF t.node = <<>> THEN 0 ELSE Follow(t, f[i])
             e == [j \in 0 .. i + 1 |-> IF j = i + 1 THEN new ELSE f[j]]
  <2>2. i \in Nat
    OBVIOUS
  <2>3. ASSUME NEW j \in 0 .. i + 1
        PROVE  e[j] = IF t.node = <<>> THEN 0
                      ELSE IF j = 0 THEN mainposition(t, k) ELSE Follow(t, e[j - 1])
    <3>1. CASE j = i + 1
      <4>1. e[j] = new /\ e[j - 1] = f[i] /\ j # 0
        BY <3>1, <2>2
      <4> HIDE DEF e
      <4> QED BY <4>1, <3>1
    <3>2. CASE j # i + 1
      <4>1. j \in 0 .. i
        BY <3>2, <2>2
      <4>2. f[j] = IF t.node = <<>> THEN 0
                   ELSE IF j = 0 THEN mainposition(t, k) ELSE Follow(t, f[j - 1])
        BY <4>1, <2>1 DEF Stepping
      <4>3. e[j] = f[j] /\ (j # 0 => e[j - 1] = f[j - 1])
        BY <4>1, <2>2
      <4> HIDE DEF e
      <4> QED BY <4>2, <4>3
    <3> QED BY <3>1, <3>2
  <2>4. Stepping(t, k, i + 1, e)
    <3>1. e = [j \in 0 .. i + 1 |-> e[j]]
      OBVIOUS
    <3> HIDE DEF e
    <3> QED BY <3>1, <2>3 DEF Stepping
  <2> QED BY <2>4, <2>2
<1>3. P = Nat
  <2> HIDE DEF P
  <2>1. P \in SUBSET Nat BY DEF P
  <2> QED BY <1>1, <1>2, <2>1, SetInduction
<1> QED BY <1>3

\* A search goes from node to node by their next.
LEMMA PathStepwise ==
  ASSUME NEW t, NEW k, Len(t.node) \in Nat, t.node # <<>>
  PROVE  /\ DOMAIN Path(t, k) = 0 .. Len(t.node)
         /\ Path(t, k)[0] = mainposition(t, k)
         /\ \A n \in 1 .. Len(t.node) : Path(t, k)[n] = Follow(t, Path(t, k)[n - 1])
<1> DEFINE N == Len(t.node)
           f == CHOOSE f : Stepping(t, k, N, f)
<1>1. Stepping(t, k, N, f)
  BY SteppingExists
<1>2. Path(t, k) = f
  BY DEF Path, Stepping
<1> HIDE DEF f
<1>3. DOMAIN f = 0 .. N /\ \A n \in 0 .. N : f[n] = IF n = 0 THEN mainposition(t, k) ELSE Follow(t, f[n - 1])
  BY <1>1 DEF Stepping
<1>4. f[0] = mainposition(t, k)
  BY <1>3
<1>5. \A n \in 1 .. N : n \in 0 .. N /\ n # 0
  OBVIOUS
<1>6. \A n \in 1 .. N : f[n] = Follow(t, f[n - 1])
  BY <1>3, <1>5
<1> QED BY <1>2, <1>3, <1>4, <1>6

\* Ranks rise along a chain.
LEMMA ChainsRise ==
  ASSUME NEW t, NEW r, Ranks(t, r), NEW a \in DOMAIN t.node, NEW b \in DOMAIN t.node,
         Shape(t), Comes(t, a, b)
  PROVE  a = b \/ r[a] < r[b]
<1> DEFINE S == {x \in DOMAIN t.node : x = a \/ r[a] < r[x]}
<1>1. Closed(t, S)
  <2> SUFFICES ASSUME NEW x \in S, t.node[x].next # 0
               PROVE  t.node[x].next \in S
    BY DEF Closed
  <2>1. t.node[x].next \in DOMAIN t.node
    BY DEF Shape, Keyed
  <2>2. r[a] \in Nat /\ r[x] \in Nat /\ r[t.node[x].next] \in Nat /\ r[x] < r[t.node[x].next]
    BY <2>1 DEF Ranks
  <2> QED BY <2>1, <2>2
<1>2. a \in S /\ S \in SUBSET DOMAIN t.node
  OBVIOUS
<1>3. b \in S
  <2> HIDE DEF S
  <2> QED BY <1>1, <1>2 DEF Comes
<1> QED BY <1>3

\* What a search passes: all that its chain comes to, once.
LEMMA PathIsChain ==
  ASSUME NEW t, Shape(t), Chains(t), t.node # <<>>, NEW k \in AnyKey
  PROVE  /\ \A n \in 0 .. Len(t.node) :
              /\ Path(t, k)[n] \in DOMAIN t.node \cup {0}
              /\ Path(t, k)[n] # 0 => Comes(t, mainposition(t, k), Path(t, k)[n])
         /\ \A i \in DOMAIN t.node : Comes(t, mainposition(t, k), i) =>
              \E n \in 0 .. Len(t.node) : Path(t, k)[n] = i
         /\ \A r : Ranks(t, r) => \A x, y \in 0 .. Len(t.node) :
              x < y /\ Path(t, k)[y] # 0 => r[Path(t, k)[x]] < r[Path(t, k)[y]]
<1> DEFINE N == Len(t.node)
           mp == mainposition(t, k)
<1>1. N \in Nat /\ DOMAIN t.node = 1 .. N /\ mp \in 1 .. N
  <2>1. t \in TableRec
    BY DEF Shape
  <2>2. mp \in DOMAIN t.node
    BY <2>1, MainIsANode
  <2> QED BY <2>1, <2>2 DEF TableRec
<1>2. PICK at : at = Path(t, k)
  OBVIOUS
<1>3. at[0] = mp /\ \A n \in 1 .. N : at[n] = Follow(t, at[n - 1])
  BY <1>1, <1>2, PathStepwise
<1> DEFINE Passes(n) == n <= N => /\ at[n] \in DOMAIN t.node \cup {0}
                                  /\ at[n] # 0 => Comes(t, mp, at[n])
<1>4. \A n \in 0 .. N : at[n] \in DOMAIN t.node \cup {0} /\ (at[n] # 0 => Comes(t, mp, at[n]))
  <2> DEFINE P == {n \in Nat : Passes(n)}
  <2>1. 0 \in P
    BY <1>1, <1>3 DEF Comes
  <2>2. ASSUME NEW n \in P PROVE n + 1 \in P
    <3>1. CASE n + 1 <= N /\ at[n] # 0
      <4>1. n + 1 \in 1 .. N /\ (n + 1) - 1 = n /\ at[n + 1] = t.node[at[n]].next
        BY <1>3, <3>1 DEF Follow
      <4>2. at[n] \in DOMAIN t.node /\ Comes(t, mp, at[n])
        BY <3>1
      <4>3. at[n + 1] # 0 => at[n + 1] \in DOMAIN t.node
        BY <4>1, <4>2 DEF Shape, Keyed
      <4>4. at[n + 1] # 0 => Comes(t, mp, at[n + 1])
        BY <4>1, <4>2 DEF Comes, Closed
      <4> QED BY <4>3, <4>4
    <3>2. CASE n + 1 <= N /\ at[n] = 0
      <4>1. n + 1 \in 1 .. N /\ (n + 1) - 1 = n
        BY <3>2
      <4>2. at[n + 1] = 0
        BY <1>3, <3>2, <4>1 DEF Follow
      <4> QED BY <4>2
    <3> QED BY <3>1, <3>2
  <2>3. P \in SUBSET Nat
    OBVIOUS
  <2> HIDE DEF P
  <2>4. P = Nat
    BY <2>1, <2>2, <2>3, SetInduction
  <2> QED BY <1>1, <2>4 DEF P
<1> HIDE DEF Passes
<1>5. ASSUME NEW r, Ranks(t, r), NEW x \in 0 .. N
      PROVE  \A y \in 0 .. N : x < y /\ at[y] # 0 => at[x] # 0 /\ r[at[x]] < r[at[y]]
  <2> DEFINE Rises(y) == x < y /\ y <= N /\ at[y] # 0 => at[x] # 0 /\ r[at[x]] < r[at[y]]
             P == {y \in Nat : Rises(y)}
  <2>1. 0 \in P
    OBVIOUS
  <2>2. ASSUME NEW y \in P PROVE y + 1 \in P
    <3>1. CASE x < y + 1 /\ y + 1 <= N /\ at[y + 1] # 0
      <4>1. y + 1 \in 1 .. N /\ (y + 1) - 1 = y /\ y \in 0 .. N
        BY <1>1, <3>1
      <4>2. at[y + 1] = Follow(t, at[y])
        BY <1>3, <4>1
      <4>3. at[y] # 0 /\ at[y] \in DOMAIN t.node /\ t.node[at[y]].next = at[y + 1]
        BY <1>4, <3>1, <4>1, <4>2 DEF Follow
      <4>4. at[y + 1] \in DOMAIN t.node
        BY <1>1, <1>4, <3>1
      <4>5. r[at[y]] < r[at[y + 1]] /\ r[at[y]] \in Nat /\ r[at[y + 1]] \in Nat
        BY <1>5, <3>1, <4>3, <4>4 DEF Ranks
      <4>6. CASE x = y
        BY <4>3, <4>5, <4>6
      <4>7. CASE x < y
        <5>1. at[x] # 0 /\ r[at[x]] < r[at[y]]
          BY <4>1, <4>3, <4>7
        <5>2. r[at[x]] \in Nat
          BY <1>4, <1>5, <5>1 DEF Ranks
        <5> QED BY <4>5, <5>1, <5>2
      <4> QED BY <3>1, <4>6, <4>7
    <3> QED BY <3>1
  <2>3. P \in SUBSET Nat
    OBVIOUS
  <2> HIDE DEF P
  <2>4. P = Nat
    BY <2>1, <2>2, <2>3, SetInduction
  <2> QED BY <1>1, <2>4 DEF P
<1>6. at[N] = 0
  <2> SUFFICES ASSUME at[N] # 0 PROVE FALSE
    OBVIOUS
  <2>1. PICK r : Ranks(t, r)
    BY DEF Chains
  <2>2. \A x \in 0 .. N : at[x] # 0
    BY <1>1, <1>5, <2>1
  <2> DEFINE f == [n \in 0 .. N |-> at[n]]
  <2>3. f \in [0 .. N -> 1 .. N]
    BY <1>1, <1>4, <2>2
  <2>4. IsFiniteSet(0 .. N) /\ Cardinality(0 .. N) = N + 1
        /\ IsFiniteSet(1 .. N) /\ Cardinality(1 .. N) = N
    BY <1>1, FS_Interval
  <2>5. \E x, y \in 0 .. N : x # y /\ f[x] = f[y]
    <3>1. Cardinality(1 .. N) < Cardinality(0 .. N)
      BY <1>1, <2>4
    <3> HIDE DEF f
    <3> QED BY <2>3, <2>4, <3>1, FS_PigeonHole
  <2>6. PICK x \in 0 .. N, y \in 0 .. N : x < y /\ at[x] = at[y]
    BY <1>1, <2>5
  <2>7. r[at[x]] < r[at[y]] /\ r[at[x]] \in Nat
    BY <1>1, <1>4, <1>5, <2>1, <2>2, <2>6 DEF Ranks
  <2> QED BY <2>6, <2>7
<1>7. ASSUME NEW i \in DOMAIN t.node, Comes(t, mp, i)
      PROVE  \E n \in 0 .. N : at[n] = i
  <2> DEFINE S == {x \in DOMAIN t.node : \E n \in 0 .. N : at[n] = x}
  <2>1. mp \in S
    BY <1>1, <1>3
  <2>2. Closed(t, S)
    <3> SUFFICES ASSUME NEW x \in S, t.node[x].next # 0
                 PROVE  t.node[x].next \in S
      BY DEF Closed
    <3>1. PICK n \in 0 .. N : at[n] = x
      OBVIOUS
    <3>2. x # 0 /\ x \in DOMAIN t.node
      BY <1>1
    <3>3. n # N
      BY <1>6, <3>1, <3>2
    <3>4. n + 1 \in 1 .. N /\ (n + 1) - 1 = n /\ n + 1 \in 0 .. N
      BY <1>1, <3>3
    <3>5. at[n + 1] = t.node[x].next
      BY <1>3, <3>1, <3>2, <3>4 DEF Follow
    <3>6. t.node[x].next \in DOMAIN t.node
      BY <3>2 DEF Shape, Keyed
    <3> QED BY <3>4, <3>5, <3>6
  <2>3. S \in SUBSET DOMAIN t.node
    OBVIOUS
  <2> HIDE DEF S
  <2>4. i \in S
    BY <1>7, <2>1, <2>2, <2>3 DEF Comes
  <2> QED BY <2>4 DEF S
<1> QED BY <1>1, <1>2, <1>4, <1>5, <1>7

\* FirstIn, by the number of the step.
LEMMA FirstIsLeast ==
  ASSUME NEW N \in Nat, NEW path, DOMAIN path = 0 .. N, NEW S
  PROVE  \/ FirstIn(path, S) = 0 /\ \A n \in 0 .. N : path[n] \notin S
         \/ \E n \in 0 .. N : /\ FirstIn(path, S) = path[n] /\ path[n] \in S
                              /\ \A m \in 0 .. N : path[m] \in S => n <= m
<1> DEFINE hits == {n \in 0 .. N : path[n] \in S}
<1>1. CASE hits = {}
  BY <1>1 DEF FirstIn
<1>2. CASE hits # {}
  <2>1. \E n \in hits : \A m \in hits : n <= m
    <3>1. hits \in SUBSET Nat
      OBVIOUS
    <3> HIDE DEF hits
    <3> QED BY <1>2, <3>1, LeastNumber
  <2>2. PICK c : c = CHOOSE n \in hits : \A m \in hits : n <= m
    OBVIOUS
  <2>3. c \in hits /\ \A m \in hits : c <= m
    <3> HIDE DEF hits
    <3> QED BY <2>1, <2>2
  <2>4. FirstIn(path, S) = path[c]
    BY <1>2, <2>2 DEF FirstIn
  <2> QED BY <2>3, <2>4
<1> QED BY <1>1, <1>2

\* A search finds the first of what it looks for on its chain.
LEMMA SearchFinds ==
  ASSUME NEW t, Shape(t), Chains(t), t.node # <<>>, NEW k \in AnyKey,
         NEW S \in SUBSET DOMAIN t.node, NEW i \in S, Comes(t, mainposition(t, k), i),
         \A j \in S : Comes(t, i, j)
  PROVE  FirstIn(Path(t, k), S) = i
<1> DEFINE N == Len(t.node)
<1>1. N \in Nat /\ DOMAIN t.node = 1 .. N
  BY DEF Shape, TableRec
<1>2. PICK at : at = Path(t, k)
  OBVIOUS
<1>3. DOMAIN at = 0 .. N
  BY <1>1, <1>2, PathStepwise
<1>4. PICK x \in 0 .. N : at[x] = i
  BY <1>2, PathIsChain
<1>5. PICK n \in 0 .. N : /\ FirstIn(at, S) = at[n] /\ at[n] \in S
                          /\ \A m \in 0 .. N : at[m] \in S => n <= m
  BY <1>1, <1>3, <1>4, FirstIsLeast
<1>6. PICK r : Ranks(t, r)
  BY DEF Chains
<1>7. n <= x /\ i # 0
  BY <1>1, <1>4, <1>5
<1>8. ASSUME n < x PROVE FALSE
  <2>1. r[at[n]] < r[i]
    BY <1>2, <1>4, <1>6, <1>7, <1>8, PathIsChain
  <2>2. at[n] = i \/ r[i] < r[at[n]]
    BY <1>5, <1>6, ChainsRise
  <2>3. r[i] \in Nat /\ r[at[n]] \in Nat
    BY <1>5, <1>6 DEF Ranks
  <2> QED BY <2>1, <2>2, <2>3
<1> QED BY <1>2, <1>4, <1>5, <1>7, <1>8

\* A search for what is not there finds nothing.
LEMMA SearchFails ==
  ASSUME NEW t, Shape(t), Chains(t), t.node # <<>>, NEW k \in AnyKey,
         NEW S \in SUBSET DOMAIN t.node, \A i \in S : ~ Comes(t, mainposition(t, k), i)
  PROVE  FirstIn(Path(t, k), S) = 0
<1> DEFINE N == Len(t.node)
<1>1. N \in Nat /\ DOMAIN t.node = 1 .. N
  BY DEF Shape, TableRec
<1>2. PICK at : at = Path(t, k)
  OBVIOUS
<1>3. DOMAIN at = 0 .. N
  BY <1>1, <1>2, PathStepwise
<1>4. \A n \in 0 .. N : at[n] \in S => at[n] # 0 /\ Comes(t, mainposition(t, k), at[n])
  BY <1>1, <1>2, PathIsChain
<1> QED BY <1>1, <1>2, <1>3, <1>4, FirstIsLeast

-----------------------------------------------------------------------------
(* What a table reads *)

\* The nodes of a table.
LEMMA NodesOfATable ==
  ASSUME NEW t, Shape(t)
  PROVE  /\ t.node \in Seq(Node) /\ Len(t.node) \in Nat /\ DOMAIN t.node = 1 .. Len(t.node)
         /\ 0 \notin DOMAIN t.node /\ t.lastfree \in Nat
         /\ t.array \in Seq(Value) /\ Len(t.array) \in Nat /\ DOMAIN t.array = 1 .. Len(t.array)
         /\ \A i \in DOMAIN t.node : t.node[i] \in Node
         /\ Keyed(t) \subseteq DOMAIN t.node /\ Live(t) \subseteq Keyed(t)
         /\ \A i \in Keyed(t) : t.node[i].key \in TableKey
         /\ t.node # <<>> => Len(t.node) > 0
<1>1. t \in TableRec
  BY DEF Shape
<1>2. /\ t.node \in Seq(Node) /\ Len(t.node) \in Nat /\ DOMAIN t.node = 1 .. Len(t.node)
      /\ t.lastfree \in Nat /\ t.array \in Seq(Value) /\ Len(t.array) \in Nat
      /\ DOMAIN t.array = 1 .. Len(t.array)
  BY <1>1 DEF TableRec
<1>3. \A i \in DOMAIN t.node : t.node[i] \in Node
  BY <1>2
<1>4. Keyed(t) \subseteq DOMAIN t.node /\ Live(t) \subseteq Keyed(t)
  BY DEF Keyed, Live
<1>5. \A i \in Keyed(t) : t.node[i].key \in TableKey
  BY <1>3 DEF Keyed, Node
<1>6. 0 \notin DOMAIN t.node
  BY <1>2
<1>7. t.node # <<>> => Len(t.node) > 0
  BY <1>2
<1> QED BY <1>2, <1>3, <1>4, <1>5, <1>6, <1>7

\* No key is live twice.
LEMMA KeyIsLiveOnce ==
  ASSUME NEW t, Shape(t), Chains(t), NEW i \in Live(t), NEW j \in Live(t),
         t.node[i].key = t.node[j].key
  PROVE  i = j
<1>1. i \in Keyed(t) /\ j \in Keyed(t) /\ i \in DOMAIN t.node /\ j \in DOMAIN t.node
  BY DEF Live, Keyed
<1>2. Comes(t, i, j) /\ Comes(t, j, i)
  BY <1>1 DEF Chains
<1>3. PICK r : Ranks(t, r)
  BY DEF Chains
<1>4. (i = j \/ r[i] < r[j]) /\ (i = j \/ r[j] < r[i])
  BY <1>1, <1>2, <1>3, ChainsRise
<1>5. r[i] \in Nat /\ r[j] \in Nat
  BY <1>1, <1>3 DEF Ranks
<1> QED BY <1>4, <1>5

\* The search of luaH_get finds the live node of a key, where there is one.
LEMMA NodeIsFound ==
  ASSUME NEW t, Shape(t), Chains(t), NEW k \in AnyKey
  PROVE  \/ NodeOf(t, k) = 0 /\ \A i \in Live(t) : t.node[i].key # k
         \/ /\ NodeOf(t, k) \in Live(t) /\ t.node[NodeOf(t, k)].key = k
            /\ NodeOf(t, k) # 0
            /\ \A i \in Live(t) : t.node[i].key = k => i = NodeOf(t, k)
<1> DEFINE S == {i \in DOMAIN t.node : t.node[i].key = k /\ ~ t.node[i].dead}
<1>1. NodeOf(t, k) = FirstIn(Path(t, k), S)
  BY DEF NodeOf
<1>2. k # Nothing
  BY TableAssumption
<1>3. S = {i \in Live(t) : t.node[i].key = k}
  BY <1>2 DEF Live, Keyed
<1>4. CASE S = {}
  <2>1. FirstIn(Path(t, k), {}) = 0
    BY DEF FirstIn
  <2> QED BY <1>1, <1>3, <1>4, <2>1
<1>5. ASSUME NEW i \in S PROVE NodeOf(t, k) = i
  <2>1. i \in Live(t) /\ i \in Keyed(t) /\ t.node[i].key = k /\ i \in DOMAIN t.node
    BY <1>3, NodesOfATable
  <2>2. Comes(t, mainposition(t, k), i)
    BY <2>1 DEF Chains, Main
  <2>3. \A j \in S : Comes(t, i, j)
    BY <2>1, <1>3, NodesOfATable DEF Chains
  <2>4. t.node # <<>>
    BY <2>1, NodesOfATable
  <2>5. S \in SUBSET DOMAIN t.node
    OBVIOUS
  <2> HIDE DEF S
  <2> QED BY <1>1, <2>2, <2>3, <2>4, <2>5, SearchFinds
<1>6. CASE S # {}
  <2>1. PICK i \in S : TRUE
    BY <1>6
  <2>2. NodeOf(t, k) = i
    BY <1>5
  <2>3. i \in Live(t) /\ t.node[i].key = k /\ i # 0
    BY <1>3, <2>1, NodesOfATable
  <2>4. \A j \in Live(t) : t.node[j].key = k => j = i
    BY <2>3, KeyIsLiveOnce
  <2> QED BY <2>2, <2>3, <2>4
<1> QED BY <1>4, <1>6

\* luaH_get reads what is stored.
LEMMA GetReads ==
  ASSUME NEW t, NEW m, TableOK(t, m), NEW k \in AnyKey, Normal(k) = k
  PROVE  /\ InArray(t, k) => k.n \in DOMAIN t.array
         /\ (k \in TableKey \/ (k.kind = "int" /\ k = IntKey(k.n))) => luaH_get(t, k) = At(m, k)
<1>1. Shape(t) /\ Chains(t) /\ Content(t, m) /\ m \in [TableKey -> Value]
  BY DEF TableOK
<1>2. InArray(t, k) => k.n \in DOMAIN t.array
  BY DEF InArray
<1>3. ASSUME InArray(t, k), k \in TableKey \/ (k.kind = "int" /\ k = IntKey(k.n))
      PROVE  luaH_get(t, k) = At(m, k)
  <2>1. k = IntKey(k.n)
    BY <1>3, KeysAreKeys DEF InArray
  <2>2. t.array[k.n] = At(m, k)
    BY <1>1, <1>2, <1>3, <2>1 DEF Content
  <2> QED BY <1>3, <2>2 DEF luaH_get
<1>4. ASSUME ~ InArray(t, k) PROVE luaH_get(t, k) = At(m, k)
  <2>1. luaH_get(t, k) = IF NodeOf(t, k) = 0 THEN Nothing ELSE t.node[NodeOf(t, k)].val
    BY <1>4 DEF luaH_get
  <2>2. CASE NodeOf(t, k) = 0 /\ \A i \in Live(t) : t.node[i].key # k
    <3>1. k \in TableKey => m[k] = Nothing
      BY <1>1, <1>4, <2>2 DEF Content
    <3> QED BY <1>1, <2>1, <2>2, <3>1 DEF At
  <2>3. CASE NodeOf(t, k) \in Live(t) /\ t.node[NodeOf(t, k)].key = k /\ NodeOf(t, k) # 0
    <3>1. k \in TableKey
      BY <1>1, <2>3, NodesOfATable
    <3>2. t.node[NodeOf(t, k)].val = m[k]
      BY <1>1, <2>3 DEF Content
    <3> QED BY <1>1, <2>1, <2>3, <3>1, <3>2 DEF At
  <2> QED BY <1>1, <2>2, <2>3, NodeIsFound
<1> QED BY <1>2, <1>3, <1>4

-----------------------------------------------------------------------------
(* Assignments that leave the chains alone *)

\* Tables with the same next fields.
SameLinks(t, s) ==
  /\ Len(s.node) = Len(t.node) /\ DOMAIN s.node = DOMAIN t.node
  /\ \A i \in DOMAIN t.node : s.node[i].next = t.node[i].next

\* They have the same chains and the same main positions.
LEMMA SameChains ==
  ASSUME NEW t, NEW s, SameLinks(t, s)
  PROVE  /\ \A a, b : Comes(s, a, b) <=> Comes(t, a, b)
         /\ \A r : Ranks(s, r) <=> Ranks(t, r)
         /\ \A k : mainposition(s, k) = mainposition(t, k)
<1>1. ASSUME NEW S \in SUBSET DOMAIN t.node PROVE Closed(s, S) <=> Closed(t, S)
  BY DEF SameLinks, Closed
<1>2. \A a, b : Comes(s, a, b) <=> Comes(t, a, b)
  BY <1>1 DEF SameLinks, Comes
<1>3. \A r : Ranks(s, r) <=> Ranks(t, r)
  BY DEF SameLinks, Ranks
<1>4. \A k : mainposition(s, k) = mainposition(t, k)
  BY DEF SameLinks, mainposition
<1> QED BY <1>2, <1>3, <1>4

\* The chains stand when links and keys stay as they are and no node comes alive.
LEMMA ChainsStand ==
  ASSUME NEW t, NEW s, SameLinks(t, s), Chains(t),
         \A i \in DOMAIN t.node : s.node[i].key = t.node[i].key /\ (t.node[i].dead => s.node[i].dead)
  PROVE  Chains(s)
<1>1. Keyed(s) = Keyed(t) /\ Live(s) \subseteq Live(t)
  BY DEF SameLinks, Keyed, Live
<1>2. \A i \in DOMAIN t.node : Main(s, i) = Main(t, i)
  BY SameChains DEF Main
<1>3. \A i \in Keyed(t) : i \in DOMAIN t.node
  BY DEF Keyed
<1>4. \A i, j \in DOMAIN s.node : s.node[i].next = s.node[j].next /\ s.node[i].next # 0 => i = j
  BY DEF SameLinks, Chains
<1>5. \E r : Ranks(s, r)
  BY SameChains DEF Chains
<1>6. \A i \in Keyed(s) : Main(s, i) \in Keyed(s) /\ Main(s, Main(s, i)) = Main(s, i)
  <2> SUFFICES ASSUME NEW i \in Keyed(t)
               PROVE  Main(s, i) \in Keyed(t) /\ Main(s, Main(s, i)) = Main(s, i)
    BY <1>1
  <2>1. Main(t, i) \in Keyed(t) /\ Main(t, Main(t, i)) = Main(t, i)
    BY DEF Chains
  <2> QED BY <1>2, <1>3, <2>1
<1>7. \A i \in Keyed(s) : Comes(s, Main(s, i), i)
  <2> SUFFICES ASSUME NEW i \in Keyed(t) PROVE Comes(s, Main(s, i), i)
    BY <1>1
  <2>1. Comes(t, Main(t, i), i)
    BY DEF Chains
  <2> QED BY <1>2, <1>3, <2>1, SameChains
<1>8. \A i \in Live(s), j \in Keyed(s) : s.node[i].key = s.node[j].key => Comes(s, i, j)
  <2> SUFFICES ASSUME NEW i \in Live(t), NEW j \in Keyed(t), s.node[i].key = s.node[j].key
               PROVE  Comes(s, i, j)
    BY <1>1
  <2>1. i \in DOMAIN t.node
    BY <1>3 DEF Live
  <2>2. Comes(t, i, j)
    BY <1>3, <2>1 DEF Chains
  <2> QED BY <2>2, SameChains
<1> QED BY <1>4, <1>5, <1>6, <1>7, <1>8 DEF Chains

\* What an assignment makes of what is stored.
Stored(m, k, v) == [m EXCEPT ![k] = v]

\* It reads the new value under its key and the old ones elsewhere.
LEMMA StoredReads ==
  ASSUME NEW m \in [TableKey -> Value], NEW k \in TableKey, NEW v \in Value
  PROVE  /\ Stored(m, k, v) \in [TableKey -> Value]
         /\ Stored(m, k, v)[k] = v
         /\ \A q : q # k => At(Stored(m, k, v), q) = At(m, q)
         /\ \A q \in TableKey : q # k => Stored(m, k, v)[q] = m[q]
BY DEF Stored, At

\* A cell of the array part.
LEMMA PlaceInArray ==
  ASSUME NEW t, NEW m, TableOK(t, m), NEW k \in TableKey, NEW v \in Value, InArray(t, k)
  PROVE  TableOK(Place(t, k, v), Stored(m, k, v))
<1>1. Shape(t) /\ Chains(t) /\ Content(t, m) /\ m \in [TableKey -> Value]
  BY DEF TableOK
<1>2. PICK s : s = Place(t, k, v)
  OBVIOUS
<1>3. PICK m2 : m2 = Stored(m, k, v)
  OBVIOUS
<1>4. k.n \in DOMAIN t.array /\ k = IntKey(k.n) /\ k.kind = "int"
  BY KeysAreKeys DEF InArray
<1>5. s = [t EXCEPT !.array[k.n] = v]
  BY <1>2 DEF Place
<1>6. t \in TableRec
  BY <1>1 DEF Shape
<1>7. /\ s.node = t.node /\ s.lastfree = t.lastfree /\ s.array = [t.array EXCEPT ![k.n] = v]
      /\ s = [array |-> s.array, node |-> t.node, lastfree |-> t.lastfree]
  BY <1>5, <1>6 DEF TableRec
<1>8. s.array \in Seq(Value) /\ DOMAIN s.array = DOMAIN t.array
  BY <1>1, <1>4, <1>7, NodesOfATable
<1>9. s \in TableRec
  BY <1>6, <1>7, <1>8 DEF TableRec
<1>10. Keyed(s) = Keyed(t) /\ Live(s) = Live(t)
  BY <1>7 DEF Keyed, Live
<1>11. Shape(s)
  BY <1>1, <1>7, <1>9, <1>10 DEF Shape
<1>12. Chains(s)
  <2>1. SameLinks(t, s)
    BY <1>7 DEF SameLinks
  <2> QED BY <1>1, <1>7, <2>1, ChainsStand
<1>13. \A q : InArray(s, q) <=> InArray(t, q)
  BY <1>8 DEF InArray
<1>14. Content(s, m2)
  <2>1. ASSUME NEW i \in DOMAIN s.array PROVE s.array[i] = At(m2, IntKey(i))
    <3>1. CASE i = k.n
      <4>1. s.array[i] = v
        BY <1>4, <1>7, <3>1
      <4>2. At(m2, k) = v
        BY <1>1, <1>3, StoredReads DEF At
      <4> QED BY <1>4, <3>1, <4>1, <4>2
    <3>2. CASE i # k.n
      <4>1. IntKey(i) # k
        BY <3>2 DEF IntKey
      <4>2. s.array[i] = t.array[i] /\ i \in DOMAIN t.array
        BY <1>7, <1>8, <3>2
      <4>3. t.array[i] = At(m, IntKey(i))
        BY <1>1, <4>2 DEF Content
      <4> QED BY <1>1, <1>3, <4>1, <4>2, <4>3, StoredReads
    <3> QED BY <3>1, <3>2
  <2>2. ASSUME NEW i \in Live(s)
        PROVE  ~ InArray(s, s.node[i].key) /\ s.node[i].val = m2[s.node[i].key]
    <3>1. ~ InArray(t, t.node[i].key) /\ t.node[i].val = m[t.node[i].key]
      BY <1>1, <1>10 DEF Content
    <3>2. t.node[i].key \in TableKey /\ t.node[i].key # k
      BY <1>1, <1>10, <3>1, NodesOfATable
    <3> QED BY <1>1, <1>3, <1>7, <1>13, <3>1, <3>2, StoredReads
  <2>3. ASSUME NEW q \in TableKey, m2[q] # Nothing, ~ InArray(s, q)
        PROVE  \E i \in Live(s) : s.node[i].key = q
    <3>1. q # k /\ ~ InArray(t, q)
      BY <1>13, <2>3
    <3>2. m[q] # Nothing
      BY <1>1, <1>3, <2>3, <3>1, StoredReads
    <3> QED BY <1>1, <1>7, <1>10, <3>1, <3>2 DEF Content
  <2> QED BY <2>1, <2>2, <2>3 DEF Content
<1> QED BY <1>1, <1>2, <1>3, <1>11, <1>12, <1>14, StoredReads DEF TableOK

\* The array part is as it was, and so is what a key in it reads.
LEMMA ArrayKeeps ==
  ASSUME NEW t, NEW m, Content(t, m), NEW s, s.array = t.array,
         m \in [TableKey -> Value],
         NEW k \in TableKey, NEW v \in Value, ~ InArray(t, k), Shape(t)
  PROVE  /\ \A i \in DOMAIN s.array : s.array[i] = At(Stored(m, k, v), IntKey(i))
         /\ \A q : InArray(s, q) <=> InArray(t, q)
<1>1. \A q : InArray(s, q) <=> InArray(t, q)
  BY DEF InArray
<1>2. ASSUME NEW i \in DOMAIN s.array PROVE s.array[i] = At(Stored(m, k, v), IntKey(i))
  <2>1. InArray(t, IntKey(i))
    BY DEF InArray, IntKey
  <2>2. IntKey(i) # k
    BY <2>1
  <2>3. t.array[i] = At(m, IntKey(i))
    BY DEF Content
  <2> QED BY <2>2, <2>3, StoredReads
<1> QED BY <1>1, <1>2

\* A node that is there.
LEMMA PlaceInNode ==
  ASSUME NEW t, NEW m, TableOK(t, m), NEW k \in TableKey, NEW v \in Value,
         ~ InArray(t, k), NodeOf(t, k) # 0
  PROVE  TableOK(Place(t, k, v), Stored(m, k, v))
<1>1. Shape(t) /\ Chains(t) /\ Content(t, m) /\ m \in [TableKey -> Value]
  BY DEF TableOK
<1>2. PICK s : s = Place(t, k, v)
  OBVIOUS
<1>3. PICK m2 : m2 = Stored(m, k, v)
  OBVIOUS
<1>4. PICK x : x = NodeOf(t, k)
  OBVIOUS
<1>5. /\ x \in Live(t) /\ t.node[x].key = k
      /\ \A i \in Live(t) : t.node[i].key = k => i = x
  BY <1>1, <1>4, KeysAreKeys, NodeIsFound
<1>6. x \in DOMAIN t.node /\ x \in Keyed(t)
  BY <1>5 DEF Live, Keyed
<1>7. s = [t EXCEPT !.node[x].val = v]
  BY <1>2, <1>4 DEF Place
<1>8. t \in TableRec /\ t.node[x] \in Node
  BY <1>1, <1>6, NodesOfATable DEF Shape
<1>9. /\ s.array = t.array /\ s.lastfree = t.lastfree
      /\ s.node = [t.node EXCEPT ![x] = [t.node[x] EXCEPT !.val = v]]
      /\ s = [array |-> t.array, node |-> s.node, lastfree |-> t.lastfree]
  BY <1>7, <1>8 DEF TableRec
<1>10. [t.node[x] EXCEPT !.val = v] \in Node
  BY <1>8 DEF Node
<1>11. s.node \in Seq(Node) /\ DOMAIN s.node = DOMAIN t.node /\ Len(s.node) = Len(t.node)
  BY <1>1, <1>6, <1>9, <1>10, NodesOfATable
<1>12. \A i \in DOMAIN t.node : /\ s.node[i].key = t.node[i].key /\ s.node[i].next = t.node[i].next
                                /\ s.node[i].dead = t.node[i].dead
                                /\ s.node[i].val = IF i = x THEN v ELSE t.node[i].val
  <2>1. ASSUME NEW i \in DOMAIN t.node, i # x PROVE s.node[i] = t.node[i]
    BY <1>9, <2>1
  <2>2. s.node[x] = [t.node[x] EXCEPT !.val = v]
    BY <1>6, <1>9
  <2>3. /\ s.node[x].key = t.node[x].key /\ s.node[x].next = t.node[x].next
        /\ s.node[x].dead = t.node[x].dead /\ s.node[x].val = v
    BY <1>8, <2>2 DEF Node
  <2> QED BY <2>1, <2>3
<1>13. Keyed(s) = Keyed(t) /\ Live(s) = Live(t)
  BY <1>11, <1>12 DEF Keyed, Live
<1>14. s \in TableRec
  BY <1>8, <1>9, <1>11 DEF TableRec
<1>15. Shape(s)
  <2>1. \A i \in DOMAIN s.node :
          /\ s.node[i].next # 0 => s.node[i].next \in Keyed(s)
          /\ s.node[i].key = Nothing => /\ s.node[i].next = 0 /\ ~ s.node[i].dead
                                        /\ s.node[i].val = Nothing /\ i < s.lastfree
          /\ s.node[i].dead => s.node[i].val = Nothing
    <3> SUFFICES ASSUME NEW i \in DOMAIN t.node
                 PROVE  /\ s.node[i].next # 0 => s.node[i].next \in Keyed(s)
                        /\ s.node[i].key = Nothing => /\ s.node[i].next = 0 /\ ~ s.node[i].dead
                                                      /\ s.node[i].val = Nothing /\ i < s.lastfree
                        /\ s.node[i].dead => s.node[i].val = Nothing
      BY <1>11
    <3>1. CASE i = x
      <4>1. t.node[i].key # Nothing /\ ~ t.node[i].dead
        BY <1>5, <3>1 DEF Live, Keyed
      <4> QED BY <1>1, <1>12, <1>13, <4>1 DEF Shape
    <3>2. CASE i # x
      BY <1>1, <1>9, <1>12, <1>13, <3>2 DEF Shape
    <3> QED BY <3>1, <3>2
  <2> QED BY <1>1, <1>9, <1>11, <1>14, <2>1 DEF Shape
<1>16. Chains(s)
  <2>1. SameLinks(t, s)
    BY <1>11, <1>12 DEF SameLinks
  <2> QED BY <1>1, <1>12, <2>1, ChainsStand
<1>17. Content(s, m2)
  <2>1. /\ \A i \in DOMAIN s.array : s.array[i] = At(m2, IntKey(i))
        /\ \A q : InArray(s, q) <=> InArray(t, q)
    BY <1>1, <1>3, <1>9, ArrayKeeps
  <2>2. ASSUME NEW i \in Live(s)
        PROVE  ~ InArray(s, s.node[i].key) /\ s.node[i].val = m2[s.node[i].key]
    <3>1. i \in Live(t) /\ i \in DOMAIN t.node /\ t.node[i].key \in TableKey
      BY <1>1, <1>13, NodesOfATable
    <3>2. ~ InArray(t, t.node[i].key) /\ t.node[i].val = m[t.node[i].key]
      BY <1>1, <3>1 DEF Content
    <3>3. CASE i = x
      BY <1>1, <1>3, <1>5, <1>12, <2>1, <3>1, <3>2, <3>3, StoredReads
    <3>4. CASE i # x
      BY <1>1, <1>3, <1>5, <1>12, <2>1, <3>1, <3>2, <3>4, StoredReads
    <3> QED BY <3>3, <3>4
  <2>3. ASSUME NEW q \in TableKey, m2[q] # Nothing, ~ InArray(s, q)
        PROVE  \E i \in Live(s) : s.node[i].key = q
    <3>1. CASE q = k
      BY <1>5, <1>6, <1>12, <1>13, <3>1
    <3>2. CASE q # k
      <4>1. m[q] # Nothing /\ ~ InArray(t, q)
        BY <1>1, <1>3, <2>1, <2>3, <3>2, StoredReads
      <4>2. PICK i \in Live(t) : t.node[i].key = q
        BY <1>1, <4>1 DEF Content
      <4>3. i \in DOMAIN t.node
        BY <1>1, NodesOfATable
      <4> QED BY <1>12, <1>13, <4>2, <4>3
    <3> QED BY <3>1, <3>2
  <2> QED BY <2>1, <2>2, <2>3 DEF Content
<1> QED BY <1>1, <1>2, <1>3, <1>15, <1>16, <1>17, StoredReads DEF TableOK

\* The collector's removeentry.
LEMMA RemoveKeeps ==
  ASSUME NEW t, NEW m, TableOK(t, m), NEW x \in DOMAIN t.node,
         t.node[x].key # Nothing, t.node[x].val = Nothing, ~ t.node[x].dead
  PROVE  TableOK([t EXCEPT !.node[x].dead = TRUE], m)
<1>1. Shape(t) /\ Chains(t) /\ Content(t, m) /\ m \in [TableKey -> Value]
  BY DEF TableOK
<1>2. PICK s : s = [t EXCEPT !.node[x].dead = TRUE]
  OBVIOUS
<1>8. t \in TableRec /\ t.node[x] \in Node
  BY <1>1, NodesOfATable DEF Shape
<1>9. /\ s.array = t.array /\ s.lastfree = t.lastfree
      /\ s.node = [t.node EXCEPT ![x] = [t.node[x] EXCEPT !.dead = TRUE]]
      /\ s = [array |-> t.array, node |-> s.node, lastfree |-> t.lastfree]
  BY <1>2, <1>8 DEF TableRec
<1>10. [t.node[x] EXCEPT !.dead = TRUE] \in Node
  BY <1>8 DEF Node
<1>11. s.node \in Seq(Node) /\ DOMAIN s.node = DOMAIN t.node /\ Len(s.node) = Len(t.node)
  BY <1>1, <1>9, <1>10, NodesOfATable
<1>12. \A i \in DOMAIN t.node : /\ s.node[i].key = t.node[i].key /\ s.node[i].next = t.node[i].next
                                /\ s.node[i].val = t.node[i].val
                                /\ s.node[i].dead = (i = x \/ t.node[i].dead)
  <2>1. ASSUME NEW i \in DOMAIN t.node, i # x PROVE s.node[i] = t.node[i]
    BY <1>9, <2>1
  <2>2. s.node[x] = [t.node[x] EXCEPT !.dead = TRUE]
    BY <1>9
  <2>3. /\ s.node[x].key = t.node[x].key /\ s.node[x].next = t.node[x].next
        /\ s.node[x].dead = TRUE /\ s.node[x].val = t.node[x].val
    BY <1>8, <2>2 DEF Node
  <2>4. \A i \in DOMAIN t.node : t.node[i].dead \in BOOLEAN
    BY <1>1, NodesOfATable DEF Node
  <2> QED BY <2>1, <2>3, <2>4
<1>13. Keyed(s) = Keyed(t) /\ Live(s) = Live(t) \ {x}
  <2>1. Keyed(s) = Keyed(t)
    BY <1>11, <1>12 DEF Keyed
  <2> QED BY <2>1, <1>12 DEF Live, Keyed
<1>14. s \in TableRec
  BY <1>8, <1>9, <1>11 DEF TableRec
<1>15. Shape(s)
  <2>1. \A i \in DOMAIN s.node :
          /\ s.node[i].next # 0 => s.node[i].next \in Keyed(s)
          /\ s.node[i].key = Nothing => /\ s.node[i].next = 0 /\ ~ s.node[i].dead
                                        /\ s.node[i].val = Nothing /\ i < s.lastfree
          /\ s.node[i].dead => s.node[i].val = Nothing
    BY <1>1, <1>9, <1>11, <1>12, <1>13 DEF Shape
  <2> QED BY <1>1, <1>9, <1>11, <1>14, <2>1 DEF Shape
<1>16. Chains(s)
  <2>1. SameLinks(t, s)
    BY <1>11, <1>12 DEF SameLinks
  <2> QED BY <1>1, <1>12, <2>1, ChainsStand
<1>17. Content(s, m)
  <2>1. \A q : InArray(s, q) <=> InArray(t, q)
    BY <1>9 DEF InArray
  <2>2. \A i \in DOMAIN s.array : s.array[i] = At(m, IntKey(i))
    BY <1>1, <1>9 DEF Content
  <2>3. \A i \in Live(s) : ~ InArray(s, s.node[i].key) /\ s.node[i].val = m[s.node[i].key]
    BY <1>1, <1>12, <1>13, <2>1, NodesOfATable DEF Content
  <2>4. ASSUME NEW q \in TableKey, m[q] # Nothing, ~ InArray(s, q)
        PROVE  \E i \in Live(s) : s.node[i].key = q
    <3>1. PICK i \in Live(t) : t.node[i].key = q
      BY <1>1, <2>1, <2>4 DEF Content
    <3>2. t.node[i].val = m[q]
      BY <1>1, <3>1 DEF Content
    <3>3. i # x /\ i \in DOMAIN t.node
      BY <1>1, <2>4, <3>2, NodesOfATable
    <3> QED BY <1>12, <1>13, <3>1, <3>3
  <2> QED BY <2>2, <2>3, <2>4 DEF Content
<1> QED BY <1>1, <1>2, <1>15, <1>16, <1>17 DEF TableOK

\* What every placing of a new key leaves: the nodes hold what they held, but
\* for the new key and for the nodes that had no value.
LEMMA ContentOfNew ==
  ASSUME NEW t, NEW m, TableOK(t, m), NEW k \in TableKey, NEW v \in Value,
         ~ InArray(t, k), NodeOf(t, k) = 0,
         NEW s, s.array = t.array,
         NEW at \in Live(s), s.node[at].key = k, s.node[at].val = v,
         \A i \in Live(s) : i # at => \E j \in Live(t) : s.node[i].key = t.node[j].key /\ s.node[i].val = t.node[j].val,
         \A j \in Live(t) : t.node[j].val # Nothing => \E i \in Live(s) : s.node[i].key = t.node[j].key
  PROVE  Content(s, Stored(m, k, v))
<1>1. Shape(t) /\ Chains(t) /\ Content(t, m) /\ m \in [TableKey -> Value]
  BY DEF TableOK
<1>2. PICK m2 : m2 = Stored(m, k, v)
  OBVIOUS
<1>3. \A i \in Live(t) : t.node[i].key # k
  BY <1>1, KeysAreKeys, NodeIsFound
<1>4. /\ \A i \in DOMAIN s.array : s.array[i] = At(m2, IntKey(i))
      /\ \A q : InArray(s, q) <=> InArray(t, q)
  BY <1>1, <1>2, ArrayKeeps
<1>5. ASSUME NEW i \in Live(s)
      PROVE  ~ InArray(s, s.node[i].key) /\ s.node[i].val = m2[s.node[i].key]
  <2>1. CASE i = at
    BY <1>1, <1>2, <1>4, <2>1, StoredReads
  <2>2. CASE i # at
    <3>1. PICK j \in Live(t) : s.node[i].key = t.node[j].key /\ s.node[i].val = t.node[j].val
      BY <2>2
    <3>2. ~ InArray(t, t.node[j].key) /\ t.node[j].val = m[t.node[j].key]
      BY <1>1 DEF Content
    <3>3. t.node[j].key \in TableKey /\ t.node[j].key # k
      BY <1>1, <1>3, NodesOfATable
    <3> QED BY <1>1, <1>2, <1>4, <3>1, <3>2, <3>3, StoredReads
  <2> QED BY <2>1, <2>2
<1>6. ASSUME NEW q \in TableKey, m2[q] # Nothing, ~ InArray(s, q)
      PROVE  \E i \in Live(s) : s.node[i].key = q
  <2>1. CASE q = k
    BY <2>1
  <2>2. CASE q # k
    <3>1. m[q] # Nothing /\ ~ InArray(t, q)
      BY <1>1, <1>2, <1>4, <1>6, <2>2, StoredReads
    <3>2. PICK j \in Live(t) : t.node[j].key = q
      BY <1>1, <3>1 DEF Content
    <3>3. t.node[j].val # Nothing
      BY <1>1, <3>1, <3>2 DEF Content
    <3> QED BY <3>2, <3>3
  <2> QED BY <2>1, <2>2
<1> QED BY <1>2, <1>4, <1>5, <1>6 DEF Content

\* The main position of the key is free.
LEMMA PlaceInMain ==
  ASSUME NEW t, NEW m, TableOK(t, m), NEW k \in TableKey, NEW v \in Value,
         ~ InArray(t, k), NodeOf(t, k) = 0, MainIsFree(t, k)
  PROVE  TableOK(Place(t, k, v), Stored(m, k, v))
<1>1. Shape(t) /\ Chains(t) /\ Content(t, m) /\ m \in [TableKey -> Value]
  BY DEF TableOK
<1>2. PICK s : s = Place(t, k, v)
  OBVIOUS
<1>3. PICK mp : mp = mainposition(t, k)
  OBVIOUS
<1>4. t \in TableRec /\ k \in AnyKey /\ k # Nothing
  BY <1>1, KeysAreKeys DEF Shape
<1>5. t.node # <<>> /\ mp \in DOMAIN t.node /\ t.node[mp].val = Nothing
  BY <1>3, <1>4, MainIsANode DEF MainIsFree
<1>6. PICK e : e = Entry(k, v, t.node[mp].next)
  OBVIOUS
<1>7. e \in Node /\ e.key = k /\ e.val = v /\ e.next = t.node[mp].next /\ e.dead = FALSE
  <2>1. t.node[mp].next \in Nat
    BY <1>1, <1>5, NodesOfATable DEF Node
  <2> QED BY <1>6, <2>1 DEF Entry, Node
<1>8. s = [t EXCEPT !.node[mp] = e]
  BY <1>2, <1>3, <1>6 DEF Place, NewNode
<1>9. /\ s.array = t.array /\ s.lastfree = t.lastfree /\ s.node = [t.node EXCEPT ![mp] = e]
      /\ s = [array |-> t.array, node |-> s.node, lastfree |-> t.lastfree]
  BY <1>4, <1>8 DEF TableRec
<1>10. s.node \in Seq(Node) /\ DOMAIN s.node = DOMAIN t.node /\ Len(s.node) = Len(t.node)
  BY <1>1, <1>5, <1>7, <1>9, NodesOfATable
<1>11. s.node[mp] = e /\ \A i \in DOMAIN t.node : i # mp => s.node[i] = t.node[i]
  BY <1>5, <1>9
<1>12. Keyed(s) = Keyed(t) \cup {mp}
  BY <1>4, <1>5, <1>7, <1>10, <1>11 DEF Keyed
<1>13. Live(s) = Live(t) \cup {mp}
  BY <1>5, <1>7, <1>11, <1>12 DEF Live, Keyed
<1>14. SameLinks(t, s)
  BY <1>7, <1>10, <1>11 DEF SameLinks
<1>15. s \in TableRec
  BY <1>4, <1>9, <1>10 DEF TableRec
<1>16. Shape(s)
  <2>1. \A i \in DOMAIN s.node :
          /\ s.node[i].next # 0 => s.node[i].next \in Keyed(s)
          /\ s.node[i].key = Nothing => /\ s.node[i].next = 0 /\ ~ s.node[i].dead
                                        /\ s.node[i].val = Nothing /\ i < s.lastfree
          /\ s.node[i].dead => s.node[i].val = Nothing
    <3> SUFFICES ASSUME NEW i \in DOMAIN t.node
                 PROVE  /\ s.node[i].next # 0 => s.node[i].next \in Keyed(s)
                        /\ s.node[i].key = Nothing => /\ s.node[i].next = 0 /\ ~ s.node[i].dead
                                                      /\ s.node[i].val = Nothing /\ i < s.lastfree
                        /\ s.node[i].dead => s.node[i].val = Nothing
      BY <1>10
    <3>1. t.node[i].next # 0 => t.node[i].next \in Keyed(s)
      BY <1>1, <1>12 DEF Shape
    <3>2. CASE i = mp
      BY <1>4, <1>7, <1>11, <3>1, <3>2
    <3>3. CASE i # mp
      BY <1>1, <1>9, <1>11, <3>1, <3>3 DEF Shape
    <3> QED BY <3>2, <3>3
  <2> QED BY <1>1, <1>9, <1>10, <1>15, <2>1 DEF Shape
<1>17. Chains(s)
  <2>1. \A i, j \in DOMAIN s.node : s.node[i].next = s.node[j].next /\ s.node[i].next # 0 => i = j
    BY <1>1, <1>14 DEF SameLinks, Chains
  <2>2. \E r : Ranks(s, r)
    BY <1>1, <1>14, SameChains DEF Chains
  <2>3. Main(s, mp) = mp /\ \A i \in Keyed(t) : i # mp => Main(s, i) = Main(t, i)
    <3>1. Main(s, mp) = mp
      BY <1>3, <1>7, <1>11, <1>14, SameChains DEF Main
    <3>2. \A i \in Keyed(t) : i # mp => Main(s, i) = Main(t, i)
      BY <1>11, <1>14, SameChains DEF Main, Keyed
    <3> QED BY <3>1, <3>2
  <2>4. \A i \in Keyed(t) : Main(t, i) \in Keyed(t) /\ Main(t, Main(t, i)) = Main(t, i)
    BY <1>1 DEF Chains
  <2>5. \A i \in Keyed(s) : Main(s, i) \in Keyed(s) /\ Main(s, Main(s, i)) = Main(s, i)
    BY <1>12, <2>3, <2>4
  <2>6. \A i \in Keyed(s) : Comes(s, Main(s, i), i)
    <3>1. Comes(s, mp, mp)
      BY DEF Comes
    <3>2. \A i \in Keyed(t) : Comes(s, Main(t, i), i)
      BY <1>1, <1>14, SameChains DEF Chains
    <3> QED BY <1>12, <2>3, <3>1, <3>2
  <2>7. ASSUME NEW i \in Live(s), NEW j \in Keyed(s), s.node[i].key = s.node[j].key
        PROVE  Comes(s, i, j)
    <3>1. CASE i = mp /\ j = mp
      BY <3>1 DEF Comes
    <3>2. CASE i = mp /\ j # mp
      <4>1. j \in Keyed(t) /\ Comes(s, Main(s, j), j)
        BY <1>12, <2>6, <3>2
      <4>2. s.node[j].key = k
        BY <1>7, <1>11, <2>7, <3>2
      <4>3. Main(s, j) = mp
        BY <1>3, <1>14, <4>2, SameChains DEF Main
      <4> QED BY <3>2, <4>1, <4>3
    <3>3. CASE i # mp /\ j = mp
      <4>1. i \in Live(t) /\ i \in DOMAIN t.node
        BY <1>13, <3>3 DEF Live, Keyed
      <4>2. t.node[i].key = k
        BY <1>7, <1>11, <2>7, <3>3, <4>1
      <4> QED BY <1>1, <1>4, <4>1, <4>2, NodeIsFound
    <3>4. CASE i # mp /\ j # mp
      <4>1. i \in Live(t) /\ j \in Keyed(t) /\ i \in DOMAIN t.node /\ j \in DOMAIN t.node
        BY <1>12, <1>13, <3>4 DEF Live, Keyed
      <4>2. t.node[i].key = t.node[j].key
        BY <1>11, <2>7, <3>4, <4>1
      <4>3. Comes(t, i, j)
        BY <1>1, <4>1, <4>2 DEF Chains
      <4> QED BY <1>14, <4>3, SameChains
    <3> QED BY <3>1, <3>2, <3>3, <3>4
  <2> QED BY <2>1, <2>2, <2>5, <2>6, <2>7 DEF Chains
<1>18. Content(s, Stored(m, k, v))
  <2>1. mp \in Live(s) /\ s.node[mp].key = k /\ s.node[mp].val = v
    BY <1>7, <1>11, <1>13
  <2>2. ASSUME NEW i \in Live(s), i # mp
        PROVE  \E j \in Live(t) : s.node[i].key = t.node[j].key /\ s.node[i].val = t.node[j].val
    <3>1. i \in Live(t) /\ s.node[i] = t.node[i]
      BY <1>11, <1>13, <2>2 DEF Live, Keyed
    <3> QED BY <3>1
  <2>3. ASSUME NEW j \in Live(t), t.node[j].val # Nothing
        PROVE  \E i \in Live(s) : s.node[i].key = t.node[j].key
    <3>1. j # mp /\ j \in DOMAIN t.node /\ j \in Live(s)
      BY <1>5, <1>13, <2>3 DEF Live, Keyed
    <3> QED BY <1>11, <3>1
  <2>4. \A i \in Live(s) : i # mp => \E j \in Live(t) : s.node[i].key = t.node[j].key /\ s.node[i].val = t.node[j].val
    BY <2>2
  <2>5. \A j \in Live(t) : t.node[j].val # Nothing => \E i \in Live(s) : s.node[i].key = t.node[j].key
    BY <2>3
  <2>6. s.array = t.array
    BY <1>9
  <2> QED BY <2>1, <2>4, <2>5, <2>6, ContentOfNew
<1> QED BY <1>1, <1>2, <1>16, <1>17, <1>18, StoredReads DEF TableOK

\* getfreepos: the last node without a key.
LEMMA FreeIsTheLast ==
  ASSUME NEW t, Shape(t)
  PROVE  \/ getfreepos(t) = 0 /\ Keyed(t) = DOMAIN t.node
         \/ /\ getfreepos(t) \in DOMAIN t.node /\ getfreepos(t) \notin Keyed(t)
            /\ \A i \in DOMAIN t.node : i > getfreepos(t) => i \in Keyed(t)
<1> DEFINE free == {i \in 1 .. t.lastfree - 1 : t.node[i].key = Nothing}
<1>1. /\ t.lastfree \in Nat /\ Len(t.node) \in Nat /\ DOMAIN t.node = 1 .. Len(t.node)
      /\ t.lastfree \in 1 .. Len(t.node) + 1
      /\ \A i \in DOMAIN t.node : t.node[i].key = Nothing => i < t.lastfree
  BY NodesOfATable DEF Shape
<1>2. \A i \in DOMAIN t.node : i \notin free => i \in Keyed(t)
  BY <1>1 DEF Keyed
<1>3. CASE free = {}
  <2>1. getfreepos(t) = 0
    BY <1>3 DEF getfreepos
  <2> QED BY <1>2, <1>3, <2>1 DEF Keyed
<1>4. CASE free # {}
  <2>1. \E i \in free : \A j \in free : j <= i
    <3>1. free \in SUBSET (0 .. Len(t.node))
      BY <1>1
    <3> HIDE DEF free
    <3> QED BY <1>1, <1>4, <3>1, GreatestNumber
  <2>2. PICK c : c = CHOOSE i \in free : \A j \in free : j <= i
    OBVIOUS
  <2>3. c \in free /\ \A j \in free : j <= c
    <3> HIDE DEF free
    <3> QED BY <2>1, <2>2
  <2>4. getfreepos(t) = c
    BY <1>4, <2>2 DEF getfreepos
  <2>5. c \in DOMAIN t.node /\ c \notin Keyed(t)
    BY <1>1, <2>3 DEF Keyed
  <2>6. \A i \in DOMAIN t.node : i > c => i \in Keyed(t)
    <3> SUFFICES ASSUME NEW i \in DOMAIN t.node, i > c PROVE i \notin free
      BY <1>2
    <3> HIDE DEF free
    <3>1. i \in Nat /\ c \in Nat
      BY <1>1, <2>5
    <3> QED BY <2>3, <3>1
  <2> QED BY <2>4, <2>5, <2>6
<1> QED BY <1>3, <1>4

\* A taken main position, and a free node for the collision.
LEMMA Collision ==
  ASSUME NEW t, Shape(t), NEW k \in TableKey, ~ MainIsFree(t, k), getfreepos(t) # 0
  PROVE  LET mp == mainposition(t, k)  f == getfreepos(t)
         IN  /\ mp \in Live(t) /\ mp \in Keyed(t) /\ mp \in DOMAIN t.node /\ t.node[mp].val # Nothing
             /\ f \in DOMAIN t.node /\ f \notin Keyed(t) /\ f # mp /\ t.node[f].next = 0
             /\ f \in 1 .. Len(t.node) + 1
             /\ \A i \in DOMAIN t.node : i > f => i \in Keyed(t)
             /\ \A i \in DOMAIN t.node : t.node[i].next # f
<1> DEFINE mp == mainposition(t, k)
           f == getfreepos(t)
<1>1. /\ f \in DOMAIN t.node /\ f \notin Keyed(t)
      /\ \A i \in DOMAIN t.node : i > f => i \in Keyed(t)
  BY FreeIsTheLast
<1>2. t.node # <<>> /\ t \in TableRec /\ k \in AnyKey
  BY <1>1, KeysAreKeys, NodesOfATable DEF Shape
<1>3. mp \in DOMAIN t.node /\ t.node[mp].val # Nothing
  BY <1>2, MainIsANode DEF MainIsFree
<1>4. mp \in Live(t) /\ mp \in Keyed(t)
  BY <1>3 DEF Shape, Live, Keyed
<1>5. t.node[f].next = 0
  BY <1>1 DEF Shape, Keyed
<1>6. \A i \in DOMAIN t.node : t.node[i].next # f
  <2> SUFFICES ASSUME NEW i \in DOMAIN t.node, t.node[i].next = f PROVE FALSE
    OBVIOUS
  <2>1. f # 0
    BY <1>1, NodesOfATable
  <2>2. f \in Keyed(t)
    BY <2>1 DEF Shape
  <2> QED BY <1>1, <2>2
<1>7. f # mp
  BY <1>1, <1>4
<1>8. f \in 1 .. Len(t.node) + 1
  BY <1>1, NodesOfATable
<1> QED BY <1>1, <1>3, <1>4, <1>5, <1>6, <1>7, <1>8

\* The table after a collision, whichever node moves.
LEMMA CollisionShape ==
  ASSUME NEW t, Shape(t), NEW f \in DOMAIN t.node, f \notin Keyed(t),
         \A i \in DOMAIN t.node : i > f => i \in Keyed(t),
         f \in 1 .. Len(t.node) + 1,
         NEW n \in Seq(Node), DOMAIN n = DOMAIN t.node, Len(n) = Len(t.node),
         \A i \in Keyed(t) \cup {f} : n[i].key # Nothing /\ (n[i].dead => n[i].val = Nothing),
         \A i \in DOMAIN n : i \notin Keyed(t) \cup {f} => n[i] = t.node[i],
         \A i \in DOMAIN n : n[i].next \in Keyed(t) \cup {f, 0}
  PROVE  Shape([t EXCEPT !.node = n, !.lastfree = f])
<1>1. PICK s : s = [t EXCEPT !.node = n, !.lastfree = f]
  OBVIOUS
<1>2. t \in TableRec
  BY DEF Shape
<1>3. s.array = t.array /\ s.node = n /\ s.lastfree = f /\ s = [array |-> t.array, node |-> n, lastfree |-> f]
  BY <1>1, <1>2 DEF TableRec
<1>4. f \in Nat /\ 0 \notin DOMAIN t.node /\ DOMAIN t.node \subseteq Nat
  BY NodesOfATable
<1>5. s \in TableRec
  BY <1>2, <1>3, <1>4 DEF TableRec
<1>6. Keyed(s) = Keyed(t) \cup {f}
  BY <1>3 DEF Keyed
<1>7. ASSUME NEW i \in DOMAIN s.node
      PROVE  /\ s.node[i].next # 0 => s.node[i].next \in Keyed(s)
             /\ s.node[i].key = Nothing => /\ s.node[i].next = 0 /\ ~ s.node[i].dead
                                           /\ s.node[i].val = Nothing /\ i < s.lastfree
             /\ s.node[i].dead => s.node[i].val = Nothing
  <2>1. i \in DOMAIN n /\ s.node[i] = n[i]
    BY <1>3
  <2>2. CASE i \in Keyed(t) \cup {f}
    BY <1>6, <2>1, <2>2
  <2>3. CASE i \notin Keyed(t) \cup {f}
    <3>1. n[i] = t.node[i] /\ i \in DOMAIN t.node
      BY <2>1, <2>3
    <3>2. ~ (i > f) /\ i # f
      BY <2>3, <3>1
    <3>3. i < f
      BY <1>4, <3>1, <3>2
    <3> QED BY <1>3, <1>6, <2>1, <2>3, <3>1, <3>3 DEF Shape, Keyed
  <2> QED BY <2>2, <2>3
<1>8. s.lastfree \in 1 .. Len(s.node) + 1
  BY <1>3
<1> QED BY <1>1, <1>5, <1>7, <1>8 DEF Shape

\* The new key goes behind the one that is in its own main position.
LEMMA PlaceBehind ==
  ASSUME NEW t, NEW m, TableOK(t, m), NEW k \in TableKey, NEW v \in Value,
         ~ InArray(t, k), NodeOf(t, k) = 0, ~ MainIsFree(t, k), getfreepos(t) # 0,
         Main(t, mainposition(t, k)) = mainposition(t, k)
  PROVE  TableOK(Place(t, k, v), Stored(m, k, v))
<1>1. Shape(t) /\ Chains(t) /\ Content(t, m) /\ m \in [TableKey -> Value]
  BY DEF TableOK
<1>2. PICK s : s = Place(t, k, v)
  OBVIOUS
<1>3. PICK mp : mp = mainposition(t, k)
  OBVIOUS
<1>4. PICK f : f = getfreepos(t)
  OBVIOUS
<1>5. /\ mp \in Live(t) /\ mp \in Keyed(t) /\ mp \in DOMAIN t.node /\ t.node[mp].val # Nothing
      /\ f \in DOMAIN t.node /\ f \notin Keyed(t) /\ f # mp /\ t.node[f].next = 0
      /\ f \in 1 .. Len(t.node) + 1
      /\ \A i \in DOMAIN t.node : i > f => i \in Keyed(t)
      /\ \A i \in DOMAIN t.node : t.node[i].next # f
  BY <1>1, <1>3, <1>4, Collision
<1>6. t \in TableRec /\ k \in AnyKey /\ k # Nothing /\ t.node[mp] \in Node /\ f # 0
  BY <1>1, <1>5, KeysAreKeys, NodesOfATable DEF Shape
<1>7. PICK e : e = Entry(k, v, t.node[mp].next)
  OBVIOUS
<1>8. e \in Node /\ e.key = k /\ e.val = v /\ e.next = t.node[mp].next /\ e.dead = FALSE
  <2>1. t.node[mp].next \in Nat
    BY <1>6 DEF Node
  <2> QED BY <1>7, <2>1 DEF Entry, Node
<1>9. PICK n : n = [t.node EXCEPT ![f] = e, ![mp].next = f]
  OBVIOUS
<1>10. s = [t EXCEPT !.node = n, !.lastfree = f]
  <2>1. Collide(t, k, v, mp, f) = n
    BY <1>3, <1>7, <1>9 DEF Collide, Main
  <2> QED BY <1>2, <1>3, <1>4, <2>1 DEF Place, NewNode
<1>11. PICK w : w = [t.node[mp] EXCEPT !.next = f]
  OBVIOUS
<1>12. w \in Node /\ w.key = t.node[mp].key /\ w.val = t.node[mp].val /\ w.next = f /\ w.dead = t.node[mp].dead
  <2>1. f \in Nat
    BY <1>5
  <2> QED BY <1>6, <1>11, <2>1 DEF Node
<1>13. /\ n \in Seq(Node) /\ DOMAIN n = DOMAIN t.node /\ Len(n) = Len(t.node)
       /\ n[f] = e /\ n[mp] = w /\ \A i \in DOMAIN t.node : i # f /\ i # mp => n[i] = t.node[i]
  <2>1. PICK n1 : n1 = [t.node EXCEPT ![f] = e]
    OBVIOUS
  <2>2. /\ n1 \in Seq(Node) /\ DOMAIN n1 = DOMAIN t.node /\ Len(n1) = Len(t.node)
        /\ n1[f] = e /\ n1[mp] = t.node[mp] /\ \A i \in DOMAIN t.node : i # f => n1[i] = t.node[i]
    BY <1>1, <1>5, <1>8, <2>1, NodesOfATable
  <2>3. n = [n1 EXCEPT ![mp] = w]
    BY <1>9, <1>11, <2>1, <2>2
  <2> QED BY <1>5, <1>12, <2>2, <2>3
<1>14. s.array = t.array /\ s.node = n
  BY <1>6, <1>10 DEF TableRec
<1>15. Keyed(s) = Keyed(t) \cup {f}
  BY <1>5, <1>6, <1>8, <1>12, <1>13, <1>14 DEF Keyed
<1>16. Live(s) = Live(t) \cup {f}
  BY <1>5, <1>8, <1>12, <1>13, <1>14, <1>15 DEF Live, Keyed
<1>17. /\ n[f].next = t.node[mp].next /\ n[mp].next = f
       /\ \A i \in DOMAIN t.node : i # f /\ i # mp => n[i].next = t.node[i].next
       /\ \A i \in DOMAIN t.node : i # f => n[i].key = t.node[i].key
  BY <1>8, <1>12, <1>13
<1>18. \A i \in DOMAIN t.node : t.node[i].next \in Keyed(t) \cup {0}
  BY <1>1 DEF Shape
<1>19. Shape(s)
  <2>1. \A i \in Keyed(t) \cup {f} : n[i].key # Nothing /\ (n[i].dead => n[i].val = Nothing)
    <3>1. \A i \in Keyed(t) : i # mp => n[i] = t.node[i] /\ i \in DOMAIN t.node
      BY <1>5, <1>13 DEF Keyed
    <3>2. \A i \in Keyed(t) : t.node[i].key # Nothing /\ (t.node[i].dead => t.node[i].val = Nothing)
      BY <1>1 DEF Shape, Keyed
    <3> QED BY <1>5, <1>6, <1>8, <1>12, <1>13, <3>1, <3>2
  <2>2. \A i \in DOMAIN n : i \notin Keyed(t) \cup {f} => n[i] = t.node[i]
    BY <1>5, <1>13
  <2>3. \A i \in DOMAIN n : n[i].next \in Keyed(t) \cup {f, 0}
    BY <1>5, <1>13, <1>17, <1>18
  <2> QED BY <1>1, <1>5, <1>10, <1>13, <2>1, <2>2, <2>3, CollisionShape
\* Whatever t's chain came to, the new chain comes to.
<1>20. ASSUME NEW a, NEW b, a # f, b # f, Comes(t, a, b) PROVE Comes(s, a, b)
  <2> SUFFICES ASSUME NEW S \in SUBSET DOMAIN s.node, a \in S, Closed(s, S) PROVE b \in S
    BY DEF Comes
  <2>1. PICK T : T = S \ {f}
    OBVIOUS
  <2>2. T \in SUBSET DOMAIN t.node /\ a \in T
    BY <1>13, <1>14, <1>20, <2>1
  <2>3. Closed(t, T)
    <3> SUFFICES ASSUME NEW i \in T, t.node[i].next # 0 PROVE t.node[i].next \in T
      BY DEF Closed
    <3>1. i \in S /\ i \in DOMAIN t.node /\ i # f /\ t.node[i].next # f
      BY <1>5, <2>1, <2>2
    <3>2. CASE i = mp
      <4>1. f \in S
        BY <1>6, <1>14, <1>17, <3>1, <3>2 DEF Closed
      <4>2. t.node[i].next \in S
        BY <1>14, <1>17, <3>2, <4>1 DEF Closed
      <4> QED BY <2>1, <3>1, <4>2
    <3>3. CASE i # mp
      <4>1. t.node[i].next \in S
        BY <1>14, <1>17, <3>1, <3>3 DEF Closed
      <4> QED BY <2>1, <3>1, <4>1
    <3> QED BY <3>2, <3>3
  <2>4. b \in T
    BY <1>20, <2>2, <2>3 DEF Comes
  <2> QED BY <2>1, <2>4
<1>21. Comes(s, mp, f)
  BY <1>6, <1>14, <1>17 DEF Comes, Closed
\* What was behind mp is behind the new node.
<1>22. ASSUME NEW b, b # f, b # mp, Comes(t, mp, b) PROVE Comes(s, f, b)
  <2> SUFFICES ASSUME NEW S \in SUBSET DOMAIN s.node, f \in S, Closed(s, S) PROVE b \in S
    BY DEF Comes
  <2>1. PICK T : T = (S \ {f}) \cup {mp}
    OBVIOUS
  <2>2. T \in SUBSET DOMAIN t.node /\ mp \in T
    BY <1>5, <1>13, <1>14, <2>1
  <2>3. Closed(t, T)
    <3> SUFFICES ASSUME NEW i \in T, t.node[i].next # 0 PROVE t.node[i].next \in T
      BY DEF Closed
    <3>1. i \in DOMAIN t.node /\ t.node[i].next # f
      BY <1>5, <2>2
    <3>2. CASE i = mp
      <4>1. t.node[i].next \in S
        BY <1>14, <1>17, <3>2 DEF Closed
      <4> QED BY <2>1, <3>1, <4>1
    <3>3. CASE i # mp
      <4>1. i # f /\ i \in S
        BY <2>1, <3>3
      <4>2. t.node[i].next \in S
        BY <1>14, <1>17, <3>1, <3>3, <4>1 DEF Closed
      <4> QED BY <2>1, <3>1, <4>2
    <3> QED BY <3>2, <3>3
  <2>4. b \in T
    BY <1>22, <2>2, <2>3 DEF Comes
  <2> QED BY <1>22, <2>1, <2>4
<1>23. Chains(s)
  <2>1. ASSUME NEW i \in DOMAIN s.node, NEW j \in DOMAIN s.node,
               s.node[i].next = s.node[j].next, s.node[i].next # 0
        PROVE  i = j
    <3>1. i \in DOMAIN t.node /\ j \in DOMAIN t.node /\ n[i].next = n[j].next /\ n[i].next # 0
      BY <1>13, <1>14, <2>1
    <3>2. \A x, y \in DOMAIN t.node : t.node[x].next = t.node[y].next /\ t.node[x].next # 0 => x = y
      BY <1>1 DEF Chains
    <3> QED BY <1>5, <1>17, <3>1, <3>2
  <2>2. \E r : Ranks(s, r)
    <3>1. PICK r : Ranks(t, r)
      BY <1>1 DEF Chains
    <3>2. r \in [DOMAIN t.node -> Nat]
      BY <3>1 DEF Ranks
    <3> DEFINE q == [i \in DOMAIN t.node |-> IF i = f THEN 2 * r[mp] + 1 ELSE 2 * r[i]]
    <3>3. q \in [DOMAIN t.node -> Nat]
      BY <1>5, <3>2
    <3>4. /\ q[f] = 2 * r[mp] + 1
          /\ \A i \in DOMAIN t.node : i # f => q[i] = 2 * r[i]
      BY <1>5
    <3> HIDE DEF q
    <3>5. ASSUME NEW i \in DOMAIN t.node, n[i].next # 0 PROVE q[i] < q[n[i].next]
      <4>1. CASE i = f
        <5>1. t.node[mp].next # 0 /\ t.node[mp].next # f /\ t.node[mp].next \in DOMAIN t.node
          BY <1>5, <1>17, <1>18, <3>5, <4>1 DEF Keyed
        <5>2. r[mp] < r[t.node[mp].next] /\ r[mp] \in Nat /\ r[t.node[mp].next] \in Nat
          BY <1>5, <3>1, <3>2, <5>1 DEF Ranks
        <5>3. q[n[i].next] = 2 * r[t.node[mp].next]
          BY <1>17, <3>4, <4>1, <5>1
        <5> QED BY <3>4, <4>1, <5>2, <5>3
      <4>2. CASE i = mp
        <5>1. q[mp] = 2 * r[mp] /\ r[mp] \in Nat
          BY <1>5, <3>2, <3>4
        <5> QED BY <1>17, <3>4, <4>2, <5>1
      <4>3. CASE i # f /\ i # mp
        <5>1. n[i].next = t.node[i].next /\ t.node[i].next # f /\ t.node[i].next \in DOMAIN t.node
          BY <1>5, <1>17, <1>18, <3>5, <4>3 DEF Keyed
        <5>2. r[i] < r[t.node[i].next] /\ r[i] \in Nat /\ r[t.node[i].next] \in Nat
          BY <3>1, <3>2, <3>5, <5>1 DEF Ranks
        <5>3. q[i] = 2 * r[i] /\ q[n[i].next] = 2 * r[t.node[i].next]
          BY <3>4, <4>3, <5>1
        <5> QED BY <5>2, <5>3
      <4> QED BY <4>1, <4>2, <4>3
    <3>6. Ranks(s, q)
      BY <1>13, <1>14, <3>3, <3>5 DEF Ranks
    <3> QED BY <3>6
  <2>3. \A x : mainposition(s, x) = mainposition(t, x)
    BY <1>13, <1>14 DEF mainposition
  <2>4. Main(s, f) = mp /\ \A i \in Keyed(t) : Main(s, i) = Main(t, i)
    <3>1. Main(s, f) = mp
      BY <1>3, <1>8, <1>13, <1>14, <2>3 DEF Main
    <3>2. \A i \in Keyed(t) : Main(s, i) = Main(t, i)
      BY <1>5, <1>14, <1>17, <2>3 DEF Main, Keyed
    <3> QED BY <3>1, <3>2
  <2>5. \A i \in Keyed(t) : /\ Main(t, i) \in Keyed(t) /\ Main(t, Main(t, i)) = Main(t, i)
                            /\ Comes(t, Main(t, i), i)
    BY <1>1 DEF Chains
  <2>6. \A i \in Keyed(s) : Main(s, i) \in Keyed(s) /\ Main(s, Main(s, i)) = Main(s, i)
    <3>1. Main(t, mp) = mp
      BY <1>3
    <3> QED BY <1>5, <1>15, <2>4, <2>5, <3>1
  <2>7. \A i \in Keyed(s) : Comes(s, Main(s, i), i)
    <3>1. ASSUME NEW i \in Keyed(t) PROVE Comes(s, Main(t, i), i)
      <4>1. i # f /\ Main(t, i) # f
        BY <1>5, <2>5
      <4> QED BY <1>20, <2>5, <4>1
    <3> QED BY <1>15, <1>21, <2>4, <3>1
  <2>8. ASSUME NEW i \in Live(s), NEW j \in Keyed(s), s.node[i].key = s.node[j].key
        PROVE  Comes(s, i, j)
    <3>1. \A x \in Live(t) : t.node[x].key # k
      BY <1>1, <1>6, NodeIsFound
    <3>2. \A x \in Keyed(t) : x # f /\ x \in DOMAIN t.node /\ s.node[x].key = t.node[x].key
      BY <1>5, <1>14, <1>17 DEF Keyed
    <3>3. \A x \in Live(t) : x \in Keyed(t)
      BY DEF Live
    <3>4. s.node[f].key = k
      BY <1>8, <1>13, <1>14
    <3>5. CASE i = f /\ j = f
      BY <3>5 DEF Comes
    <3>6. CASE i = f /\ j # f
      <4>1. j \in Keyed(t) /\ t.node[j].key = k
        BY <1>15, <2>8, <3>2, <3>4, <3>6
      <4>2. j # mp
        BY <1>5, <3>1, <4>1
      <4>3. Comes(t, mp, j)
        BY <1>3, <2>5, <4>1 DEF Main
      <4> QED BY <1>22, <3>2, <3>6, <4>1, <4>2, <4>3
    <3>7. CASE i # f /\ j = f
      BY <1>16, <2>8, <3>1, <3>2, <3>3, <3>4, <3>7
    <3>8. CASE i # f /\ j # f
      <4>1. i \in Live(t) /\ j \in Keyed(t) /\ t.node[i].key = t.node[j].key
        BY <1>15, <1>16, <2>8, <3>2, <3>3, <3>8
      <4>2. Comes(t, i, j)
        BY <1>1, <4>1 DEF Chains
      <4> QED BY <1>20, <3>8, <4>2
    <3> QED BY <3>5, <3>6, <3>7, <3>8
  <2> QED BY <2>1, <2>2, <2>6, <2>7, <2>8 DEF Chains
<1>24. Content(s, Stored(m, k, v))
  <2>1. f \in Live(s) /\ s.node[f].key = k /\ s.node[f].val = v
    BY <1>8, <1>13, <1>14, <1>16
  <2>2. \A x \in Live(t) : /\ x \in Live(s) /\ x \in DOMAIN t.node
                           /\ s.node[x].key = t.node[x].key /\ s.node[x].val = t.node[x].val
    BY <1>5, <1>12, <1>13, <1>14, <1>16 DEF Live, Keyed
  <2>3. \A i \in Live(s) : i # f => \E j \in Live(t) : s.node[i].key = t.node[j].key /\ s.node[i].val = t.node[j].val
    BY <1>16, <2>2
  <2>4. \A j \in Live(t) : t.node[j].val # Nothing => \E i \in Live(s) : s.node[i].key = t.node[j].key
    BY <2>2
  <2> QED BY <1>14, <2>1, <2>3, <2>4, ContentOfNew
<1> QED BY <1>1, <1>2, <1>19, <1>23, <1>24, StoredReads DEF TableOK

\* The chain of a node's main position comes to it over the one that points to it.
LEMMA SomethingPoints ==
  ASSUME NEW t, NEW a, NEW b, a \in DOMAIN t.node, a # b, Comes(t, a, b), 0 \notin DOMAIN t.node,
         \A i \in DOMAIN t.node : t.node[i].next # 0 => t.node[i].next \in DOMAIN t.node, b # 0
  PROVE  \E p \in DOMAIN t.node : t.node[p].next = b
<1> SUFFICES ASSUME \A p \in DOMAIN t.node : t.node[p].next # b PROVE FALSE
  OBVIOUS
<1>1. PICK S : S = DOMAIN t.node \ {b}
  OBVIOUS
<1>2. Closed(t, S)
  BY <1>1 DEF Closed
<1>3. a \in S /\ S \in SUBSET DOMAIN t.node
  BY <1>1
<1> QED BY <1>1, <1>2, <1>3 DEF Comes

\* A node that is not in its own main position makes way.
LEMMA PlaceMoved ==
  ASSUME NEW t, NEW m, TableOK(t, m), NEW k \in TableKey, NEW v \in Value,
         ~ InArray(t, k), NodeOf(t, k) = 0, ~ MainIsFree(t, k), getfreepos(t) # 0,
         Main(t, mainposition(t, k)) # mainposition(t, k)
  PROVE  TableOK(Place(t, k, v), Stored(m, k, v))
<1>1. Shape(t) /\ Chains(t) /\ Content(t, m) /\ m \in [TableKey -> Value]
  BY DEF TableOK
<1>2. PICK s : s = Place(t, k, v)
  OBVIOUS
<1>3. PICK mp : mp = mainposition(t, k)
  OBVIOUS
<1>4. PICK f : f = getfreepos(t)
  OBVIOUS
<1>5. /\ mp \in Live(t) /\ mp \in Keyed(t) /\ mp \in DOMAIN t.node /\ t.node[mp].val # Nothing
      /\ f \in DOMAIN t.node /\ f \notin Keyed(t) /\ f # mp /\ t.node[f].next = 0
      /\ f \in 1 .. Len(t.node) + 1
      /\ \A i \in DOMAIN t.node : i > f => i \in Keyed(t)
      /\ \A i \in DOMAIN t.node : t.node[i].next # f
  BY <1>1, <1>3, <1>4, Collision
<1>6. t \in TableRec /\ k \in AnyKey /\ k # Nothing /\ t.node[mp] \in Node /\ f # 0 /\ mp # 0
  BY <1>1, <1>5, KeysAreKeys, NodesOfATable DEF Shape
<1>7. PICK other : other = Main(t, mp)
  OBVIOUS
<1>8. \A i \in DOMAIN t.node : t.node[i].next \in Keyed(t) \cup {0}
  BY <1>1 DEF Shape
<1>9. \A i \in Keyed(t) : /\ Main(t, i) \in Keyed(t) /\ Main(t, Main(t, i)) = Main(t, i)
                          /\ Comes(t, Main(t, i), i) /\ Main(t, i) # mp
  <2>1. \A i \in Keyed(t) : /\ Main(t, i) \in Keyed(t) /\ Main(t, Main(t, i)) = Main(t, i)
                            /\ Comes(t, Main(t, i), i)
    BY <1>1 DEF Chains
  <2> QED BY <1>3, <2>1
<1>10. \A x, y \in DOMAIN t.node : t.node[x].next = t.node[y].next /\ t.node[x].next # 0 => x = y
  BY <1>1 DEF Chains
<1>11. PICK before : before = CHOOSE p \in DOMAIN t.node : t.node[p].next = mp
  OBVIOUS
<1>12. before \in DOMAIN t.node /\ t.node[before].next = mp
  <2>1. other \in DOMAIN t.node /\ other # mp /\ Comes(t, other, mp)
    BY <1>3, <1>5, <1>7, <1>9 DEF Keyed
  <2>2. \A i \in DOMAIN t.node : t.node[i].next # 0 => t.node[i].next \in DOMAIN t.node
    BY <1>8 DEF Keyed
  <2>3. 0 \notin DOMAIN t.node
    BY <1>1, NodesOfATable
  <2>4. \E p \in DOMAIN t.node : t.node[p].next = mp
    BY <1>6, <2>1, <2>2, <2>3, SomethingPoints
  <2> QED BY <1>11, <2>4
<1>13. PICK r : Ranks(t, r)
  BY <1>1 DEF Chains
<1>14. before # mp /\ before # f /\ t.node[mp].next # mp
  <2>1. t.node[mp].next # mp
    <3> SUFFICES ASSUME t.node[mp].next = mp PROVE FALSE
      OBVIOUS
    <3>1. r[mp] < r[mp] /\ r[mp] \in Nat
      BY <1>5, <1>6, <1>13 DEF Ranks
    <3> QED BY <3>1
  <2> QED BY <1>5, <1>6, <1>12, <2>1
<1>15. PICK e : e = Entry(k, v, 0)
  OBVIOUS
<1>16. e \in Node /\ e.key = k /\ e.val = v /\ e.next = 0 /\ e.dead = FALSE
  BY <1>15 DEF Entry, Node
<1>17. PICK b : b = [t.node[before] EXCEPT !.next = f]
  OBVIOUS
<1>18. /\ b \in Node /\ b.key = t.node[before].key /\ b.val = t.node[before].val
       /\ b.next = f /\ b.dead = t.node[before].dead
  <2>1. f \in Nat /\ t.node[before] \in Node
    BY <1>1, <1>5, <1>12, NodesOfATable
  <2> QED BY <1>17, <2>1 DEF Node
<1>19. PICK n : n = [t.node EXCEPT ![before].next = f, ![f] = t.node[mp], ![mp] = e]
  OBVIOUS
<1>20. s = [t EXCEPT !.node = n, !.lastfree = f]
  <2>1. Collide(t, k, v, mp, f) = n
    BY <1>3, <1>11, <1>15, <1>19 DEF Collide, Main
  <2> QED BY <1>2, <1>3, <1>4, <2>1 DEF Place, NewNode
<1>21. /\ n \in Seq(Node) /\ DOMAIN n = DOMAIN t.node /\ Len(n) = Len(t.node)
       /\ n[f] = t.node[mp] /\ n[mp] = e /\ n[before] = b
       /\ \A i \in DOMAIN t.node : i # f /\ i # mp /\ i # before => n[i] = t.node[i]
  <2>1. PICK n1 : n1 = [t.node EXCEPT ![before] = b]
    OBVIOUS
  <2>2. /\ n1 \in Seq(Node) /\ DOMAIN n1 = DOMAIN t.node /\ Len(n1) = Len(t.node)
        /\ n1[before] = b /\ \A i \in DOMAIN t.node : i # before => n1[i] = t.node[i]
    BY <1>1, <1>12, <1>18, <2>1, NodesOfATable
  <2>3. PICK n2 : n2 = [n1 EXCEPT ![f] = t.node[mp]]
    OBVIOUS
  <2>4. /\ n2 \in Seq(Node) /\ DOMAIN n2 = DOMAIN t.node /\ Len(n2) = Len(t.node)
        /\ n2[f] = t.node[mp] /\ \A i \in DOMAIN t.node : i # f => n2[i] = n1[i]
    BY <1>5, <1>6, <2>2, <2>3
  <2>5. n = [n2 EXCEPT ![mp] = e]
    BY <1>17, <1>19, <2>1, <2>3
  <2>6. /\ n \in Seq(Node) /\ DOMAIN n = DOMAIN t.node /\ Len(n) = Len(t.node)
        /\ n[mp] = e /\ \A i \in DOMAIN t.node : i # mp => n[i] = n2[i]
    BY <1>5, <1>16, <2>4, <2>5
  <2> QED BY <1>5, <1>12, <1>14, <2>2, <2>4, <2>6
<1>22. s.array = t.array /\ s.node = n
  BY <1>6, <1>20 DEF TableRec
<1>23. before \in Keyed(t)
  BY <1>1, <1>6, <1>12 DEF Shape, Keyed
<1>24. Keyed(s) = Keyed(t) \cup {f}
  <2>1. ASSUME NEW i \in DOMAIN t.node
        PROVE  n[i].key # Nothing <=> i \in Keyed(t) \cup {f}
    <3>1. CASE i = f
      BY <1>5, <1>21, <3>1 DEF Keyed
    <3>2. CASE i = mp
      BY <1>5, <1>6, <1>16, <1>21, <3>2
    <3>3. CASE i = before
      BY <1>18, <1>21, <1>23, <3>3 DEF Keyed
    <3>4. CASE i # f /\ i # mp /\ i # before
      BY <1>21, <3>4 DEF Keyed
    <3> QED BY <3>1, <3>2, <3>3, <3>4
  <2> QED BY <1>5, <1>21, <1>22, <2>1 DEF Keyed
<1>25. Live(s) = Live(t) \cup {f}
  <2>1. ~ n[f].dead
    BY <1>5, <1>21 DEF Live
  <2>2. ~ n[mp].dead /\ ~ t.node[mp].dead
    BY <1>5, <1>16, <1>21 DEF Live
  <2>3. \A i \in Keyed(t) : n[i].dead <=> t.node[i].dead
    BY <1>5, <1>16, <1>18, <1>21, <1>23, <2>2 DEF Keyed, Live
  <2> QED BY <1>22, <1>24, <2>1, <2>3 DEF Live
<1>26. /\ n[f].next = t.node[mp].next /\ n[mp].next = 0 /\ n[before].next = f
       /\ \A i \in DOMAIN t.node : i # f /\ i # mp /\ i # before => n[i].next = t.node[i].next
  BY <1>16, <1>18, <1>21
<1>27. /\ n[f].key = t.node[mp].key /\ n[mp].key = k
       /\ \A i \in DOMAIN t.node : i # f /\ i # mp => n[i].key = t.node[i].key /\ n[i].val = t.node[i].val
  BY <1>16, <1>18, <1>21
<1>28. Shape(s)
  <2>1. ASSUME NEW i \in Keyed(t) \cup {f}
        PROVE  n[i].key # Nothing /\ (n[i].dead => n[i].val = Nothing)
    <3>1. \A x \in Keyed(t) : x \in DOMAIN t.node /\ t.node[x].key # Nothing /\ (t.node[x].dead => t.node[x].val = Nothing)
      BY <1>1 DEF Shape, Keyed
    <3>2. CASE i = f
      BY <1>5, <1>21, <3>1, <3>2
    <3>3. CASE i = mp
      BY <1>6, <1>16, <1>21, <3>3
    <3>4. CASE i = before
      BY <1>18, <1>21, <1>23, <3>1, <3>4
    <3>5. CASE i # f /\ i # mp /\ i # before
      BY <1>21, <3>1, <3>5
    <3> QED BY <3>2, <3>3, <3>4, <3>5
  <2>2. \A i \in DOMAIN n : i \notin Keyed(t) \cup {f} => n[i] = t.node[i]
    BY <1>5, <1>21, <1>23
  <2>3. \A i \in DOMAIN n : n[i].next \in Keyed(t) \cup {f, 0}
    BY <1>5, <1>8, <1>21, <1>26
  <2>4. \A i \in Keyed(t) \cup {f} : n[i].key # Nothing /\ (n[i].dead => n[i].val = Nothing)
    BY <2>1
  <2> QED BY <1>1, <1>5, <1>20, <1>21, <2>2, <2>3, <2>4, CollisionShape
\* The node at mp is at f now.
<1> DEFINE now(x) == IF x = mp THEN f ELSE x
<1>29. ASSUME NEW a, NEW c, a # f, c # f, Comes(t, a, c) PROVE Comes(s, now(a), now(c))
  <2> SUFFICES ASSUME NEW S \in SUBSET DOMAIN s.node, now(a) \in S, Closed(s, S) PROVE now(c) \in S
    BY DEF Comes
  <2>1. PICK T : T = {x \in DOMAIN t.node : x # f /\ (IF x = mp THEN f ELSE x) \in S}
    OBVIOUS
  <2>2. T \in SUBSET DOMAIN t.node /\ a \in T
    BY <1>5, <1>21, <1>22, <1>29, <2>1
  <2>3. Closed(t, T)
    <3> SUFFICES ASSUME NEW i \in T, t.node[i].next # 0 PROVE t.node[i].next \in T
      BY DEF Closed
    <3>1. /\ i \in DOMAIN t.node /\ i # f /\ t.node[i].next # f
          /\ t.node[i].next \in DOMAIN t.node
      BY <1>5, <1>8, <2>1 DEF Keyed
    <3>2. CASE i = mp
      <4>1. f \in S
        BY <2>1, <3>2
      <4>2. t.node[i].next \in S
        BY <1>22, <1>26, <3>2, <4>1 DEF Closed
      <4> QED BY <1>14, <2>1, <3>1, <3>2, <4>2
    <3>3. CASE i = before
      <4>1. i \in S
        BY <1>14, <2>1, <3>3
      <4>2. f \in S
        BY <1>6, <1>22, <1>26, <3>3, <4>1 DEF Closed
      <4> QED BY <1>5, <1>12, <2>1, <3>3, <4>2
    <3>4. CASE i # mp /\ i # before
      <4>1. i \in S
        BY <2>1, <3>4
      <4>2. t.node[i].next \in S
        BY <1>22, <1>26, <3>1, <3>4, <4>1 DEF Closed
      <4>3. t.node[i].next # mp
        BY <1>6, <1>10, <1>12, <3>1, <3>4
      <4> QED BY <2>1, <3>1, <4>2, <4>3
    <3> QED BY <3>2, <3>3, <3>4
  <2>4. c \in T
    BY <1>29, <2>2, <2>3 DEF Comes
  <2> QED BY <2>1, <2>4
<1>30. Chains(s)
  <2>1. ASSUME NEW i \in DOMAIN s.node, NEW j \in DOMAIN s.node,
               s.node[i].next = s.node[j].next, s.node[i].next # 0
        PROVE  i = j
    <3>1. i \in DOMAIN t.node /\ j \in DOMAIN t.node /\ n[i].next = n[j].next /\ n[i].next # 0
      BY <1>21, <1>22, <2>1
    <3> QED BY <1>5, <1>10, <1>26, <3>1
  <2>2. \E q : Ranks(s, q)
    <3>2. r \in [DOMAIN t.node -> Nat]
      BY <1>13 DEF Ranks
    <3> DEFINE q == [i \in DOMAIN t.node |-> IF i = f THEN r[mp] ELSE r[i]]
    <3>3. q \in [DOMAIN t.node -> Nat]
      BY <1>5, <3>2
    <3>4. /\ q[f] = r[mp]
          /\ \A i \in DOMAIN t.node : i # f => q[i] = r[i]
      BY <1>5
    <3> HIDE DEF q
    <3>5. ASSUME NEW i \in DOMAIN t.node, n[i].next # 0 PROVE q[i] < q[n[i].next]
      <4>1. CASE i = f
        <5>1. t.node[mp].next # 0 /\ t.node[mp].next # f /\ t.node[mp].next \in DOMAIN t.node
          BY <1>5, <1>8, <1>26, <3>5, <4>1 DEF Keyed
        <5>2. r[mp] < r[t.node[mp].next]
          BY <1>5, <1>13, <5>1 DEF Ranks
        <5>3. q[n[i].next] = r[t.node[mp].next]
          BY <1>26, <3>4, <4>1, <5>1
        <5> QED BY <3>4, <4>1, <5>2, <5>3
      <4>2. CASE i = mp
        BY <1>26, <3>5, <4>2
      <4>3. CASE i = before
        <5>1. r[before] < r[mp]
          BY <1>6, <1>12, <1>13 DEF Ranks
        <5> QED BY <1>12, <1>14, <1>26, <3>4, <4>3, <5>1
      <4>4. CASE i # f /\ i # mp /\ i # before
        <5>1. n[i].next = t.node[i].next /\ t.node[i].next # f /\ t.node[i].next \in DOMAIN t.node
          BY <1>5, <1>8, <1>26, <3>5, <4>4 DEF Keyed
        <5>2. r[i] < r[t.node[i].next]
          BY <1>13, <3>5, <5>1 DEF Ranks
        <5>3. q[i] = r[i] /\ q[n[i].next] = r[t.node[i].next]
          BY <3>4, <4>4, <5>1
        <5> QED BY <5>2, <5>3
      <4> QED BY <4>1, <4>2, <4>3, <4>4
    <3>6. Ranks(s, q)
      BY <1>21, <1>22, <3>3, <3>5 DEF Ranks
    <3> QED BY <3>6
  <2>3. \A x : mainposition(s, x) = mainposition(t, x)
    BY <1>21, <1>22 DEF mainposition
  <2>4. /\ Main(s, f) = other /\ Main(s, mp) = mp
        /\ \A i \in Keyed(t) : i # mp => Main(s, i) = Main(t, i)
    <3>1. Main(s, f) = other
      BY <1>7, <1>22, <1>27, <2>3 DEF Main
    <3>2. Main(s, mp) = mp
      BY <1>3, <1>22, <1>27, <2>3 DEF Main
    <3>3. \A i \in Keyed(t) : i # mp => Main(s, i) = Main(t, i)
      BY <1>5, <1>22, <1>27, <2>3 DEF Main, Keyed
    <3> QED BY <3>1, <3>2, <3>3
  <2>5. other \in Keyed(t) /\ Main(t, other) = other /\ Comes(t, other, mp) /\ other # mp
    BY <1>5, <1>7, <1>9
  <2>6. \A i \in Keyed(s) : Main(s, i) \in Keyed(s) /\ Main(s, Main(s, i)) = Main(s, i)
    BY <1>5, <1>9, <1>24, <2>4, <2>5
  <2>7. \A i \in Keyed(s) : Comes(s, Main(s, i), i)
    <3>1. ASSUME NEW i \in Keyed(t), i # mp PROVE Comes(s, Main(t, i), i)
      <4>1. i # f /\ Main(t, i) # f /\ Main(t, i) # mp /\ Comes(t, Main(t, i), i)
        BY <1>5, <1>9
      <4>2. Comes(s, now(Main(t, i)), now(i))
        BY <1>29, <4>1
      <4> QED BY <3>1, <4>1, <4>2
    <3>2. Comes(s, other, f)
      <4>1. other # f /\ mp # f
        BY <1>5, <2>5
      <4>2. Comes(s, now(other), now(mp))
        BY <1>29, <2>5, <4>1
      <4> QED BY <2>5, <4>2
    <3>3. Comes(s, mp, mp)
      BY DEF Comes
    <3> QED BY <1>24, <2>4, <3>1, <3>2, <3>3
  <2>8. ASSUME NEW i \in Live(s), NEW j \in Keyed(s), s.node[i].key = s.node[j].key
        PROVE  Comes(s, i, j)
    <3>1. \A x \in Live(t) : t.node[x].key # k
      BY <1>1, <1>6, NodeIsFound
    <3>2. \A x \in Keyed(t) : t.node[x].key # k
      <4> SUFFICES ASSUME NEW x \in Keyed(t), t.node[x].key = k PROVE FALSE
        OBVIOUS
      <4>1. Main(t, x) = mp
        BY <1>3 DEF Main
      <4> QED BY <1>9, <4>1
    <3>3. \A x \in Live(t) : x \in Keyed(t)
      BY DEF Live
    <3>4. \A x \in Keyed(t) : x # f /\ x \in DOMAIN t.node
      BY <1>5 DEF Keyed
    <3>5. ASSUME NEW x \in Keyed(s), x # mp
          PROVE  \E y \in Keyed(t) : x = now(y) /\ s.node[x].key = t.node[y].key /\ (x \in Live(s) => y \in Live(t))
      <4>1. CASE x = f
        BY <1>5, <1>22, <1>27, <4>1
      <4>2. CASE x # f
        BY <1>22, <1>24, <1>25, <1>27, <3>4, <3>5, <4>2
      <4> QED BY <4>1, <4>2
    <3>6. i \in Keyed(s)
      BY DEF Live
    <3>7. CASE i = mp /\ j = mp
      BY <3>7 DEF Comes
    <3>8. CASE i = mp /\ j # mp
      <4>1. s.node[i].key = k
        BY <1>22, <1>27, <3>8
      <4> QED BY <2>8, <3>2, <3>5, <3>8, <4>1
    <3>9. CASE i # mp /\ j = mp
      <4>1. s.node[j].key = k
        BY <1>22, <1>27, <3>9
      <4> QED BY <2>8, <3>2, <3>5, <3>6, <3>9, <4>1
    <3>10. CASE i # mp /\ j # mp
      <4>1. PICK x \in Keyed(t) : i = now(x) /\ s.node[i].key = t.node[x].key /\ x \in Live(t)
        BY <3>5, <3>6, <3>10
      <4>2. PICK y \in Keyed(t) : j = now(y) /\ s.node[j].key = t.node[y].key
        BY <3>5, <3>10
      <4>3. Comes(t, x, y)
        BY <1>1, <2>8, <4>1, <4>2 DEF Chains
      <4>4. x # f /\ y # f
        BY <3>4
      <4>5. Comes(s, now(x), now(y))
        BY <1>29, <4>3, <4>4
      <4> QED BY <4>1, <4>2, <4>5
    <3> QED BY <3>7, <3>8, <3>9, <3>10
  <2> QED BY <2>1, <2>2, <2>6, <2>7, <2>8 DEF Chains
<1>31. Content(s, Stored(m, k, v))
  <2>1. mp \in Live(s) /\ s.node[mp].key = k /\ s.node[mp].val = v
    BY <1>5, <1>16, <1>21, <1>22, <1>25
  <2>2. \A x \in Live(t) : x # mp => /\ x \in Live(s) /\ x \in DOMAIN t.node
                                     /\ s.node[x].key = t.node[x].key /\ s.node[x].val = t.node[x].val
    BY <1>5, <1>22, <1>25, <1>27 DEF Live, Keyed
  <2>3. f \in Live(s) /\ s.node[f].key = t.node[mp].key /\ s.node[f].val = t.node[mp].val
    BY <1>21, <1>22, <1>25
  <2>4. \A i \in Live(s) : i # mp => \E j \in Live(t) : s.node[i].key = t.node[j].key /\ s.node[i].val = t.node[j].val
    BY <1>5, <1>25, <2>2, <2>3
  <2>5. \A j \in Live(t) : t.node[j].val # Nothing => \E i \in Live(s) : s.node[i].key = t.node[j].key
    BY <2>2, <2>3
  <2> QED BY <1>22, <2>1, <2>4, <2>5, ContentOfNew
<1> QED BY <1>1, <1>2, <1>28, <1>30, <1>31, StoredReads DEF TableOK

\* An assignment, where there is a place.
LEMMA PlaceKeeps ==
  ASSUME NEW t, NEW m, TableOK(t, m), NEW k \in TableKey, NEW v \in Value,
         InArray(t, k) \/ NodeOf(t, k) # 0 \/ HasRoomFor(t, k)
  PROVE  TableOK(Place(t, k, v), Stored(m, k, v))
<1>1. CASE InArray(t, k)
  BY <1>1, PlaceInArray
<1>2. CASE ~ InArray(t, k) /\ NodeOf(t, k) # 0
  BY <1>2, PlaceInNode
<1>3. CASE ~ InArray(t, k) /\ NodeOf(t, k) = 0 /\ MainIsFree(t, k)
  BY <1>3, PlaceInMain
<1>4. CASE ~ InArray(t, k) /\ NodeOf(t, k) = 0 /\ ~ MainIsFree(t, k)
  <2>1. getfreepos(t) # 0
    BY <1>4 DEF HasRoomFor
  <2>2. CASE Main(t, mainposition(t, k)) = mainposition(t, k)
    BY <1>4, <2>1, <2>2, PlaceBehind
  <2>3. CASE Main(t, mainposition(t, k)) # mainposition(t, k)
    BY <1>4, <2>1, <2>3, PlaceMoved
  <2> QED BY <2>2, <2>3
<1> QED BY <1>1, <1>2, <1>3, <1>4

\* Its nodes are the nodes there were and one for the key.
OfThose(t, k, v, e) ==
  \/ \E j \in DOMAIN t.node : e.key = t.node[j].key /\ e.val = t.node[j].val /\ e.dead = t.node[j].dead
  \/ e.key = k /\ e.val = v /\ e.dead = FALSE

\* luaH_set makes no node but that of its key, and copies the others whole.
LEMMA NodesPlaced ==
  ASSUME NEW t, NEW m, TableOK(t, m), NEW k \in TableKey, NEW v \in Value
  PROVE  LET s == Place(t, k, v)
         IN  /\ DOMAIN s.array = DOMAIN t.array /\ DOMAIN s.node = DOMAIN t.node
             /\ \A i \in DOMAIN s.node : OfThose(t, k, v, s.node[i])
<1>1. PICK s : s = Place(t, k, v)
  OBVIOUS
<1>2. Shape(t) /\ Chains(t) /\ t \in TableRec
  BY DEF TableOK, Shape
<1>3. \A i \in DOMAIN t.node : t.node[i] \in Node /\ OfThose(t, k, v, t.node[i])
  BY <1>2, NodesOfATable DEF OfThose
<1>4. ASSUME NEW i \in DOMAIN t.node, NEW x PROVE OfThose(t, k, v, [t.node[i] EXCEPT !.next = x])
  <2>1. PICK w : w = [t.node[i] EXCEPT !.next = x]
    OBVIOUS
  <2>2. t.node[i] \in Node
    BY <1>3
  <2>3. w.key = t.node[i].key /\ w.val = t.node[i].val /\ w.dead = t.node[i].dead
    BY <2>1, <2>2 DEF Node
  <2> QED BY <2>1, <2>3 DEF OfThose
<1>5. \A x : OfThose(t, k, v, Entry(k, v, x))
  BY DEF OfThose, Entry
<1> SUFFICES /\ DOMAIN s.array = DOMAIN t.array /\ DOMAIN s.node = DOMAIN t.node
             /\ \A i \in DOMAIN s.node : OfThose(t, k, v, s.node[i])
  BY <1>1
<1>6. CASE InArray(t, k)
  <2>1. s = [t EXCEPT !.array[k.n] = v]
    BY <1>1, <1>6 DEF Place
  <2>2. s.node = t.node /\ DOMAIN s.array = DOMAIN t.array
    BY <1>2, <2>1 DEF TableRec
  <2> QED BY <1>3, <2>2
<1>7. CASE ~ InArray(t, k) /\ NodeOf(t, k) # 0
  <2>1. PICK x : x = NodeOf(t, k)
    OBVIOUS
  <2>2. x \in DOMAIN t.node /\ t.node[x].key = k /\ ~ t.node[x].dead
    BY <1>2, <1>7, <2>1, KeysAreKeys, NodeIsFound DEF Live, Keyed
  <2>3. s = [t EXCEPT !.node[x].val = v]
    BY <1>1, <1>7, <2>1 DEF Place
  <2>4. s.array = t.array /\ s.node = [t.node EXCEPT ![x] = [t.node[x] EXCEPT !.val = v]]
    BY <1>2, <2>3 DEF TableRec
  <2>5. PICK w : w = [t.node[x] EXCEPT !.val = v]
    OBVIOUS
  <2>6. w.key = k /\ w.val = v /\ w.dead = t.node[x].dead /\ t.node[x].dead \in BOOLEAN
    BY <1>3, <2>2, <2>5 DEF Node
  <2>7. OfThose(t, k, v, w)
    BY <2>2, <2>6 DEF OfThose
  <2> QED BY <1>3, <2>2, <2>4, <2>5, <2>7
<1>8. CASE ~ InArray(t, k) /\ NodeOf(t, k) = 0
  <2>1. PICK mp : mp = mainposition(t, k)
    OBVIOUS
  <2>2. PICK f : f = getfreepos(t)
    OBVIOUS
  <2>3. s = NewNode(t, k, v)
    BY <1>1, <1>8 DEF Place
  <2>4. CASE MainIsFree(t, k)
    <3>1. s = [t EXCEPT !.node[mp] = Entry(k, v, t.node[mp].next)]
      BY <2>1, <2>3, <2>4 DEF NewNode
    <3>2. PICK e : e = Entry(k, v, t.node[mp].next)
      OBVIOUS
    <3>3. s.array = t.array /\ s.node = [t.node EXCEPT ![mp] = e]
      BY <1>2, <3>1, <3>2 DEF TableRec
    <3> QED BY <1>3, <1>5, <3>2, <3>3
  <2>5. CASE ~ MainIsFree(t, k)
    <3>1. PICK n : n = Collide(t, k, v, mp, f)
      OBVIOUS
    <3>2. s.array = t.array /\ s.node = n
      BY <1>2, <2>1, <2>2, <2>3, <2>5, <3>1 DEF NewNode, TableRec
    <3>3. CASE Main(t, mp) = mp
      <4>1. PICK e : e = Entry(k, v, t.node[mp].next)
        OBVIOUS
      <4>2. n = [t.node EXCEPT ![f] = e, ![mp].next = f]
        BY <3>1, <3>3, <4>1 DEF Collide, Main
      <4>3. PICK n1 : n1 = [t.node EXCEPT ![f] = e]
        OBVIOUS
      <4>4. DOMAIN n1 = DOMAIN t.node /\ \A i \in DOMAIN t.node : n1[i] = IF i = f THEN e ELSE t.node[i]
        BY <4>3
      <4>5. n = [n1 EXCEPT ![mp] = [n1[mp] EXCEPT !.next = f]]
        BY <4>2, <4>3
      <4>6. PICK w : w = [n1[mp] EXCEPT !.next = f]
        OBVIOUS
      <4>7. DOMAIN n = DOMAIN t.node /\ \A i \in DOMAIN t.node : n[i] = IF i = mp THEN w ELSE n1[i]
        BY <4>4, <4>5, <4>6
      <4>8. mp \in DOMAIN t.node => OfThose(t, k, v, w)
        <5>1. CASE mp = f
          <6>1. mp \in DOMAIN t.node => w = [e EXCEPT !.next = f]
            BY <4>4, <4>6, <5>1
          <6>2. PICK u : u = [e EXCEPT !.next = f]
            OBVIOUS
          <6>3. u.key = k /\ u.val = v /\ u.dead = FALSE
            BY <4>1, <6>2 DEF Entry
          <6> QED BY <6>1, <6>2, <6>3 DEF OfThose
        <5>2. CASE mp # f
          <6>1. mp \in DOMAIN t.node => w = [t.node[mp] EXCEPT !.next = f]
            BY <4>4, <4>6, <5>2
          <6> QED BY <1>4, <6>1
        <5> QED BY <5>1, <5>2
      <4> QED BY <1>3, <1>5, <3>2, <4>1, <4>4, <4>7, <4>8
    <3>4. CASE Main(t, mp) # mp
      <4>1. PICK e : e = Entry(k, v, 0)
        OBVIOUS
      <4>2. PICK before : before = CHOOSE p \in DOMAIN t.node : t.node[p].next = mp
        OBVIOUS
      <4>3. n = [t.node EXCEPT ![before].next = f, ![f] = t.node[mp], ![mp] = e]
        BY <3>1, <3>4, <4>1, <4>2 DEF Collide, Main
      <4>4. PICK n1 : n1 = [t.node EXCEPT ![before].next = f]
        OBVIOUS
      <4>5. /\ DOMAIN n1 = DOMAIN t.node
            /\ \A i \in DOMAIN t.node : n1[i] = IF i = before THEN [t.node[i] EXCEPT !.next = f] ELSE t.node[i]
        BY <4>4
      <4>6. ASSUME NEW i \in DOMAIN t.node PROVE OfThose(t, k, v, n1[i])
        <5>1. PICK w : w = [t.node[i] EXCEPT !.next = f]
          OBVIOUS
        <5>2. OfThose(t, k, v, w)
          BY <1>4, <5>1
        <5>3. n1[i] = w \/ n1[i] = t.node[i]
          BY <4>5, <5>1
        <5> QED BY <1>3, <5>2, <5>3
      <4>7. n = [n1 EXCEPT ![f] = t.node[mp], ![mp] = e]
        BY <4>3, <4>4
      <4>8. /\ DOMAIN n = DOMAIN t.node
            /\ \A i \in DOMAIN t.node : n[i] = IF i = mp THEN e ELSE IF i = f THEN t.node[mp] ELSE n1[i]
        BY <4>5, <4>7
      <4>9. f \in DOMAIN t.node => mp \in DOMAIN t.node
        <5> SUFFICES ASSUME f \in DOMAIN t.node PROVE mp \in DOMAIN t.node
          OBVIOUS
        <5>1. t.node # <<>>
          OBVIOUS
        <5> QED BY <1>2, <2>1, <5>1, KeysAreKeys, MainIsANode
      <4>10. f \in DOMAIN t.node => OfThose(t, k, v, t.node[mp])
        BY <1>3, <4>9
      <4>11. OfThose(t, k, v, e)
        BY <1>5, <4>1
      <4>12. ASSUME NEW i \in DOMAIN t.node PROVE OfThose(t, k, v, n[i])
        BY <4>6, <4>8, <4>10, <4>11
      <4> QED BY <3>2, <4>8, <4>12
    <3> QED BY <3>3, <3>4
  <2> QED BY <2>4, <2>5
<1> QED BY <1>6, <1>7, <1>8

-----------------------------------------------------------------------------
(* Room *)

\* All nodes in use hold a value, under keys of H: what a table is like that is
\* being filled.
Full(t, H) == \A i \in Keyed(t) : ~ t.node[i].dead /\ t.node[i].val # Nothing /\ t.node[i].key \in H

\* An assignment to a table that is being filled leaves it one.
LEMMA PlaceFills ==
  ASSUME NEW t, NEW m, TableOK(t, m), NEW k \in TableKey, NEW v \in Value, v # Nothing,
         NEW H, Full(t, H), InArray(t, k) \/ k \in H
  PROVE  Full(Place(t, k, v), H)
<1>1. PICK s : s = Place(t, k, v)
  OBVIOUS
<1>2. Shape(t) /\ t \in TableRec
  BY DEF TableOK, Shape
<1>3. CASE InArray(t, k)
  <2>1. s.node = t.node
    BY <1>1, <1>2, <1>3 DEF Place, TableRec
  <2> QED BY <1>1, <2>1 DEF Full, Keyed
<1>4. CASE k \in H
  <2> SUFFICES ASSUME NEW i \in Keyed(s)
               PROVE  ~ s.node[i].dead /\ s.node[i].val # Nothing /\ s.node[i].key \in H
    BY <1>1 DEF Full
  <2>1. i \in DOMAIN s.node /\ s.node[i].key # Nothing
    BY DEF Keyed
  <2>2. OfThose(t, k, v, s.node[i])
    BY <1>1, <2>1, NodesPlaced
  <2>3. CASE s.node[i].key = k /\ s.node[i].val = v /\ s.node[i].dead = FALSE
    BY <1>4, <2>3
  <2>4. CASE \E j \in DOMAIN t.node : /\ s.node[i].key = t.node[j].key /\ s.node[i].val = t.node[j].val
                                      /\ s.node[i].dead = t.node[j].dead
    BY <2>1, <2>4 DEF Full, Keyed
  <2> QED BY <2>2, <2>3, <2>4 DEF OfThose
<1> QED BY <1>3, <1>4

\* A table made for as many keys as H has takes all of them.
LEMMA RoomIsLeft ==
  ASSUME NEW t, NEW m, TableOK(t, m), NEW H, IsFiniteSet(H), Full(t, H), Cardinality(H) <= Len(t.node),
         NEW k \in H, k \in AnyKey, NodeOf(t, k) = 0
  PROVE  HasRoomFor(t, k)
<1> SUFFICES ASSUME getfreepos(t) = 0 PROVE FALSE
  BY DEF HasRoomFor
<1>1. Shape(t) /\ Chains(t)
  BY DEF TableOK
<1> DEFINE N == Len(t.node)
<1>2. N \in Nat /\ DOMAIN t.node = 1 .. N /\ 0 \notin DOMAIN t.node
  BY <1>1, NodesOfATable
<1>3. Keyed(t) = 1 .. N
  BY <1>1, <1>2, FreeIsTheLast
<1>4. Live(t) = 1 .. N
  BY <1>3 DEF Full, Live
<1> DEFINE S == H \ {k}
<1>5. IsFiniteSet(S) /\ Cardinality(S) < N
  <2>1. IsFiniteSet(S) /\ Cardinality(S) = Cardinality(H) - 1 /\ Cardinality(H) \in Nat
    BY FS_RemoveElement, FS_CardinalityType
  <2> QED BY <1>2, <2>1
<1> DEFINE g == [i \in 1 .. N |-> t.node[i].key]
<1>6. g \in [1 .. N -> S]
  <2> SUFFICES ASSUME NEW i \in 1 .. N PROVE t.node[i].key \in S
    OBVIOUS
  <2>1. t.node[i].key \in H
    BY <1>3 DEF Full
  <2>2. t.node[i].key # k
    BY <1>1, <1>4, NodeIsFound, NodesOfATable
  <2> QED BY <2>1, <2>2
<1>7. IsFiniteSet(1 .. N) /\ Cardinality(1 .. N) = N
  BY <1>2, FS_Interval
<1>8. \E x, y \in 1 .. N : x # y /\ g[x] = g[y]
  <2>1. Cardinality(S) < Cardinality(1 .. N)
    BY <1>5, <1>7
  <2> HIDE DEF g, S
  <2> QED BY <1>5, <1>6, <1>7, <2>1, FS_PigeonHole
<1>9. PICK x \in 1 .. N, y \in 1 .. N : x # y /\ t.node[x].key = t.node[y].key
  BY <1>8
<1> QED BY <1>1, <1>4, <1>9, KeyIsLiveOnce

-----------------------------------------------------------------------------
(* Rebuilding *)

\* The function of luaH_resize, over the first n of what it puts in again.
Refilling(old, first, n, f) ==
  f = [i \in 0 .. n |-> IF i = 0 THEN first
                        ELSE IF old[i].val = Nothing THEN f[i - 1]
                        ELSE Place(f[i - 1], old[i].key, old[i].val)]

\* It is there, node by node.
LEMMA RefillingExists ==
  ASSUME NEW old, NEW first, NEW n \in Nat
  PROVE  \E f : Refilling(old, first, n, f)
<1> DEFINE P == {i \in Nat : \E f : Refilling(old, first, i, f)}
<1>1. 0 \in P
  <2>1. Refilling(old, first, 0, [i \in 0 .. 0 |-> first])
    BY DEF Refilling
  <2> QED BY <2>1
<1>2. ASSUME NEW i \in P PROVE i + 1 \in P
  <2>1. PICK f : Refilling(old, first, i, f)
    OBVIOUS
  <2> DEFINE new == IF old[i + 1].val = Nothing THEN f[i] ELSE Place(f[i], old[i + 1].key, old[i + 1].val)
             e == [j \in 0 .. i + 1 |-> IF j = i + 1 THEN new ELSE f[j]]
  <2>2. i \in Nat
    OBVIOUS
  <2>3. ASSUME NEW j \in 0 .. i + 1
        PROVE  e[j] = IF j = 0 THEN first
                      ELSE IF old[j].val = Nothing THEN e[j - 1]
                      ELSE Place(e[j - 1], old[j].key, old[j].val)
    <3>1. CASE j = i + 1
      <4>1. e[j] = new /\ e[j - 1] = f[i] /\ j # 0
        BY <3>1, <2>2
      <4> HIDE DEF e
      <4> QED BY <4>1, <3>1
    <3>2. CASE j # i + 1
      <4>1. j \in 0 .. i
        BY <3>2, <2>2
      <4>2. f[j] = IF j = 0 THEN first
                   ELSE IF old[j].val = Nothing THEN f[j - 1]
                   ELSE Place(f[j - 1], old[j].key, old[j].val)
        BY <4>1, <2>1 DEF Refilling
      <4>3. e[j] = f[j] /\ (j # 0 => e[j - 1] = f[j - 1])
        BY <4>1, <2>2
      <4> HIDE DEF e
      <4> QED BY <4>2, <4>3
    <3> QED BY <3>1, <3>2
  <2>4. Refilling(old, first, i + 1, e)
    <3>1. e = [j \in 0 .. i + 1 |-> e[j]]
      OBVIOUS
    <3> HIDE DEF e
    <3> QED BY <3>1, <2>3 DEF Refilling
  <2> QED BY <2>4, <2>2
<1>3. P = Nat
  <2> HIDE DEF P
  <2>1. P \in SUBSET Nat BY DEF P
  <2> QED BY <1>1, <1>2, <2>1, SetInduction
<1> QED BY <1>3

\* The empty table luaH_resize starts from.
Emptied(t, nasize, nhsize) ==
  [array |-> [i \in 1 .. nasize |-> IF i \in DOMAIN t.array THEN t.array[i] ELSE Nothing],
   node |-> Nodes(nhsize), lastfree |-> Len(Nodes(nhsize)) + 1]

\* luaH_resize is the last of these tables, each from the one before.
LEMMA ResizeStepwise ==
  ASSUME NEW t, NEW nasize, NEW nhsize, Len(Again(t, nasize)) \in Nat
  PROVE  LET old == Again(t, nasize)
         IN  \E f : /\ DOMAIN f = 0 .. Len(old)
                    /\ f[0] = Emptied(t, nasize, nhsize)
                    /\ \A n \in 1 .. Len(old) :
                         f[n] = IF old[n].val = Nothing THEN f[n - 1]
                                ELSE Place(f[n - 1], old[n].key, old[n].val)
                    /\ luaH_resize(t, nasize, nhsize) = f[Len(old)]
<1> DEFINE old == Again(t, nasize)
           N == Len(old)
           first == Emptied(t, nasize, nhsize)
           f == CHOOSE f : Refilling(old, first, N, f)
<1>1. Refilling(old, first, N, f)
  <2> HIDE DEF old, first
  <2> QED BY RefillingExists
<1>2. luaH_resize(t, nasize, nhsize) = f[N]
  BY DEF luaH_resize, Refilling, Emptied
<1> HIDE DEF f, old, first
<1>3. DOMAIN f = 0 .. N /\ \A n \in 0 .. N : f[n] = IF n = 0 THEN first
                                                    ELSE IF old[n].val = Nothing THEN f[n - 1]
                                                    ELSE Place(f[n - 1], old[n].key, old[n].val)
  BY <1>1 DEF Refilling
<1>4. N \in Nat
  BY DEF old
<1>5. f[0] = first
  BY <1>3, <1>4
<1>6. \A n \in 1 .. N : n \in 0 .. N /\ n # 0
  OBVIOUS
<1>7. \A n \in 1 .. N : f[n] = IF old[n].val = Nothing THEN f[n - 1]
                               ELSE Place(f[n - 1], old[n].key, old[n].val)
  BY <1>3, <1>6
<1> QED BY <1>2, <1>3, <1>5, <1>7 DEF old, first

\* What is put in again is what the table holds, all but what stays in the array.
LEMMA AgainIsAll ==
  ASSUME NEW t, NEW m, TableOK(t, m), NEW nasize \in Nat
  PROVE  LET old == Again(t, nasize)
         IN  /\ Len(old) \in Nat
             /\ \A i \in 1 .. Len(old) : old[i].val # Nothing =>
                  old[i].key \in TableKey /\ old[i].val \in Value /\ m[old[i].key] = old[i].val
             /\ \A k \in TableKey : m[k] # Nothing =>
                  \/ \E i \in (1 .. nasize) \cap DOMAIN t.array : k = IntKey(i)
                  \/ \E i \in 1 .. Len(old) : old[i].val # Nothing /\ old[i].key = k
<1>1. Shape(t) /\ Chains(t) /\ Content(t, m) /\ m \in [TableKey -> Value] /\ Nothing \notin TableKey
  BY KeysAreKeys DEF TableOK
<1>2. PICK lost : lost = IF nasize < Len(t.array) THEN Len(t.array) - nasize ELSE 0
  OBVIOUS
<1>3. PICK N : N = Len(t.node)
  OBVIOUS
<1>4. PICK L : L = Len(t.array)
  OBVIOUS
<1>5. N \in Nat /\ DOMAIN t.node = 1 .. N /\ L \in Nat /\ DOMAIN t.array = 1 .. L /\ lost \in Nat
  BY <1>1, <1>2, <1>3, <1>4, NodesOfATable
<1>6. PICK old : old = Again(t, nasize)
  OBVIOUS
<1>7. old = [i \in 1 .. lost + N |-> IF i <= lost THEN Entry(IntKey(nasize + i), t.array[nasize + i], 0)
                                                  ELSE t.node[lost + N + 1 - i]]
  BY <1>2, <1>3, <1>6 DEF Again
<1>8. Len(old) = lost + N
  <2>1. lost + N \in Nat /\ DOMAIN old = 1 .. lost + N
    BY <1>5, <1>7
  <2> QED BY <2>1, <1>7
<1>9. ASSUME NEW i \in 1 .. Len(old), old[i].val # Nothing
      PROVE  old[i].key \in TableKey /\ old[i].val \in Value /\ m[old[i].key] = old[i].val
  <2>1. i \in 1 .. lost + N
    BY <1>8
  <2>2. CASE i <= lost
    <3>1. nasize + i \in DOMAIN t.array
      BY <1>2, <1>4, <1>5, <2>1, <2>2
    <3>2. old[i].key = IntKey(nasize + i) /\ old[i].val = t.array[nasize + i]
      BY <1>7, <2>1, <2>2 DEF Entry
    <3>3. t.array[nasize + i] = At(m, IntKey(nasize + i))
      BY <1>1, <3>1 DEF Content
    <3> QED BY <1>1, <1>9, <3>2, <3>3 DEF At
  <2>3. CASE ~ (i <= lost)
    <3>1. PICK j : j = lost + N + 1 - i
      OBVIOUS
    <3>2. j \in DOMAIN t.node
      BY <1>5, <2>1, <2>3, <3>1
    <3>3. old[i] = t.node[j]
      BY <1>7, <2>1, <2>3, <3>1
    <3>4. j \in Live(t)
      BY <1>1, <1>9, <3>2, <3>3 DEF Shape, Live, Keyed
    <3>5. t.node[j].val = m[t.node[j].key] /\ t.node[j].key \in TableKey
      BY <1>1, <3>4, NodesOfATable DEF Content
    <3> QED BY <1>1, <3>3, <3>5
  <2> QED BY <2>2, <2>3
<1>10. ASSUME NEW k \in TableKey, m[k] # Nothing
       PROVE  \/ \E i \in (1 .. nasize) \cap DOMAIN t.array : k = IntKey(i)
              \/ \E i \in 1 .. Len(old) : old[i].val # Nothing /\ old[i].key = k
  <2>1. CASE InArray(t, k) /\ k.n <= nasize
    <3>1. k.n \in DOMAIN t.array /\ k = IntKey(k.n)
      BY <2>1, KeysAreKeys DEF InArray
    <3>2. k.n \in 1 .. nasize
      BY <1>5, <2>1, <3>1
    <3> QED BY <3>1, <3>2
  <2>2. CASE InArray(t, k) /\ ~ (k.n <= nasize)
    <3>1. k.n \in DOMAIN t.array /\ k = IntKey(k.n)
      BY <2>2, KeysAreKeys DEF InArray
    <3>2. PICK i : i = k.n - nasize
      OBVIOUS
    <3>3. i \in 1 .. lost + N /\ i <= lost /\ nasize + i = k.n
      BY <1>2, <1>4, <1>5, <2>2, <3>1, <3>2
    <3>4. old[i] = Entry(IntKey(k.n), t.array[k.n], 0)
      BY <1>7, <3>3
    <3>5. old[i].key = k /\ old[i].val = t.array[k.n]
      BY <3>1, <3>4 DEF Entry
    <3>6. t.array[k.n] = m[k]
      BY <1>1, <3>1 DEF Content, At
    <3> QED BY <1>8, <1>10, <3>3, <3>5, <3>6
  <2>3. CASE ~ InArray(t, k)
    <3>1. PICK j \in Live(t) : t.node[j].key = k
      BY <1>1, <1>10, <2>3 DEF Content
    <3>2. t.node[j].val = m[k] /\ j \in 1 .. N
      BY <1>1, <1>5, <3>1, NodesOfATable DEF Content
    <3>3. PICK i : i = lost + N + 1 - j
      OBVIOUS
    <3>4. i \in 1 .. lost + N /\ ~ (i <= lost) /\ lost + N + 1 - i = j
      BY <1>5, <3>2, <3>3
    <3>5. old[i] = t.node[j]
      BY <1>7, <3>4
    <3> QED BY <1>8, <1>10, <3>1, <3>2, <3>4, <3>5
  <2> QED BY <2>1, <2>2, <2>3
<1>11. Len(old) \in Nat
  BY <1>5, <1>8
<1> QED BY <1>6, <1>9, <1>10, <1>11

\* What a table holds into which only the keys of M are put.
Part(m, M) == [k \in TableKey |-> IF k \in M THEN m[k] ELSE Nothing]

\* It is a good table of what the array keeps, with no key in its nodes.
LEMMA EmptiedOK ==
  ASSUME NEW t, NEW m, TableOK(t, m), NEW nasize \in Nat, NEW nhsize \in Nat
  PROVE  LET s == Emptied(t, nasize, nhsize)
         IN  /\ TableOK(s, Part(m, {IntKey(i) : i \in (1 .. nasize) \cap DOMAIN t.array}))
             /\ Keyed(s) = {} /\ Len(s.node) \in Nat /\ Len(s.node) >= nhsize
             /\ DOMAIN s.array = 1 .. nasize
<1>1. Shape(t) /\ Content(t, m) /\ m \in [TableKey -> Value] /\ Nothing \in Value
  BY DEF TableOK, Value
<1>2. PICK M : M = {IntKey(i) : i \in (1 .. nasize) \cap DOMAIN t.array}
  OBVIOUS
<1>3. PICK p : p = Part(m, M)
  OBVIOUS
<1>4. p \in [TableKey -> Value] /\ \A k \in TableKey : p[k] = IF k \in M THEN m[k] ELSE Nothing
  BY <1>1, <1>3 DEF Part
<1>5. PICK N \in Nat : N >= nhsize /\ Nodes(nhsize) = [i \in 1 .. N |-> FreeNode]
  BY NodesMade
<1>6. PICK s : s = Emptied(t, nasize, nhsize)
  OBVIOUS
<1>7. /\ s.array = [i \in 1 .. nasize |-> IF i \in DOMAIN t.array THEN t.array[i] ELSE Nothing]
      /\ s.node = [i \in 1 .. N |-> FreeNode]
      /\ s.lastfree = Len(s.node) + 1
      /\ s = [array |-> s.array, node |-> s.node, lastfree |-> s.lastfree]
  BY <1>5, <1>6 DEF Emptied
<1>8. FreeNode \in Node /\ FreeNode.key = Nothing /\ FreeNode.val = Nothing /\ FreeNode.next = 0 /\ FreeNode.dead = FALSE
  BY <1>1 DEF FreeNode, Node
<1>9. /\ s.node \in Seq(Node) /\ DOMAIN s.node = 1 .. N /\ Len(s.node) = N /\ s.lastfree = N + 1
      /\ \A i \in 1 .. N : s.node[i] = FreeNode
  <2>1. DOMAIN s.node = 1 .. N /\ \A i \in 1 .. N : s.node[i] = FreeNode
    BY <1>7
  <2>2. s.node \in [1 .. N -> Node]
    BY <1>7, <1>8
  <2>3. s.node \in Seq(Node)
    BY <2>2
  <2>4. Len(s.node) = N
    BY <2>1, <2>3
  <2> QED BY <1>7, <2>1, <2>3, <2>4
<1>10. s.array \in Seq(Value) /\ DOMAIN s.array = 1 .. nasize
  <2>1. \A i \in DOMAIN t.array : t.array[i] \in Value
    BY <1>1, NodesOfATable
  <2>2. s.array \in [1 .. nasize -> Value]
    BY <1>1, <1>7, <2>1
  <2> QED BY <2>2
<1>11. s \in TableRec
  <2>1. PICK a \in Seq(Value) : a = s.array
    BY <1>10
  <2>2. PICK nodes \in Seq(Node) : nodes = s.node
    BY <1>9
  <2>3. s = [array |-> a, node |-> nodes, lastfree |-> N + 1]
    BY <1>7, <1>9, <2>1, <2>2
  <2>4. N + 1 \in Nat
    OBVIOUS
  <2> QED BY <2>3, <2>4 DEF TableRec
<1>12. Keyed(s) = {} /\ Live(s) = {}
  BY <1>8, <1>9 DEF Keyed, Live
<1>13. Shape(s)
  BY <1>8, <1>9, <1>11 DEF Shape
<1>14. Chains(s)
  <2>1. Ranks(s, [i \in DOMAIN s.node |-> 0])
    BY <1>8, <1>9 DEF Ranks
  <2>2. \A i, j \in DOMAIN s.node : s.node[i].next = s.node[j].next /\ s.node[i].next # 0 => i = j
    BY <1>8, <1>9
  <2> QED BY <1>12, <2>1, <2>2 DEF Chains
<1>15. Content(s, p)
  <2>1. ASSUME NEW i \in DOMAIN s.array PROVE s.array[i] = At(p, IntKey(i))
    <3>1. i \in 1 .. nasize /\ s.array[i] = IF i \in DOMAIN t.array THEN t.array[i] ELSE Nothing
      BY <1>7, <1>10
    <3>2. CASE i \in DOMAIN t.array
      <4>1. IntKey(i) \in M
        BY <1>2, <3>1, <3>2
      <4>2. t.array[i] = At(m, IntKey(i))
        BY <1>1, <3>2 DEF Content
      <4> QED BY <1>1, <1>4, <3>1, <3>2, <4>1, <4>2 DEF At
    <3>3. CASE i \notin DOMAIN t.array
      <4>1. IntKey(i) \notin M
        BY <1>2, <3>3 DEF IntKey
      <4> QED BY <1>4, <3>1, <3>3, <4>1 DEF At
    <3> QED BY <3>2, <3>3
  <2>2. ASSUME NEW k \in TableKey, p[k] # Nothing PROVE InArray(s, k)
    <3>1. k \in M
      BY <1>4, <2>2
    <3>2. PICK i \in 1 .. nasize : k = IntKey(i)
      BY <1>2, <3>1
    <3> QED BY <1>10, <3>2 DEF InArray, IntKey
  <2> QED BY <1>12, <2>1, <2>2 DEF Content
<1>16. TableOK(s, p)
  BY <1>4, <1>13, <1>14, <1>15 DEF TableOK
<1> QED BY <1>2, <1>3, <1>5, <1>6, <1>9, <1>10, <1>12, <1>16

\* luaH_resize keeps what the table holds, and leaves room for the keys of H.
LEMMA ResizeKeeps ==
  ASSUME NEW t, NEW m, TableOK(t, m), NEW nasize \in Nat, NEW nhsize \in Nat,
         NEW H, IsFiniteSet(H), Cardinality(H) <= nhsize,
         \A k \in TableKey : m[k] # Nothing => k \in H \/ (k.kind = "int" /\ k.n \in 1 .. nasize)
  PROVE  LET s == luaH_resize(t, nasize, nhsize)
         IN  /\ TableOK(s, m) /\ Full(s, H) /\ Cardinality(H) <= Len(s.node)
             /\ DOMAIN s.array = 1 .. nasize
<1>1. PICK old : old = Again(t, nasize)
  OBVIOUS
<1>2. PICK N : N = Len(old)
  OBVIOUS
<1>3. /\ N \in Nat
      /\ \A i \in 1 .. N : old[i].val # Nothing =>
           old[i].key \in TableKey /\ old[i].val \in Value /\ m[old[i].key] = old[i].val
      /\ \A k \in TableKey : m[k] # Nothing =>
           \/ \E i \in (1 .. nasize) \cap DOMAIN t.array : k = IntKey(i)
           \/ \E i \in 1 .. N : old[i].val # Nothing /\ old[i].key = k
  BY <1>1, <1>2, AgainIsAll
<1>4. PICK f : /\ f[0] = Emptied(t, nasize, nhsize)
               /\ \A n \in 1 .. N : f[n] = IF old[n].val = Nothing THEN f[n - 1]
                                           ELSE Place(f[n - 1], old[n].key, old[n].val)
               /\ luaH_resize(t, nasize, nhsize) = f[N]
  <2>1. Len(Again(t, nasize)) \in Nat
    BY <1>1, <1>2, <1>3
  <2> QED BY <1>1, <1>2, <2>1, ResizeStepwise
<1>5. m \in [TableKey -> Value] /\ Cardinality(H) \in Nat
  BY FS_CardinalityType DEF TableOK
<1> DEFINE M0 == {IntKey(i) : i \in (1 .. nasize) \cap DOMAIN t.array}
           M(n) == M0 \cup {old[i].key : i \in {i \in 1 .. n : old[i].val # Nothing}}
           Holds(n) == n <= N => /\ TableOK(f[n], Part(m, M(n))) /\ Full(f[n], H)
                                 /\ Cardinality(H) <= Len(f[n].node) /\ DOMAIN f[n].array = 1 .. nasize
           P == {n \in Nat : Holds(n)}
<1>6. 0 \in P
  <2>1. M(0) = M0
    OBVIOUS
  <2>2. /\ TableOK(f[0], Part(m, M0)) /\ Keyed(f[0]) = {} /\ Len(f[0].node) \in Nat
        /\ Len(f[0].node) >= nhsize /\ DOMAIN f[0].array = 1 .. nasize
    <3>1. PICK e : e = Emptied(t, nasize, nhsize)
      OBVIOUS
    <3>2. /\ TableOK(e, Part(m, M0)) /\ Keyed(e) = {} /\ Len(e.node) \in Nat
          /\ Len(e.node) >= nhsize /\ DOMAIN e.array = 1 .. nasize
      BY <3>1, EmptiedOK
    <3>3. e = f[0]
      BY <1>4, <3>1
    <3> QED BY <3>2, <3>3
  <2>3. Full(f[0], H)
    BY <2>2 DEF Full
  <2>4. Cardinality(H) <= Len(f[0].node)
    BY <1>5, <2>2
  <2> HIDE DEF M
  <2> QED BY <2>1, <2>2, <2>3, <2>4
<1>7. ASSUME NEW n \in P PROVE n + 1 \in P
  <2> SUFFICES ASSUME n + 1 <= N PROVE Holds(n + 1)
    OBVIOUS
  <2>1. n \in Nat /\ n + 1 \in 1 .. N /\ n <= N /\ (n + 1) - 1 = n
    BY <1>3
  <2>2. PICK g : g = f[n]
    OBVIOUS
  <2>3. PICK p : p = Part(m, M(n))
    OBVIOUS
  <2>4. TableOK(g, p) /\ Full(g, H) /\ Cardinality(H) <= Len(g.node) /\ DOMAIN g.array = 1 .. nasize
    <3> HIDE DEF M
    <3> QED BY <2>1, <2>2, <2>3
  <2>5. PICK o : o = old[n + 1]
    OBVIOUS
  <2>6. f[n + 1] = IF o.val = Nothing THEN g ELSE Place(g, o.key, o.val)
    BY <1>4, <2>1, <2>2, <2>5
  <2>7. M(n + 1) = IF o.val = Nothing THEN M(n) ELSE M(n) \cup {o.key}
    BY <2>1, <2>5
  <2>8. CASE o.val = Nothing
    <3> HIDE DEF M
    <3> QED BY <2>3, <2>4, <2>6, <2>7, <2>8
  <2>9. CASE o.val # Nothing
    <3>1. PICK k : k = o.key
      OBVIOUS
    <3>2. k \in TableKey /\ o.val \in Value /\ m[k] = o.val
      BY <1>3, <2>1, <2>5, <2>9, <3>1
    <3>3. k \in H \/ InArray(g, k)
      BY <2>4, <2>9, <3>2 DEF InArray
    <3>4. InArray(g, k) \/ NodeOf(g, k) # 0 \/ HasRoomFor(g, k)
      BY <2>4, <3>2, <3>3, KeysAreKeys, RoomIsLeft
    <3>5. TableOK(f[n + 1], Stored(p, k, o.val))
      BY <2>4, <2>6, <2>9, <3>1, <3>2, <3>4, PlaceKeeps
    <3>6. Stored(p, k, o.val) = Part(m, M(n + 1))
      <4> HIDE DEF M
      <4> QED BY <2>3, <2>7, <2>9, <3>1, <3>2 DEF Stored, Part
    <3>7. Full(f[n + 1], H)
      BY <2>4, <2>6, <2>9, <3>1, <3>2, <3>3, PlaceFills
    <3>8. DOMAIN f[n + 1].array = 1 .. nasize /\ DOMAIN f[n + 1].node = DOMAIN g.node
      BY <2>4, <2>6, <2>9, <3>1, <3>2, NodesPlaced
    <3>9. Len(f[n + 1].node) = Len(g.node)
      <4>1. Shape(g) /\ Shape(f[n + 1])
        BY <2>4, <3>5 DEF TableOK
      <4>2. /\ DOMAIN g.node = 1 .. Len(g.node) /\ Len(g.node) \in Nat
            /\ DOMAIN f[n + 1].node = 1 .. Len(f[n + 1].node) /\ Len(f[n + 1].node) \in Nat
        BY <4>1, NodesOfATable
      <4> QED BY <3>8, <4>2
    <3> HIDE DEF M
    <3> QED BY <2>4, <3>5, <3>6, <3>7, <3>8, <3>9
  <2> QED BY <2>8, <2>9
<1>8. N \in P
  <2>1. P \in SUBSET Nat
    OBVIOUS
  <2> HIDE DEF P
  <2>2. P = Nat
    BY <1>6, <1>7, <2>1, SetInduction
  <2> QED BY <1>3, <2>2
<1>9. Part(m, M(N)) = m
  <2>1. ASSUME NEW k \in TableKey, m[k] # Nothing PROVE k \in M(N)
    BY <1>3, <2>1
  <2> HIDE DEF M
  <2>2. Part(m, M(N)) = [k \in TableKey |-> m[k]]
    BY <2>1 DEF Part
  <2> QED BY <1>5, <2>2
<1>10. Holds(N) /\ N <= N
  BY <1>3, <1>8
<1> HIDE DEF M
<1> QED BY <1>4, <1>9, <1>10

-----------------------------------------------------------------------------
(* Counting *)

\* The values of a function on a finite set.
LEMMA ImageIsFinite ==
  ASSUME NEW S, IsFiniteSet(S), NEW f, DOMAIN f = S
  PROVE  LET T == {f[x] : x \in S} IN IsFiniteSet(T) /\ Cardinality(T) <= Cardinality(S)
<1> DEFINE T == {f[x] : x \in S}
           g == [x \in S |-> f[x]]
<1>1. g \in Surjection(S, T)
  BY DEF Surjection
<1> HIDE DEF g, T
<1>2. IsFiniteSet(T) /\ Cardinality(T) <= Cardinality(S)
  BY <1>1, FS_Surjection
<1> QED BY <1>2 DEF T

\* A set is no larger than one it is mapped into, each to its own.
LEMMA MappedInto ==
  ASSUME NEW S, NEW T, IsFiniteSet(T), NEW f, DOMAIN f = S, \A x \in S : f[x] \in T,
         \A x, y \in S : f[x] = f[y] => x = y
  PROVE  IsFiniteSet(S) /\ Cardinality(S) <= Cardinality(T)
<1> DEFINE g == [x \in S |-> f[x]]
<1>1. g \in Injection(S, T)
  BY DEF Injection, IsInjective
<1> HIDE DEF g
<1> QED BY <1>1, FS_Injection

\* Two keys of the program may be one key of the table, never the other way.
LEMMA KeysAreFinite == IsFiniteSet(TableKey) /\ Cardinality(TableKey) <= Cardinality(Key)
<1> DEFINE f == [k \in Key |-> Normal(k)]
<1>1. TableKey = {f[k] : k \in Key}
  BY DEF TableKey
<1>2. DOMAIN f = Key /\ IsFiniteSet(Key)
  BY TableAssumption
<1> HIDE DEF f
<1> QED BY <1>1, <1>2, ImageIsFinite

\* The powers of two rise.
LEMMA TwoToRises == \A i, j \in Nat : i < j => TwoTo[i] < TwoTo[j]
<1> SUFFICES ASSUME NEW i \in Nat PROVE \A j \in Nat : i < j => TwoTo[i] < TwoTo[j]
  OBVIOUS
<1> DEFINE P == {j \in Nat : i < j => TwoTo[i] < TwoTo[j]}
<1>1. 0 \in P
  OBVIOUS
<1>2. ASSUME NEW j \in P PROVE j + 1 \in P
  <2>1. TwoTo[j + 1] = 2 * TwoTo[j] /\ TwoTo[j] > j /\ TwoTo[j] \in Nat /\ TwoTo[i] \in Nat
    BY PowersOfTwo
  <2>2. i < j + 1 => i = j \/ i < j
    OBVIOUS
  <2>3. CASE i = j
    BY <2>1, <2>3
  <2>4. CASE i < j
    BY <2>1, <2>4
  <2> QED BY <2>2, <2>3, <2>4
<1>3. P \in SUBSET Nat
  OBVIOUS
<1> HIDE DEF P
<1>4. P = Nat
  BY <1>1, <1>2, <1>3, SetInduction
<1> QED BY <1>4 DEF P

\* computesizes comes to a size.
LEMMA SizesComputed ==
  ASSUME NEW used, used \subseteq Int, IsFiniteSet(used)
  PROVE  computesizes(used) \in Nat
<1> DEFINE pos == {n \in used : n > 0}
           upTo(s) == Cardinality({n \in pos : n <= s})
           good == {s \in {TwoTo[i] : i \in 0 .. Cardinality(pos) + 1} :
                      upTo(s) > s \div 2 /\ upTo(s) > upTo(s \div 2)}
<1>1. PICK c : c = Cardinality(pos)
  OBVIOUS
<1>2. c \in Nat
  <2>1. pos \in SUBSET used
    OBVIOUS
  <2> HIDE DEF pos
  <2> QED BY <1>1, <2>1, FS_Subset, FS_CardinalityType
<1>3. good \in SUBSET (0 .. TwoTo[c + 1])
  <2> SUFFICES ASSUME NEW s \in good PROVE s \in 0 .. TwoTo[c + 1]
    OBVIOUS
  <2>1. PICK i \in 0 .. c + 1 : s = TwoTo[i]
    BY <1>1
  <2>2. TwoTo[i] \in Nat /\ TwoTo[c + 1] \in Nat /\ TwoTo[i] <= TwoTo[c + 1]
    <3>1. i \in Nat /\ c + 1 \in Nat /\ (i = c + 1 \/ i < c + 1)
      BY <1>2
    <3>2. TwoTo[i] \in Nat /\ TwoTo[c + 1] \in Nat
      BY <3>1, PowersOfTwo
    <3> QED BY <3>1, <3>2, TwoToRises
  <2> QED BY <2>1, <2>2
<1>4. TwoTo[c + 1] \in Nat
  BY <1>2, PowersOfTwo
<1>5. CASE good = {}
  BY <1>5 DEF computesizes
<1>6. CASE good # {}
  <2>1. \E s \in good : \A r \in good : r <= s
    <3> HIDE DEF good
    <3> QED BY <1>3, <1>4, <1>6, GreatestNumber
  <2>2. PICK x : x = CHOOSE s \in good : \A r \in good : r <= s
    OBVIOUS
  <2>3. x \in good
    <3> HIDE DEF good
    <3> QED BY <2>1, <2>2
  <2>4. computesizes(used) = x
    BY <1>6, <2>2 DEF computesizes
  <2>5. x \in 0 .. TwoTo[c + 1]
    <3> HIDE DEF good
    <3> QED BY <1>3, <2>3
  <2> QED BY <1>4, <2>4, <2>5
<1> QED BY <1>5, <1>6

\* What computesizes counts are finitely many integers.
LEMMA IntKeysCounted ==
  ASSUME NEW t, NEW m, TableOK(t, m), NEW k \in TableKey
  PROVE  IntKeys(t, k) \subseteq Int /\ IsFiniteSet(IntKeys(t, k))
<1>1. Shape(t)
  BY DEF TableOK
<1> DEFINE A == {i \in DOMAIN t.array : t.array[i] # Nothing}
           I == {i \in DOMAIN t.node : t.node[i].val # Nothing /\ t.node[i].key.kind = "int"}
           B == {t.node[i].key.n : i \in I}
           C == IF k.kind = "int" THEN {k.n} ELSE {}
<1>2. IntKeys(t, k) = A \cup B \cup C
  BY DEF IntKeys
<1>3. A \subseteq Int /\ IsFiniteSet(A)
  <2>1. A \in SUBSET (1 .. Len(t.array)) /\ Len(t.array) \in Nat
    BY <1>1, NodesOfATable
  <2>2. IsFiniteSet(1 .. Len(t.array))
    BY <2>1, FS_Interval
  <2>3. A \subseteq Int
    BY <2>1
  <2>4. A \in SUBSET (1 .. Len(t.array))
    BY <2>1
  <2> HIDE DEF A
  <2> QED BY <2>2, <2>3, <2>4, FS_Subset
<1>4. B \subseteq Int /\ IsFiniteSet(B)
  <2>1. I \in SUBSET (1 .. Len(t.node)) /\ Len(t.node) \in Nat
    BY <1>1, NodesOfATable
  <2>2. IsFiniteSet(I)
    <3>1. IsFiniteSet(1 .. Len(t.node))
      BY <2>1, FS_Interval
    <3>2. I \in SUBSET (1 .. Len(t.node))
      BY <2>1
    <3> HIDE DEF I
    <3> QED BY <3>1, <3>2, FS_Subset
  <2>3. ASSUME NEW i \in I PROVE t.node[i].key.n \in Int
    <3>1. i \in Keyed(t)
      BY <1>1 DEF Shape, Keyed
    <3>2. t.node[i].key \in AnyKey
      BY <1>1, <3>1, KeysAreKeys, NodesOfATable
    <3> QED BY <3>2 DEF AnyKey
  <2> DEFINE f == [i \in I |-> t.node[i].key.n]
  <2>4. B = {f[i] : i \in I} /\ DOMAIN f = I
    OBVIOUS
  <2>5. IsFiniteSet(B)
    <3> HIDE DEF B, I, f
    <3> QED BY <2>2, <2>4, ImageIsFinite
  <2> QED BY <2>3, <2>5
<1>5. C \subseteq Int /\ IsFiniteSet(C)
  <2>1. k.n \in Int
    BY KeysAreKeys DEF AnyKey
  <2> QED BY <2>1, FS_EmptySet, FS_Singleton
<1> HIDE DEF A, B, C
<1>6. IsFiniteSet(A \cup B)
  BY <1>3, <1>4, FS_Union
<1>7. IsFiniteSet((A \cup B) \cup C)
  BY <1>5, <1>6, FS_Union
<1> QED BY <1>2, <1>3, <1>4, <1>5, <1>7

-----------------------------------------------------------------------------
(* The operations *)

\* rehash makes room for the key.
LEMMA RehashKeeps ==
  ASSUME NEW t, NEW m, TableOK(t, m), NEW k \in TableKey
  PROVE  LET s == rehash(t, k)
         IN  TableOK(s, m) /\ (InArray(s, k) \/ NodeOf(s, k) # 0 \/ HasRoomFor(s, k))
<1>1. Shape(t) /\ Chains(t) /\ Content(t, m) /\ m \in [TableKey -> Value]
  BY DEF TableOK
<1>2. PICK used : used = IntKeys(t, k)
  OBVIOUS
<1>3. used \subseteq Int /\ IsFiniteSet(used)
  BY <1>2, IntKeysCounted
<1>4. PICK asize : asize = computesizes(used)
  OBVIOUS
<1>5. asize \in Nat
  BY <1>3, <1>4, SizesComputed
<1> DEFINE UO == {n \in used : n \notin 1 .. asize}
           NO == {i \in DOMAIN t.node : t.node[i].val # Nothing /\ t.node[i].key.kind # "int"}
           one == IF k.kind = "int" THEN 0 ELSE 1
           InPart(q) == (q.kind = "int" /\ q.n \in 1 .. asize)
           H == {q \in TableKey : (m[q] # Nothing \/ q = k) /\ ~ InPart(q)}
           HI == {q \in H : q.kind = "int"}
           HO == {q \in H : q.kind # "int"}
           HP == HO \ {k}
<1>6. PICK nhsize : nhsize = Cardinality(UO) + (Cardinality(NO) + one)
  OBVIOUS
<1>7. PICK s : s = rehash(t, k)
  OBVIOUS
<1>8. s = luaH_resize(t, asize, nhsize)
  BY <1>2, <1>4, <1>6, <1>7 DEF rehash
<1>9. IsFiniteSet(UO) /\ Cardinality(UO) \in Nat
  <2>1. UO \in SUBSET used
    OBVIOUS
  <2> HIDE DEF UO
  <2> QED BY <1>3, <2>1, FS_Subset, FS_CardinalityType
<1>10. IsFiniteSet(NO) /\ Cardinality(NO) \in Nat
  <2>1. NO \in SUBSET (1 .. Len(t.node)) /\ Len(t.node) \in Nat
    BY <1>1, NodesOfATable
  <2>2. IsFiniteSet(1 .. Len(t.node))
    BY <2>1, FS_Interval
  <2> HIDE DEF NO
  <2> QED BY <2>1, <2>2, FS_Subset, FS_CardinalityType
<1>11. IsFiniteSet(H) /\ IsFiniteSet(HO)
  <2>1. H \in SUBSET TableKey /\ HO \in SUBSET TableKey
    OBVIOUS
  <2> HIDE DEF H, HO
  <2> QED BY <2>1, KeysAreFinite, FS_Subset
\* Where a key with a value is.
<1>12. ASSUME NEW q \in TableKey, m[q] # Nothing, ~ InArray(t, q)
       PROVE  NodeOf(t, q) \in DOMAIN t.node /\ t.node[NodeOf(t, q)].key = q /\ t.node[NodeOf(t, q)].val # Nothing
  <2>1. PICK i \in Live(t) : t.node[i].key = q
    BY <1>1, <1>12 DEF Content
  <2>2. NodeOf(t, q) = i
    BY <1>1, <2>1, KeysAreKeys, NodeIsFound
  <2>3. t.node[i].val = m[q]
    BY <1>1, <2>1 DEF Content
  <2> QED BY <1>12, <2>1, <2>2, <2>3 DEF Live, Keyed
<1>13. IsFiniteSet(HI) /\ Cardinality(HI) <= Cardinality(UO)
  <2> DEFINE f == [q \in HI |-> q.n]
  <2>1. ASSUME NEW q \in HI PROVE q.n \in UO
    <3>1. q \in TableKey /\ q.kind = "int" /\ q.n \notin 1 .. asize /\ (m[q] # Nothing \/ q = k)
      OBVIOUS
    <3>2. q.n \in used
      <4>1. CASE q = k
        BY <1>2, <3>1, <4>1 DEF IntKeys
      <4>2. CASE m[q] # Nothing /\ InArray(t, q)
        <5>1. q.n \in DOMAIN t.array /\ q = IntKey(q.n)
          BY <3>1, <4>2, KeysAreKeys DEF InArray
        <5>2. t.array[q.n] = m[q]
          BY <1>1, <3>1, <5>1 DEF Content, At
        <5> QED BY <1>2, <4>2, <5>1, <5>2 DEF IntKeys
      <4>3. CASE m[q] # Nothing /\ ~ InArray(t, q)
        <5>1. PICK i \in DOMAIN t.node : t.node[i].key = q /\ t.node[i].val # Nothing
          BY <1>12, <3>1, <4>3
        <5> QED BY <1>2, <3>1, <5>1 DEF IntKeys
      <4> QED BY <3>1, <4>1, <4>2, <4>3
    <3> QED BY <3>1, <3>2
  <2>2. ASSUME NEW x \in HI, NEW y \in HI, x.n = y.n PROVE x = y
    <3>1. x = IntKey(x.n) /\ y = IntKey(y.n)
      BY KeysAreKeys
    <3> QED BY <2>2, <3>1
  <2>3. DOMAIN f = HI /\ (\A x \in HI : f[x] \in UO) /\ (\A x, y \in HI : f[x] = f[y] => x = y)
    <3>1. \A x \in HI : f[x] = x.n
      OBVIOUS
    <3>2. DOMAIN f = HI
      OBVIOUS
    <3> HIDE DEF f, HI, UO
    <3> QED BY <2>1, <2>2, <3>1, <3>2
  <2> HIDE DEF f, HI, UO
  <2> QED BY <1>9, <2>3, MappedInto
<1>14. IsFiniteSet(HP) /\ Cardinality(HP) <= Cardinality(NO)
  <2> DEFINE f == [q \in HP |-> NodeOf(t, q)]
  <2>1. ASSUME NEW q \in HP PROVE NodeOf(t, q) \in NO /\ t.node[NodeOf(t, q)].key = q
    <3>1. q \in TableKey /\ q.kind # "int" /\ m[q] # Nothing
      OBVIOUS
    <3>2. ~ InArray(t, q)
      BY <3>1 DEF InArray
    <3> QED BY <1>12, <3>1, <3>2
  <2>2. DOMAIN f = HP /\ \A x \in HP : f[x] = NodeOf(t, x)
    OBVIOUS
  <2> HIDE DEF f, HP, NO
  <2>3. (\A x \in HP : f[x] \in NO) /\ (\A x, y \in HP : f[x] = f[y] => x = y)
    BY <2>1, <2>2
  <2> QED BY <1>10, <2>2, <2>3, MappedInto
<1>15. Cardinality(HO) <= Cardinality(NO) + one
  <2>1. Cardinality(HO) \in Nat /\ Cardinality(HP) = IF k \in HO THEN Cardinality(HO) - 1 ELSE Cardinality(HO)
    <3> HIDE DEF HO
    <3> QED BY <1>11, FS_RemoveElement, FS_CardinalityType
  <2>2. k \in HO => one = 1
    OBVIOUS
  <2>3. one \in {0, 1}
    OBVIOUS
  <2> HIDE DEF HO, HP, NO, one
  <2> QED BY <1>10, <1>14, <2>1, <2>2, <2>3
<1>16. Cardinality(H) <= nhsize /\ nhsize \in Nat
  <2>1. H = HI \cup HO /\ HI \cap HO = {} /\ one \in Nat
    OBVIOUS
  <2> HIDE DEF H, HI, HO, UO, NO, one
  <2>2. Cardinality(H) = Cardinality(HI) + Cardinality(HO) - Cardinality({})
    BY <1>11, <1>13, <2>1, FS_Union
  <2>3. Cardinality({}) = 0 /\ Cardinality(HI) \in Nat /\ Cardinality(HO) \in Nat
    BY <1>11, <1>13, FS_EmptySet, FS_CardinalityType
  <2> QED BY <1>6, <1>9, <1>10, <1>13, <1>15, <2>1, <2>2, <2>3
<1>17. \A q \in TableKey : m[q] # Nothing => q \in H \/ (q.kind = "int" /\ q.n \in 1 .. asize)
  OBVIOUS
<1>18. k \in H \/ (k.kind = "int" /\ k.n \in 1 .. asize)
  OBVIOUS
<1> HIDE DEF H, HI, HO, HP, UO, NO, one, InPart
<1>19. /\ TableOK(s, m) /\ Full(s, H) /\ Cardinality(H) <= Len(s.node)
       /\ DOMAIN s.array = 1 .. asize
  BY <1>5, <1>8, <1>11, <1>16, <1>17, ResizeKeeps
<1>20. InArray(s, k) \/ NodeOf(s, k) # 0 \/ HasRoomFor(s, k)
  <2>1. CASE k \in H
    BY <1>11, <1>19, <2>1, KeysAreKeys, RoomIsLeft
  <2>2. CASE k.kind = "int" /\ k.n \in 1 .. asize
    BY <1>19, <2>2 DEF InArray
  <2> QED BY <1>18, <2>1, <2>2
<1> QED BY <1>7, <1>19, <1>20

\* luaH_set and the assignment to the cell.
LEMMA SetKeeps ==
  ASSUME NEW t, NEW m, TableOK(t, m), NEW q \in Key, NEW v \in Value
  PROVE  TableOK(luaH_set(t, q, v), Stored(m, Normal(q), v))
<1>1. PICK k : k = Normal(q)
  OBVIOUS
<1>2. k \in TableKey
  BY <1>1 DEF TableKey
<1>3. CASE InArray(t, k) \/ NodeOf(t, k) # 0 \/ HasRoomFor(t, k)
  <2>1. luaH_set(t, q, v) = Place(t, k, v)
    BY <1>1, <1>3 DEF luaH_set
  <2> QED BY <1>1, <1>2, <1>3, <2>1, PlaceKeeps
<1>4. CASE ~ (InArray(t, k) \/ NodeOf(t, k) # 0 \/ HasRoomFor(t, k))
  <2>1. luaH_set(t, q, v) = Place(rehash(t, k), k, v)
    BY <1>1, <1>4 DEF luaH_set
  <2>2. PICK s : s = rehash(t, k)
    OBVIOUS
  <2>3. TableOK(s, m) /\ (InArray(s, k) \/ NodeOf(s, k) # 0 \/ HasRoomFor(s, k))
    BY <1>2, <2>2, RehashKeeps
  <2> QED BY <1>1, <1>2, <2>1, <2>2, <2>3, PlaceKeeps
<1> QED BY <1>3, <1>4

\* luaH_resizearray, to a larger array.
LEMMA ResizeArrayKeeps ==
  ASSUME NEW t, NEW m, TableOK(t, m), NEW nasize \in Nat, Len(t.array) < nasize
  PROVE  TableOK(luaH_resizearray(t, nasize), m)
<1>1. Shape(t) /\ Content(t, m)
  BY DEF TableOK
<1>2. PICK N : N = Len(t.node)
  OBVIOUS
<1>3. N \in Nat /\ DOMAIN t.node = 1 .. N /\ Len(t.array) \in Nat /\ DOMAIN t.array = 1 .. Len(t.array)
  BY <1>1, <1>2, NodesOfATable
<1> DEFINE f == [i \in 1 .. N |-> t.node[i].key]
           H == {f[i] : i \in 1 .. N}
<1>4. IsFiniteSet(H) /\ Cardinality(H) <= N
  <2>1. IsFiniteSet(1 .. N) /\ Cardinality(1 .. N) = N
    BY <1>3, FS_Interval
  <2>2. DOMAIN f = 1 .. N
    OBVIOUS
  <2> HIDE DEF f
  <2>3. IsFiniteSet(H) /\ Cardinality(H) <= Cardinality(1 .. N)
    BY <2>1, <2>2, ImageIsFinite
  <2> QED BY <2>1, <2>3
<1>5. ASSUME NEW q \in TableKey, m[q] # Nothing
      PROVE  q \in H \/ (q.kind = "int" /\ q.n \in 1 .. nasize)
  <2>1. CASE InArray(t, q)
    BY <1>3, <2>1 DEF InArray
  <2>2. CASE ~ InArray(t, q)
    <3>1. PICK i \in Live(t) : t.node[i].key = q
      BY <1>1, <1>5, <2>2 DEF Content
    <3>2. i \in 1 .. N
      BY <1>3, <3>1 DEF Live, Keyed
    <3> QED BY <3>1, <3>2
  <2> QED BY <2>1, <2>2
<1>6. luaH_resizearray(t, nasize) = luaH_resize(t, nasize, N)
  BY <1>2 DEF luaH_resizearray
<1> HIDE DEF H
<1> QED BY <1>3, <1>4, <1>5, <1>6, ResizeKeeps

-----------------------------------------------------------------------------
(* The length *)

\* The function of the binary search, over its first n rounds.
Halving(i, j, absent, n, f) ==
  f = [x \in 0 .. n |-> IF x = 0 THEN <<i, j>> ELSE Halve(f[x - 1], absent)]

\* It is there, round by round.
LEMMA HalvingExists ==
  ASSUME NEW a, NEW b, NEW absent, NEW n \in Nat
  PROVE  \E f : Halving(a, b, absent, n, f)
<1> DEFINE P == {i \in Nat : \E f : Halving(a, b, absent, i, f)}
<1>1. 0 \in P
  <2>1. Halving(a, b, absent, 0, [i \in 0 .. 0 |-> <<a, b>>])
    BY DEF Halving
  <2> QED BY <2>1
<1>2. ASSUME NEW i \in P PROVE i + 1 \in P
  <2>1. PICK f : Halving(a, b, absent, i, f)
    OBVIOUS
  <2> DEFINE new == Halve(f[i], absent)
             e == [j \in 0 .. i + 1 |-> IF j = i + 1 THEN new ELSE f[j]]
  <2>2. i \in Nat
    OBVIOUS
  <2>3. ASSUME NEW j \in 0 .. i + 1
        PROVE  e[j] = IF j = 0 THEN <<a, b>> ELSE Halve(e[j - 1], absent)
    <3>1. CASE j = i + 1
      <4>1. e[j] = new /\ e[j - 1] = f[i] /\ j # 0
        BY <3>1, <2>2
      <4> HIDE DEF e
      <4> QED BY <4>1, <3>1
    <3>2. CASE j # i + 1
      <4>1. j \in 0 .. i
        BY <3>2, <2>2
      <4>2. f[j] = IF j = 0 THEN <<a, b>> ELSE Halve(f[j - 1], absent)
        BY <4>1, <2>1 DEF Halving
      <4>3. e[j] = f[j] /\ (j # 0 => e[j - 1] = f[j - 1])
        BY <4>1, <2>2
      <4> HIDE DEF e
      <4> QED BY <4>2, <4>3
    <3> QED BY <3>1, <3>2
  <2>4. Halving(a, b, absent, i + 1, e)
    <3>1. e = [j \in 0 .. i + 1 |-> e[j]]
      OBVIOUS
    <3> HIDE DEF e
    <3> QED BY <3>1, <2>3 DEF Halving
  <2> QED BY <2>4, <2>2
<1>3. P = Nat
  <2> HIDE DEF P
  <2>1. P \in SUBSET Nat BY DEF P
  <2> QED BY <1>1, <1>2, <2>1, SetInduction
<1> QED BY <1>3

\* The binary search finds an absent number behind one that is not, or behind
\* its beginning.
LEMMA HalvingFinds ==
  ASSUME NEW a \in Nat, NEW b \in Nat, a < b, NEW absent, b \in absent
  PROVE  LET r == Between2(a, b, absent)
         IN  r \in a .. b - 1 /\ (r = a \/ r \notin absent) /\ r + 1 \in absent
<1> DEFINE N == b - a
           f == CHOOSE f : Halving(a, b, absent, N, f)
<1>1. N \in Nat
  OBVIOUS
<1>2. Halving(a, b, absent, N, f)
  BY <1>1, HalvingExists
<1>3. Between2(a, b, absent) = f[N][1]
  BY DEF Between2, Halving
<1> HIDE DEF f
<1>4. f[0] = <<a, b>> /\ \A n \in 1 .. N : f[n] = Halve(f[n - 1], absent)
  <2>1. \A n \in 0 .. N : f[n] = IF n = 0 THEN <<a, b>> ELSE Halve(f[n - 1], absent)
    BY <1>2 DEF Halving
  <2>2. 0 \in 0 .. N /\ \A n \in 1 .. N : n \in 0 .. N /\ n # 0
    BY <1>1
  <2> QED BY <2>1, <2>2
<1> DEFINE Straddles(n, x, y) ==
             /\ f[n] = <<x, y>> /\ a <= x /\ x < y /\ y <= b /\ y \in absent /\ (x = a \/ x \notin absent)
             /\ (y - x = 1 \/ y - x <= N - n)
           P == {n \in Nat : n <= N => \E x \in Nat, y \in Nat : Straddles(n, x, y)}
<1>5. 0 \in P
  <2>1. Straddles(0, a, b)
    BY <1>1, <1>4
  <2> HIDE DEF Straddles
  <2> QED BY <2>1
<1>6. ASSUME NEW n \in P PROVE n + 1 \in P
  <2> SUFFICES ASSUME n + 1 <= N PROVE \E x \in Nat, y \in Nat : Straddles(n + 1, x, y)
    OBVIOUS
  <2>1. n \in Nat /\ n <= N /\ n + 1 \in 1 .. N /\ (n + 1) - 1 = n
    BY <1>1
  <2>2. PICK x \in Nat, y \in Nat : Straddles(n, x, y)
    <3> HIDE DEF Straddles
    <3> QED BY <2>1
  <2>3. PICK h : h = (x + y) \div 2
    OBVIOUS
  <2>4. h \in Nat /\ x <= h /\ h < y
    BY <2>2, <2>3
  <2>5. f[n + 1] = IF y - x <= 1 THEN <<x, y>> ELSE IF h \in absent THEN <<x, h>> ELSE <<h, y>>
    <3>1. f[n + 1] = Halve(<<x, y>>, absent)
      BY <1>4, <2>1, <2>2
    <3> QED BY <2>3, <3>1 DEF Halve
  <2>6. CASE y - x <= 1
    <3>1. f[n + 1] = <<x, y>> /\ y - x = 1
      BY <2>2, <2>5, <2>6
    <3>2. Straddles(n + 1, x, y)
      BY <2>2, <3>1
    <3> HIDE DEF Straddles
    <3> QED BY <3>2
  <2>7. CASE ~ (y - x <= 1) /\ h \in absent
    <3>1. f[n + 1] = <<x, h>> /\ x < h /\ y - x <= N - n
      BY <2>2, <2>3, <2>5, <2>7
    <3>2. h - x <= N - (n + 1)
      BY <1>1, <2>1, <2>4, <3>1
    <3>3. Straddles(n + 1, x, h)
      BY <2>2, <2>4, <2>7, <3>1, <3>2
    <3> HIDE DEF Straddles
    <3> QED BY <2>4, <3>3
  <2>8. CASE ~ (y - x <= 1) /\ h \notin absent
    <3>1. f[n + 1] = <<h, y>> /\ x < h /\ y - x <= N - n
      BY <2>2, <2>3, <2>5, <2>8
    <3>2. y - h <= N - (n + 1)
      BY <1>1, <2>1, <2>4, <3>1
    <3>3. Straddles(n + 1, h, y)
      BY <2>2, <2>4, <2>8, <3>1, <3>2
    <3> HIDE DEF Straddles
    <3> QED BY <2>4, <3>3
  <2> QED BY <2>6, <2>7, <2>8
<1>7. P = Nat
  <2>1. P \in SUBSET Nat
    OBVIOUS
  <2> HIDE DEF P
  <2> QED BY <1>5, <1>6, <2>1, SetInduction
<1>8. PICK x \in Nat, y \in Nat : Straddles(N, x, y)
  <2>1. N \in P /\ N <= N
    BY <1>1, <1>7
  <2> HIDE DEF Straddles
  <2> QED BY <2>1
<1>9. y = x + 1 /\ f[N][1] = x
  BY <1>1, <1>8
<1> QED BY <1>3, <1>8, <1>9

\* Multiples rise.
LEMMA TimesRises ==
  ASSUME NEW a \in Nat, NEW b \in Nat, a < b, NEW p \in Nat, p > 0
  PROVE  a * p < b * p
<1>1. PICK d \in Nat : b = a + d /\ d > 0
  <2>1. b - a \in Nat /\ b = a + (b - a) /\ b - a > 0
    OBVIOUS
  <2> QED BY <2>1
<1>2. b * p = a * p + d * p
  BY <1>1
<1>3. d * p > 0 /\ d * p \in Nat /\ a * p \in Nat
  BY <1>1
<1> QED BY <1>2, <1>3

\* The numbers unbound_search tries are more than there are keys.
LEMMA SomeTriedIsAbsent ==
  ASSUME NEW m \in [TableKey -> Value], NEW n \in Nat
  PROVE  \E i \in 0 .. Cardinality(Key) : At(m, IntKey(TwoTo[i] * (n + 1))) = Nothing
<1> SUFFICES ASSUME \A i \in 0 .. Cardinality(Key) : At(m, IntKey(TwoTo[i] * (n + 1))) # Nothing
             PROVE  FALSE
  OBVIOUS
<1>1. PICK c : c = Cardinality(Key)
  OBVIOUS
<1>2. c \in Nat /\ IsFiniteSet(TableKey) /\ Cardinality(TableKey) \in Nat /\ Cardinality(TableKey) <= c
  BY <1>1, TableAssumption, KeysAreFinite, FS_CardinalityType
<1> DEFINE f == [i \in 0 .. c |-> IntKey(TwoTo[i] * (n + 1))]
<1>3. f \in [0 .. c -> TableKey]
  BY <1>1 DEF At
<1>4. IsFiniteSet(0 .. c) /\ Cardinality(0 .. c) = c + 1
  BY <1>2, FS_Interval
<1>5. \E x, y \in 0 .. c : x # y /\ f[x] = f[y]
  <2>1. Cardinality(TableKey) < Cardinality(0 .. c)
    BY <1>2, <1>4
  <2> HIDE DEF f
  <2> QED BY <1>2, <1>3, <1>4, <2>1, FS_PigeonHole
<1>6. PICK x \in 0 .. c, y \in 0 .. c : x # y /\ f[x] = f[y]
  BY <1>5
<1>7. TwoTo[x] * (n + 1) = TwoTo[y] * (n + 1)
  <2>1. f[x] = IntKey(TwoTo[x] * (n + 1)) /\ f[y] = IntKey(TwoTo[y] * (n + 1))
    OBVIOUS
  <2>2. IntKey(TwoTo[x] * (n + 1)).n = TwoTo[x] * (n + 1) /\ IntKey(TwoTo[y] * (n + 1)).n = TwoTo[y] * (n + 1)
    BY Zenon DEF IntKey
  <2> HIDE DEF f
  <2> QED BY <1>6, <2>1, <2>2, Zenon
<1>8. x \in Nat /\ y \in Nat /\ TwoTo[x] \in Nat /\ TwoTo[y] \in Nat /\ n + 1 \in Nat /\ n + 1 > 0
  BY <1>2, PowersOfTwo
<1> HIDE DEF f
<1>9. CASE x < y
  <2>1. TwoTo[x] < TwoTo[y]
    BY <1>8, <1>9, TwoToRises
  <2>2. TwoTo[x] * (n + 1) < TwoTo[y] * (n + 1)
    BY <1>8, <2>1, TimesRises
  <2> QED BY <1>7, <1>8, <2>2
<1>10. CASE y < x
  <2>1. TwoTo[y] < TwoTo[x]
    BY <1>8, <1>10, TwoToRises
  <2>2. TwoTo[y] * (n + 1) < TwoTo[x] * (n + 1)
    BY <1>8, <2>1, TimesRises
  <2> QED BY <1>7, <1>8, <2>2
<1> QED BY <1>6, <1>8, <1>9, <1>10

\* luaH_get of a number.
LEMMA NumberReads ==
  ASSUME NEW t, NEW m, TableOK(t, m), NEW n \in Int
  PROVE  luaH_get(t, IntKey(n)) = At(m, IntKey(n))
<1>1. PICK k : k = IntKey(n)
  OBVIOUS
<1>2. k \in AnyKey /\ Normal(k) = k /\ k.kind = "int" /\ k = IntKey(k.n)
  BY <1>1 DEF AnyKey, IntKey, Normal
<1> QED BY <1>1, <1>2, GetReads

\* luaH_getn comes to a border.
LEMMA LengthIsABorder ==
  ASSUME NEW t, NEW m, TableOK(t, m)
  PROVE  LET n == luaH_getn(t)
         IN  n \in Nat /\ (n = 0 \/ At(m, IntKey(n)) # Nothing) /\ At(m, IntKey(n + 1)) = Nothing
<1>1. Shape(t) /\ Chains(t) /\ Content(t, m) /\ m \in [TableKey -> Value]
  BY DEF TableOK
<1>2. PICK n : n = Len(t.array)
  OBVIOUS
<1>3. n \in Nat /\ DOMAIN t.array = 1 .. n
  BY <1>1, <1>2, NodesOfATable
<1>4. \A i \in 1 .. n : t.array[i] = At(m, IntKey(i))
  BY <1>1, <1>3 DEF Content
<1>5. CASE n > 0 /\ t.array[n] = Nothing
  <2>1. PICK absent : absent = {i \in DOMAIN t.array : t.array[i] = Nothing}
    OBVIOUS
  <2>2. PICK r : r = Between2(0, n, absent)
    OBVIOUS
  <2>3. n \in absent
    BY <1>3, <1>5, <2>1
  <2>4. r \in 0 .. n - 1 /\ (r = 0 \/ r \notin absent) /\ r + 1 \in absent
    BY <1>3, <1>5, <2>2, <2>3, HalvingFinds
  <2>5. luaH_getn(t) = r
    BY <1>2, <1>5, <2>1, <2>2 DEF luaH_getn
  <2>6. r = 0 \/ At(m, IntKey(r)) # Nothing
    BY <1>3, <1>4, <2>1, <2>4
  <2>7. At(m, IntKey(r + 1)) = Nothing
    BY <1>3, <1>4, <2>1, <2>4
  <2>8. r \in Nat
    BY <1>3, <2>4
  <2> QED BY <2>5, <2>6, <2>7, <2>8
<1>6. CASE ~ (n > 0 /\ t.array[n] = Nothing) /\ t.node = <<>>
  <2>1. luaH_getn(t) = n
    BY <1>2, <1>6 DEF luaH_getn
  <2>2. n = 0 \/ At(m, IntKey(n)) # Nothing
    BY <1>3, <1>4, <1>6
  <2>3. At(m, IntKey(n + 1)) = Nothing
    <3>1. PICK k : k = IntKey(n + 1)
      OBVIOUS
    <3>2. ~ InArray(t, k)
      BY <1>3, <3>1 DEF InArray, IntKey
    <3>3. Live(t) = {}
      BY <1>6 DEF Live, Keyed
    <3>4. k \in TableKey => m[k] = Nothing
      BY <1>1, <3>2, <3>3 DEF Content
    <3> QED BY <1>1, <3>1, <3>4 DEF At
  <2> QED BY <1>3, <2>1, <2>2, <2>3
<1>7. CASE ~ (n > 0 /\ t.array[n] = Nothing) /\ t.node # <<>>
  <2> DEFINE tried == {TwoTo[i] * (n + 1) : i \in 0 .. Cardinality(Key)}
             Absent(i) == luaH_get(t, IntKey(i)) = Nothing
             First(j) == Absent(j) /\ \A i \in tried : i < j => ~ Absent(i)
             gone == {i \in tried : Absent(i)}
  <2>1. \A i \in Int : Absent(i) <=> At(m, IntKey(i)) = Nothing
    BY NumberReads
  <2>2. Cardinality(Key) \in Nat
    BY TableAssumption, FS_CardinalityType
  <2>3. ASSUME NEW i \in 0 .. Cardinality(Key)
        PROVE  TwoTo[i] \in Nat /\ TwoTo[i] * (n + 1) \in Nat
    <3>1. i \in Nat
      BY <2>2
    <3>2. PICK w : w = TwoTo[i]
      OBVIOUS
    <3>3. w \in Nat
      BY <3>1, <3>2, PowersOfTwo
    <3>4. w * (n + 1) \in Nat
      BY <1>3, <3>3
    <3> QED BY <3>2, <3>3, <3>4
  <2>4. tried \in SUBSET Nat
    BY <2>3
  <2>5. \E l \in tried : First(l)
    <3>1. PICK i \in 0 .. Cardinality(Key) : At(m, IntKey(TwoTo[i] * (n + 1))) = Nothing
      BY <1>1, <1>3, SomeTriedIsAbsent
    <3>2. PICK x : x = TwoTo[i] * (n + 1)
      OBVIOUS
    <3>3. x \in tried /\ x \in Nat /\ At(m, IntKey(x)) = Nothing
      BY <2>3, <3>1, <3>2
    <3> HIDE DEF tried
    <3>4. x \in gone
      BY <2>1, <3>3
    <3>5. gone \in SUBSET Nat
      BY <2>4
    <3>6. PICK j \in gone : \A y \in gone : j <= y
      <4> HIDE DEF gone
      <4> QED BY <3>4, <3>5, LeastNumber
    <3>7. \A y \in tried : y < j => ~ Absent(y)
      <4> SUFFICES ASSUME NEW y \in tried, y < j, y \in gone PROVE FALSE
        OBVIOUS
      <4> HIDE DEF gone
      <4>1. j <= y /\ j \in Nat /\ y \in Nat
        BY <2>4, <3>5, <3>6
      <4> QED BY <4>1
    <3> QED BY <3>6, <3>7
  <2>6. PICK j : j = CHOOSE l \in tried : First(l)
    OBVIOUS
  <2>7. j \in tried /\ First(j)
    <3> HIDE DEF tried, First
    <3> QED BY <2>5, <2>6
  <2>8. PICK e \in 0 .. Cardinality(Key) : j = TwoTo[e] * (n + 1)
    BY <2>7
  <2>9. PICK i : i = IF j = n + 1 THEN n ELSE j \div 2
    OBVIOUS
  <2>10. i \in Nat /\ j \in Nat /\ i < j /\ (i = 0 \/ ~ Absent(i))
    <3>1. j \in Nat /\ e \in Nat
      BY <2>2, <2>3, <2>8
    <3>2. CASE j = n + 1
      <4>1. i = n /\ (n = 0 \/ At(m, IntKey(n)) # Nothing)
        BY <1>3, <1>4, <1>7, <2>9, <3>2
      <4> HIDE DEF Absent
      <4> QED BY <1>3, <2>1, <3>2, <4>1
    <3>3. CASE j # n + 1
      <4>1. TwoTo[0] = 1
        BY PowersOfTwo
      <4>2. e # 0
        BY <1>3, <2>8, <3>3, <4>1
      <4>3. PICK d : d = e - 1
        OBVIOUS
      <4>4. d \in 0 .. Cardinality(Key) /\ e = d + 1 /\ d \in Nat
        BY <2>2, <3>1, <4>2, <4>3
      <4>5. PICK w : w = TwoTo[d] * (n + 1)
        OBVIOUS
      <4>6. w \in tried /\ w \in Nat /\ TwoTo[d] \in Nat /\ TwoTo[d] > 0
        <5>1. w \in tried
          BY <4>4, <4>5
        <5> QED BY <2>3, <4>4, <4>5, <5>1, PowersOfTwo
      <4>7. j = 2 * w
        <5>1. TwoTo[e] = 2 * TwoTo[d]
          BY <4>4, PowersOfTwo
        <5> HIDE DEF tried, First, Absent
        <5> QED BY <1>3, <2>8, <4>5, <4>6, <5>1
      <4>8. w > 0
        <5>1. 0 * (n + 1) < TwoTo[d] * (n + 1)
          BY <1>3, <4>6, TimesRises
        <5> HIDE DEF tried, First, Absent
        <5> QED BY <1>3, <4>5, <4>6, <5>1
      <4>9. i = w
        <5> HIDE DEF tried, First, Absent
        <5> QED BY <2>9, <3>3, <4>6, <4>7
      <4>10. i < j
        <5> HIDE DEF tried, First, Absent
        <5> QED BY <4>6, <4>7, <4>8, <4>9
      <4>11. ~ Absent(i)
        <5> HIDE DEF tried, Absent
        <5> QED BY <2>7, <4>6, <4>9, <4>10
      <4> HIDE DEF tried, First, Absent
      <4> QED BY <3>1, <4>6, <4>9, <4>10, <4>11
    <3> QED BY <3>2, <3>3
  <2>11. PICK absent : absent = {x \in i .. j : Absent(x)}
    OBVIOUS
  <2>12. PICK r : r = Between2(i, j, absent)
    OBVIOUS
  <2>13. luaH_getn(t) = r
    <3>1. luaH_getn(t) = unbound_search(t, n)
      BY <1>2, <1>7 DEF luaH_getn
    <3> QED BY <2>6, <2>9, <2>11, <2>12, <3>1 DEF unbound_search
  <2> HIDE DEF tried, Absent
  <2>14. j \in absent
    BY <2>7, <2>10, <2>11
  <2>15. r \in i .. j - 1 /\ (r = i \/ r \notin absent) /\ r + 1 \in absent
    BY <2>10, <2>12, <2>14, HalvingFinds
  <2>16. r \in Nat /\ r + 1 \in Int
    BY <2>10, <2>15
  <2>17. r = 0 \/ ~ Absent(r)
    <3>1. CASE r = i
      BY <2>10, <3>1
    <3>2. CASE r # i
      BY <2>10, <2>11, <2>15, <3>2
    <3> QED BY <3>1, <3>2
  <2>18. Absent(r + 1)
    BY <2>11, <2>15
  <2> QED BY <2>1, <2>13, <2>16, <2>17, <2>18
<1> QED BY <1>5, <1>6, <1>7

-----------------------------------------------------------------------------
(* The table is a map *)

\* The table holds what the program stored.
TableInv == TableOK(tab, map)

\* A new table is empty.
LEMMA NewIsOK == TableInit => TableInv
<1> SUFFICES ASSUME TableInit PROVE TableInv
  OBVIOUS
<1>1. tab.array = <<>> /\ tab.node = <<>> /\ tab.lastfree = 1 /\ tab = [array |-> <<>>, node |-> <<>>, lastfree |-> 1]
  BY DEF TableInit, luaH_new
<1>2. map = [k \in TableKey |-> Nothing]
  BY DEF TableInit, TableKey
<1>3. tab \in TableRec
  <2>1. <<>> \in Seq(Value) /\ <<>> \in Seq(Node)
    OBVIOUS
  <2> QED BY <1>1, <2>1 DEF TableRec
<1>4. Keyed(tab) = {} /\ Live(tab) = {}
  BY <1>1 DEF Keyed, Live
<1>5. Shape(tab)
  BY <1>1, <1>3 DEF Shape
<1>6. Chains(tab)
  <2>1. Ranks(tab, [i \in DOMAIN tab.node |-> 0])
    BY <1>1 DEF Ranks
  <2>2. \A i, j \in DOMAIN tab.node : tab.node[i].next = tab.node[j].next /\ tab.node[i].next # 0 => i = j
    BY <1>1
  <2> QED BY <1>4, <2>1, <2>2 DEF Chains
<1>7. Content(tab, map)
  BY <1>1, <1>2, <1>4 DEF Content
<1>8. map \in [TableKey -> Value]
  BY <1>2 DEF Value
<1> QED BY <1>5, <1>6, <1>7, <1>8 DEF TableInv, TableOK

\* Each operation keeps the table in order and its content what was stored: an
\* assignment with or without a rebuild, a constructor's room, the collector.
LEMMA TableStep == TableInv /\ [TableNext]_tableVars => TableInv'
<1> SUFFICES ASSUME TableInv, [TableNext]_tableVars PROVE TableInv'
  OBVIOUS
<1>1. TableOK(tab, map)
  BY DEF TableInv
<1> SUFFICES TableOK(tab', map')
  BY DEF TableInv, TableOK, Shape, Chains, Content, TableRec, Keyed, Live, Main, Comes, Closed, Ranks, InArray, mainposition
<1>2. ASSUME NEW k \in Key, NEW v \in Datum \cup {Nothing}, Set(k, v)
      PROVE  TableOK(tab', map')
  <2>1. tab' = luaH_set(tab, k, v) /\ map' = Stored(map, Normal(k), v)
    BY <1>2 DEF Set, Stored
  <2> QED BY <1>1, <2>1, SetKeeps DEF Value
<1>3. ASSUME NEW n \in 1 .. MaxArray, Resize(n)
      PROVE  TableOK(tab', map')
  <2>1. tab' = luaH_resizearray(tab, n) /\ map' = map /\ Len(tab.array) < n
    BY <1>3 DEF Resize
  <2>2. n \in Nat
    BY TableAssumption
  <2> QED BY <1>1, <2>1, <2>2, ResizeArrayKeeps
<1>4. ASSUME NEW i \in DOMAIN tab.node, removeentry(i)
      PROVE  TableOK(tab', map')
  <2>1. /\ tab' = [tab EXCEPT !.node[i].dead = TRUE] /\ map' = map
        /\ tab.node[i].key # Nothing /\ tab.node[i].val = Nothing /\ ~ tab.node[i].dead
    BY <1>4 DEF removeentry
  <2> QED BY <1>1, <2>1, RemoveKeeps
<1>5. CASE next
  BY <1>1, <1>5 DEF next
<1>6. CASE UNCHANGED tableVars
  BY <1>1, <1>6 DEF tableVars
<1> QED BY <1>2, <1>3, <1>4, <1>5, <1>6 DEF TableNext

\* A table in order reads what was stored, and its length is a border.
LEMMA TableReads == TableInv => TableIsAMap
<1> SUFFICES ASSUME TableInv PROVE TableIsAMap
  OBVIOUS
<1>1. TableOK(tab, map) /\ map \in [TableKey -> Value]
  BY DEF TableInv, TableOK
<1>2. ASSUME NEW q \in Key PROVE luaH_get(tab, q) = map[Normal(q)]
  <2>1. PICK k : k = Normal(q)
    OBVIOUS
  <2>2. k \in TableKey /\ k \in AnyKey
    BY <2>1, KeysAreKeys DEF TableKey
  <2>3. Normal(k) = k
    BY <2>2, KeysAreKeys DEF Normal
  <2>4. luaH_get(tab, k) = At(map, k)
    BY <1>1, <2>2, <2>3, GetReads
  <2>5. luaH_get(tab, q) = luaH_get(tab, k)
    BY <2>1, <2>3 DEF luaH_get
  <2> QED BY <1>1, <2>1, <2>2, <2>4, <2>5 DEF At
<1>3. PICK n : n = luaH_getn(tab)
  OBVIOUS
<1>4. n \in Nat /\ (n = 0 \/ At(map, IntKey(n)) # Nothing) /\ At(map, IntKey(n + 1)) = Nothing
  BY <1>1, <1>3, LengthIsABorder
<1>5. luaH_get(tab, IntKey(n)) = At(map, IntKey(n)) /\ luaH_get(tab, IntKey(n + 1)) = At(map, IntKey(n + 1))
  <2>1. n \in Int /\ n + 1 \in Int
    BY <1>4
  <2> QED BY <1>1, <2>1, NumberReads
<1> QED BY <1>2, <1>3, <1>4, <1>5 DEF TableIsAMap

\* For any keys, hashes and values, and any order of assignments, removals,
\* collisions, rebuilds and dead keys: luaH_get returns what was last stored
\* under each key, and luaH_getn a border (luaH_set, luaH_newkey, rehash,
\* luaH_resize, unbound_search).
THEOREM MapKept == TableInit /\ [][TableNext]_tableVars => []TableIsAMap
<1>1. TableInit => TableInv
  BY NewIsOK
<1>2. TableInv /\ [TableNext]_tableVars => TableInv'
  BY TableStep
<1>3. TableInv => TableIsAMap
  BY TableReads
<1> QED BY <1>1, <1>2, <1>3, PTL

-----------------------------------------------------------------------------
(* Where a traversal stands *)

\* The place of a key in a traversal: a cell of the array, or the node a search
\* for it, dead or alive, comes to first.
IsAt(t, k, p) ==
  LET n == Len(t.array)
  IN  \/ p \in 1 .. n /\ k = IntKey(p)
      \/ /\ p \in n + 1 .. n + Len(t.node) /\ k \in TableKey /\ ~ InArray(t, k)
         /\ t.node[p - n].key = k
         /\ \A j \in Keyed(t) : t.node[j].key = k => Comes(t, p - n, j)

\* findindex returns it, also for a key that is dead.
LEMMA IndexFinds ==
  ASSUME NEW t, Shape(t), Chains(t), NEW k, NEW p, IsAt(t, k, p)
  PROVE  k # Nothing /\ findindex(t, k) = p /\ p \in 1 .. Len(t.array) + Len(t.node)
<1>1. PICK n : n = Len(t.array)
  OBVIOUS
<1>2. PICK N : N = Len(t.node)
  OBVIOUS
<1>3. n \in Nat /\ DOMAIN t.array = 1 .. n /\ N \in Nat /\ DOMAIN t.node = 1 .. N
  BY <1>1, <1>2, NodesOfATable
<1>4. CASE p \in 1 .. n /\ k = IntKey(p)
  <2>1. k \in AnyKey /\ k.kind = "int" /\ k.n = p
    BY <1>3, <1>4 DEF IntKey, AnyKey
  <2>2. k # Nothing /\ InArray(t, k)
    BY <1>3, <1>4, <2>1, TableAssumption DEF InArray
  <2>3. findindex(t, k) = p
    BY <2>1, <2>2 DEF findindex
  <2>4. p \in 1 .. n + N
    BY <1>3, <1>4
  <2> QED BY <1>1, <1>2, <2>2, <2>3, <2>4
<1>5. CASE /\ p \in n + 1 .. n + N /\ k \in TableKey /\ ~ InArray(t, k)
           /\ t.node[p - n].key = k
           /\ \A j \in Keyed(t) : t.node[j].key = k => Comes(t, p - n, j)
  <2>1. PICK x : x = p - n
    OBVIOUS
  <2>2. x \in 1 .. N /\ p = n + x
    BY <1>3, <1>5, <2>1
  <2>3. k # Nothing /\ k \in AnyKey /\ x # 0 /\ t.node # <<>>
    BY <1>3, <1>5, <2>2, KeysAreKeys
  <2> DEFINE S == {i \in DOMAIN t.node : t.node[i].key = k}
  <2>4. x \in S /\ S \in SUBSET DOMAIN t.node
    BY <1>3, <1>5, <2>1, <2>2
  <2>5. \A j \in S : Comes(t, x, j)
    BY <1>5, <2>1, <2>3 DEF Keyed
  <2>6. Comes(t, mainposition(t, k), x)
    <3>1. x \in Keyed(t) /\ Main(t, x) = mainposition(t, k)
      BY <2>3, <2>4 DEF Keyed, Main
    <3> QED BY <3>1 DEF Chains
  <2>7. FirstIn(Path(t, k), S) = x
    <3> HIDE DEF S
    <3> QED BY <2>3, <2>4, <2>5, <2>6, SearchFinds
  <2>8. findindex(t, k) = n + x
    BY <1>1, <1>5, <2>3, <2>7 DEF findindex
  <2>9. p \in 1 .. n + N
    BY <1>3, <2>2
  <2> QED BY <1>1, <1>2, <2>2, <2>3, <2>8, <2>9
<1> QED BY <1>1, <1>2, <1>4, <1>5 DEF IsAt

\* What a traversal passes: a key with a value at each place that has one.
LEMMA PresentIsAt ==
  ASSUME NEW t, NEW m, TableOK(t, m), NEW x \in Live(t)
  PROVE  IsAt(t, t.node[x].key, Len(t.array) + x)
<1>1. Shape(t) /\ Chains(t) /\ Content(t, m)
  BY DEF TableOK
<1>2. PICK n : n = Len(t.array)
  OBVIOUS
<1>3. n \in Nat /\ DOMAIN t.node = 1 .. Len(t.node) /\ Len(t.node) \in Nat /\ x \in DOMAIN t.node
  BY <1>1, <1>2, NodesOfATable
<1>4. n + x \in n + 1 .. n + Len(t.node) /\ (n + x) - n = x
  BY <1>3
<1>5. t.node[x].key \in TableKey /\ ~ InArray(t, t.node[x].key)
  BY <1>1, NodesOfATable DEF Content
<1>6. \A j \in Keyed(t) : t.node[j].key = t.node[x].key => Comes(t, x, j)
  BY <1>1 DEF Chains
<1> QED BY <1>2, <1>4, <1>5, <1>6 DEF IsAt

\* The entries luaH_next goes through.
Entries(t) ==
  [j \in 1 .. Len(t.array) + Len(t.node) |->
     IF j <= Len(t.array) THEN Entry(IntKey(j), t.array[j], 0) ELSE t.node[j - Len(t.array)]]

\* Each entry with a value is in its place, and each key with a value has one.
LEMMA EntriesAreAt ==
  ASSUME NEW t, NEW m, TableOK(t, m)
  PROVE  /\ \A j \in DOMAIN Entries(t) : Entries(t)[j].val # Nothing =>
              IsAt(t, Entries(t)[j].key, j) /\ Entries(t)[j].key \in TableKey
         /\ \A k \in TableKey : m[k] # Nothing =>
              \E j \in DOMAIN Entries(t) : Entries(t)[j].key = k /\ Entries(t)[j].val # Nothing
<1>1. Shape(t) /\ Chains(t) /\ Content(t, m) /\ m \in [TableKey -> Value]
  BY DEF TableOK
<1>2. PICK n : n = Len(t.array)
  OBVIOUS
<1>3. PICK N : N = Len(t.node)
  OBVIOUS
<1>4. n \in Nat /\ DOMAIN t.array = 1 .. n /\ N \in Nat /\ DOMAIN t.node = 1 .. N
  BY <1>1, <1>2, <1>3, NodesOfATable
<1>5. PICK e : e = Entries(t)
  OBVIOUS
<1>6. e = [j \in 1 .. n + N |-> IF j <= n THEN Entry(IntKey(j), t.array[j], 0) ELSE t.node[j - n]]
  BY <1>2, <1>3, <1>5 DEF Entries
<1>7. ASSUME NEW j \in 1 .. n + N, e[j].val # Nothing
      PROVE  IsAt(t, e[j].key, j) /\ e[j].key \in TableKey
  <2>1. CASE j <= n
    <3>1. j \in 1 .. n
      BY <1>4, <2>1
    <3>2. e[j].key = IntKey(j) /\ e[j].val = t.array[j]
      BY <1>6, <2>1 DEF Entry
    <3>3. t.array[j] = At(m, IntKey(j))
      BY <1>1, <1>4, <3>1 DEF Content
    <3> QED BY <1>1, <1>2, <1>7, <3>1, <3>2, <3>3 DEF IsAt, At
  <2>2. CASE ~ (j <= n)
    <3>1. PICK x : x = j - n
      OBVIOUS
    <3>2. x \in 1 .. N /\ j = n + x
      BY <1>4, <2>2, <3>1
    <3>3. e[j] = t.node[x]
      BY <1>6, <2>2, <3>1
    <3>4. x \in Live(t)
      BY <1>1, <1>4, <1>7, <3>2, <3>3 DEF Shape, Live, Keyed
    <3>5. IsAt(t, t.node[x].key, n + x)
      BY <1>2, <3>4, PresentIsAt
    <3>6. t.node[x].key \in TableKey
      BY <1>1, <3>4, NodesOfATable
    <3> QED BY <3>2, <3>3, <3>5, <3>6
  <2> QED BY <2>1, <2>2
<1>8. ASSUME NEW k \in TableKey, m[k] # Nothing
      PROVE  \E j \in 1 .. n + N : e[j].key = k /\ e[j].val # Nothing
  <2>1. CASE InArray(t, k)
    <3>1. PICK j : j = k.n
      OBVIOUS
    <3>2. j \in 1 .. n /\ k = IntKey(j)
      BY <1>4, <2>1, <3>1, KeysAreKeys DEF InArray
    <3>3. t.array[j] = m[k]
      BY <1>1, <1>4, <3>2 DEF Content, At
    <3>4. j \in 1 .. n + N /\ j <= n
      BY <1>4, <3>2
    <3>5. e[j].key = k /\ e[j].val = t.array[j]
      BY <1>6, <3>2, <3>4 DEF Entry
    <3> QED BY <1>8, <3>3, <3>4, <3>5
  <2>2. CASE ~ InArray(t, k)
    <3>1. PICK x \in Live(t) : t.node[x].key = k
      BY <1>1, <1>8, <2>2 DEF Content
    <3>2. x \in 1 .. N /\ t.node[x].val = m[k]
      BY <1>1, <1>4, <3>1, NodesOfATable DEF Content
    <3>3. PICK j : j = n + x
      OBVIOUS
    <3>4. j \in 1 .. n + N /\ ~ (j <= n) /\ j - n = x
      BY <1>4, <3>2, <3>3
    <3>5. e[j] = t.node[x]
      BY <1>6, <3>4
    <3> QED BY <1>8, <3>1, <3>2, <3>4, <3>5
  <2> QED BY <2>1, <2>2
<1>9. DOMAIN e = 1 .. n + N
  BY <1>6
<1> QED BY <1>5, <1>7, <1>8, <1>9

\* luaH_next comes to the first place behind i with a value.
LEMMA NextComes ==
  ASSUME NEW t, NEW m, TableOK(t, m), NEW i \in Nat
  PROVE  \/ /\ luaH_next(t, i) = Nothing
            /\ \A j \in DOMAIN Entries(t) : j > i => Entries(t)[j].val = Nothing
         \/ \E j \in DOMAIN Entries(t) :
              /\ j > i /\ luaH_next(t, i) = Entries(t)[j].key /\ Entries(t)[j].val # Nothing
              /\ \A h \in DOMAIN Entries(t) : h > i /\ Entries(t)[h].val # Nothing => j <= h
<1>1. PICK e : e = Entries(t)
  OBVIOUS
<1> DEFINE rest == {j \in DOMAIN e : j > i /\ e[j].val # Nothing}
<1>2. luaH_next(t, i) = IF rest = {} THEN Nothing ELSE e[CHOOSE j \in rest : \A h \in rest : j <= h].key
  BY <1>1 DEF luaH_next, Entries
<1>3. CASE rest = {}
  BY <1>1, <1>2, <1>3
<1>4. CASE rest # {}
  <2>1. rest \in SUBSET Nat
    <3> HIDE DEF rest
    <3>1. Shape(t)
      BY DEF TableOK
    <3>2. Len(t.array) \in Nat /\ Len(t.node) \in Nat
      BY <3>1, NodesOfATable
    <3>3. PICK a \in Nat : a = Len(t.array)
      BY <3>2
    <3>4. PICK b \in Nat : b = Len(t.node)
      BY <3>2
    <3>5. DOMAIN e = 1 .. a + b
      BY <1>1, <3>3, <3>4 DEF Entries
    <3>6. \A j \in 1 .. a + b : j \in Nat
      OBVIOUS
    <3> QED BY <3>5, <3>6 DEF rest
  <2>2. \E j \in rest : \A h \in rest : j <= h
    <3> HIDE DEF rest
    <3> QED BY <1>4, <2>1, LeastNumber
  <2>3. PICK j : j = CHOOSE l \in rest : \A h \in rest : l <= h
    OBVIOUS
  <2>4. j \in rest /\ \A h \in rest : j <= h
    <3> HIDE DEF rest
    <3> QED BY <2>2, <2>3
  <2>5. luaH_next(t, i) = e[j].key
    BY <1>2, <1>4, <2>3
  <2> QED BY <1>1, <2>4, <2>5
<1> QED BY <1>3, <1>4

\* Assignments to what is there, and the collector, move nothing.
StandsStill(t, s) ==
  /\ SameLinks(t, s) /\ DOMAIN s.array = DOMAIN t.array /\ Len(s.array) = Len(t.array)
  /\ \A i \in DOMAIN t.node : s.node[i].key = t.node[i].key

\* Then a key is where it was.
LEMMA PlacesStand ==
  ASSUME NEW t, NEW s, StandsStill(t, s), Shape(t), NEW k, NEW p, IsAt(t, k, p)
  PROVE  IsAt(s, k, p)
<1>1. PICK n : n = Len(t.array) /\ n = Len(s.array)
  BY DEF StandsStill
<1>2. PICK N : N = Len(t.node) /\ N = Len(s.node)
  BY DEF StandsStill, SameLinks
<1>3. n \in Nat /\ N \in Nat /\ DOMAIN t.node = 1 .. N
  BY <1>1, <1>2, NodesOfATable
<1>4. CASE p \in 1 .. n /\ k = IntKey(p)
  BY <1>1, <1>4 DEF IsAt
<1>5. CASE /\ p \in n + 1 .. n + N /\ k \in TableKey /\ ~ InArray(t, k)
           /\ t.node[p - n].key = k
           /\ \A j \in Keyed(t) : t.node[j].key = k => Comes(t, p - n, j)
  <2>1. ~ InArray(s, k)
    BY <1>5 DEF InArray, StandsStill
  <2>2. p - n \in DOMAIN t.node
    BY <1>3, <1>5
  <2>3. s.node[p - n].key = k
    BY <1>5, <2>2 DEF StandsStill
  <2>4. Keyed(s) = Keyed(t)
    BY DEF StandsStill, SameLinks, Keyed
  <2>5. \A a, b : Comes(s, a, b) <=> Comes(t, a, b)
    BY SameChains DEF StandsStill
  <2>6. \A j \in Keyed(s) : s.node[j].key = k => Comes(s, p - n, j)
    BY <1>5, <2>4, <2>5 DEF StandsStill, Keyed
  <2> QED BY <1>1, <1>2, <1>5, <2>1, <2>3, <2>6 DEF IsAt
<1> QED BY <1>1, <1>2, <1>4, <1>5 DEF IsAt

\* An assignment to a key with a value needs no new node.
LEMMA SetMovesNothing ==
  ASSUME NEW t, NEW m, TableOK(t, m), NEW q \in Key, NEW v \in Value, m[Normal(q)] # Nothing
  PROVE  StandsStill(t, luaH_set(t, q, v))
<1>1. Shape(t) /\ Chains(t) /\ Content(t, m) /\ t \in TableRec
  BY DEF TableOK, Shape
<1>2. PICK k : k = Normal(q)
  OBVIOUS
<1>3. k \in TableKey /\ k \in AnyKey
  BY <1>2, KeysAreKeys DEF TableKey
<1>4. PICK s : s = luaH_set(t, q, v)
  OBVIOUS
<1>5. CASE InArray(t, k)
  <2>1. s = [t EXCEPT !.array[k.n] = v]
    BY <1>2, <1>4, <1>5 DEF luaH_set, Place
  <2>2. s.node = t.node /\ s.array = [t.array EXCEPT ![k.n] = v]
    BY <1>1, <2>1 DEF TableRec
  <2>3. DOMAIN s.array = DOMAIN t.array /\ Len(s.array) = Len(t.array)
    BY <1>1, <2>2, NodesOfATable
  <2> QED BY <1>4, <2>2, <2>3 DEF StandsStill, SameLinks
<1>6. CASE ~ InArray(t, k)
  <2>1. PICK x : x = NodeOf(t, k)
    OBVIOUS
  <2>2. x # 0 /\ x \in Live(t)
    <3>1. \E i \in Live(t) : t.node[i].key = k
      BY <1>1, <1>2, <1>3, <1>6 DEF Content
    <3> QED BY <1>1, <1>3, <2>1, <3>1, NodeIsFound
  <2>3. s = [t EXCEPT !.node[x].val = v]
    BY <1>2, <1>4, <1>6, <2>1, <2>2 DEF luaH_set, Place
  <2>4. PICK w : w = [t.node[x] EXCEPT !.val = v]
    OBVIOUS
  <2>5. s.array = t.array /\ s.node = [t.node EXCEPT ![x] = w]
    BY <1>1, <2>3, <2>4 DEF TableRec
  <2>6. x \in DOMAIN t.node /\ t.node[x] \in Node
    BY <1>1, <2>2, NodesOfATable
  <2>7. w \in Node /\ w.key = t.node[x].key /\ w.next = t.node[x].next
    BY <2>4, <2>6 DEF Node
  <2>8. DOMAIN s.node = DOMAIN t.node /\ Len(s.node) = Len(t.node)
    BY <1>1, <2>5, <2>6, <2>7, NodesOfATable
  <2>9. \A i \in DOMAIN t.node : s.node[i].next = t.node[i].next /\ s.node[i].key = t.node[i].key
    BY <2>5, <2>6, <2>7
  <2> QED BY <1>4, <2>5, <2>8, <2>9 DEF StandsStill, SameLinks
<1> QED BY <1>5, <1>6

\* A key that the collector marks as dead keeps its node.
LEMMA RemoveMovesNothing ==
  ASSUME NEW t, Shape(t), NEW x \in DOMAIN t.node
  PROVE  StandsStill(t, [t EXCEPT !.node[x].dead = TRUE])
<1>1. t \in TableRec /\ t.node[x] \in Node
  BY NodesOfATable DEF Shape
<1>2. PICK s : s = [t EXCEPT !.node[x].dead = TRUE]
  OBVIOUS
<1>3. PICK w : w = [t.node[x] EXCEPT !.dead = TRUE]
  OBVIOUS
<1>4. s.array = t.array /\ s.node = [t.node EXCEPT ![x] = w]
  BY <1>1, <1>2, <1>3 DEF TableRec
<1>5. w \in Node /\ w.key = t.node[x].key /\ w.next = t.node[x].next
  BY <1>1, <1>3 DEF Node
<1>6. DOMAIN s.node = DOMAIN t.node /\ Len(s.node) = Len(t.node)
  BY <1>4, <1>5, NodesOfATable
<1>7. \A i \in DOMAIN t.node : s.node[i].next = t.node[i].next /\ s.node[i].key = t.node[i].key
  BY <1>4, <1>5
<1> QED BY <1>2, <1>4, <1>6, <1>7 DEF StandsStill, SameLinks

\* A traversal under way: what it has seen lies in order, the last where it
\* stands, and what stays and was not seen lies behind that.
GoingOn(t, m, w) ==
  /\ w.seen \in Seq(TableKey) /\ w.seen # <<>> /\ w.at = w.seen[Len(w.seen)]
  /\ w.stays \subseteq TableKey
  /\ \E pos \in [1 .. Len(w.seen) -> Nat] :
       /\ \A i \in 1 .. Len(w.seen) : IsAt(t, w.seen[i], pos[i])
       /\ \A i, j \in 1 .. Len(w.seen) : i < j => pos[i] < pos[j]
       /\ \A k \in w.stays : /\ m[k] # Nothing
                             /\ \/ \E i \in 1 .. Len(w.seen) : k = w.seen[i]
                                \/ \E p \in Nat : IsAt(t, k, p) /\ p > pos[Len(w.seen)]

\* Nothing was seen twice.
Distinct(seen) == \A i, j \in DOMAIN seen : seen[i] = seen[j] => i = j

WalkRec == [stands : Standing, at : TableKey \cup {Nothing}, stays : SUBSET TableKey, seen : Seq(TableKey)]

\* A traversal is not begun, under way, or complete; it never loses its place.
WalkInv ==
  /\ walk \in WalkRec
  /\ \/ walk = NoWalk
     \/ walk.stands = "going" /\ GoingOn(tab, map, walk)
     \/ walk.stands = "ended" /\ Distinct(walk.seen) /\ walk.stays \subseteq Range(walk.seen)

\* What lies in order was seen once.
LEMMA SeenOnce ==
  ASSUME NEW t, Shape(t), Chains(t), NEW m, NEW w, GoingOn(t, m, w)
  PROVE  Distinct(w.seen)
<1> SUFFICES ASSUME NEW i \in DOMAIN w.seen, NEW j \in DOMAIN w.seen, w.seen[i] = w.seen[j]
             PROVE  i = j
  BY DEF Distinct
<1>1. DOMAIN w.seen = 1 .. Len(w.seen) /\ Len(w.seen) \in Nat
  BY DEF GoingOn
<1>2. PICK pos \in [1 .. Len(w.seen) -> Nat] :
        /\ \A x \in 1 .. Len(w.seen) : IsAt(t, w.seen[x], pos[x])
        /\ \A x, y \in 1 .. Len(w.seen) : x < y => pos[x] < pos[y]
  BY DEF GoingOn
<1>3. findindex(t, w.seen[i]) = pos[i] /\ findindex(t, w.seen[j]) = pos[j]
  BY <1>1, <1>2, IndexFinds
<1>4. pos[i] = pos[j] /\ pos[i] \in Nat
  BY <1>1, <1>2, <1>3
<1>5. ~ (i < j) /\ ~ (j < i)
  BY <1>1, <1>2, <1>4
<1>6. i \in Nat /\ j \in Nat
  BY <1>1
<1> QED BY <1>5, <1>6

\* A table that moves nothing keeps the traversal going.
LEMMA GoesOn ==
  ASSUME NEW t, Shape(t), NEW s, StandsStill(t, s), NEW m, NEW m2, NEW w, NEW w2,
         GoingOn(t, m, w), w2.seen = w.seen, w2.at = w.at, w2.stays \subseteq w.stays,
         \A k \in w2.stays : m2[k] # Nothing
  PROVE  GoingOn(s, m2, w2)
<1>1. PICK pos \in [1 .. Len(w.seen) -> Nat] :
        /\ \A i \in 1 .. Len(w.seen) : IsAt(t, w.seen[i], pos[i])
        /\ \A i, j \in 1 .. Len(w.seen) : i < j => pos[i] < pos[j]
        /\ \A k \in w.stays : /\ m[k] # Nothing
                              /\ \/ \E i \in 1 .. Len(w.seen) : k = w.seen[i]
                                 \/ \E p \in Nat : IsAt(t, k, p) /\ p > pos[Len(w.seen)]
  BY DEF GoingOn
<1>2. \A i \in 1 .. Len(w.seen) : IsAt(s, w.seen[i], pos[i])
  BY <1>1, PlacesStand
<1>3. ASSUME NEW k \in w2.stays
      PROVE  /\ m2[k] # Nothing
             /\ \/ \E i \in 1 .. Len(w.seen) : k = w.seen[i]
                \/ \E p \in Nat : IsAt(s, k, p) /\ p > pos[Len(w.seen)]
  <2>1. k \in w.stays
    OBVIOUS
  <2>2. CASE \E i \in 1 .. Len(w.seen) : k = w.seen[i]
    BY <2>2
  <2>3. CASE \E p \in Nat : IsAt(t, k, p) /\ p > pos[Len(w.seen)]
    BY <2>3, PlacesStand
  <2> QED BY <1>1, <2>1, <2>2, <2>3
<1>4. w2.seen \in Seq(TableKey) /\ w2.seen # <<>> /\ w2.at = w2.seen[Len(w2.seen)] /\ w2.stays \subseteq TableKey
  BY DEF GoingOn
<1>5. Len(w2.seen) = Len(w.seen)
  OBVIOUS
<1> QED BY <1>1, <1>2, <1>3, <1>4, <1>5 DEF GoingOn

\* lua_next, on: the traversal stands at `last', 0 before the first.
LEMMA NextGoesOn ==
  ASSUME TableInv, NEW last \in Nat, NEW w, w.seen \in Seq(TableKey), w.stays \subseteq TableKey,
         NEW pos \in [1 .. Len(w.seen) -> Nat],
         \A i \in 1 .. Len(w.seen) : IsAt(tab, w.seen[i], pos[i]) /\ pos[i] <= last,
         \A i, j \in 1 .. Len(w.seen) : i < j => pos[i] < pos[j],
         \A k \in w.stays : /\ map[k] # Nothing
                            /\ \/ \E i \in 1 .. Len(w.seen) : k = w.seen[i]
                               \/ \E p \in Nat : IsAt(tab, k, p) /\ p > last
  PROVE  LET k == luaH_next(tab, last)
         IN  /\ k = Nothing => w.stays \subseteq Range(w.seen)
             /\ k # Nothing => /\ k \in TableKey
                               /\ \A x : x.seen = Append(w.seen, k) /\ x.at = k /\ x.stays = w.stays => GoingOn(tab, map, x)
<1>1. TableOK(tab, map) /\ Shape(tab) /\ Chains(tab)
  BY DEF TableInv, TableOK
<1>2. PICK e : e = Entries(tab)
  OBVIOUS
<1>3. DOMAIN e \subseteq Nat
  <2>1. Len(tab.array) \in Nat /\ Len(tab.node) \in Nat
    BY <1>1, NodesOfATable
  <2>2. PICK a \in Nat : a = Len(tab.array)
    BY <2>1
  <2>3. PICK b \in Nat : b = Len(tab.node)
    BY <2>1
  <2>4. DOMAIN e = 1 .. a + b
    BY <1>2, <2>2, <2>3 DEF Entries
  <2>5. \A j \in 1 .. a + b : j \in Nat
    OBVIOUS
  <2> QED BY <2>4, <2>5
<1>4. PICK k : k = luaH_next(tab, last)
  OBVIOUS
\* What stays and was not seen is an entry with a value behind the last.
<1>5. ASSUME NEW q \in w.stays, ~ \E i \in 1 .. Len(w.seen) : q = w.seen[i]
      PROVE  \E h \in DOMAIN e : h > last /\ e[h].val # Nothing /\ e[h].key = q /\ IsAt(tab, q, h)
  <2>1. PICK p \in Nat : IsAt(tab, q, p) /\ p > last
    BY <1>5
  <2>2. PICK h \in DOMAIN e : e[h].key = q /\ e[h].val # Nothing
    BY <1>1, <1>2, EntriesAreAt
  <2>3. IsAt(tab, q, h)
    BY <1>1, <1>2, <2>2, EntriesAreAt
  <2>4. h = p
    <3>1. findindex(tab, q) = h
      BY <1>1, <2>3, IndexFinds
    <3>2. findindex(tab, q) = p
      BY <1>1, <2>1, IndexFinds
    <3> QED BY <3>1, <3>2
  <2> QED BY <2>1, <2>2, <2>3, <2>4
<1>6. \A q \in w.stays : (~ \E i \in 1 .. Len(w.seen) : q = w.seen[i]) =>
        \E h \in DOMAIN e : h > last /\ e[h].val # Nothing /\ e[h].key = q /\ IsAt(tab, q, h)
  BY <1>5
<1>7. Nothing \notin TableKey
  BY KeysAreKeys
<1>8. CASE k = Nothing /\ \A j \in DOMAIN e : j > last => e[j].val = Nothing
  <2>1. \A q \in w.stays : \E i \in 1 .. Len(w.seen) : q = w.seen[i]
    BY <1>6, <1>8
  <2>2. DOMAIN w.seen = 1 .. Len(w.seen)
    OBVIOUS
  <2>3. \A q \in w.stays : q \in Range(w.seen)
    BY <2>1, <2>2 DEF Range
  <2> QED BY <1>4, <1>8, <2>3
<1>9. CASE \E j \in DOMAIN e : /\ j > last /\ k = e[j].key /\ e[j].val # Nothing
                               /\ \A h \in DOMAIN e : h > last /\ e[h].val # Nothing => j <= h
  <2>1. PICK j \in DOMAIN e : /\ j > last /\ k = e[j].key /\ e[j].val # Nothing
                              /\ \A h \in DOMAIN e : h > last /\ e[h].val # Nothing => j <= h
    BY <1>9
  <2>2. IsAt(tab, k, j) /\ k \in TableKey /\ k # Nothing /\ j \in Nat
    BY <1>1, <1>2, <1>3, <1>7, <2>1, EntriesAreAt
  <2>3. PICK L : L = Len(w.seen)
    OBVIOUS
  <2>4. L \in Nat /\ DOMAIN w.seen = 1 .. L
    BY <2>3
  <2>5. PICK seen : seen = Append(w.seen, k)
    OBVIOUS
  <2>6. /\ seen \in Seq(TableKey) /\ Len(seen) = L + 1 /\ seen[L + 1] = k /\ seen # <<>>
        /\ \A i \in 1 .. L : seen[i] = w.seen[i]
    BY <2>2, <2>3, <2>5
  <2>7. PICK at : at = [i \in 1 .. L + 1 |-> IF i = L + 1 THEN j ELSE pos[i]]
    OBVIOUS
  <2>8. /\ at \in [1 .. L + 1 -> Nat] /\ at[L + 1] = j /\ \A i \in 1 .. L : at[i] = pos[i]
    <3>1. \A i \in 1 .. L : i # L + 1 /\ i \in 1 .. L + 1 /\ pos[i] \in Nat
      BY <2>3, <2>4
    <3>2. L + 1 \in 1 .. L + 1 /\ \A i \in 1 .. L + 1 : i # L + 1 => i \in 1 .. L
      BY <2>4
    <3> QED BY <2>2, <2>7, <3>1, <3>2
  <2>9. \A i \in 1 .. L + 1 : i = L + 1 \/ i \in 1 .. L
    BY <2>4
  <2>10. \A i \in 1 .. L + 1 : IsAt(tab, seen[i], at[i])
    BY <2>2, <2>3, <2>6, <2>8, <2>9
  <2>11. ASSUME NEW a \in 1 .. L + 1, NEW b \in 1 .. L + 1, a < b PROVE at[a] < at[b]
    <3>1. a \in 1 .. L
      BY <2>4, <2>11
    <3>2. CASE b \in 1 .. L
      BY <2>3, <2>8, <2>11, <3>1, <3>2
    <3>3. CASE b = L + 1
      <4>1. pos[a] <= last /\ pos[a] \in Nat /\ at[a] = pos[a]
        BY <2>3, <2>8, <3>1
      <4> QED BY <2>1, <2>2, <2>8, <3>3, <4>1
    <3> QED BY <2>9, <3>2, <3>3
  <2>12. ASSUME NEW q \in w.stays
         PROVE  /\ map[q] # Nothing
                /\ \/ \E i \in 1 .. L + 1 : q = seen[i]
                   \/ \E p \in Nat : IsAt(tab, q, p) /\ p > at[L + 1]
    <3>1. CASE \E i \in 1 .. L : q = w.seen[i]
      <4>1. PICK i \in 1 .. L : q = w.seen[i]
        BY <3>1
      <4>2. i \in 1 .. L + 1 /\ q = seen[i]
        BY <2>4, <2>6, <4>1
      <4> QED BY <4>2
    <3>2. CASE ~ \E i \in 1 .. L : q = w.seen[i]
      <4>1. PICK h \in DOMAIN e : h > last /\ e[h].val # Nothing /\ e[h].key = q /\ IsAt(tab, q, h)
        BY <1>6, <2>3, <3>2
      <4>2. j <= h /\ h \in Nat
        BY <1>3, <2>1, <4>1
      <4>3. CASE h = j
        <5>1. q = seen[L + 1] /\ L + 1 \in 1 .. L + 1
          BY <2>1, <2>4, <2>6, <4>1, <4>3
        <5> QED BY <5>1
      <4>4. CASE h # j
        <5>1. h > at[L + 1]
          BY <2>2, <2>8, <4>2, <4>4
        <5> QED BY <4>1, <4>2, <5>1
      <4> QED BY <4>3, <4>4
    <3> QED BY <3>1, <3>2
  <2>13. ASSUME NEW x, x.seen = seen, x.at = k, x.stays = w.stays
         PROVE  GoingOn(tab, map, x)
    <3>1. \A a, b \in 1 .. L + 1 : a < b => at[a] < at[b]
      BY <2>11
    <3>2. \A q \in x.stays : /\ map[q] # Nothing
                              /\ \/ \E i \in 1 .. L + 1 : q = seen[i]
                                 \/ \E p \in Nat : IsAt(tab, q, p) /\ p > at[L + 1]
      BY <2>12, <2>13
    <3>3. Len(x.seen) = L + 1 /\ x.seen \in Seq(TableKey) /\ x.seen # <<>>
          /\ x.at = x.seen[L + 1] /\ x.stays \subseteq TableKey
      BY <2>6, <2>13
    <3> QED BY <2>8, <2>10, <2>13, <3>1, <3>2, <3>3 DEF GoingOn
  <2> QED BY <1>4, <2>2, <2>5, <2>13
<1> QED BY <1>1, <1>2, <1>4, <1>8, <1>9, NextComes

\* lua_next begins, or goes on from the key it came to last.
LEMMA NextWalks == TableInv /\ WalkInv /\ next => WalkInv'
<1> SUFFICES ASSUME TableInv, WalkInv, next PROVE WalkInv'
  OBVIOUS
<1>1. TableOK(tab, map) /\ Shape(tab) /\ Chains(tab) /\ map \in [TableKey -> Value]
  BY DEF TableInv, TableOK
<1>2. PICK i : i = IF Walking THEN findindex(tab, walk.at) ELSE 0
  OBVIOUS
<1>3. PICK k : k = luaH_next(tab, i)
  OBVIOUS
<1>4. PICK w : w = IF Walking THEN walk ELSE [NoWalk EXCEPT !.stays = Present]
  OBVIOUS
<1>5. /\ walk' = IF i = -1 THEN [w EXCEPT !.stands = "invalid key to 'next'"]
                  ELSE IF k = Nothing THEN [w EXCEPT !.stands = "ended"]
                  ELSE [w EXCEPT !.stands = "going", !.at = k, !.seen = Append(@, k)]
      /\ tab' = tab /\ map' = map
  BY <1>2, <1>3, <1>4 DEF next
<1>6. w \in WalkRec
  <2>1. CASE Walking
    BY <1>4, <2>1 DEF WalkInv
  <2>2. CASE ~ Walking
    <3>1. Present \subseteq TableKey
      BY <1>1 DEF Present
    <3>2. w = [stands |-> "none", at |-> Nothing, stays |-> Present, seen |-> <<>>]
      BY <1>4, <2>2 DEF NoWalk
    <3>3. <<>> \in Seq(TableKey)
      OBVIOUS
    <3> QED BY <3>1, <3>2, <3>3 DEF WalkRec, Standing
  <2> QED BY <2>1, <2>2
<1>7. i \in Nat /\ \E pos \in [1 .. Len(w.seen) -> Nat] :
        /\ \A x \in 1 .. Len(w.seen) : IsAt(tab, w.seen[x], pos[x]) /\ pos[x] <= i
        /\ \A x, y \in 1 .. Len(w.seen) : x < y => pos[x] < pos[y]
        /\ \A q \in w.stays : /\ map[q] # Nothing
                              /\ \/ \E x \in 1 .. Len(w.seen) : q = w.seen[x]
                                 \/ \E p \in Nat : IsAt(tab, q, p) /\ p > i
  <2>1. CASE Walking
    <3>1. w = walk /\ GoingOn(tab, map, walk)
      BY <1>4, <2>1 DEF WalkInv, Walking, NoWalk
    <3>2. PICK L : L = Len(walk.seen)
      OBVIOUS
    <3>3. PICK pos \in [1 .. L -> Nat] :
            /\ \A x \in 1 .. L : IsAt(tab, walk.seen[x], pos[x])
            /\ \A x, y \in 1 .. L : x < y => pos[x] < pos[y]
            /\ \A q \in walk.stays : /\ map[q] # Nothing
                                     /\ \/ \E x \in 1 .. L : q = walk.seen[x]
                                        \/ \E p \in Nat : IsAt(tab, q, p) /\ p > pos[L]
      BY <3>1, <3>2 DEF GoingOn
    <3>4. L \in Nat /\ L > 0 /\ walk.at = walk.seen[L]
      BY <3>1, <3>2 DEF GoingOn
    <3>5. L \in 1 .. L
      BY <3>4
    <3>6. i = pos[L] /\ i \in Nat
      <4>1. IsAt(tab, walk.at, pos[L]) /\ pos[L] \in Nat
        BY <3>3, <3>4, <3>5
      <4>2. findindex(tab, walk.at) = pos[L]
        BY <1>1, <4>1, IndexFinds
      <4>3. i = findindex(tab, walk.at)
        BY <1>2, <2>1
      <4> QED BY <4>1, <4>2, <4>3
    <3>7. ASSUME NEW x \in 1 .. L PROVE pos[x] <= i
      <4>1. x = L \/ x < L
        BY <3>4
      <4>2. pos[x] \in Nat
        BY <3>3
      <4> QED BY <3>3, <3>5, <3>6, <4>1, <4>2
    <3> QED BY <3>1, <3>2, <3>3, <3>6, <3>7
  <2>2. CASE ~ Walking
    <3>1. w.stays = Present /\ w.seen = <<>> /\ i = 0
      BY <1>2, <1>4, <2>2 DEF NoWalk
    <3>2. ASSUME NEW q \in Present
          PROVE  map[q] # Nothing /\ \E p \in Nat : IsAt(tab, q, p) /\ p > 0
      <4>1. q \in TableKey /\ map[q] # Nothing
        BY <1>1 DEF Present
      <4>2. PICK h \in DOMAIN Entries(tab) : IsAt(tab, q, h)
        BY <1>1, <4>1, EntriesAreAt
      <4>3. h \in 1 .. Len(tab.array) + Len(tab.node)
        BY <1>1, <4>2, IndexFinds
      <4>4. h \in Nat /\ h > 0
        BY <1>1, <4>3, NodesOfATable
      <4> QED BY <4>1, <4>2, <4>4
    <3>3. Len(w.seen) = 0 /\ 1 .. 0 = {}
      BY <3>1
    <3>4. [x \in 1 .. 0 |-> 0] \in [1 .. 0 -> Nat]
      OBVIOUS
    <3> QED BY <3>1, <3>2, <3>3, <3>4
  <2> QED BY <2>1, <2>2
<1>8. w.seen \in Seq(TableKey) /\ w.stays \subseteq TableKey
  BY <1>6 DEF WalkRec
<1>9. /\ k = Nothing => w.stays \subseteq Range(w.seen)
      /\ k # Nothing => /\ k \in TableKey
                        /\ \A x : x.seen = Append(w.seen, k) /\ x.at = k /\ x.stays = w.stays => GoingOn(tab, map, x)
  BY <1>3, <1>7, <1>8, NextGoesOn
<1>10. i # -1
  BY <1>7
<1>11. CASE k = Nothing
  <2>1. walk' = [w EXCEPT !.stands = "ended"]
    BY <1>5, <1>10, <1>11
  <2>2. walk'.stands = "ended" /\ walk'.seen = w.seen /\ walk'.stays = w.stays /\ walk' \in WalkRec
    BY <1>6, <2>1 DEF WalkRec, Standing
  <2>3. Distinct(w.seen)
    <3>1. CASE Walking
      BY <1>1, <1>4, <3>1, SeenOnce DEF WalkInv, Walking, NoWalk
    <3>2. CASE ~ Walking
      BY <1>4, <3>2 DEF NoWalk, Distinct
    <3> QED BY <3>1, <3>2
  <2>4. walk'.stays \subseteq Range(walk'.seen) /\ Distinct(walk'.seen)
    BY <1>9, <1>11, <2>2, <2>3
  <2> QED BY <2>2, <2>4 DEF WalkInv, Distinct, Range
<1>12. CASE k # Nothing
  <2>1. walk' = [w EXCEPT !.stands = "going", !.at = k, !.seen = Append(@, k)]
    BY <1>5, <1>10, <1>12
  <2>2. PICK x : x = walk'
    OBVIOUS
  <2>3. /\ x.stands = "going" /\ x.seen = Append(w.seen, k) /\ x.stays = w.stays
        /\ x.at = k
    BY <1>6, <2>1, <2>2 DEF WalkRec
  <2>4. x \in WalkRec
    <3>1. Append(w.seen, k) \in Seq(TableKey) /\ k \in TableKey
      BY <1>8, <1>9, <1>12
    <3> QED BY <1>6, <2>1, <2>2, <3>1 DEF WalkRec, Standing
  <2>5. GoingOn(tab, map, x)
    BY <1>9, <1>12, <2>3
  <2>6. GoingOn(tab', map', walk')
    BY <1>5, <2>2, <2>5
  <2> QED BY <2>2, <2>3, <2>4, <2>6 DEF WalkInv, GoingOn, IsAt, Keyed, InArray, Comes, Closed
<1> QED BY <1>11, <1>12

\* No operation throws a traversal off: what may happen during one moves no key.
LEMMA WalkStep == TableInv /\ WalkInv /\ [TableNext]_tableVars => WalkInv'
<1> SUFFICES ASSUME TableInv, WalkInv, [TableNext]_tableVars PROVE WalkInv'
  OBVIOUS
<1>1. TableOK(tab, map) /\ Shape(tab) /\ Chains(tab) /\ map \in [TableKey -> Value]
  BY DEF TableInv, TableOK
<1>2. NoWalk \in WalkRec
  <2>1. <<>> \in Seq(TableKey)
    OBVIOUS
  <2> QED BY <2>1 DEF NoWalk, WalkRec, Standing
\* What is left to show of a step that leaves the traversal where it is.
<1>3. ASSUME StandsStill(tab, tab'), walk'.seen = walk.seen, walk'.at = walk.at,
             walk'.stands = walk.stands, walk' \in WalkRec, walk'.stays \subseteq walk.stays,
             \A k \in walk'.stays : map[k] # Nothing => map'[k] # Nothing,
             walk.stands = "going"
      PROVE  WalkInv'
  <2>1. GoingOn(tab, map, walk)
    BY <1>3 DEF WalkInv, NoWalk
  <2>2. \A k \in walk.stays : map[k] # Nothing
    BY <2>1 DEF GoingOn
  <2>3. GoingOn(tab', map', walk')
    BY <1>1, <1>3, <2>1, <2>2, GoesOn
  <2> QED BY <1>3, <2>3 DEF WalkInv, GoingOn, IsAt, Keyed, InArray, Comes, Closed
<1>4. ASSUME walk' = NoWalk PROVE WalkInv'
  BY <1>2, <1>4 DEF WalkInv
<1>5. ASSUME walk' = walk, walk.stands # "going" PROVE WalkInv'
  BY <1>5 DEF WalkInv, Distinct, Range, NoWalk
<1>6. ASSUME NEW q \in Key, NEW v \in Datum \cup {Nothing}, Set(q, v)
      PROVE  WalkInv'
  <2>1. PICK k : k = Normal(q)
    OBVIOUS
  <2>2. /\ tab' = luaH_set(tab, q, v) /\ map' = [map EXCEPT ![k] = v]
        /\ Walking => map[k] # Nothing
        /\ walk' = IF ~Walking THEN NoWalk
                   ELSE IF v = Nothing THEN [walk EXCEPT !.stays = @ \ {k}] ELSE walk
    BY <1>6, <2>1 DEF Set
  <2>3. CASE ~ Walking
    BY <1>4, <2>2, <2>3
  <2>4. CASE Walking
    <3>1. StandsStill(tab, tab')
      BY <1>1, <2>1, <2>2, <2>4, SetMovesNothing DEF Value
    <3>2. walk \in WalkRec /\ walk.stands = "going"
      BY <2>4 DEF WalkInv, Walking
    <3>3. /\ walk'.seen = walk.seen /\ walk'.at = walk.at /\ walk'.stands = walk.stands /\ walk' \in WalkRec
          /\ walk'.stays = IF v = Nothing THEN walk.stays \ {k} ELSE walk.stays
      <4>1. CASE v = Nothing
        <5>1. walk' = [walk EXCEPT !.stays = @ \ {k}]
          BY <2>2, <2>4, <4>1
        <5> QED BY <3>2, <4>1, <5>1 DEF WalkRec
      <4>2. CASE v # Nothing
        BY <2>2, <2>4, <3>2, <4>2
      <4> QED BY <4>1, <4>2
    <3>4. \A x \in walk'.stays : map[x] # Nothing => map'[x] # Nothing
      <4>1. \A x \in TableKey : map'[x] = IF x = k THEN v ELSE map[x]
        BY <1>1, <2>2
      <4>2. walk'.stays \subseteq TableKey
        BY <3>3 DEF WalkRec
      <4> QED BY <3>3, <4>1, <4>2
    <3> QED BY <1>3, <3>1, <3>2, <3>3, <3>4
  <2> QED BY <2>3, <2>4
<1>7. ASSUME NEW n \in 1 .. MaxArray, Resize(n) PROVE WalkInv'
  BY <1>4, <1>7 DEF Resize
<1>8. ASSUME NEW i \in DOMAIN tab.node, removeentry(i) PROVE WalkInv'
  <2>1. tab' = [tab EXCEPT !.node[i].dead = TRUE] /\ map' = map /\ walk' = walk
    BY <1>8 DEF removeentry
  <2>2. StandsStill(tab, tab')
    BY <1>1, <2>1, RemoveMovesNothing
  <2>3. walk \in WalkRec
    BY DEF WalkInv
  <2> QED BY <1>3, <1>5, <2>1, <2>2, <2>3
<1>9. CASE next
  BY <1>9, NextWalks
<1>10. CASE UNCHANGED tableVars
  <2>1. tab' = tab /\ map' = map /\ walk' = walk
    BY <1>10 DEF tableVars
  <2>2. StandsStill(tab, tab')
    BY <2>1 DEF StandsStill, SameLinks
  <2>3. walk \in WalkRec
    BY DEF WalkInv
  <2> QED BY <1>3, <1>5, <2>1, <2>2, <2>3
<1> QED BY <1>6, <1>7, <1>8, <1>9, <1>10 DEF TableNext

\* For any table and any keys: a traversal with lua_next, during which fields
\* are changed and cleared and the collector marks keys as dead, never fails,
\* comes upon no key twice, and has come upon every key that stayed when it ends
\* (luaH_next, findindex).
THEOREM TraversalComplete == TableInit /\ [][TableNext]_tableVars => []TraversalIsComplete
<1>1. TableInit => TableInv /\ WalkInv
  <2> SUFFICES ASSUME TableInit PROVE WalkInv
    BY NewIsOK
  <2>1. <<>> \in Seq(TableKey)
    OBVIOUS
  <2>2. walk = NoWalk /\ walk \in WalkRec
    BY <2>1 DEF TableInit, NoWalk, WalkRec, Standing
  <2> QED BY <2>2 DEF WalkInv
<1>2. TableInv /\ WalkInv /\ [TableNext]_tableVars => (TableInv /\ WalkInv)'
  BY TableStep, WalkStep
<1>3. TableInv /\ WalkInv => TraversalIsComplete
  <2> SUFFICES ASSUME TableInv, WalkInv PROVE TraversalIsComplete
    OBVIOUS
  <2>1. Shape(tab) /\ Chains(tab)
    BY DEF TableInv, TableOK
  <2>2. CASE walk = NoWalk
    BY <2>2 DEF TraversalIsComplete, NoWalk
  <2>3. CASE walk.stands = "going" /\ GoingOn(tab, map, walk)
    <3>1. Distinct(walk.seen)
      BY <2>1, <2>3, SeenOnce
    <3> QED BY <2>3, <3>1 DEF TraversalIsComplete, Distinct
  <2>4. CASE walk.stands = "ended" /\ Distinct(walk.seen) /\ walk.stays \subseteq Range(walk.seen)
    BY <2>4 DEF TraversalIsComplete, Distinct
  <2> QED BY <2>2, <2>3, <2>4 DEF WalkInv
<1> QED BY <1>1, <1>2, <1>3, PTL

=============================================================================
