---------------------------- MODULE SelectionProofs ----------------------------
(***************************************************************************)
(* What Those selects from any sequence, and the induction on naturals     *)
(* that shows it: of sets, not of predicates, so that it can be cited.     *)
(***************************************************************************)
EXTENDS Selections, FiniteSetTheorems, SequenceTheorems, TLAPS

\* Every set of naturals that is not empty has a least element.
LEMMA LeastNumber ==
  ASSUME NEW T \in SUBSET Nat, T # {}
  PROVE  \E m \in T : \A k \in T : m <= k
<1> DEFINE U == {0 .. k : k \in T}
           R == StrictSubsetOrdering(Nat)
<1>1. IsWellFoundedOn(R, FiniteSubsetsOf(Nat))
  BY FS_StrictSubsetOrderingWellFounded
<1>2. U \subseteq FiniteSubsetsOf(Nat) /\ U # {}
  <2>1. \A k \in T : 0 .. k \in SUBSET Nat /\ IsFiniteSet(0 .. k)
    BY FS_Interval
  <2> QED BY <2>1 DEF FiniteSubsetsOf
<1>3. PICK x \in U : \A y \in U : ~ (<<y, x>> \in R)
  <2> HIDE DEF R, U
  <2> QED BY <1>1, <1>2, WFMin
<1>4. PICK m \in T : x = 0 .. m
  OBVIOUS
<1>5. ASSUME NEW k \in T, k < m PROVE FALSE
  <2>1. 0 .. k \in SUBSET Nat /\ 0 .. m \in SUBSET Nat OBVIOUS
  <2>2. 0 .. k \subseteq 0 .. m BY <1>5
  <2>3. m \in 0 .. m /\ m \notin 0 .. k BY <1>5
  <2>4. 0 .. k # 0 .. m BY <2>3
  <2>5. <<0 .. k, 0 .. m>> \in R BY <2>1, <2>2, <2>4 DEF StrictSubsetOrdering
  <2> QED BY <2>5, <1>3, <1>4
<1> QED BY <1>5

\* Induction, of a set of naturals: so Those can be reasoned about.
LEMMA SetInduction ==
  ASSUME NEW P \in SUBSET Nat, 0 \in P, \A n \in P : n + 1 \in P
  PROVE  P = Nat
<1> SUFFICES ASSUME Nat \ P # {} PROVE FALSE
  OBVIOUS
<1>1. PICK m \in Nat \ P : \A k \in Nat \ P : m <= k
  BY LeastNumber
<1>2. m # 0 /\ m - 1 \in Nat
  BY <1>1
<1>3. m - 1 \in P
  BY <1>1, <1>2
<1> QED BY <1>2, <1>3

\* The function that Those is the last value of.
Selection(s, T, n, f) ==
  f = [i \in 0 .. n |-> IF i = 0 THEN <<>>
                        ELSE IF s[i] \in T THEN Append(f[i - 1], s[i]) ELSE f[i - 1]]

\* The recursion in Those defines a function.
LEMMA SelectionExists ==
  ASSUME NEW s, NEW T, NEW n \in Nat
  PROVE  \E f : Selection(s, T, n, f)
<1> DEFINE P == {i \in Nat : \E f : Selection(s, T, i, f)}
<1>1. 0 \in P
  <2>1. Selection(s, T, 0, [i \in 0 .. 0 |-> <<>>])
    BY DEF Selection
  <2> QED BY <2>1
<1>2. ASSUME NEW i \in P PROVE i + 1 \in P
  <2>1. PICK f : Selection(s, T, i, f)
    OBVIOUS
  <2> DEFINE new == IF s[i + 1] \in T THEN Append(f[i], s[i + 1]) ELSE f[i]
             e == [j \in 0 .. i + 1 |-> IF j = i + 1 THEN new ELSE f[j]]
  <2>2. i \in Nat
    OBVIOUS
  <2>3. ASSUME NEW j \in 0 .. i + 1
        PROVE  e[j] = IF j = 0 THEN <<>>
                      ELSE IF s[j] \in T THEN Append(e[j - 1], s[j]) ELSE e[j - 1]
    <3>1. CASE j = i + 1
      <4>1. e[j] = new /\ e[j - 1] = f[i] /\ j # 0
        BY <3>1, <2>2
      <4> HIDE DEF e
      <4> QED BY <4>1, <3>1
    <3>2. CASE j # i + 1
      <4>1. j \in 0 .. i
        BY <3>2, <2>2
      <4>2. f[j] = IF j = 0 THEN <<>>
                   ELSE IF s[j] \in T THEN Append(f[j - 1], s[j]) ELSE f[j - 1]
        BY <4>1, <2>1 DEF Selection
      <4>3. e[j] = f[j] /\ (j # 0 => e[j - 1] = f[j - 1])
        BY <4>1, <2>2
      <4> HIDE DEF e
      <4> QED BY <4>2, <4>3
    <3> QED BY <3>1, <3>2
  <2>4. Selection(s, T, i + 1, e)
    <3>1. e = [j \in 0 .. i + 1 |-> e[j]]
      OBVIOUS
    <3> HIDE DEF e
    <3> QED BY <3>1, <2>3 DEF Selection
  <2> QED BY <2>4, <2>2
<1>3. P = Nat
  <2> HIDE DEF P
  <2>1. P \in SUBSET Nat BY DEF P
  <2> QED BY <1>1, <1>2, <2>1, SetInduction
<1> QED BY <1>3

\* Those takes a sequence one element at a time.
LEMMA ThoseStepwise ==
  ASSUME NEW S, NEW s \in Seq(S), NEW T
  PROVE  \E f : /\ f[0] = <<>> /\ Those(s, T) = f[Len(s)]
                /\ \A i \in Nat : i + 1 \in 1 .. Len(s) =>
                     f[i + 1] = IF s[i + 1] \in T THEN Append(f[i], s[i + 1]) ELSE f[i]
<1> DEFINE N == Len(s)
           f == CHOOSE f : Selection(s, T, N, f)
<1>1. N \in Nat
  BY LenProperties
<1>2. Selection(s, T, N, f)
  BY <1>1, SelectionExists
<1>3. Those(s, T) = f[N]
  BY DEF Those, Selection
<1> HIDE DEF f
<1>4. \A n \in 0 .. N : f[n] = IF n = 0 THEN <<>>
                       ELSE IF s[n] \in T THEN Append(f[n - 1], s[n]) ELSE f[n - 1]
  BY <1>2 DEF Selection
<1>5. f[0] = <<>>
  BY <1>1, <1>4
<1>6. ASSUME NEW i \in Nat, i + 1 \in 1 .. N
      PROVE  f[i + 1] = IF s[i + 1] \in T THEN Append(f[i], s[i + 1]) ELSE f[i]
  <2>1. i + 1 # 0 /\ (i + 1) - 1 = i /\ i + 1 \in 0 .. N
    BY <1>1, <1>6
  <2> QED BY <1>4, <2>1
<1> QED BY <1>3, <1>5, <1>6

\* Those keeps the elements that are in T, and no others.
LEMMA ThoseProperties ==
  ASSUME NEW S, NEW s \in Seq(S), NEW T
  PROVE  /\ Those(s, T) \in Seq(S)
         /\ Range(Those(s, T)) = Range(s) \cap T
         /\ Len(Those(s, T)) <= Len(s)
<1> DEFINE N == Len(s)
<1>1. N \in Nat /\ DOMAIN s = 1 .. N /\ \A i \in 1 .. N : s[i] \in S
  BY LenProperties, ElementOfSeq
<1>2. PICK f : /\ f[0] = <<>> /\ Those(s, T) = f[N]
               /\ \A i \in Nat : i + 1 \in 1 .. N =>
                    f[i + 1] = IF s[i + 1] \in T THEN Append(f[i], s[i + 1]) ELSE f[i]
  BY ThoseStepwise
<1> DEFINE Good(i) == /\ f[i] \in Seq(S)
                      /\ Len(f[i]) <= i
                      /\ Range(f[i]) = {s[j] : j \in 1 .. i} \cap T
           P == {i \in Nat : i <= N => Good(i)}
<1>4. 0 \in P
  <2>1. f[0] = <<>>
    BY <1>2
  <2>2. Range(<<>>) = {} /\ <<>> \in Seq(S) /\ Len(<<>>) = 0
    BY DEF Range
  <2>3. {s[j] : j \in 1 .. 0} = {}
    OBVIOUS
  <2>4. Good(0)
    BY <2>1, <2>2, <2>3
  <2> QED BY <2>4
<1>5. ASSUME NEW i \in P PROVE i + 1 \in P
  <2> SUFFICES ASSUME i + 1 <= N PROVE Good(i + 1)
    OBVIOUS
  <2>1. i \in Nat /\ Good(i) /\ i + 1 \in 1 .. N /\ i + 1 \in 0 .. N
    BY <1>1
  <2>2. f[i + 1] = IF s[i + 1] \in T THEN Append(f[i], s[i + 1]) ELSE f[i]
    BY <1>2, <2>1
  <2>3. {s[j] : j \in 1 .. i + 1} = {s[j] : j \in 1 .. i} \cup {s[i + 1]}
    BY <2>1
  <2>4. CASE s[i + 1] \in T
    <3>1. f[i + 1] = Append(f[i], s[i + 1]) /\ s[i + 1] \in S
      BY <1>1, <2>1, <2>2, <2>4
    <3>2. /\ f[i + 1] \in Seq(S) /\ Len(f[i + 1]) = Len(f[i]) + 1
          /\ \A j \in 1 .. Len(f[i]) : f[i + 1][j] = f[i][j]
          /\ f[i + 1][Len(f[i]) + 1] = s[i + 1]
      BY <2>1, <3>1, AppendProperties
    <3>3. Range(f[i + 1]) = Range(f[i]) \cup {s[i + 1]}
      <4>1. Len(f[i]) \in Nat
        BY <2>1, LenProperties
      <4>2. Range(f[i + 1]) = {f[i + 1][j] : j \in 1 .. Len(f[i]) + 1}
        BY <3>2, RangeEquality
      <4>3. Range(f[i]) = {f[i][j] : j \in 1 .. Len(f[i])}
        BY <2>1, RangeEquality
      <4>4. 1 .. Len(f[i]) + 1 = (1 .. Len(f[i])) \cup {Len(f[i]) + 1}
        BY <4>1
      <4>5. ASSUME NEW x PROVE x \in Range(f[i + 1]) <=> x \in Range(f[i]) \cup {s[i + 1]}
        <5>1. x \in Range(f[i + 1]) <=> \/ \E j \in 1 .. Len(f[i]) : x = f[i + 1][j]
                                     \/ x = f[i + 1][Len(f[i]) + 1]
          BY <4>2, <4>4
        <5> QED BY <3>2, <4>3, <5>1
      <4> QED BY <4>5
    <3>4. Range(f[i + 1]) = {s[j] : j \in 1 .. i + 1} \cap T
      BY <2>1, <2>3, <2>4, <3>3
    <3> QED BY <2>1, <3>2, <3>4, LenProperties
  <2>5. CASE s[i + 1] \notin T
    BY <2>1, <2>2, <2>3, <2>5, LenProperties
  <2> QED BY <2>4, <2>5
<1>6. P = Nat
  <2> HIDE DEF P
  <2>1. P \in SUBSET Nat BY DEF P
  <2> QED BY <1>4, <1>5, <2>1, SetInduction
<1>7. Good(N)
  <2>1. N \in P
    <3> HIDE DEF P
    <3> QED BY <1>1, <1>6
  <2> HIDE DEF Good
  <2> QED BY <1>1, <2>1
<1>8. Range(s) = {s[j] : j \in 1 .. N}
  BY RangeEquality
<1>9. f[N] \in Seq(S) /\ Len(f[N]) <= Len(s) /\ Range(f[N]) = Range(s) \cap T
  BY <1>7, <1>8
<1> QED BY <1>2, <1>9

\* Two selections that take every element once.
LEMMA ThoseSplit ==
  ASSUME NEW S, NEW s \in Seq(S), NEW T, NEW U,
         \A x \in Range(s) : x \in T <=> x \notin U
  PROVE  Len(Those(s, T)) + Len(Those(s, U)) = Len(s)
<1> DEFINE N == Len(s)
<1>1. N \in Nat /\ \A i \in 1 .. N : s[i] \in S /\ s[i] \in Range(s)
  BY LenProperties, ElementOfSeq, RangeEquality
<1>2. PICK f : /\ f[0] = <<>> /\ Those(s, T) = f[N]
               /\ \A i \in Nat : i + 1 \in 1 .. N =>
                    f[i + 1] = IF s[i + 1] \in T THEN Append(f[i], s[i + 1]) ELSE f[i]
  BY ThoseStepwise
<1>3. PICK e : /\ e[0] = <<>> /\ Those(s, U) = e[N]
               /\ \A i \in Nat : i + 1 \in 1 .. N =>
                    e[i + 1] = IF s[i + 1] \in U THEN Append(e[i], s[i + 1]) ELSE e[i]
  BY ThoseStepwise
<1> DEFINE Good(i) == f[i] \in Seq(S) /\ e[i] \in Seq(S) /\ Len(f[i]) + Len(e[i]) = i
           P == {i \in Nat : i <= N => Good(i)}
<1>4. \A i : i \in P <=> i \in Nat /\ (i <= N => Good(i))
  <2> HIDE DEF Good
  <2> QED OBVIOUS
<1> HIDE DEF P
<1>5. 0 \in P
  <2>1. <<>> \in Seq(S) /\ Len(<<>>) = 0
    BY EmptySeq
  <2>2. Good(0)
    BY <1>2, <1>3, <2>1
  <2> HIDE DEF Good
  <2> QED BY <1>4, <2>2
<1>6. ASSUME NEW i \in P PROVE i + 1 \in P
  <2>1. i \in Nat /\ (i <= N => Good(i))
    BY <1>4
  <2> SUFFICES ASSUME i + 1 <= N PROVE Good(i + 1)
    <3> HIDE DEF Good
    <3> QED BY <1>4, <2>1
  <2>2. i <= N /\ i + 1 \in 1 .. N
    BY <1>1, <2>1
  <2>3. f[i] \in Seq(S) /\ e[i] \in Seq(S) /\ Len(f[i]) + Len(e[i]) = i
    BY <2>1, <2>2
  <2> DEFINE x == s[i + 1]
  <2>4. i \in Nat /\ Len(f[i]) + Len(e[i]) = i
    BY <2>1, <2>3
  <2>5. x \in S /\ (x \in T <=> x \notin U)
    BY <1>1, <2>2
  <2>6. Len(f[i]) \in Nat /\ Len(e[i]) \in Nat
    BY <2>3, LenProperties
  <2>7. /\ Append(f[i], x) \in Seq(S) /\ Len(Append(f[i], x)) = Len(f[i]) + 1
        /\ Append(e[i], x) \in Seq(S) /\ Len(Append(e[i], x)) = Len(e[i]) + 1
    BY <2>3, <2>5, AppendProperties
  <2>8. f[i + 1] = (IF x \in T THEN Append(f[i], x) ELSE f[i])
    BY <1>2, <2>1, <2>2
  <2>9. e[i + 1] = (IF x \in U THEN Append(e[i], x) ELSE e[i])
    BY <1>3, <2>1, <2>2
  <2> HIDE DEF x
  <2>10. \A a, b, j \in Nat : a + b = j => (a + 1) + b = j + 1 /\ a + (b + 1) = j + 1
    OBVIOUS
  <2>11. PICK a \in Nat : a = Len(f[i])
    BY <2>6
  <2>12. PICK b \in Nat : b = Len(e[i])
    BY <2>6
  <2>13. (a + 1) + b = i + 1 /\ a + (b + 1) = i + 1
    BY <2>4, <2>10, <2>11, <2>12
  <2>14. CASE x \in T
    <3>1. f[i + 1] = Append(f[i], x) /\ e[i + 1] = e[i]
      BY <2>5, <2>8, <2>9, <2>14
    <3>2. Len(f[i + 1]) + Len(e[i + 1]) = (Len(f[i]) + 1) + Len(e[i])
      BY <2>7, <3>1
    <3>3. Len(f[i + 1]) + Len(e[i + 1]) = i + 1
      BY <2>11, <2>12, <2>13, <3>2
    <3> QED BY <2>3, <2>7, <3>1, <3>3
  <2>15. CASE x \notin T
    <3>1. f[i + 1] = f[i] /\ e[i + 1] = Append(e[i], x)
      BY <2>5, <2>8, <2>9, <2>15
    <3>2. Len(f[i + 1]) + Len(e[i + 1]) = Len(f[i]) + (Len(e[i]) + 1)
      BY <2>7, <3>1
    <3>3. Len(f[i + 1]) + Len(e[i + 1]) = i + 1
      BY <2>11, <2>12, <2>13, <3>2
    <3> QED BY <2>3, <2>7, <3>1, <3>3
  <2> QED BY <2>14, <2>15
<1>7. P = Nat
  <2>1. P \in SUBSET Nat BY DEF P
  <2> QED BY <1>5, <1>6, <2>1, SetInduction
<1>8. Good(N)
  <2> HIDE DEF Good
  <2> QED BY <1>1, <1>7, <1>4
<1> QED BY <1>2, <1>3, <1>8

=============================================================================
