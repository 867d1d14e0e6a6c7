----------------------------- MODULE LuaTabLib -----------------------------
(***************************************************************************)
(* The table library of the Lua interpreter, luasrc/ltablib.c, on tables   *)
(* without metamethods.  The array part of a table is a function from      *)
(* integers to values, and has no entry where there is nil; n is what      *)
(* luaL_len says of it.  A result is [t, vs, err].                         *)
(***************************************************************************)
EXTENDS LuaChars

CONSTANT MaxInteger  \* LUA_MAXINTEGER

ASSUME TabLibAssumption == MaxInteger \in Nat \ {0}

nil == <<>>
geti(t, i) == IF i \in DOMAIN t THEN t[i] ELSE nil
seti(t, i, v) ==
  IF v = nil THEN [k \in DOMAIN t \ {i} |-> t[k]]
  ELSE [k \in DOMAIN t \cup {i} |-> IF k = i THEN v ELSE t[k]]

Returns(t, vs) == [t |-> t, vs |-> vs, err |-> ""]
Raises(t, what) == [t |-> t, vs |-> <<>>, err |-> what]
Count(n) == [i \in 1 .. n |-> i]

\* t[pos + 1 ..] gets t[pos ..], from the end down.
tinsert(t, n, pos, v) ==
  LET e == n + 1
      Up(acc, k) == seti(acc, e - k + 1, geti(acc, e - k))
  IN  IF pos \notin 1 .. e THEN Raises(t, "position out of bounds")
      ELSE Returns(seti(FoldLeft(Up, t, Count(e - pos)), pos, v), <<>>)

tremove(t, size, pos) ==
  LET Down(acc, k) == seti(acc, pos + k - 1, geti(acc, pos + k))
      moved == FoldLeft(Down, t, Count(IF pos < size THEN size - pos ELSE 0))
  IN  IF pos # size /\ pos \notin 1 .. size + 1 THEN Raises(t, "position out of bounds")
      ELSE Returns(seti(moved, IF pos < size THEN size ELSE pos, nil), <<geti(t, pos)>>)

\* Within one table, copied from the end that is not overwritten.
tmove(tab, f, e, t) ==
  LET n == e - f + 1
      order == IF t > f THEN Reverse(Count(n)) ELSE Count(n)
      One(acc, k) == seti(acc, t + k - 1, geti(acc, f + k - 1))
  IN  IF e < f THEN Returns(tab, <<>>)
      ELSE IF ~(f > 0 \/ e < MaxInteger + f) THEN Raises(tab, "too many elements to move")
      ELSE IF ~(t <= MaxInteger - n + 1) THEN Raises(tab, "destination wrap around")
      ELSE Returns(FoldLeft(One, tab, order), <<>>)

\* Texts, with sep between them.
tconcat(t, sep, i, last) ==
  LET Add(b, k) == b \o geti(t, i + k - 1) \o (IF i + k - 1 < last THEN sep ELSE <<>>)
  IN  IF \E k \in i .. last : geti(t, k) = nil THEN Raises(t, "invalid value in table for 'concat'")
      ELSE Returns(t, FoldLeft(Add, <<>>, Count(IF last < i THEN 0 ELSE last - i + 1)))

\* The list without the field n, which holds Len(vs).
pack(vs) == [i \in {k \in DOMAIN vs : vs[k] # nil} |-> vs[i]]

unpack(t, i, e) == Returns(t, [k \in 1 .. (IF i > e THEN 0 ELSE e - i + 1) |-> geti(t, i + k - 1)])

-----------------------------------------------------------------------------
(* Quicksort: a[1 ..] in the order lt, a set of pairs, whatever it is. *)

Swap(a, i, j) == [a EXCEPT ![i] = a[j], ![j] = a[i]]
sort_comp(lt, v, w) == <<v, w>> \in lt
Ordered(lt, a, i, j) == IF sort_comp(lt, a[j], a[i]) THEN Swap(a, i, j) ELSE a

\* The scan for an element that does not belong before, or behind, the pivot:
\* 0 where it would leave a[l .. u].
RECURSIVE ScanUp(_, _, _, _, _), ScanDown(_, _, _, _, _)
ScanUp(lt, a, pivot, i, u) ==
  IF ~sort_comp(lt, a[i], pivot) THEN i ELSE IF i >= u THEN 0 ELSE ScanUp(lt, a, pivot, i + 1, u)
ScanDown(lt, a, pivot, j, l) ==
  IF ~sort_comp(lt, pivot, a[j]) THEN j ELSE IF j <= l THEN 0 ELSE ScanDown(lt, a, pivot, j - 1, l)

\* [a, i], i being the pivot's place, 0 for an invalid order function.
RECURSIVE Partition(_, _, _, _, _, _)
Partition(lt, a, i0, j0, l, u) ==
  LET pivot == a[u - 1]
      i == ScanUp(lt, a, pivot, i0 + 1, u)
      j == ScanDown(lt, a, pivot, j0 - 1, l)
  IN  IF i = 0 \/ j = 0 THEN [a |-> a, i |-> 0]
      ELSE IF j < i THEN [a |-> Swap(a, u - 1, i), i |-> i]
      ELSE Partition(lt, Swap(a, i, j), i, j, l, u)

RECURSIVE auxsort(_, _, _, _)
auxsort(lt, a0, l, u) ==
  LET ends == Ordered(lt, a0, l, u)
      i == (l + u) \div 2
      three == IF sort_comp(lt, ends[i], ends[l]) THEN Swap(ends, i, l) ELSE Ordered(lt, ends, i, u)
      p == Partition(lt, Swap(three, i, u - 1), l, u - 1, l, u)
      smaller == IF p.i - l < u - p.i THEN <<l, p.i - 1>> ELSE <<p.i + 1, u>>
      larger == IF p.i - l < u - p.i THEN <<p.i + 1, u>> ELSE <<l, p.i - 1>>
      first == auxsort(lt, p.a, smaller[1], smaller[2])
  IN  IF l >= u THEN [a |-> a0, ok |-> TRUE]
      ELSE IF u - l = 1 THEN [a |-> ends, ok |-> TRUE]
      ELSE IF u - l = 2 THEN [a |-> three, ok |-> TRUE]
      ELSE IF p.i = 0 THEN [a |-> p.a, ok |-> FALSE]
      ELSE IF ~first.ok THEN first
      ELSE auxsort(lt, first.a, larger[1], larger[2])

sort(lt, a) == auxsort(lt, a, 1, Len(a))

=============================================================================
