------------------------------- MODULE LuaTable -------------------------------
(***************************************************************************)
(* The tables of the Lua interpreter, luasrc/ltable.c: an array part for   *)
(* the keys 1 .. n and a hash part of nodes, chained by colliding main     *)
(* position (Brent's variation), which is rebuilt when it is full.         *)
(* CLuaCfg reads its configuration out of them and walks them with         *)
(* lua_next.                                                               *)
(*                                                                         *)
(* A key is [kind, n, hash]: an "int", a "float" whose value is the        *)
(* integer n, or anything else ("pow2" for what hashstr is used on, "mod"  *)
(* for what hashmod is used on).  Node positions count from 1, and a next  *)
(* of 0 is none; the dummy node is the empty sequence.                     *)
(***************************************************************************)
EXTENDS Integers, Sequences, FiniteSets, SequencesExt

CONSTANTS
  Key,      \* the keys the program uses
  Datum,    \* the values it stores
  MaxArray, \* the most elements a constructor makes room for
  Nothing   \* nil, as a value and as the key that starts a traversal

AnyKey == [kind : {"int", "float", "pow2", "mod"}, n : Int, hash : Int]

ASSUME TableAssumption ==
  /\ IsFiniteSet(Key) /\ Key \subseteq AnyKey
  /\ \A k \in Key : k.kind \in {"int", "float"} => k.hash = k.n
  /\ Nothing \notin AnyKey
  /\ MaxArray \in Nat

VARIABLES
  tab,      \* the table
  map,      \* history: what was stored last under each key
  walk      \* the traversal under way, or the last: see Standing

tableVars == <<tab, map, walk>>

-----------------------------------------------------------------------------
(* Search *)

TwoTo[i \in Nat] == IF i = 0 THEN 1 ELSE 2 * TwoTo[i - 1]
FreeNode == [key |-> Nothing, val |-> Nothing, next |-> 0, dead |-> FALSE]

\* setnodevector, for at least `size' entries.
Nodes(size) ==
  IF size = 0 THEN <<>>
  ELSE LET l == CHOOSE l \in 0 .. size : TwoTo[l] >= size /\ (l > 0 => TwoTo[l - 1] < size)
       IN  [i \in 1 .. TwoTo[l] |-> FreeNode]

luaH_new == [array |-> <<>>, node |-> <<>>, lastfree |-> 1]

\* A float with the value of an integer is that integer.
Normal(k) == IF k.kind = "float" THEN [k EXCEPT !.kind = "int"] ELSE k

mainposition(t, k) ==
  1 + IF k.kind = "mod" THEN k.hash % (IF Len(t.node) = 1 THEN 1 ELSE Len(t.node) - 1)
      ELSE k.hash % Len(t.node)

InArray(t, k) == k.kind = "int" /\ k.n \in DOMAIN t.array

\* The loop of a search for k: the nodes it comes to, from the main position of
\* k by their next, and 0 once it is over.
Follow(t, i) == IF i = 0 THEN 0 ELSE t.node[i].next
Path(t, k) ==
  LET at[n \in 0 .. Len(t.node)] ==
        IF t.node = <<>> THEN 0
        ELSE IF n = 0 THEN mainposition(t, k) ELSE Follow(t, at[n - 1])
  IN  at

\* The first node of a set on a path; 0: it passes none.
FirstIn(path, S) ==
  LET hits == {n \in DOMAIN path : path[n] \in S}
  IN  IF hits = {} THEN 0 ELSE path[CHOOSE n \in hits : \A m \in hits : n <= m]

\* luaH_getint, luaH_getstr and the search of luaH_get: 0, or the node of k.
NodeOf(t, k) ==
  FirstIn(Path(t, k), {i \in DOMAIN t.node : t.node[i].key = k /\ ~ t.node[i].dead})

luaH_get(t, key) ==
  LET k == Normal(key)
  IN  IF InArray(t, k) THEN t.array[k.n]
      ELSE IF NodeOf(t, k) = 0 THEN Nothing
      ELSE t.node[NodeOf(t, k)].val

-----------------------------------------------------------------------------
(* Insertion *)

\* getfreepos, a node below lastfree that was never used; 0: there is none.
getfreepos(t) ==
  LET free == {i \in 1 .. t.lastfree - 1 : t.node[i].key = Nothing}
  IN  IF free = {} THEN 0 ELSE CHOOSE i \in free : \A j \in free : j <= i

Entry(k, v, next) == [key |-> k, val |-> v, next |-> next, dead |-> FALSE]

\* Mutant: the node before the one that is moved still points to its old place.
CollideMutant(t, k, v, mp, f) ==
  LET other == mainposition(t, t.node[mp].key)
      n == t.node
  IN  IF other # mp
        THEN [n EXCEPT ![f] = n[mp], ![mp] = Entry(k, v, 0)]
        ELSE [n EXCEPT ![f] = Entry(k, v, n[mp].next), ![mp].next = f]

\* The main position mp of k is taken and f is free: a node that is not in its
\* own main position makes way, otherwise the new key goes to f.
Collide(t, k, v, mp, f) ==
  LET other == mainposition(t, t.node[mp].key)
      before == CHOOSE p \in DOMAIN t.node : t.node[p].next = mp
      n == t.node
  IN  IF other # mp
        THEN [n EXCEPT ![before].next = f, ![f] = n[mp], ![mp] = Entry(k, v, 0)]
        ELSE [n EXCEPT ![f] = Entry(k, v, n[mp].next), ![mp].next = f]

MainIsFree(t, k) == t.node # <<>> /\ t.node[mainposition(t, k)].val = Nothing
HasRoomFor(t, k) == MainIsFree(t, k) \/ getfreepos(t) # 0

\* luaH_newkey, where there is a place.
NewNode(t, k, v) ==
  LET mp == mainposition(t, k)
      f == getfreepos(t)
  IN  IF MainIsFree(t, k)
        THEN [t EXCEPT !.node[mp] = Entry(k, v, t.node[mp].next)]
        ELSE [t EXCEPT !.node = Collide(t, k, v, mp, f), !.lastfree = f]

\* luaH_set and the assignment to the cell it returns, where there is a place.
Place(t, k, v) ==
  IF InArray(t, k) THEN [t EXCEPT !.array[k.n] = v]
  ELSE IF NodeOf(t, k) # 0 THEN [t EXCEPT !.node[NodeOf(t, k)].val = v]
  ELSE NewNode(t, k, v)

IntKey(n) == [kind |-> "int", n |-> n, hash |-> n]

\* What luaH_resize puts in again: what the array loses, and then the old nodes
\* from the last to the first.
Again(t, nasize) ==
  LET lost == IF nasize < Len(t.array) THEN Len(t.array) - nasize ELSE 0
  IN  [i \in 1 .. lost + Len(t.node) |->
         IF i <= lost THEN Entry(IntKey(nasize + i), t.array[nasize + i], 0)
                      ELSE t.node[lost + Len(t.node) + 1 - i]]

luaH_resize(t, nasize, nhsize) ==
  LET nodes == Nodes(nhsize)
      array == [i \in 1 .. nasize |-> IF i \in DOMAIN t.array THEN t.array[i] ELSE Nothing]
      old == Again(t, nasize)
      new[n \in 0 .. Len(old)] ==
        IF n = 0 THEN [array |-> array, node |-> nodes, lastfree |-> Len(nodes) + 1]
        ELSE IF old[n].val = Nothing THEN new[n - 1]
        ELSE Place(new[n - 1], old[n].key, old[n].val)
  IN  new[Len(old)]

luaH_resizearray(t, nasize) == luaH_resize(t, nasize, Len(t.node))

\* The integer keys with a value, and k.
IntKeys(t, k) ==
  {i \in DOMAIN t.array : t.array[i] # Nothing}
    \cup {t.node[i].key.n : i \in {i \in DOMAIN t.node :
                                      t.node[i].val # Nothing /\ t.node[i].key.kind = "int"}}
    \cup (IF k.kind = "int" THEN {k.n} ELSE {})

\* computesizes: the largest power of two more than half of which is used, and
\* whose upper half is used at all.
computesizes(used) ==
  LET pos == {n \in used : n > 0}
      upTo(s) == Cardinality({n \in pos : n <= s})
      good == {s \in {TwoTo[i] : i \in 0 .. Cardinality(pos) + 1} :
                 upTo(s) > s \div 2 /\ upTo(s) > upTo(s \div 2)}
  IN  IF good = {} THEN 0 ELSE CHOOSE s \in good : \A r \in good : r <= s

rehash(t, k) ==
  LET used == IntKeys(t, k)
      others == Cardinality({i \in DOMAIN t.node :
                               t.node[i].val # Nothing /\ t.node[i].key.kind # "int"})
                  + (IF k.kind = "int" THEN 0 ELSE 1)
      asize == computesizes(used)
  IN  luaH_resize(t, asize, Cardinality({n \in used : n \notin 1 .. asize}) + others)

\* t[k] = v, where there may be no place.
luaH_set(t, key, v) ==
  LET k == Normal(key)
  IN  IF InArray(t, k) \/ NodeOf(t, k) # 0 \/ HasRoomFor(t, k) THEN Place(t, k, v)
      ELSE Place(rehash(t, k), k, v)

-----------------------------------------------------------------------------
(* Length and traversal *)

\* The binary search between i, present or 0, and j, absent, round by round.
Halve(pair, absent) ==
  LET m == (pair[1] + pair[2]) \div 2
  IN  IF pair[2] - pair[1] <= 1 THEN pair
      ELSE IF m \in absent THEN <<pair[1], m>> ELSE <<m, pair[2]>>
Between2(i, j, absent) ==
  LET round[n \in 0 .. j - i] == IF n = 0 THEN <<i, j>> ELSE Halve(round[n - 1], absent)
  IN  round[j - i][1]

\* From n + 1 on, and then twice the last, until one is absent.
unbound_search(t, n) ==
  LET absent(i) == luaH_get(t, IntKey(i)) = Nothing
      tried == {TwoTo[i] * (n + 1) : i \in 0 .. Cardinality(Key)}
      j == CHOOSE j \in tried : absent(j) /\ \A i \in tried : i < j => ~ absent(i)
      i == IF j = n + 1 THEN n ELSE j \div 2
  IN  Between2(i, j, {m \in i .. j : absent(m)})

luaH_getn(t) ==
  LET n == Len(t.array)
  IN  IF n > 0 /\ t.array[n] = Nothing
        THEN Between2(0, n, {i \in DOMAIN t.array : t.array[i] = Nothing})
      ELSE IF t.node = <<>> THEN n
      ELSE unbound_search(t, n)

\* Mutant: a dead key is not found any more.
findindexMutant(t, k) ==
  IF k = Nothing THEN 0
  ELSE IF InArray(t, k) THEN k.n
  ELSE LET i == NodeOf(t, k) IN IF i = 0 THEN -1 ELSE Len(t.array) + i

\* The index of a key in a traversal, -1 where the key is not there.  A dead
\* key is as good as a live one.
findindex(t, k) ==
  IF k = Nothing THEN 0
  ELSE IF InArray(t, k) THEN k.n
  ELSE LET i == FirstIn(Path(t, k), {i \in DOMAIN t.node : t.node[i].key = k})
       IN  IF i = 0 THEN -1 ELSE Len(t.array) + i

\* The key luaH_next finds behind index i, or Nothing.
luaH_next(t, i) ==
  LET n == Len(t.array)
      entries == [j \in 1 .. n + Len(t.node) |->
                    IF j <= n THEN Entry(IntKey(j), t.array[j], 0) ELSE t.node[j - n]]
      rest == {j \in DOMAIN entries : j > i /\ entries[j].val # Nothing}
  IN  IF rest = {} THEN Nothing
      ELSE entries[CHOOSE j \in rest : \A h \in rest : j <= h].key

-----------------------------------------------------------------------------
(* The program *)

\* at: the last key, stays: keys with a value since the traversal began, seen:
\* what it came upon, in order, how it stands.
Standing == {"none", "going", "ended", "invalid key to 'next'"}
NoWalk == [stands |-> "none", at |-> Nothing, stays |-> {}, seen |-> <<>>]

TableInit ==
  /\ tab = luaH_new
  /\ map = [k \in {Normal(k) : k \in Key} |-> Nothing]
  /\ walk = NoWalk

Present == {k \in DOMAIN map : map[k] # Nothing}
Walking == walk.stands = "going"

\* An assignment; during a traversal, only to a field that exists.
Set(k, v) ==
  /\ Walking => map[Normal(k)] # Nothing
  /\ tab' = luaH_set(tab, k, v)
  /\ map' = [map EXCEPT ![Normal(k)] = v]
  /\ walk' = IF ~Walking THEN NoWalk
             ELSE IF v = Nothing THEN [walk EXCEPT !.stays = @ \ {Normal(k)}] ELSE walk

\* A constructor or table.pack makes room.
Resize(nasize) ==
  /\ ~Walking /\ Len(tab.array) < nasize
  /\ tab' = luaH_resizearray(tab, nasize)
  /\ walk' = NoWalk
  /\ UNCHANGED map

\* The collector comes by: lgc.c's removeentry, while the key is still white.
removeentry(i) ==
  /\ tab.node[i].key # Nothing /\ tab.node[i].val = Nothing /\ ~tab.node[i].dead
  /\ tab.node[i].key.kind # "int"
  /\ tab' = [tab EXCEPT !.node[i].dead = TRUE]
  /\ UNCHANGED <<map, walk>>

\* lua_next, from the beginning or on.
next ==
  LET i == IF Walking THEN findindex(tab, walk.at) ELSE 0
      k == luaH_next(tab, i)
      w == IF Walking THEN walk ELSE [NoWalk EXCEPT !.stays = Present]
  IN  /\ walk' = IF i = -1 THEN [w EXCEPT !.stands = "invalid key to 'next'"]
                 ELSE IF k = Nothing THEN [w EXCEPT !.stands = "ended"]
                 ELSE [w EXCEPT !.stands = "going", !.at = k, !.seen = Append(@, k)]
      /\ UNCHANGED <<tab, map>>

TableNext ==
  \/ \E k \in Key, v \in Datum \cup {Nothing} : Set(k, v)
  \/ \E n \in 1 .. MaxArray : Resize(n)
  \/ \E i \in DOMAIN tab.node : removeentry(i)
  \/ next

-----------------------------------------------------------------------------
(* Properties *)

\* luaH_set, luaH_newkey and rehash: through every order of insertions,
\* removals, collisions, rebuilds and dead keys each key reads what was last
\* stored under it, and the length is a border: an element before an absent one.
TableIsAMap ==
  LET at(n) == luaH_get(tab, IntKey(n))
      n == luaH_getn(tab)
  IN  /\ \A k \in Key : luaH_get(tab, k) = map[Normal(k)]
      /\ n = 0 \/ at(n) # Nothing
      /\ at(n + 1) = Nothing

\* luaH_next: a traversal during which fields are changed and cleared, and the
\* collector runs, comes upon every key that stays exactly once, never loses
\* its place, and comes upon no key twice.
TraversalIsComplete ==
  /\ walk.stands # "invalid key to 'next'"
  /\ \A i, j \in DOMAIN walk.seen : walk.seen[i] = walk.seen[j] => i = j
  /\ walk.stands = "ended" => walk.stays \subseteq Range(walk.seen)

=============================================================================
