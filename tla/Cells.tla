-------------------------------- MODULE Cells --------------------------------
(***************************************************************************)
(* What a dynamic value promises its users, without pointers: a place that *)
(* holds a value of some type, a copy that is independent of its original, *)
(* and a move that leaves the original empty.                              *)
(***************************************************************************)
CONSTANTS Place, Content, Empty, Nothing

VARIABLE cell    \* cell[x]: a content, Empty, or Nothing before and after its life

Init == cell = [x \in Place |-> Nothing]

Only(xs) == \A z \in Place \ xs : cell'[z] = cell[z]

Put(x) == cell'[x] \in Content \cup {Empty, Nothing} /\ Only({x})

Copy(x, y) == cell[y] # Nothing /\ cell'[x] = cell[y] /\ Only({x})

Move(x, y) ==
  /\ cell[y] # Nothing
  /\ cell'[x] = cell[y]
  /\ x # y => cell'[y] = Empty
  /\ Only({x, y})

Next ==
  \E x \in Place :
    \/ Put(x)
    \/ \E y \in Place : Copy(x, y) \/ Move(x, y)

Spec == Init /\ [][Next]_cell

=============================================================================
