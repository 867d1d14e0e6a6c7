------------------------------ MODULE Selections ------------------------------
(***************************************************************************)
(* SelectSeq by membership of a set, as a recursive function, which proofs *)
(* can go through one element at a time.                                   *)
(***************************************************************************)
EXTENDS Integers, Sequences

\* The elements of s that are in T, in their order.
Those(s, T) ==
  LET those[n \in 0 .. Len(s)] ==
        IF n = 0 THEN <<>>
        ELSE IF s[n] \in T THEN Append(those[n - 1], s[n]) ELSE those[n - 1]
  IN  those[Len(s)]

=============================================================================
