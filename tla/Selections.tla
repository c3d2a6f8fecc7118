----------------------------- MODULE Selections -----------------------------
(***************************************************************************)
(* What a filter over a list keeps, in order.                              *)
(***************************************************************************)
EXTENDS Naturals, Sequences

(* The positions where Test holds, and what a list has at some positions.  *)
Matching(m, Test(_)) == {i \in 1..Len(m) : Test(m[i])}
Chosen(list, is) ==
    LET kept[n \in 0..Len(list)] ==
            IF n = 0 THEN <<>>
            ELSE IF n \in is THEN Append(kept[n - 1], list[n]) ELSE kept[n - 1]
    IN  kept[Len(list)]
=============================================================================
