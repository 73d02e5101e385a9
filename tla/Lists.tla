-------------------------------- MODULE Lists --------------------------------
(***************************************************************************)
(* The loops of this program that go over a list and keep some of it.      *)
(* SelectSeq of the standard module says the same; it takes an operator,   *)
(* which a proof cannot open.                                              *)
(***************************************************************************)
EXTENDS Naturals, Sequences

\* What is kept of the first n elements of list: those at positions, in order.
Kept(list, positions) ==
  LET kept[n \in 0 .. Len(list)] ==
        IF n = 0 THEN <<>>
        ELSE IF n \in positions THEN Append(kept[n - 1], list[n])
        ELSE kept[n - 1]
  IN  kept[Len(list)]
==============================================================================
