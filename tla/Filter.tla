-------------------------------- MODULE Filter --------------------------------
(***************************************************************************)
(* SelectSeq with a set for its test, and with a recursive function, which *)
(* proofs can unfold, for its recursion.                                   *)
(***************************************************************************)
EXTENDS Naturals, Sequences

\* The elements of s that are in S, in their order.
Filter(s, S) ==
  LET kept[i \in 0..Len(s)] ==
        IF i = 0 THEN <<>>
        ELSE IF s[i] \in S THEN Append(kept[i - 1], s[i])
        ELSE kept[i - 1]
  IN  kept[Len(s)]

===============================================================================
