-------------------------------- MODULE Lists --------------------------------
(***************************************************************************)
(* What is left of a list.  SelectSeq gives the same; here it is a         *)
(* recursive function over the positions, about which facts can be proved  *)
(* (DataLemmas).                                                           *)
(***************************************************************************)
EXTENDS SequencesExt

(* the elements of list that are in S, in their order *)
Kept(list, S) ==
  LET kept[n \in 0..Len(list)] ==
        IF n = 0 THEN <<>>
        ELSE IF list[n] \in S THEN Append(kept[n - 1], list[n]) ELSE kept[n - 1]
  IN  kept[Len(list)]

(* those that are not *)
Without(list, S) == Kept(list, ToSet(list) \ S)
===============================================================================
