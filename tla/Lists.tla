-------------------------------- MODULE Lists --------------------------------
(***************************************************************************)
(* What `filter` and `retain` leave of a list, and lists put one after     *)
(* another.                                                                *)
(***************************************************************************)
EXTENDS Integers, Sequences, SequencesExt

\* The elements of s that are in the set, in their order.
Among(s, set) ==
    FoldLeft(LAMBDA kept, x : IF x \in set THEN Append(kept, x) ELSE kept, <<>>, s)

\* The lists of ls, one after another.
Flatten(ls) == FoldLeft(LAMBDA all, l : all \o l, <<>>, ls)
=============================================================================
