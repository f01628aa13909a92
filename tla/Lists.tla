---- MODULE Lists ----
(***************************************************************************)
(* What the code does to its lists and the community modules have no       *)
(* operator for.                                                           *)
(***************************************************************************)
EXTENDS Integers, SequencesExt

\* The list s without the elements of S, in its order.
Without(s, S) ==
    FoldLeft(LAMBDA rest, x : IF x \in S THEN rest ELSE Append(rest, x), <<>>, s)

\* Each element of s once, where it comes first.
Once(s) ==
    FoldLeft(LAMBDA rest, x : IF Contains(rest, x) THEN rest ELSE Append(rest, x),
             <<>>, s)
====
