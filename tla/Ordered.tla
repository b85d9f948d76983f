------------------------------- MODULE Ordered -------------------------------
(***************************************************************************)
(* Sets of numbers as sequences, and the places of a sequence that are of  *)
(* interest (SetToSortSeq and SelectSeq, in terms the provers have).       *)
(***************************************************************************)
EXTENDS Integers, Sequences, FiniteSets

\* A finite set of numbers in ascending order: the n-th has n - 1 below it.
Ascending(S) ==
    [n \in 1..Cardinality(S) |-> CHOOSE x \in S : Cardinality({y \in S : y <= x}) = n]

\* What a sequence has at these places, in order.
At(s, places) ==
    LET upto[k \in 0..Len(s)] ==
          IF k = 0 THEN <<>>
          ELSE IF k \in places THEN Append(upto[k - 1], s[k]) ELSE upto[k - 1]
    IN  upto[Len(s)]
=============================================================================
