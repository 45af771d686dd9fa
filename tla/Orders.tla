-------------------------------- MODULE Orders --------------------------------
(***************************************************************************)
(* Filtering and sorting, stated by what the result is: the standard       *)
(* SelectSeq and SortSeq by running over the sequence, which leaves a      *)
(* prover nothing to use and a sort with equal keys undefined.             *)
(***************************************************************************)
EXTENDS Integers, Sequences, FiniteSets

\* The k-th of the elements of S, whose keys are different numbers: k keys go
\* up to its own.
ByKey(S, key) ==
  [k \in 1..Cardinality(S) |->
     CHOOSE x \in S : Cardinality({y \in S : key[y] <= key[x]}) = k]

\* A set of numbers in increasing order.
InOrder(S) ==
  [k \in 1..Cardinality(S) |-> CHOOSE x \in S : Cardinality({y \in S : y <= x}) = k]

\* Array filter: what the sequence has at the given places.
Only(s, places) ==
  IF places = DOMAIN s THEN s
  ELSE [k \in 1..Cardinality(places) |-> s[InOrder(places)[k]]]

\* Array sort, which is stable: the places by their keys, numbers, and equal
\* keys by place.
SortedPlaces(n, key) == ByKey(1..n, [i \in 1..n |-> key[i] * n + i])
=============================================================================
