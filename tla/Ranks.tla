------------------------------- MODULE Ranks -------------------------------
(***************************************************************************)
(* ORDER BY and sorted() with a total order: the place of an element is    *)
(* the number of elements that come before it.                             *)
(***************************************************************************)
EXTENDS Integers, FiniteSets

\* The elements of S by their ranks in the order R.
Sorted(S, R) == [i \in 1 .. Cardinality(S) |-> CHOOSE x \in S : Cardinality({y \in S : <<y, x>> \in R}) = i - 1]
===========================================================================
