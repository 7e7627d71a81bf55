------------------------------ MODULE Ordered ------------------------------
(***************************************************************************)
(* The elements of a finite set one after the other, by a strict order R   *)
(* given as its set of pairs: what sorting, and filtering a sorted list,   *)
(* come to.  An element's place is the number of elements before it.       *)
(***************************************************************************)
EXTENDS Naturals, FiniteSets

Before(S, R, x) == {y \in S : <<y, x>> \in R}
InOrder(S, R) ==
  [k \in 1..Cardinality(S) |-> CHOOSE x \in S : Cardinality(Before(S, R, x)) = k - 1]

\* The order of numbers.
Less(S) == {p \in S \X S : p[1] < p[2]}
Ascending(S) == InOrder(S, Less(S))
=============================================================================
