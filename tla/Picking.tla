------------------------------ MODULE Picking ------------------------------
(***************************************************************************)
(* Array.filter, as the members of a sequence at some positions.           *)
(***************************************************************************)
EXTENDS Integers, FiniteSets, Sequences

\* The members of s at the given positions, in the order of s.
Picked(s, positions) ==
  LET Rank(p) == Cardinality({q \in positions : q < p})
  IN [n \in 1..Cardinality(positions) |-> s[CHOOSE p \in positions : Rank(p) = n - 1]]
=============================================================================
