------------------------------- MODULE Sublists -------------------------------
(***************************************************************************)
(* Array.prototype.filter by positions.  (SelectSeq, which takes an operator, *)
(* says nothing to the provers.)                                             *)
(***************************************************************************)
EXTENDS Naturals, FiniteSets

\* What s has at the positions I, in order.
Picked(s, I) ==
    LET Nth(n) == CHOOSE i \in I : Cardinality({j \in I : j <= i}) = n
    IN [n \in 1 .. Cardinality(I) |-> s[Nth(n)]]
=============================================================================
