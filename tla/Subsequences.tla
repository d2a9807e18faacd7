---------------------------- MODULE Subsequences ----------------------------
(***************************************************************************)
(* What a filter keeps of a sequence, in its order.  SelectSeq takes the    *)
(* test as an operator, which no proof can be about; here the positions     *)
(* that pass it are given as a set.                                         *)
(***************************************************************************)
EXTENDS Naturals, Sequences, FiniteSets

\* The n-th smallest number of P.
Nth(P, n) == CHOOSE i \in P : Cardinality({j \in P : j < i}) = n - 1

\* The elements of s at the positions P.
Picked(s, P) == [n \in 1..Cardinality(P) |-> s[Nth(P, n)]]
=============================================================================
