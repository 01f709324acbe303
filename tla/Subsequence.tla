----------------------------- MODULE Subsequence -----------------------------
(***************************************************************************)
(* Array.prototype.filter, without recursion, so that it can be reasoned   *)
(* about: the elements of a sequence at chosen positions, in order.        *)
(***************************************************************************)
EXTENDS Naturals, FiniteSets

\* How many of the positions K are not after p, and the n-th of them.
Rank(K, p) == Cardinality({q \in K : q <= p})
Nth(K, n) == CHOOSE p \in K : Rank(K, p) = n

\* What is left of the sequence s when the positions K are kept.
Kept(s, K) == [n \in 1..Cardinality(K) |-> s[Nth(K, n)]]
=============================================================================
