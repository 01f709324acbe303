-------------------------- MODULE SubsequenceProofs --------------------------
(***************************************************************************)
(* What the proofs of the components need of sets of positions: a least    *)
(* position exists, and keeping positions of a sequence keeps their        *)
(* elements and their order.                                               *)
(***************************************************************************)
EXTENDS Subsequence, Sequences, Functions, FiniteSetTheorems, SequenceTheorems,
        WellFoundedInduction, TLAPS

\* Every set of naturals has a least element.  The library's own statement of
\* this takes an operator, so it is derived here from the well-founded order
\* of finite sets: the intervals 1..n are ordered by inclusion as n is.
LEMMA LeastNatural ==
    ASSUME NEW T \in SUBSET Nat, T # {}
    PROVE  \E m \in T : \A k \in T : m <= k
<1> DEFINE U == {1..n : n \in T}
<1>1. U \subseteq FiniteSubsetsOf(Nat)
  <2>1. \A n \in T : (1..n) \in FiniteSubsetsOf(Nat)
    BY FS_Interval DEF FiniteSubsetsOf
  <2> QED
    BY <2>1
<1>2. U # {}
  OBVIOUS
<1>3. PICK x \in U : \A y \in U : ~(<<y, x>> \in StrictSubsetOrdering(Nat))
  <2> HIDE DEF U
  <2> QED
    BY <1>1, <1>2, FS_StrictSubsetOrderingWellFounded, WFMin
<1>4. PICK m \in T : x = 1..m
  OBVIOUS
<1>5. ASSUME NEW k \in T PROVE m <= k
  <2> SUFFICES ASSUME k < m PROVE FALSE
    OBVIOUS
  <2>1. m \in 1..m /\ m \notin 1..k /\ (1..k) \subseteq (1..m)
    OBVIOUS
  <2>2. <<1..k, 1..m>> \in StrictSubsetOrdering(Nat)
    BY <2>1 DEF StrictSubsetOrdering
  <2> QED
    BY <1>3, <1>4, <2>2
<1> QED
  BY <1>5

-----------------------------------------------------------------------------
(* Positions.                                                              *)

LEMMA Positions ==
    ASSUME NEW n \in Nat, NEW K \in SUBSET (1..n)
    PROVE  IsFiniteSet(K) /\ Cardinality(K) \in Nat /\ Cardinality(K) <= n
<1>1. IsFiniteSet(1..n) /\ Cardinality(1..n) = n
  BY FS_Interval
<1> QED
  BY <1>1, FS_Subset, FS_CardinalityType

LEMMA RankRange ==
    ASSUME NEW n \in Nat, NEW K \in SUBSET (1..n), NEW p \in K
    PROVE  Rank(K, p) \in 1..Cardinality(K)
<1> DEFINE R == {q \in K : q <= p}
<1>1. IsFiniteSet(K) /\ R \subseteq K
  BY Positions
<1>2. IsFiniteSet(R) /\ Cardinality(R) <= Cardinality(K)
  BY <1>1, FS_Subset
<1>3. p \in R
  OBVIOUS
<1>4. Cardinality(R) \in Nat /\ Cardinality(R) # 0
  <2> HIDE DEF R
  <2> QED
    BY <1>2, <1>3, FS_CardinalityType, FS_EmptySet
<1>5. Rank(K, p) = Cardinality(R)
  BY DEF Rank
<1> HIDE DEF R
<1> QED
  BY <1>2, <1>4, <1>5, Positions

LEMMA RankGrows ==
    ASSUME NEW n \in Nat, NEW K \in SUBSET (1..n), NEW p \in K, NEW q \in K, p < q
    PROVE  Rank(K, p) < Rank(K, q)
<1> DEFINE R == {x \in K : x <= p}
           S == {x \in K : x <= q}
<1>1. IsFiniteSet(S)
  BY Positions, FS_Subset
<1>2. R \subseteq S /\ q \in S /\ q \notin R
  <2>1. \A x \in K : x \in Nat
    OBVIOUS
  <2>2. \A x \in R : x \in K /\ x <= q
    <3> SUFFICES ASSUME NEW x \in R PROVE x \in K /\ x <= q
      OBVIOUS
    <3>1. x \in K /\ x <= p /\ x \in Nat /\ p \in Nat /\ q \in Nat
      BY <2>1
    <3> QED
      BY <3>1
  <2>3. q \in K /\ q <= q /\ ~(q <= p)
    <3>1. p \in Nat /\ q \in Nat
      BY <2>1
    <3> QED
      BY <3>1
  <2> QED
    BY <2>2, <2>3
<1>3. Rank(K, p) = Cardinality(R) /\ Rank(K, q) = Cardinality(S)
  BY DEF Rank
<1> HIDE DEF R, S
<1>4. Cardinality(R) <= Cardinality(S) /\ Cardinality(R) # Cardinality(S)
  BY <1>1, <1>2, FS_Subset
<1>5. Rank(K, p) \in 1..Cardinality(K) /\ Rank(K, q) \in 1..Cardinality(K)
  BY RankRange
<1> QED
  BY <1>3, <1>4, <1>5

LEMMA RankInjective ==
    ASSUME NEW n \in Nat, NEW K \in SUBSET (1..n), NEW p \in K, NEW q \in K,
           Rank(K, p) = Rank(K, q)
    PROVE  p = q
<1>1. p \in 1..n /\ q \in 1..n
  OBVIOUS
<1>2. Rank(K, p) \in 1..Cardinality(K)
  BY RankRange
<1>3. ~(Rank(K, p) < Rank(K, q)) /\ ~(Rank(K, q) < Rank(K, p))
  BY <1>2
<1>4. ~(p < q) /\ ~(q < p)
  BY <1>3, RankGrows
<1> QED
  BY <1>1, <1>4

\* The n-th position exists: ranks are distinct, and as many as there are.
LEMMA NthPosition ==
    ASSUME NEW n \in Nat, NEW K \in SUBSET (1..n), NEW m \in 1..Cardinality(K)
    PROVE  Nth(K, m) \in K /\ Rank(K, Nth(K, m)) = m
<1> DEFINE f == [p \in K |-> Rank(K, p)]
           T == 1..Cardinality(K)
<1>1. IsFiniteSet(K) /\ Cardinality(K) \in Nat
  BY Positions
<1>2. IsFiniteSet(T) /\ Cardinality(T) = Cardinality(K)
  BY <1>1, FS_Interval
<1>3. f \in [K -> T]
  BY RankRange
<1>4. \A p, q \in K : f[p] = f[q] => p = q
  BY RankInjective
<1>5. f \in Injection(K, T)
  BY <1>3, <1>4 DEF Injection, IsInjective
<1>6. f \in Surjection(K, T)
  <2> HIDE DEF f, T
  <2> QED
    BY <1>1, <1>2, <1>5, FS_Injection
<1>7. \E p \in K : f[p] = m
  BY <1>6 DEF Surjection
<1>8. \E p \in K : Rank(K, p) = m
  BY <1>7
<1> QED
  BY <1>8 DEF Nth

LEMMA NthOfRank ==
    ASSUME NEW n \in Nat, NEW K \in SUBSET (1..n), NEW p \in K
    PROVE  Nth(K, Rank(K, p)) = p
<1>1. Rank(K, p) \in 1..Cardinality(K)
  BY RankRange
<1>2. Nth(K, Rank(K, p)) \in K /\ Rank(K, Nth(K, Rank(K, p))) = Rank(K, p)
  BY <1>1, NthPosition
<1>3. \A q \in K : Rank(K, q) = Rank(K, p) => q = p
  BY RankInjective
<1> QED
  BY <1>2, <1>3

LEMMA NthGrows ==
    ASSUME NEW n \in Nat, NEW K \in SUBSET (1..n),
           NEW l \in 1..Cardinality(K), NEW m \in 1..Cardinality(K), l < m
    PROVE  Nth(K, l) < Nth(K, m)
<1>1. /\ Nth(K, l) \in K /\ Rank(K, Nth(K, l)) = l
      /\ Nth(K, m) \in K /\ Rank(K, Nth(K, m)) = m
  BY NthPosition
<1>2. PICK p \in 1..n, q \in 1..n : p = Nth(K, l) /\ q = Nth(K, m)
  BY <1>1
<1>3. p # q
  BY <1>1, <1>2
<1>4. ~(q < p)
  <2> SUFFICES ASSUME q < p PROVE FALSE
    OBVIOUS
  <2>1. Rank(K, q) < Rank(K, p)
    BY <1>1, <1>2, RankGrows
  <2>2. m < l
    BY <1>1, <1>2, <2>1
  <2>3. l \in Nat /\ m \in Nat
    OBVIOUS
  <2> QED
    BY <2>2, <2>3
<1> QED
  BY <1>2, <1>3, <1>4

-----------------------------------------------------------------------------
(* Filtered sequences.                                                     *)

LEMMA KeptSequence ==
    ASSUME NEW S, NEW s \in Seq(S), NEW K \in SUBSET (1..Len(s))
    PROVE  /\ Kept(s, K) \in Seq(S) /\ Len(Kept(s, K)) = Cardinality(K)
           /\ Cardinality(K) \in Nat /\ Cardinality(K) <= Len(s)
<1>1. Len(s) \in Nat
  OBVIOUS
<1>2. Cardinality(K) \in Nat /\ Cardinality(K) <= Len(s)
  BY <1>1, Positions
<1>3. ASSUME NEW m \in 1..Cardinality(K) PROVE s[Nth(K, m)] \in S
  <2>1. Nth(K, m) \in 1..Len(s)
    BY <1>1, NthPosition
  <2> QED
    BY <2>1
<1>4. Kept(s, K) \in [1..Cardinality(K) -> S]
  BY <1>3 DEF Kept
<1> QED
  BY <1>2, <1>4

\* Each element of the result stood at a kept position, and in this order.
LEMMA KeptFrom ==
    ASSUME NEW S, NEW s \in Seq(S), NEW K \in SUBSET (1..Len(s)),
           NEW m \in 1..Len(Kept(s, K))
    PROVE  /\ Nth(K, m) \in K /\ Nth(K, m) \in 1..Len(s)
           /\ Kept(s, K)[m] = s[Nth(K, m)]
           /\ \A l \in 1..Len(Kept(s, K)) : l < m => Nth(K, l) < Nth(K, m)
<1>1. m \in 1..Cardinality(K) /\ Len(Kept(s, K)) = Cardinality(K) /\ Len(s) \in Nat
  BY KeptSequence
<1>2. Nth(K, m) \in K
  BY <1>1, NthPosition
<1>3. \A l \in 1..Cardinality(K) : l < m => Nth(K, l) < Nth(K, m)
  BY <1>1, NthGrows
<1> QED
  BY <1>1, <1>2, <1>3 DEF Kept

\* No kept element is lost, and none moves to the back.
LEMMA KeptAll ==
    ASSUME NEW S, NEW s \in Seq(S), NEW K \in SUBSET (1..Len(s)), NEW p \in K
    PROVE  \E m \in 1..Len(Kept(s, K)) : m <= p /\ Kept(s, K)[m] = s[p]
<1>1. Len(Kept(s, K)) = Cardinality(K) /\ Len(s) \in Nat /\ p \in 1..Len(s)
  BY KeptSequence
<1>2. Rank(K, p) \in 1..Cardinality(K) /\ Nth(K, Rank(K, p)) = p
  BY <1>1, RankRange, NthOfRank
<1>3. Rank(K, p) <= p
  <2>1. {q \in K : q <= p} \in SUBSET (1..p)
    <3> SUFFICES ASSUME NEW q \in K, q <= p PROVE q \in 1..p
      OBVIOUS
    <3>1. q \in 1..Len(s) /\ q \in Nat /\ 1 <= q /\ p \in Nat
      BY <1>1
    <3> QED
      BY <3>1
  <2>2. p \in Nat
    BY <1>1
  <2>3. Cardinality({q \in K : q <= p}) <= p
    BY <2>1, <2>2, Positions
  <2> QED
    BY <2>3 DEF Rank
<1>4. Kept(s, K)[Rank(K, p)] = s[p]
  BY <1>2 DEF Kept
<1> QED
  BY <1>1, <1>2, <1>3, <1>4
=============================================================================
