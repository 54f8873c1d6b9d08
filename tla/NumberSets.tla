------------------------------ MODULE NumberSets ------------------------------
(***************************************************************************)
(* Facts about sets of natural numbers that the proofs of several modules  *)
(* rest on.  Induction is stated for a set, not for a predicate: to prove  *)
(* P(n) for every n, take the set {n \in Nat : P(n)}.                      *)
(***************************************************************************)
EXTENDS Integers, FiniteSets, FiniteSetTheorems, WellFoundedInduction, TLAPS

\* A finite set of numbers that is not empty has a greatest one: among the sets of the
\* elements above some element there is a smallest.
LEMMA GreatestExists ==
  ASSUME NEW S \in SUBSET Nat, IsFiniteSet(S), S # {}
  PROVE  \E m \in S : \A k \in S : k <= m
<1> DEFINE Above == [k \in S |-> {j \in S : k < j}]
           T == {Above[k] : k \in S}
<1>1. T \subseteq FiniteSubsetsOf(S)
  <2>1. \A k \in S : Above[k] \in SUBSET S /\ IsFiniteSet(Above[k])
    BY FS_Subset
  <2> QED BY <2>1 DEF FiniteSubsetsOf
<1>2. T # {}
  OBVIOUS
<1>3. PICK x \in T : \A y \in T : ~(<<y, x>> \in StrictSubsetOrdering(S))
  <2> HIDE DEF T
  <2> QED BY <1>1, <1>2, FS_StrictSubsetOrderingWellFounded, WFMin
<1>4. PICK m \in S : x = Above[m]
  OBVIOUS
<1>5. ASSUME NEW k \in S, m < k
      PROVE  FALSE
  <2>1. Above[k] \subseteq Above[m]
    <3>1. \A j \in S : k < j => m < j
      BY <1>5
    <3> QED BY <3>1
  <2>2. k \in Above[m] /\ k \notin Above[k]
    BY <1>5
  <2>3. Above[k] \in T /\ Above[k] \subseteq S /\ Above[m] \subseteq S
    OBVIOUS
  <2> QED BY <1>3, <1>4, <2>1, <2>2, <2>3 DEF StrictSubsetOrdering
<1> QED BY <1>5

\* Every set of natural numbers that is not empty, finite or not, has a least element.
LEMMA LeastExists ==
  ASSUME NEW S \in SUBSET Nat, S # {}
  PROVE  \E m \in S : \A k \in S : m <= k
<1>1. PICK n \in S : TRUE
  OBVIOUS
<1> DEFINE T == {j \in 0 .. n : n - j \in S}
<1>2. T \in SUBSET Nat /\ IsFiniteSet(T)
  <2>1. IsFiniteSet(0 .. n)
    BY FS_Interval
  <2> QED BY <2>1, FS_Subset
<1>3. 0 \in T
  OBVIOUS
<1>4. PICK j \in T : \A k \in T : k <= j
  <2> HIDE DEF T
  <2> QED BY <1>2, <1>3, GreatestExists
<1>5. ASSUME NEW k \in S PROVE n - j <= k
  <2>1. CASE n < k
    BY <2>1
  <2>2. CASE k <= n
    <3>1. n - k \in T
      <4>1. n - (n - k) = k
        OBVIOUS
      <4> QED BY <2>2, <4>1
    <3> QED BY <1>4, <3>1
  <2> QED BY <2>1, <2>2
<1> QED BY <1>5

\* Induction over the natural numbers.
LEMMA NatStep ==
  ASSUME NEW S, 0 \in S, \A n \in Nat : n \in S => n + 1 \in S
  PROVE  \A n \in Nat : n \in S
<1> DEFINE T == Nat \ S
<1>1. SUFFICES ASSUME T # {} PROVE FALSE
  OBVIOUS
<1>2. PICK m \in T : \A k \in T : m <= k
  <2> HIDE DEF T
  <2>1. T \in SUBSET Nat
    BY DEF T
  <2> QED BY <1>1, <2>1, LeastExists
<1>3. m - 1 \in Nat /\ m - 1 \in S
  BY <1>2
<1> QED BY <1>3

\* Induction along the numbers from m to n.
LEMMA IntervalStep ==
  ASSUME NEW m \in Nat, NEW n \in Nat, NEW S, m \in S, \A i \in m .. n - 1 : i \in S => i + 1 \in S
  PROVE  \A i \in m .. n : i \in S
<1> DEFINE T == {k \in Nat : m + k <= n => m + k \in S}
<1>1. 0 \in T
  OBVIOUS
<1>2. ASSUME NEW k \in Nat, k \in T PROVE k + 1 \in T
  <2>1. SUFFICES ASSUME m + (k + 1) <= n PROVE m + (k + 1) \in S
    OBVIOUS
  <2>2. m + k \in m .. n - 1 /\ m + k \in S /\ m + (k + 1) = (m + k) + 1
    BY <1>2, <2>1
  <2> QED BY <2>2
<1>3. \A k \in Nat : k \in T
  <2> HIDE DEF T
  <2> QED BY <1>1, <1>2, NatStep
<1>4. \A i \in m .. n : i - m \in Nat /\ m + (i - m) = i /\ m + (i - m) <= n
  OBVIOUS
<1> QED BY <1>3, <1>4

=============================================================================
