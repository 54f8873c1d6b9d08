----------------------- MODULE TaskAllocation_proofs -----------------------
(***************************************************************************)
(* Proofs about TaskAllocation: the invariant of the whole pipeline and    *)
(* its five properties, for every set of requests and every map.           *)
(*                                                                         *)
(* A fold over a sequence is worked off by FoldExists and FoldRun: there   *)
(* is a sequence of the accumulators it goes through, from which each loop *)
(* of the code is reasoned about like a run of a program (TidiedRun,       *)
(* OccupiedRun, ReplacedRun and the like).  What a loop adds to chains and *)
(* spare tasks is said by Joined, Absorbed, Mended, Answers; what a plan   *)
(* is by Planned, AllKnown (its legs are known), Once (no task twice).     *)
(* Invariant puts them together, phase by phase.                           *)
(***************************************************************************)
EXTENDS TaskAllocation, NumberSets, TLAPS

-----------------------------------------------------------------------------
(* Least and greatest elements.                                            *)

\* A finite set has an element below which there is none, in any order.
LEMMA MinimalExists ==
  ASSUME NEW S, IsFiniteSet(S), S # {}, NEW R,
         \A x \in S : <<x, x>> \notin R,
         \A x, y, z \in S : <<x, y>> \in R /\ <<y, z>> \in R => <<x, z>> \in R
  PROVE  \E m \in S : \A k \in S : <<k, m>> \notin R
<1> DEFINE Below == [k \in S |-> {j \in S : <<j, k>> \in R}]
           T == {Below[k] : k \in S}
<1>1. T \subseteq FiniteSubsetsOf(S)
  <2>1. ASSUME NEW k \in S PROVE Below[k] \in SUBSET S /\ IsFiniteSet(Below[k])
    <3>1. Below[k] \in SUBSET S
      OBVIOUS
    <3> HIDE DEF Below
    <3> QED BY <3>1, FS_Subset
  <2>2. ASSUME NEW x \in T PROVE x \in FiniteSubsetsOf(S)
    <3>1. PICK k \in S : x = Below[k]
      OBVIOUS
    <3> HIDE DEF Below, T
    <3> QED BY <2>1, <3>1 DEF FiniteSubsetsOf
  <2> QED BY <2>2
<1>2. T # {}
  <2>1. PICK k \in S : TRUE
    OBVIOUS
  <2>2. Below[k] \in T
    OBVIOUS
  <2> HIDE DEF T
  <2> QED BY <2>2
<1>3. PICK x \in T : \A y \in T : ~(<<y, x>> \in StrictSubsetOrdering(S))
  <2> HIDE DEF T
  <2> QED BY <1>1, <1>2, FS_StrictSubsetOrderingWellFounded, WFMin
<1>4. PICK m \in S : x = Below[m]
  OBVIOUS
<1>5. ASSUME NEW k \in S, <<k, m>> \in R
      PROVE  FALSE
  <2>1. Below[k] \subseteq Below[m]
    <3>1. \A j \in S : <<j, k>> \in R => <<j, m>> \in R
      BY <1>5
    <3> QED BY <3>1
  <2>2. k \in Below[m] /\ k \notin Below[k]
    BY <1>5
  <2>3. Below[k] \in T /\ Below[k] \subseteq S /\ Below[m] \subseteq S
    OBVIOUS
  <2> QED BY <1>3, <1>4, <2>1, <2>2, <2>3 DEF StrictSubsetOrdering
<1> QED BY <1>5

\* A finite set of numbers has a least and a greatest element.
LEMMA MinMaxIn ==
  ASSUME NEW S \in SUBSET Int, IsFiniteSet(S), S # {}
  PROVE  /\ Min(S) \in S /\ \A k \in S : Min(S) <= k
         /\ Max(S) \in S /\ \A k \in S : k <= Max(S)
<1> DEFINE Up == {x \in S \X S : x[1] < x[2]}
           Down == {x \in S \X S : x[2] < x[1]}
<1>1. PICK m \in S : \A k \in S : <<k, m>> \notin Up
  <2>1. \A x \in S : <<x, x>> \notin Up
    OBVIOUS
  <2>2. \A x, y, z \in S : <<x, y>> \in Up /\ <<y, z>> \in Up => <<x, z>> \in Up
    OBVIOUS
  <2> HIDE DEF Up
  <2> QED BY <2>1, <2>2, MinimalExists
<1>2. PICK n \in S : \A k \in S : <<k, n>> \notin Down
  <2>1. \A x \in S : <<x, x>> \notin Down
    OBVIOUS
  <2>2. \A x, y, z \in S : <<x, y>> \in Down /\ <<y, z>> \in Down => <<x, z>> \in Down
    OBVIOUS
  <2> HIDE DEF Down
  <2> QED BY <2>1, <2>2, MinimalExists
<1>3. ASSUME NEW k \in S PROVE m <= k
  <2>1. k < m => <<k, m>> \in Up
    OBVIOUS
  <2>2. ~(k < m)
    BY <1>1, <2>1
  <2> QED BY <2>2
<1>4. ASSUME NEW k \in S PROVE n >= k
  <2>1. n < k => <<k, n>> \in Down
    OBVIOUS
  <2>2. ~(n < k)
    BY <1>2, <2>1
  <2> QED BY <2>2
<1>5. Min(S) \in S /\ \A k \in S : Min(S) <= k
  BY <1>3 DEF Min
<1>6. Max(S) \in S /\ \A k \in S : Max(S) >= k
  BY <1>4 DEF Max
<1> QED BY <1>5, <1>6

-----------------------------------------------------------------------------
(* Sequences, recursion and folds.                                         *)

Run(f, U, b, n, O) ==
    /\ f \in [0..n -> U]
    /\ f[0] = b
    /\ \A k \in 1..n : f[k] = O[<<f[k - 1], k>>]

\* A step function has a run from every start.
LEMMA Iterated ==
  ASSUME NEW U, NEW b \in U, NEW n \in Nat, NEW O \in [U \X (1..n) -> U]
  PROVE  \E f : Run(f, U, b, n, O)
<1> DEFINE T == {m \in 0..n : \E f \in [0..m -> U] :
                   f[0] = b /\ \A k \in 1..m : f[k] = O[<<f[k - 1], k>>]}
<1>1. 0 \in T
  <2> DEFINE f == [k \in 0..0 |-> b]
  <2>1. f \in [0..0 -> U] /\ f[0] = b /\ 1..0 = {}
    OBVIOUS
  <2> HIDE DEF f
  <2> QED BY <2>1
<1>2. ASSUME NEW m \in 0..n - 1, m \in T PROVE m + 1 \in T
  <2>1. PICK f \in [0..m -> U] : f[0] = b /\ \A k \in 1..m : f[k] = O[<<f[k - 1], k>>]
    BY <1>2
  <2> DEFINE g == [k \in 0..m + 1 |-> IF k = m + 1 THEN O[<<f[m], m + 1>>] ELSE f[k]]
  <2>2. g \in [0..m + 1 -> U] /\ g[0] = b
    <3>1. <<f[m], m + 1>> \in U \X (1..n)
      OBVIOUS
    <3> QED BY <2>1, <3>1
  <2>3. ASSUME NEW k \in 1..m + 1 PROVE g[k] = O[<<g[k - 1], k>>]
    <3>1. CASE k = m + 1
      <4>1. k - 1 = m /\ m \in 0..m + 1 /\ m # m + 1
        BY <3>1
      <4> QED BY <3>1, <4>1
    <3>2. CASE k # m + 1
      <4>1. k \in 1..m /\ k - 1 \in 0..m /\ k - 1 # m + 1
        BY <3>2
      <4> QED BY <2>1, <3>2, <4>1
    <3> QED BY <3>1, <3>2
  <2> HIDE DEF g
  <2>4. m + 1 \in 0..n
    OBVIOUS
  <2> QED BY <2>2, <2>3, <2>4
<1>3. n \in T
  <2> HIDE DEF T
  <2>1. \A i \in 0..n : i \in T
    BY <1>1, <1>2, IntervalStep
  <2> QED BY <2>1
<1> QED BY <1>3 DEF Run

\* The greatest element of a set that has one.
LEMMA MaxIs ==
  ASSUME NEW S \in SUBSET Int, NEW m \in S, \A k \in S : k <= m
  PROVE  Max(S) = m
<1>1. \A k \in S : m >= k
  OBVIOUS
<1>2. Max(S) \in S /\ \A k \in S : Max(S) >= k
  BY <1>1 DEF Max
<1>3. Max(S) >= m /\ m >= Max(S) /\ Max(S) \in Int /\ m \in Int
  BY <1>1, <1>2
<1> QED BY ONLY <1>3

Along(f, U, b, s, O) ==
    /\ f \in [0..Len(s) -> U]
    /\ f[0] = b
    /\ \A k \in 1..Len(s) : f[k] = O[<<f[k - 1], s[k]>>]

Unfolds(h, U, b, s, O) ==
    \A t \in SUBSET DOMAIN s :
        t = {} \/ h[t \ {Max(t)}] \in U =>
            h[t] = IF t = {} THEN b ELSE O[<<h[t \ {Max(t)}], s[Max(t)]>>]

Folds(f, h, U, b, s, O) == Along(f, U, b, s, O) /\ h[DOMAIN s] = f[Len(s)]

Table(h, U, b, B, s, O) ==
    /\ h \in [SUBSET DOMAIN s -> U] /\ Unfolds(h, U, b, s, O)
    /\ \A t \in SUBSET DOMAIN s : t # {} => s[Max(t)] \in B

\* The fold of a sequence goes by the greatest position of a set of positions:
\* such a function on the sets of positions exists.
LEMMA FoldExists ==
  ASSUME NEW U, NEW b \in U, NEW B, NEW s \in Seq(B), NEW O \in [U \X B -> U]
  PROVE  \E h : Table(h, U, b, B, s, O)
<1> DEFINE T == {m \in 0..Len(s) : \E h \in [SUBSET (1..m) -> U] : \A t \in SUBSET (1..m) :
                   h[t] = IF t = {} THEN b ELSE O[<<h[t \ {Max(t)}], s[Max(t)]>>]}
<1>1. 0 \in T
  <2> DEFINE h == [t \in SUBSET (1..0) |-> b]
  <2>1. \A t \in SUBSET (1..0) : t = {}
    OBVIOUS
  <2>2. h \in [SUBSET (1..0) -> U] /\ \A t \in SUBSET (1..0) : h[t] = b
    OBVIOUS
  <2>3. \A t \in SUBSET (1..0) : h[t] = IF t = {} THEN b ELSE O[<<h[t \ {Max(t)}], s[Max(t)]>>]
    BY <2>1, <2>2
  <2>4. 0 \in 0..Len(s)
    OBVIOUS
  <2> HIDE DEF h
  <2> QED BY <2>2, <2>3, <2>4
<1>2. ASSUME NEW m \in 0..Len(s) - 1, m \in T PROVE m + 1 \in T
  <2>1. PICK h \in [SUBSET (1..m) -> U] : \A t \in SUBSET (1..m) :
                   h[t] = IF t = {} THEN b ELSE O[<<h[t \ {Max(t)}], s[Max(t)]>>]
    BY <1>2
  <2> DEFINE g == [t \in SUBSET (1..m + 1) |->
                     IF m + 1 \in t THEN O[<<h[t \ {m + 1}], s[m + 1]>>] ELSE h[t]]
  <2>2. ASSUME NEW t \in SUBSET (1..m + 1)
        PROVE  /\ m + 1 \notin t => t \in SUBSET (1..m)
               /\ t \ {m + 1} \in SUBSET (1..m)
    OBVIOUS
  <2>3. s[m + 1] \in B
    OBVIOUS
  <2>4. g \in [SUBSET (1..m + 1) -> U]
    <3>1. ASSUME NEW t \in SUBSET (1..m + 1) PROVE g[t] \in U
      <4>1. CASE m + 1 \in t
        <5>1. h[t \ {m + 1}] \in U
          BY <2>2
        <5>2. <<h[t \ {m + 1}], s[m + 1]>> \in U \X B
          BY <2>3, <5>1
        <5> QED BY <4>1, <5>2
      <4>2. CASE m + 1 \notin t
        BY <2>2, <4>2
      <4> QED BY <4>1, <4>2
    <3> QED BY <3>1
  <2>5. ASSUME NEW t \in SUBSET (1..m + 1)
        PROVE  g[t] = IF t = {} THEN b ELSE O[<<g[t \ {Max(t)}], s[Max(t)]>>]
    <3>1. CASE m + 1 \in t
      <4>1. Max(t) = m + 1
        <5>1. t \in SUBSET Int /\ \A k \in t : k <= m + 1
          OBVIOUS
        <5> QED BY ONLY <3>1, <5>1, MaxIs
      <4>2. t \ {m + 1} \in SUBSET (1..m + 1) /\ g[t \ {m + 1}] = h[t \ {m + 1}]
        OBVIOUS
      <4> QED BY <3>1, <4>1, <4>2
    <3>2. CASE m + 1 \notin t
      <4>1. t \in SUBSET (1..m) /\ g[t] = h[t]
        BY <2>2, <3>2
      <4>2. CASE t = {}
        BY <2>1, <4>1, <4>2
      <4>3. CASE t # {}
        <5>1. t \ {Max(t)} \in SUBSET (1..m + 1) /\ m + 1 \notin t \ {Max(t)}
          BY <3>2
        <5>2. g[t \ {Max(t)}] = h[t \ {Max(t)}]
          BY <5>1
        <5> QED BY <2>1, <4>1, <4>3, <5>2
      <4> QED BY <4>2, <4>3
    <3> QED BY <3>1, <3>2
  <2> HIDE DEF g
  <2>6. m + 1 \in 0..Len(s)
    OBVIOUS
  <2> QED BY <2>4, <2>5, <2>6
<1>3. Len(s) \in T
  <2> HIDE DEF T
  <2>1. Len(s) \in Nat
    OBVIOUS
  <2>2. \A i \in 0..Len(s) : i \in T
    BY <1>1, <1>2, <2>1, IntervalStep
  <2> QED BY <2>1, <2>2
<1>4. DOMAIN s = 1..Len(s)
  OBVIOUS
<1>5. ASSUME NEW t \in SUBSET DOMAIN s, t # {} PROVE s[Max(t)] \in B
  <2>1. Len(s) \in Nat
    OBVIOUS
  <2>2. IsFiniteSet(1..Len(s))
    BY <2>1, FS_Interval
  <2>3. t \in SUBSET Int /\ IsFiniteSet(t)
    BY <1>4, <2>2, FS_Subset
  <2>4. Max(t) \in t
    BY <1>5, <2>3, MinMaxIn
  <2> QED BY <2>4
<1> QED BY <1>3, <1>4, <1>5 DEF Unfolds, Table

\* Whatever function of sets of positions makes the steps of the fold, what it
\* gives for all positions is the end of a run along the sequence.
LEMMA FoldRun ==
  ASSUME NEW U, NEW b \in U, NEW B, NEW s \in Seq(B), NEW O \in [U \X B -> U], NEW h,
         Unfolds(h, U, b, s, O)
  PROVE  \E f : Folds(f, h, U, b, s, O)
<1> DEFINE P == [x \in U \X (1..Len(s)) |-> O[<<x[1], s[x[2]]>>]]
<1>1. P \in [U \X (1..Len(s)) -> U]
  <2>1. ASSUME NEW x \in U \X (1..Len(s)) PROVE <<x[1], s[x[2]]>> \in U \X B
    OBVIOUS
  <2> QED BY <2>1
<1>2. PICK f : Run(f, U, b, Len(s), P)
  <2> HIDE DEF P
  <2>1. Len(s) \in Nat
    OBVIOUS
  <2> QED BY <1>1, <2>1, Iterated
<1>3. ASSUME NEW k \in 1..Len(s) PROVE f[k] = O[<<f[k - 1], s[k]>>]
  <2>1. k - 1 \in 0..Len(s)
    OBVIOUS
  <2>2. f[k - 1] \in U
    BY <1>2, <2>1 DEF Run
  <2>3. <<f[k - 1], k>> \in U \X (1..Len(s))
    BY <2>2
  <2> QED BY <1>2, <2>3 DEF Run
<1> DEFINE T == {k \in 0..Len(s) : h[1..k] = f[k]}
<1>4. 0 \in T
  <2>1. 1..0 = {}
    OBVIOUS
  <2>2. h[{}] = b
    BY DEF Unfolds
  <2> QED BY <1>2, <2>1, <2>2 DEF Run
<1>5. ASSUME NEW k \in 0..Len(s) - 1, k \in T PROVE k + 1 \in T
  <2> DEFINE t == 1..k + 1
  <2>1. Max(t) = k + 1
    <3>1. t \in SUBSET Int /\ k + 1 \in t /\ \A j \in t : j <= k + 1
      OBVIOUS
    <3> HIDE DEF t
    <3> QED BY <3>1, MaxIs
  <2>2. t \in SUBSET DOMAIN s /\ t # {} /\ t \ {k + 1} = 1..k
    <3>1. DOMAIN s = 1..Len(s) /\ k + 1 <= Len(s) /\ k + 1 \in t
      OBVIOUS
    <3>2. t \ {k + 1} = 1..k
      OBVIOUS
    <3>3. t \subseteq 1..Len(s)
      OBVIOUS
    <3> QED BY <3>1, <3>2, <3>3
  <2>3. h[1..k] = f[k] /\ f[k] \in U
    BY <1>2, <1>5 DEF Run
  <2>4. h[t] = O[<<h[1..k], s[k + 1]>>]
    <3> HIDE DEF t
    <3>1. h[t \ {Max(t)}] \in U
      BY <2>1, <2>2, <2>3
    <3>2. h[t] = O[<<h[t \ {Max(t)}], s[Max(t)]>>]
      BY <2>2, <3>1 DEF Unfolds
    <3> QED BY <2>1, <2>2, <3>2
  <2>5. f[k + 1] = O[<<f[k], s[k + 1]>>]
    <3>1. k + 1 \in 1..Len(s) /\ (k + 1) - 1 = k
      OBVIOUS
    <3> QED BY <1>3, <3>1
  <2>6. k + 1 \in 0..Len(s)
    OBVIOUS
  <2> QED BY <2>3, <2>4, <2>5, <2>6
<1>6. Len(s) \in T
  <2> HIDE DEF T
  <2>1. Len(s) \in Nat
    OBVIOUS
  <2>2. \A i \in 0..Len(s) : i \in T
    BY <1>4, <1>5, <2>1, IntervalStep
  <2> QED BY <2>1, <2>2
<1>7. DOMAIN s = 1..Len(s)
  OBVIOUS
<1> QED BY <1>2, <1>3, <1>6, <1>7 DEF Run, Along, Folds

-----------------------------------------------------------------------------
(* Parts of a sequence.                                                    *)

\* The numbers from 1 to n are a sequence.
LEMMA NumbersFacts ==
  ASSUME NEW n \in Nat
  PROVE  /\ Numbers(n) \in Seq(1..n) /\ Len(Numbers(n)) = n
         /\ \A k \in 1..n : Numbers(n)[k] = k
BY DEF Numbers

Picked(f, S, s, I) ==
    /\ f \in [0..Len(s) -> Seq(S)]
    /\ f[0] = <<>>
    /\ \A k \in 1..Len(s) : f[k] = IF k \in I THEN Append(f[k - 1], s[k]) ELSE f[k - 1]
    /\ Chosen(s, I) = f[Len(s)]

\* The choice of positions is made one by one.
LEMMA ChosenRun ==
  ASSUME NEW S, NEW s \in Seq(S), NEW I
  PROVE  \E f : Picked(f, S, s, I)
<1> DEFINE n == Len(s)
           U == Seq(S)
           O == [x \in U \X (1..n) |-> IF x[2] \in I THEN Append(x[1], s[x[2]]) ELSE x[1]]
           Grows(f) == [k \in 0..n |-> IF k = 0 THEN <<>>
                                       ELSE IF k \in I THEN Append(f[k - 1], s[k]) ELSE f[k - 1]]
           Grown == CHOOSE f : f = Grows(f)
<1>1. n \in Nat /\ <<>> \in U
  OBVIOUS
<1>2. O \in [U \X (1..n) -> U]
  <2>1. ASSUME NEW x \in U \X (1..n)
        PROVE  (IF x[2] \in I THEN Append(x[1], s[x[2]]) ELSE x[1]) \in U
    OBVIOUS
  <2> QED BY <2>1
<1>3. PICK f : Run(f, U, <<>>, n, O)
  <2> HIDE DEF O, n, U
  <2> QED BY <1>1, <1>2, Iterated
<1>4. ASSUME NEW k \in 1..n
      PROVE  f[k] = IF k \in I THEN Append(f[k - 1], s[k]) ELSE f[k - 1]
  <2>1. k - 1 \in 0..n
    BY <1>1
  <2>2. f[k - 1] \in U
    BY <1>3, <2>1 DEF Run
  <2>3. f[k] = O[<<f[k - 1], k>>] /\ <<f[k - 1], k>> \in U \X (1..n)
    BY <1>3, <2>2 DEF Run
  <2> HIDE DEF n, U
  <2> QED BY <2>3
<1>5. f = Grows(f)
  <2>1. f \in [0..n -> U] /\ f[0] = <<>>
    BY <1>3 DEF Run
  <2>2. ASSUME NEW k \in 0..n PROVE f[k] = Grows(f)[k]
    <3>1. CASE k = 0
      BY <2>1, <3>1
    <3>2. CASE k # 0
      <4>1. k \in 1..n
        BY <1>1, <3>2
      <4>2. f[k] = IF k \in I THEN Append(f[k - 1], s[k]) ELSE f[k - 1]
        BY <1>4, <4>1
      <4> HIDE DEF U, n
      <4> QED BY <3>2, <4>2
    <3> QED BY <3>1, <3>2
  <2> HIDE DEF U
  <2> QED BY <2>1, <2>2
<1>6. Grown = Grows(Grown)
  <2> HIDE DEF Grows
  <2> QED BY <1>5
<1>7. Chosen(s, I) = Grown[n]
  BY DEF Chosen
<1> DEFINE T == {k \in 0..n : Grown[k] = f[k]}
<1> HIDE DEF Grown
<1>8. /\ Grown[0] = <<>>
      /\ \A k \in 1..n :
           Grown[k] = IF k \in I THEN Append(Grown[k - 1], s[k]) ELSE Grown[k - 1]
  <2>1. \A k \in 0..n : Grows(Grown)[k] =
          IF k = 0 THEN <<>>
          ELSE IF k \in I THEN Append(Grown[k - 1], s[k]) ELSE Grown[k - 1]
    <3> HIDE DEF n
    <3> QED OBVIOUS
  <2>2. \A k \in 0..n : Grown[k] = Grows(Grown)[k]
    <3> HIDE DEF Grows
    <3> QED BY <1>6
  <2>3. 0 \in 0..n /\ \A k \in 1..n : k \in 0..n /\ k # 0
    BY <1>1
  <2> HIDE DEF Grows, n
  <2> QED BY <2>1, <2>2, <2>3
<1>9. 0 \in T
  <2>1. Grown[0] = <<>> /\ 0 \in 0..n
    BY <1>1, <1>8
  <2> QED BY <1>3, <2>1 DEF Run
<1>10. ASSUME NEW k \in 0..n - 1, k \in T PROVE k + 1 \in T
  <2>1. k + 1 \in 1..n /\ (k + 1) - 1 = k /\ k + 1 \in 0..n
    BY <1>1
  <2> HIDE DEF n, Grows
  <2> QED BY <1>4, <1>8, <1>10, <2>1
<1>11. Grown[n] = f[n]
  <2>1. \A i \in 0..n : i \in T
    <3> HIDE DEF T, n
    <3> QED BY <1>1, <1>9, <1>10, IntervalStep
  <2> QED BY <1>1, <2>1
<1> QED BY <1>3, <1>4, <1>7, <1>11 DEF Run, Picked

Positions(pos, s, I, c) ==
    /\ pos \in [1..Len(c) -> DOMAIN s \cap I]
    /\ \A i \in 1..Len(c) : c[i] = s[pos[i]]
    /\ \A i, j \in 1..Len(c) : i < j => pos[i] < pos[j]
    /\ \A k \in DOMAIN s \cap I : \E i \in 1..Len(c) : pos[i] = k

\* What is chosen are the elements at these positions, each once and in order.
LEMMA ChosenPositions ==
  ASSUME NEW S, NEW s \in Seq(S), NEW I
  PROVE  /\ Chosen(s, I) \in Seq(S)
         /\ \E pos : Positions(pos, s, I, Chosen(s, I))
<1>1. PICK f : Picked(f, S, s, I)
  BY ChosenRun
<1> DEFINE n == Len(s)
           Q(k, pos) ==
             /\ pos \in [1..Len(f[k]) -> (1..k) \cap I]
             /\ \A i \in 1..Len(f[k]) : f[k][i] = s[pos[i]]
             /\ \A i, j \in 1..Len(f[k]) : i < j => pos[i] < pos[j]
             /\ \A m \in (1..k) \cap I : \E i \in 1..Len(f[k]) : pos[i] = m
           T == {k \in 0..n : \E pos : Q(k, pos)}
<1>2. n \in Nat /\ DOMAIN s = 1..n /\ n \in 0..n /\ \A k \in 0..n : f[k] \in Seq(S)
  <2>1. n \in Nat /\ DOMAIN s = 1..n
    OBVIOUS
  <2>2. f \in [0..n -> Seq(S)]
    BY <1>1 DEF Picked
  <2> QED BY <2>1, <2>2
<1>3. 0 \in T
  <2>1. f[0] = <<>> /\ 1..0 = {} /\ Len(<<>>) = 0
    BY <1>1 DEF Picked
  <2>2. Q(0, [i \in 1..0 |-> 0])
    BY <2>1
  <2> HIDE DEF Q
  <2> QED BY <1>2, <2>2
<1>4. ASSUME NEW k \in 0..n - 1, k \in T PROVE k + 1 \in T
  <2>1. PICK pos : Q(k, pos)
    BY <1>4
  <2>2. k + 1 \in 1..n /\ (k + 1) - 1 = k /\ k + 1 \in 0..n /\ k \in 0..n /\ k \in Nat
    BY <1>2
  <2>3. f[k + 1] = IF k + 1 \in I THEN Append(f[k], s[k + 1]) ELSE f[k]
    BY <1>1, <2>2 DEF Picked
  <2>4. f[k] \in Seq(S) /\ s[k + 1] \in S
    BY <1>2, <2>2
  <2>5. CASE k + 1 \notin I
    <3>1. f[k + 1] = f[k] /\ (1..k + 1) \cap I = (1..k) \cap I
      BY <2>2, <2>3, <2>5
    <3>2. Q(k + 1, pos)
      BY <2>1, <3>1
    <3> HIDE DEF Q
    <3> QED BY <2>2, <3>2
  <2>6. CASE k + 1 \in I
    <3> DEFINE m == Len(f[k])
               new == [i \in 1..m + 1 |-> IF i = m + 1 THEN k + 1 ELSE pos[i]]
    <3>1. m \in Nat /\ Len(f[k + 1]) = m + 1 /\ f[k + 1][m + 1] = s[k + 1]
          /\ \A i \in 1..m : f[k + 1][i] = f[k][i]
      BY <2>3, <2>4, <2>6
    <3>2. \A i \in 1..m : pos[i] \in (1..k) \cap I
      BY <2>1
    <3>3. \A i \in 1..m + 1 : new[i] \in (1..k + 1) \cap I
      BY <2>2, <2>6, <3>1, <3>2
    <3>4. \A i \in 1..m + 1 : f[k + 1][i] = s[new[i]]
      BY <2>1, <3>1
    <3>5. ASSUME NEW i \in 1..m + 1, NEW j \in 1..m + 1, i < j PROVE new[i] < new[j]
      <4>1. i \in 1..m /\ new[i] = pos[i]
        BY <3>1, <3>5
      <4>2. CASE j = m + 1
        BY <2>2, <3>2, <4>1, <4>2
      <4>3. CASE j # m + 1
        <5>1. j \in 1..m /\ new[j] = pos[j]
          BY <3>1, <4>3
        <5> QED BY <2>1, <3>5, <4>1, <5>1
      <4> QED BY <4>2, <4>3
    <3>6. ASSUME NEW l \in (1..k + 1) \cap I PROVE \E i \in 1..m + 1 : new[i] = l
      <4>1. CASE l = k + 1
        <5>1. m + 1 \in 1..m + 1 /\ new[m + 1] = k + 1
          BY <3>1
        <5> QED BY <4>1, <5>1
      <4>2. CASE l # k + 1
        <5>1. l \in (1..k) \cap I
          BY <2>2, <4>2
        <5>2. PICK i \in 1..m : pos[i] = l
          BY <2>1, <5>1
        <5>3. i \in 1..m + 1 /\ i # m + 1
          BY <3>1
        <5> QED BY <5>2, <5>3
      <4> QED BY <4>1, <4>2
    <3>7. new \in [1..m + 1 -> (1..k + 1) \cap I]
      BY <3>3
    <3> HIDE DEF new, m
    <3>8. Q(k + 1, new)
      BY <3>1, <3>4, <3>5, <3>6, <3>7
    <3> HIDE DEF Q
    <3> QED BY <2>2, <3>8
  <2> QED BY <2>5, <2>6
<1>5. n \in T
  <2> HIDE DEF T
  <2>1. \A i \in 0..n : i \in T
    <3> HIDE DEF n
    <3> QED BY <1>2, <1>3, <1>4, IntervalStep
  <2> QED BY <1>2, <2>1
<1>6. PICK pos : Q(n, pos)
  BY <1>5
<1>7. Chosen(s, I) = f[n]
  BY <1>1 DEF Picked
<1>8. f[n] \in Seq(S)
  BY <1>2
<1>9. Positions(pos, s, I, f[n])
  BY <1>2, <1>6 DEF Positions
<1> HIDE DEF n
<1> QED BY <1>7, <1>8, <1>9

\* No element is chosen that is not there, and none at these positions is missed.
LEMMA ChosenRange ==
  ASSUME NEW S, NEW s \in Seq(S), NEW I
  PROVE  ToSet(Chosen(s, I)) = {s[k] : k \in DOMAIN s \cap I}
<1> DEFINE c == Chosen(s, I)
<1>1. c \in Seq(S)
  BY ChosenPositions
<1>2. PICK pos : Positions(pos, s, I, c)
  BY ChosenPositions
<1>3. DOMAIN c = 1..Len(c)
  BY <1>1
<1> HIDE DEF c
<1>4. ToSet(c) = {s[k] : k \in DOMAIN s \cap I}
  BY <1>2, <1>3 DEF Positions, ToSet
<1> QED BY <1>4 DEF c

\* What is chosen is in the sequence, and once if it was there once.
LEMMA ChosenSubset ==
  ASSUME NEW S, NEW s \in Seq(S), NEW I
  PROVE  /\ ToSet(Chosen(s, I)) \subseteq ToSet(s)
         /\ IsInjective(s) => IsInjective(Chosen(s, I))
<1> DEFINE c == Chosen(s, I)
<1>1. c \in Seq(S)
  BY ChosenPositions
<1>2. PICK pos : Positions(pos, s, I, c)
  BY ChosenPositions
<1>3. ToSet(c) \subseteq ToSet(s)
  <2>1. ToSet(s) = {s[k] : k \in DOMAIN s}
    BY DEF ToSet
  <2> QED BY <2>1, ChosenRange
<1> HIDE DEF c
<1>4. /\ DOMAIN c = 1..Len(c) /\ Len(c) \in Nat
      /\ \A i \in 1..Len(c) : pos[i] \in DOMAIN s /\ c[i] = s[pos[i]]
      /\ \A i, j \in 1..Len(c) : i < j => pos[i] < pos[j]
  <2>1. DOMAIN c = 1..Len(c) /\ Len(c) \in Nat
    BY <1>1
  <2>2. /\ \A i \in 1..Len(c) : pos[i] \in DOMAIN s /\ c[i] = s[pos[i]]
        /\ \A i, j \in 1..Len(c) : i < j => pos[i] < pos[j]
    BY <1>2 DEF Positions
  <2> QED BY <2>1, <2>2
<1>5. ASSUME IsInjective(s), NEW i \in 1..Len(c), NEW j \in 1..Len(c), c[i] = c[j]
      PROVE  i = j
  <2>1. pos[i] = pos[j]
    BY <1>4, <1>5 DEF IsInjective
  <2>2. ~(i < j) /\ ~(j < i)
    <3>1. pos[i] \in Int /\ pos[j] \in Int
      BY <1>4
    <3> QED BY <1>4, <2>1, <3>1
  <2> QED BY <1>4, <2>2
<1>6. IsInjective(s) => IsInjective(c)
  BY <1>4, <1>5 DEF IsInjective
<1> QED BY <1>3, <1>6 DEF c

\* Two sequences one after the other have the elements of both, and repeat none
\* if neither does and they have none in common.
LEMMA ConcatFacts ==
  ASSUME NEW S, NEW s \in Seq(S), NEW t \in Seq(S)
  PROVE  /\ s \o t \in Seq(S)
         /\ ToSet(s \o t) = ToSet(s) \cup ToSet(t)
         /\ IsInjective(s) /\ IsInjective(t) /\ ToSet(s) \cap ToSet(t) = {}
            => IsInjective(s \o t)
<1> DEFINE r == s \o t
           m == Len(s)
           n == Len(t)
<1>1. /\ m \in Nat /\ n \in Nat /\ DOMAIN s = 1..m /\ DOMAIN t = 1..n
      /\ r \in Seq(S) /\ DOMAIN r = 1..m + n
      /\ \A k \in 1..m : r[k] = s[k]
      /\ \A k \in m + 1..m + n : r[k] = t[k - m] /\ k - m \in 1..n
  OBVIOUS
<1>2. \A k \in 1..n : m + k \in m + 1..m + n /\ (m + k) - m = k
  BY <1>1
<1>3. \A k \in 1..m + n : k \in 1..m \/ k \in m + 1..m + n
  BY <1>1
<1>4. 1..m \subseteq 1..m + n /\ m + 1..m + n \subseteq 1..m + n
  BY <1>1
<1> HIDE DEF r, m, n
<1>5. ToSet(r) = ToSet(s) \cup ToSet(t)
  <2>1. ASSUME NEW x \in ToSet(r) PROVE x \in ToSet(s) \cup ToSet(t)
    <3>1. PICK k \in 1..m + n : x = r[k]
      BY <1>1 DEF ToSet
    <3> QED BY <1>1, <1>3, <3>1 DEF ToSet
  <2>2. ASSUME NEW x \in ToSet(s) PROVE x \in ToSet(r)
    BY <1>1, <1>4 DEF ToSet
  <2>3. ASSUME NEW x \in ToSet(t) PROVE x \in ToSet(r)
    <3>1. PICK k \in 1..n : x = t[k]
      BY <1>1 DEF ToSet
    <3>2. m + k \in 1..m + n /\ r[m + k] = t[k]
      BY <1>1, <1>2, <1>4
    <3> QED BY <1>1, <3>1, <3>2 DEF ToSet
  <2> QED BY <2>1, <2>2, <2>3
<1>6. ASSUME IsInjective(s), IsInjective(t), ToSet(s) \cap ToSet(t) = {}
      PROVE  IsInjective(r)
  <2>1. SUFFICES ASSUME NEW a \in 1..m + n, NEW b \in 1..m + n, r[a] = r[b] PROVE a = b
    BY <1>1 DEF IsInjective
  <2>2. \A k \in 1..m : s[k] \in ToSet(s)
    BY <1>1 DEF ToSet
  <2>3. \A k \in 1..n : t[k] \in ToSet(t)
    BY <1>1 DEF ToSet
  <2>4. CASE a \in 1..m /\ b \in 1..m
    <3>1. s[a] = s[b]
      BY <1>1, <2>1, <2>4
    <3> QED BY <1>1, <1>6, <2>4, <3>1 DEF IsInjective
  <2>5. CASE a \in m + 1..m + n /\ b \in m + 1..m + n
    <3>1. t[a - m] = t[b - m] /\ a - m \in 1..n /\ b - m \in 1..n
      BY <1>1, <2>1, <2>5
    <3>2. a - m = b - m
      BY <1>1, <1>6, <3>1 DEF IsInjective
    <3> QED BY <1>1, <3>2
  <2>6. CASE a \in 1..m /\ b \in m + 1..m + n
    BY <1>1, <1>6, <2>1, <2>2, <2>3, <2>6
  <2>7. CASE a \in m + 1..m + n /\ b \in 1..m
    BY <1>1, <1>6, <2>1, <2>2, <2>3, <2>7
  <2> QED BY <1>3, <2>4, <2>5, <2>6, <2>7
<1> QED BY <1>1, <1>5, <1>6 DEF r

Flattened(f, ss, n, S) ==
    /\ f \in [0..n -> Seq(S)]
    /\ f[0] = <<>>
    /\ \A k \in 1..n : f[k] = f[k - 1] \o ss[k]
    /\ FlattenSeq(ss) = f[n]

\* The sequences are put together one by one.
LEMMA FlattenRun ==
  ASSUME NEW S, NEW n \in Nat, NEW ss \in [1..n -> Seq(S)]
  PROVE  \E f : Flattened(f, ss, n, S)
<1> DEFINE U == Seq(S)
           O == [x \in U \X (1..n) |-> x[1] \o ss[x[2]]]
           Grows(f) == [i \in 1..Len(ss) |-> IF i = 1 THEN ss[i] ELSE f[i - 1] \o ss[i]]
           Grown == CHOOSE f : f = Grows(f)
<1>1. O \in [U \X (1..n) -> U]
  <2>1. ASSUME NEW x \in U \X (1..n) PROVE x[1] \o ss[x[2]] \in U
    <3>1. x[1] \in Seq(S) /\ ss[x[2]] \in Seq(S)
      OBVIOUS
    <3> QED BY <3>1
  <2> QED BY <2>1
<1>2. PICK f : Run(f, U, <<>>, n, O)
  <2>1. <<>> \in U
    OBVIOUS
  <2> HIDE DEF O, U
  <2> QED BY <1>1, <2>1, Iterated
<1>3. ASSUME NEW k \in 1..n PROVE f[k] = f[k - 1] \o ss[k]
  <2>1. k - 1 \in 0..n
    OBVIOUS
  <2>2. f[k - 1] \in U
    BY <1>2, <2>1 DEF Run
  <2>3. f[k] = O[<<f[k - 1], k>>] /\ <<f[k - 1], k>> \in U \X (1..n)
    BY <1>2, <2>2 DEF Run
  <2> HIDE DEF U
  <2> QED BY <2>3
<1>4. ss \in Seq(U) /\ Len(ss) = n
  OBVIOUS
<1>5. CASE n = 0
  <2>1. FlattenSeq(ss) = ss /\ ss = <<>> /\ f[0] = <<>>
    BY <1>2, <1>4, <1>5 DEF FlattenSeq, Run
  <2> QED BY <1>2, <1>3, <1>5, <2>1 DEF Run, Flattened
<1>6. CASE n # 0
  <2> DEFINE g == [k \in 1..n |-> f[k]]
  <2>1. f[1] = ss[1]
    <3>1. 1 \in 1..n /\ 1 - 1 = 0
      BY <1>6
    <3>2. f[1] = f[0] \o ss[1]
      BY <1>3, <3>1
    <3>3. f[0] = <<>> /\ ss[1] \in Seq(S)
      BY <1>2, <3>1 DEF Run
    <3> QED BY <3>2, <3>3
  <2>2. g = Grows(g)
    <3>1. ASSUME NEW k \in 1..n PROVE g[k] = IF k = 1 THEN ss[k] ELSE g[k - 1] \o ss[k]
      <4>1. CASE k = 1
        BY <2>1, <4>1
      <4>2. CASE k # 1
        <5>1. k - 1 \in 1..n
          BY <4>2
        <5> QED BY <1>3, <4>2, <5>1
      <4> QED BY <4>1, <4>2
    <3> QED BY <1>4, <3>1
  <2>3. Grown = Grows(Grown)
    <3> HIDE DEF Grows, g
    <3> QED BY <2>2
  <2>4. FlattenSeq(ss) = Grown[n]
    BY <1>4, <1>6 DEF FlattenSeq
  <2> HIDE DEF Grown
  <2>5. \A k \in 1..n : Grown[k] = IF k = 1 THEN ss[k] ELSE Grown[k - 1] \o ss[k]
    <3>1. \A k \in 1..n : Grows(Grown)[k] = IF k = 1 THEN ss[k] ELSE Grown[k - 1] \o ss[k]
      BY <1>4
    <3>2. \A k \in 1..n : Grown[k] = Grows(Grown)[k]
      <4> HIDE DEF Grows
      <4> QED BY <2>3
    <3> HIDE DEF Grows
    <3> QED BY <3>1, <3>2
  <2> DEFINE T == {k \in 1..n : Grown[k] = f[k]}
  <2>6. 1 \in T
    BY <1>6, <2>1, <2>5
  <2>7. ASSUME NEW k \in 1..n - 1, k \in T PROVE k + 1 \in T
    <3>1. k + 1 \in 1..n /\ (k + 1) - 1 = k /\ k + 1 # 1
      OBVIOUS
    <3>2. Grown[k] = f[k]
      BY <2>7
    <3>3. f[k + 1] = f[k] \o ss[k + 1]
      BY <1>3, <3>1
    <3>4. Grown[k + 1] = Grown[k] \o ss[k + 1]
      BY <2>5, <3>1
    <3> QED BY <3>1, <3>2, <3>3, <3>4
  <2>8. Grown[n] = f[n]
    <3>1. \A i \in 1..n : i \in T
      <4> HIDE DEF T
      <4> QED BY <2>6, <2>7, IntervalStep
    <3> QED BY <1>6, <3>1
  <2> QED BY <1>2, <1>3, <2>4, <2>8 DEF Run, Flattened
<1> QED BY <1>5, <1>6

\* What several sequences have, all of them in a row have, and nothing else; nor
\* do they repeat anything, if none of them does and no two share an element.
LEMMA FlattenFacts ==
  ASSUME NEW S, NEW n \in Nat, NEW ss \in [1..n -> Seq(S)]
  PROVE  /\ FlattenSeq(ss) \in Seq(S)
         /\ ToSet(FlattenSeq(ss)) = UNION {ToSet(ss[v]) : v \in 1..n}
         /\ /\ \A v \in 1..n : IsInjective(ss[v])
            /\ \A v, w \in 1..n : v # w => ToSet(ss[v]) \cap ToSet(ss[w]) = {}
            => IsInjective(FlattenSeq(ss))
<1>1. PICK f : Flattened(f, ss, n, S)
  BY FlattenRun
<1> DEFINE Fine == /\ \A v \in 1..n : IsInjective(ss[v])
                   /\ \A v, w \in 1..n : v # w => ToSet(ss[v]) \cap ToSet(ss[w]) = {}
           Part(k) == UNION {ToSet(ss[v]) : v \in 1..k}
           T == {k \in 0..n : ToSet(f[k]) = Part(k) /\ (Fine => IsInjective(f[k]))}
<1>2. \A k \in 0..n : f[k] \in Seq(S)
  BY <1>1 DEF Flattened
<1>3. 0 \in T
  <2>1. f[0] = <<>> /\ ToSet(<<>>) = {} /\ IsInjective(<<>>)
    BY <1>1 DEF Flattened, ToSet, IsInjective
  <2>2. Part(0) = {}
    <3>1. 1..0 = {}
      OBVIOUS
    <3> QED BY <3>1
  <2>3. 0 \in 0..n
    OBVIOUS
  <2> HIDE DEF Part, Fine
  <2> QED BY <2>1, <2>2, <2>3
<1>4. ASSUME NEW k \in 0..n - 1, k \in T PROVE k + 1 \in T
  <2>1. k + 1 \in 1..n /\ (k + 1) - 1 = k /\ k \in 0..n /\ k + 1 \in 0..n
    OBVIOUS
  <2>2. f[k + 1] = f[k] \o ss[k + 1] /\ f[k] \in Seq(S) /\ ss[k + 1] \in Seq(S)
    BY <1>1, <1>2, <2>1 DEF Flattened
  <2>3. ToSet(f[k + 1]) = ToSet(f[k]) \cup ToSet(ss[k + 1])
    BY <2>2, ConcatFacts
  <2>4. Part(k + 1) = Part(k) \cup ToSet(ss[k + 1])
    <3>1. 1..k + 1 = (1..k) \cup {k + 1}
      BY <2>1
    <3> QED BY <3>1
  <2>5. Fine => IsInjective(f[k + 1])
    <3>1. SUFFICES ASSUME Fine PROVE IsInjective(f[k + 1])
      OBVIOUS
    <3>2. IsInjective(f[k]) /\ IsInjective(ss[k + 1])
      BY <1>4, <2>1, <3>1
    <3>3. \A v \in 1..k : v \in 1..n /\ v # k + 1
      BY <2>1
    <3>4. ToSet(f[k]) \cap ToSet(ss[k + 1]) = {}
      <4>1. ToSet(f[k]) = Part(k)
        BY <1>4
      <4> QED BY <2>1, <3>1, <3>3, <4>1
    <3> HIDE DEF Fine, Part
    <3> QED BY <2>2, <3>2, <3>4, ConcatFacts
  <2> HIDE DEF Part, Fine
  <2> QED BY <1>4, <2>1, <2>3, <2>4, <2>5
<1>5. n \in T
  <2> HIDE DEF T
  <2>1. \A i \in 0..n : i \in T
    BY <1>3, <1>4, IntervalStep
  <2> QED BY <2>1
<1>6. FlattenSeq(ss) = f[n] /\ f[n] \in Seq(S)
  BY <1>1, <1>2 DEF Flattened
<1> QED BY <1>5, <1>6

\* A sequence cut in two: nothing is lost, nothing is in both parts.
LEMMA CutFacts ==
  ASSUME NEW S, NEW s \in Seq(S), NEW k \in 0..Len(s)
  PROVE  LET a == SubSeq(s, 1, k)
             b == SubSeq(s, k + 1, Len(s))
         IN  /\ a \in Seq(S) /\ b \in Seq(S)
             /\ Len(a) = k /\ \A i \in 1..k : a[i] = s[i]
             /\ ToSet(s) = ToSet(a) \cup ToSet(b)
             /\ IsInjective(s) => /\ IsInjective(a) /\ IsInjective(b)
                                  /\ ToSet(a) \cap ToSet(b) = {}
<1> DEFINE a == SubSeq(s, 1, k)
           b == SubSeq(s, k + 1, Len(s))
           n == Len(s)
<1>1. /\ n \in Nat /\ DOMAIN s = 1..n /\ k \in 0..n
      /\ a \in Seq(S) /\ DOMAIN a = 1..k /\ Len(a) = k /\ \A i \in 1..k : a[i] = s[i]
  OBVIOUS
<1>2. b \in Seq(S) /\ DOMAIN b = 1..n - k /\ \A i \in 1..n - k : b[i] = s[k + i]
  OBVIOUS
<1>3. /\ \A i \in 1..k : i \in 1..n
      /\ \A i \in 1..n - k : k + i \in 1..n /\ k + i > k
      /\ \A i \in 1..n : i \in 1..k \/ (i - k \in 1..n - k /\ k + (i - k) = i)
  BY <1>1
<1> HIDE DEF a, b, n
<1>4. ToSet(s) = ToSet(a) \cup ToSet(b)
  <2>1. ASSUME NEW x \in ToSet(s) PROVE x \in ToSet(a) \cup ToSet(b)
    <3>1. PICK i \in 1..n : x = s[i]
      BY <1>1 DEF ToSet
    <3>2. CASE i \in 1..k
      BY <1>1, <3>1, <3>2 DEF ToSet
    <3>3. CASE i - k \in 1..n - k /\ k + (i - k) = i
      <4>1. b[i - k] = s[i]
        BY <1>2, <3>3
      <4> QED BY <1>2, <3>1, <3>3, <4>1 DEF ToSet
    <3> QED BY <1>3, <3>2, <3>3
  <2>2. ASSUME NEW x \in ToSet(a) PROVE x \in ToSet(s)
    BY <1>1, <1>3 DEF ToSet
  <2>3. ASSUME NEW x \in ToSet(b) PROVE x \in ToSet(s)
    <3>1. PICK i \in 1..n - k : x = s[k + i]
      BY <1>2 DEF ToSet
    <3>2. k + i \in 1..n
      BY <1>3
    <3> QED BY <1>1, <3>1, <3>2 DEF ToSet
  <2> QED BY <2>1, <2>2, <2>3
<1>5. ASSUME IsInjective(s) PROVE IsInjective(a) /\ IsInjective(b) /\ ToSet(a) \cap ToSet(b) = {}
  <2>1. \A i, j \in 1..n : s[i] = s[j] => i = j
    BY <1>1, <1>5 DEF IsInjective
  <2>2. IsInjective(a)
    BY <1>1, <1>3, <2>1 DEF IsInjective
  <2>3. IsInjective(b)
    <3>1. SUFFICES ASSUME NEW i \in 1..n - k, NEW j \in 1..n - k, b[i] = b[j] PROVE i = j
      BY <1>2 DEF IsInjective
    <3>2. k + i = k + j
      BY <1>2, <1>3, <2>1, <3>1
    <3> QED BY <1>1, <3>2
  <2>4. ASSUME NEW x \in ToSet(a), x \in ToSet(b) PROVE FALSE
    <3>1. PICK i \in 1..k : x = s[i]
      BY <1>1 DEF ToSet
    <3>2. PICK j \in 1..n - k : x = s[k + j]
      BY <1>2, <2>4 DEF ToSet
    <3>3. i = k + j
      BY <1>3, <2>1, <3>1, <3>2
    <3> QED BY <1>1, <3>3
  <2> QED BY <2>2, <2>3, <2>4
<1> QED BY <1>1, <1>2, <1>4, <1>5 DEF a, b, n

\* Inserting adds the element and keeps the others.
LEMMA InsertFacts ==
  ASSUME NEW S, NEW s \in Seq(S), NEW p \in 1..Len(s) + 1, NEW e \in S
  PROVE  /\ InsertAt(s, p, e) \in Seq(S)
         /\ ToSet(InsertAt(s, p, e)) = ToSet(s) \cup {e}
         /\ IsInjective(s) /\ e \notin ToSet(s) => IsInjective(InsertAt(s, p, e))
<1> DEFINE k == p - 1
           a == SubSeq(s, 1, k)
           b == SubSeq(s, k + 1, Len(s))
           u == <<e>>
           c == a \o u
<1>1. k \in 0..Len(s) /\ k + 1 = p
  OBVIOUS
<1>2. /\ a \in Seq(S) /\ b \in Seq(S) /\ ToSet(s) = ToSet(a) \cup ToSet(b)
      /\ IsInjective(s) => /\ IsInjective(a) /\ IsInjective(b)
                           /\ ToSet(a) \cap ToSet(b) = {}
  <2> HIDE DEF k
  <2> QED BY <1>1, CutFacts
<1>3. u \in Seq(S) /\ ToSet(u) = {e} /\ IsInjective(u)
  BY DEF ToSet, IsInjective
<1>4. InsertAt(s, p, e) = c \o b
  BY <1>1 DEF InsertAt
<1> HIDE DEF a, b, k, u
<1>5. /\ c \in Seq(S) /\ ToSet(c) = ToSet(a) \cup {e}
      /\ IsInjective(a) /\ e \notin ToSet(a) => IsInjective(c)
  <2>1. e \notin ToSet(a) => ToSet(a) \cap ToSet(u) = {}
    BY <1>3
  <2>2. /\ a \o u \in Seq(S) /\ ToSet(a \o u) = ToSet(a) \cup ToSet(u)
        /\ IsInjective(a) /\ IsInjective(u) /\ ToSet(a) \cap ToSet(u) = {}
           => IsInjective(a \o u)
    BY <1>2, <1>3, ConcatFacts
  <2> QED BY <1>3, <2>1, <2>2
<1> HIDE DEF c
<1>6. /\ c \o b \in Seq(S) /\ ToSet(c \o b) = ToSet(c) \cup ToSet(b)
      /\ IsInjective(c) /\ IsInjective(b) /\ ToSet(c) \cap ToSet(b) = {} => IsInjective(c \o b)
  BY <1>2, <1>5, ConcatFacts
<1> QED BY <1>2, <1>4, <1>5, <1>6

\* A finite set as a sequence has the elements of the set, each once.
LEMMA SetToSeqFacts ==
  ASSUME NEW S, IsFiniteSet(S)
  PROVE  /\ SetToSeq(S) \in Seq(S)
         /\ ToSet(SetToSeq(S)) = S
         /\ IsInjective(SetToSeq(S))
<1> DEFINE n == Cardinality(S)
           f == SetToSeq(S)
<1>1. n \in Nat /\ ExistsBijection(1..n, S)
  BY FS_NatBijection, FS_CardinalityType
<1>2. PICK g : g \in Bijection(1..n, S)
  BY <1>1 DEF ExistsBijection
<1>3. g \in [1..n -> S] /\ IsInjective(g)
  BY <1>2 DEF Bijection, Injection, IsInjective
<1>4. f \in [1..n -> S] /\ IsInjective(f)
  BY <1>3 DEF SetToSeq
<1>5. f \in Seq(S) /\ DOMAIN f = 1..n
  BY <1>1, <1>4
<1> HIDE DEF f, n
<1>6. ToSet(f) \subseteq S /\ f \in Bijection(1..n, ToSet(f))
  BY <1>4, <1>5 DEF Bijection, Injection, Surjection, IsInjective, ToSet
<1>7. IsFiniteSet(1..n) /\ Cardinality(1..n) = n
  BY <1>1, FS_Interval
<1>8. IsFiniteSet(ToSet(f)) /\ Cardinality(ToSet(f)) = n
  <2>1. ExistsBijection(1..n, ToSet(f))
    BY <1>6 DEF ExistsBijection
  <2> QED BY <1>7, <2>1, FS_Bijection
<1>9. ToSet(f) = S
  BY <1>6, <1>8, FS_Subset DEF n
<1> QED BY <1>4, <1>5, <1>9 DEF f
-----------------------------------------------------------------------------
(* Slots.                                                                  *)

\* Two numbers are a finite set.
LEMMA Pair ==
  ASSUME NEW a \in Int, NEW b \in Int
  PROVE  {a, b} \in SUBSET Int /\ {a, b} # {} /\ IsFiniteSet({a, b})
<1>1. IsFiniteSet({a}) /\ IsFiniteSet({b})
  BY FS_Singleton
<1>2. IsFiniteSet({a} \cup {b})
  BY <1>1, FS_Union
<1>3. {a, b} = {a} \cup {b}
  OBVIOUS
<1> QED BY <1>2, <1>3

\* The greater of two numbers is one of them.
LEMMA MaxOfTwo ==
  ASSUME NEW a \in Int, NEW b \in Int
  PROVE  Max({a, b}) \in {a, b}
<1>1. {a, b} \in SUBSET Int /\ {a, b} # {} /\ IsFiniteSet({a, b})
  BY Pair
<1> QED BY ONLY <1>1, MinMaxIn

\* The slots of finitely many chains are finitely many.
LEMMA SlotsFacts ==
  ASSUME NEW S, NEW n \in Nat, NEW chs \in [1..n -> Seq(S)]
  PROVE  /\ IsFiniteSet(Slots(chs))
         /\ \A s \in Slots(chs) : /\ s = <<s[1], s[2]>>
                                  /\ s[1] \in 1..n /\ s[2] \in 1..Len(chs[s[1]]) + 1
<1> DEFINE f == [v \in 1..n |-> {v} \X (1..(Len(chs[v]) + 1))]
           T == {f[v] : v \in 1..n}
<1>1. IsFiniteSet(T)
  <2>1. f \in Surjection(1..n, T)
    BY DEF Surjection
  <2>2. IsFiniteSet(1..n)
    BY FS_Interval
  <2> HIDE DEF f, T
  <2> QED BY <2>1, <2>2, FS_Surjection
<1>2. ASSUME NEW v \in 1..n PROVE IsFiniteSet(f[v])
  <2>1. Len(chs[v]) \in Nat
    OBVIOUS
  <2>2. IsFiniteSet({v}) /\ IsFiniteSet(1..(Len(chs[v]) + 1))
    <3>1. Len(chs[v]) + 1 \in Int /\ 1 \in Int
      BY <2>1
    <3>2. IsFiniteSet(1..(Len(chs[v]) + 1))
      BY <3>1, FS_Interval
    <3> QED BY <3>2, FS_Singleton
  <2>3. IsFiniteSet({v} \X (1..(Len(chs[v]) + 1)))
    BY <2>2, FS_Product
  <2> QED BY <2>3
<1>3. IsFiniteSet(UNION T)
  <2>1. \A t \in T : IsFiniteSet(t)
    <3> HIDE DEF f
    <3> QED BY <1>2
  <2> HIDE DEF T
  <2> QED BY <1>1, <2>1, FS_UNION
<1>4. Slots(chs) = UNION T
  BY DEF Slots
<1>5. ASSUME NEW s \in Slots(chs)
      PROVE  s = <<s[1], s[2]>> /\ s[1] \in 1..n /\ s[2] \in 1..Len(chs[s[1]]) + 1
  <2>1. PICK v \in 1..n : s \in {v} \X (1..(Len(chs[v]) + 1))
    BY DEF Slots
  <2> QED BY <2>1
<1> QED BY <1>3, <1>4, <1>5

\* The cheapest of finitely many slots is one of them.
LEMMA CheapestIn ==
  ASSUME NEW slots, IsFiniteSet(slots), slots # {}, NEW price \in [slots -> Int],
         \A s \in slots : s = <<s[1], s[2]>> /\ s[1] \in Int /\ s[2] \in Int
  PROVE  Cheapest(slots, price) \in slots
<1> DEFINE R == {x \in slots \X slots :
                   \/ price[x[1]] < price[x[2]]
                   \/ /\ price[x[1]] = price[x[2]]
                      /\ \/ x[1][1] < x[2][1]
                         \/ x[1][1] = x[2][1] /\ x[1][2] < x[2][2]}
<1>1. \A x, y \in slots :
        <<x, y>> \in R <=> \/ price[x] < price[y]
                           \/ /\ price[x] = price[y]
                              /\ x[1] < y[1] \/ (x[1] = y[1] /\ x[2] < y[2])
  OBVIOUS
<1>2. \A x \in slots : price[x] \in Int /\ x[1] \in Int /\ x[2] \in Int
  OBVIOUS
<1> HIDE DEF R
<1>3. PICK m \in slots : \A k \in slots : <<k, m>> \notin R
  <2>1. \A x \in slots : <<x, x>> \notin R
    BY <1>1, <1>2
  <2>2. \A x, y, z \in slots : <<x, y>> \in R /\ <<y, z>> \in R => <<x, z>> \in R
    BY <1>1, <1>2
  <2> QED BY <2>1, <2>2, MinimalExists
<1>4. ASSUME NEW r \in slots
      PROVE  \/ price[m] < price[r]
             \/ /\ price[m] = price[r]
                /\ m[1] < r[1] \/ (m[1] = r[1] /\ m[2] <= r[2])
  <2>1. ~(\/ price[r] < price[m]
          \/ /\ price[r] = price[m]
             /\ r[1] < m[1] \/ (r[1] = m[1] /\ r[2] < m[2]))
    BY <1>1, <1>3
  <2> QED BY <1>2, <2>1
<1>5. \E s \in slots : \A r \in slots :
        \/ price[s] < price[r]
        \/ price[s] = price[r] /\ (s[1] < r[1] \/ (s[1] = r[1] /\ s[2] <= r[2]))
  BY <1>4
<1> QED BY <1>5 DEF Cheapest

-----------------------------------------------------------------------------
(* The request under way: tasks, vehicles and costs.                       *)

\* What is known once a message has been received: the tasks and the vehicles
\* that take part are among those of the message, each once, a task that is
\* left has a place and a way through its stops, and a leg that is priced leads
\* to a task the vehicle may take there.
Base ==
    /\ request \in Request
    /\ list \in Seq(ToSet(request.tasks)) /\ Len(list) <= Len(request.tasks)
    /\ work \in Seq(DOMAIN list) /\ IsInjective(work)
    /\ crew \in Seq(DOMAIN request.fleet) /\ IsInjective(crew)
    /\ \A i \in Jobs : From(Job(i)) # Nowhere /\ Drivable(Job(i))
    /\ \A leg \in DOMAIN costs :
          /\ leg \in (Jobs \cup {First}) \X Jobs \X Cars
          /\ leg[2] \in Options(leg[1], leg[3])
          /\ costs[leg] \in Int /\ costs[leg] <= Longest

\* Tasks and vehicles are numbered, and stand for those of the message.
LEMMA BaseFacts ==
  ASSUME Base
  PROVE  /\ Len(work) \in Nat /\ Jobs = 1..Len(work) /\ First \notin Jobs
         /\ Len(crew) \in Nat /\ Cars = 1..Len(crew)
         /\ Len(list) \in Nat /\ DOMAIN list = 1..Len(list)
         /\ request.fleet \in Seq(VehicleType) /\ request.tasks \in Seq(TaskType)
         /\ \A i \in Jobs : /\ work[i] \in DOMAIN list
                            /\ Job(i) \in ToSet(request.tasks) /\ Job(i) \in TaskType
         /\ \A v \in Cars : crew[v] \in DOMAIN request.fleet /\ Car(v) \in VehicleType
         /\ Numbers(Len(crew)) \in Seq(Cars) /\ Len(Numbers(Len(crew))) = Len(crew)
         /\ \A k \in 1..Len(crew) : Numbers(Len(crew))[k] = k
<1> USE DEF Base
<1>1. /\ Len(work) \in Nat /\ Jobs = 1..Len(work)
      /\ Len(crew) \in Nat /\ Cars = 1..Len(crew)
      /\ Len(list) \in Nat /\ DOMAIN list = 1..Len(list)
  BY DEF Jobs, Cars
<1>2. First \notin Jobs
  BY <1>1 DEF First
<1>3. request.fleet \in Seq(VehicleType) /\ request.tasks \in Seq(TaskType)
  <2>1. request \in RequestType
    BY RequestAssumption
  <2> QED BY <2>1 DEF RequestType
<1>4. \A t \in ToSet(request.tasks) : t \in TaskType
  BY <1>3 DEF ToSet
<1>5. \A i \in Jobs : work[i] \in DOMAIN list
  BY <1>1
<1>6. \A i \in Jobs : Job(i) \in ToSet(request.tasks)
  BY <1>1, <1>5 DEF Job
<1>7. \A v \in Cars : crew[v] \in DOMAIN request.fleet /\ Car(v) \in VehicleType
  <2>1. \A v \in Cars : crew[v] \in DOMAIN request.fleet
    BY <1>1
  <2> QED BY <1>3, <2>1 DEF Car
<1>8. /\ Numbers(Len(crew)) \in Seq(Cars) /\ Len(Numbers(Len(crew))) = Len(crew)
      /\ \A k \in 1..Len(crew) : Numbers(Len(crew))[k] = k
  BY <1>1, NumbersFacts
<1> QED BY <1>1, <1>2, <1>3, <1>4, <1>5, <1>6, <1>7, <1>8

\* A leg costs less than the infinite cost exactly if it has been priced.
LEMMA CostFacts ==
  ASSUME Base, NEW p, NEW i, NEW v
  PROVE  /\ Cost(p, i, v) \in Int /\ Cost(p, i, v) <= Inf
         /\ Cost(p, i, v) < Inf <=> <<p, i, v>> \in DOMAIN costs
         /\ Cost(p, i, v) < Inf => /\ p \in Jobs \cup {First} /\ i \in Jobs /\ v \in Cars
                                   /\ i \in Options(p, v) /\ Cost(p, i, v) <= Longest
<1>1. Inf \in Int /\ Longest \in Int /\ Longest < Inf
  BY NumberAssumption
<1>2. CASE <<p, i, v>> \in DOMAIN costs
  <2>1. /\ <<p, i, v>> \in (Jobs \cup {First}) \X Jobs \X Cars
        /\ i \in Options(p, v) /\ costs[<<p, i, v>>] \in Int /\ costs[<<p, i, v>>] <= Longest
    BY <1>2 DEF Base
  <2>2. Cost(p, i, v) = costs[<<p, i, v>>]
    BY <1>2 DEF Cost
  <2> QED BY <1>1, <1>2, <2>1, <2>2
<1>3. CASE <<p, i, v>> \notin DOMAIN costs
  <2>1. Cost(p, i, v) = Inf
    BY <1>3 DEF Cost
  <2> QED BY <1>1, <1>3, <2>1
<1> QED BY <1>2, <1>3

\* Whose task lists: one for each vehicle that takes part.
Chains == [Cars -> Seq(Jobs)]

\* The tasks on vehicles are tasks, and those of a vehicle are among them.
LEMMA DrivenFacts ==
  ASSUME NEW S, NEW D, NEW chs \in [D -> Seq(S)]
  PROVE  /\ Driven(chs) \subseteq S
         /\ \A v \in D : ToSet(chs[v]) \subseteq Driven(chs)
         /\ \A i \in Driven(chs) : \E v \in D : \E p \in 1..Len(chs[v]) : chs[v][p] = i
<1>1. \A v \in D : DOMAIN chs[v] = 1..Len(chs[v]) /\ ToSet(chs[v]) \subseteq S
  BY DEF ToSet
<1>2. DOMAIN chs = D
  OBVIOUS
<1> QED BY <1>1, <1>2 DEF Driven, ToSet

-----------------------------------------------------------------------------
(* Rounds of the greedy allocator.                                         *)

Bids == [Jobs -> Cars \cup {Nobody}]

\* A vehicle proposes for one free task, over a leg that is known, or changes
\* nothing.
LEMMA ProposeFacts ==
  ASSUME Base, NEW asked \in Bids, NEW v \in Cars
  PROVE  /\ Propose(asked, v) \in Bids
         /\ \/ Propose(asked, v) = asked
            \/ \E i \in Jobs \ Driven(chains) :
                  /\ Cost(Latest(chains[v]), i, v) < Inf
                  /\ Propose(asked, v) = [asked EXCEPT ![i] = v]
<1> DEFINE price(w, i) == Cost(Latest(chains[w]), i, w)
           free == {i \in Jobs \ Driven(chains) : price(v, i) < Inf}
           best == {i \in free : \A j \in free : price(v, i) <= price(v, j)}
           fresh == {i \in best : asked[i] = Nobody}
           pick == IF fresh # {} THEN Max(fresh) ELSE Min(best)
<1>1. \/ Propose(asked, v) = asked
      \/ Propose(asked, v) = [asked EXCEPT ![pick] = v] /\ free # {}
  BY DEF Propose
<1>2. free \subseteq Jobs /\ Jobs \subseteq Int /\ IsFiniteSet(Jobs)
  <2>1. Len(work) \in Int /\ 1 \in Int /\ Jobs = 1..Len(work)
    BY BaseFacts
  <2> HIDE DEF free
  <2>2. IsFiniteSet(1..Len(work))
    BY <2>1, FS_Interval
  <2>3. free \subseteq Jobs
    BY DEF free
  <2> QED BY <2>1, <2>2, <2>3
<1>3. ASSUME free # {} PROVE best # {}
  <2> DEFINE R == {x \in free \X free : price(v, x[1]) < price(v, x[2])}
  <2>1. \A i \in free : price(v, i) \in Int
    BY CostFacts
  <2>2. IsFiniteSet(free)
    BY <1>2, FS_Subset
  <2>3. \A x, y \in free : <<x, y>> \in R <=> price(v, x) < price(v, y)
    OBVIOUS
  <2> HIDE DEF R, free, price
  <2>4. PICK m \in free : \A k \in free : <<k, m>> \notin R
    <3>1. \A x \in free : <<x, x>> \notin R
      BY <2>1, <2>3
    <3>2. \A x, y, z \in free : <<x, y>> \in R /\ <<y, z>> \in R => <<x, z>> \in R
      BY <2>1, <2>3
    <3> QED BY <1>3, <2>2, <3>1, <3>2, MinimalExists
  <2>5. ASSUME NEW k \in free PROVE price(v, m) <= price(v, k)
    <3>1. ~(price(v, k) < price(v, m)) /\ price(v, k) \in Int /\ price(v, m) \in Int
      BY <2>1, <2>3, <2>4
    <3> QED BY <3>1
  <2> QED BY <2>5
<1>4. ASSUME free # {} PROVE pick \in free
  <2>1. best \in SUBSET Int /\ IsFiniteSet(best) /\ best # {}
    <3> HIDE DEF free
    <3>1. best \subseteq free
      OBVIOUS
    <3> QED BY <1>2, <1>3, <1>4, <3>1, FS_Subset
  <2>2. fresh \in SUBSET Int /\ IsFiniteSet(fresh)
    <3> HIDE DEF best
    <3>1. fresh \subseteq best
      OBVIOUS
    <3> QED BY <2>1, <3>1, FS_Subset
  <2>3. best \subseteq free /\ fresh \subseteq best
    OBVIOUS
  <2> HIDE DEF best, fresh, free
  <2>4. Min(best) \in best /\ (fresh # {} => Max(fresh) \in fresh)
    BY <2>1, <2>2, MinMaxIn
  <2> QED BY <2>3, <2>4
<1>5. CASE Propose(asked, v) = asked
  BY <1>5
<1>6. CASE Propose(asked, v) = [asked EXCEPT ![pick] = v] /\ free # {}
  <2>1. pick \in Jobs \ Driven(chains) /\ Cost(Latest(chains[v]), pick, v) < Inf
    BY <1>4, <1>6
  <2> HIDE DEF pick
  <2>2. [asked EXCEPT ![pick] = v] \in Bids
    BY <2>1 DEF Bids
  <2> QED BY <1>6, <2>1, <2>2
<1> QED BY <1>1, <1>5, <1>6

BidRun(f) ==
    /\ f \in [0..Len(crew) -> Bids]
    /\ f[0] = [i \in Jobs |-> Nobody]
    /\ \A k \in 1..Len(crew) : f[k] = Propose(f[k - 1], k)
    /\ Proposals = f[Len(crew)]

\* The vehicles propose one after the other.
LEMMA ProposalsRun ==
  ASSUME Base
  PROVE  \E f : BidRun(f)
<1> DEFINE b == [i \in Jobs |-> Nobody]
           s == Numbers(Len(crew))
           O == [x \in Bids \X Cars |-> Propose(x[1], x[2])]
           E(h) == h = [t \in SUBSET DOMAIN s |->
                          IF t = {} THEN b ELSE Propose(h[t \ {Max(t)}], s[Max(t)])]
           H == CHOOSE h : E(h)
<1>1. /\ b \in Bids /\ s \in Seq(Cars) /\ Len(s) = Len(crew) /\ O \in [Bids \X Cars -> Bids]
      /\ \A k \in 1..Len(crew) : s[k] = k /\ k \in Cars
  <2>1. s \in Seq(Cars) /\ Len(s) = Len(crew) /\ \A k \in 1..Len(crew) : s[k] = k /\ k \in Cars
    BY BaseFacts
  <2>2. b \in Bids
    BY DEF Bids
  <2>3. O \in [Bids \X Cars -> Bids]
    <3>1. ASSUME NEW x \in Bids \X Cars PROVE Propose(x[1], x[2]) \in Bids
      BY ProposeFacts
    <3> QED BY <3>1
  <2> QED BY <2>1, <2>2, <2>3
<1>2. \A x \in Bids, v \in Cars : O[<<x, v>>] = Propose(x, v)
  OBVIOUS
<1>3. Proposals = H[DOMAIN s]
  BY DEF Proposals, FoldLeft, MapThenFoldSet
<1> HIDE DEF O, b, s
<1>4. PICK h : Table(h, Bids, b, Cars, s, O)
  BY <1>1, FoldExists
<1>5. \A t \in SUBSET DOMAIN s : t # {} => s[Max(t)] \in Cars
  BY <1>4 DEF Table
<1>6. E(h)
  <2>1. ASSUME NEW t \in SUBSET DOMAIN s
        PROVE  h[t] = IF t = {} THEN b ELSE Propose(h[t \ {Max(t)}], s[Max(t)])
    BY <1>2, <1>4, <1>5 DEF Unfolds, Table
  <2> QED BY <1>4, <2>1 DEF Table
<1>7. E(H)
  <2> HIDE DEF E
  <2> QED BY <1>6
<1> HIDE DEF H
<1>8. Unfolds(H, Bids, b, s, O)
  <2>1. ASSUME NEW t \in SUBSET DOMAIN s
        PROVE  H[t] = IF t = {} THEN b ELSE Propose(H[t \ {Max(t)}], s[Max(t)])
    BY <1>7
  <2> HIDE DEF E
  <2> QED BY <1>2, <1>5, <2>1 DEF Unfolds
<1>9. PICK f : Folds(f, H, Bids, b, s, O)
  BY <1>1, <1>8, FoldRun
<1>10. ASSUME NEW k \in 1..Len(crew) PROVE f[k] = Propose(f[k - 1], k)
  <2>1. k - 1 \in 0..Len(s) /\ s[k] = k /\ k \in Cars /\ k \in 1..Len(s)
    BY <1>1, BaseFacts
  <2>2. f[k - 1] \in Bids /\ f[k] = O[<<f[k - 1], s[k]>>]
    BY <1>9, <2>1 DEF Along, Folds
  <2> QED BY <1>2, <2>1, <2>2
<1> QED BY <1>1, <1>3, <1>9, <1>10 DEF Along, Folds, BidRun, b

-----------------------------------------------------------------------------
(* Repairs.                                                                *)

Tidying == [kept : Seq(Jobs), out : SUBSET Jobs]

\* A task is kept or goes out.
LEMMA TidyTyped ==
  ASSUME NEW x \in Tidying, NEW y \in Jobs, NEW v
  PROVE  Tidy(v, x, y) \in Tidying
<1>1. Append(x.kept, y) \in Seq(Jobs) /\ x.out \cup {y} \in SUBSET Jobs
  BY DEF Tidying
<1>2. [x EXCEPT !.kept = Append(@, y)] \in Tidying
  BY <1>1 DEF Tidying
<1>3. [x EXCEPT !.out = @ \cup {y}] \in Tidying
  BY <1>1 DEF Tidying
<1> QED BY <1>2, <1>3 DEF Tidy

TidyRun(f, v, ch) ==
    /\ f \in [0..Len(ch) -> Tidying]
    /\ f[0] = [kept |-> <<>>, out |-> {}]
    /\ \A k \in 1..Len(ch) : f[k] = Tidy(v, f[k - 1], ch[k])
    /\ Tidied(v, ch) = f[Len(ch)]

\* A chain is tidied task by task.
LEMMA TidiedRun ==
  ASSUME NEW v, NEW ch \in Seq(Jobs)
  PROVE  \E f : TidyRun(f, v, ch)
<1> DEFINE b == [kept |-> <<>>, out |-> {}]
           s == ch
           O == [x \in Tidying \X Jobs |-> Tidy(v, x[1], x[2])]
           E(h) == h = [t \in SUBSET DOMAIN s |->
                          IF t = {} THEN b ELSE Tidy(v, h[t \ {Max(t)}], s[Max(t)])]
           H == CHOOSE h : E(h)
<1>1. b \in Tidying /\ s \in Seq(Jobs)
  BY DEF Tidying
<1>2. ASSUME NEW x \in Tidying, NEW y \in Jobs PROVE Tidy(v, x, y) \in Tidying
  BY <1>2, TidyTyped
<1>3. /\ O \in [Tidying \X Jobs -> Tidying]
      /\ \A x \in Tidying, y \in Jobs : O[<<x, y>>] = Tidy(v, x, y)
  BY <1>2
<1>4. Tidied(v, ch) = H[DOMAIN s]
  BY DEF Tidied, FoldLeft, MapThenFoldSet
<1> HIDE DEF O, b, s
<1>5. PICK h : Table(h, Tidying, b, Jobs, s, O)
  BY <1>1, <1>3, FoldExists
<1>6. \A t \in SUBSET DOMAIN s : t # {} => s[Max(t)] \in Jobs
  BY <1>5 DEF Table
<1>7. E(h)
  <2>1. ASSUME NEW t \in SUBSET DOMAIN s
        PROVE  h[t] = IF t = {} THEN b ELSE Tidy(v, h[t \ {Max(t)}], s[Max(t)])
    BY <1>3, <1>5, <1>6 DEF Unfolds, Table
  <2> QED BY <1>5, <2>1 DEF Table
<1>8. E(H)
  <2> HIDE DEF E
  <2> QED BY <1>7
<1> HIDE DEF H
<1>9. Unfolds(H, Tidying, b, s, O)
  <2>1. ASSUME NEW t \in SUBSET DOMAIN s
        PROVE  H[t] = IF t = {} THEN b ELSE Tidy(v, H[t \ {Max(t)}], s[Max(t)])
    BY <1>8
  <2> HIDE DEF E
  <2> QED BY <1>3, <1>6, <2>1 DEF Unfolds
<1>10. PICK f : Folds(f, H, Tidying, b, s, O)
  BY <1>1, <1>3, <1>9, FoldRun
<1>11. ASSUME NEW k \in 1..Len(s) PROVE f[k] = Tidy(v, f[k - 1], s[k])
  <2>1. k - 1 \in 0..Len(s) /\ s[k] \in Jobs
    BY <1>1
  <2>2. f[k - 1] \in Tidying /\ f[k] = O[<<f[k - 1], s[k]>>]
    BY <1>10, <2>1 DEF Along, Folds
  <2> QED BY <1>3, <2>1, <2>2
<1> QED BY <1>4, <1>10, <1>11 DEF Along, Folds, TidyRun, b, s

Filling == [chains : Chains, open : SUBSET Jobs]

\* The cheapest task a vehicle can start with is one of those it can start with.
LEMMA NearestIn ==
  ASSUME Base, NEW open \in SUBSET Jobs, NEW v, Able(open, v) # {}
  PROVE  Nearest(open, v) \in Able(open, v)
<1> DEFINE S == Able(open, v)
           c(i) == Cost(First, i, v)
           R == {x \in S \X S : c(x[1]) < c(x[2]) \/ (c(x[1]) = c(x[2]) /\ x[1] < x[2])}
<1>1. S \subseteq Jobs /\ Jobs \subseteq Int /\ IsFiniteSet(S)
  <2>1. Len(work) \in Int /\ 1 \in Int /\ Jobs = 1..Len(work)
    BY BaseFacts
  <2>2. S \subseteq Jobs
    BY DEF Able
  <2> HIDE DEF S
  <2>3. IsFiniteSet(Jobs)
    BY <2>1, FS_Interval
  <2>4. IsFiniteSet(S)
    BY <2>2, <2>3, FS_Subset
  <2> QED BY <2>1, <2>2, <2>4
<1>2. \A i \in S : c(i) \in Int
  BY CostFacts
<1>3. \A x, y \in S : <<x, y>> \in R <=> c(x) < c(y) \/ (c(x) = c(y) /\ x < y)
  OBVIOUS
<1>4. S # {}
  OBVIOUS
<1> HIDE DEF R, S, c
<1>5. PICK m \in S : \A k \in S : <<k, m>> \notin R
  <2>1. \A x \in S : <<x, x>> \notin R
    BY <1>1, <1>2, <1>3
  <2>2. \A x, y, z \in S : <<x, y>> \in R /\ <<y, z>> \in R => <<x, z>> \in R
    BY <1>1, <1>2, <1>3
  <2> QED BY <1>1, <1>4, <2>1, <2>2, MinimalExists
<1>6. ASSUME NEW j \in S PROVE c(m) < c(j) \/ (c(m) = c(j) /\ m <= j)
  <2>1. ~(c(j) < c(m) \/ (c(j) = c(m) /\ j < m))
    BY <1>3, <1>5
  <2>2. c(j) \in Int /\ c(m) \in Int /\ j \in Int /\ m \in Int
    BY <1>1, <1>2
  <2> QED BY <2>1, <2>2
<1>7. \E i \in Able(open, v) : \A j \in Able(open, v) :
        \/ Cost(First, i, v) < Cost(First, j, v)
        \/ Cost(First, i, v) = Cost(First, j, v) /\ i <= j
  BY <1>6 DEF S, c
<1> QED BY <1>7 DEF Nearest

OccupyRun(f, plan) ==
    /\ f \in [0..Len(Numbers(Len(crew))) -> Filling]
    /\ f[0] = [chains |-> plan.chains, open |-> Loose(plan) \ Driven(plan.chains)]
    /\ \A k \in 1..Len(Numbers(Len(crew))) : f[k] = Occupy(f[k - 1], Numbers(Len(crew))[k])
    /\ Occupied(plan) = f[Len(Numbers(Len(crew)))]

\* The idle vehicles get their tasks one after the other.
LEMMA OccupiedRun ==
  ASSUME Base, NEW plan, plan.chains \in Chains, plan.spare \in SUBSET Jobs
  PROVE  \E f : OccupyRun(f, plan)
<1> DEFINE b == [chains |-> plan.chains, open |-> Loose(plan) \ Driven(plan.chains)]
           s == Numbers(Len(crew))
           O == [x \in Filling \X Cars |-> Occupy(x[1], x[2])]
           E(h) == h = [t \in SUBSET DOMAIN s |->
                          IF t = {} THEN b ELSE Occupy(h[t \ {Max(t)}], s[Max(t)])]
           H == CHOOSE h : E(h)
<1>1. b \in Filling /\ s \in Seq(Cars)
  <2>1. s \in Seq(Cars)
    BY BaseFacts
  <2> QED BY <2>1 DEF Filling, Loose
<1>2. ASSUME NEW x \in Filling, NEW y \in Cars PROVE Occupy(x, y) \in Filling
  <2>1. x.chains \in [Cars -> Seq(Jobs)] /\ x.open \in SUBSET Jobs
    BY <1>2 DEF Filling, Chains
  <2>2. CASE x.chains[y] # <<>> \/ Able(x.open, y) = {}
    BY <1>2, <2>2 DEF Occupy
  <2>3. CASE ~(x.chains[y] # <<>> \/ Able(x.open, y) = {})
    <3>1. Nearest(x.open, y) \in Able(x.open, y)
      BY <2>1, <2>3, NearestIn
    <3>2. Nearest(x.open, y) \in Jobs
      BY <2>1, <3>1 DEF Able
    <3>3. [x.chains EXCEPT ![y] = <<Nearest(x.open, y)>>] \in [Cars -> Seq(Jobs)]
      BY <2>1, <3>2
    <3> QED BY <2>1, <2>3, <3>3 DEF Occupy, Filling, Chains
  <2> QED BY <2>2, <2>3
<1>3. /\ O \in [Filling \X Cars -> Filling]
      /\ \A x \in Filling, y \in Cars : O[<<x, y>>] = Occupy(x, y)
  BY <1>2
<1>4. Occupied(plan) = H[DOMAIN s]
  BY DEF Occupied, FoldLeft, MapThenFoldSet
<1> HIDE DEF O, b, s
<1>5. PICK h : Table(h, Filling, b, Cars, s, O)
  BY <1>1, <1>3, FoldExists
<1>6. \A t \in SUBSET DOMAIN s : t # {} => s[Max(t)] \in Cars
  BY <1>5 DEF Table
<1>7. E(h)
  <2>1. ASSUME NEW t \in SUBSET DOMAIN s
        PROVE  h[t] = IF t = {} THEN b ELSE Occupy(h[t \ {Max(t)}], s[Max(t)])
    BY <1>3, <1>5, <1>6 DEF Unfolds, Table
  <2> QED BY <1>5, <2>1 DEF Table
<1>8. E(H)
  <2> HIDE DEF E
  <2> QED BY <1>7
<1> HIDE DEF H
<1>9. Unfolds(H, Filling, b, s, O)
  <2>1. ASSUME NEW t \in SUBSET DOMAIN s
        PROVE  H[t] = IF t = {} THEN b ELSE Occupy(H[t \ {Max(t)}], s[Max(t)])
    BY <1>8
  <2> HIDE DEF E
  <2> QED BY <1>3, <1>6, <2>1 DEF Unfolds
<1>10. PICK f : Folds(f, H, Filling, b, s, O)
  BY <1>1, <1>3, <1>9, FoldRun
<1>11. ASSUME NEW k \in 1..Len(s) PROVE f[k] = Occupy(f[k - 1], s[k])
  <2>1. k - 1 \in 0..Len(s) /\ s[k] \in Cars
    BY <1>1
  <2>2. f[k - 1] \in Filling /\ f[k] = O[<<f[k - 1], s[k]>>]
    BY <1>10, <2>1 DEF Along, Folds
  <2> QED BY <1>3, <2>1, <2>2
<1> QED BY <1>4, <1>10, <1>11 DEF Along, Folds, OccupyRun, b, s

\* Sums and comparisons of doubles are among the doubles of the model.
LEMMA PlusIn ==
  ASSUME NEW x \in Int, NEW y \in Int
  PROVE  Plus(x, y) \in Int
BY NumberAssumption DEF Plus, NaN

\* What a leg of a chain costs is a number.
LEMMA LegIn ==
  ASSUME Base, NEW v, NEW ch, NEW p
  PROVE  Leg(v, ch, p) \in Int
BY CostFacts DEF Leg

Loaded(v, ch, acc, p) == IF Job(ch[p]).charge THEN acc ELSE Plus(acc, Leg(v, ch, p))
Loading(f, v, ch, n) ==
    /\ f \in [0..Len(Numbers(n)) -> Int]
    /\ f[0] = 0
    /\ \A k \in 1..Len(Numbers(n)) : f[k] = Loaded(v, ch, f[k - 1], Numbers(n)[k])
    /\ Load(v, ch, n) = f[Len(Numbers(n))]

\* A chain is loaded leg by leg.
LEMMA LoadRun ==
  ASSUME Base, NEW v, NEW ch, NEW n \in Nat
  PROVE  \E f : Loading(f, v, ch, n)
<1> DEFINE b == 0
           s == Numbers(n)
           O == [x \in Int \X (1..n) |-> Loaded(v, ch, x[1], x[2])]
           E(h) == h = [t \in SUBSET DOMAIN s |->
                          IF t = {} THEN b ELSE Loaded(v, ch, h[t \ {Max(t)}], s[Max(t)])]
           H == CHOOSE h : E(h)
<1>1. b \in Int /\ s \in Seq(1..n)
  BY NumbersFacts
<1>2. ASSUME NEW x \in Int, NEW y \in 1..n PROVE Loaded(v, ch, x, y) \in Int
  BY <1>2, PlusIn, LegIn DEF Loaded
<1>3. /\ O \in [Int \X (1..n) -> Int]
      /\ \A x \in Int, y \in 1..n : O[<<x, y>>] = Loaded(v, ch, x, y)
  BY <1>2
<1>4. Load(v, ch, n) = H[DOMAIN s]
  BY DEF Load, Loaded, FoldLeft, MapThenFoldSet
<1> HIDE DEF O, b, s
<1>5. PICK h : Table(h, Int, b, 1..n, s, O)
  BY <1>1, <1>3, FoldExists
<1>6. \A t \in SUBSET DOMAIN s : t # {} => s[Max(t)] \in 1..n
  BY <1>5 DEF Table
<1>7. E(h)
  <2>1. ASSUME NEW t \in SUBSET DOMAIN s
        PROVE  h[t] = IF t = {} THEN b ELSE Loaded(v, ch, h[t \ {Max(t)}], s[Max(t)])
    BY <1>3, <1>5, <1>6 DEF Unfolds, Table
  <2> QED BY <1>5, <2>1 DEF Table
<1>8. E(H)
  <2> HIDE DEF E
  <2> QED BY <1>7
<1> HIDE DEF H
<1>9. Unfolds(H, Int, b, s, O)
  <2>1. ASSUME NEW t \in SUBSET DOMAIN s
        PROVE  H[t] = IF t = {} THEN b ELSE Loaded(v, ch, H[t \ {Max(t)}], s[Max(t)])
    BY <1>8
  <2> HIDE DEF E
  <2> QED BY <1>3, <1>6, <2>1 DEF Unfolds
<1>10. PICK f : Folds(f, H, Int, b, s, O)
  BY <1>1, <1>3, <1>9, FoldRun
<1>11. ASSUME NEW k \in 1..Len(s) PROVE f[k] = Loaded(v, ch, f[k - 1], s[k])
  <2>1. k - 1 \in 0..Len(s) /\ s[k] \in 1..n
    BY <1>1
  <2>2. f[k - 1] \in Int /\ f[k] = O[<<f[k - 1], s[k]>>]
    BY <1>10, <2>1 DEF Along, Folds
  <2> QED BY <1>3, <2>1, <2>2
<1> QED BY <1>4, <1>10, <1>11 DEF Along, Folds, Loading, b, s

\* A load is a number.
LEMMA LoadIn ==
  ASSUME Base, NEW v, NEW ch, NEW n \in Nat
  PROVE  Load(v, ch, n) \in Int
<1>1. PICK f : Loading(f, v, ch, n)
  BY LoadRun
<1>2. Len(Numbers(n)) = n
  BY NumbersFacts
<1> QED BY <1>1, <1>2 DEF Loading

\* Each task is on one vehicle, once.
Once(chs) ==
    \A v, w \in DOMAIN chs : \A p \in DOMAIN chs[v], q \in DOMAIN chs[w] :
        chs[v][p] = chs[w][q] => v = w /\ p = q

\* Each task is on one vehicle, once, exactly if no list repeats a task and no two
\* lists share one.
LEMMA OnceFacts ==
  ASSUME NEW S, NEW D, NEW chs \in [D -> Seq(S)]
  PROVE  Once(chs) <=> /\ \A v \in D : IsInjective(chs[v])
                       /\ \A v, w \in D : v # w => ToSet(chs[v]) \cap ToSet(chs[w]) = {}
<1>1. DOMAIN chs = D
  OBVIOUS
<1>2. \A v \in D : ToSet(chs[v]) = {chs[v][p] : p \in DOMAIN chs[v]}
  BY DEF ToSet
<1>3. ASSUME Once(chs)
      PROVE  /\ \A v \in D : IsInjective(chs[v])
             /\ \A v, w \in D : v # w => ToSet(chs[v]) \cap ToSet(chs[w]) = {}
  <2>1. \A v \in D : IsInjective(chs[v])
    BY <1>1, <1>3 DEF Once, IsInjective
  <2>2. ASSUME NEW v \in D, NEW w \in D, v # w, NEW e \in ToSet(chs[v]) \cap ToSet(chs[w])
        PROVE  FALSE
    <3>1. PICK p \in DOMAIN chs[v] : chs[v][p] = e
      BY <1>2, <2>2
    <3>2. PICK q \in DOMAIN chs[w] : chs[w][q] = e
      BY <1>2, <2>2
    <3> QED BY <1>1, <1>3, <2>2, <3>1, <3>2 DEF Once
  <2> QED BY <2>1, <2>2
<1>4. ASSUME \A v \in D : IsInjective(chs[v]),
             \A v, w \in D : v # w => ToSet(chs[v]) \cap ToSet(chs[w]) = {},
             NEW v \in D, NEW w \in D, NEW p \in DOMAIN chs[v], NEW q \in DOMAIN chs[w],
             chs[v][p] = chs[w][q]
      PROVE  v = w /\ p = q
  <2>1. chs[v][p] \in ToSet(chs[v]) /\ chs[w][q] \in ToSet(chs[w])
    BY <1>2
  <2>2. v = w
    BY <1>4, <2>1
  <2> QED BY <1>4, <2>2 DEF IsInjective
<1> QED BY <1>1, <1>3, <1>4 DEF Once

Joined(new, chs, S, D, v, e) ==
    /\ new \in [D -> Seq(S)]
    /\ Driven(new) = Driven(chs) \cup {e}
    /\ Once(chs) /\ e \notin Driven(chs) => Once(new)
    /\ new[v] # <<>>

\* A task that joins a chain joins the tasks on vehicles, and if it was on none of
\* them before each task is still on one vehicle, once.
LEMMA ExtendFacts ==
  ASSUME NEW S, NEW D, NEW chs \in [D -> Seq(S)], NEW v \in D, NEW e \in S,
         NEW t \in Seq(S), ToSet(t) = ToSet(chs[v]) \cup {e},
         IsInjective(chs[v]) /\ e \notin ToSet(chs[v]) => IsInjective(t)
  PROVE  Joined([chs EXCEPT ![v] = t], chs, S, D, v, e)
<1> DEFINE new == [chs EXCEPT ![v] = t]
<1>1. /\ new \in [D -> Seq(S)] /\ DOMAIN new = D /\ DOMAIN chs = D
      /\ new[v] = t
      /\ \A w \in D \ {v} : new[w] = chs[w]
  OBVIOUS
<1> HIDE DEF new
<1>2. Driven(new) = Driven(chs) \cup {e}
  BY <1>1 DEF Driven
<1>3. ASSUME Once(chs), e \notin Driven(chs) PROVE Once(new)
  <2>1. /\ \A w \in D : IsInjective(chs[w])
        /\ \A w, u \in D : w # u => ToSet(chs[w]) \cap ToSet(chs[u]) = {}
    BY <1>3, OnceFacts
  <2>2. \A w \in D : e \notin ToSet(chs[w])
    BY <1>3 DEF Driven
  <2>3. \A w \in D : IsInjective(new[w])
    BY <1>1, <2>1, <2>2
  <2>4. \A w, u \in D : w # u => ToSet(new[w]) \cap ToSet(new[u]) = {}
    <3>1. ASSUME NEW w \in D, w # v PROVE ToSet(new[v]) \cap ToSet(new[w]) = {}
      <4>1. ToSet(chs[v]) \cap ToSet(chs[w]) = {} /\ new[w] = chs[w]
        BY <1>1, <2>1, <3>1
      <4> QED BY <1>1, <2>2, <4>1
    <3>2. ASSUME NEW w \in D, NEW u \in D, w # v, u # v, w # u
          PROVE  ToSet(new[w]) \cap ToSet(new[u]) = {}
      BY <1>1, <2>1, <3>2
    <3> QED BY <3>1, <3>2
  <2> QED BY <1>1, <2>3, <2>4, OnceFacts
<1>4. new[v] # <<>>
  <2>1. e \in ToSet(new[v])
    BY <1>1
  <2>2. ToSet(<<>>) = {}
    BY DEF ToSet
  <2> QED BY <2>1, <2>2
<1>5. Joined(new, chs, S, D, v, e)
  BY <1>1, <1>2, <1>3, <1>4 DEF Joined
<1> QED BY <1>5 DEF new

\* The same of a task that is inserted.
LEMMA JoinFacts ==
  ASSUME NEW S, NEW D, NEW chs \in [D -> Seq(S)], NEW v \in D,
         NEW p \in 1..Len(chs[v]) + 1, NEW e \in S
  PROVE  Joined([chs EXCEPT ![v] = InsertAt(@, p, e)], chs, S, D, v, e)
<1> DEFINE t == InsertAt(chs[v], p, e)
<1>1. /\ t \in Seq(S)
      /\ ToSet(t) = ToSet(chs[v]) \cup {e}
      /\ IsInjective(chs[v]) /\ e \notin ToSet(chs[v]) => IsInjective(t)
  BY InsertFacts
<1> HIDE DEF t
<1>2. Joined([chs EXCEPT ![v] = t], chs, S, D, v, e)
  BY <1>1, ExtendFacts
<1> QED BY <1>2 DEF t

\* The cheapest slot is a slot of the chains.
LEMMA BestSlot ==
  ASSUME NEW S, NEW n \in Nat, NEW chs \in [1..n -> Seq(S)],
         NEW slots \in SUBSET Slots(chs), slots # {}, NEW price \in [slots -> Int]
  PROVE  LET best == Cheapest(slots, price)
         IN  /\ best \in slots /\ best[1] \in 1..n
             /\ best[2] \in 1..Len(chs[best[1]]) + 1
<1>1. /\ IsFiniteSet(Slots(chs))
      /\ \A s \in Slots(chs) : /\ s = <<s[1], s[2]>>
                               /\ s[1] \in 1..n /\ s[2] \in 1..Len(chs[s[1]]) + 1
  BY SlotsFacts
<1>2. \A s \in slots : /\ s = <<s[1], s[2]>> /\ s[1] \in 1..n
                       /\ s[2] \in 1..Len(chs[s[1]]) + 1
  BY <1>1
<1>3. \A s \in slots : s[1] \in Int /\ s[2] \in Int
  <2>1. \A s \in slots : Len(chs[s[1]]) \in Nat
    BY <1>2
  <2> QED BY <1>2, <2>1
<1>4. IsFiniteSet(slots)
  BY <1>1, FS_Subset
<1>5. Cheapest(slots, price) \in slots
  BY <1>2, <1>3, <1>4, CheapestIn
<1> QED BY <1>2, <1>5

Plans == [chains : Chains, spare : SUBSET Jobs, load : [Cars -> Int]]

\* What a task adds to a chain is a number.
LEMMA GainIn ==
  ASSUME Base, NEW i, NEW v, NEW ch, NEW p
  PROVE  Gain(i, v, ch, p) \in Int
<1>1. /\ Cost(Before(ch, p), i, v) \in Int /\ Cost(i, ch[p], v) \in Int
      /\ Leg(v, ch, p) \in Int /\ -Leg(v, ch, p) \in Int
  <2>1. Leg(v, ch, p) \in Int
    BY LegIn
  <2>2. -Leg(v, ch, p) \in Int
    BY <2>1
  <2> QED BY <2>1, <2>2, CostFacts
<1>2. Plus(-Leg(v, ch, p), Cost(Before(ch, p), i, v)) \in Int
  BY <1>1, PlusIn
<1>3. Plus(Plus(-Leg(v, ch, p), Cost(Before(ch, p), i, v)), Cost(i, ch[p], v)) \in Int
  BY <1>1, <1>2, PlusIn
<1> QED BY <1>1, <1>3 DEF Gain

\* Placing a misplaced task makes a plan a plan.
LEMMA PlacedTyped ==
  ASSUME Base, NEW plan \in Plans, NEW duty \in Jobs \X Cars
  PROVE  Placed(plan, duty) \in Plans
<1> DEFINE i == duty[1]
           home == duty[2]
           gain(s) == Gain(i, s[1], plan.chains[s[1]], s[2])
           slots == {s \in Slots(plan.chains) :
                       /\ Cost(First, i, s[1]) < Inf
                       /\ Job(i).charge \/ ~Less(Limit(s[1]), Plus(plan.load[s[1]], gain(s)))
                       /\ Less(gain(s), Inf)}
           price == [s \in slots |-> gain(s)]
           best == Cheapest(slots, price)
           put == [plan.chains EXCEPT ![best[1]] = InsertAt(@, best[2], i)]
           new == IF home = best[1] THEN put ELSE [put EXCEPT ![home] = Without(@, i)]
           more == IF Job(i).charge THEN plan.load[best[1]]
                   ELSE Plus(plan.load[best[1]], gain(best))
<1>1. /\ plan.chains \in Chains /\ plan.chains \in [1..Len(crew) -> Seq(Jobs)]
      /\ plan.spare \in SUBSET Jobs /\ plan.load \in [Cars -> Int]
      /\ i \in Jobs /\ home \in Cars /\ Len(crew) \in Nat /\ Cars = 1..Len(crew)
  BY BaseFacts DEF Plans, Chains
<1>2. Placed(plan, duty) =
        IF slots = {} THEN [plan EXCEPT !.spare = @ \cup {i}]
        ELSE [plan EXCEPT !.chains = new, !.load[best[1]] = more]
  BY DEF Placed
<1>3. slots \subseteq Slots(plan.chains) /\ price \in [slots -> Int]
  BY GainIn
<1>4. gain(best) \in Int
  BY GainIn
<1> HIDE DEF i, home, slots, price, gain
<1>5. CASE slots = {}
  <2>1. plan.spare \cup {i} \in SUBSET Jobs
    BY <1>1
  <2>2. [plan EXCEPT !.spare = @ \cup {i}] \in Plans
    BY <2>1 DEF Plans
  <2> QED BY <1>2, <1>5, <2>2
<1>6. CASE slots # {}
  <2>1. best \in slots /\ best[1] \in Cars /\ best[2] \in 1..Len(plan.chains[best[1]]) + 1
    BY <1>1, <1>3, <1>6, BestSlot
  <2> HIDE DEF best
  <2>2. put \in [Cars -> Seq(Jobs)]
    <3>1. plan.chains \in [Cars -> Seq(Jobs)]
      BY <1>1 DEF Chains
    <3>2. plan.chains[best[1]] \in Seq(Jobs)
      BY <2>1, <3>1
    <3>3. InsertAt(plan.chains[best[1]], best[2], i) \in Seq(Jobs)
      BY <1>1, <2>1, <3>2, InsertFacts
    <3> QED BY <3>1, <3>3
  <2> HIDE DEF put
  <2>3. Without(put[home], i) \in Seq(Jobs)
    <3>1. put[home] \in Seq(Jobs)
      BY <1>1, <2>2
    <3> QED BY <3>1, ChosenPositions DEF Without
  <2>4. new \in Chains
    <3>1. [put EXCEPT ![home] = Without(put[home], i)] \in [Cars -> Seq(Jobs)]
      BY <2>2, <2>3
    <3> QED BY <2>2, <3>1 DEF Chains
  <2>5. more \in Int
    BY <1>1, <1>4, <2>1, PlusIn
  <2> HIDE DEF new, more
  <2>6. [plan.load EXCEPT ![best[1]] = more] \in [Cars -> Int]
    BY <1>1, <2>5
  <2>7. [plan EXCEPT !.chains = new, !.load = [plan.load EXCEPT ![best[1]] = more]] \in Plans
    BY <2>4, <2>6 DEF Plans
  <2>8. [plan EXCEPT !.chains = new, !.load[best[1]] = more] =
        [plan EXCEPT !.chains = new, !.load = [plan.load EXCEPT ![best[1]] = more]]
    OBVIOUS
  <2> QED BY <1>2, <1>6, <2>7, <2>8
<1> QED BY <1>5, <1>6

\* What is placed anew are tasks, each with a vehicle it is on.
LEMMA MisplacedIn ==
  ASSUME Base, NEW chs \in Chains
  PROVE  /\ Misplaced(chs) \in Seq(Jobs \X Cars)
         /\ /\ \A v \in Cars : Refused(v, chs[v]) = <<>>
            /\ \A v \in Cars : Beyond(v, Startable(v, chs[v])) = <<>>
            => Misplaced(chs) = <<>>
<1> DEFINE out == [v \in Cars |-> Tagged(Refused(v, chs[v]), v)]
           over == [v \in Cars |-> Tagged(Beyond(v, Startable(v, chs[v])), v)]
           B == Jobs \X Cars
<1>1. Len(crew) \in Nat /\ Cars = 1..Len(crew)
  BY BaseFacts
<1>2. ASSUME NEW s \in Seq(Jobs), NEW v \in Cars
      PROVE  Tagged(s, v) \in Seq(B) /\ (s = <<>> => Tagged(s, v) = <<>>)
  BY <1>2 DEF Tagged
<1>3. ASSUME NEW v \in Cars
      PROVE  Refused(v, chs[v]) \in Seq(Jobs) /\ Beyond(v, Startable(v, chs[v])) \in Seq(Jobs)
  <2>1. chs[v] \in Seq(Jobs)
    BY DEF Chains
  <2>2. Startable(v, chs[v]) \in Seq(Jobs) /\ Refused(v, chs[v]) \in Seq(Jobs)
    BY <2>1, ChosenPositions DEF Startable, Refused
  <2>3. Beyond(v, Startable(v, chs[v])) \in Seq(Jobs)
    BY <2>2, ChosenPositions DEF Beyond
  <2> QED BY <2>2, <2>3
<1>4. out \in [1..Len(crew) -> Seq(B)] /\ over \in [1..Len(crew) -> Seq(B)]
  BY <1>1, <1>2, <1>3
<1>5. Misplaced(chs) = FlattenSeq(out) \o FlattenSeq(over)
  BY DEF Misplaced
<1> HIDE DEF B
<1>6. FlattenSeq(out) \in Seq(B) /\ FlattenSeq(over) \in Seq(B)
  <2> HIDE DEF out, over
  <2> QED BY <1>1, <1>4, FlattenFacts
<1>7. Misplaced(chs) \in Seq(B)
  <2> HIDE DEF out, over
  <2> QED BY <1>5, <1>6
<1>8. ASSUME \A v \in Cars : Refused(v, chs[v]) = <<>>,
             \A v \in Cars : Beyond(v, Startable(v, chs[v])) = <<>>
      PROVE  Misplaced(chs) = <<>>
  <2>1. \A v \in 1..Len(crew) : out[v] = <<>> /\ over[v] = <<>>
    BY <1>1, <1>2, <1>3, <1>8
  <2> HIDE DEF out, over
  <2>2. \A v \in 1..Len(crew) : ToSet(out[v]) = {} /\ ToSet(over[v]) = {}
    BY <2>1 DEF ToSet
  <2>3. ToSet(FlattenSeq(out)) = {} /\ ToSet(FlattenSeq(over)) = {}
    <3>1. ToSet(FlattenSeq(out)) = UNION {ToSet(out[v]) : v \in 1..Len(crew)}
      BY <1>1, <1>4, FlattenFacts, Zenon
    <3>2. ToSet(FlattenSeq(over)) = UNION {ToSet(over[v]) : v \in 1..Len(crew)}
      BY <1>1, <1>4, FlattenFacts, Zenon
    <3>3. UNION {ToSet(out[v]) : v \in 1..Len(crew)} = {}
      BY <2>2
    <3>4. UNION {ToSet(over[v]) : v \in 1..Len(crew)} = {}
      BY <2>2
    <3> QED BY <3>1, <3>2, <3>3, <3>4
  <2>4. FlattenSeq(out) = <<>> /\ FlattenSeq(over) = <<>>
    BY <1>6, <2>3 DEF ToSet
  <2> QED BY <1>5, <2>4
<1> QED BY <1>7, <1>8 DEF B

Kept(plan) == [v \in Cars |-> Startable(v, plan.chains[v])]
Emptied(plan) == [chains |-> Kept(plan), spare |-> plan.spare,
                  load |-> [v \in Cars |-> Load(v, Kept(plan)[v], Len(Kept(plan)[v]))]]

Placing(f, plan) ==
    /\ f \in [0..Len(Misplaced(plan.chains)) -> Plans]
    /\ f[0] = Emptied(plan)
    /\ \A k \in 1..Len(Misplaced(plan.chains)) : f[k] = Placed(f[k - 1], Misplaced(plan.chains)[k])
    /\ Replaced(plan) = f[Len(Misplaced(plan.chains))]

\* The misplaced tasks are placed one after the other.
LEMMA ReplacedRun ==
  ASSUME Base, NEW plan, plan.chains \in Chains, plan.spare \in SUBSET Jobs
  PROVE  \E f : Placing(f, plan)
<1> DEFINE b == Emptied(plan)
           s == Misplaced(plan.chains)
           O == [x \in Plans \X (Jobs \X Cars) |-> Placed(x[1], x[2])]
           E(h) == h = [t \in SUBSET DOMAIN s |->
                          IF t = {} THEN b ELSE Placed(h[t \ {Max(t)}], s[Max(t)])]
           H == CHOOSE h : E(h)
<1>1. b \in Plans /\ s \in Seq((Jobs \X Cars))
  <2>1. Kept(plan) \in [Cars -> Seq(Jobs)]
    <3>1. \A v \in Cars : Startable(v, plan.chains[v]) \in Seq(Jobs)
      BY ChosenPositions DEF Startable, Chains
    <3> QED BY <3>1 DEF Kept
  <2>2. \A v \in Cars : Load(v, Kept(plan)[v], Len(Kept(plan)[v])) \in Int
    BY <2>1, LoadIn
  <2>3. Emptied(plan) \in Plans
    BY <2>1, <2>2 DEF Emptied, Plans, Chains
  <2> QED BY <2>3, MisplacedIn
<1>2. ASSUME NEW x \in Plans, NEW y \in (Jobs \X Cars) PROVE Placed(x, y) \in Plans
  BY <1>2, PlacedTyped
<1>3. /\ O \in [Plans \X (Jobs \X Cars) -> Plans]
      /\ \A x \in Plans, y \in (Jobs \X Cars) : O[<<x, y>>] = Placed(x, y)
  BY <1>2
<1>4. Replaced(plan) = H[DOMAIN s]
  BY DEF Replaced, Emptied, Kept, FoldLeft, MapThenFoldSet
<1> HIDE DEF O, b, s
<1>5. PICK h : Table(h, Plans, b, (Jobs \X Cars), s, O)
  BY <1>1, <1>3, FoldExists
<1>6. \A t \in SUBSET DOMAIN s : t # {} => s[Max(t)] \in (Jobs \X Cars)
  BY <1>5 DEF Table
<1>7. E(h)
  <2>1. ASSUME NEW t \in SUBSET DOMAIN s
        PROVE  h[t] = IF t = {} THEN b ELSE Placed(h[t \ {Max(t)}], s[Max(t)])
    BY <1>3, <1>5, <1>6 DEF Unfolds, Table
  <2> QED BY <1>5, <2>1 DEF Table
<1>8. E(H)
  <2> HIDE DEF E
  <2> QED BY <1>7
<1> HIDE DEF H
<1>9. Unfolds(H, Plans, b, s, O)
  <2>1. ASSUME NEW t \in SUBSET DOMAIN s
        PROVE  H[t] = IF t = {} THEN b ELSE Placed(H[t \ {Max(t)}], s[Max(t)])
    BY <1>8
  <2> HIDE DEF E
  <2> QED BY <1>3, <1>6, <2>1 DEF Unfolds
<1>10. PICK f : Folds(f, H, Plans, b, s, O)
  BY <1>1, <1>3, <1>9, FoldRun
<1>11. ASSUME NEW k \in 1..Len(s) PROVE f[k] = Placed(f[k - 1], s[k])
  <2>1. k - 1 \in 0..Len(s) /\ s[k] \in (Jobs \X Cars)
    BY <1>1
  <2>2. f[k - 1] \in Plans /\ f[k] = O[<<f[k - 1], s[k]>>]
    BY <1>10, <2>1 DEF Along, Folds
  <2> QED BY <1>3, <2>1, <2>2
<1> QED BY <1>4, <1>10, <1>11 DEF Along, Folds, Placing, b, s

\* A task at the end.
LEMMA AppendFacts ==
  ASSUME NEW S, NEW s \in Seq(S), NEW e \in S
  PROVE  /\ ToSet(Append(s, e)) = ToSet(s) \cup {e}
         /\ IsInjective(s) /\ e \notin ToSet(s) => IsInjective(Append(s, e))
<1> DEFINE new == Append(s, e)
<1>1. /\ DOMAIN new = 1..Len(s) + 1 /\ Len(s) \in Nat /\ DOMAIN s = 1..Len(s)
      /\ new[Len(s) + 1] = e /\ \A p \in 1..Len(s) : new[p] = s[p]
      /\ \A j : j \in 1..Len(s) + 1 <=> j \in 1..Len(s) \/ j = Len(s) + 1
  OBVIOUS
<1> HIDE DEF new
<1>2. ToSet(new) = ToSet(s) \cup {e}
  BY <1>1 DEF ToSet
<1>3. IsInjective(s) /\ e \notin ToSet(s) => IsInjective(new)
  BY <1>1 DEF ToSet, IsInjective
<1> QED BY <1>2, <1>3 DEF new

\* A chain whose last leg is known as well.
LEMMA KnownAppend ==
  ASSUME NEW v, NEW ch \in Seq(Jobs), NEW i \in Jobs, Known(v, ch),
         Cost(Latest(ch), i, v) < Inf
  PROVE  Known(v, Append(ch, i))
<1> DEFINE new == Append(ch, i)
<1>1. /\ new \in Seq(Jobs) /\ Len(new) = Len(ch) + 1 /\ Len(ch) \in Nat
      /\ new[Len(ch) + 1] = i /\ \A p \in 1..Len(ch) : new[p] = ch[p]
  OBVIOUS
<1> HIDE DEF new
<1>2. ASSUME NEW p \in 1..Len(ch) PROVE Leg(v, new, p) < Inf
  <2>1. Before(new, p) = Before(ch, p) /\ new[p] = ch[p]
    BY <1>1 DEF Before
  <2>2. p \in DOMAIN ch
    OBVIOUS
  <2> QED BY <2>1, <2>2 DEF Known, Leg
<1>3. Leg(v, new, Len(ch) + 1) < Inf
  <2>1. Before(new, Len(ch) + 1) = Latest(ch)
    <3>1. CASE ch = <<>>
      BY <1>1, <3>1 DEF Before, Latest
    <3>2. CASE ch # <<>>
      <4>1. Len(ch) \in 1..Len(ch) /\ Len(ch) + 1 # 1 /\ Last(ch) = ch[Len(ch)]
        BY <1>1, <3>2 DEF Last
      <4>2. new[Len(ch) + 1 - 1] = ch[Len(ch)]
        BY <1>1, <4>1
      <4> QED BY <3>2, <4>1, <4>2 DEF Before, Latest
    <3> QED BY <3>1, <3>2
  <2> QED BY <1>1, <2>1 DEF Leg
<1>4. DOMAIN new = 1..Len(ch) + 1
  BY <1>1
<1>5. ASSUME NEW p \in DOMAIN new PROVE Leg(v, new, p) < Inf
  <2>1. p \in 1..Len(ch) \/ p = Len(ch) + 1
    BY <1>1, <1>4
  <2> QED BY <1>2, <1>3, <2>1
<1>6. Known(v, new)
  BY <1>5 DEF Known
<1> QED BY <1>6 DEF new

\* The beginning of a chain whose legs are known.
LEMMA KnownPrefix ==
  ASSUME NEW v, NEW ch \in Seq(Jobs), NEW k \in 0..Len(ch), Known(v, ch)
  PROVE  Known(v, SubSeq(ch, 1, k))
<1> DEFINE new == SubSeq(ch, 1, k)
<1>1. /\ new \in Seq(Jobs) /\ Len(new) = k /\ k \in Nat
      /\ \A p \in 1..k : new[p] = ch[p] /\ p \in DOMAIN ch
  OBVIOUS
<1> HIDE DEF new
<1>2. ASSUME NEW p \in DOMAIN new PROVE Leg(v, new, p) < Inf
  <2>1. p \in 1..k
    BY <1>1
  <2>2. Before(new, p) = Before(ch, p) /\ new[p] = ch[p]
    BY <1>1, <2>1 DEF Before
  <2> QED BY <1>1, <2>1, <2>2 DEF Known, Leg
<1>3. Known(v, new)
  BY <1>2 DEF Known
<1> QED BY <1>3 DEF new

\* What is tidied has known legs and tasks of the chain, each once if they were.
LEMMA TidiedFacts ==
  ASSUME NEW v, NEW ch \in Seq(Jobs)
  PROVE  /\ Tidied(v, ch) \in Tidying
         /\ Known(v, Tidied(v, ch).kept)
         /\ ToSet(Tidied(v, ch).kept) \subseteq ToSet(ch)
         /\ IsInjective(ch) => IsInjective(Tidied(v, ch).kept)
<1>1. PICK f : TidyRun(f, v, ch)
  BY TidiedRun
<1>2. /\ Len(ch) \in Nat /\ DOMAIN ch = 1..Len(ch)
      /\ \A k \in 0..Len(ch) : f[k] \in Tidying /\ f[k].kept \in Seq(Jobs)
      /\ f[0].kept = <<>> /\ Tidied(v, ch) = f[Len(ch)]
      /\ \A k \in 1..Len(ch) : f[k] = Tidy(v, f[k - 1], ch[k])
  <2>1. \A k \in 0..Len(ch) : f[k] \in Tidying
    BY <1>1 DEF TidyRun
  <2>2. \A k \in 0..Len(ch) : f[k].kept \in Seq(Jobs)
    BY <2>1 DEF Tidying
  <2> QED BY <1>1, <2>1, <2>2 DEF TidyRun
<1> DEFINE Past(k) == {ch[j] : j \in 1..k}
           T == {k \in 0..Len(ch) : /\ Known(v, f[k].kept)
                                    /\ ToSet(f[k].kept) \subseteq Past(k)
                                    /\ IsInjective(ch) => IsInjective(f[k].kept)}
<1>3. 0 \in T
  <2>1. Known(v, <<>>) /\ ToSet(<<>>) = {} /\ IsInjective(<<>>)
    BY DEF Known, ToSet, IsInjective
  <2> QED BY <1>2, <2>1
<1>4. ASSUME NEW k \in 0..Len(ch) - 1, k \in T PROVE k + 1 \in T
  <2> DEFINE old == f[k].kept
  <2>1. /\ k + 1 \in 1..Len(ch) /\ k + 1 \in 0..Len(ch) /\ ch[k + 1] \in Jobs
        /\ f[k + 1] = Tidy(v, f[k], ch[k + 1])
        /\ old \in Seq(Jobs) /\ f[k] \in Tidying
        /\ Known(v, old) /\ ToSet(old) \subseteq Past(k)
        /\ IsInjective(ch) => IsInjective(old)
        /\ Past(k + 1) = Past(k) \cup {ch[k + 1]}
    <3>1. k + 1 \in 1..Len(ch) /\ k + 1 \in 0..Len(ch) /\ k \in 0..Len(ch) /\ k + 1 - 1 = k
      BY <1>2
    <3>2. Past(k + 1) = Past(k) \cup {ch[k + 1]}
      <4>1. \A j : j \in 1..k + 1 <=> j \in 1..k \/ j = k + 1
        BY <1>2
      <4> QED BY <4>1
    <3>3. f[k + 1] = Tidy(v, f[k], ch[k + 1]) /\ ch[k + 1] \in Jobs
      BY <1>2, <3>1
    <3>4. /\ Known(v, old) /\ ToSet(old) \subseteq Past(k)
          /\ IsInjective(ch) => IsInjective(old)
      BY <1>4
    <3>5. old \in Seq(Jobs) /\ f[k] \in Tidying
      BY <1>2, <3>1
    <3> HIDE DEF Past, old
    <3> QED BY <3>1, <3>2, <3>3, <3>4, <3>5
  <2>2. IsInjective(ch) => ch[k + 1] \notin Past(k)
    <3>1. ASSUME IsInjective(ch), NEW j \in 1..k, ch[j] = ch[k + 1] PROVE FALSE
      <4>1. j \in DOMAIN ch /\ k + 1 \in DOMAIN ch /\ j # k + 1
        BY <1>2, <2>1
      <4> QED BY <3>1, <4>1 DEF IsInjective
    <3> QED BY <3>1
  <2> HIDE DEF Past
  <2>3. CASE Cost(Latest(old), ch[k + 1], v) < Inf
    <3>1. f[k + 1].kept = Append(old, ch[k + 1])
      BY <2>1, <2>3 DEF Tidy, Tidying
    <3>2. Known(v, Append(old, ch[k + 1]))
      BY <2>1, <2>3, KnownAppend
    <3>3. /\ ToSet(Append(old, ch[k + 1])) = ToSet(old) \cup {ch[k + 1]}
          /\ IsInjective(old) /\ ch[k + 1] \notin ToSet(old)
             => IsInjective(Append(old, ch[k + 1]))
      BY <2>1, AppendFacts
    <3> HIDE DEF old
    <3> QED BY <2>1, <2>2, <3>1, <3>2, <3>3
  <2>4. CASE ~(Cost(Latest(old), ch[k + 1], v) < Inf)
    <3>1. f[k + 1].kept = old
      BY <2>1, <2>4 DEF Tidy, Tidying
    <3> HIDE DEF old
    <3> QED BY <2>1, <3>1
  <2> QED BY <2>3, <2>4
<1>5. Len(ch) \in T
  <2>1. 0 \in Nat /\ Len(ch) \in 0..Len(ch)
    BY <1>2
  <2> HIDE DEF T
  <2> QED BY <1>2, <1>3, <1>4, <2>1, IntervalStep
<1>6. Past(Len(ch)) = ToSet(ch)
  BY <1>2 DEF ToSet
<1> QED BY <1>2, <1>5, <1>6

Planned(plan) == plan.chains \in Chains /\ plan.spare \in SUBSET Jobs
AllKnown(chs) == \A v \in Cars : Known(v, chs[v])
Shrunk(new, chs) ==
    \A v \in Cars : /\ ToSet(new[v]) \subseteq ToSet(chs[v])
                    /\ IsInjective(chs[v]) => IsInjective(new[v])

\* Tasks that leave their lists leave the others where they are, once.
LEMMA ShrunkOnce ==
  ASSUME NEW chs \in Chains, NEW new \in Chains, Shrunk(new, chs), Once(chs)
  PROVE  Once(new)
<1>1. /\ \A v \in Cars : IsInjective(chs[v])
      /\ \A v, w \in Cars : v # w => ToSet(chs[v]) \cap ToSet(chs[w]) = {}
  BY OnceFacts DEF Chains
<1>2. /\ \A v \in Cars : IsInjective(new[v])
      /\ \A v, w \in Cars : v # w => ToSet(new[v]) \cap ToSet(new[w]) = {}
  BY <1>1 DEF Shrunk
<1> QED BY <1>2, OnceFacts DEF Chains

\* Moving misplaced tasks leaves a plan; if none is misplaced no list gains a task.
LEMMA ReplacedFacts ==
  ASSUME Base, NEW plan, Planned(plan)
  PROVE  /\ Planned(Replaced(plan))
         /\ Misplaced(plan.chains) = <<>> => Shrunk(Replaced(plan).chains, plan.chains)
<1>1. PICK f : Placing(f, plan)
  BY ReplacedRun DEF Planned
<1>2. Misplaced(plan.chains) \in Seq(Jobs \X Cars)
  BY MisplacedIn DEF Planned
<1>3. Len(Misplaced(plan.chains)) \in Nat
  BY <1>2
<1>4. Replaced(plan) \in Plans
  BY <1>1, <1>3 DEF Placing
<1>5. ASSUME Misplaced(plan.chains) = <<>>
      PROVE  Shrunk(Replaced(plan).chains, plan.chains)
  <2>1. Replaced(plan) = Emptied(plan)
    BY <1>1, <1>5 DEF Placing
  <2>2. Replaced(plan).chains = [v \in Cars |-> Startable(v, plan.chains[v])]
    BY <2>1 DEF Emptied, Kept
  <2>3. ASSUME NEW v \in Cars
        PROVE  /\ ToSet(Startable(v, plan.chains[v])) \subseteq ToSet(plan.chains[v])
               /\ IsInjective(plan.chains[v]) => IsInjective(Startable(v, plan.chains[v]))
    <3>1. plan.chains[v] \in Seq(Jobs)
      BY DEF Planned, Chains
    <3> QED BY <3>1, ChosenSubset DEF Startable
  <2> QED BY <2>2, <2>3 DEF Shrunk
<1> QED BY <1>4, <1>5 DEF Plans, Planned

\* Cleaning a plan leaves known legs.
LEMMA CleanedFacts ==
  ASSUME NEW plan, Planned(plan)
  PROVE  /\ Planned(Cleaned(plan)) /\ AllKnown(Cleaned(plan).chains)
         /\ Shrunk(Cleaned(plan).chains, plan.chains)
<1>1. ASSUME NEW v \in Cars
      PROVE  /\ Tidied(v, plan.chains[v]) \in Tidying
             /\ Known(v, Tidied(v, plan.chains[v]).kept)
             /\ ToSet(Tidied(v, plan.chains[v]).kept) \subseteq ToSet(plan.chains[v])
             /\ IsInjective(plan.chains[v]) => IsInjective(Tidied(v, plan.chains[v]).kept)
  <2>1. plan.chains[v] \in Seq(Jobs)
    BY DEF Planned, Chains
  <2> QED BY <2>1, TidiedFacts
<1>2. /\ Cleaned(plan).chains = [v \in Cars |-> Tidied(v, plan.chains[v]).kept]
      /\ Cleaned(plan).spare =
           plan.spare \cup UNION {Tidied(v, plan.chains[v]).out : v \in Cars}
  BY DEF Cleaned
<1>3. \A v \in Cars : /\ Tidied(v, plan.chains[v]).kept \in Seq(Jobs)
                      /\ Tidied(v, plan.chains[v]).out \in SUBSET Jobs
  BY <1>1 DEF Tidying
<1>4. Planned(Cleaned(plan))
  BY <1>2, <1>3 DEF Planned, Chains
<1>5. AllKnown(Cleaned(plan).chains)
  BY <1>1, <1>2 DEF AllKnown
<1>6. Shrunk(Cleaned(plan).chains, plan.chains)
  BY <1>1, <1>2 DEF Shrunk
<1> QED BY <1>4, <1>5, <1>6

\* The limits leave a beginning of each chain.
LEMMA TrimmedFacts ==
  ASSUME NEW plan, Planned(plan)
  PROVE  /\ Planned(Trimmed(plan))
         /\ AllKnown(plan.chains) => AllKnown(Trimmed(plan).chains)
         /\ Shrunk(Trimmed(plan).chains, plan.chains)
<1> DEFINE cut(v) == Allowed(v, plan.chains[v])
           under(v) == SubSeq(plan.chains[v], 1, cut(v))
           over(v) == SubSeq(plan.chains[v], cut(v) + 1, Len(plan.chains[v]))
<1>1. ASSUME NEW v \in Cars PROVE plan.chains[v] \in Seq(Jobs) /\ cut(v) \in 0..Len(plan.chains[v])
  <2> DEFINE ch == plan.chains[v]
             C == CutPoints(v, ch)
  <2>1. ch \in Seq(Jobs) /\ Len(ch) \in Nat /\ DOMAIN ch = 1..Len(ch)
    BY DEF Planned, Chains
  <2>2. C \subseteq 1..Len(ch)
    BY <2>1 DEF CutPoints
  <2>3. Allowed(v, ch) = IF Len(ch) <= 1 \/ C = {} THEN Len(ch) ELSE Max({1, Min(C) - 1})
    BY DEF Allowed
  <2> HIDE DEF C, ch
  <2>4. CASE Len(ch) <= 1 \/ C = {}
    BY <2>1, <2>3, <2>4 DEF ch
  <2>5. CASE ~(Len(ch) <= 1 \/ C = {})
    <3>1. IsFiniteSet(C)
      <4>1. IsFiniteSet(1..Len(ch))
        BY <2>1, FS_Interval
      <4> QED BY <2>2, <4>1, FS_Subset
    <3>2. C \in SUBSET Int
      BY <2>1, <2>2
    <3>3. Min(C) \in C
      BY <2>5, <3>1, <3>2, MinMaxIn
    <3> DEFINE m == Min(C)
    <3>4. m \in 1..Len(ch) /\ ~(Len(ch) <= 1)
      BY <2>2, <2>5, <3>3
    <3> HIDE DEF m
    <3>5. m - 1 \in 0..Len(ch) /\ 1 \in 0..Len(ch) /\ m - 1 \in Int
      BY <2>1, <3>4
    <3>6. Min(C) - 1 \in 0..Len(ch) /\ 1 \in 0..Len(ch) /\ Min(C) - 1 \in Int
      BY <3>5 DEF m
    <3>7. Max({1, Min(C) - 1}) \in {1, Min(C) - 1}
      BY <3>6, MaxOfTwo
    <3> QED BY <2>1, <2>3, <2>5, <3>6, <3>7 DEF ch
  <2> QED BY <2>4, <2>5
<1>2. ASSUME NEW v \in Cars
      PROVE  /\ under(v) \in Seq(Jobs) /\ ToSet(over(v)) \subseteq Jobs
             /\ ToSet(under(v)) \subseteq ToSet(plan.chains[v])
             /\ IsInjective(plan.chains[v]) => IsInjective(under(v))
             /\ Known(v, plan.chains[v]) => Known(v, under(v))
  <2>1. plan.chains[v] \in Seq(Jobs) /\ cut(v) \in 0..Len(plan.chains[v])
    BY <1>1
  <2> HIDE DEF cut
  <2>2. /\ under(v) \in Seq(Jobs) /\ over(v) \in Seq(Jobs)
        /\ ToSet(plan.chains[v]) = ToSet(under(v)) \cup ToSet(over(v))
        /\ IsInjective(plan.chains[v]) => IsInjective(under(v))
    BY <2>1, CutFacts
  <2>3. Known(v, plan.chains[v]) => Known(v, under(v))
    BY <2>1, KnownPrefix
  <2> HIDE DEF over
  <2>4. ToSet(over(v)) \subseteq Jobs
    BY <2>2 DEF ToSet
  <2> QED BY <2>2, <2>3, <2>4
<1>3. /\ Trimmed(plan).chains = [v \in Cars |-> under(v)]
      /\ Trimmed(plan).spare = plan.spare \cup UNION {ToSet(over(v)) : v \in Cars}
  BY DEF Trimmed
<1> HIDE DEF cut, under, over
<1>4. Planned(Trimmed(plan))
  BY <1>2, <1>3 DEF Planned, Chains
<1>5. AllKnown(plan.chains) => AllKnown(Trimmed(plan).chains)
  BY <1>2, <1>3 DEF AllKnown
<1>6. Shrunk(Trimmed(plan).chains, plan.chains)
  BY <1>2, <1>3 DEF Shrunk
<1> QED BY <1>4, <1>5, <1>6

\* What a vehicle without tasks leaves of a plan in which the open tasks are those
\* on no vehicle: it takes one of them if it can start with any.
Settled(new, acc, v) ==
    /\ new \in Filling /\ new.open = Jobs \ Driven(new.chains)
    /\ new.open \subseteq acc.open
    /\ AllKnown(acc.chains) => AllKnown(new.chains)
    /\ Once(acc.chains) => Once(new.chains)
    /\ new.chains[v] = <<>> => Able(new.open, v) = {}
    /\ \A w \in Cars \ {v} : new.chains[w] = acc.chains[w]

\* A turn of a vehicle settles it.
LEMMA OccupyFacts ==
  ASSUME Base, NEW acc \in Filling, NEW v \in Cars, acc.open = Jobs \ Driven(acc.chains)
  PROVE  Settled(Occupy(acc, v), acc, v)
<1>1. acc.chains \in [Cars -> Seq(Jobs)] /\ acc.open \in SUBSET Jobs
  BY DEF Filling, Chains
<1>2. CASE acc.chains[v] # <<>> \/ Able(acc.open, v) = {}
  <2>1. Occupy(acc, v) = acc
    BY <1>2 DEF Occupy
  <2> QED BY <1>2, <2>1 DEF Settled
<1>3. CASE ~(acc.chains[v] # <<>> \/ Able(acc.open, v) = {})
  <2> DEFINE i == Nearest(acc.open, v)
             new == [acc.chains EXCEPT ![v] = <<i>>]
  <2>1. i \in acc.open /\ Cost(First, i, v) < Inf
    <3>1. i \in Able(acc.open, v)
      BY <1>1, <1>3, NearestIn
    <3> QED BY <3>1 DEF Able
  <2>2. Occupy(acc, v) = [chains |-> new, open |-> acc.open \ {i}]
    BY <1>3 DEF Occupy
  <2> HIDE DEF i
  <2>3. /\ <<>> \in Seq(Jobs) /\ <<i>> \in Seq(Jobs) /\ <<i>> = Append(<<>>, i)
        /\ i \in Jobs /\ i \notin Driven(acc.chains)
    BY <1>1, <2>1
  <2>4. ToSet(<<i>>) = ToSet(acc.chains[v]) \cup {i} /\ IsInjective(<<i>>)
    <3>1. ToSet(<<>>) = {} /\ IsInjective(<<>>)
      BY DEF ToSet, IsInjective
    <3>2. acc.chains[v] = <<>>
      BY <1>3
    <3>3. DOMAIN <<i>> = {1} /\ <<i>>[1] = i
      OBVIOUS
    <3>4. ToSet(<<i>>) = {i} /\ IsInjective(<<i>>)
      BY <3>3 DEF ToSet, IsInjective
    <3> QED BY <3>1, <3>2, <3>4
  <2>5. Joined(new, acc.chains, Jobs, Cars, v, i)
    BY <1>1, <2>3, <2>4, ExtendFacts
  <2>6. Known(v, <<i>>)
    <3>1. Known(v, <<>>) /\ Latest(<<>>) = First
      BY DEF Known, Latest
    <3> QED BY <2>1, <2>3, <3>1, KnownAppend
  <2>7. new[v] = <<i>> /\ \A w \in Cars \ {v} : new[w] = acc.chains[w]
    BY <1>1
  <2>8. <<i>> # <<>>
    OBVIOUS
  <2> HIDE DEF new
  <2>9. AllKnown(acc.chains) => AllKnown(new)
    BY <2>6, <2>7 DEF AllKnown
  <2>10. /\ new \in Chains /\ Driven(new) = Driven(acc.chains) \cup {i}
         /\ Once(acc.chains) => Once(new)
    BY <2>3, <2>5 DEF Joined, Chains
  <2>11. acc.open \ {i} = Jobs \ Driven(new)
    BY <2>10
  <2>12. [chains |-> new, open |-> acc.open \ {i}] \in Filling
    BY <1>1, <2>10 DEF Filling
  <2> QED BY <2>2, <2>7, <2>8, <2>9, <2>10, <2>11, <2>12 DEF Settled
<1> QED BY <1>2, <1>3

\* What the plan is for an idle vehicle: every task is on a vehicle or spare, and a
\* vehicle without tasks could start with none that is on no vehicle.
Filled(new, plan) ==
    /\ Planned(new)
    /\ Driven(new.chains) \cup new.spare = Jobs
    /\ AllKnown(plan.chains) => AllKnown(new.chains)
    /\ Once(plan.chains) => Once(new.chains)
    /\ \A v \in Cars : new.chains[v] = <<>> => Able(Jobs \ Driven(new.chains), v) = {}

\* Every vehicle without tasks has its turn.
LEMMA FillIdleFacts ==
  ASSUME Base, NEW plan, Planned(plan)
  PROVE  Filled(FillIdle(plan), plan)
<1>1. PICK f : OccupyRun(f, plan)
  BY OccupiedRun DEF Planned
<1> DEFINE n == Len(crew)
<1>2. /\ n \in Nat /\ Cars = 1..n /\ Len(Numbers(n)) = n
      /\ \A k \in 1..n : Numbers(n)[k] = k
  BY BaseFacts
<1>3. /\ \A k \in 0..n : f[k] \in Filling
      /\ f[0] = [chains |-> plan.chains, open |-> Loose(plan) \ Driven(plan.chains)]
      /\ \A k \in 1..n : f[k] = Occupy(f[k - 1], k)
      /\ Occupied(plan) = f[n]
  BY <1>1, <1>2 DEF OccupyRun
<1>4. Loose(plan) \ Driven(plan.chains) = Jobs \ Driven(plan.chains)
  BY DEF Loose, Planned
<1> HIDE DEF n
<1> DEFINE Good(acc, k) ==
             /\ acc.open = Jobs \ Driven(acc.chains)
             /\ AllKnown(plan.chains) => AllKnown(acc.chains)
             /\ Once(plan.chains) => Once(acc.chains)
             /\ \A v \in 1..k : acc.chains[v] = <<>> => Able(acc.open, v) = {}
           T == {k \in 0..n : Good(f[k], k)}
<1>5. 0 \in T
  BY <1>2, <1>3, <1>4
<1>6. ASSUME NEW k \in 0..n - 1, k \in T PROVE k + 1 \in T
  <2>1. k + 1 \in 1..n /\ k + 1 \in Cars /\ k \in 0..n /\ k + 1 \in 0..n /\ k + 1 - 1 = k
    BY <1>2
  <2>2. f[k] \in Filling /\ f[k + 1] = Occupy(f[k], k + 1) /\ Good(f[k], k)
    BY <1>3, <1>6, <2>1
  <2>3. Settled(f[k + 1], f[k], k + 1)
    BY <2>1, <2>2, OccupyFacts
  <2>4. ASSUME NEW v \in 1..k + 1, f[k + 1].chains[v] = <<>>
        PROVE  Able(f[k + 1].open, v) = {}
    <3>1. CASE v = k + 1
      BY <2>3, <2>4, <3>1 DEF Settled
    <3>2. CASE v # k + 1
      <4>1. v \in 1..k /\ v \in Cars \ {k + 1}
        BY <1>2, <2>1, <3>2
      <4>2. f[k].chains[v] = <<>>
        BY <2>3, <2>4, <4>1 DEF Settled
      <4>3. Able(f[k].open, v) = {}
        BY <2>2, <4>1, <4>2
      <4> QED BY <2>3, <4>3 DEF Able, Settled
    <3> QED BY <3>1, <3>2
  <2>5. Good(f[k + 1], k + 1)
    BY <2>2, <2>3, <2>4 DEF Settled
  <2> HIDE DEF Good
  <2> QED BY <2>1, <2>5
<1>7. n \in T
  <2>1. 0 \in Nat /\ n \in 0..n
    BY <1>2
  <2> HIDE DEF T
  <2> QED BY <1>2, <1>5, <1>6, <2>1, IntervalStep
<1>8. Good(Occupied(plan), n) /\ Occupied(plan) \in Filling
  <2>1. n \in 0..n
    BY <1>2
  <2> HIDE DEF Good
  <2> QED BY <1>3, <1>7, <2>1
<1>9. /\ FillIdle(plan).chains = Occupied(plan).chains
      /\ FillIdle(plan).spare = IF Occupied(plan).chains = plan.chains THEN Loose(plan)
                                ELSE Occupied(plan).open
  BY DEF FillIdle
<1>10. Planned(FillIdle(plan))
  <2>1. Occupied(plan).chains \in Chains /\ Occupied(plan).open \in SUBSET Jobs
    BY <1>8 DEF Filling
  <2>2. Loose(plan) \in SUBSET Jobs
    BY DEF Loose, Planned
  <2> QED BY <1>9, <2>1, <2>2 DEF Planned
<1>11. Driven(FillIdle(plan).chains) \cup FillIdle(plan).spare = Jobs
  <2>1. Driven(FillIdle(plan).chains) \subseteq Jobs /\ FillIdle(plan).spare \subseteq Jobs
    BY <1>10, DrivenFacts DEF Planned, Chains
  <2>2. CASE Occupied(plan).chains = plan.chains
    BY <1>9, <2>1, <2>2 DEF Loose
  <2>3. CASE Occupied(plan).chains # plan.chains
    BY <1>8, <1>9, <2>1, <2>3
  <2> QED BY <2>2, <2>3
<1> QED BY <1>2, <1>8, <1>9, <1>10, <1>11 DEF Filled

\* What is left of a plan when it has been repaired.
Mended(new, plan) ==
    /\ Planned(new)
    /\ Driven(new.chains) \cup new.spare = Jobs
    /\ AllKnown(new.chains)
    /\ Misplaced(plan.chains) = <<>> /\ Once(plan.chains) => Once(new.chains)
    /\ \A v \in Cars : new.chains[v] = <<>> => Able(Jobs \ Driven(new.chains), v) = {}

\* A repair leaves a plan with known legs that accounts for every task, and one that
\* has each task on one vehicle if that was so before and nothing was misplaced.
LEMMA RepairedFacts ==
  ASSUME Base, NEW plan, Planned(plan), NEW trim \in BOOLEAN
  PROVE  Mended(Repaired(plan, trim), plan)
<1> DEFINE moved == Replaced(plan)
           clean == Cleaned(moved)
           last == IF trim THEN Trimmed(clean) ELSE clean
<1>1. Repaired(plan, trim) = FillIdle(last)
  BY DEF Repaired
<1>2. /\ Planned(moved)
      /\ Misplaced(plan.chains) = <<>> => Shrunk(moved.chains, plan.chains)
  BY ReplacedFacts
<1> HIDE DEF moved
<1>3. Planned(clean) /\ AllKnown(clean.chains) /\ Shrunk(clean.chains, moved.chains)
  BY <1>2, CleanedFacts
<1> HIDE DEF clean
<1>4. /\ Planned(last) /\ AllKnown(last.chains)
      /\ Once(clean.chains) => Once(last.chains)
  <2>1. /\ Planned(Trimmed(clean)) /\ AllKnown(Trimmed(clean).chains)
        /\ Shrunk(Trimmed(clean).chains, clean.chains)
    BY <1>3, TrimmedFacts
  <2>2. Once(clean.chains) => Once(Trimmed(clean).chains)
    BY <1>3, <2>1, ShrunkOnce DEF Planned
  <2> QED BY <1>3, <2>1, <2>2
<1> HIDE DEF last
<1>5. Filled(FillIdle(last), last)
  BY <1>4, FillIdleFacts
<1>6. ASSUME Misplaced(plan.chains) = <<>>, Once(plan.chains)
      PROVE  Once(FillIdle(last).chains)
  <2>1. Once(moved.chains)
    BY <1>2, <1>6, ShrunkOnce DEF Planned
  <2>2. Once(clean.chains)
    BY <1>2, <1>3, <2>1, ShrunkOnce DEF Planned
  <2> QED BY <1>4, <1>5, <2>2 DEF Filled
<1> QED BY <1>1, <1>4, <1>5, <1>6 DEF Filled, Mended

-----------------------------------------------------------------------------
(* Nothing is misplaced without limits on endurance.                       *)

\* All of a sequence.
LEMMA ChosenAll ==
  ASSUME NEW S, NEW s \in Seq(S), NEW I, DOMAIN s \subseteq I
  PROVE  Chosen(s, I) = s
<1>1. PICK f : Picked(f, S, s, I)
  BY ChosenRun
<1>2. /\ Len(s) \in Nat /\ DOMAIN s = 1..Len(s)
      /\ \A k \in 0..Len(s) : f[k] \in Seq(S)
      /\ f[0] = <<>> /\ Chosen(s, I) = f[Len(s)]
      /\ \A k \in 1..Len(s) : f[k] = Append(f[k - 1], s[k])
  <2>1. Len(s) \in Nat /\ DOMAIN s = 1..Len(s)
    OBVIOUS
  <2>2. /\ \A k \in 0..Len(s) : f[k] \in Seq(S)
        /\ f[0] = <<>> /\ Chosen(s, I) = f[Len(s)]
        /\ \A k \in 1..Len(s) :
             f[k] = IF k \in I THEN Append(f[k - 1], s[k]) ELSE f[k - 1]
    BY <1>1 DEF Picked
  <2> QED BY <2>1, <2>2
<1> DEFINE T == {k \in 0..Len(s) : Len(f[k]) = k /\ \A j \in 1..k : f[k][j] = s[j]}
<1>3. 0 \in T
  BY <1>2
<1>4. ASSUME NEW k \in 0..Len(s) - 1, k \in T PROVE k + 1 \in T
  <2>1. /\ k \in Nat /\ k + 1 \in 1..Len(s) /\ k + 1 \in 0..Len(s) /\ k \in 0..Len(s)
        /\ k + 1 - 1 = k
    BY <1>2
  <2>2. /\ f[k + 1] = Append(f[k], s[k + 1]) /\ f[k] \in Seq(S) /\ Len(f[k]) = k
        /\ \A j \in 1..k : f[k][j] = s[j]
    BY <1>2, <1>4, <2>1
  <2>3. Len(f[k + 1]) = k + 1 /\ f[k + 1][k + 1] = s[k + 1]
    BY <2>1, <2>2
  <2>4. \A j \in 1..k : f[k + 1][j] = s[j]
    BY <2>1, <2>2
  <2>5. \A j : j \in 1..k + 1 => j \in 1..k \/ j = k + 1
    BY <2>1
  <2> QED BY <2>1, <2>3, <2>4, <2>5
<1>5. Len(s) \in T
  <2>1. 0 \in Nat /\ Len(s) \in 0..Len(s)
    BY <1>2
  <2> HIDE DEF T
  <2> QED BY <1>2, <1>3, <1>4, <2>1, IntervalStep
<1>6. /\ Chosen(s, I) \in Seq(S) /\ Len(Chosen(s, I)) = Len(s)
      /\ \A j \in 1..Len(s) : Chosen(s, I)[j] = s[j]
  BY <1>2, <1>5
<1> QED BY <1>2, <1>6

\* None of a sequence.
LEMMA ChosenNone ==
  ASSUME NEW S, NEW s \in Seq(S), NEW I, DOMAIN s \cap I = {}
  PROVE  Chosen(s, I) = <<>>
<1>1. Chosen(s, I) \in Seq(S)
  BY ChosenPositions
<1>2. ToSet(Chosen(s, I)) = {}
  <2>1. {s[k] : k \in DOMAIN s \cap I} = {}
    OBVIOUS
  <2> QED BY <2>1, ChosenRange
<1> DEFINE c == Chosen(s, I)
<1> HIDE DEF c
<1>3. c \in Seq(S) /\ ToSet(c) = {}
  BY <1>1, <1>2 DEF c
<1>4. ASSUME c # <<>> PROVE FALSE
  <2>1. 1 \in DOMAIN c
    BY <1>3, <1>4
  <2>2. c[1] \in ToSet(c)
    BY <2>1 DEF ToSet
  <2> QED BY <1>3, <2>2
<1> QED BY <1>4 DEF c

\* A list without repetition is no longer than there are things to list.
LEMMA InjectiveLen ==
  ASSUME NEW n \in Nat, NEW s \in Seq(1..n), IsInjective(s)
  PROVE  Len(s) <= n
<1>1. Len(s) \in Nat /\ s \in Injection(1..Len(s), 1..n)
  BY DEF Injection
<1>2. IsFiniteSet(1..n) /\ Cardinality(1..n) = n /\ Cardinality(1..Len(s)) = Len(s)
  <2>1. /\ 1 \in Int /\ n \in Int /\ Len(s) \in Int
        /\ IF 1 > n THEN n = 0 ELSE n - 1 + 1 = n
        /\ IF 1 > Len(s) THEN Len(s) = 0 ELSE Len(s) - 1 + 1 = Len(s)
    BY <1>1
  <2> QED BY <2>1, FS_Interval
<1>3. Cardinality(1..Len(s)) <= Cardinality(1..n)
  BY <1>1, <1>2, FS_Injection
<1> QED BY <1>2, <1>3

\* Products grow with their factors.
LEMMA Times ==
  ASSUME NEW a \in Nat, NEW k \in Nat
  PROVE  /\ k * a \in Nat /\ (k + 1) * a = k * a + a
         /\ \A j \in Nat : j <= k => j * a <= k * a
<1>1. k * a \in Nat /\ (k + 1) * a = k * a + a
  OBVIOUS
<1>2. ASSUME NEW j \in Nat, j <= k PROVE j * a <= k * a
  <2>1. k - j \in Nat
    BY <1>2
  <2>2. (k - j) * a >= 0
    BY <2>1
  <2> QED BY <2>2
<1> QED BY <1>1, <1>2

\* As many legs as there are tasks are shorter than infinite.
LEMMA LongestFinite ==
  ASSUME Base, NEW k \in Nat, k <= Len(work)
  PROVE  k * Longest < Inf
<1>1. request \in Request /\ request.tasks \in Seq(TaskType)
  BY BaseFacts DEF Base
<1>2. Len(request.tasks) * Longest < Inf /\ Len(request.tasks) \in Nat
  BY <1>1, RequestAssumption
<1>3. Len(work) <= Len(list)
  <2>1. work \in Seq(1..Len(list)) /\ IsInjective(work) /\ Len(list) \in Nat
    BY BaseFacts DEF Base
  <2> QED BY <2>1, InjectiveLen
<1>4. k <= Len(request.tasks)
  <2>1. Len(list) <= Len(request.tasks)
    BY DEF Base
  <2>2. Len(work) \in Nat /\ Len(list) \in Nat
    BY BaseFacts
  <2> QED BY <1>2, <1>3, <2>1, <2>2
<1>5. Longest \in Nat /\ Inf \in Nat
  BY NumberAssumption
<1>6. k * Longest <= Len(request.tasks) * Longest
  BY <1>2, <1>4, <1>5, Times
<1>7. k * Longest \in Nat /\ Len(request.tasks) * Longest \in Nat
  BY <1>2, <1>5, Times
<1> QED BY <1>2, <1>5, <1>6, <1>7

\* Legs that are known add up to no more than that many of the longest.
LEMMA LoadBound ==
  ASSUME Base, NEW v \in Cars, NEW ch \in Seq(Jobs), NEW n \in 0..Len(ch), n <= Len(work),
         Known(v, ch)
  PROVE  Load(v, ch, n) <= n * Longest
<1>1. /\ n \in Nat /\ Longest \in Nat /\ Inf \in Nat /\ Longest < Inf
      /\ Len(Numbers(n)) = n /\ \A k \in 1..n : Numbers(n)[k] = k
      /\ Len(work) \in Nat
  BY NumbersFacts, NumberAssumption, BaseFacts
<1>2. PICK f : Loading(f, v, ch, n)
  BY <1>1, LoadRun
<1>3. /\ \A k \in 0..n : f[k] \in Int
      /\ f[0] = 0 /\ Load(v, ch, n) = f[n]
      /\ \A k \in 1..n : f[k] = IF Job(ch[k]).charge THEN f[k - 1]
                                ELSE Plus(f[k - 1], Leg(v, ch, k))
  BY <1>1, <1>2 DEF Loading, Loaded
<1>4. \A k \in 1..n : Leg(v, ch, k) \in Int /\ Leg(v, ch, k) <= Longest
  <2>1. \A k \in 1..n : Leg(v, ch, k) < Inf
    BY DEF Known
  <2>2. \A k \in 1..n : Leg(v, ch, k) <= Longest
    BY <2>1, CostFacts DEF Leg
  <2> QED BY <2>2, LegIn
<1> DEFINE T == {k \in 0..n : f[k] <= k * Longest}
<1>5. 0 \in T
  BY <1>1, <1>3
<1>6. ASSUME NEW k \in 0..n - 1, k \in T PROVE k + 1 \in T
  <2>1. /\ k + 1 \in 1..n /\ k \in 0..n /\ k + 1 \in 0..n /\ k + 1 - 1 = k /\ k \in Nat
        /\ k <= Len(work)
    BY <1>1
  <2> DEFINE B == k * Longest
             C == (k + 1) * Longest
  <2>2. B \in Nat /\ C \in Nat /\ C = B + Longest /\ B < Inf
    <3>1. k * Longest < Inf
      BY <2>1, LongestFinite
    <3> QED BY <1>1, <2>1, <3>1, Times
  <2>3. f[k] <= B
    BY <1>6
  <2> HIDE DEF B, C
  <2>4. f[k] \in Int /\ Leg(v, ch, k + 1) \in Int /\ Leg(v, ch, k + 1) <= Longest
    BY <1>3, <1>4, <2>1
  <2>5. /\ NaN \notin {f[k], Leg(v, ch, k + 1)}
        /\ Inf \notin {f[k], Leg(v, ch, k + 1)}
    BY <1>1, <2>2, <2>3, <2>4 DEF NaN
  <2>6. Plus(f[k], Leg(v, ch, k + 1)) <= C
    <3>1. CASE -Inf \in {f[k], Leg(v, ch, k + 1)}
      <4>1. {f[k], Leg(v, ch, k + 1)} # {Inf, -Inf}
        BY <2>5
      <4>2. Plus(f[k], Leg(v, ch, k + 1)) = -Inf
        BY <2>5, <3>1, <4>1 DEF Plus
      <4> QED BY <1>1, <2>2, <4>2
    <3>2. CASE -Inf \notin {f[k], Leg(v, ch, k + 1)}
      <4>1. {f[k], Leg(v, ch, k + 1)} # {Inf, -Inf}
        BY <2>5
      <4>2. Plus(f[k], Leg(v, ch, k + 1)) = f[k] + Leg(v, ch, k + 1)
        BY <2>5, <3>2, <4>1 DEF Plus
      <4> QED BY <1>1, <2>2, <2>3, <2>4, <4>2
    <3> QED BY <3>1, <3>2
  <2>7. f[k + 1] = f[k] \/ f[k + 1] = Plus(f[k], Leg(v, ch, k + 1))
    BY <1>3, <2>1
  <2>8. f[k + 1] <= C
    BY <1>1, <2>2, <2>3, <2>4, <2>6, <2>7
  <2> QED BY <2>1, <2>8 DEF C
<1>7. n \in T
  <2>1. 0 \in Nat /\ n \in 0..n
    BY <1>1
  <2> HIDE DEF T
  <2> QED BY <1>1, <1>5, <1>6, <2>1, IntervalStep
<1> QED BY <1>3, <1>7

\* No vehicle has limited endurance, and each can start with every task it can drive
\* to after another.
Plain ==
    /\ \A v \in ToSet(request.fleet) : v.endurance <= 0
    /\ \A leg \in DOMAIN costs : <<First, leg[2], leg[3]>> \in DOMAIN costs

\* Then chains with known legs have no task to be placed anew.
LEMMA NothingMisplaced ==
  ASSUME Base, Plain, NEW chs \in Chains, AllKnown(chs), Once(chs)
  PROVE  Misplaced(chs) = <<>>
<1>1. ASSUME NEW v \in Cars
      PROVE  Refused(v, chs[v]) = <<>> /\ Beyond(v, Startable(v, chs[v])) = <<>>
  <2> DEFINE ch == chs[v]
             can == {p \in DOMAIN ch : Cost(First, ch[p], v) < Inf}
             late == {p \in DOMAIN ch : Less(Limit(v), Load(v, ch, p))}
  <2>1. ch \in Seq(Jobs) /\ Known(v, ch) /\ Len(ch) \in Nat /\ DOMAIN ch = 1..Len(ch)
    BY DEF Chains, AllKnown
  <2>2. IsInjective(ch)
    BY OnceFacts DEF Chains
  <2>3. ASSUME NEW p \in DOMAIN ch PROVE Cost(First, ch[p], v) < Inf
    <3>1. Cost(Before(ch, p), ch[p], v) < Inf
      BY <2>1 DEF Known, Leg
    <3>2. <<Before(ch, p), ch[p], v>> \in DOMAIN costs
      BY <3>1, CostFacts
    <3>3. <<First, ch[p], v>> \in DOMAIN costs
      BY <3>2 DEF Plain
    <3> QED BY <3>3, CostFacts
  <2> HIDE DEF ch
  <2>4. Refused(v, ch) = <<>>
    <3>1. DOMAIN ch \cap {p \in DOMAIN ch : ~(Cost(First, ch[p], v) < Inf)} = {}
      BY <2>3
    <3> QED BY <2>1, <3>1, ChosenNone DEF Refused
  <2>5. Startable(v, ch) = ch
    <3>1. DOMAIN ch \subseteq can
      BY <2>3
    <3> QED BY <2>1, <3>1, ChosenAll DEF Startable
  <2>6. Len(ch) <= Len(work) /\ Len(work) \in Nat
    <3>1. Len(work) \in Nat /\ Jobs = 1..Len(work)
      BY BaseFacts
    <3> QED BY <2>1, <2>2, <3>1, InjectiveLen
  <2>7. Limit(v) = Inf - 1
    <3>1. Car(v) \in ToSet(request.fleet)
      <4>1. crew[v] \in DOMAIN request.fleet
        BY BaseFacts
      <4> QED BY <4>1 DEF Car, ToSet
    <3>2. Car(v).endurance <= 0 /\ Car(v).endurance \in Int
      BY <3>1, BaseFacts DEF Plain, VehicleType
    <3> QED BY <3>2 DEF Limit
  <2>8. ASSUME NEW p \in DOMAIN ch PROVE ~Less(Limit(v), Load(v, ch, p))
    <3>1. /\ p \in 0..Len(ch) /\ p <= Len(work) /\ p \in Nat /\ Inf \in Nat /\ Longest \in Nat
      BY <2>1, <2>6, NumberAssumption
    <3>2. Load(v, ch, p) <= p * Longest /\ p * Longest < Inf /\ Load(v, ch, p) \in Int
      BY <2>1, <3>1, LoadBound, LongestFinite, LoadIn
    <3>3. p * Longest \in Nat
      BY <3>1, Times
    <3>4. ~(Inf - 1 < Load(v, ch, p))
      BY <3>1, <3>2, <3>3
    <3> QED BY <2>7, <3>4 DEF Less
  <2>9. Beyond(v, ch) = <<>>
    <3>1. DOMAIN ch \cap late = {}
      BY <2>8
    <3> QED BY <2>1, <3>1, ChosenNone DEF Beyond
  <2> QED BY <2>4, <2>5, <2>9 DEF ch
<1> QED BY <1>1, MisplacedIn
-----------------------------------------------------------------------------
(* A round of the greedy allocator.                                        *)

\* Vehicles ask for tasks on no vehicle, each for one at most.
LEMMA ProposalsFacts ==
  ASSUME Base
  PROVE  /\ Proposals \in Bids
         /\ \A i \in Jobs : Proposals[i] # Nobody =>
               /\ i \notin Driven(chains) /\ Proposals[i] \in Cars
               /\ Cost(Latest(chains[Proposals[i]]), i, Proposals[i]) < Inf
         /\ \A i, j \in Jobs : Proposals[i] = Proposals[j] /\ Proposals[i] # Nobody => i = j
<1>1. PICK f : BidRun(f)
  BY ProposalsRun
<1> DEFINE n == Len(crew)
           Good(a, k) ==
             /\ \A i \in Jobs : a[i] # Nobody =>
                  /\ i \notin Driven(chains) /\ a[i] \in 1..k
                  /\ Cost(Latest(chains[a[i]]), i, a[i]) < Inf
             /\ \A i, j \in Jobs : a[i] = a[j] /\ a[i] # Nobody => i = j
           T == {k \in 0..n : Good(f[k], k)}
<1>2. n \in Nat /\ Cars = 1..n
  BY BaseFacts
<1>3. /\ \A k \in 0..n : f[k] \in Bids
      /\ f[0] = [i \in Jobs |-> Nobody] /\ Proposals = f[n]
      /\ \A k \in 1..n : f[k] = Propose(f[k - 1], k)
  BY <1>1 DEF BidRun
<1> HIDE DEF n
<1>4. 0 \in T
  BY <1>2, <1>3
<1>5. ASSUME NEW k \in 0..n - 1, k \in T PROVE k + 1 \in T
  <2>1. k + 1 \in 1..n /\ k + 1 \in Cars /\ k \in 0..n /\ k + 1 \in 0..n /\ k + 1 - 1 = k
    BY <1>2
  <2>2. f[k] \in Bids /\ f[k + 1] = Propose(f[k], k + 1) /\ Good(f[k], k)
    BY <1>3, <1>5, <2>1
  <2>3. \/ f[k + 1] = f[k]
        \/ \E i \in Jobs \ Driven(chains) :
              /\ Cost(Latest(chains[k + 1]), i, k + 1) < Inf
              /\ f[k + 1] = [f[k] EXCEPT ![i] = k + 1]
    BY <2>1, <2>2, ProposeFacts
  <2>4. \A v : v \in 1..k => v \in 1..k + 1 /\ v # k + 1
    BY <2>1
  <2>5. CASE f[k + 1] = f[k]
    <3>1. Good(f[k + 1], k + 1)
      BY <2>2, <2>4, <2>5
    <3> HIDE DEF Good
    <3> QED BY <2>1, <3>1
  <2>6. ASSUME NEW i \in Jobs \ Driven(chains), Cost(Latest(chains[k + 1]), i, k + 1) < Inf,
               f[k + 1] = [f[k] EXCEPT ![i] = k + 1]
        PROVE  k + 1 \in T
    <3>1. f[k + 1][i] = k + 1 /\ \A j \in Jobs \ {i} : f[k + 1][j] = f[k][j]
      BY <2>2, <2>6 DEF Bids
    <3>2. k + 1 \in 1..k + 1
      BY <2>1
    <3>3. ASSUME NEW j \in Jobs, f[k + 1][j] # Nobody
          PROVE  /\ j \notin Driven(chains) /\ f[k + 1][j] \in 1..k + 1
                 /\ Cost(Latest(chains[f[k + 1][j]]), j, f[k + 1][j]) < Inf
      BY <2>2, <2>4, <2>6, <3>1, <3>2, <3>3
    <3>4. ASSUME NEW j \in Jobs, NEW h \in Jobs, f[k + 1][j] = f[k + 1][h],
                 f[k + 1][j] # Nobody
          PROVE  j = h
      BY <2>2, <2>4, <3>1, <3>4
    <3>5. Good(f[k + 1], k + 1)
      BY <3>3, <3>4
    <3> HIDE DEF Good
    <3> QED BY <2>1, <3>5
  <2> QED BY <2>3, <2>5, <2>6
<1>6. n \in T
  <2>1. 0 \in Nat /\ n \in 0..n
    BY <1>2
  <2> HIDE DEF T
  <2> QED BY <1>2, <1>4, <1>5, <2>1, IntervalStep
<1>7. Good(Proposals, n) /\ Proposals \in Bids
  <2>1. n \in 0..n
    BY <1>2
  <2> HIDE DEF Good
  <2> QED BY <1>3, <1>6, <2>1
<1> QED BY <1>2, <1>7

\* A list of one task or none.
LEMMA SetToSeqOne ==
  /\ SetToSeq({}) = <<>>
  /\ \A e : SetToSeq({e}) = <<e>>
<1>1. SetToSeq({}) = <<>>
  <2>1. SetToSeq({}) \in Seq({})
    BY FS_EmptySet, SetToSeqFacts
  <2> QED BY <2>1
<1>2. ASSUME NEW e PROVE SetToSeq({e}) = <<e>>
  <2> DEFINE t == SetToSeq({e})
  <2>1. t \in Seq({e}) /\ ToSet(t) = {e} /\ IsInjective(t)
    BY FS_Singleton, SetToSeqFacts
  <2> HIDE DEF t
  <2>2. Len(t) \in Nat /\ DOMAIN t = 1..Len(t) /\ \A k \in 1..Len(t) : t[k] = e
    BY <2>1
  <2>3. Len(t) >= 1
    <3>1. PICK k \in DOMAIN t : t[k] = e
      BY <2>1 DEF ToSet
    <3> QED BY <2>2, <3>1
  <2>4. ~(Len(t) >= 2)
    <3>1. ASSUME Len(t) >= 2 PROVE FALSE
      <4>1. 1 \in DOMAIN t /\ 2 \in DOMAIN t
        BY <2>2, <3>1
      <4>2. t[1] = t[2]
        BY <2>2, <4>1
      <4> QED BY <2>1, <4>1, <4>2 DEF IsInjective
    <3> QED BY <3>1
  <2>5. Len(t) = 1 /\ t[1] = e
    BY <2>2, <2>3, <2>4
  <2>6. t = <<e>>
    BY <2>1, <2>5
  <2> QED BY <2>6 DEF t
<1> QED BY <1>1, <1>2

\* A round adds tasks that were on no vehicle, over legs that are known.
LEMMA RoundFacts ==
  ASSUME Base, chains \in Chains, AllKnown(chains), Once(chains)
  PROVE  LET new == [v \in Cars |-> chains[v] \o SetToSeq({i \in Jobs : Proposals[i] = v})]
         IN  new \in Chains /\ AllKnown(new) /\ Once(new)
<1> DEFINE won(v) == {i \in Jobs : Proposals[i] = v}
           new == [v \in Cars |-> chains[v] \o SetToSeq(won(v))]
<1>1. \A v \in Cars : v # Nobody
  BY BaseFacts DEF Nobody
<1>2. ASSUME NEW v \in Cars
      PROVE  \/ won(v) = {}
             \/ \E i \in Jobs \ Driven(chains) :
                   won(v) = {i} /\ Cost(Latest(chains[v]), i, v) < Inf
  <2>1. ASSUME NEW i \in won(v) PROVE won(v) = {i} /\ i \notin Driven(chains)
                                      /\ Cost(Latest(chains[v]), i, v) < Inf
    BY <1>1, <2>1, ProposalsFacts
  <2> QED BY <2>1
<1>3. ASSUME NEW v \in Cars
      PROVE  /\ new[v] \in Seq(Jobs) /\ Known(v, new[v])
             /\ ToSet(new[v]) = ToSet(chains[v]) \cup won(v)
             /\ IsInjective(new[v])
  <2> DEFINE ch == chains[v]
  <2>1. ch \in Seq(Jobs) /\ Known(v, ch)
    BY DEF Chains, AllKnown
  <2>2. IsInjective(ch) /\ ToSet(ch) \subseteq Driven(chains)
    BY OnceFacts, DrivenFacts DEF Chains
  <2>3. new[v] = ch \o SetToSeq(won(v))
    OBVIOUS
  <2> HIDE DEF ch, new
  <2>4. CASE won(v) = {}
    <3>1. SetToSeq(won(v)) = <<>>
      BY <2>4, SetToSeqOne
    <3> HIDE DEF won
    <3>2. ch \o <<>> = ch
      BY <2>1
    <3>3. new[v] = ch
      BY <2>3, <3>1, <3>2
    <3> QED BY <2>1, <2>2, <2>4, <3>3 DEF ch
  <2>5. ASSUME NEW i \in Jobs \ Driven(chains), won(v) = {i}, Cost(Latest(chains[v]), i, v) < Inf
        PROVE  /\ new[v] \in Seq(Jobs) /\ Known(v, new[v])
               /\ ToSet(new[v]) = ToSet(chains[v]) \cup won(v)
               /\ IsInjective(new[v])
    <3>1. SetToSeq(won(v)) = <<i>>
      BY <2>5, SetToSeqOne
    <3> HIDE DEF won
    <3>2. ch \o <<i>> = Append(ch, i) /\ Append(ch, i) \in Seq(Jobs)
      BY <2>1, <2>5
    <3>3. new[v] = Append(ch, i) /\ Append(ch, i) \in Seq(Jobs)
      BY <2>3, <3>1, <3>2
    <3>4. Known(v, Append(ch, i))
      BY <2>1, <2>5, KnownAppend DEF ch
    <3>5. ToSet(Append(ch, i)) = ToSet(ch) \cup {i} /\ IsInjective(Append(ch, i))
      BY <2>1, <2>2, AppendFacts
    <3> QED BY <2>5, <3>3, <3>4, <3>5 DEF ch
  <2> QED BY <1>2, <2>4, <2>5
<1>4. ASSUME NEW v \in Cars, NEW w \in Cars, v # w
      PROVE  ToSet(new[v]) \cap ToSet(new[w]) = {}
  <2>1. ToSet(chains[v]) \cap ToSet(chains[w]) = {}
    BY <1>4, OnceFacts DEF Chains
  <2>2. ToSet(chains[v]) \subseteq Driven(chains) /\ ToSet(chains[w]) \subseteq Driven(chains)
    BY DrivenFacts DEF Chains
  <2>3. won(v) \cap won(w) = {}
    BY <1>4
  <2>4. won(v) \cap Driven(chains) = {} /\ won(w) \cap Driven(chains) = {}
    BY <1>2
  <2>5. /\ ToSet(new[v]) = ToSet(chains[v]) \cup won(v)
        /\ ToSet(new[w]) = ToSet(chains[w]) \cup won(w)
    BY <1>3
  <2> QED BY <2>1, <2>2, <2>3, <2>4, <2>5
<1>5. new \in [Cars -> Seq(Jobs)] /\ AllKnown(new)
  <2>1. \A v \in Cars : chains[v] \o SetToSeq(won(v)) \in Seq(Jobs)
    BY <1>3
  <2>2. new \in [Cars -> Seq(Jobs)]
    BY <2>1
  <2> HIDE DEF new
  <2> QED BY <1>3, <2>2 DEF AllKnown
<1> HIDE DEF new
<1>6. Once(new)
  BY <1>3, <1>4, <1>5, OnceFacts
<1> QED BY <1>5, <1>6 DEF Chains, new

-----------------------------------------------------------------------------
(* Chains as one sequence.                                                 *)

Marked == Jobs \cup {Separator}
Marks(code) == {k \in DOMAIN code : code[k] = Separator}
Single(code) ==
    \A j, k \in DOMAIN code : code[j] = code[k] /\ code[j] # Separator => j = k

\* The separators of a sequence with one more element.
LEMMA MarksAppend ==
  ASSUME NEW s \in Seq(Marked), NEW e \in Marked
  PROVE  /\ IsFiniteSet(Marks(s)) /\ Cardinality(Marks(s)) \in Nat
         /\ Cardinality(Marks(Append(s, e))) =
              IF e = Separator THEN Cardinality(Marks(s)) + 1 ELSE Cardinality(Marks(s))
<1> DEFINE new == Append(s, e)
<1>1. /\ Len(s) \in Nat /\ DOMAIN s = 1..Len(s) /\ DOMAIN new = 1..Len(s) + 1
      /\ new[Len(s) + 1] = e /\ \A k \in 1..Len(s) : new[k] = s[k]
      /\ \A k : k \in 1..Len(s) + 1 <=> k \in 1..Len(s) \/ k = Len(s) + 1
      /\ Len(s) + 1 \notin 1..Len(s)
  OBVIOUS
<1> HIDE DEF new
<1>2. IsFiniteSet(Marks(s)) /\ Cardinality(Marks(s)) \in Nat
  <2>1. IsFiniteSet(1..Len(s))
    BY <1>1, FS_Interval
  <2>2. Marks(s) \subseteq 1..Len(s)
    BY <1>1 DEF Marks
  <2>3. IsFiniteSet(Marks(s))
    BY <2>1, <2>2, FS_Subset
  <2> QED BY <2>3, FS_CardinalityType
<1>3. CASE e = Separator
  <2>1. Marks(new) = Marks(s) \cup {Len(s) + 1} /\ Len(s) + 1 \notin Marks(s)
    BY <1>1, <1>3 DEF Marks
  <2>2. Cardinality(Marks(new)) = Cardinality(Marks(s)) + 1
    BY <1>2, <2>1, FS_AddElement
  <2> QED BY <1>2, <1>3, <2>2 DEF new
<1>4. CASE e # Separator
  <2>1. Marks(new) = Marks(s)
    BY <1>1, <1>4 DEF Marks
  <2> QED BY <1>2, <1>4, <2>1 DEF new
<1> QED BY <1>3, <1>4

\* A chain with a separator before it at the end of a sequence: one separator more,
\* and the tasks of both.
LEMMA MarksConcat ==
  ASSUME Base, NEW s \in Seq(Marked), NEW ch \in Seq(Jobs)
  PROVE  LET new == s \o <<Separator>> \o ch
         IN  /\ new \in Seq(Marked) /\ new # <<>>
             /\ Cardinality(Marks(new)) = Cardinality(Marks(s)) + 1
             /\ ToSet(new) = ToSet(s) \cup {Separator} \cup ToSet(ch)
             /\ Single(s) /\ IsInjective(ch) /\ ToSet(s) \cap ToSet(ch) = {} => Single(new)
<1> DEFINE mid == Append(s, Separator)
           new == mid \o ch
<1>1. Separator \notin Jobs /\ Jobs \subseteq Marked /\ Separator \in Marked
  BY BaseFacts DEF Separator, Marked
<1>2. mid \in Seq(Marked) /\ Len(mid) = Len(s) + 1 /\ Len(s) \in Nat /\ Len(ch) \in Nat
  BY <1>1
<1>3. s \o <<Separator>> \o ch = new
  BY <1>1
<1>4. /\ Cardinality(Marks(mid)) = Cardinality(Marks(s)) + 1
      /\ ToSet(mid) = ToSet(s) \cup {Separator}
  BY <1>1, AppendFacts, MarksAppend
<1>5. Single(s) => Single(mid)
  <2>1. /\ DOMAIN mid = 1..Len(s) + 1 /\ DOMAIN s = 1..Len(s)
        /\ mid[Len(s) + 1] = Separator /\ \A k \in 1..Len(s) : mid[k] = s[k]
        /\ \A k : k \in 1..Len(s) + 1 => k \in 1..Len(s) \/ k = Len(s) + 1
    BY <1>1
  <2> HIDE DEF mid
  <2> QED BY <2>1 DEF Single
<1> HIDE DEF mid
<1>6. ch \in Seq(Marked)
  BY <1>1
<1>7. new \in Seq(Marked) /\ ToSet(new) = ToSet(mid) \cup ToSet(ch)
  BY <1>2, <1>6, ConcatFacts
<1>8. /\ DOMAIN new = 1..Len(mid) + Len(ch) /\ DOMAIN mid = 1..Len(mid) /\ Len(mid) \in Nat
      /\ DOMAIN ch = 1..Len(ch)
      /\ \A k \in 1..Len(mid) : new[k] = mid[k]
      /\ \A k \in 1..Len(mid) + Len(ch) : k \notin 1..Len(mid) =>
            k - Len(mid) \in 1..Len(ch) /\ new[k] = ch[k - Len(mid)] /\ k \in Int
      /\ \A k \in 1..Len(mid) : k \in 1..Len(mid) + Len(ch)
  BY <1>2, <1>6
<1>9. \A k \in 1..Len(ch) : ch[k] \in Jobs /\ ch[k] # Separator
  BY <1>1
<1> HIDE DEF new
<1>10. Marks(new) = Marks(mid)
  BY <1>8, <1>9 DEF Marks
<1>11. ASSUME Single(s), IsInjective(ch), ToSet(s) \cap ToSet(ch) = {}
       PROVE  Single(new)
  <2>1. Single(mid)
    BY <1>5, <1>11
  <2>2. \A e \in ToSet(ch) : e \notin ToSet(mid)
    BY <1>4, <1>9, <1>8, <1>11 DEF ToSet
  <2>3. ASSUME NEW j \in DOMAIN new, NEW k \in DOMAIN new, new[j] = new[k], new[j] # Separator
        PROVE  j = k
    <3>1. CASE j \in 1..Len(mid) /\ k \in 1..Len(mid)
      BY <1>8, <2>1, <2>3, <3>1 DEF Single
    <3>2. CASE j \notin 1..Len(mid) /\ k \notin 1..Len(mid)
      <4>1. ch[j - Len(mid)] = ch[k - Len(mid)]
        BY <1>8, <2>3, <3>2
      <4>2. j - Len(mid) = k - Len(mid)
        BY <1>8, <1>11, <3>2, <4>1 DEF IsInjective
      <4> QED BY <1>8, <3>2, <4>2
    <3>3. \A a \in 1..Len(mid) : new[a] \in ToSet(mid)
      BY <1>8 DEF ToSet
    <3>4. \A a \in DOMAIN new : a \notin 1..Len(mid) => new[a] \in ToSet(ch)
      BY <1>8 DEF ToSet
    <3> QED BY <2>2, <2>3, <3>1, <3>2, <3>3, <3>4
  <2> QED BY <2>3 DEF Single
<1>12. new # <<>>
  <2>1. Separator \in ToSet(new)
    BY <1>4, <1>7
  <2> QED BY <2>1 DEF ToSet
<1> QED BY <1>3, <1>4, <1>7, <1>10, <1>11, <1>12

Coded(chs, acc, v) == IF v = 1 THEN chs[1] ELSE acc \o <<Separator>> \o chs[v]
Coding(f, chs) ==
    /\ f \in [0..Len(Numbers(Len(chs))) -> Seq(Marked)]
    /\ f[0] = <<>>
    /\ \A k \in 1..Len(Numbers(Len(chs))) : f[k] = Coded(chs, f[k - 1], Numbers(Len(chs))[k])
    /\ Code(chs) = f[Len(Numbers(Len(chs)))]

\* The code grows chain by chain.
LEMMA CodeRun ==
  ASSUME Base, NEW chs \in Chains
  PROVE  \E f : Coding(f, chs)
<1> DEFINE b == <<>>
           s == Numbers(Len(chs))
           O == [x \in Seq(Marked) \X Cars |-> Coded(chs, x[1], x[2])]
           E(h) == h = [t \in SUBSET DOMAIN s |->
                          IF t = {} THEN b ELSE Coded(chs, h[t \ {Max(t)}], s[Max(t)])]
           H == CHOOSE h : E(h)
<1>1. b \in Seq(Marked) /\ s \in Seq(Cars)
  <2>1. Len(chs) = Len(crew)
    BY BaseFacts DEF Chains
  <2> QED BY <2>1, BaseFacts
<1>2. ASSUME NEW x \in Seq(Marked), NEW y \in Cars PROVE Coded(chs, x, y) \in Seq(Marked)
  <2>1. chs[y] \in Seq(Jobs)
    BY <1>2 DEF Chains
  <2>2. chs[y] \in Seq(Marked)
    BY <2>1 DEF Marked
  <2> QED BY <1>2, <2>1, <2>2, MarksConcat DEF Coded
<1>3. /\ O \in [Seq(Marked) \X Cars -> Seq(Marked)]
      /\ \A x \in Seq(Marked), y \in Cars : O[<<x, y>>] = Coded(chs, x, y)
  BY <1>2
<1>4. Code(chs) = H[DOMAIN s]
  BY DEF Code, Coded, FoldLeft, MapThenFoldSet
<1> HIDE DEF O, b, s
<1>5. PICK h : Table(h, Seq(Marked), b, Cars, s, O)
  BY <1>1, <1>3, FoldExists
<1>6. \A t \in SUBSET DOMAIN s : t # {} => s[Max(t)] \in Cars
  BY <1>5 DEF Table
<1>7. E(h)
  <2>1. ASSUME NEW t \in SUBSET DOMAIN s
        PROVE  h[t] = IF t = {} THEN b ELSE Coded(chs, h[t \ {Max(t)}], s[Max(t)])
    BY <1>3, <1>5, <1>6 DEF Unfolds, Table
  <2> QED BY <1>5, <2>1 DEF Table
<1>8. E(H)
  <2> HIDE DEF E
  <2> QED BY <1>7
<1> HIDE DEF H
<1>9. Unfolds(H, Seq(Marked), b, s, O)
  <2>1. ASSUME NEW t \in SUBSET DOMAIN s
        PROVE  H[t] = IF t = {} THEN b ELSE Coded(chs, H[t \ {Max(t)}], s[Max(t)])
    BY <1>8
  <2> HIDE DEF E
  <2> QED BY <1>3, <1>6, <2>1 DEF Unfolds
<1>10. PICK f : Folds(f, H, Seq(Marked), b, s, O)
  BY <1>1, <1>3, <1>9, FoldRun
<1>11. ASSUME NEW k \in 1..Len(s) PROVE f[k] = Coded(chs, f[k - 1], s[k])
  <2>1. k - 1 \in 0..Len(s) /\ s[k] \in Cars
    BY <1>1
  <2>2. f[k - 1] \in Seq(Marked) /\ f[k] = O[<<f[k - 1], s[k]>>]
    BY <1>10, <2>1 DEF Along, Folds
  <2> QED BY <1>3, <2>1, <2>2
<1> QED BY <1>4, <1>10, <1>11 DEF Along, Folds, Coding, b, s

\* The code has a separator between any two chains and their tasks, once if they are
\* on one vehicle, once; it is empty for one vehicle without tasks alone.
LEMMA CodeFacts ==
  ASSUME Base, NEW chs \in Chains, Len(crew) >= 1
  PROVE  /\ Code(chs) \in Seq(Marked)
         /\ Cardinality(Marks(Code(chs))) = Len(crew) - 1
         /\ Once(chs) => Single(Code(chs))
         /\ Code(chs) = <<>> => Len(crew) = 1 /\ chs[1] = <<>>
<1> DEFINE n == Len(crew)
<1>1. /\ n \in Nat /\ n >= 1 /\ Cars = 1..n /\ Len(chs) = n
      /\ Len(Numbers(n)) = n /\ \A k \in 1..n : Numbers(n)[k] = k
  BY BaseFacts DEF Chains
<1>2. PICK f : Coding(f, chs)
  BY CodeRun
<1>3. /\ \A k \in 0..n : f[k] \in Seq(Marked)
      /\ Code(chs) = f[n]
      /\ \A k \in 1..n : f[k] = IF k = 1 THEN chs[1] ELSE f[k - 1] \o <<Separator>> \o chs[k]
  BY <1>1, <1>2 DEF Coding, Coded
<1>4. /\ \A v \in 1..n : chs[v] \in Seq(Jobs)
      /\ Once(chs) => /\ \A v \in 1..n : IsInjective(chs[v])
                      /\ \A v, w \in 1..n : v # w => ToSet(chs[v]) \cap ToSet(chs[w]) = {}
  BY <1>1, OnceFacts DEF Chains
<1>5. Separator \notin Jobs
  BY BaseFacts DEF Separator
<1> HIDE DEF n
<1> DEFINE Past(k) == UNION {ToSet(chs[v]) : v \in 1..k}
           Good(c, k) == /\ Cardinality(Marks(c)) = k - 1
                         /\ ToSet(c) \subseteq {Separator} \cup Past(k)
                         /\ Once(chs) => Single(c)
           T == {k \in 1..n : Good(f[k], k)}
<1>6. 1 \in T
  <2>1. 1 \in 1..n /\ f[1] = chs[1] /\ chs[1] \in Seq(Jobs)
    BY <1>1, <1>3, <1>4
  <2>2. Marks(chs[1]) = {}
    BY <1>5, <2>1 DEF Marks
  <2>3. Cardinality(Marks(chs[1])) = 1 - 1
    BY <2>2, FS_EmptySet
  <2>4. ToSet(chs[1]) \subseteq {Separator} \cup Past(1)
    BY <2>1
  <2>5. Once(chs) => Single(chs[1])
    BY <1>4, <2>1 DEF IsInjective, Single
  <2> HIDE DEF Past
  <2> QED BY <2>1, <2>3, <2>4, <2>5
<1>7. ASSUME NEW k \in 1..n - 1, k \in T PROVE k + 1 \in T
  <2>1. /\ k + 1 \in 1..n /\ k \in 1..n /\ k \in 0..n /\ k + 1 - 1 = k /\ k + 1 # 1
        /\ \A v \in 1..k : v \in 1..n /\ v # k + 1
        /\ \A v : v \in 1..k + 1 <=> v \in 1..k \/ v = k + 1
    BY <1>1
  <2>2. /\ f[k] \in Seq(Marked) /\ f[k + 1] = f[k] \o <<Separator>> \o chs[k + 1]
        /\ chs[k + 1] \in Seq(Jobs)
    <3>1. f[k + 1] = IF k + 1 = 1 THEN chs[1]
                     ELSE f[k + 1 - 1] \o <<Separator>> \o chs[k + 1]
      <4>1. k + 1 \in 1..n
        BY <2>1
      <4>2. \A j \in 1..n : f[j] = IF j = 1 THEN chs[1] ELSE f[j - 1] \o <<Separator>> \o chs[j]
        BY <1>3
      <4> QED BY <4>1, <4>2
    <3> QED BY <1>3, <1>4, <2>1, <3>1
  <2>3. /\ Cardinality(Marks(f[k])) = k - 1 /\ ToSet(f[k]) \subseteq {Separator} \cup Past(k)
        /\ Once(chs) => Single(f[k])
    BY <1>7
  <2>4. Past(k + 1) = Past(k) \cup ToSet(chs[k + 1])
    BY <2>1
  <2>5. Once(chs) => Past(k) \cap ToSet(chs[k + 1]) = {}
    BY <1>4, <2>1
  <2>6. Separator \notin ToSet(chs[k + 1])
    BY <1>5, <2>2 DEF ToSet
  <2> HIDE DEF Past
  <2>7. /\ Cardinality(Marks(f[k + 1])) = Cardinality(Marks(f[k])) + 1
        /\ ToSet(f[k + 1]) = ToSet(f[k]) \cup {Separator} \cup ToSet(chs[k + 1])
        /\ Single(f[k]) /\ IsInjective(chs[k + 1]) /\ ToSet(f[k]) \cap ToSet(chs[k + 1]) = {}
           => Single(f[k + 1])
    BY <2>2, MarksConcat
  <2>8. Once(chs) => IsInjective(chs[k + 1]) /\ ToSet(f[k]) \cap ToSet(chs[k + 1]) = {}
    BY <1>4, <2>1, <2>3, <2>5, <2>6
  <2>9. Cardinality(Marks(f[k + 1])) = k + 1 - 1
    BY <2>1, <2>3, <2>7
  <2>10. ToSet(f[k + 1]) \subseteq {Separator} \cup Past(k + 1)
    BY <2>3, <2>4, <2>7
  <2>11. Good(f[k + 1], k + 1)
    BY <2>3, <2>7, <2>8, <2>9, <2>10
  <2> HIDE DEF Good
  <2> QED BY <2>1, <2>11
<1>8. n \in T
  <2>1. 1 \in Nat /\ n \in 1..n
    BY <1>1
  <2> HIDE DEF T
  <2> QED BY <1>1, <1>6, <1>7, <2>1, IntervalStep
<1>9. /\ Code(chs) \in Seq(Marked) /\ Cardinality(Marks(Code(chs))) = n - 1
      /\ Once(chs) => Single(Code(chs))
  <2>1. n \in 1..n /\ n \in 0..n
    BY <1>1
  <2> HIDE DEF Past
  <2> QED BY <1>3, <1>8, <2>1
<1>10. ASSUME Code(chs) = <<>> PROVE n = 1 /\ chs[1] = <<>>
  <2>1. Marks(<<>>) = {} /\ Cardinality({}) = 0
    BY FS_EmptySet DEF Marks
  <2>2. Cardinality(Marks(Code(chs))) = 0
    BY <1>10, <2>1
  <2>3. n = 1
    BY <1>1, <1>9, <2>2
  <2>4. f[1] = chs[1]
    BY <1>3, <2>3
  <2> QED BY <1>3, <1>10, <2>3, <2>4
<1> QED BY <1>9, <1>10 DEF n

\* A code in another order has as many separators, and its tasks once if they were.
LEMMA ShuffleFacts ==
  ASSUME NEW code \in Seq(Marked), NEW c \in Shuffles(code)
  PROVE  /\ c \in Seq(Marked) /\ Len(c) = Len(code)
         /\ Cardinality(Marks(c)) = Cardinality(Marks(code))
         /\ Single(code) => Single(c)
<1> DEFINE D == DOMAIN code
<1>1. PICK f \in Bijection(D, D) : c = [k \in D |-> code[f[k]]]
  BY DEF Shuffles
<1>2. /\ f \in [D -> D] /\ \A j, k \in D : f[j] = f[k] => j = k
      /\ \A k \in D : \E j \in D : f[j] = k
  BY <1>1 DEF Bijection, Injection, Surjection, IsInjective
<1>3. D = 1..Len(code) /\ Len(code) \in Nat /\ \A k \in D : code[k] \in Marked
  OBVIOUS
<1>4. c \in Seq(Marked) /\ Len(c) = Len(code) /\ DOMAIN c = D
  BY <1>1, <1>2, <1>3
<1> HIDE DEF D
<1>5. \A k \in D : c[k] = code[f[k]]
  BY <1>1
<1>6. Cardinality(Marks(c)) = Cardinality(Marks(code))
  <2> DEFINE g == [k \in Marks(c) |-> f[k]]
  <2>1. /\ Marks(c) = {k \in D : c[k] = Separator}
        /\ Marks(code) = {k \in D : code[k] = Separator}
    BY <1>4 DEF Marks, D
  <2>2. g \in [Marks(c) -> Marks(code)]
    BY <1>2, <1>5, <2>1
  <2>3. \A j, k \in Marks(c) : g[j] = g[k] => j = k
    BY <1>2, <2>1
  <2>4. \A k \in Marks(code) : \E j \in Marks(c) : g[j] = k
    BY <1>2, <1>5, <2>1
  <2> HIDE DEF g
  <2>5. g \in Bijection(Marks(c), Marks(code))
    BY <2>2, <2>3, <2>4 DEF Bijection, Injection, Surjection, IsInjective
  <2>6. IsFiniteSet(Marks(c))
    <3>1. IsFiniteSet(1..Len(code))
      BY <1>3, FS_Interval
    <3> QED BY <1>3, <2>1, <3>1, FS_Subset
  <2> QED BY <2>5, <2>6, FS_Bijection DEF ExistsBijection
<1>7. ASSUME Single(code) PROVE Single(c)
  <2>1. \A j, k \in D : code[j] = code[k] /\ code[j] # Separator => j = k
    BY <1>7 DEF Single, D
  <2>2. ASSUME NEW j \in D, NEW k \in D, c[j] = c[k], c[j] # Separator PROVE j = k
    <3>1. f[j] \in D /\ f[k] \in D /\ code[f[j]] = code[f[k]] /\ code[f[j]] # Separator
      BY <1>2, <1>5, <2>2
    <3> QED BY <1>2, <2>1, <3>1
  <2> QED BY <1>4, <2>2 DEF Single
<1> QED BY <1>4, <1>6, <1>7

\* Lists of tasks, one at least.
Lists == {x \in Seq(Seq(Jobs)) : Len(x) >= 1}

\* A list more, or a task more on the last list.
LEMMA ListsFacts ==
  ASSUME NEW x \in Lists
  PROVE  /\ Len(x) \in Nat /\ Len(x) \in 1..Len(x) /\ x \in [1..Len(x) -> Seq(Jobs)]
         /\ Append(x, <<>>) \in Lists
         /\ \A t \in Seq(Jobs) : /\ [x EXCEPT ![Len(x)] = t] \in Lists
                               /\ Len([x EXCEPT ![Len(x)] = t]) = Len(x)
<1>1. x \in Seq(Seq(Jobs)) /\ Len(x) >= 1
  BY DEF Lists
<1>2. Len(x) \in Nat /\ Len(x) \in 1..Len(x) /\ x \in [1..Len(x) -> Seq(Jobs)]
  BY <1>1
<1>3. Append(x, <<>>) \in Lists
  <2>1. <<>> \in Seq(Jobs)
    OBVIOUS
  <2>2. Append(x, <<>>) \in Seq(Seq(Jobs)) /\ Len(Append(x, <<>>)) = Len(x) + 1
    BY <1>1, <2>1
  <2> QED BY <1>2, <2>2 DEF Lists
<1>4. ASSUME NEW t \in Seq(Jobs)
      PROVE  [x EXCEPT ![Len(x)] = t] \in Lists /\ Len([x EXCEPT ![Len(x)] = t]) = Len(x)
  <2>1. [x EXCEPT ![Len(x)] = t] \in [1..Len(x) -> Seq(Jobs)]
    BY <1>2
  <2>2. [x EXCEPT ![Len(x)] = t] \in Seq(Seq(Jobs)) /\ Len([x EXCEPT ![Len(x)] = t]) = Len(x)
    BY <1>2, <2>1
  <2> QED BY <1>1, <2>2 DEF Lists
<1> QED BY <1>2, <1>3, <1>4

Decoded(acc, c) ==
    IF c = Separator THEN Append(acc, <<>>) ELSE [acc EXCEPT ![Len(acc)] = Append(@, c)]
Decoding(f, code) ==
    /\ f \in [0..Len(code) -> Lists]
    /\ f[0] = <<<<>>>>
    /\ \A k \in 1..Len(code) : f[k] = Decoded(f[k - 1], code[k])
    /\ Decode(code) = f[Len(code)]

\* The chains are read off the code task by task.
LEMMA DecodeRun ==
  ASSUME NEW code \in Seq(Marked)
  PROVE  \E f : Decoding(f, code)
<1> DEFINE b == <<<<>>>>
           s == code
           O == [x \in Lists \X Marked |-> Decoded(x[1], x[2])]
           E(h) == h = [t \in SUBSET DOMAIN s |->
                          IF t = {} THEN b ELSE Decoded(h[t \ {Max(t)}], s[Max(t)])]
           H == CHOOSE h : E(h)
<1>1. b \in Lists /\ s \in Seq(Marked)
  <2>1. <<>> \in Seq(Jobs)
    OBVIOUS
  <2>2. <<<<>>>> \in Seq(Seq(Jobs)) /\ Len(<<<<>>>>) = 1
    BY <2>1
  <2> QED BY <2>2 DEF Lists
<1>2. ASSUME NEW x \in Lists, NEW y \in Marked PROVE Decoded(x, y) \in Lists
  <2>1. CASE y = Separator
    BY <1>2, <2>1, ListsFacts DEF Decoded
  <2>2. CASE y # Separator
    <3>1. y \in Jobs
      BY <1>2, <2>2 DEF Marked
    <3>2. x[Len(x)] \in Seq(Jobs)
      BY <1>2, ListsFacts
    <3>3. Append(x[Len(x)], y) \in Seq(Jobs)
      BY <3>1, <3>2
    <3> QED BY <1>2, <2>2, <3>3, ListsFacts DEF Decoded
  <2> QED BY <2>1, <2>2
<1>3. /\ O \in [Lists \X Marked -> Lists]
      /\ \A x \in Lists, y \in Marked : O[<<x, y>>] = Decoded(x, y)
  BY <1>2
<1>4. Decode(code) = H[DOMAIN s]
  BY DEF Decode, Decoded, FoldLeft, MapThenFoldSet
<1> HIDE DEF O, b, s
<1>5. PICK h : Table(h, Lists, b, Marked, s, O)
  BY <1>1, <1>3, FoldExists
<1>6. \A t \in SUBSET DOMAIN s : t # {} => s[Max(t)] \in Marked
  BY <1>5 DEF Table
<1>7. E(h)
  <2>1. ASSUME NEW t \in SUBSET DOMAIN s
        PROVE  h[t] = IF t = {} THEN b ELSE Decoded(h[t \ {Max(t)}], s[Max(t)])
    BY <1>3, <1>5, <1>6 DEF Unfolds, Table
  <2> QED BY <1>5, <2>1 DEF Table
<1>8. E(H)
  <2> HIDE DEF E
  <2> QED BY <1>7
<1> HIDE DEF H
<1>9. Unfolds(H, Lists, b, s, O)
  <2>1. ASSUME NEW t \in SUBSET DOMAIN s
        PROVE  H[t] = IF t = {} THEN b ELSE Decoded(H[t \ {Max(t)}], s[Max(t)])
    BY <1>8
  <2> HIDE DEF E
  <2> QED BY <1>3, <1>6, <2>1 DEF Unfolds
<1>10. PICK f : Folds(f, H, Lists, b, s, O)
  BY <1>1, <1>3, <1>9, FoldRun
<1>11. ASSUME NEW k \in 1..Len(s) PROVE f[k] = Decoded(f[k - 1], s[k])
  <2>1. k - 1 \in 0..Len(s) /\ s[k] \in Marked
    BY <1>1
  <2>2. f[k - 1] \in Lists /\ f[k] = O[<<f[k - 1], s[k]>>]
    BY <1>10, <2>1 DEF Along, Folds
  <2> QED BY <1>3, <2>1, <2>2
<1> QED BY <1>4, <1>10, <1>11 DEF Along, Folds, Decoding, b, s

\* A code holds one chain more than separators, with its tasks once if they were.
LEMMA DecodeFacts ==
  ASSUME NEW code \in Seq(Marked)
  PROVE  /\ Decode(code) \in Lists /\ Len(Decode(code)) = Cardinality(Marks(code)) + 1
         /\ Single(code) => Once(Decode(code))
<1> DEFINE n == Len(code)
           cuts(k) == {j \in 1..k : code[j] = Separator}
           past(k) == {code[j] : j \in 1..k}
<1>1. n \in Nat /\ DOMAIN code = 1..n /\ \A k \in 1..n : code[k] \in Marked
  OBVIOUS
<1>2. PICK f : Decoding(f, code)
  BY DecodeRun
<1>3. /\ \A k \in 0..n : f[k] \in Lists
      /\ f[0] = <<<<>>>> /\ Decode(code) = f[n]
      /\ \A k \in 1..n : f[k] = IF code[k] = Separator THEN Append(f[k - 1], <<>>)
                                ELSE [f[k - 1] EXCEPT ![Len(f[k - 1])] = Append(@, code[k])]
  BY <1>2 DEF Decoding, Decoded
<1>4. cuts(n) = Marks(code)
  BY <1>1 DEF Marks
<1> HIDE DEF n
<1>5. ASSUME NEW k \in 0..n PROVE IsFiniteSet(cuts(k)) /\ Cardinality(cuts(k)) \in Nat
  <2>1. IsFiniteSet(1..k)
    <3>1. k \in Int /\ 1 \in Int
      BY <1>1
    <3> QED BY <3>1, FS_Interval
  <2>2. IsFiniteSet(cuts(k))
    BY <2>1, FS_Subset
  <2> QED BY <2>2, FS_CardinalityType
<1> DEFINE Good(x, k) == /\ Len(x) = Cardinality(cuts(k)) + 1
                         /\ Driven(x) \subseteq past(k)
                         /\ Single(code) => Once(x)
           T == {k \in 0..n : Good(f[k], k)}
<1>6. 0 \in T
  <2> DEFINE x == <<<<>>>>
  <2>1. Len(x) = 1 /\ DOMAIN x = {1} /\ x[1] = <<>> /\ DOMAIN x[1] = {}
    OBVIOUS
  <2> HIDE DEF x
  <2>2. Driven(x) = {} /\ Once(x)
    BY <2>1 DEF Driven, ToSet, Once
  <2>3. Cardinality(cuts(0)) = 0
    <3>1. cuts(0) = {}
      OBVIOUS
    <3> QED BY <3>1, FS_EmptySet
  <2>4. Good(x, 0)
    BY <2>1, <2>2, <2>3
  <2>5. f[0] = x /\ 0 \in 0..n
    BY <1>1, <1>3 DEF x
  <2> HIDE DEF Good
  <2> QED BY <2>4, <2>5
<1>7. ASSUME NEW k \in 0..n - 1, k \in T PROVE k + 1 \in T
  <2> DEFINE x == f[k]
             e == code[k + 1]
             last == Len(x)
             longer == [x EXCEPT ![last] = Append(@, e)]
  <2>1. /\ k + 1 \in 1..n /\ k \in 0..n /\ k + 1 \in 0..n /\ k + 1 - 1 = k
        /\ \A j : j \in 1..k + 1 <=> j \in 1..k \/ j = k + 1
        /\ k + 1 \notin 1..k
        /\ \A j \in 1..k : j \in 1..n
    BY <1>1
  <2>2. /\ f[k + 1] = IF e = Separator THEN Append(x, <<>>) ELSE longer
        /\ x \in Lists /\ e \in Marked
    <3>1. \A j \in 1..n : f[j] = IF code[j] = Separator THEN Append(f[j - 1], <<>>)
                                 ELSE [f[j - 1] EXCEPT ![Len(f[j - 1])] = Append(@, code[j])]
      BY <1>3
    <3> QED BY <1>1, <1>3, <2>1, <3>1
  <2>3. Len(x) = Cardinality(cuts(k)) + 1 /\ Driven(x) \subseteq past(k)
        /\ (Single(code) => Once(x))
    BY <1>7
  <2>4. past(k + 1) = past(k) \cup {e}
    BY <2>1
  <2>5. /\ Len(x) \in Nat /\ last \in 1..Len(x) /\ x \in [1..Len(x) -> Seq(Jobs)]
    BY <2>2, ListsFacts
  <2>6. CASE e = Separator
    <3>1. cuts(k + 1) = cuts(k) \cup {k + 1} /\ k + 1 \notin cuts(k)
      BY <2>1, <2>6
    <3>2. Cardinality(cuts(k + 1)) = Cardinality(cuts(k)) + 1
      BY <1>5, <2>1, <3>1, FS_AddElement
    <3> DEFINE new == Append(x, <<>>)
    <3>3. /\ Len(new) = Len(x) + 1 /\ DOMAIN new = 1..Len(x) + 1 /\ DOMAIN x = 1..Len(x)
          /\ new[Len(x) + 1] = <<>>
          /\ \A j \in 1..Len(x) : new[j] = x[j]
          /\ \A j : j \in 1..Len(x) + 1 <=> j \in 1..Len(x) \/ j = Len(x) + 1
      BY <2>5
    <3>4. DOMAIN <<>> = {}
      OBVIOUS
    <3> HIDE DEF new, x, cuts, past
    <3>5. Driven(new) = Driven(x)
      BY <3>3, <3>4 DEF Driven, ToSet
    <3>6. Once(x) => Once(new)
      BY <3>3, <3>4 DEF Once
    <3>7. Good(new, k + 1)
      BY <1>5, <2>1, <2>3, <2>4, <3>2, <3>3, <3>5, <3>6
    <3>8. f[k + 1] = new
      BY <2>2, <2>6 DEF new
    <3> HIDE DEF Good
    <3> QED BY <2>1, <3>7, <3>8
  <2>7. CASE e # Separator
    <3>1. cuts(k + 1) = cuts(k)
      BY <2>1, <2>7
    <3>2. e \in Jobs
      BY <2>2, <2>7 DEF Marked
    <3>3. Single(code) => e \notin past(k)
      <4>1. ASSUME Single(code), NEW j \in 1..k, code[j] = e PROVE FALSE
        <5>1. j \in DOMAIN code /\ k + 1 \in DOMAIN code /\ j # k + 1
          BY <1>1, <2>1
        <5> QED BY <2>7, <4>1, <5>1 DEF Single
      <4> QED BY <4>1
    <3> HIDE DEF x, e, cuts, past
    <3>4. x[last] \in Seq(Jobs)
      BY <2>5
    <3>5. /\ Append(x[last], e) \in Seq(Jobs)
          /\ ToSet(Append(x[last], e)) = ToSet(x[last]) \cup {e}
          /\ IsInjective(x[last]) /\ e \notin ToSet(x[last]) => IsInjective(Append(x[last], e))
      BY <3>2, <3>4, AppendFacts
    <3>6. Joined([x EXCEPT ![last] = Append(x[last], e)], x, Jobs, 1..Len(x), last, e)
      BY <2>5, <3>2, <3>5, ExtendFacts
    <3>7. longer \in Lists /\ Len(longer) = Len(x)
      BY <2>2, <3>5, ListsFacts
    <3>8. Driven(longer) = Driven(x) \cup {e} /\ (Once(x) /\ e \notin Driven(x) => Once(longer))
      BY <3>6 DEF Joined
    <3>9. f[k + 1] = longer
      BY <2>2, <2>7
    <3> HIDE DEF longer, last
    <3>10. Good(longer, k + 1)
      BY <2>3, <2>4, <3>1, <3>3, <3>7, <3>8
    <3> HIDE DEF Good
    <3> QED BY <2>1, <3>9, <3>10
  <2> QED BY <2>6, <2>7
<1>8. n \in T
  <2>1. 0 \in Nat /\ n \in 0..n
    BY <1>1
  <2> HIDE DEF T
  <2> QED BY <1>1, <1>6, <1>7, <2>1, IntervalStep
<1>9. n \in 0..n
  BY <1>1
<1> HIDE DEF cuts, past
<1> QED BY <1>3, <1>4, <1>8, <1>9

\* The chains of a code in another order are chains of the same vehicles.
LEMMA ReorderFacts ==
  ASSUME Base, Len(crew) >= 1, NEW chs \in Chains, NEW code \in Shuffles(Code(chs))
  PROVE  Decode(code) \in Chains /\ (Once(chs) => Once(Decode(code)))
<1>1. /\ Code(chs) \in Seq(Marked) /\ Cardinality(Marks(Code(chs))) = Len(crew) - 1
      /\ Once(chs) => Single(Code(chs))
  BY CodeFacts
<1>2. /\ code \in Seq(Marked)
      /\ Cardinality(Marks(code)) = Len(crew) - 1
      /\ Single(Code(chs)) => Single(code)
  BY <1>1, ShuffleFacts
<1>3. /\ Decode(code) \in Lists /\ Len(Decode(code)) = Len(crew) - 1 + 1
      /\ Single(code) => Once(Decode(code))
  BY <1>2, DecodeFacts
<1>4. Decode(code) \in Chains
  <2>1. Len(crew) \in Nat /\ Cars = 1..Len(crew)
    BY BaseFacts
  <2>2. Len(Decode(code)) = Len(crew)
    BY <1>3, <2>1
  <2> QED BY <1>3, <2>1, <2>2, ListsFacts DEF Chains
<1> QED BY <1>1, <1>2, <1>3, <1>4

\* All the tasks in some order are chains of a single vehicle.
LEMMA AnywhereFacts ==
  ASSUME Base, Len(crew) = 1, NEW code \in Shuffles(Numbers(Len(work)))
  PROVE  Decode(code) \in Chains
<1> DEFINE all == Numbers(Len(work))
<1>1. Len(work) \in Nat /\ Jobs = 1..Len(work) /\ Cars = 1..1
  BY BaseFacts
<1>2. all \in Seq(1..Len(work)) /\ all \in Seq(Jobs)
  BY <1>1, NumbersFacts
<1>3. Separator \notin Jobs
  BY <1>1 DEF Separator
<1> HIDE DEF all
<1>4. all \in Seq(Marked) /\ Marks(all) = {}
  BY <1>2, <1>3 DEF Marked, Marks
<1>5. Cardinality(Marks(all)) = 0
  BY <1>4, FS_EmptySet
<1>6. code \in Seq(Marked) /\ Cardinality(Marks(code)) = 0
  BY <1>4, <1>5, ShuffleFacts DEF all
<1>7. Decode(code) \in Lists /\ Len(Decode(code)) = 1
  <2>1. Len(Decode(code)) = Cardinality(Marks(code)) + 1
    BY <1>6, DecodeFacts
  <2> QED BY <1>6, <2>1, DecodeFacts
<1> QED BY <1>1, <1>7, ListsFacts DEF Chains

-----------------------------------------------------------------------------
(* The way back: tasks join the lists one by one.                          *)

Places == Place \cup {Nowhere}

\* Where tasks begin and end.
LEMMA PlacesIn ==
  ASSUME NEW t \in TaskType
  PROVE  /\ Stops(t) \in Seq(Place)
         /\ From(t) \in Places /\ To(t) \in Places /\ Entry(t) \in Places /\ Leave(t) \in Places
<1> DEFINE I == {k \in DOMAIN t.stops : t.stops[k] # Nowhere}
           c == Chosen(t.stops, I)
<1>1. t.stops \in Seq(Places)
  BY DEF TaskType, Places
<1>2. c \in Seq(Places)
  BY <1>1, ChosenPositions
<1>3. PICK pos : Positions(pos, t.stops, I, c)
  BY <1>1, ChosenPositions
<1>4. \A i \in 1..Len(c) : c[i] = t.stops[pos[i]] /\ pos[i] \in I
  BY <1>3 DEF Positions
<1>5. Stops(t) = c
  BY DEF Stops
<1> HIDE DEF c
<1>6. \A i \in 1..Len(c) : c[i] \in Place
  BY <1>1, <1>2, <1>4 DEF Places
<1>7. c \in Seq(Place)
  BY <1>2, <1>6
<1>8. \A s \in Seq(Places) : s # <<>> => Head(s) \in Places /\ Last(s) \in Places
  BY DEF Last
<1>9. c \in Seq(Places)
  BY <1>2
<1> QED BY <1>1, <1>5, <1>7, <1>8, <1>9 DEF From, To, Entry, Leave, Places

\* Ways are as long as a number says.
LEMMA TravelIn ==
  ASSUME NEW p \in Places, NEW r \in Places
  PROVE  Travel(p, r) \in Nat
<1>1. Spot(p) \in Nat /\ Spot(r) \in Nat
  BY PlaceAssumption DEF Spot, Places
<1> QED BY <1>1 DEF Travel

\* What a task that joins costs at a slot is a number.
LEMMA ExtraIn ==
  ASSUME NEW B, NEW n \in Nat, NEW chs \in [1..n -> Seq(B)], NEW s \in Slots(chs),
         NEW start \in [1..n -> Places], NEW ends \in [B -> Places \X Places],
         NEW new \in Places \X Places
  PROVE  Extra(chs, start, ends, new, s) \in Int
<1> DEFINE prev == Previous(chs, start, ends, s)
           next == Following(chs, ends, s)
<1>1. s[1] \in 1..n /\ s[2] \in 1..Len(chs[s[1]]) + 1 /\ chs[s[1]] \in Seq(B)
  BY SlotsFacts
<1>2. prev \in Places
  <2>1. CASE s[2] = 1
    BY <1>1, <2>1 DEF Previous
  <2>2. CASE s[2] # 1
    <3> DEFINE ch == chs[s[1]]
               q == s[2]
    <3>1. ch \in Seq(B) /\ q \in 1..Len(ch) + 1 /\ q # 1 /\ Len(ch) \in Nat
      BY <1>1, <2>2
    <3> HIDE DEF ch, q
    <3>2. q - 1 \in 1..Len(ch)
      BY <3>1
    <3>3. ch[q - 1] \in B
      BY <3>1, <3>2
    <3>4. chs[s[1]][s[2] - 1] \in B
      BY <3>3 DEF ch, q
    <3> QED BY <2>2, <3>4 DEF Previous
  <2> QED BY <2>1, <2>2
<1>3. next \in Places
  <2>1. CASE s[2] > Len(chs[s[1]])
    BY <2>1 DEF Following, Places
  <2>2. CASE ~(s[2] > Len(chs[s[1]]))
    <3>1. chs[s[1]][s[2]] \in B
      BY <1>1, <2>2
    <3> QED BY <2>2, <3>1 DEF Following
  <2> QED BY <2>1, <2>2
<1>4. new[1] \in Places /\ new[2] \in Places
  OBVIOUS
<1> HIDE DEF prev, next
<1>5. /\ Travel(prev, new[1]) \in Nat /\ Travel(new[1], new[2]) \in Nat
      /\ Travel(new[2], next) \in Nat /\ Travel(prev, next) \in Nat
  BY <1>2, <1>3, <1>4, TravelIn
<1>6. Extra(chs, start, ends, new, s) =
        Travel(prev, new[1]) + Travel(new[1], new[2]) +
        (IF next = Nowhere THEN 0 ELSE Travel(new[2], next) - Travel(prev, next))
  BY DEF Extra, prev, next
<1> QED BY <1>5, <1>6

\* A task joins one of the lists or is spare.
Absorbed(new, more, chs, rest, D, B, e) ==
    /\ new \in [D -> Seq(B)] /\ more \in SUBSET B
    /\ Driven(new) \cup more = Driven(chs) \cup rest \cup {e}
    /\ Driven(new) \subseteq Driven(chs) \cup {e}
    /\ Once(chs) /\ e \notin Driven(chs) => Once(new)
    /\ \A v \in D : ToSet(new[v]) \subseteq ToSet(chs[v]) \cup {e}

\* It is spare if it is not put anywhere.
LEMMA AbsorbedAside ==
  ASSUME NEW D, NEW B, NEW chs \in [D -> Seq(B)], NEW rest \in SUBSET B, NEW e \in B
  PROVE  Absorbed(chs, rest \cup {e}, chs, rest, D, B, e)
BY DEF Absorbed

\* It joins the list of the slot it is put at.
LEMMA AbsorbedAt ==
  ASSUME NEW D, NEW B, NEW chs \in [D -> Seq(B)], NEW rest \in SUBSET B, NEW e \in B,
         NEW v \in D, NEW p \in 1..Len(chs[v]) + 1
  PROVE  Absorbed([chs EXCEPT ![v] = InsertAt(@, p, e)], rest, chs, rest, D, B, e)
<1> DEFINE new == [chs EXCEPT ![v] = InsertAt(@, p, e)]
<1>1. Joined(new, chs, B, D, v, e)
  BY JoinFacts
<1>2. ToSet(InsertAt(chs[v], p, e)) = ToSet(chs[v]) \cup {e}
  BY InsertFacts
<1>3. \A w \in D : new[w] = IF w = v THEN InsertAt(chs[v], p, e) ELSE chs[w]
  OBVIOUS
<1> HIDE DEF new
<1>4. \A w \in D : ToSet(new[w]) \subseteq ToSet(chs[w]) \cup {e}
  BY <1>2, <1>3
<1>5. Absorbed(new, rest, chs, rest, D, B, e)
  BY <1>1, <1>4 DEF Joined, Absorbed
<1> QED BY <1>5 DEF new

AllAbsorbed(new, more, chs, rest, D, B, s) ==
    /\ new \in [D -> Seq(B)] /\ more \in SUBSET B
    /\ Driven(new) \cup more = Driven(chs) \cup rest \cup ToSet(s)
    /\ Once(chs) /\ IsInjective(s) /\ ToSet(s) \cap Driven(chs) = {} => Once(new)
    /\ \A v \in D : ToSet(new[v]) \subseteq ToSet(chs[v]) \cup ToSet(s)

\* After all tasks of a sequence have joined, they and those before are on a vehicle or
\* spare, and on one vehicle, once, if that holds of those before and of the sequence.
LEMMA AbsorbedAll ==
  ASSUME NEW D, NEW B, NEW s \in Seq(B), NEW c, NEW r,
         c[0] \in [D -> Seq(B)], r[0] \in SUBSET B,
         \A k \in 1..Len(s) : Absorbed(c[k], r[k], c[k - 1], r[k - 1], D, B, s[k])
  PROVE  AllAbsorbed(c[Len(s)], r[Len(s)], c[0], r[0], D, B, s)
<1> DEFINE n == Len(s)
           Past(k) == {s[j] : j \in 1..k}
           apart == Once(c[0]) /\ IsInjective(s) /\ ToSet(s) \cap Driven(c[0]) = {}
           Good(new, more, k) ==
             /\ new \in [D -> Seq(B)] /\ more \in SUBSET B
             /\ Driven(new) \cup more = Driven(c[0]) \cup r[0] \cup Past(k)
             /\ Driven(new) \subseteq Driven(c[0]) \cup Past(k)
             /\ apart => Once(new)
             /\ \A v \in D : ToSet(new[v]) \subseteq ToSet(c[0][v]) \cup Past(k)
           T == {k \in 0..n : Good(c[k], r[k], k)}
<1>1. n \in Nat /\ DOMAIN s = 1..n /\ ToSet(s) = Past(n)
  BY DEF ToSet
<1>2. 0 \in T
  <2>1. Past(0) = {} /\ 0 \in 0..n
    BY <1>1
  <2> HIDE DEF Past
  <2> QED BY <2>1
<1>3. ASSUME NEW k \in 0..n - 1, k \in T PROVE k + 1 \in T
  <2> DEFINE e == s[k + 1]
  <2>1. /\ k + 1 \in 1..n /\ k + 1 \in 0..n /\ k + 1 - 1 = k /\ k + 1 \notin 1..k
        /\ \A j : j \in 1..k + 1 <=> j \in 1..k \/ j = k + 1
        /\ \A j \in 1..k : j \in 1..n
    BY <1>1
  <2>2. Past(k + 1) = Past(k) \cup {e}
    BY <2>1
  <2>3. apart => e \notin Past(k) /\ e \notin Driven(c[0])
    <3>1. ASSUME apart, NEW j \in 1..k, s[j] = e PROVE FALSE
      <4>1. j \in DOMAIN s /\ k + 1 \in DOMAIN s /\ j # k + 1
        BY <1>1, <2>1
      <4> QED BY <3>1, <4>1 DEF IsInjective
    <3>2. e \in ToSet(s)
      BY <1>1, <2>1
    <3> QED BY <3>1, <3>2
  <2>4. Good(c[k], r[k], k)
    BY <1>3
  <2>5. Absorbed(c[k + 1], r[k + 1], c[k], r[k], D, B, e)
    <3>1. \A j \in 1..n : Absorbed(c[j], r[j], c[j - 1], r[j - 1], D, B, s[j])
      OBVIOUS
    <3> QED BY <2>1, <3>1
  <2> HIDE DEF Past, apart, e
  <2>6. Good(c[k + 1], r[k + 1], k + 1)
    BY <2>2, <2>3, <2>4, <2>5 DEF Absorbed
  <2> HIDE DEF Good
  <2> QED BY <2>1, <2>6
<1>4. n \in T
  <2>1. 0 \in Nat /\ n \in 0..n
    BY <1>1
  <2> HIDE DEF T
  <2> QED BY <1>1, <1>2, <1>3, <2>1, IntervalStep
<1> HIDE DEF Past
<1>5. AllAbsorbed(c[n], r[n], c[0], r[0], D, B, s)
  BY <1>1, <1>4 DEF AllAbsorbed
<1> QED BY <1>5

-----------------------------------------------------------------------------
(* SanitizeAllocationResult.                                               *)

Sifting == [kept : Seq(Jobs), out : Seq(Jobs), at : Places]

\* A task of the chain is kept or goes out.
LEMMA SiftTyped ==
  ASSUME Base, NEW x \in Sifting, NEW i \in Jobs
  PROVE  /\ Sift(x, i) \in Sifting
         /\ \/ Sift(x, i).kept = Append(x.kept, i) /\ Sift(x, i).out = x.out
               /\ Sift(x, i).at = Leave(Job(i)) /\ Sane(x.at, Job(i))
            \/ Sift(x, i).kept = x.kept /\ Sift(x, i).out = Append(x.out, i)
               /\ ~Sane(x.at, Job(i))
<1>1. /\ Append(x.kept, i) \in Seq(Jobs) /\ Append(x.out, i) \in Seq(Jobs)
  BY DEF Sifting
<1>2. Leave(Job(i)) \in Places
  <2>1. Job(i) \in TaskType
    BY BaseFacts
  <2> QED BY <2>1, PlacesIn
<1>3. CASE Sane(x.at, Job(i))
  <2>1. Sift(x, i) = [x EXCEPT !.kept = Append(@, i), !.at = Leave(Job(i))]
    BY <1>3 DEF Sift
  <2>2. /\ Sift(x, i).kept = Append(x.kept, i) /\ Sift(x, i).out = x.out
        /\ Sift(x, i).at = Leave(Job(i))
    BY <2>1 DEF Sifting
  <2>3. Sift(x, i) \in Sifting
    BY <1>1, <1>2, <2>1 DEF Sifting
  <2> QED BY <1>3, <2>2, <2>3
<1>4. CASE ~Sane(x.at, Job(i))
  <2>1. Sift(x, i) = [x EXCEPT !.out = Append(@, i)]
    BY <1>4 DEF Sift
  <2>2. Sift(x, i).kept = x.kept /\ Sift(x, i).out = Append(x.out, i)
    BY <2>1 DEF Sifting
  <2>3. Sift(x, i) \in Sifting
    BY <1>1, <2>1 DEF Sifting
  <2> QED BY <1>4, <2>2, <2>3
<1> QED BY <1>3, <1>4

SiftRun(f, v, ch) ==
    /\ f \in [0..Len(ch) -> Sifting]
    /\ f[0] = [kept |-> <<>>, out |-> <<>>, at |-> Car(v).at]
    /\ \A k \in 1..Len(ch) : f[k] = Sift(f[k - 1], ch[k])
    /\ Sifted(v, ch) = f[Len(ch)]

\* A chain is sifted task by task.
LEMMA SiftedRun ==
  ASSUME Base, NEW v \in Cars, NEW ch \in Seq(Jobs)
  PROVE  \E f : SiftRun(f, v, ch)
<1> DEFINE b == [kept |-> <<>>, out |-> <<>>, at |-> Car(v).at]
           s == ch
           O == [x \in Sifting \X Jobs |-> Sift(x[1], x[2])]
           E(h) == h = [t \in SUBSET DOMAIN s |->
                          IF t = {} THEN b ELSE Sift(h[t \ {Max(t)}], s[Max(t)])]
           H == CHOOSE h : E(h)
<1>1. b \in Sifting /\ s \in Seq(Jobs)
  <2>1. Car(v).at \in Place
    BY BaseFacts DEF VehicleType
  <2> QED BY <2>1 DEF Sifting, Places
<1>2. ASSUME NEW x \in Sifting, NEW y \in Jobs PROVE Sift(x, y) \in Sifting
  BY <1>2, SiftTyped
<1>3. /\ O \in [Sifting \X Jobs -> Sifting]
      /\ \A x \in Sifting, y \in Jobs : O[<<x, y>>] = Sift(x, y)
  BY <1>2
<1>4. Sifted(v, ch) = H[DOMAIN s]
  BY DEF Sifted, FoldLeft, MapThenFoldSet
<1> HIDE DEF O, b, s
<1>5. PICK h : Table(h, Sifting, b, Jobs, s, O)
  BY <1>1, <1>3, FoldExists
<1>6. \A t \in SUBSET DOMAIN s : t # {} => s[Max(t)] \in Jobs
  BY <1>5 DEF Table
<1>7. E(h)
  <2>1. ASSUME NEW t \in SUBSET DOMAIN s
        PROVE  h[t] = IF t = {} THEN b ELSE Sift(h[t \ {Max(t)}], s[Max(t)])
    BY <1>3, <1>5, <1>6 DEF Unfolds, Table
  <2> QED BY <1>5, <2>1 DEF Table
<1>8. E(H)
  <2> HIDE DEF E
  <2> QED BY <1>7
<1> HIDE DEF H
<1>9. Unfolds(H, Sifting, b, s, O)
  <2>1. ASSUME NEW t \in SUBSET DOMAIN s
        PROVE  H[t] = IF t = {} THEN b ELSE Sift(H[t \ {Max(t)}], s[Max(t)])
    BY <1>8
  <2> HIDE DEF E
  <2> QED BY <1>3, <1>6, <2>1 DEF Unfolds
<1>10. PICK f : Folds(f, H, Sifting, b, s, O)
  BY <1>1, <1>3, <1>9, FoldRun
<1>11. ASSUME NEW k \in 1..Len(s) PROVE f[k] = Sift(f[k - 1], s[k])
  <2>1. k - 1 \in 0..Len(s) /\ s[k] \in Jobs
    BY <1>1
  <2>2. f[k - 1] \in Sifting /\ f[k] = O[<<f[k - 1], s[k]>>]
    BY <1>10, <2>1 DEF Along, Folds
  <2> QED BY <1>3, <2>1, <2>2
<1> QED BY <1>4, <1>10, <1>11 DEF Along, Folds, SiftRun, b, s

\* Every task of the chain is kept or out, and is in one of them, once, if it was in the
\* chain once.
Divided(r, ch) ==
    /\ r.kept \in Seq(Jobs) /\ r.out \in Seq(Jobs)
    /\ ToSet(r.kept) \cup ToSet(r.out) = ToSet(ch)
    /\ IsInjective(ch) => /\ IsInjective(r.kept) /\ IsInjective(r.out)
                          /\ ToSet(r.kept) \cap ToSet(r.out) = {}

\* Sifting divides a chain.
LEMMA SiftedFacts ==
  ASSUME Base, NEW v \in Cars, NEW ch \in Seq(Jobs)
  PROVE  Divided(Sifted(v, ch), ch)
<1> DEFINE n == Len(ch)
           Past(k) == {ch[j] : j \in 1..k}
           Good(x, k) == /\ ToSet(x.kept) \cup ToSet(x.out) = Past(k)
                         /\ IsInjective(ch) => /\ IsInjective(x.kept) /\ IsInjective(x.out)
                                               /\ ToSet(x.kept) \cap ToSet(x.out) = {}
<1>1. n \in Nat /\ DOMAIN ch = 1..n /\ ToSet(ch) = Past(n)
  BY DEF ToSet
<1>2. PICK f : SiftRun(f, v, ch)
  BY SiftedRun
<1>3. /\ \A k \in 0..n : f[k] \in Sifting
      /\ f[0].kept = <<>> /\ f[0].out = <<>>
      /\ \A k \in 1..n : f[k] = Sift(f[k - 1], ch[k])
      /\ Sifted(v, ch) = f[n]
  BY <1>2 DEF SiftRun
<1> DEFINE T == {k \in 0..n : Good(f[k], k)}
<1> HIDE DEF n
<1>4. 0 \in T
  <2>1. ToSet(<<>>) = {} /\ IsInjective(<<>>)
    BY DEF ToSet, IsInjective
  <2>2. Past(0) = {} /\ 0 \in 0..n
    BY <1>1
  <2> HIDE DEF Past
  <2> QED BY <1>3, <2>1, <2>2
<1>5. ASSUME NEW k \in 0..n - 1, k \in T PROVE k + 1 \in T
  <2> DEFINE e == ch[k + 1]
  <2>1. /\ k + 1 \in 1..n /\ k \in 0..n /\ k + 1 \in 0..n /\ k + 1 - 1 = k /\ k + 1 \notin 1..k
        /\ \A j : j \in 1..k + 1 <=> j \in 1..k \/ j = k + 1
        /\ \A j \in 1..k : j \in 1..n
    BY <1>1
  <2>2. Past(k + 1) = Past(k) \cup {e} /\ e \in Jobs
    BY <1>1, <2>1
  <2>3. IsInjective(ch) => e \notin Past(k)
    <3>1. ASSUME IsInjective(ch), NEW j \in 1..k, ch[j] = e PROVE FALSE
      <4>1. j \in DOMAIN ch /\ k + 1 \in DOMAIN ch /\ j # k + 1
        BY <1>1, <2>1
      <4> QED BY <3>1, <4>1 DEF IsInjective
    <3> QED BY <3>1
  <2>4. /\ f[k] \in Sifting /\ f[k + 1] = Sift(f[k], e)
        /\ f[k].kept \in Seq(Jobs) /\ f[k].out \in Seq(Jobs) /\ Good(f[k], k)
    <3>1. f[k] \in Sifting /\ f[k + 1] = Sift(f[k], e)
      BY <1>3, <2>1
    <3> QED BY <1>5, <3>1 DEF Sifting
  <2> HIDE DEF Past, e
  <2>5. \/ f[k + 1].kept = Append(f[k].kept, e) /\ f[k + 1].out = f[k].out
        \/ f[k + 1].kept = f[k].kept /\ f[k + 1].out = Append(f[k].out, e)
    <3>1. \/ Sift(f[k], e).kept = Append(f[k].kept, e) /\ Sift(f[k], e).out = f[k].out
          \/ Sift(f[k], e).kept = f[k].kept /\ Sift(f[k], e).out = Append(f[k].out, e)
      BY <2>2, <2>4, SiftTyped, Zenon
    <3> QED BY <2>4, <3>1
  <2>6. /\ ToSet(Append(f[k].kept, e)) = ToSet(f[k].kept) \cup {e}
        /\ IsInjective(f[k].kept) /\ e \notin ToSet(f[k].kept)
           => IsInjective(Append(f[k].kept, e))
    BY <2>2, <2>4, AppendFacts
  <2>7. /\ ToSet(Append(f[k].out, e)) = ToSet(f[k].out) \cup {e}
        /\ IsInjective(f[k].out) /\ e \notin ToSet(f[k].out)
           => IsInjective(Append(f[k].out, e))
    BY <2>2, <2>4, AppendFacts
  <2>8. Good(f[k + 1], k + 1)
    <3>1. CASE f[k + 1].kept = Append(f[k].kept, e) /\ f[k + 1].out = f[k].out
      BY <2>2, <2>3, <2>4, <2>6, <3>1
    <3>2. CASE f[k + 1].kept = f[k].kept /\ f[k + 1].out = Append(f[k].out, e)
      BY <2>2, <2>3, <2>4, <2>7, <3>2
    <3> QED BY <2>5, <3>1, <3>2
  <2> HIDE DEF Good
  <2> QED BY <2>1, <2>8
<1>6. n \in T
  <2>1. 0 \in Nat /\ n \in 0..n
    BY <1>1
  <2> HIDE DEF T
  <2> QED BY <1>1, <1>4, <1>5, <2>1, IntervalStep
<1>7. Good(f[n], n) /\ f[n] \in Sifting
  <2>1. n \in 0..n
    BY <1>1
  <2> QED BY <1>3, <1>6, <2>1
<1> HIDE DEF Past
<1> QED BY <1>1, <1>3, <1>7 DEF Divided, Sifting

Returning == [chains : Chains, spare : SUBSET Jobs]

\* A task that is out comes back to a chain or is spare.
LEMMA ReturnFacts ==
  ASSUME Base, NEW acc \in Returning, NEW i \in Jobs
  PROVE  /\ Return(acc, i) \in Returning
         /\ Absorbed(Return(acc, i).chains, Return(acc, i).spare, acc.chains, acc.spare,
                     Cars, Jobs, i)
<1> DEFINE slots == Room(acc.chains, Starts, Ends, Ends[i])
           price == [s \in slots |-> Extra(acc.chains, Starts, Ends, Ends[i], s)]
           best == Cheapest(slots, price)
           put == [acc.chains EXCEPT ![best[1]] = InsertAt(@, best[2], i)]
<1>1. /\ acc.chains \in [Cars -> Seq(Jobs)] /\ acc.spare \in SUBSET Jobs
      /\ Len(crew) \in Nat /\ Cars = 1..Len(crew)
  BY BaseFacts DEF Returning, Chains
<1>2. Return(acc, i) = IF slots = {} THEN [acc EXCEPT !.spare = @ \cup {i}]
                       ELSE [acc EXCEPT !.chains = put]
  BY DEF Return
<1>3. slots \subseteq Slots(acc.chains)
  BY DEF Room
<1>4. Starts \in [1..Len(crew) -> Places] /\ Ends \in [Jobs -> Places \X Places]
  <2>1. \A v \in Cars : Car(v).at \in Places
    BY BaseFacts DEF VehicleType, Places
  <2>2. \A j \in Jobs : Entry(Job(j)) \in Places /\ Leave(Job(j)) \in Places
    BY BaseFacts, PlacesIn
  <2> QED BY <1>1, <2>1, <2>2 DEF Starts, Ends
<1>5. price \in [slots -> Int]
  <2>1. Ends[i] \in Places \X Places
    BY <1>4
  <2>2. \A s \in slots : Extra(acc.chains, Starts, Ends, Ends[i], s) \in Int
    BY <1>1, <1>3, <1>4, <2>1, ExtraIn
  <2> QED BY <2>2
<1> HIDE DEF slots, price
<1>6. CASE slots = {}
  <2> DEFINE more == acc.spare \cup {i}
  <2>1. Return(acc, i) = [acc EXCEPT !.spare = more] /\ more \in SUBSET Jobs
    BY <1>1, <1>2, <1>6
  <2>2. Absorbed(acc.chains, more, acc.chains, acc.spare, Cars, Jobs, i)
    BY <1>1, AbsorbedAside
  <2> HIDE DEF more
  <2>3. /\ Return(acc, i).chains = acc.chains /\ Return(acc, i).spare = more
        /\ Return(acc, i) \in Returning
    BY <2>1 DEF Returning
  <2> QED BY <2>2, <2>3
<1>7. CASE slots # {}
  <2>1. best[1] \in Cars /\ best[2] \in 1..Len(acc.chains[best[1]]) + 1
    BY <1>1, <1>3, <1>5, <1>7, BestSlot
  <2> HIDE DEF best
  <2>2. Absorbed(put, acc.spare, acc.chains, acc.spare, Cars, Jobs, i)
    BY <1>1, <2>1, AbsorbedAt
  <2>3. put \in Chains
    BY <2>2 DEF Absorbed, Chains
  <2> HIDE DEF put
  <2>4. Return(acc, i) = [acc EXCEPT !.chains = put]
    BY <1>2, <1>7
  <2>5. /\ Return(acc, i).chains = put /\ Return(acc, i).spare = acc.spare
        /\ Return(acc, i) \in Returning
    BY <2>3, <2>4 DEF Returning
  <2> QED BY <2>2, <2>5
<1> QED BY <1>6, <1>7

Sieved(plan) == [v \in Cars |-> Sifted(v, plan.chains[v]).kept]
Outs(plan) == FlattenSeq([v \in Cars |-> Sifted(v, plan.chains[v]).out])

\* What sifting leaves of a plan and what it takes out of it.
LEMMA SievedFacts ==
  ASSUME Base, NEW plan, Planned(plan)
  PROVE  /\ Sieved(plan) \in Chains /\ Outs(plan) \in Seq(Jobs)
         /\ Driven(Sieved(plan)) \cup ToSet(Outs(plan)) = Driven(plan.chains)
         /\ Once(plan.chains) => /\ Once(Sieved(plan)) /\ IsInjective(Outs(plan))
                                 /\ ToSet(Outs(plan)) \cap Driven(Sieved(plan)) = {}
<1> DEFINE r(v) == Sifted(v, plan.chains[v])
           outs == [v \in Cars |-> r(v).out]
           kept == [v \in Cars |-> r(v).kept]
           chs == plan.chains
<1>1. /\ chs \in [Cars -> Seq(Jobs)] /\ Len(crew) \in Nat /\ Cars = 1..Len(crew)
  BY BaseFacts DEF Planned, Chains
<1>2. \A v \in Cars : Divided(r(v), chs[v])
  BY <1>1, SiftedFacts
<1> HIDE DEF chs
<1>3. kept \in [Cars -> Seq(Jobs)] /\ outs \in [1..Len(crew) -> Seq(Jobs)]
  BY <1>1, <1>2 DEF Divided
<1>4. Outs(plan) = FlattenSeq(outs) /\ Sieved(plan) = kept
  BY DEF Outs, Sieved
<1>5. \A v \in Cars : kept[v] = r(v).kept /\ outs[v] = r(v).out
  OBVIOUS
<1> HIDE DEF kept, outs, r
<1>6. /\ FlattenSeq(outs) \in Seq(Jobs)
      /\ ToSet(FlattenSeq(outs)) = UNION {ToSet(outs[v]) : v \in 1..Len(crew)}
      /\ /\ \A v \in 1..Len(crew) : IsInjective(outs[v])
         /\ \A v, w \in 1..Len(crew) : v # w => ToSet(outs[v]) \cap ToSet(outs[w]) = {}
         => IsInjective(FlattenSeq(outs))
  BY <1>1, <1>3, FlattenFacts, Zenon
<1>7. \A v \in Cars : ToSet(kept[v]) \cup ToSet(outs[v]) = ToSet(chs[v])
  BY <1>2, <1>5 DEF Divided
<1>8. Driven(kept) \cup ToSet(FlattenSeq(outs)) = Driven(chs)
  <2>1. /\ Driven(kept) = UNION {ToSet(kept[v]) : v \in Cars}
        /\ Driven(chs) = UNION {ToSet(chs[v]) : v \in Cars}
        /\ ToSet(FlattenSeq(outs)) = UNION {ToSet(outs[v]) : v \in Cars}
    BY <1>1, <1>3, <1>6 DEF Driven
  <2> QED BY <1>7, <2>1
<1>9. ASSUME Once(chs)
      PROVE  /\ Once(kept) /\ IsInjective(FlattenSeq(outs))
             /\ ToSet(FlattenSeq(outs)) \cap Driven(kept) = {}
  <2>1. /\ \A v \in Cars : IsInjective(chs[v])
        /\ \A v, w \in Cars : v # w => ToSet(chs[v]) \cap ToSet(chs[w]) = {}
    BY <1>1, <1>9, OnceFacts
  <2>2. \A v \in Cars : /\ IsInjective(kept[v]) /\ IsInjective(outs[v])
                        /\ ToSet(kept[v]) \cap ToSet(outs[v]) = {}
    BY <1>2, <1>5, <2>1 DEF Divided
  <2>3. \A v, w \in Cars : v # w => /\ ToSet(kept[v]) \cap ToSet(kept[w]) = {}
                                   /\ ToSet(outs[v]) \cap ToSet(outs[w]) = {}
                                   /\ ToSet(outs[v]) \cap ToSet(kept[w]) = {}
    BY <1>7, <2>1
  <2>4. Once(kept)
    BY <1>3, <2>2, <2>3, OnceFacts
  <2>5. IsInjective(FlattenSeq(outs))
    BY <1>1, <1>6, <2>2, <2>3
  <2>6. ToSet(FlattenSeq(outs)) \cap Driven(kept) = {}
    <3>1. /\ Driven(kept) = UNION {ToSet(kept[v]) : v \in Cars}
          /\ ToSet(FlattenSeq(outs)) = UNION {ToSet(outs[v]) : v \in Cars}
      BY <1>1, <1>3, <1>6 DEF Driven
    <3>2. \A v, w \in Cars : ToSet(outs[v]) \cap ToSet(kept[w]) = {}
      BY <2>2, <2>3
    <3> QED BY <3>1, <3>2
  <2> QED BY <2>4, <2>5, <2>6
<1> QED BY <1>3, <1>4, <1>6, <1>8, <1>9 DEF Chains, chs

Returned(f, plan) ==
    /\ f \in [0..Len(Outs(plan)) -> Returning]
    /\ f[0] = [chains |-> Sieved(plan), spare |-> plan.spare]
    /\ \A k \in 1..Len(Outs(plan)) : f[k] = Return(f[k - 1], Outs(plan)[k])
    /\ Sanitized(plan) = f[Len(Outs(plan))]

\* The tasks that are out come back one after the other.
LEMMA ReturnRun ==
  ASSUME Base, NEW plan, Planned(plan)
  PROVE  \E f : Returned(f, plan)
<1> DEFINE b == [chains |-> Sieved(plan), spare |-> plan.spare]
           s == Outs(plan)
           O == [x \in Returning \X Jobs |-> Return(x[1], x[2])]
           E(h) == h = [t \in SUBSET DOMAIN s |->
                          IF t = {} THEN b ELSE Return(h[t \ {Max(t)}], s[Max(t)])]
           H == CHOOSE h : E(h)
<1>1. b \in Returning /\ s \in Seq(Jobs)
  BY SievedFacts DEF Planned, Returning
<1>2. ASSUME NEW x \in Returning, NEW y \in Jobs PROVE Return(x, y) \in Returning
  BY <1>2, ReturnFacts
<1>3. /\ O \in [Returning \X Jobs -> Returning]
      /\ \A x \in Returning, y \in Jobs : O[<<x, y>>] = Return(x, y)
  BY <1>2
<1>4. Sanitized(plan) = H[DOMAIN s]
  BY DEF Sanitized, Sieved, Outs, FoldLeft, MapThenFoldSet
<1> HIDE DEF O, b, s
<1>5. PICK h : Table(h, Returning, b, Jobs, s, O)
  BY <1>1, <1>3, FoldExists
<1>6. \A t \in SUBSET DOMAIN s : t # {} => s[Max(t)] \in Jobs
  BY <1>5 DEF Table
<1>7. E(h)
  <2>1. ASSUME NEW t \in SUBSET DOMAIN s
        PROVE  h[t] = IF t = {} THEN b ELSE Return(h[t \ {Max(t)}], s[Max(t)])
    BY <1>3, <1>5, <1>6 DEF Unfolds, Table
  <2> QED BY <1>5, <2>1 DEF Table
<1>8. E(H)
  <2> HIDE DEF E
  <2> QED BY <1>7
<1> HIDE DEF H
<1>9. Unfolds(H, Returning, b, s, O)
  <2>1. ASSUME NEW t \in SUBSET DOMAIN s
        PROVE  H[t] = IF t = {} THEN b ELSE Return(H[t \ {Max(t)}], s[Max(t)])
    BY <1>8
  <2> HIDE DEF E
  <2> QED BY <1>3, <1>6, <2>1 DEF Unfolds
<1>10. PICK f : Folds(f, H, Returning, b, s, O)
  BY <1>1, <1>3, <1>9, FoldRun
<1>11. ASSUME NEW k \in 1..Len(s) PROVE f[k] = Return(f[k - 1], s[k])
  <2>1. k - 1 \in 0..Len(s) /\ s[k] \in Jobs
    BY <1>1
  <2>2. f[k - 1] \in Returning /\ f[k] = O[<<f[k - 1], s[k]>>]
    BY <1>10, <2>1 DEF Along, Folds
  <2> QED BY <1>3, <2>1, <2>2
<1> QED BY <1>4, <1>10, <1>11 DEF Along, Folds, Returned, b, s

\* Sanitising loses no task, and leaves each on one vehicle, once, if it was.
LEMMA SanitizedFacts ==
  ASSUME Base, NEW plan, Planned(plan)
  PROVE  LET new == Sanitized(plan)
         IN  /\ Planned(new)
             /\ Driven(new.chains) \cup new.spare = Driven(plan.chains) \cup plan.spare
             /\ Once(plan.chains) => Once(new.chains)
             /\ Outs(plan) = <<>> => new.chains = Sieved(plan)
<1>1. PICK f : Returned(f, plan)
  BY ReturnRun
<1> DEFINE s == Outs(plan)
           n == Len(s)
           c == [k \in 0..n |-> f[k].chains]
           r == [k \in 0..n |-> f[k].spare]
<1>2. /\ s \in Seq(Jobs) /\ n \in Nat
      /\ Sieved(plan) \in Chains
      /\ Driven(Sieved(plan)) \cup ToSet(s) = Driven(plan.chains)
      /\ Once(plan.chains) => /\ Once(Sieved(plan)) /\ IsInjective(s)
                              /\ ToSet(s) \cap Driven(Sieved(plan)) = {}
  BY SievedFacts
<1>3. /\ \A k \in 0..n : f[k] \in Returning
      /\ f[0] = [chains |-> Sieved(plan), spare |-> plan.spare]
      /\ \A k \in 1..n : f[k] = Return(f[k - 1], s[k])
      /\ Sanitized(plan) = f[n]
  BY <1>1 DEF Returned
<1> HIDE DEF s, n
<1>4. /\ c[0] = Sieved(plan) /\ r[0] = plan.spare
      /\ c[n] = Sanitized(plan).chains /\ r[n] = Sanitized(plan).spare
  BY <1>2, <1>3
<1>5. ASSUME NEW k \in 1..Len(s)
      PROVE  Absorbed(c[k], r[k], c[k - 1], r[k - 1], Cars, Jobs, s[k])
  <2>1. /\ k \in 1..n /\ k \in 0..n /\ k - 1 \in 0..n /\ s[k] \in Jobs
    BY <1>2 DEF n
  <2>2. f[k - 1] \in Returning /\ f[k] = Return(f[k - 1], s[k])
    BY <1>3, <2>1
  <2>3. Absorbed(Return(f[k - 1], s[k]).chains, Return(f[k - 1], s[k]).spare,
                 f[k - 1].chains, f[k - 1].spare, Cars, Jobs, s[k])
    BY <2>1, <2>2, ReturnFacts
  <2>4. /\ c[k] = Return(f[k - 1], s[k]).chains /\ r[k] = Return(f[k - 1], s[k]).spare
        /\ c[k - 1] = f[k - 1].chains /\ r[k - 1] = f[k - 1].spare
    BY <2>1, <2>2
  <2> QED BY <2>3, <2>4
<1>6. c[0] \in [Cars -> Seq(Jobs)] /\ r[0] \in SUBSET Jobs /\ Len(s) = n
  BY <1>2, <1>4 DEF Planned, Chains, n
<1> HIDE DEF c, r
<1>7. /\ c[n] \in [Cars -> Seq(Jobs)] /\ r[n] \in SUBSET Jobs
      /\ Driven(c[n]) \cup r[n] = Driven(c[0]) \cup r[0] \cup ToSet(s)
      /\ Once(c[0]) /\ IsInjective(s) /\ ToSet(s) \cap Driven(c[0]) = {} => Once(c[n])
  <2>1. AllAbsorbed(c[Len(s)], r[Len(s)], c[0], r[0], Cars, Jobs, s)
    BY <1>2, <1>5, <1>6, AbsorbedAll
  <2> QED BY <1>6, <2>1 DEF AllAbsorbed
<1>8. ASSUME s = <<>> PROVE Sanitized(plan).chains = Sieved(plan)
  <2>1. n = 0
    BY <1>8 DEF n
  <2> QED BY <1>4, <2>1
<1>9. Planned(Sanitized(plan))
  BY <1>4, <1>7 DEF Planned, Chains
<1>10. Driven(Sanitized(plan).chains) \cup Sanitized(plan).spare =
         Driven(plan.chains) \cup plan.spare
  <2>1. Driven(c[n]) \cup r[n] = Driven(c[0]) \cup r[0] \cup ToSet(s)
    BY <1>7
  <2> QED BY <1>2, <1>4, <2>1
<1>11. Once(plan.chains) => Once(Sanitized(plan).chains)
  BY <1>2, <1>4, <1>7
<1> QED BY <1>8, <1>9, <1>10, <1>11 DEF s

-----------------------------------------------------------------------------
(* The way back to the numbering of the message.                           *)

Tours == [DOMAIN request.fleet -> Seq(DOMAIN list)]
Answering == [routes : Tours, spare : SUBSET DOMAIN list]

\* The tasks that were set aside, each once.
LEMMA ForcedFacts ==
  ASSUME Base
  PROVE  /\ Forced \in Seq(DOMAIN list) /\ IsInjective(Forced)
         /\ ToSet(Forced) = DOMAIN list \ ToSet(work)
<1> DEFINE all == Numbers(Len(list))
           I == {k \in DOMAIN list : k \notin ToSet(work)}
<1>1. Len(list) \in Nat /\ DOMAIN list = 1..Len(list)
  BY BaseFacts
<1>2. /\ all \in Seq(DOMAIN list) /\ Len(all) = Len(list) /\ DOMAIN all = DOMAIN list
      /\ \A k \in DOMAIN list : all[k] = k
  <2> DEFINE n == Len(list)
  <2>1. n \in Nat /\ DOMAIN list = 1..n /\ all = Numbers(n)
    BY <1>1
  <2> HIDE DEF n, all
  <2>2. /\ all \in Seq(1..n) /\ Len(all) = n /\ DOMAIN all = 1..n
        /\ \A k \in 1..n : all[k] = k
    BY <2>1, NumbersFacts
  <2> QED BY <2>1, <2>2 DEF n
<1>3. IsInjective(all)
  BY <1>2 DEF IsInjective
<1>4. Forced = Chosen(all, I)
  BY DEF Forced
<1> HIDE DEF all
<1>5. Forced \in Seq(DOMAIN list) /\ IsInjective(Forced)
  BY <1>2, <1>3, <1>4, ChosenPositions, ChosenSubset
<1>6. ToSet(Forced) = {all[k] : k \in DOMAIN all \cap I}
  BY <1>2, <1>4, ChosenRange
<1>7. {all[k] : k \in DOMAIN all \cap I} = DOMAIN list \ ToSet(work)
  BY <1>2
<1> QED BY <1>5, <1>6, <1>7

\* The numbers of the message: the same tasks on the same vehicles.
LEMMA RemappedFacts ==
  ASSUME Base, NEW plan, Planned(plan)
  PROVE  LET new == Remapped(plan)
         IN  /\ new \in Answering
             /\ Driven(new.routes) \cup new.spare =
                  {work[i] : i \in Driven(plan.chains) \cup plan.spare}
             /\ Once(plan.chains) => Once(new.routes)
             /\ Driven(new.routes) \subseteq ToSet(work)
             /\ \A f \in DOMAIN request.fleet : \A k \in ToSet(new.routes[f]) :
                   \E v \in Cars : crew[v] = f /\ \E i \in ToSet(plan.chains[v]) : k = work[i]
<1> DEFINE F == DOMAIN request.fleet
           chs == plan.chains
           new == Remapped(plan)
           tour(v) == [p \in DOMAIN chs[v] |-> work[chs[v][p]]]
           route == [f \in F |-> IF \E v \in Cars : crew[v] = f
                                 THEN tour(CHOOSE v \in Cars : crew[v] = f) ELSE <<>>]
<1>1. /\ chs \in [Cars -> Seq(Jobs)] /\ plan.spare \in SUBSET Jobs
      /\ \A v \in Cars : crew[v] \in F
      /\ \A i \in Jobs : work[i] \in DOMAIN list
  BY BaseFacts DEF Planned, Chains
<1>2. /\ \A v, w \in Cars : crew[v] = crew[w] => v = w
      /\ \A i, j \in Jobs : work[i] = work[j] => i = j
  BY DEF Base, IsInjective, Cars, Jobs
<1>3. new.routes = route /\ new.spare = {work[i] : i \in plan.spare}
  BY DEF Remapped
<1> HIDE DEF chs
<1>4. ASSUME NEW v \in Cars
      PROVE  /\ chs[v] \in Seq(Jobs) /\ tour(v) \in Seq(DOMAIN list)
             /\ DOMAIN tour(v) = DOMAIN chs[v]
             /\ \A p \in DOMAIN chs[v] : tour(v)[p] = work[chs[v][p]] /\ chs[v][p] \in Jobs
  <2>1. /\ chs[v] \in Seq(Jobs) /\ DOMAIN chs[v] = 1..Len(chs[v]) /\ Len(chs[v]) \in Nat
        /\ \A p \in DOMAIN chs[v] : chs[v][p] \in Jobs
    BY <1>1
  <2>2. tour(v) \in [1..Len(chs[v]) -> DOMAIN list]
    BY <1>1, <2>1
  <2>3. tour(v) \in Seq(DOMAIN list)
    BY <2>1, <2>2
  <2> QED BY <2>1, <2>3
<1>5. ASSUME NEW v \in Cars PROVE route[crew[v]] = tour(v)
  <2> DEFINE w == CHOOSE w \in Cars : crew[w] = crew[v]
  <2>1. w \in Cars /\ crew[w] = crew[v]
    OBVIOUS
  <2>2. w = v
    BY <1>2, <2>1
  <2>3. route[crew[v]] = tour(w)
    BY <1>1
  <2> QED BY <2>2, <2>3
<1>6. \A f \in F : (\A v \in Cars : crew[v] # f) => route[f] = <<>>
  OBVIOUS
<1> HIDE DEF tour
<1>7. ASSUME NEW f \in F PROVE route[f] \in Seq(DOMAIN list)
  <2>1. CASE \E v \in Cars : crew[v] = f
    <3>1. PICK v \in Cars : crew[v] = f
      BY <2>1
    <3>2. route[f] = tour(v)
      BY <1>5, <3>1
    <3> QED BY <1>4, <3>2
  <2>2. CASE \A v \in Cars : crew[v] # f
    <3>1. route[f] = <<>>
      BY <1>6, <2>2
    <3>2. <<>> \in Seq(DOMAIN list)
      OBVIOUS
    <3> QED BY <3>1, <3>2
  <2> QED BY <2>1, <2>2
<1>8. DOMAIN route = F
  OBVIOUS
<1>9. route \in [F -> Seq(DOMAIN list)]
  BY <1>7
<1> HIDE DEF route
<1>10. ASSUME NEW f \in F, NEW p \in DOMAIN route[f]
       PROVE  \E v \in Cars : /\ crew[v] = f /\ p \in DOMAIN chs[v]
                             /\ chs[v][p] \in Jobs /\ route[f][p] = work[chs[v][p]]
  <2>1. PICK v \in Cars : crew[v] = f
    <3>1. DOMAIN <<>> = {}
      OBVIOUS
    <3> QED BY <1>6, <1>10, <3>1
  <2>2. route[f] = tour(v)
    BY <1>5, <2>1
  <2> QED BY <1>4, <1>10, <2>1, <2>2
<1>11. ASSUME NEW f \in F, NEW k \in ToSet(route[f])
       PROVE  \E v \in Cars : crew[v] = f /\ \E i \in ToSet(chs[v]) : k = work[i]
  <2>1. PICK p \in DOMAIN route[f] : route[f][p] = k
    BY <1>11 DEF ToSet
  <2>2. PICK v \in Cars : /\ crew[v] = f /\ p \in DOMAIN chs[v]
                         /\ route[f][p] = work[chs[v][p]]
    BY <1>10, <2>1
  <2>3. chs[v][p] \in ToSet(chs[v])
    BY <2>2 DEF ToSet
  <2> QED BY <2>1, <2>2, <2>3
<1>12. Driven(route) = {work[i] : i \in Driven(chs)}
  <2>1. ASSUME NEW k \in Driven(route) PROVE k \in {work[i] : i \in Driven(chs)}
    <3>1. PICK f \in F : k \in ToSet(route[f])
      BY <1>8, <2>1 DEF Driven
    <3>2. PICK v \in Cars : \E i \in ToSet(chs[v]) : k = work[i]
      BY <1>11, <3>1
    <3>3. ToSet(chs[v]) \subseteq Driven(chs)
      BY <1>1 DEF Driven
    <3> QED BY <3>2, <3>3
  <2>2. ASSUME NEW i \in Driven(chs) PROVE work[i] \in Driven(route)
    <3>1. PICK v \in Cars : i \in ToSet(chs[v])
      BY <1>1, <2>2 DEF Driven
    <3>2. PICK p \in DOMAIN chs[v] : chs[v][p] = i
      BY <3>1 DEF ToSet
    <3>3. route[crew[v]] = tour(v) /\ crew[v] \in F
      BY <1>1, <1>5
    <3>4. p \in DOMAIN route[crew[v]] /\ route[crew[v]][p] = work[i]
      BY <1>4, <3>2, <3>3
    <3>5. work[i] \in ToSet(route[crew[v]])
      BY <3>4 DEF ToSet
    <3> QED BY <1>8, <3>3, <3>5 DEF Driven
  <2> QED BY <2>1, <2>2
<1>13. Driven(route) \cup {work[i] : i \in plan.spare} =
         {work[i] : i \in Driven(chs) \cup plan.spare}
  BY <1>12
<1>14. Driven(route) \subseteq ToSet(work)
  <2>1. Driven(chs) \subseteq Jobs
    BY <1>1, DrivenFacts
  <2> QED BY <1>12, <2>1 DEF ToSet, Jobs
<1>15. ASSUME Once(chs) PROVE Once(route)
  <2>1. ASSUME NEW f \in F, NEW g \in F, NEW p \in DOMAIN route[f], NEW q \in DOMAIN route[g],
               route[f][p] = route[g][q]
        PROVE  f = g /\ p = q
    <3>1. PICK v \in Cars : /\ crew[v] = f /\ p \in DOMAIN chs[v]
                           /\ chs[v][p] \in Jobs /\ route[f][p] = work[chs[v][p]]
      BY <1>10
    <3>2. PICK w \in Cars : /\ crew[w] = g /\ q \in DOMAIN chs[w]
                           /\ chs[w][q] \in Jobs /\ route[g][q] = work[chs[w][q]]
      BY <1>10
    <3>3. chs[v][p] = chs[w][q]
      BY <1>2, <2>1, <3>1, <3>2
    <3>4. v = w /\ p = q
      BY <1>1, <1>15, <3>1, <3>2, <3>3 DEF Once
    <3> QED BY <3>1, <3>2, <3>4
  <2> QED BY <1>8, <2>1 DEF Once
<1>16. new \in Answering
  <2>1. {work[i] : i \in plan.spare} \in SUBSET DOMAIN list
    BY <1>1
  <2>2. new = [routes |-> new.routes, spare |-> new.spare]
    BY DEF Remapped
  <2> HIDE DEF new
  <2> QED BY <1>3, <1>9, <2>1, <2>2 DEF Answering, Tours
<1> HIDE DEF new
<1>17. /\ new \in Answering
       /\ Driven(new.routes) \cup new.spare = {work[i] : i \in Driven(chs) \cup plan.spare}
       /\ Once(chs) => Once(new.routes)
       /\ Driven(new.routes) \subseteq ToSet(work)
       /\ \A f \in F : \A k \in ToSet(new.routes[f]) :
             \E v \in Cars : crew[v] = f /\ \E i \in ToSet(chs[v]) : k = work[i]
  BY <1>3, <1>11, <1>13, <1>14, <1>15, <1>16
<1> QED BY <1>17 DEF new, chs

\* A task that was set aside joins a list or is spare.
LEMMA ForcedJoins ==
  ASSUME Base, NEW acc \in Answering, NEW k \in DOMAIN list
  PROVE  /\ Join(acc, k) \in Answering
         /\ Absorbed(Join(acc, k).routes, Join(acc, k).spare, acc.routes, acc.spare,
                     DOMAIN request.fleet, DOMAIN list, k)
<1> DEFINE F == DOMAIN request.fleet
           B == DOMAIN list
           n == Len(request.fleet)
           slots == {s \in Room(acc.routes, FleetStarts, ListEnds, ListEnds[k]) :
                       /\ From(list[k]) # Nowhere /\ Drivable(list[k])
                       /\ s[1] \in ToSet(crew)}
           price == [s \in slots |-> Extra(acc.routes, FleetStarts, ListEnds, ListEnds[k], s)]
           best == Cheapest(slots, price)
           put == [acc.routes EXCEPT ![best[1]] = InsertAt(@, best[2], k)]
<1>1. /\ acc.routes \in [F -> Seq(B)] /\ acc.spare \in SUBSET B
      /\ n \in Nat /\ F = 1..n
  <2>1. request.fleet \in Seq(VehicleType)
    BY BaseFacts
  <2> QED BY <2>1 DEF Answering, Tours
<1>2. Join(acc, k) = IF slots = {} THEN [acc EXCEPT !.spare = @ \cup {k}]
                     ELSE [acc EXCEPT !.routes = put]
  BY DEF Join
<1>3. slots \subseteq Slots(acc.routes)
  BY DEF Room
<1>4. FleetStarts \in [1..n -> Places] /\ ListEnds \in [B -> Places \X Places]
  <2>1. \A f \in F : request.fleet[f].at \in Places
    <3>1. \A f \in F : request.fleet[f] \in VehicleType
      BY BaseFacts
    <3> QED BY <3>1 DEF VehicleType, Places
  <2>2. \A j \in B : From(list[j]) \in Places /\ To(list[j]) \in Places
    <3>1. \A j \in B : list[j] \in TaskType
      BY BaseFacts DEF Base, ToSet
    <3> QED BY <3>1, PlacesIn
  <2> QED BY <1>1, <2>1, <2>2 DEF FleetStarts, ListEnds
<1>5. price \in [slots -> Int]
  <2>1. ListEnds[k] \in Places \X Places
    BY <1>4
  <2>2. \A s \in slots : Extra(acc.routes, FleetStarts, ListEnds, ListEnds[k], s) \in Int
    BY <1>1, <1>3, <1>4, <2>1, ExtraIn
  <2> QED BY <2>2
<1> HIDE DEF slots, price, F, B, n
<1>6. CASE slots = {}
  <2> DEFINE more == acc.spare \cup {k}
  <2>1. Join(acc, k) = [acc EXCEPT !.spare = more] /\ more \in SUBSET B
    BY <1>1, <1>2, <1>6 DEF B
  <2>2. Absorbed(acc.routes, more, acc.routes, acc.spare, F, B, k)
    BY <1>1, AbsorbedAside DEF B
  <2> HIDE DEF more
  <2>3. /\ Join(acc, k).routes = acc.routes /\ Join(acc, k).spare = more
        /\ Join(acc, k) \in Answering
    BY <2>1 DEF Answering, B
  <2> QED BY <2>2, <2>3 DEF F, B
<1>7. CASE slots # {}
  <2>1. best[1] \in F /\ best[2] \in 1..Len(acc.routes[best[1]]) + 1
    BY <1>1, <1>3, <1>5, <1>7, BestSlot
  <2> HIDE DEF best
  <2>2. Absorbed(put, acc.spare, acc.routes, acc.spare, F, B, k)
    BY <1>1, <2>1, AbsorbedAt DEF B
  <2>3. put \in Tours
    BY <2>2 DEF Absorbed, Tours, F, B
  <2> HIDE DEF put
  <2>4. Join(acc, k) = [acc EXCEPT !.routes = put]
    BY <1>2, <1>7
  <2>5. /\ Join(acc, k).routes = put /\ Join(acc, k).spare = acc.spare
        /\ Join(acc, k) \in Answering
    BY <2>3, <2>4 DEF Answering
  <2> QED BY <2>2, <2>5 DEF F, B
<1> QED BY <1>6, <1>7

Forcing(f, result) ==
    /\ f \in [0..Len(Forced) -> Answering]
    /\ f[0] = result
    /\ \A k \in 1..Len(Forced) : f[k] = Join(f[k - 1], Forced[k])
    /\ WithForced(result) = f[Len(Forced)]

\* The tasks that were set aside join one after the other.
LEMMA ForcedRun ==
  ASSUME Base, NEW result \in Answering
  PROVE  \E f : Forcing(f, result)
<1> DEFINE b == result
           s == Forced
           O == [x \in Answering \X (DOMAIN list) |-> Join(x[1], x[2])]
           E(h) == h = [t \in SUBSET DOMAIN s |->
                          IF t = {} THEN b ELSE Join(h[t \ {Max(t)}], s[Max(t)])]
           H == CHOOSE h : E(h)
<1>1. b \in Answering /\ s \in Seq(DOMAIN list)
  BY ForcedFacts
<1>2. ASSUME NEW x \in Answering, NEW y \in DOMAIN list PROVE Join(x, y) \in Answering
  BY <1>2, ForcedJoins
<1>3. /\ O \in [Answering \X (DOMAIN list) -> Answering]
      /\ \A x \in Answering, y \in DOMAIN list : O[<<x, y>>] = Join(x, y)
  BY <1>2
<1>4. WithForced(result) = H[DOMAIN s]
  BY DEF WithForced, FoldLeft, MapThenFoldSet
<1> HIDE DEF O, b, s
<1>5. PICK h : Table(h, Answering, b, DOMAIN list, s, O)
  BY <1>1, <1>3, FoldExists
<1>6. \A t \in SUBSET DOMAIN s : t # {} => s[Max(t)] \in DOMAIN list
  BY <1>5 DEF Table
<1>7. E(h)
  <2>1. ASSUME NEW t \in SUBSET DOMAIN s
        PROVE  h[t] = IF t = {} THEN b ELSE Join(h[t \ {Max(t)}], s[Max(t)])
    BY <1>3, <1>5, <1>6 DEF Unfolds, Table
  <2> QED BY <1>5, <2>1 DEF Table
<1>8. E(H)
  <2> HIDE DEF E
  <2> QED BY <1>7
<1> HIDE DEF H
<1>9. Unfolds(H, Answering, b, s, O)
  <2>1. ASSUME NEW t \in SUBSET DOMAIN s
        PROVE  H[t] = IF t = {} THEN b ELSE Join(H[t \ {Max(t)}], s[Max(t)])
    BY <1>8
  <2> HIDE DEF E
  <2> QED BY <1>3, <1>6, <2>1 DEF Unfolds
<1>10. PICK f : Folds(f, H, Answering, b, s, O)
  BY <1>1, <1>3, <1>9, FoldRun
<1>11. ASSUME NEW k \in 1..Len(s) PROVE f[k] = Join(f[k - 1], s[k])
  <2>1. k - 1 \in 0..Len(s) /\ s[k] \in DOMAIN list
    BY <1>1
  <2>2. f[k - 1] \in Answering /\ f[k] = O[<<f[k - 1], s[k]>>]
    BY <1>10, <2>1 DEF Along, Folds
  <2> QED BY <1>3, <2>1, <2>2
<1> QED BY <1>4, <1>10, <1>11 DEF Along, Folds, Forcing, b, s

\* Then every task of the list is on a vehicle or spare.
LEMMA WithForcedFacts ==
  ASSUME Base, NEW result \in Answering
  PROVE  LET new == WithForced(result)
         IN  /\ new \in Answering
             /\ Driven(new.routes) \cup new.spare =
                  Driven(result.routes) \cup result.spare \cup ToSet(Forced)
             /\ Once(result.routes) /\ Driven(result.routes) \subseteq ToSet(work)
                => Once(new.routes)
             /\ \A f \in DOMAIN request.fleet :
                   ToSet(new.routes[f]) \subseteq ToSet(result.routes[f]) \cup ToSet(Forced)
<1>1. PICK f : Forcing(f, result)
  BY ForcedRun
<1> DEFINE s == Forced
           n == Len(s)
           F == DOMAIN request.fleet
           B == DOMAIN list
           c == [k \in 0..n |-> f[k].routes]
           r == [k \in 0..n |-> f[k].spare]
<1>2. /\ s \in Seq(B) /\ n \in Nat /\ IsInjective(s) /\ ToSet(s) = B \ ToSet(work)
  BY ForcedFacts
<1>3. /\ \A k \in 0..n : f[k] \in Answering
      /\ f[0] = result
      /\ \A k \in 1..n : f[k] = Join(f[k - 1], s[k])
      /\ WithForced(result) = f[n]
  BY <1>1 DEF Forcing
<1> HIDE DEF s, n, B
<1>4. /\ c[0] = result.routes /\ r[0] = result.spare
      /\ c[n] = WithForced(result).routes /\ r[n] = WithForced(result).spare
  BY <1>2, <1>3
<1>5. ASSUME NEW k \in 1..Len(s)
      PROVE  Absorbed(c[k], r[k], c[k - 1], r[k - 1], F, B, s[k])
  <2>1. /\ k \in 1..n /\ k \in 0..n /\ k - 1 \in 0..n /\ s[k] \in B
    BY <1>2 DEF n
  <2>2. f[k - 1] \in Answering /\ f[k] = Join(f[k - 1], s[k])
    BY <1>3, <2>1
  <2>3. Absorbed(Join(f[k - 1], s[k]).routes, Join(f[k - 1], s[k]).spare,
                 f[k - 1].routes, f[k - 1].spare, F, B, s[k])
    BY <2>1, <2>2, ForcedJoins DEF B
  <2>4. /\ c[k] = Join(f[k - 1], s[k]).routes /\ r[k] = Join(f[k - 1], s[k]).spare
        /\ c[k - 1] = f[k - 1].routes /\ r[k - 1] = f[k - 1].spare
    BY <2>1, <2>2
  <2> QED BY <2>3, <2>4
<1>6. c[0] \in [F -> Seq(B)] /\ r[0] \in SUBSET B /\ Len(s) = n
  BY <1>4 DEF Answering, Tours, B, n
<1> HIDE DEF c, r, F
<1>7. AllAbsorbed(c[n], r[n], c[0], r[0], F, B, s)
  <2>1. AllAbsorbed(c[Len(s)], r[Len(s)], c[0], r[0], F, B, s)
    BY <1>2, <1>5, <1>6, AbsorbedAll
  <2> QED BY <1>6, <2>1
<1>8. /\ Driven(c[n]) \cup r[n] = Driven(c[0]) \cup r[0] \cup ToSet(s)
      /\ Once(c[0]) /\ IsInjective(s) /\ ToSet(s) \cap Driven(c[0]) = {} => Once(c[n])
      /\ \A v \in F : ToSet(c[n][v]) \subseteq ToSet(c[0][v]) \cup ToSet(s)
  BY <1>7 DEF AllAbsorbed
<1>9. WithForced(result) \in Answering
  <2>1. n \in 0..n
    BY <1>2
  <2> QED BY <1>3, <2>1
<1>10. ASSUME Once(result.routes), Driven(result.routes) \subseteq ToSet(work)
       PROVE  Once(WithForced(result).routes)
  <2>1. ToSet(s) \cap Driven(c[0]) = {}
    BY <1>2, <1>4, <1>10
  <2> QED BY <1>2, <1>4, <1>8, <1>10, <2>1
<1> QED BY <1>4, <1>8, <1>9, <1>10 DEF s, F

\* A chain that cannot be driven becomes spare.
LEMMA DriveableFacts ==
  ASSUME NEW result \in Answering
  PROVE  LET new == Driveable(result)
         IN  /\ new \in Answering
             /\ Driven(new.routes) \cup new.spare = Driven(result.routes) \cup result.spare
             /\ Once(result.routes) => Once(new.routes)
             /\ \A f \in DOMAIN request.fleet :
                   ToSet(new.routes[f]) \subseteq ToSet(result.routes[f])
<1> DEFINE F == DOMAIN request.fleet
           B == DOMAIN list
           old == result.routes
           fine(f) == Finite(f, old[f])
           route == [f \in F |-> IF fine(f) THEN old[f] ELSE <<>>]
           more == result.spare \cup UNION {ToSet(old[f]) : f \in {g \in F : ~fine(g)}}
<1>1. old \in [F -> Seq(B)] /\ DOMAIN old = F /\ result.spare \in SUBSET B
  BY DEF Answering, Tours
<1>2. Driveable(result) = [routes |-> route, spare |-> more]
  BY <1>1 DEF Driveable
<1>3. ToSet(<<>>) = {} /\ DOMAIN <<>> = {} /\ <<>> \in Seq(B)
  BY DEF ToSet
<1> HIDE DEF old, fine
<1>4. ASSUME NEW f \in F
      PROVE  \/ route[f] = old[f] /\ fine(f)
             \/ route[f] = <<>> /\ ~fine(f)
  <2>1. route[f] = IF fine(f) THEN old[f] ELSE <<>>
    OBVIOUS
  <2> HIDE DEF route
  <2> QED BY <2>1
<1>5. route \in [F -> Seq(B)] /\ DOMAIN route = F
  BY <1>1, <1>3
<1>6. \A f \in F : ToSet(old[f]) \subseteq B
  BY <1>1 DEF ToSet
<1>7. more \in SUBSET B
  BY <1>1, <1>6
<1> HIDE DEF route
<1>8. \A f \in F : ToSet(route[f]) = IF fine(f) THEN ToSet(old[f]) ELSE {}
  BY <1>3, <1>4
<1>9. Driven(route) \cup more = Driven(old) \cup result.spare
  <2>1. /\ Driven(route) = UNION {ToSet(route[f]) : f \in F}
        /\ Driven(old) = UNION {ToSet(old[f]) : f \in F}
    BY <1>1, <1>5 DEF Driven
  <2> QED BY <1>8, <2>1
<1>10. ASSUME Once(old) PROVE Once(route)
  <2>1. ASSUME NEW f \in F, NEW p \in DOMAIN route[f] PROVE route[f] = old[f]
    BY <1>3, <1>4, <2>1
  <2> QED BY <1>1, <1>5, <1>10, <2>1 DEF Once
<1>11. [routes |-> route, spare |-> more] \in Answering
  BY <1>5, <1>7 DEF Answering, Tours
<1> HIDE DEF more
<1>12. /\ Driveable(result).routes = route /\ Driveable(result).spare = more
       /\ Driveable(result) \in Answering
  BY <1>2, <1>11
<1> QED BY <1>8, <1>9, <1>10, <1>12 DEF old
-----------------------------------------------------------------------------
(* The vehicle a task ends up on may take it.                              *)

\* A task whose first and last subtasks name nodes begins and ends there.
LEMMA EndsFacts ==
  ASSUME NEW t \in TaskType, Nowhere \notin {Entry(t), Leave(t)}
  PROVE  Entry(t) = From(t) /\ Leave(t) = To(t)
<1> DEFINE s == t.stops
           I == {k \in DOMAIN s : s[k] # Nowhere}
           c == Chosen(s, I)
           n == Len(s)
<1>1. s \in Seq(Places) /\ n \in Nat /\ DOMAIN s = 1..n
  BY DEF TaskType, Places
<1>2. c \in Seq(Places)
  BY <1>1, ChosenPositions
<1>3. PICK pos : Positions(pos, s, I, c)
  BY <1>1, ChosenPositions
<1>4. /\ s # <<>> /\ n >= 1
      /\ s[1] # Nowhere /\ s[n] # Nowhere /\ Entry(t) = s[1] /\ Leave(t) = s[n]
  BY <1>1 DEF Entry, Leave, Last
<1>5. Stops(t) = c
  BY DEF Stops
<1>6. 1 \in DOMAIN s \cap I /\ n \in DOMAIN s \cap I
  BY <1>1, <1>4
<1>7. Len(c) \in Nat
  BY <1>2
<1> HIDE DEF c, I, n
<1>8. /\ \A i \in 1..Len(c) : pos[i] \in DOMAIN s /\ c[i] = s[pos[i]]
      /\ \A i, j \in 1..Len(c) : i < j => pos[i] < pos[j]
  BY <1>3 DEF Positions
<1>9. PICK a \in 1..Len(c) : pos[a] = 1
  BY <1>3, <1>6 DEF Positions
<1>10. PICK b \in 1..Len(c) : pos[b] = n
  BY <1>3, <1>6 DEF Positions
<1>11. /\ 1 \in 1..Len(c) /\ Len(c) \in 1..Len(c)
       /\ \A i \in 1..Len(c) : pos[i] \in Int /\ 1 <= pos[i] /\ pos[i] <= n
  BY <1>1, <1>7, <1>8, <1>9
<1>12. a = 1
  <2>1. ~(1 < a)
    BY <1>8, <1>9, <1>11
  <2> QED BY <1>7, <1>11, <2>1
<1>13. b = Len(c)
  <2>1. ~(b < Len(c))
    BY <1>1, <1>8, <1>10, <1>11
  <2> QED BY <1>7, <1>11, <2>1
<1>14. c[1] = s[1] /\ c[Len(c)] = s[n]
  BY <1>8, <1>9, <1>10, <1>12, <1>13
<1>15. c # <<>>
  BY <1>2, <1>11
<1> QED BY <1>2, <1>4, <1>5, <1>14, <1>15 DEF From, To, Last

\* The stops of a task that can be driven are in one region.
LEMMA DrivableFacts ==
  ASSUME NEW t \in TaskType, Drivable(t), From(t) # Nowhere
  PROVE  Connected(From(t), To(t))
<1> DEFINE c == Stops(t)
           n == Len(c)
           T == {k \in 1..n : Region[c[k]] = Region[c[1]]}
<1>1. c \in Seq(Place)
  BY PlacesIn
<1>2. c # <<>>
  BY DEF From
<1> HIDE DEF c
<1>3. n \in Nat /\ n >= 1 /\ DOMAIN c = 1..n /\ \A k \in 1..n : c[k] \in Place
  BY <1>1, <1>2
<1>4. From(t) = c[1] /\ To(t) = c[n]
  BY <1>1, <1>2, <1>3 DEF From, To, Last, c
<1>5. \A k \in 1..n - 1 : Region[c[k]] = Region[c[k + 1]]
  <2>1. \A k \in 1..n - 1 : Connected(c[k], c[k + 1])
    BY DEF Drivable, c
  <2> QED BY <2>1 DEF Connected
<1> HIDE DEF n
<1>6. \A i \in 1..n - 1 : i \in T => i + 1 \in T
  BY <1>3, <1>5
<1>7. 1 \in T
  BY <1>3
<1>8. n \in T
  <2>1. n \in 1..n /\ 1 \in Nat
    BY <1>3
  <2> HIDE DEF T
  <2>2. \A i \in 1..n : i \in T
    BY <1>3, <1>6, <1>7, <2>1, IntervalStep
  <2> QED BY <2>1, <2>2
<1> QED BY <1>3, <1>4, <1>8 DEF Connected

\* The tasks of the message begin and end at nodes, and vehicles can drive where they say.
Ended ==
  /\ \A t \in ToSet(list) : Nowhere \notin {Entry(t), Leave(t)}
  /\ \A v \in ToSet(request.fleet) : Connected(v.at, v.heading)

\* Where the sanitiser has vehicle v after task p, or before its first one.
Stand(p, v) == IF p = First THEN Car(v).at ELSE Exit(p, v)

\* After a leg that is known a task is fit to be driven, for the map too, and by a vehicle
\* that may take it.
LEMMA KnownSane ==
  ASSUME Base, Ended, NEW v \in Cars, NEW p, NEW i, Cost(p, i, v) < Inf
  PROVE  /\ Sane(Stand(p, v), Job(i))
         /\ IsTaskValid(Car(v), Job(i))
         /\ Leave(Job(i)) = Stand(i, v)
<1>1. p \in Jobs \cup {First} /\ i \in Jobs /\ i \in Options(p, v)
  BY CostFacts
<1>2. i \in Jobs \ {p} /\ MayTake(v, i) /\ Connected(Exit(p, v), From(Job(i)))
  <2>1. CASE p # First /\ ~IsTaskValid(Car(v), Job(p))
    BY <1>1, <2>1 DEF Options
  <2>2. CASE ~(p # First /\ ~IsTaskValid(Car(v), Job(p)))
    BY <1>1, <2>2 DEF Options
  <2> QED BY <2>1, <2>2
<1>3. Job(i) \in TaskType /\ Job(i) \in ToSet(list) /\ i # First
  <2>1. work[i] \in DOMAIN list /\ Job(i) \in TaskType /\ First \notin Jobs
    BY <1>1, BaseFacts
  <2>2. list[work[i]] \in ToSet(list)
    BY <2>1 DEF ToSet
  <2> QED BY <1>1, <2>1, <2>2 DEF Job
<1>4. Entry(Job(i)) = From(Job(i)) /\ Leave(Job(i)) = To(Job(i))
  <2>1. Nowhere \notin {Entry(Job(i)), Leave(Job(i))}
    BY <1>3 DEF Ended
  <2> QED BY <1>3, <2>1, EndsFacts
<1>5. Connected(From(Job(i)), To(Job(i)))
  <2>1. From(Job(i)) # Nowhere /\ Drivable(Job(i))
    BY <1>1 DEF Base
  <2> QED BY <1>3, <2>1, DrivableFacts
<1>6. Sane(Stand(p, v), Job(i))
  <2>1. Connected(Stand(p, v), From(Job(i)))
    <3>1. CASE p # First
      BY <1>2, <3>1 DEF Stand
    <3>2. CASE p = First
      <4>1. Car(v) \in ToSet(request.fleet)
        BY BaseFacts DEF Car, ToSet
      <4>2. Connected(Car(v).at, Car(v).heading)
        BY <4>1 DEF Ended
      <4>3. Connected(Car(v).at, From(Job(i))) \/ Connected(Car(v).heading, From(Job(i)))
        BY <1>2, <3>2 DEF Exit, Start
      <4> QED BY <3>2, <4>2, <4>3 DEF Stand, Connected
    <3> QED BY <3>1, <3>2
  <2> QED BY <1>4, <1>5, <2>1 DEF Sane
<1>7. IsTaskValid(Car(v), Job(i))
  BY <1>2 DEF MayTake
<1>8. Leave(Job(i)) = Stand(i, v)
  BY <1>3, <1>4 DEF Exit, Stand
<1> QED BY <1>6, <1>7, <1>8

\* Nothing is sifted out of a chain whose legs are known.
LEMMA SiftedKnown ==
  ASSUME Base, Ended, NEW v \in Cars, NEW ch \in Seq(Jobs), Known(v, ch)
  PROVE  Sifted(v, ch).kept = ch /\ Sifted(v, ch).out = <<>>
<1> DEFINE n == Len(ch)
           Good(x, k) == /\ Len(x.kept) = k /\ \A j \in 1..k : x.kept[j] = ch[j]
                         /\ x.out = <<>> /\ x.at = Stand(Before(ch, k + 1), v)
<1>1. n \in Nat /\ DOMAIN ch = 1..n
  OBVIOUS
<1>2. PICK f : SiftRun(f, v, ch)
  BY SiftedRun
<1>3. /\ \A k \in 0..n : f[k] \in Sifting
      /\ f[0].kept = <<>> /\ f[0].out = <<>> /\ f[0].at = Car(v).at
      /\ \A k \in 1..n : f[k] = Sift(f[k - 1], ch[k])
      /\ Sifted(v, ch) = f[n]
  BY <1>2 DEF SiftRun
<1> DEFINE T == {k \in 0..n : Good(f[k], k)}
<1> HIDE DEF n
<1>4. 0 \in T
  <2>1. Before(ch, 1) = First /\ 0 + 1 = 1
    BY DEF Before
  <2>2. f[0].at = Stand(Before(ch, 0 + 1), v)
    BY <1>3, <2>1 DEF Stand
  <2> QED BY <1>1, <1>3, <2>2
<1>5. ASSUME NEW k \in 0..n - 1, k \in T PROVE k + 1 \in T
  <2> DEFINE e == ch[k + 1]
  <2>1. /\ k + 1 \in 1..n /\ k \in 0..n /\ k + 1 \in 0..n /\ k + 1 - 1 = k
        /\ k + 2 # 1 /\ k + 2 - 1 = k + 1 /\ (k + 1) + 1 = k + 2 /\ k \in Nat
    BY <1>1
  <2>2. e \in Jobs /\ k + 1 \in DOMAIN ch
    BY <1>1, <2>1
  <2>3. /\ Sane(Stand(Before(ch, k + 1), v), Job(e)) /\ Leave(Job(e)) = Stand(e, v)
    <3>1. Cost(Before(ch, k + 1), e, v) < Inf
      BY <2>2 DEF Known, Leg
    <3> QED BY <3>1, KnownSane
  <2>4. Before(ch, k + 2) = e
    BY <2>1 DEF Before
  <2> HIDE DEF e
  <2>5. f[k] \in Sifting /\ f[k + 1] = Sift(f[k], e) /\ f[k].kept \in Seq(Jobs)
    <3>1. f[k] \in Sifting /\ f[k + 1] = Sift(f[k], e)
      BY <1>3, <2>1 DEF e
    <3> QED BY <3>1 DEF Sifting
  <2>6. Good(f[k], k)
    BY <1>5
  <2>7. Sane(f[k].at, Job(e))
    BY <2>3, <2>6
  <2>8. /\ f[k + 1].kept = Append(f[k].kept, e) /\ f[k + 1].out = f[k].out
        /\ f[k + 1].at = Leave(Job(e))
    <3>1. /\ Sift(f[k], e).kept = Append(f[k].kept, e) /\ Sift(f[k], e).out = f[k].out
          /\ Sift(f[k], e).at = Leave(Job(e))
      BY <2>2, <2>5, <2>7, SiftTyped, Zenon
    <3> QED BY <2>5, <3>1
  <2>9. Len(f[k + 1].kept) = k + 1 /\ \A j \in 1..k + 1 : f[k + 1].kept[j] = ch[j]
    BY <2>1, <2>5, <2>6, <2>8 DEF e
  <2>10. f[k + 1].at = Stand(Before(ch, (k + 1) + 1), v)
    BY <2>1, <2>3, <2>4, <2>8
  <2>11. Good(f[k + 1], k + 1)
    BY <2>6, <2>8, <2>9, <2>10
  <2> HIDE DEF Good
  <2> QED BY <2>1, <2>11
<1>6. n \in T
  <2>1. 0 \in Nat /\ n \in 0..n
    BY <1>1
  <2> HIDE DEF T
  <2> QED BY <1>1, <1>4, <1>5, <2>1, IntervalStep
<1>7. Good(f[n], n) /\ f[n] \in Sifting
  <2>1. n \in 0..n
    BY <1>1
  <2> QED BY <1>3, <1>6, <2>1
<1>8. f[n].kept = ch
  <2>1. f[n].kept \in Seq(Jobs)
    BY <1>7 DEF Sifting
  <2> QED BY <1>7, <2>1 DEF n
<1> QED BY <1>3, <1>7, <1>8

\* The answer names every task that was on a vehicle, spare or set aside.
Answers(new, chs, rest) ==
    /\ new \in Answering
    /\ Driven(chs) \cup rest = Jobs => Driven(new.routes) \cup new.spare = DOMAIN list
    /\ Once(chs) => Once(new.routes)
    /\ Ended /\ AllKnown(chs) =>
         \A f \in DOMAIN request.fleet : \A k \in ToSet(new.routes[f]) \ ToSet(Forced) :
            IsTaskValid(request.fleet[f], list[k])

\* What is published of a plan.
LEMMA PublishFacts ==
  ASSUME Base, NEW plan, Planned(plan)
  PROVE  Answers(Driveable(WithForced(Remapped(Sanitized(plan)))), plan.chains, plan.spare)
<1> DEFINE sane == Sanitized(plan)
           mapped == Remapped(sane)
           forced == WithForced(mapped)
           new == Driveable(forced)
           chs == plan.chains
           F == DOMAIN request.fleet
<1>1. /\ Planned(sane)
      /\ Driven(sane.chains) \cup sane.spare = Driven(chs) \cup plan.spare
      /\ Once(chs) => Once(sane.chains)
      /\ Outs(plan) = <<>> => sane.chains = Sieved(plan)
  BY SanitizedFacts
<1> HIDE DEF sane
<1>2. /\ mapped \in Answering
      /\ Driven(mapped.routes) \cup mapped.spare =
           {work[i] : i \in Driven(sane.chains) \cup sane.spare}
      /\ Once(sane.chains) => Once(mapped.routes)
      /\ Driven(mapped.routes) \subseteq ToSet(work)
      /\ \A f \in F : \A k \in ToSet(mapped.routes[f]) :
            \E v \in Cars : crew[v] = f /\ \E i \in ToSet(sane.chains[v]) : k = work[i]
  BY <1>1, RemappedFacts
<1> HIDE DEF mapped
<1>3. /\ forced \in Answering
      /\ Driven(forced.routes) \cup forced.spare =
           Driven(mapped.routes) \cup mapped.spare \cup ToSet(Forced)
      /\ Once(mapped.routes) /\ Driven(mapped.routes) \subseteq ToSet(work) => Once(forced.routes)
      /\ \A f \in F : ToSet(forced.routes[f]) \subseteq ToSet(mapped.routes[f]) \cup ToSet(Forced)
  BY <1>2, WithForcedFacts
<1> HIDE DEF forced
<1>4. /\ new \in Answering
      /\ Driven(new.routes) \cup new.spare = Driven(forced.routes) \cup forced.spare
      /\ Once(forced.routes) => Once(new.routes)
      /\ \A f \in F : ToSet(new.routes[f]) \subseteq ToSet(forced.routes[f])
  BY <1>3, DriveableFacts
<1> HIDE DEF new
<1>5. ASSUME Driven(chs) \cup plan.spare = Jobs
      PROVE  Driven(new.routes) \cup new.spare = DOMAIN list
  <2>1. {work[i] : i \in Jobs} = ToSet(work)
    BY DEF ToSet, Jobs
  <2>2. ToSet(Forced) = DOMAIN list \ ToSet(work)
    BY ForcedFacts
  <2>3. ToSet(work) \subseteq DOMAIN list
    BY <2>1, BaseFacts
  <2> QED BY <1>1, <1>2, <1>3, <1>4, <1>5, <2>1, <2>2, <2>3
<1>6. Once(chs) => Once(new.routes)
  BY <1>1, <1>2, <1>3, <1>4
<1>7. ASSUME Ended, AllKnown(chs), NEW f \in F, NEW k \in ToSet(new.routes[f]) \ ToSet(Forced)
      PROVE  IsTaskValid(request.fleet[f], list[k])
  <2>1. sane.chains = chs
    <3>1. chs \in Chains /\ \A v \in Cars : chs[v] \in Seq(Jobs) /\ Known(v, chs[v])
      BY <1>7 DEF AllKnown, Planned, Chains
    <3>2. ASSUME NEW v \in Cars
          PROVE  Sifted(v, chs[v]).kept = chs[v] /\ Sifted(v, chs[v]).out = <<>>
      BY <1>7, <3>1, SiftedKnown
    <3>3. Sieved(plan) = chs
      BY <3>1, <3>2 DEF Sieved, Chains
    <3>4. Outs(plan) = <<>>
      <4> DEFINE ss == [v \in Cars |-> Sifted(v, chs[v]).out]
                 m == Len(crew)
      <4>1. Outs(plan) = FlattenSeq(ss)
        BY DEF Outs
      <4>2. m \in Nat /\ Cars = 1..m
        BY BaseFacts
      <4>3. \A v \in Cars : ss[v] = <<>>
        BY <3>2
      <4>4. ss \in [1..m -> Seq(Jobs)]
        <5>1. \A v \in Cars : Sifted(v, chs[v]).out \in Seq(Jobs)
          BY <3>1, SiftedFacts DEF Divided
        <5> QED BY <4>2, <5>1
      <4> HIDE DEF ss, m
      <4>5. FlattenSeq(ss) \in Seq(Jobs)
        BY <4>2, <4>4, FlattenFacts
      <4>6. ToSet(FlattenSeq(ss)) = UNION {ToSet(ss[v]) : v \in 1..m}
        BY <4>2, <4>4, FlattenFacts
      <4>7. ToSet(<<>>) = {}
        BY DEF ToSet
      <4>8. ToSet(FlattenSeq(ss)) = {}
        BY <4>2, <4>3, <4>6, <4>7
      <4>9. FlattenSeq(ss) = <<>>
        <5>1. \A s \in Seq(Jobs) : s # <<>> => s[1] \in ToSet(s)
          BY DEF ToSet
        <5> QED BY <4>5, <4>8, <5>1
      <4> QED BY <4>1, <4>9
    <3> QED BY <1>1, <3>3, <3>4
  <2>2. k \in ToSet(mapped.routes[f])
    BY <1>3, <1>4, <1>7
  <2>3. PICK v \in Cars : crew[v] = f /\ \E i \in ToSet(sane.chains[v]) : k = work[i]
    BY <1>2, <2>2
  <2>4. PICK i \in ToSet(chs[v]) : k = work[i]
    BY <2>1, <2>3
  <2>5. PICK p \in DOMAIN chs[v] : chs[v][p] = i
    BY <2>4 DEF ToSet
  <2>6. Cost(Before(chs[v], p), i, v) < Inf
    BY <1>7, <2>5 DEF AllKnown, Known, Leg
  <2>7. IsTaskValid(Car(v), Job(i))
    BY <1>7, <2>6, KnownSane
  <2> QED BY <2>3, <2>4, <2>7 DEF Car, Job
<1>8. Answers(new, chs, plan.spare)
  BY <1>4, <1>5, <1>6, <1>7 DEF Answers
<1> QED BY <1>8 DEF new, forced, mapped, sane
-----------------------------------------------------------------------------
(* The inductive invariant.                                                *)

\* The message, its numberings and its costs.
Opened ==
    /\ phase = "waiting" => list = <<>> /\ work = <<>> /\ crew = <<>>
    /\ phase # "waiting" => Base
    /\ phase \in {"waiting", "refuse", "costs"} => DOMAIN costs = {}
    /\ phase \in {"costs", "greedy", "greedyRepair", "fill", "postaRepair", "publish"}
       => Len(crew) >= 1

\* The chains between greedy and the second repair: what is known, what is driven once.
\* An empty code is replaced by tasks in any order, but under Plain only when no leg at
\* all is priced.
Arranged == Plain => (AllKnown(chains) /\ Once(chains)) \/ DOMAIN costs = {}

Planning ==
    /\ chains \in Chains /\ missing \in SUBSET Jobs /\ spare \in SUBSET Jobs
    /\ phase = "costs" => chains = [v \in Cars |-> <<>>]
    /\ phase \in {"greedy", "greedyRepair"} => AllKnown(chains) /\ Once(chains)
    /\ phase \in {"fill", "postaRepair"} => Arranged
    /\ phase = "fill" /\ Len(crew) = 1 /\ chains[1] = <<>> /\ Plain => DOMAIN costs = {}
    /\ phase = "publish" => /\ AllKnown(chains) /\ Driven(chains) \cup spare = Jobs
                            /\ Plain => Once(chains)

\* The answer: complete, without repetition, and on vehicles that may take the tasks.
Concluded ==
    /\ answer \in Answering
    /\ Driven(answer.routes) \cup answer.spare = DOMAIN list
    /\ Plain => Once(answer.routes)
    /\ Ended => \A f \in DOMAIN request.fleet :
                   \A k \in ToSet(answer.routes[f]) \ ToSet(Forced) :
                      IsTaskValid(request.fleet[f], list[k])

Invariant ==
    /\ phase \in {"waiting", "refuse", "costs", "greedy", "greedyRepair", "fill",
                  "postaRepair", "publish", "done"}
    /\ Opened /\ Planning
    /\ IF phase = "done" THEN Concluded ELSE answer = NoAnswer

\* What does not depend on the chains stays with the message, its numberings and its costs.
LEMMA Frame ==
  ASSUME UNCHANGED <<request, list, work, crew, costs>>
  PROVE  /\ Jobs' = Jobs /\ Cars' = Cars /\ Chains' = Chains
         /\ Base' <=> Base
         /\ Plain' <=> Plain
         /\ AllKnown(chains)' <=> AllKnown(chains')
         /\ Once(chains)' <=> Once(chains')
         /\ Driven(chains)' = Driven(chains')
<1>1. Jobs' = Jobs /\ Cars' = Cars /\ First' = First
  BY DEF Jobs, Cars, First
<1>2. Chains' = Chains
  BY <1>1 DEF Chains
<1>3. Base' <=> Base
  BY <1>1 DEF Base, Job, Options, MayTake, ForceCharge, Car, Exit, Start, Jobs
<1>4. Plain' <=> Plain
  BY <1>1 DEF Plain
<1>5. AllKnown(chains)' <=> AllKnown(chains')
  BY <1>1 DEF AllKnown, Known, Leg, Cost, Before
<1>6. Once(chains)' <=> Once(chains')
  BY DEF Once
<1>7. Driven(chains)' = Driven(chains')
  BY DEF Driven
<1> QED BY <1>1, <1>2, <1>3, <1>4, <1>5, <1>6, <1>7

\* While the answer is not there, an invariant of the chains is enough.
LEMMA Later ==
  ASSUME Invariant, phase # "waiting", UNCHANGED <<request, list, work, crew, costs, answer>>,
         phase' \in {"greedy", "greedyRepair", "fill", "postaRepair", "publish"},
         phase \in {"costs", "greedy", "greedyRepair", "fill", "postaRepair", "publish"},
         Planning'
  PROVE  Invariant'
<1>1. Base'
  BY Frame DEF Invariant, Opened
<1>2. Opened'
  BY <1>1 DEF Invariant, Opened
<1>3. phase # "done" /\ phase' # "done"
  OBVIOUS
<1> QED BY <1>2, <1>3 DEF Invariant, NoAnswer

\* A round of greedy.
LEMMA RoundKeeps ==
  ASSUME Invariant, GreedyRound
  PROVE  Invariant'
<1> DEFINE new == [v \in Cars |-> chains[v] \o SetToSeq({i \in Jobs : Proposals[i] = v})]
<1>1. /\ phase = "greedy" /\ phase' = "greedy" /\ chains' = new
      /\ UNCHANGED <<request, list, work, crew, costs, missing, spare, answer>>
  BY DEF GreedyRound
<1>2. Base /\ chains \in Chains /\ AllKnown(chains) /\ Once(chains)
  BY <1>1 DEF Invariant, Opened, Planning
<1>3. new \in Chains /\ AllKnown(new) /\ Once(new)
  BY <1>2, RoundFacts
<1> HIDE DEF new
<1>4. Planning'
  <2>1. missing \in SUBSET Jobs /\ spare \in SUBSET Jobs
    BY DEF Invariant, Planning
  <2> QED BY <1>1, <1>3, <2>1, Frame DEF Planning
<1> QED BY <1>1, <1>4, Later

\* Greedy ends when no vehicle asks for a task.
LEMMA EndKeeps ==
  ASSUME Invariant, GreedyEnds
  PROVE  Invariant'
<1>1. /\ phase = "greedy" /\ phase' = "greedyRepair" /\ chains' = chains
      /\ UNCHANGED <<request, list, work, crew, costs, missing, spare, answer>>
  BY DEF GreedyEnds
<1>2. /\ chains \in Chains /\ AllKnown(chains) /\ Once(chains)
      /\ missing \in SUBSET Jobs /\ spare \in SUBSET Jobs
  BY <1>1 DEF Invariant, Opened, Planning
<1>3. Planning'
  BY <1>1, <1>2, Frame DEF Planning
<1> QED BY <1>1, <1>3, Later
\* What the repair of greedy leaves.
LEMMA GreedyRepairKeeps ==
  ASSUME Invariant, GreedyRepair
  PROVE  Invariant'
<1> DEFINE old == [chains |-> chains, spare |-> {}]
           plan == Repaired(old, FALSE)
<1>1. /\ phase = "greedyRepair" /\ chains' = plan.chains
      /\ spare' = IF request.posta THEN {} ELSE plan.spare
      /\ phase' = IF request.posta THEN "fill" ELSE "publish"
      /\ UNCHANGED <<request, list, work, crew, costs, missing, answer>>
  BY DEF GreedyRepair
<1>2. /\ Base /\ chains \in Chains /\ AllKnown(chains) /\ Once(chains)
      /\ missing \in SUBSET Jobs /\ spare \in SUBSET Jobs
  BY <1>1 DEF Invariant, Opened, Planning
<1>3. Planned(old) /\ old.chains = chains
  BY <1>2 DEF Planned
<1> HIDE DEF old
<1>4. Mended(plan, old)
  BY <1>2, <1>3, RepairedFacts
<1> HIDE DEF plan
<1>5. /\ plan.chains \in Chains /\ plan.spare \in SUBSET Jobs
      /\ Driven(plan.chains) \cup plan.spare = Jobs
      /\ AllKnown(plan.chains)
      /\ \A v \in Cars : plan.chains[v] = <<>> => Able(Jobs \ Driven(plan.chains), v) = {}
  BY <1>4 DEF Mended, Planned
<1>6. Plain => Once(plan.chains)
  <2>1. Plain => Misplaced(old.chains) = <<>>
    BY <1>2, <1>3, NothingMisplaced
  <2> QED BY <1>2, <1>3, <1>4, <2>1 DEF Mended
<1>7. ASSUME Len(crew) = 1, plan.chains[1] = <<>>, Plain PROVE DOMAIN costs = {}
  <2>1. Cars = {1}
    BY <1>2, <1>7, BaseFacts
  <2>2. Driven(plan.chains) = {}
    <3>1. ToSet(<<>>) = {}
      BY DEF ToSet
    <3> QED BY <1>5, <1>7, <2>1, <3>1 DEF Driven, Chains
  <2>3. \A i \in Jobs : ~(Cost(First, i, 1) < Inf)
    BY <1>5, <1>7, <2>1, <2>2 DEF Able
  <2>4. ASSUME NEW leg \in DOMAIN costs PROVE FALSE
    <3>1. leg[2] \in Jobs /\ leg[3] \in Cars
      BY <1>2, <2>4 DEF Base
    <3>2. <<First, leg[2], leg[3]>> \in DOMAIN costs
      BY <1>7, <2>4 DEF Plain
    <3>3. Cost(First, leg[2], leg[3]) < Inf
      BY <1>2, <3>2, CostFacts
    <3> QED BY <2>1, <2>3, <3>1, <3>3
  <2> QED BY <2>4
<1>8. Planning'
  <2>1. /\ chains' \in Chains' /\ missing' \in SUBSET Jobs' /\ spare' \in SUBSET Jobs'
    BY <1>1, <1>2, <1>5, Frame
  <2>2. /\ AllKnown(chains)' /\ (Plain => Once(chains)')
    BY <1>1, <1>5, <1>6, Frame
  <2>3. CASE request.posta
    <3>1. phase' = "fill"
      BY <1>1, <2>3
    <3>2. Arranged'
      BY <1>1, <2>2, Frame DEF Arranged
    <3> QED BY <1>1, <1>7, <2>1, <3>1, <3>2, Frame DEF Planning
  <2>4. CASE ~request.posta
    <3>1. phase' = "publish" /\ spare' = plan.spare
      BY <1>1, <2>4
    <3>2. Driven(chains)' \cup spare' = Jobs'
      BY <1>1, <1>5, <3>1, Frame
    <3> QED BY <1>1, <2>1, <2>2, <3>1, <3>2, Frame DEF Planning
  <2> QED BY <2>3, <2>4
<1>9. phase' \in {"fill", "publish"}
  BY <1>1
<1> QED BY <1>1, <1>8, <1>9, Later

\* A missing task joins a chain, or counts as missing.
LEMMA FillKeeps ==
  ASSUME Invariant, FillMissing
  PROVE  Invariant'
<1> DEFINE i == Min(Missed)
           with(s) == [chains EXCEPT ![s[1]] = InsertAt(@, s[2], i)]
           slots == {s \in Slots(chains) :
                       /\ CutPoints(s[1], with(s)[s[1]]) = {}
                       /\ \A v \in Cars : Known(v, with(s)[v])}
<1>1. /\ phase = "fill" /\ phase' = phase /\ Missed # {}
      /\ IF slots = {} THEN missing' = missing \cup {i} /\ UNCHANGED chains
         ELSE \E s \in slots : chains' = with(s) /\ UNCHANGED missing
      /\ UNCHANGED <<request, list, work, crew, costs, spare, answer>>
  BY DEF FillMissing
<1>2. /\ Base /\ chains \in Chains /\ Arranged
      /\ missing \in SUBSET Jobs /\ spare \in SUBSET Jobs
      /\ Len(crew) = 1 /\ chains[1] = <<>> /\ Plain => DOMAIN costs = {}
  BY <1>1 DEF Invariant, Opened, Planning
<1>3. i \in Jobs /\ i \notin Driven(chains)
  <2>1. Missed \subseteq Jobs /\ \A j \in Missed : j \notin Driven(chains)
    BY DEF Missed
  <2>2. IsFiniteSet(Jobs) /\ Jobs \subseteq Int
    BY <1>2, BaseFacts, FS_Interval
  <2>3. IsFiniteSet(Missed)
    BY <2>1, <2>2, FS_Subset
  <2>4. Min(Missed) \in Missed
    BY <1>1, <2>1, <2>2, <2>3, MinMaxIn
  <2> QED BY <2>1, <2>4
<1> HIDE DEF i
<1>4. CASE slots = {}
  <2>1. missing' = missing \cup {i} /\ chains' = chains
    BY <1>1, <1>4
  <2>2. Arranged'
    BY <1>1, <1>2, <2>1, Frame DEF Arranged
  <2>3. Planning'
    BY <1>1, <1>2, <1>3, <2>1, <2>2, Frame DEF Planning
  <2> QED BY <1>1, <2>1, <2>3, Later
<1>5. CASE slots # {}
  <2>1. PICK s \in slots : chains' = with(s) /\ missing' = missing
    BY <1>1, <1>5
  <2>2. s[1] \in Cars /\ s[2] \in 1..Len(chains[s[1]]) + 1
    <3> DEFINE n == Len(crew)
    <3>1. chains \in [1..n -> Seq(Jobs)] /\ n \in Nat /\ Cars = 1..n
      BY <1>2, BaseFacts DEF Chains
    <3>2. s \in Slots(chains)
      OBVIOUS
    <3> HIDE DEF n
    <3> QED BY <3>1, <3>2, SlotsFacts
  <2>3. Joined(with(s), chains, Jobs, Cars, s[1], i)
    BY <1>2, <1>3, <2>2, JoinFacts DEF Chains
  <2>4. AllKnown(with(s))
    BY DEF AllKnown
  <2> DEFINE new == with(s)
  <2>5. /\ new \in Chains /\ AllKnown(new) /\ chains' = new
        /\ Once(chains) => Once(new)
        /\ new[s[1]] # <<>>
    BY <1>3, <2>1, <2>3, <2>4 DEF Joined, Chains
  <2> HIDE DEF new, with, slots
  <2>6. Arranged'
    BY <1>1, <1>2, <2>5, Frame DEF Arranged
  <2>7. Len(crew) = 1 => new[1] # <<>>
    BY <1>2, <2>2, <2>5, BaseFacts
  <2>8. Planning'
    BY <1>1, <1>2, <2>1, <2>5, <2>6, <2>7, Frame DEF Planning
  <2> QED BY <1>1, <2>1, <2>8, Later
<1> QED BY <1>4, <1>5

\* An empty code is replaced by the tasks in some order.
LEMMA StartKeeps ==
  ASSUME Invariant, StartAnywhere
  PROVE  Invariant'
<1>1. /\ phase = "fill" /\ phase' = phase /\ Code(chains) = <<>>
      /\ UNCHANGED <<request, list, work, crew, costs, missing, spare, answer>>
  BY DEF StartAnywhere
<1>2. PICK code \in Shuffles(Numbers(Len(work))) : chains' = Decode(code)
  BY DEF StartAnywhere
<1>3. /\ Base /\ chains \in Chains /\ Len(crew) >= 1
      /\ missing \in SUBSET Jobs /\ spare \in SUBSET Jobs
      /\ Len(crew) = 1 /\ chains[1] = <<>> /\ Plain => DOMAIN costs = {}
  BY <1>1 DEF Invariant, Opened, Planning
<1>4. Len(crew) = 1 /\ chains[1] = <<>>
  BY <1>1, <1>3, CodeFacts
<1>5. Decode(code) \in Chains
  BY <1>3, <1>4, AnywhereFacts
<1>6. Plain => DOMAIN costs = {}
  BY <1>3, <1>4
<1>7. Arranged'
  BY <1>1, <1>6, Frame DEF Arranged
<1>8. Planning'
  BY <1>1, <1>2, <1>3, <1>5, <1>6, <1>7, Frame DEF Planning
<1> QED BY <1>1, <1>8, Later

\* What the search ends with has no more repetitions than what it began with.
LEMMA SearchKeeps ==
  ASSUME Invariant, Search
  PROVE  Invariant'
<1>1. /\ phase = "fill" /\ phase' = "postaRepair"
      /\ UNCHANGED <<request, list, work, crew, costs, missing, spare, answer>>
      /\ \/ chains' = chains
         \/ \E code \in Shuffles(Code(chains)) :
               /\ \A v \in Cars : Known(v, Decode(code)[v])
               /\ chains' = Decode(code)
  BY DEF Search
<1>2. /\ Base /\ chains \in Chains /\ Len(crew) >= 1 /\ Arranged
      /\ missing \in SUBSET Jobs /\ spare \in SUBSET Jobs
  BY <1>1 DEF Invariant, Opened, Planning
<1>3. CASE chains' = chains
  <2>1. Arranged'
    BY <1>1, <1>2, <1>3, Frame DEF Arranged
  <2>2. Planning'
    BY <1>1, <1>2, <1>3, <2>1, Frame DEF Planning
  <2> QED BY <1>1, <2>2, Later
<1>4. ASSUME NEW code \in Shuffles(Code(chains)),
             \A v \in Cars : Known(v, Decode(code)[v]), chains' = Decode(code)
      PROVE  Invariant'
  <2> DEFINE new == Decode(code)
  <2>1. new \in Chains /\ (Once(chains) => Once(new)) /\ AllKnown(new)
    BY <1>2, <1>4, ReorderFacts DEF AllKnown
  <2>2. chains' = new
    BY <1>4
  <2> HIDE DEF new
  <2>3. Arranged'
    BY <1>1, <1>2, <2>1, <2>2, Frame DEF Arranged
  <2>4. Planning'
    BY <1>1, <1>2, <2>1, <2>2, <2>3, Frame DEF Planning
  <2> QED BY <1>1, <2>4, Later
<1> QED BY <1>1, <1>3, <1>4
\* What the repair of POSTA leaves.
LEMMA PostaRepairKeeps ==
  ASSUME Invariant, PostaRepair
  PROVE  Invariant'
<1> DEFINE old == [chains |-> chains, spare |-> {}]
           plan == Repaired(old, TRUE)
<1>1. /\ phase = "postaRepair" /\ phase' = "publish" /\ chains' = plan.chains
      /\ spare' = plan.spare \cup missing
      /\ UNCHANGED <<request, list, work, crew, costs, missing, answer>>
  BY DEF PostaRepair
<1>2. /\ Base /\ chains \in Chains /\ Arranged
      /\ missing \in SUBSET Jobs /\ spare \in SUBSET Jobs
  BY <1>1 DEF Invariant, Opened, Planning
<1>3. Planned(old) /\ old.chains = chains
  BY <1>2 DEF Planned
<1> HIDE DEF old
<1>4. Mended(plan, old)
  BY <1>2, <1>3, RepairedFacts
<1> HIDE DEF plan
<1>5. /\ plan.chains \in Chains /\ plan.spare \in SUBSET Jobs
      /\ Driven(plan.chains) \cup plan.spare = Jobs
      /\ AllKnown(plan.chains)
  BY <1>4 DEF Mended, Planned
<1>6. ASSUME Plain PROVE Once(plan.chains)
  <2>1. CASE AllKnown(chains) /\ Once(chains)
    <3>1. Misplaced(old.chains) = <<>>
      BY <1>2, <1>3, <1>6, <2>1, NothingMisplaced
    <3> QED BY <1>3, <1>4, <2>1, <3>1 DEF Mended
  <2>2. CASE DOMAIN costs = {}
    <3>1. ASSUME NEW v \in Cars, NEW p \in DOMAIN plan.chains[v] PROVE FALSE
      <4>1. Cost(Before(plan.chains[v], p), plan.chains[v][p], v) < Inf
        BY <1>5, <3>1 DEF AllKnown, Known, Leg
      <4> QED BY <1>2, <2>2, <4>1, CostFacts
    <3>2. DOMAIN plan.chains = Cars
      BY <1>5 DEF Chains
    <3> QED BY <3>1, <3>2 DEF Once
  <2> QED BY <1>2, <1>6, <2>1, <2>2 DEF Arranged
<1>7. Planning'
  <2>1. /\ AllKnown(chains)' /\ (Plain => Once(chains)')
    BY <1>1, <1>5, <1>6, Frame
  <2>2. Driven(chains)' \cup spare' = Jobs' /\ spare' \in SUBSET Jobs'
    BY <1>1, <1>2, <1>5, Frame
  <2> QED BY <1>1, <1>2, <1>5, <2>1, <2>2, Frame DEF Planning
<1> QED BY <1>1, <1>7, Later

\* The answer is made.
LEMMA PublishKeeps ==
  ASSUME Invariant, Publish
  PROVE  Invariant'
<1> DEFINE plan == [chains |-> chains, spare |-> spare]
           new == Driveable(WithForced(Remapped(Sanitized(plan))))
<1>1. /\ phase = "publish" /\ phase' = "done" /\ answer' = new
      /\ UNCHANGED <<request, list, work, crew, costs, chains, missing, spare>>
  BY DEF Publish
<1>2. /\ Base /\ chains \in Chains /\ missing \in SUBSET Jobs /\ spare \in SUBSET Jobs
      /\ AllKnown(chains) /\ Driven(chains) \cup spare = Jobs /\ (Plain => Once(chains))
  BY <1>1 DEF Invariant, Opened, Planning
<1>3. Planned(plan) /\ plan.chains = chains /\ plan.spare = spare
  BY <1>2 DEF Planned
<1>4. Answers(new, chains, spare)
  <2> HIDE DEF plan
  <2>1. Answers(new, plan.chains, plan.spare)
    BY <1>2, <1>3, PublishFacts
  <2> QED BY <1>3, <2>1
<1> HIDE DEF plan, new
<1>5. Concluded'
  <2>1. Answering' = Answering /\ Forced' = Forced /\ (Ended' <=> Ended)
    BY <1>1 DEF Answering, Tours, Forced, Ended
  <2>2. answer' \in Answering'
    BY <1>1, <1>4, <2>1 DEF Answers
  <2>3. Driven(answer.routes)' \cup answer'.spare = DOMAIN list'
    BY <1>1, <1>2, <1>4 DEF Answers, Driven
  <2>4. Plain' => Once(answer.routes)'
    BY <1>1, <1>2, <1>4, Frame DEF Answers, Once
  <2>5. Ended' => \A f \in DOMAIN request'.fleet :
                     \A k \in ToSet(answer'.routes[f]) \ ToSet(Forced') :
                        IsTaskValid(request'.fleet[f], list'[k])
    BY <1>1, <1>2, <1>4, <2>1 DEF Answers
  <2> QED BY <2>2, <2>3, <2>4, <2>5 DEF Concluded
<1>6. Opened'
  BY <1>1, <1>2, Frame DEF Opened
<1>7. Planning'
  BY <1>1, <1>2, Frame DEF Planning
<1> QED BY <1>1, <1>5, <1>6, <1>7 DEF Invariant

\* Nobody to plan for: all the tasks are spare.
LEMMA RefuseKeeps ==
  ASSUME Invariant, Refuse
  PROVE  Invariant'
<1> DEFINE route == [f \in DOMAIN request.fleet |-> <<>>]
           rest == ToSet(Forced) \cup ToSet(work)
<1>1. /\ phase = "refuse" /\ phase' = "done" /\ answer' = [routes |-> route, spare |-> rest]
      /\ UNCHANGED <<request, list, work, crew, costs, chains, missing, spare>>
  BY DEF Refuse
<1>2. /\ Base /\ DOMAIN costs = {}
      /\ chains \in Chains /\ missing \in SUBSET Jobs /\ spare \in SUBSET Jobs
  BY <1>1 DEF Invariant, Opened, Planning
<1>3. rest = DOMAIN list
  <2>1. ToSet(work) \subseteq DOMAIN list
    BY <1>2 DEF Base, ToSet
  <2> QED BY <1>2, <2>1, ForcedFacts
<1>4. route \in Tours /\ DOMAIN route = DOMAIN request.fleet
      /\ \A f \in DOMAIN route : route[f] = <<>>
  BY DEF Tours
<1> HIDE DEF route, rest
<1>5. answer'.routes = route /\ answer'.spare = DOMAIN list /\ answer' \in Answering
  BY <1>1, <1>3, <1>4 DEF Answering
<1>6. ToSet(<<>>) = {} /\ DOMAIN <<>> = {}
  BY DEF ToSet
<1>7. Concluded'
  <2>1. Answering' = Answering
    BY <1>1 DEF Answering, Tours
  <2>2. Driven(answer.routes)' = {}
    BY <1>4, <1>5, <1>6 DEF Driven
  <2>3. Once(answer.routes)'
    BY <1>4, <1>5, <1>6 DEF Once
  <2>4. \A f \in DOMAIN request'.fleet : ToSet(answer'.routes[f]) = {}
    BY <1>1, <1>4, <1>5, <1>6
  <2> QED BY <1>1, <1>5, <2>1, <2>2, <2>3, <2>4 DEF Concluded
<1>8. Opened'
  BY <1>1, <1>2, Frame DEF Opened
<1>9. Planning'
  BY <1>1, <1>2, Frame DEF Planning
<1> QED BY <1>1, <1>7, <1>8, <1>9 DEF Invariant
\* Half of a number more is no more than twice the number.
LEMMA HalfMore ==
  ASSUME NEW c \in Nat
  PROVE  c \div 2 \in Nat /\ c + c \div 2 <= 2 * c
OBVIOUS

\* The price of a leg a vehicle could drive is a number, no more than the longest.
LEMMA PriceFacts ==
  ASSUME Base, NEW leg \in Drives(Jobs \cup {First})
  PROVE  Price(leg) \in Int /\ Price(leg) <= Longest
<1> DEFINE p == leg[1]
           i == leg[2]
           v == leg[3]
           c == Guess(p, i, v) + Job(i).service
           slow == IF Job(i).crowded THEN c + c \div 2 ELSE c
<1>1. p \in Jobs \cup {First} /\ i \in Jobs /\ v \in Cars /\ i \in Options(p, v)
  BY DEF Drives
<1>2. Connected(Exit(p, v), From(Job(i)))
  <2>1. CASE p # First /\ ~IsTaskValid(Car(v), Job(p))
    BY <1>1, <2>1 DEF Options
  <2>2. CASE ~(p # First /\ ~IsTaskValid(Car(v), Job(p)))
    BY <1>1, <2>2 DEF Options
  <2> QED BY <2>1, <2>2
<1>3. /\ Job(i) \in ToSet(request.tasks) /\ Job(i) \in TaskType /\ request \in Request
  BY <1>1, BaseFacts DEF Base
<1>4. Job(i).service \in Nat /\ Job(i).bonus \in Nat
  BY <1>3 DEF TaskType
<1>5. /\ Exit(p, v) \in Place /\ From(Job(i)) \in Place
  BY <1>2 DEF Connected
<1>6. Guess(p, i, v) \in Nat
  BY <1>5, TravelIn DEF Guess, Places
<1>7. 2 * c <= Longest
  <2>1. \A t \in ToSet(request.tasks), a, b \in Place : 2 * (Travel(a, b) + t.service) <= Longest
    BY <1>3, RequestAssumption
  <2>2. 2 * (Travel(Exit(p, v), From(Job(i))) + Job(i).service) <= Longest
    BY <1>3, <1>5, <2>1
  <2> QED BY <2>2 DEF Guess
<1>8. c \in Nat
  BY <1>4, <1>6
<1>9. Price(leg) = Adjust(i, c)
  BY DEF Price
<1>10. Longest \in Int /\ AgeFloor \in Int /\ AgeFloor <= Longest
  BY NumberAssumption
<1> HIDE DEF c, i, p, v
<1>11. slow \in Int /\ slow <= Longest
  BY <1>7, <1>8, <1>10, HalfMore
<1>12. Adjust(i, c) = IF Job(i).bonus = 0 THEN slow ELSE Max({slow - Job(i).bonus, AgeFloor})
  BY DEF Adjust
<1> HIDE DEF slow
<1>13. /\ slow - Job(i).bonus \in Int /\ slow - Job(i).bonus <= Longest
  BY <1>4, <1>10, <1>11
<1>14. Max({slow - Job(i).bonus, AgeFloor}) \in {slow - Job(i).bonus, AgeFloor}
  BY <1>10, <1>13, MaxOfTwo
<1> QED BY <1>9, <1>10, <1>11, <1>12, <1>13, <1>14

\* The cost matrix holds prices of legs that vehicles could drive.
LEMMA CostsKeep ==
  ASSUME Invariant, FillCosts
  PROVE  Invariant'
<1>1. /\ phase = "costs" /\ phase' = "greedy"
      /\ UNCHANGED <<request, list, work, crew, chains, missing, spare, answer>>
  BY DEF FillCosts
<1>2. PICK few \in 0..MaxDenied : \E denied \in kSubset(few, Drives(Jobs \cup {First})) :
          LET first == Listed({First}) \ denied
              cover == Coverage(first) \ denied
              next == Listed(Jobs) \ denied
          IN  costs' = [leg \in first \cup cover \cup next |-> Price(leg)]
  BY DEF FillCosts
<1>3. PICK denied :
          costs' = [leg \in (Listed({First}) \ denied)
                        \cup (Coverage(Listed({First}) \ denied) \ denied)
                        \cup (Listed(Jobs) \ denied) |-> Price(leg)]
  BY <1>2
<1> DEFINE rows == Jobs \cup {First}
           legs == (Listed({First}) \ denied)
                   \cup (Coverage(Listed({First}) \ denied) \ denied)
                   \cup (Listed(Jobs) \ denied)
<1>4. /\ Base /\ Len(crew) >= 1 /\ chains \in Chains
      /\ missing \in SUBSET Jobs /\ spare \in SUBSET Jobs
      /\ chains = [v \in Cars |-> <<>>]
  BY <1>1 DEF Invariant, Opened, Planning
<1>5. legs \subseteq Drives(rows)
  <2>1. \A q, v : Shortlist(q, v) \subseteq Options(q, v)
    BY DEF Shortlist
  <2>2. Listed({First}) \subseteq Drives(rows) /\ Listed(Jobs) \subseteq Drives(rows)
    BY <2>1 DEF Listed, Drives
  <2>3. ASSUME NEW priced PROVE Coverage(priced) \subseteq Drives(rows)
    <3>1. Coverage(priced) \subseteq Drives({First})
      BY DEF Coverage
    <3>2. Drives({First}) \subseteq Drives(rows)
      BY DEF Drives
    <3> QED BY <3>1, <3>2
  <2> QED BY <2>2, <2>3
<1>6. DOMAIN costs' = legs /\ \A leg \in legs : costs'[leg] = Price(leg)
  BY <1>3
<1> HIDE DEF legs
<1>7. ASSUME NEW leg \in DOMAIN costs'
      PROVE  /\ leg \in (Jobs \cup {First}) \X Jobs \X Cars
             /\ leg[2] \in Options(leg[1], leg[3])
             /\ costs'[leg] \in Int /\ costs'[leg] <= Longest
  <2>1. leg \in Drives(rows) /\ costs'[leg] = Price(leg)
    BY <1>5, <1>6, <1>7
  <2>2. Price(leg) \in Int /\ Price(leg) <= Longest
    BY <1>4, <2>1, PriceFacts
  <2>3. leg \in (Jobs \cup {First}) \X Jobs \X Cars /\ leg[2] \in Options(leg[1], leg[3])
    BY <2>1 DEF Drives
  <2> QED BY <2>1, <2>2, <2>3
<1> HIDE DEF rows
<1>8. Jobs' = Jobs /\ Cars' = Cars /\ First' = First /\ Chains' = Chains
  BY <1>1 DEF Jobs, Cars, First, Chains
<1>9. \A q, v : Options(q, v)' = Options(q, v)
  BY <1>1, <1>8 DEF Options, IsTaskValid, MayTake, ForceCharge, Car, Job, Exit, Start
<1>10. Base'
  <2>1. /\ request' \in Request
        /\ list' \in Seq(ToSet(request'.tasks)) /\ Len(list') <= Len(request'.tasks)
        /\ work' \in Seq(DOMAIN list') /\ IsInjective(work')
        /\ crew' \in Seq(DOMAIN request'.fleet) /\ IsInjective(crew')
    BY <1>1, <1>4 DEF Base
  <2>2. \A i \in Jobs' : From(Job(i)') # Nowhere /\ Drivable(Job(i)')
    BY <1>1, <1>4, <1>8 DEF Base, Job
  <2>3. \A leg \in DOMAIN costs' :
          /\ leg \in (Jobs' \cup {First'}) \X Jobs' \X Cars'
          /\ leg[2] \in Options(leg[1], leg[3])'
          /\ costs'[leg] \in Int /\ costs'[leg] <= Longest
    BY <1>7, <1>8, <1>9
  <2> QED BY <2>1, <2>2, <2>3 DEF Base
<1>11. Opened'
  BY <1>1, <1>4, <1>10 DEF Opened
<1>12. AllKnown(chains)' /\ Once(chains)'
  <2>1. DOMAIN <<>> = {}
    OBVIOUS
  <2>2. \A v \in Cars : DOMAIN chains'[v] = {}
    BY <1>1, <1>4, <2>1
  <2>3. AllKnown(chains)'
    BY <1>8, <2>2 DEF AllKnown, Known
  <2>4. DOMAIN chains' = Cars
    BY <1>1, <1>4
  <2> QED BY <2>2, <2>3, <2>4 DEF Once
<1>13. Planning'
  BY <1>1, <1>4, <1>8, <1>12 DEF Planning
<1> QED BY <1>1, <1>11, <1>13 DEF Invariant, NoAnswer
\* A sorted message has the same tasks, as many.
LEMMA SortedFacts ==
  ASSUME NEW tasks \in Seq(TaskType), NEW sorted \in Sorted(tasks)
  PROVE  sorted \in Seq(ToSet(tasks)) /\ Len(sorted) = Len(tasks)
<1> DEFINE n == Len(tasks)
<1>1. n \in Nat /\ DOMAIN tasks = 1..n
  OBVIOUS
<1>2. PICK f \in Bijection(DOMAIN tasks, DOMAIN tasks) :
         sorted = [k \in DOMAIN tasks |-> tasks[f[k]]]
  BY DEF Sorted
<1>3. f \in [1..n -> 1..n]
  BY <1>1, <1>2 DEF Bijection, Injection, Surjection
<1>4. \A k \in 1..n : tasks[f[k]] \in ToSet(tasks)
  BY <1>1, <1>3 DEF ToSet
<1> HIDE DEF n
<1>5. sorted \in [1..n -> ToSet(tasks)]
  BY <1>1, <1>2, <1>4
<1>6. sorted \in Seq(ToSet(tasks)) /\ Len(sorted) = n
  BY <1>1, <1>5
<1> QED BY <1>6 DEF n

\* As many are taken as the batch allows.
LEMMA TakenFacts ==
  ASSUME NEW b \in Nat, NEW n \in Nat
  PROVE  (IF b = 0 THEN n ELSE Min({b, n})) \in 0..n
<1>1. {b, n} \in SUBSET Int /\ {b, n} # {} /\ IsFiniteSet({b, n})
  BY Pair
<1>2. Min({b, n}) \in {b, n} /\ \A k \in {b, n} : Min({b, n}) <= k
  BY ONLY <1>1, MinMaxIn
<1> QED BY <1>2

\* The vehicles that take part are vehicles of the fleet, each once.
LEMMA AvailableFacts ==
  ASSUME NEW fleet \in Seq(VehicleType), NEW tasks
  PROVE  Available(fleet, tasks) \in Seq(DOMAIN fleet) /\ IsInjective(Available(fleet, tasks))
<1> DEFINE n == Len(fleet)
           all == Numbers(n)
           I == {v \in DOMAIN fleet :
                   /\ tasks # <<>>
                   /\ \/ fleet[v].state = "idle"
                      \/ /\ fleet[v].state = "working"
                         /\ HasEmergency(tasks)
                         /\ Travel(fleet[v].at, From(Head(tasks))) >= NearLimit}
<1>1. n \in Nat /\ DOMAIN fleet = 1..n
  OBVIOUS
<1>2. Available(fleet, tasks) = Chosen(all, I)
  BY DEF Available
<1> HIDE DEF n, I
<1>3. all \in Seq(1..n) /\ IsInjective(all)
  BY <1>1, NumbersFacts DEF IsInjective
<1> HIDE DEF all
<1>4. Chosen(all, I) \in Seq(1..n) /\ IsInjective(Chosen(all, I))
  BY <1>3, ChosenPositions, ChosenSubset
<1> QED BY <1>1, <1>2, <1>4

\* A message is opened: sorted, cut to the batch, its vehicles and tasks numbered.
LEMMA ReceiveKeeps ==
  ASSUME Invariant, Receive
  PROVE  Invariant'
<1>1. /\ phase = "waiting" /\ UNCHANGED <<costs, missing, spare, answer>>
  BY DEF Receive
<1>2. /\ DOMAIN costs = {} /\ missing = {} /\ spare = {} /\ answer = NoAnswer
  <2>1. Jobs = {}
    BY <1>1 DEF Invariant, Opened, Jobs
  <2>2. missing \in SUBSET Jobs /\ spare \in SUBSET Jobs
    BY DEF Invariant, Planning
  <2>3. DOMAIN costs = {} /\ answer = NoAnswer
    BY <1>1 DEF Invariant, Opened
  <2> QED BY <2>1, <2>2, <2>3
<1> DEFINE Opens(q, sorted) ==
         LET taken == IF q.batch = 0 THEN Len(sorted) ELSE Min({q.batch, Len(sorted)})
             tasks == SubSeq(sorted, 1, taken)
             able == LET few == Available(q.fleet, tasks)
                     IN  [v \in DOMAIN few |-> q.fleet[few[v]]]
             left == Chosen(Numbers(taken), {k \in 1..taken : Reachable(tasks[k], able)})
             jobs == [k \in DOMAIN left |-> tasks[left[k]]]
             cars == Available(q.fleet, jobs)
         IN  /\ request' = q
             /\ list' = tasks
             /\ work' = left
             /\ crew' = cars
             /\ chains' = [v \in DOMAIN cars |-> <<>>]
             /\ phase' = IF /\ HasIdle(q.fleet) \/ HasEmergency(jobs)
                            /\ cars # <<>>
                            /\ jobs # <<>>
                         THEN "costs" ELSE "refuse"
<1>3. PICK q \in Request : \E sorted \in Sorted(q.tasks) : Opens(q, sorted)
  <2>1. \E q \in Request : \E sorted \in Sorted(q.tasks) : Opens(q, sorted)
    BY DEF Receive
  <2> HIDE DEF Opens
  <2> QED BY <2>1
<1> HIDE DEF Opens
<1>4. PICK sorted \in Sorted(q.tasks) : Opens(q, sorted)
  BY <1>3
<1> DEFINE taken == IF q.batch = 0 THEN Len(sorted) ELSE Min({q.batch, Len(sorted)})
           tasks == SubSeq(sorted, 1, taken)
           able == LET few == Available(q.fleet, tasks)
                   IN  [v \in DOMAIN few |-> q.fleet[few[v]]]
           I == {k \in 1..taken : Reachable(tasks[k], able)}
           left == Chosen(Numbers(taken), I)
           jobs == [k \in DOMAIN left |-> tasks[left[k]]]
           cars == Available(q.fleet, jobs)
<1>5. /\ request' = q /\ list' = tasks /\ work' = left /\ crew' = cars
      /\ chains' = [v \in DOMAIN cars |-> <<>>]
      /\ phase' \in {"costs", "refuse"}
      /\ phase' = "costs" => cars # <<>>
  BY <1>4 DEF Opens
<1>6. /\ q.fleet \in Seq(VehicleType) /\ q.tasks \in Seq(TaskType) /\ q.batch \in Nat
  BY RequestAssumption DEF RequestType
<1>7. sorted \in Seq(ToSet(q.tasks)) /\ Len(sorted) = Len(q.tasks) /\ Len(sorted) \in Nat
  BY <1>6, SortedFacts
<1>8. taken \in 0..Len(sorted)
  BY <1>6, <1>7, TakenFacts
<1> HIDE DEF taken
<1>9. tasks \in Seq(ToSet(q.tasks)) /\ Len(tasks) = taken
  BY <1>7, <1>8, CutFacts
<1>10. cars \in Seq(DOMAIN q.fleet) /\ IsInjective(cars)
  <2> HIDE DEF jobs
  <2> QED BY <1>6, AvailableFacts
<1>11. left \in Seq(1..taken) /\ IsInjective(left) /\ \A i \in DOMAIN left : left[i] \in I
  <2> DEFINE all == Numbers(taken)
  <2>1. /\ taken \in Nat
    BY <1>8
  <2>2. all \in Seq(1..taken) /\ IsInjective(all) /\ \A k \in DOMAIN all : all[k] = k
    BY <2>1, NumbersFacts DEF IsInjective
  <2> HIDE DEF all, I
  <2>3. left \in Seq(1..taken) /\ IsInjective(left)
    BY <2>2, ChosenPositions, ChosenSubset DEF all
  <2>4. ToSet(left) = {all[k] : k \in DOMAIN all \cap I}
    BY <2>2, ChosenRange DEF all
  <2>5. ToSet(left) \subseteq I
    BY <2>2, <2>4
  <2>6. \A i \in DOMAIN left : left[i] \in ToSet(left)
    BY DEF ToSet
  <2> QED BY <2>3, <2>5, <2>6
<1>12. \A i \in DOMAIN left : From(tasks[left[i]]) # Nowhere /\ Drivable(tasks[left[i]])
  BY <1>11 DEF Reachable
<1>13. DOMAIN tasks = 1..taken
  BY <1>9
<1> HIDE DEF tasks, left, cars, I, able, jobs
<1>14. Base'
  <2>1. /\ request' \in Request
        /\ list' \in Seq(ToSet(request'.tasks)) /\ Len(list') <= Len(request'.tasks)
        /\ work' \in Seq(DOMAIN list') /\ IsInjective(work')
        /\ crew' \in Seq(DOMAIN request'.fleet) /\ IsInjective(crew')
    BY <1>5, <1>7, <1>8, <1>9, <1>10, <1>11, <1>13
  <2>2. \A i \in Jobs' : From(Job(i)') # Nowhere /\ Drivable(Job(i)')
    BY <1>5, <1>12 DEF Jobs, Job
  <2>3. DOMAIN costs' = {}
    BY <1>1, <1>2
  <2> QED BY <2>1, <2>2, <2>3 DEF Base
<1>15. Opened'
  <2>1. phase' = "costs" => Len(crew') >= 1
    BY <1>5, <1>10
  <2> QED BY <1>1, <1>2, <1>5, <1>14, <2>1 DEF Opened
<1>16. Planning'
  <2>1. chains' = [v \in Cars' |-> <<>>] /\ chains' \in Chains'
    BY <1>5 DEF Cars, Chains
  <2> QED BY <1>1, <1>2, <1>5, <2>1 DEF Planning
<1> QED BY <1>1, <1>2, <1>5, <1>15, <1>16 DEF Invariant, NoAnswer

\* The invariant holds before a message is received,
LEMMA InvariantInit ==
  Init => Invariant
<1> SUFFICES ASSUME Init PROVE Invariant
  OBVIOUS
<1>1. Cars = {} /\ Jobs = {}
  BY DEF Init, Cars, Jobs
<1>2. chains \in Chains
  BY <1>1 DEF Init, Chains
<1>3. Opened
  BY DEF Init, Opened
<1>4. Planning
  BY <1>1, <1>2 DEF Init, Planning
<1> QED BY <1>3, <1>4 DEF Init, Invariant

\* and every step keeps it.
LEMMA InvariantStep ==
  Invariant /\ [Next]_vars => Invariant'
<1> SUFFICES ASSUME Invariant, [Next]_vars PROVE Invariant'
  OBVIOUS
<1>1. CASE UNCHANGED vars
  <2>1. UNCHANGED <<request, list, work, crew, costs>> /\ chains' = chains
    BY <1>1 DEF vars
  <2>2. Opened'
    BY <1>1, <2>1, Frame DEF Invariant, Opened, vars
  <2>3. Planning'
    BY <1>1, <2>1, Frame DEF Invariant, Planning, Arranged, vars
  <2>4. Concluded => Concluded'
    <3>1. Plain' <=> Plain
      BY <2>1, Frame
    <3> QED BY <1>1, <3>1 DEF Concluded, Answering, Tours, Once, Driven, Ended, Forced, vars
  <2> QED BY <1>1, <2>2, <2>3, <2>4 DEF Invariant, vars, NoAnswer
<1>2. CASE Receive
  BY <1>2, ReceiveKeeps
<1>3. CASE Refuse
  BY <1>3, RefuseKeeps
<1>4. CASE FillCosts
  BY <1>4, CostsKeep
<1>5. CASE GreedyRound
  BY <1>5, RoundKeeps
<1>6. CASE GreedyEnds
  BY <1>6, EndKeeps
<1>7. CASE GreedyRepair
  BY <1>7, GreedyRepairKeeps
<1>8. CASE FillMissing
  BY <1>8, FillKeeps
<1>9. CASE StartAnywhere
  BY <1>9, StartKeeps
<1>10. CASE Search
  BY <1>10, SearchKeeps
<1>11. CASE PostaRepair
  BY <1>11, PostaRepairKeeps
<1>12. CASE Publish
  BY <1>12, PublishKeeps
<1> QED BY <1>1, <1>2, <1>3, <1>4, <1>5, <1>6, <1>7, <1>8, <1>9, <1>10, <1>11, <1>12 DEF Next

\* The invariant of the pipeline.
THEOREM InvariantHolds == Spec => []Invariant
BY InvariantInit, InvariantStep, PTL DEF Spec

-----------------------------------------------------------------------------
(* The properties.                                                         *)

\* Every part of the pipeline works on tasks and vehicles that exist.
THEOREM TypeCorrect == Spec => []TypeOK
<1>1. Invariant => TypeOK
  <2> SUFFICES ASSUME Invariant PROVE TypeOK
    OBVIOUS
  <2>1. work \in Seq(DOMAIN list) /\ crew \in Seq(DOMAIN request.fleet)
    <3>1. CASE phase = "waiting"
      BY <3>1 DEF Invariant, Opened
    <3>2. CASE phase # "waiting"
      BY <3>2 DEF Invariant, Opened, Base
    <3> QED BY <3>1, <3>2
  <2>2. \A leg \in DOMAIN costs : /\ leg \in (Jobs \cup {First}) \X Jobs \X Cars
                                  /\ costs[leg] \in Int /\ costs[leg] < Inf
    <3>1. CASE phase = "waiting"
      BY <3>1 DEF Invariant, Opened
    <3>2. CASE phase # "waiting"
      <4>1. Base
        BY <3>2 DEF Invariant, Opened
      <4>2. \A leg \in DOMAIN costs : /\ leg \in (Jobs \cup {First}) \X Jobs \X Cars
                                      /\ costs[leg] \in Int /\ costs[leg] <= Longest
        BY <4>1 DEF Base
      <4>3. Longest \in Int /\ Inf \in Int /\ Longest < Inf
        BY NumberAssumption
      <4>4. \A c \in Int : c <= Longest => c < Inf
        BY <4>3
      <4> QED BY <4>2, <4>4
    <3> QED BY <3>1, <3>2
  <2>3. DOMAIN chains = Cars /\ Driven(chains) \subseteq Jobs /\ missing \cup spare \subseteq Jobs
    <3>1. chains \in [Cars -> Seq(Jobs)] /\ missing \in SUBSET Jobs /\ spare \in SUBSET Jobs
      BY DEF Invariant, Planning, Chains
    <3> QED BY <3>1, DrivenFacts
  <2>4. Driven(answer.routes) \cup answer.spare \subseteq DOMAIN list
    <3>1. CASE phase = "done"
      BY <3>1 DEF Invariant, Concluded
    <3>2. CASE phase # "done"
      <4>1. answer.routes = <<>> /\ answer.spare = {}
        BY <3>2 DEF Invariant, NoAnswer
      <4>2. DOMAIN <<>> = {}
        OBVIOUS
      <4> QED BY <4>1, <4>2 DEF Driven
    <3> QED BY <3>1, <3>2
  <2> QED BY <2>1, <2>2, <2>3, <2>4 DEF TypeOK, Invariant
<1> QED BY <1>1, InvariantHolds, PTL

\* When the answer is made, every leg of every chain is one the cost matrix has.
THEOREM KnownLegs == Spec => []LegsAreKnown
<1>1. Invariant => LegsAreKnown
  BY DEF Invariant, Planning, AllKnown, LegsAreKnown
<1> QED BY <1>1, InvariantHolds, PTL

\* The answer names every task of the batch.
THEOREM EveryTaskIsAnswered == Spec => []EveryTaskAnswered
<1>1. Invariant => EveryTaskAnswered
  BY DEF Invariant, Concluded, EveryTaskAnswered, Answered
<1> QED BY <1>1, InvariantHolds, PTL

\* No task is on two vehicles or twice on one, if no vehicle has limited endurance and
\* each can start with every task it can drive to after another.
THEOREM TasksAreDrivenOnce == Spec => []DrivenOnce
<1>1. Invariant => DrivenOnce
  <2> SUFFICES ASSUME Invariant, phase = "done", Plain PROVE OnOneVehicle
    BY DEF DrivenOnce, Plain, Answered
  <2>1. Once(answer.routes)
    BY DEF Invariant, Concluded
  <2> QED BY <2>1 DEF Once, OnOneVehicle
<1> QED BY <1>1, InvariantHolds, PTL

\* The vehicle a task ends up on may take it.
THEOREM OnlyEligible == Spec => []EligibleOnly
<1>1. Invariant => EligibleOnly
  <2> SUFFICES ASSUME Invariant, phase = "done", Ended
               PROVE  \A f \in DOMAIN answer.routes :
                         \A k \in ToSet(answer.routes[f]) \ ToSet(Forced) :
                            IsTaskValid(request.fleet[f], list[k])
    BY DEF EligibleOnly, Answered, Ended
  <2>1. Concluded
    BY DEF Invariant
  <2>2. DOMAIN answer.routes = DOMAIN request.fleet
    BY <2>1 DEF Concluded, Answering, Tours
  <2> QED BY <2>1, <2>2 DEF Concluded
<1> QED BY <1>1, InvariantHolds, PTL

=============================================================================
