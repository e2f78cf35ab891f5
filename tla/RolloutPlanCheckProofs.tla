----------------------- MODULE RolloutPlanCheckProofs -----------------------
(***************************************************************************)
(* The slices runRolling and runCanary cut are the batches a direct count  *)
(* of the positions gives, for every target list and batch size.           *)
(***************************************************************************)
EXTENDS RolloutPlanCheck, RolloutPlanProofs

\* What a stored deployment looks like: a list of targets that is not empty,
\* a strategy, and any number as its batch size.
Plan ==
  /\ d \in [targets: Seq(Nat), strategy: Strategies, batchSize: Int]
  /\ d.targets # <<>>

\* A quotient is found by its bounds.
LEMMA DivisionUnique ==
  ASSUME NEW m \in Nat, NEW s \in Nat \ {0}, NEW q \in Nat, q * s <= m, m < q * s + s
  PROVE  m \div s = q
<1> DEFINE r == m \div s
<1>1. r \in Nat /\ r * s <= m /\ m < r * s + s
  BY DivisionFacts
<1>2. (r + 1) * s = r * s + s /\ (q + 1) * s = q * s + s /\ r * s \in Int /\ q * s \in Int
  BY <1>1
<1> HIDE DEF r
<1>3. ~(r < q)
  <2>1. SUFFICES ASSUME r + 1 <= q PROVE FALSE
    BY <1>1
  <2>2. (r + 1) * s <= q * s
    BY <1>1, <2>1, ProductOrder
  <2>. QED
    BY <1>1, <1>2, <2>2
<1>4. ~(q < r)
  <2>1. SUFFICES ASSUME q + 1 <= r PROVE FALSE
    BY <1>1
  <2>2. (q + 1) * s <= r * s
    BY <1>1, <2>1, ProductOrder
  <2>. QED
    BY <1>1, <1>2, <2>2
<1>5. r = q
  BY <1>1, <1>3, <1>4
<1>. QED
  BY <1>5 DEF r

\* The slices of n positions after skip are the groups of s they are counted
\* off in.
LEMMA SliceIsGroup ==
  ASSUME NEW n \in Nat, NEW skip \in Nat, NEW s \in Nat \ {0},
         NEW k \in Nat \ {0}, NEW p \in 1..n, skip < p
  PROVE  p \in Slice(skip, n, s, k) <=> ((p - skip - 1) \div s) + 1 = k
<1> DEFINE m == p - skip - 1
           q == m \div s
<1>1. m \in Nat /\ k - 1 \in Nat
  OBVIOUS
<1>2. q \in Nat /\ q * s <= m /\ m < q * s + s
  BY <1>1, DivisionFacts
<1>3. k * s = (k - 1) * s + s /\ (k - 1) * s \in Int
  OBVIOUS
<1>4. ASSUME p \in Slice(skip, n, s, k)
      PROVE  q + 1 = k
  <2>1. (k - 1) * s <= m /\ m < (k - 1) * s + s
    BY <1>3, <1>4 DEF Slice
  <2>2. q = k - 1
    BY <1>1, <2>1, DivisionUnique
  <2>. QED
    BY <1>1, <2>2
<1>5. ASSUME q + 1 = k
      PROVE  p \in Slice(skip, n, s, k)
  <2>1. q = k - 1
    BY <1>2, <1>5
  <2> HIDE DEF q
  <2>2. (k - 1) * s <= m /\ m < (k - 1) * s + s
    BY <1>2, <2>1
  <2>3. skip + (k - 1) * s < p /\ p <= skip + k * s
    BY <1>3, <2>2
  <2>. QED
    BY <2>3 DEF Slice
<1>. QED
  BY <1>4, <1>5

\* No slice up to the last is empty: it begins before the end of the list.
LEMMA SliceNotEmpty ==
  ASSUME NEW n \in Nat, NEW skip \in Nat, skip < n, NEW s \in Nat \ {0},
         NEW k \in 1..BatchesFor(n - skip, s)
  PROVE  Slice(skip, n, s, k) # {}
<1> DEFINE b == BatchesFor(n - skip, s)
           p == skip + (k - 1) * s + 1
<1>1. b \in Nat /\ b * s <= n - skip + s - 1
  BY n - skip + s - 1 \in Nat, DivisionFacts DEF BatchesFor
<1>2. k \in Nat /\ k - 1 \in Nat /\ k * s = (k - 1) * s + s /\ (k - 1) * s \in Nat
  BY <1>1
<1>3. k * s <= b * s
  BY <1>1, <1>2, ProductOrder
<1>4. b * s \in Int
  BY <1>1
<1> HIDE DEF b
<1>5. p \in 1..n /\ skip + (k - 1) * s < p /\ p <= skip + k * s
  BY <1>1, <1>2, <1>3, <1>4
<1>. QED
  BY <1>5 DEF Slice

\* A position's group is not past the last one.
LEMMA GroupInRange ==
  ASSUME NEW n \in Nat, NEW skip \in Nat, NEW s \in Nat \ {0}, NEW p \in 1..n, skip < p
  PROVE  ((p - skip - 1) \div s) + 1 \in 1..BatchesFor(n - skip, s)
<1> DEFINE m == p - skip - 1
           q == m \div s
<1>1. m \in Nat /\ n - skip \in Nat \ {0} /\ m < n - skip
  OBVIOUS
<1>2. q \in Nat /\ q * s <= m /\ q * s \in Int
  BY <1>1, DivisionFacts
<1> HIDE DEF q
<1>3. q * s < n - skip
  BY <1>1, <1>2
<1>4. q + 1 <= BatchesFor(n - skip, s) /\ BatchesFor(n - skip, s) \in Nat
  BY <1>1, <1>2, <1>3, BatchesForFacts
<1>5. q + 1 \in 1..BatchesFor(n - skip, s)
  BY <1>2, <1>4
<1>. QED
  BY <1>5 DEF q

\* A tenth, but at least one, written in two ways.
LEMMA CanaryIsTenth ==
  ASSUME NEW n \in Nat
  PROVE  CanarySize(n) = (n \div 10) + (IF n < 10 THEN 1 ELSE 0)
<1>1. n \div 10 \in Nat /\ (n \div 10) * 10 <= n /\ n < (n \div 10) * 10 + 10
  BY DivisionFacts
<1>. QED
  BY <1>1 DEF CanarySize

-----------------------------------------------------------------------------
\* What Plan says in the terms of RolloutPlan.
LEMMA PlanFacts ==
  ASSUME Plan
  PROVE  /\ IsPlan(d) /\ Size(d) \in Nat \ {0}
         /\ BatchSize(d) \in Nat \ {0} /\ BatchCount(d) \in Nat \ {0}
<1>1. Len(d.targets) \in Nat \ {0}
  BY DEF Plan
<1>2. IsPlan(d)
  BY <1>1 DEF Plan, IsPlan, Size
<1>. QED
  BY <1>2, BatchSizeType, BatchCountType DEF IsPlan

\* runAllAtOnce: one batch with everything in it.
LEMMA AllAtOncePartition ==
  ASSUME Plan, Mode(d) = "all_at_once"
  PROVE  BatchesPartition
<1>1. \A p \in 1..Size(d) : BatchOf(p) = 1
  BY DEF BatchOf
<1>2. BatchCount(d) = 1 /\ Batch(d, 1) = 1..Size(d) /\ Size(d) \in Nat \ {0}
  BY PlanFacts DEF BatchCount, Batch
<1>. QED
  BY <1>1, <1>2 DEF BatchesPartition

\* runRolling: groups of the batch size.
LEMMA RollingPartition ==
  ASSUME Plan, Mode(d) = "rolling"
  PROVE  BatchesPartition
<1> DEFINE n == Size(d)
           s == BatchSize(d)
<1>1. n \in Nat \ {0} /\ s \in Nat \ {0} /\ BatchCount(d) \in Nat \ {0}
  BY PlanFacts
<1>2. BatchCount(d) = BatchesFor(n - 0, s) /\ \A k : Batch(d, k) = Slice(0, n, s, k)
  BY <1>1, n - 0 = n DEF BatchCount, Batch
<1>3. \A p \in 1..n : BatchOf(p) = ((p - 0 - 1) \div s) + 1
  <2> SUFFICES ASSUME NEW p \in 1..n PROVE BatchOf(p) = ((p - 0 - 1) \div s) + 1
    OBVIOUS
  <2>1. p - 0 - 1 = p - 1
    BY <1>1
  <2>. QED
    BY <2>1 DEF BatchOf
<1> HIDE DEF n, s
<1>4. ASSUME NEW k \in 1..BatchCount(d)
      PROVE  Batch(d, k) = {p \in 1..n : BatchOf(p) = k} /\ Batch(d, k) # {}
  <2>1. k \in Nat \ {0}
    BY <1>1
  <2>2. \A p \in 1..n : p \in Slice(0, n, s, k) <=> BatchOf(p) = k
    <3> SUFFICES ASSUME NEW p \in 1..n PROVE p \in Slice(0, n, s, k) <=> BatchOf(p) = k
      OBVIOUS
    <3>1. 0 < p
      BY <1>1
    <3>2. p \in Slice(0, n, s, k) <=> ((p - 0 - 1) \div s) + 1 = k
      BY <1>1, <2>1, <3>1, SliceIsGroup
    <3>. QED
      BY <1>3, <3>2
  <2>3. Slice(0, n, s, k) \subseteq 1..n
    BY DEF Slice
  <2>4. Slice(0, n, s, k) # {}
    BY <1>1, <1>2, <1>4, SliceNotEmpty
  <2>. QED
    BY <1>2, <2>2, <2>3, <2>4
<1>5. \A p \in 1..n : BatchOf(p) \in 1..BatchCount(d)
  <2> SUFFICES ASSUME NEW p \in 1..n PROVE BatchOf(p) \in 1..BatchCount(d)
    OBVIOUS
  <2>1. 0 < p
    BY <1>1
  <2>2. ((p - 0 - 1) \div s) + 1 \in 1..BatchesFor(n - 0, s)
    BY <1>1, <2>1, GroupInRange
  <2>. QED
    BY <1>2, <1>3, <2>2
<1>. QED
  BY <1>4, <1>5 DEF BatchesPartition, n

\* runCanary: the canary, then groups of the batch size.
LEMMA CanaryPartition ==
  ASSUME Plan, Mode(d) = "canary"
  PROVE  BatchesPartition
<1> DEFINE n == Size(d)
           s == BatchSize(d)
           c == CanarySize(n)
<1>1. n \in Nat \ {0} /\ s \in Nat \ {0} /\ BatchCount(d) \in Nat \ {0}
  BY PlanFacts
<1>2. c \in Nat \ {0} /\ c < n
  BY PlanFacts, ModeType, CanarySizeType
<1>3. /\ BatchCount(d) = 1 + BatchesFor(n - c, s)
      /\ Batch(d, 1) = 1..c
      /\ \A k \in Nat \ {0} : Batch(d, k + 1) = Slice(c, n, s, k)
  <2>1. BatchCount(d) = 1 + BatchesFor(n - c, s) /\ Batch(d, 1) = 1..c
    BY DEF BatchCount, Batch
  <2>2. ASSUME NEW k \in Nat \ {0} PROVE Batch(d, k + 1) = Slice(c, n, s, k)
    BY k + 1 # 1, (k + 1) - 1 = k DEF Batch
  <2>. QED
    BY <2>1, <2>2
<1>4. \A p \in 1..n : BatchOf(p) = IF p <= c THEN 1 ELSE ((p - c - 1) \div s) + 2
  <2> SUFFICES ASSUME NEW p \in 1..n
               PROVE  BatchOf(p) = IF p <= c THEN 1 ELSE ((p - c - 1) \div s) + 2
    OBVIOUS
  <2>1. c = (n \div 10) + (IF n < 10 THEN 1 ELSE 0)
    BY <1>1, CanaryIsTenth
  <2>2. p <= c \/ p > c
    BY <1>2
  <2>3. ~(p <= c /\ p > c)
    BY <1>2
  <2> HIDE DEF c
  <2>. QED
    BY <2>1, <2>2, <2>3 DEF BatchOf
<1>5. BatchesFor(n - c, s) \in Nat \ {0}
  BY <1>1, <1>2, n - c \in Nat \ {0}, BatchesForFacts
<1> HIDE DEF n, s, c
<1>6. \A p \in 1..n : p > c => ((p - c - 1) \div s) + 1 \in 1..BatchesFor(n - c, s)
  BY <1>1, <1>2, GroupInRange
<1>7. \A p \in 1..n : p > c => ((p - c - 1) \div s) \in Nat
  <2> SUFFICES ASSUME NEW p \in 1..n, p > c PROVE (p - c - 1) \div s \in Nat
    OBVIOUS
  <2>1. p - c - 1 \in Nat
    BY <1>2
  <2>. QED
    BY <1>1, <2>1, DivisionFacts
<1>8. ASSUME NEW k \in 1..BatchCount(d)
      PROVE  Batch(d, k) = {p \in 1..n : BatchOf(p) = k} /\ Batch(d, k) # {}
  <2>1. CASE k = 1
    <3>1. \A p \in 1..n : BatchOf(p) = 1 <=> p <= c
      BY <1>2, <1>4, <1>7
    <3>2. {p \in 1..n : BatchOf(p) = 1} = 1..c
      BY <1>1, <1>2, <3>1
    <3>3. 1 \in 1..c
      BY <1>2
    <3>. QED
      BY <1>3, <2>1, <3>2, <3>3
  <2>2. CASE k # 1
    <3> DEFINE j == k - 1
    <3>1. j \in 1..BatchesFor(n - c, s) /\ j \in Nat \ {0} /\ k = j + 1
      BY <1>1, <1>3, <1>5, <2>2
    <3> HIDE DEF j
    <3>2. Batch(d, k) = Slice(c, n, s, j) /\ Slice(c, n, s, j) \subseteq 1..n
      BY <1>3, <3>1 DEF Slice
    <3>3. \A p \in 1..n : p \in Slice(c, n, s, j) <=> BatchOf(p) = k
      <4> SUFFICES ASSUME NEW p \in 1..n PROVE p \in Slice(c, n, s, j) <=> BatchOf(p) = k
        OBVIOUS
      <4>1. CASE p <= c
        <5>1. BatchOf(p) = 1
          BY <1>4, <4>1
        <5>2. p \notin Slice(c, n, s, j)
          BY <1>1, <1>2, <3>1, <4>1, SliceFacts
        <5>. QED
          BY <2>2, <5>1, <5>2
      <4>2. CASE p > c
        <5>1. BatchOf(p) = ((p - c - 1) \div s) + 2 /\ (p - c - 1) \div s \in Nat
          BY <1>2, <1>4, <1>7, <4>2
        <5>2. p \in Slice(c, n, s, j) <=> ((p - c - 1) \div s) + 1 = j
          BY <1>1, <1>2, <3>1, <4>2, SliceIsGroup
        <5>. QED
          BY <3>1, <5>1, <5>2
      <4>. QED
        BY <1>2, <4>1, <4>2
    <3>4. Slice(c, n, s, j) # {}
      BY <1>1, <1>2, <3>1, SliceNotEmpty
    <3>. QED
      BY <3>2, <3>3, <3>4
  <2>. QED
    BY <2>1, <2>2
<1>9. \A p \in 1..n : BatchOf(p) \in 1..BatchCount(d)
  <2> SUFFICES ASSUME NEW p \in 1..n PROVE BatchOf(p) \in 1..BatchCount(d)
    OBVIOUS
  <2>1. CASE p <= c
    BY <1>1, <1>4, <2>1
  <2>2. CASE p > c
    <3> DEFINE q == (p - c - 1) \div s
               b == BatchesFor(n - c, s)
    <3>1. q \in Nat /\ q + 1 \in 1..b /\ b \in Nat /\ BatchCount(d) = 1 + b
      BY <1>3, <1>5, <1>6, <1>7, <2>2
    <3>2. BatchOf(p) = q + 2
      BY <1>2, <1>4, <2>2
    <3> HIDE DEF q, b
    <3>. QED
      BY <3>1, <3>2
  <2>. QED
    BY <1>2, <2>1, <2>2
<1>. QED
  BY <1>8, <1>9 DEF BatchesPartition, n

\* runAllAtOnce, runRolling and runCanary cut every target list into batches
\* that partition it, in order, none of them empty and none past the last, for
\* every length, batch size and strategy (BatchesPartition).
THEOREM BatchesArePartition == Spec => []BatchesPartition
<1>1. Init => Plan
  <2> SUFFICES ASSUME Init PROVE Plan
    OBVIOUS
  <2>1. <<1>> \in Seq(Nat) /\ <<1>> # <<>> /\ -1..MaxBatchSize \subseteq Int
    BY PlanAssumption
  <2>. QED
    BY <2>1 DEF Init, Plan
<1>2. Plan /\ [AddTarget]_d => Plan'
  <2> SUFFICES ASSUME Plan, AddTarget PROVE Plan'
    BY DEF Plan
  <2>1. Len(d.targets) + 1 \in Nat
    BY DEF Plan
  <2>2. Append(d.targets, Len(d.targets) + 1) \in Seq(Nat)
        /\ Append(d.targets, Len(d.targets) + 1) # <<>>
    BY <2>1 DEF Plan
  <2>3. d' = [d EXCEPT !.targets = Append(d.targets, Len(d.targets) + 1)]
    BY DEF AddTarget, Size
  <2>. QED
    BY <2>2, <2>3 DEF Plan
<1>3. Plan => BatchesPartition
  BY PlanFacts, ModeType, AllAtOncePartition, RollingPartition, CanaryPartition
<1>. QED
  BY <1>1, <1>2, <1>3, PTL DEF Spec

=============================================================================
