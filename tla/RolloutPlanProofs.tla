------------------------- MODULE RolloutPlanProofs -------------------------
(***************************************************************************)
(* The batches of a deployment, for every target list and batch size: they *)
(* are ranges of positions, no two of them meet, and every position is in  *)
(* one of them.                                                            *)
(***************************************************************************)
EXTENDS RolloutPlan, TLAPS

\* What resolveTargets and CreateDeployment guarantee of a stored deployment.
IsPlan(d) == Size(d) \in Nat \ {0} /\ d.batchSize \in Int

\* Go's integer division of operands that are not negative rounds down.
LEMMA DivisionFacts ==
  ASSUME NEW n \in Nat, NEW s \in Nat \ {0}
  PROVE  /\ n \div s \in Nat
         /\ (n \div s) * s <= n
         /\ n < (n \div s) * s + s
OBVIOUS

\* The bounds of a slice grow with its number.
LEMMA ProductOrder ==
  ASSUME NEW m \in Nat, NEW n \in Nat, NEW s \in Nat, m <= n
  PROVE  m * s <= n * s
OBVIOUS

\* n positions are cut into at least one batch; with q full batches before it,
\* the batch of a position is not past the last.
LEMMA BatchesForFacts ==
  ASSUME NEW n \in Nat \ {0}, NEW s \in Nat \ {0}
  PROVE  /\ BatchesFor(n, s) \in Nat \ {0}
         /\ \A q \in Nat : q * s < n => q + 1 <= BatchesFor(n, s)
<1> DEFINE b == (n + s - 1) \div s
<1>1. /\ b \in Nat
      /\ b * s <= n + s - 1
      /\ n + s - 1 < b * s + s
  BY n + s - 1 \in Nat, DivisionFacts
<1>2. b # 0
  BY <1>1
<1>3. ASSUME NEW q \in Nat, q * s < n
      PROVE  q + 1 <= b
  <2>1. SUFFICES ASSUME b <= q PROVE FALSE
    BY <1>1
  <2>2. b * s <= q * s
    BY <1>1, <2>1, ProductOrder
  <2>. QED
    BY <1>1, <1>3, <2>2
<1>. QED
  BY <1>1, <1>2, <1>3 DEF BatchesFor

\* The slice loop of runRolling, over what is left after the canary.
LEMMA SliceFacts ==
  ASSUME NEW n \in Nat \ {0}, NEW skip \in Nat, skip < n, NEW s \in Nat \ {0}
  PROVE  /\ \A j, k \in Nat \ {0} : j < k => Slice(skip, n, s, j) \cap Slice(skip, n, s, k) = {}
         /\ \A k \in Nat \ {0} : \A p \in Slice(skip, n, s, k) : skip < p /\ p \in 1..n
         /\ \A p \in (skip + 1)..n :
              \E k \in 1..BatchesFor(n - skip, s) : p \in Slice(skip, n, s, k)
<1>1. ASSUME NEW j \in Nat \ {0}, NEW k \in Nat \ {0}, j < k
      PROVE  Slice(skip, n, s, j) \cap Slice(skip, n, s, k) = {}
  <2>1. j * s <= (k - 1) * s
    BY <1>1, k - 1 \in Nat, ProductOrder
  <2>2. j * s \in Int /\ (k - 1) * s \in Int
    OBVIOUS
  <2>. QED
    BY <2>1, <2>2 DEF Slice
<1>2. ASSUME NEW k \in Nat \ {0}, NEW p \in Slice(skip, n, s, k)
      PROVE  skip < p /\ p \in 1..n
  <2>1. 0 <= (k - 1) * s /\ (k - 1) * s \in Int
    OBVIOUS
  <2>. QED
    BY <2>1 DEF Slice
<1>3. ASSUME NEW p \in (skip + 1)..n
      PROVE  \E k \in 1..BatchesFor(n - skip, s) : p \in Slice(skip, n, s, k)
  <2> DEFINE m == p - skip - 1
             q == m \div s
  <2>1. m \in Nat /\ n - skip \in Nat \ {0} /\ m < n - skip
    OBVIOUS
  <2>2. q \in Nat /\ q * s <= m /\ m < q * s + s
    BY <2>1, DivisionFacts
  <2>3. q * s \in Int /\ (q + 1) * s = q * s + s
    BY <2>2
  <2>4. q + 1 <= BatchesFor(n - skip, s) /\ BatchesFor(n - skip, s) \in Nat
    <3>1. q * s < n - skip
      BY <2>1, <2>2, <2>3
    <3> HIDE DEF q
    <3>. QED
      BY <2>1, <2>2, <3>1, BatchesForFacts
  <2>3a. p \in Slice(skip, n, s, q + 1)
    <3>1. (q + 1) - 1 = q
      BY <2>2
    <3>2. skip + q * s < p /\ p <= skip + (q + 1) * s
      BY <2>2, <2>3
    <3>. QED
      BY <3>1, <3>2 DEF Slice
  <2>. QED
    BY <2>2, <2>4, <2>3a
<1>. QED
  BY <1>1, <1>2, <1>3

\* runRolling never divides by zero: a batch size of zero or less becomes one.
LEMMA BatchSizeType ==
  ASSUME NEW d, IsPlan(d)
  PROVE  BatchSize(d) \in Nat \ {0}
BY DEF IsPlan, BatchSize

\* Run's switch: a canary of fewer than two targets is run all at once.
LEMMA ModeType ==
  ASSUME NEW d, IsPlan(d)
  PROVE  /\ Mode(d) \in {"all_at_once", "rolling", "canary"}
         /\ Mode(d) = "canary" => Size(d) >= 2
BY DEF IsPlan, Mode

\* The canary batch is not empty and leaves something for the others.
LEMMA CanarySizeType ==
  ASSUME NEW n \in Nat, n >= 2
  PROVE  CanarySize(n) \in Nat \ {0} /\ CanarySize(n) < n
<1>1. n \div 10 \in Nat /\ (n \div 10) * 10 <= n
  BY DivisionFacts
<1>. QED
  BY <1>1 DEF CanarySize

\* There is at least one batch.
LEMMA BatchCountType ==
  ASSUME NEW d, IsPlan(d)
  PROVE  BatchCount(d) \in Nat \ {0}
<1>1. CASE Mode(d) = "all_at_once"
  BY <1>1 DEF BatchCount
<1>2. CASE Mode(d) = "rolling"
  BY <1>2, BatchSizeType, BatchesForFacts DEF BatchCount, IsPlan
<1>3. CASE Mode(d) = "canary"
  <2>1. Size(d) - CanarySize(Size(d)) \in Nat \ {0}
    BY <1>3, ModeType, CanarySizeType DEF IsPlan
  <2>2. BatchesFor(Size(d) - CanarySize(Size(d)), BatchSize(d)) \in Nat \ {0}
    BY <2>1, BatchSizeType, BatchesForFacts
  <2>. QED
    BY <1>3, <2>2 DEF BatchCount
<1>. QED
  BY <1>1, <1>2, <1>3, ModeType

\* A batch holds positions of the target list.
LEMMA BatchInRange ==
  ASSUME NEW d, IsPlan(d), NEW k
  PROVE  Batch(d, k) \subseteq 1..Size(d)
<1>1. CASE Mode(d) = "canary"
  <2>1. CanarySize(Size(d)) \in Nat /\ CanarySize(Size(d)) < Size(d)
    BY <1>1, ModeType, CanarySizeType DEF IsPlan
  <2>. QED
    BY <1>1, <2>1 DEF Batch, Slice, IsPlan
<1>2. CASE Mode(d) \in {"all_at_once", "rolling"}
  BY <1>2 DEF Batch, Slice
<1>. QED
  BY <1>1, <1>2, ModeType

\* Two batches have no position in common (runRolling's and runCanary's slice
\* bounds do not overlap).
THEOREM BatchesDisjoint ==
  ASSUME NEW d, IsPlan(d), NEW j \in 1..BatchCount(d), NEW k \in 1..BatchCount(d), j < k
  PROVE  Batch(d, j) \cap Batch(d, k) = {}
<1> DEFINE c == CanarySize(Size(d))
<1>0. Size(d) \in Nat \ {0} /\ BatchSize(d) \in Nat \ {0} /\ BatchCount(d) \in Nat
  BY BatchSizeType, BatchCountType DEF IsPlan
<1>1. CASE Mode(d) = "all_at_once"
  BY <1>1 DEF BatchCount
<1>2. CASE Mode(d) = "rolling"
  <2>1. j \in Nat \ {0} /\ k \in Nat \ {0}
    BY <1>0
  <2>. QED
    BY <1>0, <1>2, <2>1, 0 < Size(d), SliceFacts DEF Batch
<1>3. CASE Mode(d) = "canary"
  <2>1. c \in Nat \ {0} /\ c < Size(d)
    BY <1>3, ModeType, CanarySizeType DEF IsPlan
  <2>2. Batch(d, k) = Slice(c, Size(d), BatchSize(d), k - 1) /\ k - 1 \in Nat \ {0}
    BY <1>0, <1>3 DEF Batch
  <2> HIDE DEF c
  <2>3. /\ \A i, l \in Nat \ {0} : i < l =>
             Slice(c, Size(d), BatchSize(d), i) \cap Slice(c, Size(d), BatchSize(d), l) = {}
        /\ \A i \in Nat \ {0} : \A p \in Slice(c, Size(d), BatchSize(d), i) :
             c < p /\ p \in 1..Size(d)
    BY <1>0, <2>1, SliceFacts
  <2>4. CASE j = 1
    <3>1. Batch(d, j) = 1..c
      BY <1>3, <2>4 DEF Batch, c
    <3>2. \A p \in Batch(d, k) : c < p /\ p \in Int
      BY <1>0, <2>2, <2>3
    <3>. QED
      BY <2>1, <3>1, <3>2
  <2>5. CASE j # 1
    <3>1. Batch(d, j) = Slice(c, Size(d), BatchSize(d), j - 1)
          /\ j - 1 \in Nat \ {0} /\ j - 1 < k - 1
      BY <1>0, <1>3, <2>5 DEF Batch, c
    <3>. QED
      <4>1. \A i, l \in Nat \ {0} : i < l =>
               Slice(c, Size(d), BatchSize(d), i) \cap Slice(c, Size(d), BatchSize(d), l) = {}
        BY <2>3
      <4>. QED
        BY <2>2, <3>1, <4>1
  <2>. QED
    BY <2>4, <2>5
<1>. QED
  BY <1>1, <1>2, <1>3, ModeType

\* Every target is in a batch: none is forgotten by the last, shorter slice.
THEOREM BatchesCover ==
  ASSUME NEW d, IsPlan(d), NEW p \in 1..Size(d)
  PROVE  \E k \in 1..BatchCount(d) : p \in Batch(d, k)
<1> DEFINE c == CanarySize(Size(d))
<1>0. Size(d) \in Nat \ {0} /\ BatchSize(d) \in Nat \ {0} /\ BatchCount(d) \in Nat \ {0}
  BY BatchSizeType, BatchCountType DEF IsPlan
<1>1. CASE Mode(d) = "all_at_once"
  BY <1>0, <1>1, p \in Batch(d, 1) DEF BatchCount, Batch
<1>2. CASE Mode(d) = "rolling"
  <2>1. p \in (0 + 1)..Size(d) /\ Size(d) - 0 = Size(d)
    BY <1>0
  <2>2. PICK k \in 1..BatchesFor(Size(d) - 0, BatchSize(d)) :
                  p \in Slice(0, Size(d), BatchSize(d), k)
    BY <1>0, <2>1, 0 < Size(d), SliceFacts
  <2>. QED
    BY <1>2, <2>1, <2>2 DEF Batch, BatchCount
<1>3. CASE Mode(d) = "canary"
  <2>1. c \in Nat \ {0} /\ c < Size(d)
    BY <1>3, ModeType, CanarySizeType DEF IsPlan
  <2>2. CASE p <= c
    <3>1. p \in Batch(d, 1)
      BY <1>3, <2>1, <2>2 DEF Batch
    <3>. QED
      BY <1>0, <3>1
  <2>3. CASE p > c
    <3>1. p \in (c + 1)..Size(d)
      BY <1>0, <2>1, <2>3
    <3>2. PICK k \in 1..BatchesFor(Size(d) - c, BatchSize(d)) :
                    p \in Slice(c, Size(d), BatchSize(d), k)
      BY <1>0, <2>1, <3>1, SliceFacts
    <3>3. BatchesFor(Size(d) - c, BatchSize(d)) \in Nat
      BY <1>0, <2>1, BatchesForFacts, Size(d) - c \in Nat \ {0}
    <3>4. k + 1 \in 1..BatchCount(d)
      BY <1>3, <3>2, <3>3 DEF BatchCount
    <3>5. p \in Batch(d, k + 1)
      BY <1>3, <3>2, <3>3, (k + 1) - 1 = k, k + 1 # 1 DEF Batch
    <3>. QED
      BY <3>4, <3>5
  <2>. QED
    BY <1>0, <2>1, <2>2, <2>3
<1>. QED
  BY <1>1, <1>2, <1>3, ModeType

=============================================================================
