---------------------------- MODULE RolloutPlan ----------------------------
(***************************************************************************)
(* How a deployment's target list is cut into batches                      *)
(* (internal/fleet/runner.go: runAllAtOnce, runRolling, runCanary).        *)
(*                                                                         *)
(* A deployment d is a record with at least the fields                     *)
(*   targets    the resolved TargetInstances, a sequence of instance IDs   *)
(*   strategy   the stored strategy string                                 *)
(*   batchSize  the stored BatchSize, any integer                          *)
(* A batch is a set of positions of d.targets (the code's slice bounds,    *)
(* shifted by one because TLA+ sequences start at 1).                      *)
(***************************************************************************)
EXTENDS Integers, Sequences

Size(d) == Len(d.targets)

\* The strategy that really runs: canary needs two instances, and a string
\* the switch does not know falls into its default branch.
Mode(d) ==
  IF d.strategy = "all_at_once" \/ (d.strategy = "canary" /\ Size(d) < 2)
    THEN "all_at_once"
    ELSE IF d.strategy = "canary" THEN "canary" ELSE "rolling"

BatchSize(d) == IF d.batchSize <= 0 THEN 1 ELSE d.batchSize

CanarySize(n) == IF n \div 10 < 1 THEN 1 ELSE n \div 10

\* Fault (see DeploymentRunner): the last, shorter batch is forgotten.
FaultyBatchesFor(n, size) == n \div size

\* (len + size - 1) / size in Go's integer division, both operands positive.
BatchesFor(n, size) == (n + size - 1) \div size

\* Fault: a slice starts with the position the one before ended with.
FaultySlice(skip, n, size, k) ==
  {p \in 1..n : skip + (k - 1) * size <= p /\ p <= skip + k * size}

\* The k-th slice (k from 1) of the n positions after `skip`.
Slice(skip, n, size, k) ==
  {p \in 1..n : skip + (k - 1) * size < p /\ p <= skip + k * size}

BatchCount(d) ==
  IF Mode(d) = "all_at_once" THEN 1
  ELSE IF Mode(d) = "rolling" THEN BatchesFor(Size(d), BatchSize(d))
  ELSE 1 + BatchesFor(Size(d) - CanarySize(Size(d)), BatchSize(d))

Batch(d, k) ==
  IF Mode(d) = "all_at_once" THEN 1..Size(d)
  ELSE IF Mode(d) = "rolling" THEN Slice(0, Size(d), BatchSize(d), k)
  ELSE IF k = 1 THEN 1..CanarySize(Size(d))
  ELSE Slice(CanarySize(Size(d)), Size(d), BatchSize(d), k - 1)

=============================================================================
