-------------------------- MODULE RolloutPlanCheck --------------------------
(***************************************************************************)
(* Compares the slices of RolloutPlan with a direct definition of which    *)
(* batch a position belongs to, on every plan within the bounds.           *)
(***************************************************************************)
EXTENDS RolloutPlan

CONSTANTS MaxSize, MaxBatchSize, Strategies

ASSUME PlanAssumption == MaxSize \in Nat /\ MaxBatchSize \in Nat

VARIABLE d      \* the deployment looked at; its target list grows

Init == d \in [targets: {<<1>>}, strategy: Strategies, batchSize: -1..MaxBatchSize]

AddTarget ==
  /\ Size(d) < MaxSize
  /\ d' = [d EXCEPT !.targets = Append(@, Size(d) + 1)]

Spec == Init /\ [][AddTarget]_d

\* The batch position p belongs to: a tenth of the targets (at least one) is
\* the canary, and the others are counted off in groups of the batch size.
BatchOf(p) ==
  LET canary == (Size(d) \div 10) + (IF Size(d) < 10 THEN 1 ELSE 0)
  IN CASE Mode(d) = "all_at_once"                -> 1
       [] Mode(d) = "rolling"                    -> ((p - 1) \div BatchSize(d)) + 1
       [] Mode(d) = "canary" /\ p <= canary      -> 1
       [] Mode(d) = "canary" /\ p > canary       ->
            ((p - canary - 1) \div BatchSize(d)) + 2

\* The slices runRolling and runCanary cut cover every target exactly once, in
\* order, with no empty batch and none past the last: the arithmetic at the
\* last, shorter batch and at the canary's size is right.
BatchesPartition ==
  /\ \A k \in 1..BatchCount(d) :
       Batch(d, k) = {p \in 1..Size(d) : BatchOf(p) = k} /\ Batch(d, k) # {}
  /\ \A p \in 1..Size(d) : BatchOf(p) \in 1..BatchCount(d)

=============================================================================
